SPECIFICATION Spec
CONSTANTS
  NumAppservers = 3
  MaxBuffer = 3
  MaxChunk = 2
  MaxTyped = 3
INVARIANTS
  TypedIsDelivered
CHECK_DEADLOCK FALSE
