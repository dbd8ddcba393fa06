SPECIFICATION StatusSpec
CONSTANTS
  Pages = {p1}
  MaxChanges = 2
  MaxLost = 1
INVARIANTS
  DeletedIsShown
CHECK_DEADLOCK FALSE
