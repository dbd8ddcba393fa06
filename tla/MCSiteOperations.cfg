SPECIFICATION FairSpec
CONSTANTS
  Requests = {r1, r2}
  Views = {"plain", "image_select", "reset_operations", "operation_delete_fix"}
  PlainTypes = {"delete_site_database"}
  Slugs <- MCSlugs
  Recoverable <- MCRecoverable
  Plans <- MCPlans
  MaxActions = 2
  MaxSegments = 1
  MaxOps = 2
  Faults = FALSE
INVARIANTS
  NoOrphanOperation
  OnlyFinishedReplaced
PROPERTIES
  ImplementsSlot
  OperationSettles
CHECK_DEADLOCK FALSE
