SPECIFICATION DSpec
CONSTANTS
  Requests = {r1}
  Views = {"plain", "edit_names"}
  PlainTypes = {"delete_site"}
  Slugs <- MCSlugs
  Recoverable <- MCRecoverable
  Plans <- MCPlans
  Names = {alpha}
  MaxDb = 2
  MaxActions = 8
  MaxSegments = 3
  MaxOps = 2
  Faults = FALSE
INVARIANTS
  DeleteDeletes
CHECK_DEADLOCK FALSE
