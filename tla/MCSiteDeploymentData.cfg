SPECIFICATION DSpec
CONSTANTS
  Requests = {r1}
  Views = {"create", "plain", "image_select", "operation_delete_fix"}
  PlainTypes = {"create_site_database", "delete_site_database", "regen_site_secrets"}
  Slugs <- MCSlugs
  Recoverable <- MCRecoverable
  Plans <- MCPlans
  Names = {alpha}
  MaxDb = 3
  MaxActions = 8
  MaxSegments = 3
  MaxOps = 3
  Faults = FALSE
INVARIANTS
  DatabaseAsserted
  RowsAreLinked
CHECK_DEADLOCK FALSE
