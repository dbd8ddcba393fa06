SPECIFICATION DSpec
CONSTANTS
  Requests = {r1}
  Views = {"plain", "reset_operations"}
  PlainTypes = {"rename_site", "change_site_type", "create_site_database", "update_availability"}
  Slugs <- MCSlugs
  Recoverable <- MCRecoverable
  Plans <- MCPlans
  Names = {alpha, beta}
  MaxDb = 2
  MaxActions = 8
  MaxSegments = 3
  MaxOps = 2
  Faults = FALSE
INVARIANTS
  DTypeOK
  NoSilentDrift
  SupersededTaskStops
SYMMETRY MCSymmetry
CHECK_DEADLOCK FALSE
