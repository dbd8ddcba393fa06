SPECIFICATION DSpec
CONSTANTS
  Requests = {r1, r2}
  Views = {"plain", "edit_names", "edit_meta", "fix_sites"}
  PlainTypes = {"delete_site", "create_site_database"}
  Slugs <- MCSlugs
  Recoverable <- MCRecoverable
  Plans <- MCPlans
  Names = {alpha}
  MaxDb = 2
  MaxActions = 8
  MaxSegments = 3
  MaxOps = 2
  Faults = TRUE
INVARIANTS
  DeletedIsWiped
SYMMETRY MCSymmetry
CHECK_DEADLOCK FALSE
