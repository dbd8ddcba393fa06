SPECIFICATION Spec
CONSTANTS
  Requests = {r1, r2}
  Views = {"create", "plain", "edit_names", "fix_sites", "edit_meta"}
  PlainTypes = {"delete_site", "delete_site_database"}
  Slugs <- MCSlugs
  Recoverable <- MCRecoverable
  Plans <- MCPlans
  MaxActions = 3
  MaxSegments = 1
  MaxOps = 3
  Faults = TRUE
INVARIANTS
  NoOrphanOperation
  DeletedAfterWipe
SYMMETRY MCSymmetry
CHECK_DEADLOCK FALSE
