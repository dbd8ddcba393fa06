SPECIFICATION HostsSpec
CONSTANTS
  NginxSites = {s1, s2}
  Appservers = {b1, b2}
  MaxConfigs = 2
  MaxTimeouts = 1
  Requests = {r1, r2, r3}
  DBMSs = {"postgres", "mysql"}
  MaxErrors = 2
  Names = {d1, d2}
  Owners = {s1, s2}
  NoSite = NoSite
  Balancers = {b1, b2}
  MaxEdits = 3
  MaxBlocks = 1
  MaxOutages = 1
  Teachers = {t1, t2}
  Admins = {a1, a2}
SYMMETRY Interchangeable
INVARIANTS
  HostsTypeOK
  ReportsAreTrue
  NoWrongFileLeft
  DatabaseOutcome
  OneOwner
  OwnedIsServed
  TeacherIsHeard
PROPERTIES
  NotTaken
CHECK_DEADLOCK FALSE
