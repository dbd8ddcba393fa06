SPECIFICATION SessionsSpec
CONSTANTS
  Terminals = {t1, t2}
  SSHSessions = {t2}
  NumHosts = 2
  MaxPushes = 1
  MaxFailures = 2
  MaxLines = 4
  Tail10 = 2
  NumLogHosts = 2
  MaxBreaks = 2
  Pages = {p1}
  MaxChanges = 2
  MaxLost = 2
INVARIANTS
  SessionsTypeOK
  FreshImage
  RefusedByAll
  EachLineOnce
  ShownIsCurrent
PROPERTIES
  OnlyPushesCut
  LeftSessionsEnd
  LinesArrive
  PagesCatchUp
CHECK_DEADLOCK FALSE
