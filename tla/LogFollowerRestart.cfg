SPECIFICATION FollowSpec
CONSTANTS
  MaxLines = 2
  Tail10 = 1
  NumLogHosts = 1
  MaxBreaks = 1
INVARIANT LeftLinesAreRead
CHECK_DEADLOCK FALSE
