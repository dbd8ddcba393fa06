SPECIFICATION FilesSpec
CONSTANTS
  Paths <- MCPaths
  Public <- MCPublic
  MaxInputs = 3
  NumMonitors = 2
  MaxMessages = 3
  FileRequests = {r1, r2}
  Entries <- MCEntries
  Chunks = 2
  MaxSize = 1
  NumAppservers = 3
  MaxBuffer = 3
  MaxChunk = 2
  MaxTyped = 4
INVARIANTS
  FilesTypeOK
  PaneSettles
  ForwardedInOrder
  EndsTogether
  AnswersAreTrue
  OldSurvives
  DownloadsAreWhole
  TypedAheadIsKept
  SessionIsRouted
  ProxyInOrder
SYMMETRY FilesSymmetry
CHECK_DEADLOCK FALSE
