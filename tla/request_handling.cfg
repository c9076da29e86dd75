SPECIFICATION RequestFairSpec
CONSTANTS
  NULL = NULL
  Host <- MCHost
  Character = {"/", "a", "b", "i", "p", "s", "x"}
  Text <- MCText
  Documents <- MCDocuments
  Cwd <- MCCwd
  Public <- MCPublic
  Nodes <- MCNodes
  FileSystems <- MCFileSystems
  MaxChanges = 2
  Paths <- MCPaths
  RequestHosts = {"h1", "h2"}
  ClientIPs = {"ip1"}
  PageRoom = 9
  HeadSize = 3
  RowSize <- MCRowSize
  FootSize = 2
INVARIANTS
  RequestTypeOK
  OneListenerPerAddress
  DeepestRouteAnswers
  QuietAnswerIsExpected
  NothingMadeUp
  PageMissesNothing
PROPERTIES
  EveryRequestEnds
