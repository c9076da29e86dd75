SPECIFICATION RequestSpec
CONSTANTS
  NULL = NULL
  Host <- MCHost
  Character = {"/", "a", "b", "i", "p", "s", "x"}
  Text <- MCText
  Documents <- MCDocuments
  Cwd <- MCCwd
  Public <- MCPublic
  Nodes <- MCNodes
  FileSystems <- MCFileSystems
  MaxChanges = 0
  Paths <- MCPaths
  RequestHosts = {"h1", "h2"}
  ClientIPs = {"ip1", "ip2"}
  PageRoom = 9
  HeadSize = 3
  RowSize <- MCRowSize
  FootSize = 2
INVARIANTS
  AccessFollowsLists
