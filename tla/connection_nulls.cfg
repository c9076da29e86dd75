SPECIFICATION CoreSpec
CONSTANTS
  Client = {c1, c2}
  NULL = NULL
  Listener = Listener
  Thresh = 2
  NullsThresh = 1
  RecvMax = 1
  Room = 1
  PeerSends <- MCPeerSends
  ClientSends = 1
  UpstreamSends = 0
  CanReset = {"client"}
  FileSize = 1
  Outcomes = {"proxy"}
  FreedReads = {"callback"}
  MaxEvents = 1
INVARIANTS
  ConnectionNullsFiltered
