SPECIFICATION Spec
CONSTANTS
  Client = {c1}
  Thresh = 2
  NullsThresh = 1
  RecvMax = 1
  Room = 1
  PeerSends <- MCPeerSends
  ClientSends = 1
  UpstreamSends = 1
  CanReset = {"client", "upstream"}
  FileSize = 2
  Outcomes = {"proxy"}
  FreedReads = {"callback", "nothing"}
  MaxEvents = 4
INVARIANTS
  OutFromLiveEvent
