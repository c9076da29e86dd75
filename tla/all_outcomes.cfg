SPECIFICATION Spec
CONSTANTS
  Client = {c1}
  Thresh = 2
  NullsThresh = 1
  RecvMax = 2
  Room = 1
  PeerSends <- MCPeerSends
  ClientSends = 4
  UpstreamSends = 1
  CanReset = {"client"}
  FileSize = 6
  Outcomes = {"bad", "reply", "file", "proxy", "invalid"}
  FreedReads = {"callback", "nothing"}
  MaxEvents = 4
INVARIANTS
  ResponseNotLost
  ResponseComplete
  RequestNotLost
  RequestFromLiveClient
  ReadyFollowsBuffers
  UpstreamConnectedIsReal
