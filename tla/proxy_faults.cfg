SPECIFICATION Spec
CONSTANTS
  Client = {c1}
  Thresh = 2
  NullsThresh = 1
  RecvMax = 2
  Room = 1
  PeerSends <- MCPeerSends
  ClientSends = 1
  UpstreamSends = 6
  CanReset = {"client", "upstream"}
  FileSize = 2
  Outcomes = {"proxy"}
  FreedReads = {"callback", "nothing"}
  MaxEvents = 2
INVARIANTS
  TypeOK
  EndsOwned
  NoLostWakeup
  EventsOfLiveConnections
  ResponseInOrder
  ResponseNotLost
  ResponseComplete
  Backpressure
