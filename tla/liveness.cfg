SPECIFICATION FairSpec
CONSTANTS
  Client = {c1}
  Thresh = 1
  NullsThresh = 1
  RecvMax = 1
  Room = 1
  PeerSends <- MCPeerSends
  ClientSends = 1
  UpstreamSends = 2
  CanReset = {"client", "upstream"}
  FileSize = 2
  Outcomes = {"proxy"}
  FreedReads = {"callback"}
  MaxEvents = 4
PROPERTIES
  SessionEndsWithClient
  ConnectionsEndWithSession
  HangupCloses
  ResponseDelivered
