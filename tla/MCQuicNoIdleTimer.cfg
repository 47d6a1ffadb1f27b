CONSTANTS
  StreamIdSeed = 0
  MaxOpen = 0
  PeerStreams <- MCPeerStreams
  IdleTimeout = FALSE
SPECIFICATION FairSpec
CONSTRAINT IncomingBound
CHECK_DEADLOCK FALSE
PROPERTY WaitersWokenOnClose
