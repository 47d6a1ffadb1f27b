CONSTANTS
  StreamIdSeed = 0
  MaxOpen = 0
  PeerStreams <- MCPeerStreams
  IdleTimeout = TRUE
SPECIFICATION FairSpec
CONSTRAINT IncomingBound
INVARIANT NoLostWakeup
PROPERTY NoParkOnClosed
PROPERTY WaitersWokenOnClose
