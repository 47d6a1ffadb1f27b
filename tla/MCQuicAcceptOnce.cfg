CONSTANTS
  StreamIdSeed = 0
  MaxOpen = 0
  PeerStreams <- MCPeerStreams
  IdleTimeout = TRUE
SPECIFICATION Spec
CONSTRAINT IncomingBound
INVARIANT AcceptOnce
