CONSTANTS
  StreamIdSeed = 0
  MaxOpen = 1
  PeerStreams <- MCNoPeerStreams
  IdleTimeout = TRUE
SPECIFICATION Spec
CONSTRAINT IncomingBound
INVARIANT AcceptOnlyPeerStreams
