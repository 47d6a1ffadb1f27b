CONSTANTS
  StreamIdSeed = 0
  MaxOpen = 1
  PeerStreams <- MCNoPeerStreams
  IdleTimeout = TRUE
SPECIFICATION FairSpec
CONSTRAINT IncomingBound
INVARIANT TypeOK
INVARIANT NoLostWakeup
