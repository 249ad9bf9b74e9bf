SPECIFICATION Spec
CONSTANTS
  RcSize = 2
  ImuSize = 3
  CsSize = 2
  FlushSize = 2
  HandshakeAttempts = 2
  MaxJunk = 1
  MaxRounds = 2
  MaxIters = 2
INVARIANT
  HandshakeMeansAck
