SPECIFICATION Spec
CONSTANTS
  RcSize = 2
  ImuSize = 3
  CsSize = 2
  FlushSize = 2
  HandshakeAttempts = 2
  MaxJunk = 1
  MaxRounds = 3
  MaxIters = 3
INVARIANTS
  TypeOK
  HandshakeGenuine
  UpFraming
  DownFraming
  LagBounded
  BacklogBounded
PROPERTY
  ImplementsExchange
