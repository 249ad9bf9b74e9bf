SPECIFICATION FairSpec
CONSTANTS
  HandshakeAttempts = 1
  MaxOrphans = 1
  MaxFailed = 1
PROPERTY
  StopIoThreadReturns
