SPECIFICATION FairSpec
CONSTANTS
  HandshakeAttempts = 2
  MaxOrphans = 1
  MaxFailed = 2
PROPERTIES
  HandshakeDecides
  SigintEndsProcess
