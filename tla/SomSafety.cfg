SPECIFICATION Spec
CONSTANTS
  HandshakeAttempts = 2
  MaxOrphans = 2
  MaxFailed = 2
INVARIANTS
  TypeOK
  DanglingOnlyAfterRace
  StopsOnlyWhenAsked
  FlushConsumedBeforeRead
  
  HangExplained
