SPECIFICATION FairSpec
CONSTANTS
  Rolls <- SomeRolls
  Pitches <- SomePitches
  Garbage <- SomeGarbage
  NaN = NaN
  MaxTurns = 3
INVARIANTS
  TypeOK
  
  HorizonTracks
PROPERTIES
  NeverBack
  DisplayCatchesUp
CHECK_DEADLOCK FALSE
