SPECIFICATION FairSpec
CONSTANTS
  Receivers = {station}
  Stations = {station}
  Capacity = 1
  MaxRuns = 2
  MaxTurns = 2
  station = station
  pc = pc
PROPERTIES
  SendNeverBlocks
  
