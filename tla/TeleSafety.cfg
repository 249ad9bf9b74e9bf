SPECIFICATION Spec
CONSTANTS
  Receivers = {station, pc}
  Stations = {station}
  Capacity = 2
  MaxRuns = 2
  MaxTurns = 3
  station = station
  pc = pc
INVARIANTS
  RoundsAligned
  InOrder
  FreshQueues
  CheckedOpen
  TypeOK
PROPERTY
  ImplementsFeed
