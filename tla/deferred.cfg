CONSTANTS
  p1 = p1
  p2 = p2
  Proc <- MCProc
  Hash <- MCHash
  Capacity = 1
  MaxRecords = 1
  MaxTombs = 1
  MaxClock = 2
  MaxCuts = 2
SPECIFICATION Spec
SYMMETRY Symmetry
INVARIANTS TypeOK RecordsAreBounded
PROPERTIES UnknownOnlyInFiveWays
