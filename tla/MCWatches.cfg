SPECIFICATION Spec
CONSTANTS
  MaxWatch = 2
  Interval = 2
  MaxGap = 1
  MaxRegs = 2
  MaxFaults = 1
INVARIANTS
  ToldThenArchived
PROPERTIES
  WatchEnds
