SPECIFICATION Spec
CONSTANTS
  Projects = {p1, p2}
  Runs = {r1, r2}
  NoRun = NoRun
  MaxOffset = 6
INVARIANTS
  TypeOK
  DistinctOffsets
  PortsDisjoint
PROPERTIES
  OffsetStable
