SPECIFICATION Spec
CONSTANTS
  Calls = {1, 2}
  MaxBlocks = 1
  DiskFails = TRUE
INVARIANTS
  TypeOK
  
  NudgeAgreesWithGates
PROPERTIES
  TurnEnds
