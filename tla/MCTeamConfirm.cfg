SPECIFICATION Spec
CONSTANTS
  Calls = {1}
  MaxBlocks = 3
  DiskFails = FALSE
PROPERTIES
  ConfirmOpensTeam
