SPECIFICATION Spec
CONSTANTS
  Launches = {1, 2}
  Kinds = {"review", "protocol"}
  MaxSecond = 2
INVARIANTS
  TypeOK
  TrustedIsFinal
  ToldIsConsumable
PROPERTIES
  OutcomeTold
CHECK_DEADLOCK FALSE
