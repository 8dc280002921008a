SPECIFICATION PairSpec
CONSTANTS
  Grace = 3
  MaxGap = 2
  MaxErrors = 2
  MaxRestarts = 2
INVARIANTS
  UnreadAlertsFit
PROPERTIES
  AlertAfterGrace
  LossIsTold
