SPECIFICATION Spec
CONSTANTS
  a = a
  b = b
  t1 = t1
  t2 = t2
  Entries <- MCEntries
  Dirs <- MCDirs
  Broad <- MCBroad
  Threads <- MCThreads
  Rounds = 3
  MaxVersion = 2
  MaxRules = 3
  MaxRequests = 3
  MaxEdits = 1
  MaxFaults = 1
SYMMETRY Symmetry
INVARIANTS
  TypeOK
  AnswersHold
PROPERTIES
  FreedIsTold
CHECK_DEADLOCK FALSE
