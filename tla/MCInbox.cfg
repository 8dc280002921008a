SPECIFICATION Spec
CONSTANTS
  p1 = p1
  NoName = NoName
  NoReader = NoReader
  r1 = r1
  r2 = r2
  Readers <- MCReaders
  Serves <- MCServes
  MaxMsg = 2
  Projects <- MCProjects
  Roles <- MCRoles
  Sessions <- MCSessions
INVARIANTS
  TypeOK
  AtMostOnce
  NoSilentLoss
  NoOvertaking
  ExposureMarked
PROPERTIES
  CommandEnds
  ImplementsMailbox
