SPECIFICATION Spec
CONSTANTS
  l1 = l1
  l2 = l2
  git = git
  guard = guard
  old = old
  orca = orca
  own = own
  mute = mute
  Nobody = Nobody
  NoCommand = "none"
  Launches <- MCLaunches
  Hooks <- MCHooks
  Commands <- MCCommands
  Command <- MCCommand
  Canonical <- MCCanonical
  Own <- MCOwn
  Written <- MCWritten
  Tries = 3
  MaxWrites = 3
  MaxEdits = 2
SYMMETRY Symmetry
INVARIANTS
  Once
  NothingLost
  CodexGuarded
CHECK_DEADLOCK FALSE
