CONSTANTS
  Procs = {p1, p2}
  Editors = {e1}
  Names = {a, b}
  None = None
  r1 = r1
  MaxWork = 6
  MaxFaults = 2
  MaxCrashes = 1
  MaxCommands = 3
  Done <- MCDone
  Finished <- MCFinished
  InitConfigs <- MCInitConfigs
  Ignored = TRUE
  Repos <- MCRepos
SYMMETRY MCSymmetry
SPECIFICATION Spec
INVARIANTS
  TypeOK
  CollisionsSeen
PROPERTIES
  NothingLost
  AllOrNothing
  ArchiveSealed
  NotResurrected
  SettingsKept
CHECK_DEADLOCK FALSE
