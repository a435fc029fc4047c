CONSTANTS
  Procs = {p1, p2}
  Editors = {e1}
  Names = {a}
  None = None
  r1 = r1
  MaxWork = 6
  MaxFaults = 0
  MaxCrashes = 0
  MaxCommands = 2
  Done <- MCDone
  Finished <- MCFinished
  InitConfigs <- MCInitConfigs
  Ignored = TRUE
  Repos <- MCRepos
SYMMETRY MCSymmetry
SPECIFICATION Spec
PROPERTIES
  ArchivedForGood
CHECK_DEADLOCK FALSE
