CONSTANTS
  Procs = {p1, p2}
  n1 = n1
  n2 = n2
  Notes = {n1, n2}
  None = None
  MaxTries = 2
  MaxPlans = 2
  MaxCommands = 2
  Counts <- MCCounts
  InitFiles <- OnlyTemplate
SPECIFICATION Spec
INVARIANT ToldDecisionsKept
CHECK_DEADLOCK FALSE
