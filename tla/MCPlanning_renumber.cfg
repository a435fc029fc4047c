CONSTANTS
  R1 = R1
  Reqs = {R1}
  Slugs = {s1, s2}
  NoRef = NoRef
  MaxInt = 4
  MaxDecimal = 2
  PlanIds = {1}
  MaxCommands = 2
  MaxFiles = 2
  InitRoadmaps <- FreshRoadmaps
SPECIFICATION Spec
PROPERTY RenumberedApart
CHECK_DEADLOCK FALSE
