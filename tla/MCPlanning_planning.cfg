CONSTANTS
  R1 = R1
  Reqs = {R1}
  Slugs = {s1, s2}
  NoRef = NoRef
  MaxInt = 4
  MaxDecimal = 2
  PlanIds = {1}
  MaxCommands = 2
  MaxFiles = 2
  InitRoadmaps <- MCRoadmaps
SPECIFICATION Spec
INVARIANTS
  TypeOK
  ViewsAgree
  ExactPhaseFound
  NoParallelDependency
  ConsistencySound
  ContextsCurrent
PROPERTIES
  ExecutedWorkKept
  LastPhaseIsLast
CHECK_DEADLOCK FALSE
