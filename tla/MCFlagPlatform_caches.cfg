SPECIFICATION FairSpec
CHECK_DEADLOCK FALSE
CONSTANTS
  Null = Null
  f1 = f1
  l1 = l1
  prod = prod
  Keys = {k1}
  FlagIds = {f1}
  Labels = {l1}
  Envs = {prod}
  RuleIds = {}
  Bodies = {}
  Configs <- NoConfigs
  Sessions = {s1, s2}
  Seed <- SeedOn
  JsonDefault = TRUE
  ForeignKeys = FALSE
  MaxRequests = 2
  Replicas = {p1}
  MaxBoots = 2
  MaxOutages = 2
INVARIANTS
  TypeOK
  StaleExplained
PROPERTIES
  ImplementsSnapshotCache
  InvalidationApplied
  Resubscribes
