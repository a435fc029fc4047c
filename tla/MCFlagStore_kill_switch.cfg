SPECIFICATION Spec
CHECK_DEADLOCK FALSE
CONSTANTS
  Null = Null
  f1 = f1
  f2 = f2
  k1 = k1
  k2 = k2
  prod = prod
  staging = staging
  l1 = l1
  r1 = r1
  b1 = b1
  Keys = {k1}
  FlagIds = {f1, f2}
  Labels = {l1}
  Envs = {prod, staging}
  RuleIds = {r1}
  Bodies = {b1}
  Configs <- TwoConfigs
  Sessions = {s1, s2}
  Seed <- SeedProduction
  JsonDefault = FALSE
  ForeignKeys = TRUE
  MaxRequests = 2
PROPERTY TogglesAudited
