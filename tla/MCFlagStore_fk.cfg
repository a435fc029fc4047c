SPECIFICATION FairSpec
CHECK_DEADLOCK FALSE
CONSTANTS
  Null = Null
  f1 = f1
  f2 = f2
  k1 = k1
  k2 = k2
  prod = prod
  staging = staging
  l1 = l1
  r1 = r1
  b1 = b1
  Keys = {k1, k2}
  FlagIds = {f1, f2, f3}
  Labels = {l1}
  Envs = {prod}
  RuleIds = {r1}
  Bodies = {b1}
  Configs <- TwoConfigs
  Sessions = {s1, s2}
  Seed <- SeedOne
  JsonDefault = TRUE
  ForeignKeys = TRUE
  MaxRequests = 3
INVARIANT HistoryProtected
INVARIANT WritersOwnRows
PROPERTY Answered
