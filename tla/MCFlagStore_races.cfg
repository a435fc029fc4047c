SPECIFICATION Spec
CHECK_DEADLOCK FALSE
CONSTANTS
  Null = Null
  f1 = f1
  f2 = f2
  k1 = k1
  k2 = k2
  prod = prod
  staging = staging
  l1 = l1
  r1 = r1
  b1 = b1
  Keys = {k1}
  FlagIds = {f1, f2, f3}
  Labels = {l1, l2}
  Envs = {prod}
  RuleIds = {r1}
  Bodies = {b1}
  Configs <- TwoConfigs
  Sessions = {s1, s2}
  Seed <- SeedOne
  JsonDefault = TRUE
  ForeignKeys = FALSE
  MaxRequests = 3
SYMMETRY SessionSymmetry
INVARIANT TypeOK
INVARIANT VersionBounded
PROPERTY RowIdentity
PROPERTY AuditedChanges
PROPERTY ColumnsKept
