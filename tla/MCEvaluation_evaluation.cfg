SPECIFICATION Spec
CONSTANTS
  Null = Null
  NaN = NaN
  None = None
  k1 = k1
  u1 = u1
  u2 = u2
  u3 = u3
  u4 = u4
  prod = prod
  upperProd = upperProd
  r1 = r1
  r2 = r2
  r3 = r3
  plan = plan
  true = true
  one = one
  ten = ten
  pro = pro
  prose = prose
  plans = plans
  Json <- Values
  EqualTo <- PythonEqual
  FloatOf <- PythonFloat
  Items <- ListItems
  PartsOf <- TextParts
  StartsOf <- TextParts
  Attributes = {plan}
  RuleIds = {r1, r2, r3}
  Keys = {k1}
  Users = {u1, u2, u3, u4}
  EnvNames = {prod, upperProd}
  Normal <- Spelling
  Hash <- UserHash
  JsonTrue <- true
  Defaults <- SentDefaults
  Bodies <- SentEnvironments
INVARIANT TypeOK
INVARIANT PrecedenceFollowed
PROPERTY RolloutSticky
PROPERTY KillSwitch
PROPERTY ListOrderIrrelevant
