SPECIFICATION Spec
CONSTANTS
  Null = Null
  Missing = Missing
  Failed = Failed
  Threads = {t1, t2}
  CacheKeys = {c1}
  Values = {TRUE, FALSE}
  Truthy <- TrueObjects
  MaxClients = 2
INVARIANT AnswersFromApi
