SPECIFICATION Spec
CONSTANTS
  Calls = {c1, c2}
  Texts = {t1, t2, t3, t4}
  Blank = {t4}
  Permits = 1
  MaxAttempts = 2
  MaxSize = 2
  TTL = 1
INVARIANTS
  TypeOK
  LimiterConserved
  CacheWellFormed
  CacheInRecencyOrder
  FailuresNotCached
PROPERTIES
  CallsReturn
