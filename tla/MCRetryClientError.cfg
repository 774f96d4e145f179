SPECIFICATION Spec
CONSTANTS
  Calls = {c1, c2}
  Texts = {t1}
  Blank = {}
  Permits = 1
  MaxAttempts = 2
  MaxSize = 1
  TTL = 1
INVARIANT
  RetriesOnlyRetryable
