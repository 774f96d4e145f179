SPECIFICATION Spec
CONSTANTS
  d1 = d1
  d2 = d2
  d3 = d3
  alice = alice
  bob = bob
  Docs = {d1, d2, d3}
  MaxChunks = 2
  RRFK = 60
  Multiplier = 1
  MaxContext = 2
  PoolSize = 3
  Owner <- MCOwner
  Caller = alice
  Limits = {1, 3}
  Grades = {2000, 9900}
SYMMETRY Alike
INVARIANTS
  OnlyOwnFinished
  AgreementCounts
  BestAnswer
  FewerOnlyIfDeleted
