SPECIFICATION Spec
CONSTANTS
  d1 = d1  d2 = d2  r1 = r1  r2 = r2  ann = ann  bob = bob
  Docs = {d1, d2}
  Workers = {w1, w2}
  Requesters = {r1, r2}
  Users = {ann, bob}
  Owner <- MCOwner
  Caller <- MCCaller
  MaxConcurrent = 1
  MaxChunks = 2
  Faults = {"db", "reject", "crash"}
INVARIANTS
  TypeOK
  SemaphoreConserved
  ChunksAllOrNothing
  OrderlyRunSettles
PROPERTIES
  OnlyOwnerDeletes
  LedgerPromise
  UploadsEnd
\* The system is at rest once every upload has ended.
CHECK_DEADLOCK FALSE
