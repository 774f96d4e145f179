SPECIFICATION Spec
CONSTANTS
  r1 = r1  r2 = r2  r3 = r3  w1 = w1  w2 = w2
  Workers = {w1, w2}
  Requests = {r1, r2, r3}
  WorkerOf <- MCWorkerOf
  Names = {"ann", "bob"}
  Emails = {"ann@", "bob@"}
  Passwords = {"secret", "guess"}
  Bodies <- MCBodies
  MaxBcrypt = 1
INVARIANTS
  UniqueAccounts
  RepliesTrue
  TokensEarned
PROPERTIES
  EveryoneAnswered
\* The system is at rest once every request has been answered.
CHECK_DEADLOCK FALSE
