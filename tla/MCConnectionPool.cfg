SPECIFICATION Spec
CONSTANTS
  Actors = {a1, a2, a3}
  Capacity = 2
  MaxTasks = 1
INVARIANTS
  SlowCallsHoldNothing
  HoldAndWait
PROPERTIES
  EveryoneEnds
\* The worker is idle once every request has ended.
CHECK_DEADLOCK FALSE
