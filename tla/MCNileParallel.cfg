SPECIFICATION Spec
CONSTANTS
  Ctx = {c1, c2}
  Task = {k1, k2, k3, k4}
  Worker = {w1, w2}
  Throws = {k3}
  Unsendable = {k4}
  MaxExecutes = 2
  None = None
INVARIANT TypeOK
INVARIANT WorkersShared
INVARIANT TasksRunOnce
INVARIANT PendingExact
INVARIANT CallbackOnce
PROPERTY CallbackReadsAll
PROPERTY StartedJoinsEnd
CHECK_DEADLOCK FALSE
