SPECIFICATION Spec
CONSTANTS
  Task = {k1, k2, k3, k4, k5}
  MaxDepth = 4
SYMMETRY Tasks
INVARIANT TypeOK
INVARIANT CounterExact
INVARIANT TasksRunOnce
PROPERTY CallbackAfterAll
