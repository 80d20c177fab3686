SPECIFICATION Spec
CONSTANTS
  Task = {k1, k2, k3, k4}
  MaxDepth = 3
PROPERTY CallbackReadsAll
