SPECIFICATION Spec
CONSTANTS
  Runner = {r1, r2}
  Root = root
  NoTask = NoTask
  Task = {root, t1, t2}
  ReturnValue = {"data"}
  MaxTurns = 2
INVARIANT HandlesUnrooted
