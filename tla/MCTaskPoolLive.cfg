SPECIFICATION FairSpec
CONSTANTS
  Runner = {r1, r2}
  Root = root
  NoTask = NoTask
  Task = {root, t1, t2}
  ReturnValue = {"data"}
  MaxTurns = 2
PROPERTY Termination
PROPERTY ImplementsForkJoin
