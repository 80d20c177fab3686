SPECIFICATION Spec
CONSTANTS
  Runner = {r1, r2}
  Root = root
  NoTask = NoTask
  Task = {root, t1, t2, t3}
  ReturnValue = {"data", "unclonable"}
  MaxTurns = 3
SYMMETRY RunnersAndTasks
CONSTRAINT LongOrLarge
INVARIANT TypeOK
INVARIANT JoinComplete
INVARIANT NoUseAfterFree
INVARIANT RunnerAffinity
INVARIANT NoSleepOnWork
INVARIANT DrainedAtTermination
INVARIANT GetFaithful
INVARIANT CounterExact
INVARIANT IndInv
INVARIANT HandlesStayRooted
