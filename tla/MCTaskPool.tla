----------------------------- MODULE MCTaskPool -----------------------------
(* TaskPool for TLC. *)
EXTENDS TaskPool, TLC

\* Runners are interchangeable, and so are the tasks that scripts fork.  Only
\* for runs without temporal properties.
RunnersAndTasks == Permutations(Runner) \cup Permutations(Task \ {Root})

\* A third turn, in which a second join may end, only in trees that do not
\* use all tasks.
LongOrLarge ==
  (\E t \in Task : turn[t] > 2 \/ (turn[t] = 2 /\ handler[t])) =>
    \E t \in Task \ {Root} : parent[t] = NoTask
=============================================================================
