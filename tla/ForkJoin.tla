------------------------------ MODULE ForkJoin ------------------------------
(***************************************************************************)
(* What the task pool of ndm/src/pjs.cpp promises to a script, without     *)
(* runners, queues, locks or counters: a tree of tasks in which a task     *)
(* that has handed over the children it forked is suspended until every    *)
(* one of them has finished.  The text is the "Architecture" comment of    *)
(* pjs.cpp (lines 60-157); the code that must live up to it is TaskPool.   *)
(***************************************************************************)
CONSTANTS
  Task,    \* identities of tasks
  Root,    \* the task that runs the script given on the command line
  NoTask   \* the parent of a task that nobody has forked

VARIABLES
  status,  \* status[t] is one of Status
  parent   \* parent[t] is the task that forked t, or NoTask

vars == <<status, parent>>

\* "forked" tasks exist only as handles of their parent, which may finish
\* without ever handing them over; "ready" ones are promised to run.
Status == {"unborn", "forked", "ready", "running", "suspended", "done"}

TypeOK ==
  /\ status \in [Task -> Status]
  /\ parent \in [Task -> Task \cup {NoTask}]

Children(p) == {t \in Task : parent[t] = p}
Forked(p)   == {t \in Children(p) : status[t] = "forked"}

Init ==
  /\ status = [t \in Task |-> IF t = Root THEN "ready" ELSE "unborn"]
  /\ parent = [t \in Task |-> NoTask]
-----------------------------------------------------------------------------
\* A running task forks t: a handle, not yet work for the pool.
Fork(p, t) ==
  /\ status[p] = "running"
  /\ status[t] = "unborn"
  /\ status' = [status EXCEPT ![t] = "forked"]
  /\ parent' = [parent EXCEPT ![t] = p]

\* A turn ends with a completion callback and children to wait for.
Join(p) ==
  /\ status[p] = "running"
  /\ Forked(p) # {}
  /\ status' = [t \in Task |-> IF t = p THEN "suspended"
                               ELSE IF t \in Forked(p) THEN "ready"
                               ELSE status[t]]
  /\ UNCHANGED parent

\* The task's first turn begins.
Start(t) ==
  /\ status[t] = "ready"
  /\ status' = [status EXCEPT ![t] = "running"]
  /\ UNCHANGED parent

\* The completion callback runs: every child of the task has finished.
Resume(p) ==
  /\ status[p] = "suspended"
  /\ \A t \in Children(p) : status[t] = "done"
  /\ status' = [status EXCEPT ![p] = "running"]
  /\ UNCHANGED parent

\* The task has no callback left, or its script failed.
Finish(t) ==
  /\ status[t] = "running"
  /\ status' = [status EXCEPT ![t] = "done"]
  /\ UNCHANGED parent

Next ==
  \E t \in Task :
    \/ \E p \in Task : Fork(p, t)
    \/ Join(t) \/ Start(t) \/ Resume(t) \/ Finish(t)

\* Scripts stop forking and looping (their callbacks are finitely many), and
\* a task that can be started, resumed or ended is not forgotten.
Fairness ==
  \A t \in Task :
    /\ WF_vars(Start(t))
    /\ WF_vars(Resume(t))
    /\ WF_vars(Join(t) \/ Finish(t))

SafeSpec == Init /\ [][Next]_vars
Spec     == SafeSpec /\ Fairness
=============================================================================
