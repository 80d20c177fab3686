---------------------------- MODULE NileParallel ----------------------------
(***************************************************************************)
(* Parallel of js/nile-webworker.js: the fork/execute API on top of four   *)
(* browser workers, which all the Parallel objects of a page share through *)
(* the list global_workers.  A page runs one handler at a time, so every   *)
(* call from a script and every message handler is one action; the workers *)
(* (js/webworker-child.js) run beside it.  A completion callback is the    *)
(* last thing its handler does, so what it calls is modelled by the        *)
(* actions that follow.                                                    *)
(*                                                                         *)
(* The page may call fork and execute in any order.  misused records the   *)
(* calls the bookkeeping of pending does not expect.                       *)
(***************************************************************************)
EXTENDS Integers, SequencesExt

CONSTANTS
  Ctx,          \* the Parallel objects
  Task,         \* the [fun, args, Result] triples
  Worker,       \* the browser workers (four in the code)
  Throws,       \* the tasks whose function throws
  Unsendable,   \* the tasks whose arguments JSON.stringify refuses
  MaxExecutes,  \* bounds the calls of execute on each Parallel
  None          \* no task; no Parallel

ASSUME NileAssumption ==
  /\ IsFiniteSet(Worker) /\ IsFiniteSet(Task)
  /\ Throws \subseteq Task /\ Unsendable \subseteq Task
  /\ MaxExecutes \in Nat
  /\ None \notin Ctx \cup Task

VARIABLES
  workers,   \* global_workers
  children,  \* children[c]: this.children
  pending,   \* pending[c]: this.pending; 0 stands for undefined as well
  owner,     \* owner[t]: the Parallel that forked t: self in its closures
  answered,  \* the tasks whose Result has got its own get method
  job,       \* job[w]: the task that was posted to worker w
  status,    \* where w is with it
  executes,  \* how often execute was called
  calls,     \* how often the callback was called
  misused    \* fork or execute was called while a join was under way

vars == <<workers, children, pending, owner, answered, job, status,
          executes, calls, misused>>

TypeOK ==
  /\ workers \in Seq(Worker)
  /\ children \in [Ctx -> Seq(Task)]
  /\ pending \in [Ctx -> -Cardinality(Task)..Cardinality(Task)]
  /\ owner \in [Task -> Ctx \cup {None}]
  /\ answered \subseteq Task
  /\ job \in [Worker -> Task \cup {None}]
  /\ status \in [Worker -> {"idle", "running", "replied", "lost"}]
  /\ executes \in [Ctx -> 0..MaxExecutes]
  /\ calls \in [Ctx -> Nat]
  /\ misused \in [Ctx -> BOOLEAN]

Init ==
  /\ workers \in SetToSeqs(Worker)
  /\ children = [c \in Ctx |-> <<>>]
  /\ pending = [c \in Ctx |-> 0]
  /\ owner = [t \in Task |-> None]
  /\ answered = {}
  /\ job = [w \in Worker |-> None]
  /\ status = [w \in Worker |-> "idle"]
  /\ executes = [c \in Ctx |-> 0]
  /\ calls = [c \in Ctx |-> 0]
  /\ misused = [c \in Ctx |-> FALSE]
-----------------------------------------------------------------------------
\* Parallel.prototype.fork
Fork(c, t) ==
  /\ owner[t] = None
  /\ owner' = [owner EXCEPT ![t] = c]
  /\ children' = [children EXCEPT ![c] = Append(@, t)]
  /\ misused' = [misused EXCEPT ![c] = @ \/ pending[c] # 0]
  /\ UNCHANGED <<workers, pending, answered, job, status, executes, calls>>

\* The tasks for the workers when the first n free ones get one child each.
Posted(c, free, n) ==
  [w \in {free[i] : i \in 1..n} |->
     children[c][CHOOSE i \in 1..n : free[i] = w]]

\* jobs[w] is the task of w before, and None when w is free.
Assign(c, free, jobs, n) ==
  LET posted == Posted(c, free, n) IN
  /\ job' = [w \in Worker |-> IF w \in DOMAIN posted THEN posted[w] ELSE jobs[w]]
  /\ status' = [w \in Worker |->
                  CASE w \in DOMAIN posted /\ job'[w] \in Unsendable -> "lost"
                    [] w \in DOMAIN posted /\ job'[w] \notin Unsendable -> "running"
                    [] w \notin DOMAIN posted /\ jobs[w] = None -> "idle"
                    [] OTHER -> status[w]]

\* Mutants: the worker stays in the list while it works; the child stays in
\* the list, as in js/nile-single-thread.js.
ShiftChildrenOnly(c, free, n) ==
  /\ workers' = free
  /\ children' = [children EXCEPT ![c] = SubSeq(@, n + 1, Len(@))]
ShiftWorkersOnly(c, free, n) ==
  /\ workers' = SubSeq(free, n + 1, Len(free))
  /\ UNCHANGED children

Shift(c, free, n) ==
  /\ workers' = SubSeq(free, n + 1, Len(free))
  /\ children' = [children EXCEPT ![c] = SubSeq(@, n + 1, Len(@))]

CallIf(c, condition) ==
  calls' = [calls EXCEPT ![c] = IF condition THEN @ + 1 ELSE @]

\* The recursion ends when n children are handed out: one of the lists is
\* empty, or JSON.stringify throws for the last child, after both shifts.
EndsAfter(c, free, n) ==
  /\ n <= Len(children[c])
  /\ \A i \in 1..(n - 1) : children[c][i] \notin Unsendable
  /\ \/ n \in {Len(children[c]), Len(free)}
     \/ n > 0 /\ children[c][n] \in Unsendable

\* Mutant: the callback is called when nothing is left to hand out.
ContinueEarly(c, free, jobs) ==
  \E n \in 0..Len(free) :
    /\ EndsAfter(c, free, n)
    /\ Assign(c, free, jobs, n)
    /\ Shift(c, free, n)
    /\ CallIf(c, children'[c] = <<>>)

\* Parallel.prototype._execute, with its recursion, when `free` are the free
\* workers and `jobs` the tasks of the others: calls the callback if nothing
\* is pending; otherwise children go to workers, the first to the first,
\* until one of the two lists is empty or a child cannot be sent.
Continue(c, free, jobs) ==
  \E n \in 0..Len(free) :
    /\ IF pending'[c] = 0 THEN n = 0 ELSE EndsAfter(c, free, n)
    /\ Assign(c, free, jobs, n)
    /\ Shift(c, free, n)
    /\ CallIf(c, pending'[c] = 0)

\* Parallel.prototype.execute
Execute(c) ==
  /\ executes[c] < MaxExecutes
  /\ executes' = [executes EXCEPT ![c] = @ + 1]
  /\ misused' = [misused EXCEPT ![c] = @ \/ pending[c] # 0]
  /\ pending' = [pending EXCEPT ![c] = Len(children[c])]
  /\ Continue(c, workers, job)
  /\ UNCHANGED <<owner, answered>>

\* The child's onmessage: the function returned, and its value is posted.
Reply(w) ==
  /\ status[w] = "running"
  /\ job[w] \notin Throws
  /\ status' = [status EXCEPT ![w] = "replied"]
  /\ UNCHANGED <<workers, children, pending, owner, answered, job, executes,
                 calls, misused>>

\* The child's onmessage: the function threw, and nothing is posted.
Throw(w) ==
  /\ status[w] = "running"
  /\ job[w] \in Throws
  /\ status' = [status EXCEPT ![w] = "lost"]
  /\ UNCHANGED <<workers, children, pending, owner, answered, job, executes,
                 calls, misused>>

\* self.pending--.  Mutant: pending is shared by the Parallels of a page, like global_workers.
CountdownForAll(w) ==
  pending' = [c \in Ctx |-> IF pending[c] > 0 THEN pending[c] - 1
                            ELSE pending[c]]

Countdown(w) == pending' = [pending EXCEPT ![owner[job[w]]] = @ - 1]

\* Mutants of the handler: the worker is not released, and its answer is
\* handled again; get is installed after _execute, too late for the callback;
\* the call of _execute is missing unless the join is over.
OnMessageAgain(w) ==
  /\ status[w] = "replied"
  /\ Countdown(w)
  /\ answered' = answered \cup {job[w]}
  /\ Continue(owner[job[w]], workers, job)
  /\ UNCHANGED <<owner, executes, misused>>
OnMessageInstallsLate(w) ==
  /\ status[w] = "replied"
  /\ Countdown(w)
  /\ answered' = answered \cup IF pending'[owner[job[w]]] = 0 THEN {}
                               ELSE {job[w]}
  /\ Continue(owner[job[w]], Append(workers, w), [job EXCEPT ![w] = None])
  /\ UNCHANGED <<owner, executes, misused>>
OnMessageStops(w) ==
  /\ status[w] = "replied"
  /\ Countdown(w)
  /\ answered' = answered \cup {job[w]}
  /\ Assign(owner[job[w]], <<>>, [job EXCEPT ![w] = None], 0)
  /\ Shift(owner[job[w]], Append(workers, w), 0)
  /\ CallIf(owner[job[w]], pending'[owner[job[w]]] = 0)
  /\ UNCHANGED <<owner, executes, misused>>

\* The page's onmessage, installed by _execute: a closure over the Parallel,
\* the child and the worker.
OnMessage(w) ==
  /\ status[w] = "replied"
  /\ Countdown(w)
  /\ answered' = answered \cup {job[w]}
  /\ Continue(owner[job[w]], Append(workers, w), [job EXCEPT ![w] = None])
  /\ UNCHANGED <<owner, executes, misused>>

Next ==
  \/ \E c \in Ctx : Execute(c) \/ \E t \in Task : Fork(c, t)
  \/ \E w \in Worker : Reply(w) \/ Throw(w) \/ OnMessage(w)

\* Functions return or throw, and the browser delivers messages.  Nobody has
\* to call fork or execute.
Fairness ==
  \A w \in Worker : WF_vars(Reply(w)) /\ WF_vars(Throw(w)) /\ WF_vars(OnMessage(w))

Spec == Init /\ [][Next]_vars /\ Fairness
-----------------------------------------------------------------------------
\* The tasks of c that are with a worker, a lost one included.
Out(c) == {t \in Task : owner[t] = c /\ \E w \in Worker : job[w] = t}

\* t.get() returns a value instead of throwing.
Readable(t) == t \in answered /\ pending[owner[t]] = 0

\* A worker is offered to the Parallel objects of the page exactly when it
\* has no task: none is offered twice, handed a second task, or forgotten
\* after its answer (shift before postMessage, push in onmessage).
WorkersShared ==
  /\ IsInjective(workers)
  /\ \A w \in Worker : w \in Range(workers) <=> job[w] = None

\* A child is queued, with one worker, or answered, and never two of these:
\* no function runs twice or is dropped, however many Parallels are
\* executing and whatever the order of the answers.
TasksRunOnce ==
  \A t \in Task : owner[t] # None =>
    LET places == Cardinality({i \in DOMAIN children[owner[t]] :
                                 children[owner[t]][i] = t})
                  + Cardinality({w \in Worker : job[w] = t})
                  + (IF t \in answered THEN 1 ELSE 0)
    IN places = 1

\* While a join is under way its counter is the number of children that have
\* not answered, and when there is none no child is out: onmessage decrements
\* it once per answer, and the answers of another Parallel leave it alone.
PendingExact ==
  \A c \in Ctx : ~misused[c] =>
    \/ pending[c] = Len(children[c]) + Cardinality(Out(c))
    \/ pending[c] = 0 /\ Out(c) = {}

\* The callback is called once per execute, not before the last answer and
\* not again after it; a child that throws or cannot be sent, or a Parallel
\* that finds no free worker, delays it for ever, but never makes it come early.
CallbackOnce ==
  \A c \in Ctx : ~misused[c] =>
    calls[c] + (IF pending[c] = 0 THEN 0 ELSE 1) = executes[c]

\* When the callback runs, get() of every Result the Parallel has returned
\* gives its value: onmessage installs get before _execute calls cb.
CallbackReadsAll ==
  [][\A c \in Ctx : calls'[c] > calls[c] /\ ~misused'[c] =>
       \A t \in Task : owner'[t] = c => Readable(t)']_vars

\* A function of c threw, or an argument could not be sent: no answer comes.
LostOne(c) == \E w \in Worker : status[w] = "lost" /\ owner[job[w]] = c

\* A join that has a child with a worker comes to an end, unless it loses one
\* itself, although another Parallel competes for the workers and may lose
\* them: every answer makes _execute hand out the next child at once.  (A join
\* that never gets a first worker may wait for ever: no message handler of
\* another Parallel serves it.)
StartedJoinsEnd ==
  \A c \in Ctx : Out(c) # {} ~> pending[c] = 0 \/ LostOne(c) \/ misused[c]
=============================================================================
