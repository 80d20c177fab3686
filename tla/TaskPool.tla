------------------------------ MODULE TaskPool ------------------------------
(***************************************************************************)
(* The fork/join task pool of ndm/src/pjs.cpp: a ThreadPool of Runners     *)
(* (threads) that share one lock, a stack of TaskHandles to start and, per *)
(* Runner, a stack of TaskContexts to reawaken.                            *)
(*                                                                         *)
(* A task is named by one element of Task: it stands for its TaskHandle    *)
(* (created by fork) and for its TaskContext (created by the Runner that   *)
(* starts it).  A script is what it does in a turn: any number of calls of *)
(* fork, oncompletion and get, then a return or a failure.                 *)
(*                                                                         *)
(* Every section of code that holds _masterLock is one action; so is every *)
(* atomic operation on a counter, and every call a script makes.  Memory   *)
(* exhaustion is left out: operator new and the JS_New... calls succeed.   *)
(***************************************************************************)
EXTENDS Integers, SequencesExt

CONSTANTS
  Runner,       \* the threads of the pool (threadCount = 4 in the code)
  Task,         \* tasks that scripts can create: bounds the number of forks
  Root,         \* the task of the initial script (RootTaskHandle)
  NoTask,       \* a null pointer to a task
  ReturnValue,  \* what scripts return, a subset of Outcome
  MaxTurns      \* bounds the turns of a task: its callbacks end some time

\* A turn returns null, a value that can be cloned into another runtime
\* ("data"), or one that cannot (a function, say).
Outcome == {"null", "data", "unclonable"}

ASSUME TaskPoolAssumption ==
  /\ IsFiniteSet(Task)
  /\ Root \in Task
  /\ NoTask \notin Task
  /\ ReturnValue \subseteq Outcome
  /\ MaxTurns \in Nat \ {0}

VARIABLES
  main,         \* the main thread, in init(): "start", "join" or "returned"
  terminating,  \* ThreadPool::_terminating
  toCreate,     \* ThreadPool::_toCreate, used as a stack
  pc,           \* where each Runner is, see Location
  current,      \* the task whose handle or context the Runner works on
  toReawaken,   \* Runner::_toReawaken, used as a stack
  parent,       \* ChildTaskHandle::_parent; NoTask: no such handle yet
  gen,          \* GenSlot of the handle: the turn of the parent that made it
  result,       \* ChildTaskHandle::_result: "none" or the clone's contents
  slot,         \* ResultSlot of the handle: what get returns once cloned back
  ctx,          \* the TaskContext's memory: "none", "live" or "freed"
  owner,        \* TaskContext::_runner, an element of Runner once created
  outstanding,  \* TaskContext::_outstandingChildren
  toFork,       \* TaskContext::_toFork
  turn,         \* GenSlot of the context: turns begun, 0 is JSVAL_VOID
  ready,        \* the generations (turns) of a context marked ready
  handler,      \* is OnCompletionSlot of the context set?
  rval,         \* the local rval of resume() when the task's last turn ended
  got,          \* what the parent's script last received from get
  rooted        \* is the handle a root of the runtime it was created in?

poolVars    == <<main, terminating, toCreate>>
runnerVars  == <<pc, current, toReawaken>>
handleVars  == <<parent, gen, result, slot, got, rooted>>
contextVars == <<ctx, owner, outstanding, toFork, turn, ready, handler, rval>>
vars        == <<poolVars, runnerVars, handleVars, contextVars>>

Location ==
  { "getWork",   \* about to take _masterLock in getWork
    "waiting",   \* in JS_WAIT_CONDVAR of getWork
    "create",    \* popped a handle: about to create its context
    "resume",    \* at the head of the loop of TaskContext::resume
    "turn",      \* the script runs
    "enqueue",   \* children counted, about to call enqueueTasks
    "clear",     \* children enqueued, about to clear _toFork and return
    "complete",  \* about to call onCompleted
    "notify",    \* result packed, about to decrement the parent's counter
    "reawaken",  \* counter was 0: about to call reawaken on the parent
    "free",      \* about to unroot and delete the context
    "exited" }   \* getWork returned false: the thread ends

TypeOK ==
  /\ main \in {"start", "join", "returned"}
  /\ terminating \in BOOLEAN
  /\ toCreate \in Seq(Task)
  /\ pc \in [Runner -> Location]
  /\ current \in [Runner -> Task \cup {NoTask}]
  /\ toReawaken \in [Runner -> Seq(Task)]
  /\ parent \in [Task -> Task \cup {NoTask}]
  /\ gen \in [Task -> 0..MaxTurns]
  /\ result \in [Task -> {"none", "null", "data"}]
  /\ slot \in [Task -> {"null", "data"}]
  /\ got \in [Task -> {"none", "null", "data"}]
  /\ rooted \in [Task -> BOOLEAN]
  /\ ctx \in [Task -> {"none", "live", "freed"}]
  /\ owner \in [Task -> Runner \cup {NoTask}]
  /\ outstanding \in [Task -> Nat]
  /\ toFork \in [Task -> Seq(Task)]
  /\ turn \in [Task -> 0..MaxTurns]
  /\ ready \in [Task -> SUBSET (1..MaxTurns)]
  /\ handler \in [Task -> BOOLEAN]
  /\ rval \in [Task -> Outcome]

Init ==
  /\ main = "start"
  /\ terminating = FALSE
  /\ toCreate = <<>>
  /\ pc = [r \in Runner |-> "getWork"]
  /\ current = [r \in Runner |-> NoTask]
  /\ toReawaken = [r \in Runner |-> <<>>]
  /\ parent = [t \in Task |-> NoTask]
  /\ gen = [t \in Task |-> 0]
  /\ result = [t \in Task |-> "none"]
  /\ slot = [t \in Task |-> "null"]
  /\ got = [t \in Task |-> "none"]
  /\ rooted = [t \in Task |-> FALSE]
  /\ ctx = [t \in Task |-> "none"]
  /\ owner = [t \in Task |-> NoTask]
  /\ outstanding = [t \in Task |-> 0]
  /\ toFork = [t \in Task |-> <<>>]
  /\ turn = [t \in Task |-> 0]
  /\ ready = [t \in Task |-> {}]
  /\ handler = [t \in Task |-> FALSE]
  /\ rval = [t \in Task |-> "null"]
-----------------------------------------------------------------------------
\* JS_NOTIFY_ALL_CONDVAR(_masterCondVar), with runner r going to location l.
GotoAndNotify(r, l) ==
  pc' = [q \in Runner |-> IF q = r THEN l
                          ELSE IF pc[q] = "waiting" THEN "getWork"
                          ELSE pc[q]]
Goto(r, l) == pc' = [pc EXCEPT ![r] = l]

(***************************************************************************)
(* The main thread: init() starts the pool with the root task and joins    *)
(* the runners.                                                            *)
(***************************************************************************)
StartPool ==
  /\ main = "start"
  /\ main' = "join"
  /\ toCreate' = Append(toCreate, Root)
  /\ pc' = [r \in Runner |-> IF pc[r] = "waiting" THEN "getWork" ELSE pc[r]]
  /\ UNCHANGED <<terminating, current, toReawaken, handleVars, contextVars>>

Shutdown ==
  /\ main = "join"
  /\ \A r \in Runner : pc[r] = "exited"
  /\ main' = "returned"
  /\ UNCHANGED <<terminating, toCreate, runnerVars, handleVars, contextVars>>

(***************************************************************************)
(* Runner::getWork: one pass of its loop under the lock.  Contexts to      *)
(* reawaken come first, even when the pool terminates.                     *)
(***************************************************************************)
TakeReawakened(r) ==
  /\ pc[r] = "getWork"
  /\ toReawaken[r] # <<>>
  /\ current' = [current EXCEPT ![r] = Last(toReawaken[r])]
  /\ toReawaken' = [toReawaken EXCEPT ![r] = Front(toReawaken[r])]
  /\ Goto(r, "resume")
  /\ UNCHANGED <<poolVars, handleVars, contextVars>>

Quit(r) ==
  /\ pc[r] = "getWork"
  /\ toReawaken[r] = <<>>
  /\ terminating
  /\ Goto(r, "exited")
  /\ UNCHANGED <<poolVars, current, toReawaken, handleVars, contextVars>>

TakeToCreate(r) ==
  /\ pc[r] = "getWork"
  /\ toReawaken[r] = <<>>
  /\ ~terminating
  /\ toCreate # <<>>
  /\ current' = [current EXCEPT ![r] = Last(toCreate)]
  /\ toCreate' = Front(toCreate)
  /\ Goto(r, "create")
  /\ UNCHANGED <<main, terminating, toReawaken, handleVars, contextVars>>

Wait(r) ==
  /\ pc[r] = "getWork"
  /\ toReawaken[r] = <<>>
  /\ ~terminating
  /\ toCreate = <<>>
  /\ Goto(r, "waiting")
  /\ UNCHANGED <<poolVars, current, toReawaken, handleVars, contextVars>>

(***************************************************************************)
(* Runner::createTaskContext: the context belongs to this runner for ever. *)
(***************************************************************************)
CreateTaskContext(r) ==
  LET t == current[r] IN
  /\ pc[r] = "create"
  /\ ctx' = [ctx EXCEPT ![t] = "live"]
  /\ owner' = [owner EXCEPT ![t] = r]
  /\ outstanding' = [outstanding EXCEPT ![t] = 0]
  /\ handler' = [handler EXCEPT ![t] = FALSE]
  /\ Goto(r, "resume")
  /\ UNCHANGED <<poolVars, current, toReawaken, handleVars,
                 toFork, turn, ready, rval>>

(***************************************************************************)
(* TaskContext::resume, the head of the loop: newGeneration marks the      *)
(* generation of the previous turn ready and starts a new one; the script  *)
(* (first turn) or the completion callback (later turns) is called.        *)
(***************************************************************************)
BeginTurnKeepsCallback(r) ==  \* mutant: OnCompletionSlot is not reset
  LET t == current[r] IN
  /\ pc[r] = "resume"
  /\ ready' = [ready EXCEPT ![t] = IF turn[t] = 0 THEN @ ELSE @ \cup {turn[t]}]
  /\ turn' = [turn EXCEPT ![t] = IF @ = MaxTurns THEN @ ELSE @ + 1]
  /\ Goto(r, "turn")
  /\ UNCHANGED <<poolVars, current, toReawaken, handleVars,
                 ctx, owner, outstanding, toFork, rval, handler>>

BeginTurn(r) ==
  LET t == current[r] IN
  /\ pc[r] = "resume"
  /\ ready' = [ready EXCEPT ![t] = IF turn[t] = 0 THEN @ ELSE @ \cup {turn[t]}]
  /\ turn' = [turn EXCEPT ![t] = @ + 1]
  /\ handler' = [handler EXCEPT ![t] = IF turn[t] = 0 THEN @ ELSE FALSE]
  /\ Goto(r, "turn")
  /\ UNCHANGED <<poolVars, current, toReawaken, handleVars,
                 ctx, owner, outstanding, toFork, rval>>
-----------------------------------------------------------------------------
(***************************************************************************)
(* Calls a script makes during its turn.                                   *)
(***************************************************************************)
\* fork(): a handle of the current generation, rooted and appended to _toFork.
Fork(r, t) ==
  LET p == current[r] IN
  /\ pc[r] = "turn"
  /\ t # Root /\ parent[t] = NoTask
  /\ parent' = [parent EXCEPT ![t] = p]
  /\ gen' = [gen EXCEPT ![t] = turn[p]]
  /\ rooted' = [rooted EXCEPT ![t] = TRUE]
  /\ toFork' = [toFork EXCEPT ![p] = Append(@, t)]
  /\ UNCHANGED <<poolVars, runnerVars, result, slot, got,
                 ctx, owner, outstanding, turn, ready, handler, rval>>

\* oncompletion(f): one more turn, as long as the bound allows it.
SetOncompletion(r) ==
  LET p == current[r] IN
  /\ pc[r] = "turn"
  /\ turn[p] < MaxTurns
  /\ handler' = [handler EXCEPT ![p] = TRUE]
  /\ UNCHANGED <<poolVars, runnerVars, handleVars,
                 ctx, owner, outstanding, toFork, turn, ready, rval>>

\* Generation::getReady of the handle's generation.
IsReadyWhenPacked(t) ==  \* mutant: ready as soon as there is a result
  gen[t] \in ready[parent[t]] \/ result[t] # "none"
IsReadyAlways(t) == TRUE  \* mutant: get does not look at the generation
IsReady(t) == gen[t] \in ready[parent[t]]

\* ChildTaskHandle::GetResult when it succeeds: the first call clones the
\* result into ResultSlot.  A call on a generation that is not ready throws
\* and changes nothing; getReady has no return statement, so that a call may
\* also fail on a ready one: the script's turn then fails (TurnFails).
Get(r, t) ==
  LET value == IF result[t] # "none" THEN result[t] ELSE slot[t] IN
  /\ pc[r] = "turn"
  /\ parent[t] = current[r]
  /\ IsReady(t)
  /\ slot' = [slot EXCEPT ![t] = value]
  /\ result' = [result EXCEPT ![t] = "none"]
  /\ got' = [got EXCEPT ![t] = value]
  /\ UNCHANGED <<poolVars, runnerVars, parent, gen, rooted, contextVars>>
-----------------------------------------------------------------------------
(***************************************************************************)
(* TaskContext::resume, after the script's turn.                           *)
(***************************************************************************)
\* execute or the callback returned false: the task completes, in error.
TurnFails(r) ==
  /\ pc[r] = "turn"
  /\ rval' = [rval EXCEPT ![current[r]] = "null"]
  /\ Goto(r, "complete")
  /\ UNCHANGED <<poolVars, current, toReawaken, handleVars,
                 ctx, owner, outstanding, toFork, turn, ready, handler>>

TurnSuspendsMiscounts(r) ==  \* mutant: one child too few is counted
  LET p == current[r] IN
  /\ pc[r] = "turn"
  /\ handler[p]
  /\ toFork[p] # <<>>
  /\ outstanding' = [outstanding EXCEPT ![p] = @ + Len(toFork[p]) - 1]
  /\ Goto(r, "enqueue")
  /\ UNCHANGED <<poolVars, current, toReawaken, handleVars,
                 ctx, owner, toFork, turn, ready, handler, rval>>

\* A callback and children: count them, before anybody can see them.
TurnSuspends(r) ==
  LET p == current[r] IN
  /\ pc[r] = "turn"
  /\ handler[p]
  /\ toFork[p] # <<>>
  /\ outstanding' = [outstanding EXCEPT ![p] = @ + Len(toFork[p])]
  /\ Goto(r, "enqueue")
  /\ UNCHANGED <<poolVars, current, toReawaken, handleVars,
                 ctx, owner, toFork, turn, ready, handler, rval>>

\* A callback but no children: "degenerate case: no tasks, just loop around".
TurnLoops(r) ==
  /\ pc[r] = "turn"
  /\ handler[current[r]]
  /\ toFork[current[r]] = <<>>
  /\ Goto(r, "resume")
  /\ UNCHANGED <<poolVars, current, toReawaken, handleVars, contextVars>>

\* No callback: the task completes with what its last turn returned, and
\* handles still in _toFork are never handed over.
TurnCompletes(r) ==
  /\ pc[r] = "turn"
  /\ ~handler[current[r]]
  /\ \E v \in ReturnValue : rval' = [rval EXCEPT ![current[r]] = v]
  /\ Goto(r, "complete")
  /\ UNCHANGED <<poolVars, current, toReawaken, handleVars,
                 ctx, owner, outstanding, toFork, turn, ready, handler>>

EnqueueTasksSilently(r) ==  \* mutant: no JS_NOTIFY_ALL_CONDVAR
  /\ pc[r] = "enqueue"
  /\ toCreate' = toCreate \o toFork[current[r]]
  /\ Goto(r, "clear")
  /\ UNCHANGED <<main, terminating, current, toReawaken,
                 handleVars, contextVars>>

\* Runner::enqueueTasks, under the lock.
EnqueueTasks(r) ==
  /\ pc[r] = "enqueue"
  /\ toCreate' = toCreate \o toFork[current[r]]
  /\ GotoAndNotify(r, "clear")
  /\ UNCHANGED <<main, terminating, current, toReawaken,
                 handleVars, contextVars>>

ClearForkedNot(r) ==  \* mutant: _toFork is not cleared
  /\ pc[r] = "clear"
  /\ current' = [current EXCEPT ![r] = NoTask]
  /\ Goto(r, "getWork")
  /\ UNCHANGED <<poolVars, toReawaken, handleVars, contextVars>>

\* _toFork.clear(), and back to getWork.
ClearForked(r) ==
  /\ pc[r] = "clear"
  /\ toFork' = [toFork EXCEPT ![current[r]] = <<>>]
  /\ current' = [current EXCEPT ![r] = NoTask]
  /\ Goto(r, "getWork")
  /\ UNCHANGED <<poolVars, toReawaken, handleVars,
                 ctx, owner, outstanding, turn, ready, handler, rval>>
-----------------------------------------------------------------------------
(***************************************************************************)
(* Completion of the current task.                                         *)
(***************************************************************************)
CompleteAnyTerminates(r) ==  \* mutant: any task that ends ends the pool
  /\ pc[r] = "complete"
  /\ terminating' = TRUE
  /\ GotoAndNotify(r, "free")
  /\ UNCHANGED <<main, toCreate, current, toReawaken, handleVars, contextVars>>

\* RootTaskHandle::onCompleted: ThreadPool::terminate, under the lock.
CompleteRoot(r) ==
  /\ pc[r] = "complete"
  /\ current[r] = Root
  /\ terminating' = TRUE
  /\ GotoAndNotify(r, "free")
  /\ UNCHANGED <<main, toCreate, current, toReawaken, handleVars, contextVars>>

\* ClonedObj::pack leaves _result NULL when the value cannot be cloned.
Packed(v) == IF v = "unclonable" THEN "none" ELSE v

PackResultUnroots(r) ==  \* mutant: delRoot comes first
  LET t == current[r] IN
  /\ pc[r] = "complete"
  /\ t # Root
  /\ result' = [result EXCEPT ![t] = Packed(rval[t])]
  /\ rooted' = [rooted EXCEPT ![t] = @ /\ owner[parent[t]] # r]
  /\ Goto(r, "notify")
  /\ UNCHANGED <<poolVars, current, toReawaken, parent, gen, slot, got,
                 contextVars>>

\* ChildTaskHandle::onCompleted, its first statement.
PackResult(r) ==
  LET t == current[r] IN
  /\ pc[r] = "complete"
  /\ t # Root
  /\ result' = [result EXCEPT ![t] = Packed(rval[t])]
  /\ Goto(r, "notify")
  /\ UNCHANGED <<poolVars, current, toReawaken, parent, gen, slot, got, rooted,
                 contextVars>>

NotifyParentEveryChild(r) ==  \* mutant: each child reawakens its parent
  LET p == parent[current[r]] IN
  /\ pc[r] = "notify"
  /\ outstanding' = [outstanding EXCEPT ![p] = @ - 1]
  /\ Goto(r, "reawaken")
  /\ UNCHANGED <<poolVars, current, toReawaken, handleVars,
                 ctx, owner, toFork, turn, ready, handler, rval>>

\* TaskContext::onChildCompleted of the parent: the atomic decrement decides
\* which child reawakens it.
NotifyParent(r) ==
  LET p == parent[current[r]] IN
  /\ pc[r] = "notify"
  /\ outstanding' = [outstanding EXCEPT ![p] = @ - 1]
  /\ Goto(r, IF outstanding[p] = 1 THEN "reawaken" ELSE "free")
  /\ UNCHANGED <<poolVars, current, toReawaken, handleVars,
                 ctx, owner, toFork, turn, ready, handler, rval>>

ReawakenHere(r) ==  \* mutant: the parent moves to the runner of its child
  LET p == parent[current[r]] IN
  /\ pc[r] = "reawaken"
  /\ toReawaken' = [toReawaken EXCEPT ![r] = Append(@, p)]
  /\ GotoAndNotify(r, "free")
  /\ UNCHANGED <<poolVars, current, handleVars, contextVars>>

\* Runner::reawaken of the parent's runner, under the lock.
Reawaken(r) ==
  LET p == parent[current[r]] IN
  /\ pc[r] = "reawaken"
  /\ toReawaken' = [toReawaken EXCEPT ![owner[p]] = Append(@, p)]
  /\ GotoAndNotify(r, "free")
  /\ UNCHANGED <<poolVars, current, handleVars, contextVars>>

\* delRoot of the handle and of the context, delete this, back to getWork.
\* The handle was rooted in the runtime of its parent's runner, and delRoot
\* looks for it in the runtime of the runner that ran the child.
FreeContext(r) ==
  LET t == current[r] IN
  /\ pc[r] = "free"
  /\ rooted' = [rooted EXCEPT ![t] = @ /\ (t # Root => owner[parent[t]] # r)]
  /\ ctx' = [ctx EXCEPT ![t] = "freed"]
  /\ current' = [current EXCEPT ![r] = NoTask]
  /\ Goto(r, "getWork")
  /\ UNCHANGED <<poolVars, toReawaken, parent, gen, result, slot, got,
                 owner, outstanding, toFork, turn, ready, handler, rval>>
-----------------------------------------------------------------------------
Script(r) ==
  \/ \E t \in Task : Fork(r, t) \/ Get(r, t)
  \/ SetOncompletion(r)
  \/ TurnFails(r) \/ TurnSuspends(r) \/ TurnLoops(r) \/ TurnCompletes(r)

Step(r) ==
  \/ TakeReawakened(r) \/ Quit(r) \/ TakeToCreate(r) \/ Wait(r)
  \/ CreateTaskContext(r) \/ BeginTurn(r) \/ Script(r)
  \/ EnqueueTasks(r) \/ ClearForked(r)
  \/ CompleteRoot(r) \/ PackResult(r) \/ NotifyParent(r) \/ Reawaken(r)
  \/ FreeContext(r)

\* The process has returned from init(): the only state in which nothing
\* can happen any more.
Returned == main = "returned" /\ UNCHANGED vars

Next == StartPool \/ Shutdown \/ (\E r \in Runner : Step(r)) \/ Returned

\* Native threads: a runner that can take a step takes one, and scripts do
\* not run for ever (they fork at most Task and take at most MaxTurns turns).
Fairness ==
  /\ WF_vars(StartPool) /\ WF_vars(Shutdown)
  /\ \A r \in Runner : WF_vars(Step(r))

Spec     == Init /\ [][Next]_vars
FairSpec == Spec /\ Fairness
-----------------------------------------------------------------------------
(***************************************************************************)
(* Properties.                                                             *)
(***************************************************************************)
\* The task has a context and onCompleted has told its parent or the pool.
Completed(t) ==
  \/ ctx[t] = "freed"
  \/ \E r \in Runner : current[r] = t /\ pc[r] \in {"reawaken", "free"}

\* The runner is between the addition to the counter and the clear().
HandingOver(p) ==
  \E r \in Runner : current[r] = p /\ pc[r] \in {"enqueue", "clear"}

\* The children the counter of p stands for: handed over (or about to be),
\* and not yet completed.
Pending(p) ==
  {t \in Task : /\ parent[t] = p
                /\ t \notin Range(toFork[p]) \/ HandingOver(p)
                /\ ~Completed(t)}

\* The counter that is updated without the lock, by every runner, is exact:
\* no child is ever counted twice, forgotten, or visible before it is counted
\* (JS_ATOMIC_ADD before enqueueTasks in resume, the decrement of
\* onChildCompleted).
CounterExact == \A p \in Task : outstanding[p] = Cardinality(Pending(p))

\* "get() can only be called once all of its siblings have completed": a
\* generation that is marked ready has no child that is still to complete
\* (newGeneration runs only when the last child has reawakened the parent).
JoinComplete ==
  \A t \in Task : parent[t] # NoTask /\ IsReady(t) => Completed(t)

\* No runner works on, will be handed, or will notify a TaskContext that
\* "delete this" of resume has freed: a parent outlives its pending children.
NoUseAfterFree ==
  /\ \A r \in Runner :
       /\ current[r] # NoTask /\ pc[r] # "create" => ctx[current[r]] = "live"
       /\ pc[r] = "create" => ctx[current[r]] = "none"
       /\ pc[r] = "reawaken" => ctx[parent[current[r]]] = "live"
       /\ \A p \in Range(toReawaken[r]) : ctx[p] = "live"
  /\ \A p \in Task : Pending(p) # {} => ctx[p] = "live"

\* A task is in one place: worked on by one runner, or in one queue, once.  A
\* parent whose children have all completed before its own runner came round
\* to _toFork.clear() waits in that runner's queue, where nobody else takes it.
OneHome ==
  /\ IsInjective(toCreate)
  /\ \A r \in Runner :
       /\ IsInjective(toReawaken[r])
       /\ Range(toReawaken[r]) \cap Range(toCreate) = {}
       /\ current[r] \notin Range(toCreate)
       /\ \A q \in Runner :
            /\ current[r] \in Range(toReawaken[q]) => pc[r] = "clear" /\ q = r
            /\ q # r => /\ current[q] = current[r] => current[r] = NoTask
                        /\ Range(toReawaken[q]) \cap Range(toReawaken[r]) = {}

\* "Once a task starts executing on a given runner, it never moves": the
\* objects of a task belong to the JSRuntime of the runner that created them.
RunnerAffinity ==
  \A r \in Runner :
    /\ current[r] # NoTask /\ pc[r] # "create" => owner[current[r]] = r
    /\ \A p \in Range(toReawaken[r]) : owner[p] = r

\* No lost wakeup: a runner that sleeps in getWork has nothing to do, although
\* contexts are reawakened, tasks enqueued and the pool terminated by others.
NoSleepOnWork ==
  \A r \in Runner :
    pc[r] = "waiting" => toCreate = <<>> /\ toReawaken[r] = <<>> /\ ~terminating

\* When the root task ends the pool, nothing is left to run: the runners may
\* quit without looking at _toCreate (getWork tests terminating first).
DrainedAtTermination ==
  terminating =>
    /\ toCreate = <<>>
    /\ \A r \in Runner : toReawaken[r] = <<>>
    /\ \A t \in Task : ctx[t] = "live" =>
         \E r \in Runner : current[r] = t /\ pc[r] = "free"

\* get returns what the task's last turn returned, or null when that could
\* not be cloned, however often and in whatever turn it is called.
GetFaithful ==
  \A t \in Task : got[t] # "none" =>
    got[t] = IF rval[t] = "data" THEN "data" ELSE "null"

\* resume calls the completion callback only when there is one: whoever
\* suspends or loops has one, and nobody takes it away meanwhile.
CallbackPresent ==
  \A r \in Runner : pc[r] = "resume" /\ turn[current[r]] > 0 => handler[current[r]]

\* The garbage collector of the parent's runtime deletes a TaskHandle when its
\* object is neither rooted nor reachable: until the child has completed, the
\* pool's pointers to its handle are safe whatever the parent's script drops.
HandlesStayRooted ==
  \A t \in Task : parent[t] # NoTask /\ ctx[t] # "freed" => rooted[t]

\* "until the TaskContext completes, at which point both C++ objects remove
\* themselves from the root set".
HandlesUnrooted ==
  \A t \in Task : ctx[t] = "freed" => ~rooted[t]

\* init() returns: every task that was handed over is run, every parent is
\* reawakened, every runner quits.
Termination == <>(main = "returned")
-----------------------------------------------------------------------------
(***************************************************************************)
(* The safety properties, strengthened to an inductive invariant.          *)
(***************************************************************************)
\* A task that the pool has not seen: at most a handle in its parent's hands.
Untouched(t) ==
  ctx[t] = "none" /\ t \notin Range(toCreate) /\ \A r \in Runner : current[r] # t

Clearing(p) == \E r \in Runner : current[r] = p /\ pc[r] = "clear"

\* Where tasks can be.
Placed ==
  /\ \A t \in Task : ctx[t] # "none" => owner[t] \in Runner
  /\ IsInjective(toCreate)
  /\ \A t \in Range(toCreate) : ctx[t] = "none" /\ \A r \in Runner : current[r] # t
  /\ \A r \in Runner :
       /\ current[r] = NoTask <=> pc[r] \in {"getWork", "waiting", "exited"}
       /\ pc[r] = "create" => ctx[current[r]] = "none"
       /\ current[r] # NoTask /\ pc[r] # "create" =>
            ctx[current[r]] = "live" /\ owner[current[r]] = r
       /\ \A q \in Runner :
            r # q /\ pc[r] = "create" /\ pc[q] = "create" => current[r] # current[q]
       /\ IsInjective(toReawaken[r])
       /\ \A p \in Range(toReawaken[r]) : ctx[p] = "live" /\ owner[p] = r

\* What a task is before it is forked, handed over or created.
Born ==
  /\ parent[Root] = NoTask
  /\ main = "start" => Untouched(Root)
  /\ \A t \in Task :
       /\ t # Root /\ parent[t] = NoTask => Untouched(t)
       /\ parent[t] # NoTask => /\ ctx[parent[t]] # "none"
                                /\ gen[t] \in 1..turn[parent[t]]
       /\ ctx[t] = "none" => toFork[t] = <<>> /\ turn[t] = 0
       /\ IsInjective(toFork[t])
       /\ \A c \in Range(toFork[t]) :
            parent[c] = t /\ (Untouched(c) \/ Clearing(t))

\* How the turns of a task, its callback and its generations hang together.
Turns ==
  /\ \A t \in Task :
       /\ handler[t] => 0 < turn[t] /\ turn[t] < MaxTurns
       /\ \A g \in ready[t] : g < turn[t]
  /\ \A r \in Runner :
       /\ pc[r] \in {"notify", "reawaken"} => current[r] # Root
       /\ pc[r] = "resume" => toFork[current[r]] = <<>>
       /\ pc[r] = "resume" /\ turn[current[r]] > 0 => handler[current[r]]
       /\ current[r] # NoTask /\ pc[r] \notin {"create", "resume"} =>
            turn[current[r]] > 0
       /\ \A t \in Task :
            current[r] = t /\ pc[r] = "enqueue" => Pending(t) \subseteq Range(toFork[t])

\* A parent with pending children is suspended, or on its way to be.
Suspended(p) ==
  /\ ctx[p] = "live" /\ handler[p] /\ turn[p] > 0
  /\ toFork[p] = <<>> \/ HandingOver(p)
  /\ \A r \in Runner : current[r] = p => pc[r] \in {"enqueue", "clear"}

\* Its last child is about to reawaken it, or has done so.
Woken(p) ==
  /\ ctx[p] = "live" /\ handler[p] /\ turn[p] > 0
  /\ Pending(p) = {}
  /\ toFork[p] = <<>> \/ Clearing(p)
  /\ \A r \in Runner : current[r] = p => pc[r] = "clear"

Waking(r, p) == pc[r] = "reawaken" /\ parent[current[r]] = p

Awaited ==
  \A p \in Task :
    /\ Pending(p) # {} => Suspended(p)
    /\ \A r \in Runner :
         /\ p \in Range(toReawaken[r]) \/ Waking(r, p) => Woken(p)
         /\ Waking(r, p) => \A q \in Runner :
                               /\ p \notin Range(toReawaken[q])
                               /\ Waking(q, p) => q = r

\* Between them these parts say why no parent is reawakened early, twice, or
\* after its end, whatever the order of the decrements and of the clear().
IndInv ==
  TypeOK /\ Placed /\ Born /\ Turns /\ Awaited /\ CounterExact /\ JoinComplete
-----------------------------------------------------------------------------
(***************************************************************************)
(* The pool implements ForkJoin.                                           *)
(***************************************************************************)
InTurn(t) ==
  \E r \in Runner : /\ current[r] = t
                    /\ pc[r] \in {"resume", "turn", "enqueue", "complete", "notify"}

\* A handle is work for the pool once enqueueTasks has published it.
Published(t) ==
  \/ t \notin Range(toFork[parent[t]])
  \/ \E r \in Runner : current[r] = parent[t] /\ pc[r] = "clear"

\* A first turn begins when the runner creates the context, a later one when
\* the runner takes the context from its queue.
Status(t) ==
  CASE Completed(t)    -> "done"
    [] ctx[t] = "live" /\ ~Completed(t) ->
         IF InTurn(t) THEN "running" ELSE "suspended"
    [] ctx[t] = "none" ->
         IF t = Root THEN "ready"
         ELSE IF parent[t] = NoTask THEN "unborn"
         ELSE IF Published(t) THEN "ready" ELSE "forked"

Abstract == INSTANCE ForkJoin WITH status <- [t \in Task |-> Status(t)]

\* Runners, queues and counters together behave as a tree of tasks in which a
\* parent is suspended from the hand-over of its children to their last end.
ImplementsForkJoin == Abstract!Spec

\* The same without the promise that every task ends.
ImplementsForkJoinSteps == Abstract!SafeSpec
=============================================================================
