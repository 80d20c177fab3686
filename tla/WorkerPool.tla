----------------------------- MODULE WorkerPool -----------------------------
(***************************************************************************)
(* The shell workers of c/jsworkers.cpp: a tree of Workers, each with a    *)
(* queue of Events and a lock; a WorkerQueue of the Workers that have      *)
(* events, served by the threads of a ThreadPool; and a MainQueue of       *)
(* events for the main thread, which works on it in finish().              *)
(*                                                                         *)
(* Every section of code that holds a lock, with the locks nested in it,   *)
(* is one action; so is every call a script makes.  The nesting follows    *)
(* the partial order MainQueue, Worker, child Worker, WorkerQueue.         *)
(* Memory exhaustion is left out.  Worker objects live until shutdown: for *)
(* what a garbage collection marks, see Collector.  Queue<T> is a sequence *)
(* here: see TwoStackQueue.                                                *)
(***************************************************************************)
EXTENDS Naturals, SequencesExt

CONSTANTS
  Thread,      \* the threads of the pool (threadCount = 6 in the code)
  MaxWorkers,  \* bounds the Workers that scripts create
  MaxEvents,   \* bounds the Events that are created
  Main,        \* the MainQueue as the parent of a Worker, and the main thread
  None         \* a null pointer

\* Objects, numbered in the order of their creation.
Worker == 1..MaxWorkers
Event  == 1..MaxEvents

ASSUME WorkerPoolAssumption ==
  /\ IsFiniteSet(Thread)
  /\ MaxWorkers \in Nat /\ MaxEvents \in Nat
  /\ Main \notin Thread \cup Worker
  /\ None \notin Thread \cup Worker \cup Event \cup {Main}

VARIABLES
  main,         \* where the main thread is, see MainLocation
  mainEvent,    \* the event the main thread processes
  mq,           \* MainQueue::queue
  wq,           \* WorkerQueue::queue
  closed,       \* WorkerQueue::closed
  terminating,  \* ThreadPool::terminating
  pc,           \* where each thread is, see Location
  job,          \* the Worker each thread has taken: its entry in busy
  event,        \* the local variable event of processOneEvent
  parent,       \* Worker::parent; None: not created yet
  events,       \* Worker::events
  current,      \* Worker::current
  terminated,   \* Worker::terminated
  flag,         \* Worker::terminateFlag
  kind,         \* the class of an Event; "unborn" before, "destroyed" after
  child         \* Event::child

poolVars   == <<closed, terminating>>
workerVars == <<parent, current, terminated, flag>>
vars == <<main, mainEvent, mq, wq, poolVars, pc, job, event, workerVars,
          events, kind, child>>

MainLocation ==
  { "script",   \* the shell's script runs
    "take",     \* in take() of mainThreadWork
    "waiting",  \* in JS_WAIT_CONDVAR of take()
    "event",    \* in event->process
    "finish",   \* process returned fail: about to destroy the event
    "stopped",  \* mainThreadWork has returned: about to call shutdown
    "joining",  \* the WorkerQueue is closed: waits for the threads
    "done",     \* finish() has returned
    "aborted" } \* the process has ended without finish()

Location ==
  { "take",     \* about to call take() in WorkerQueue::work
    "waiting",  \* in JS_WAIT_CONDVAR of take()
    "process",  \* at the head of processOneEvent
    "run",      \* in event->process: a script runs
    "posting",  \* in jsPostMessageToParent, past its check
    "forward",  \* process returned forwardToParent
    "failed",   \* process, or the forwarding, returned fail
    "error",    \* about to create and post an ErrorEvent
    "finish",   \* about to destroy the event
    "release",  \* about to reset current
    "drop",     \* back in WorkerQueue::work, about to drop the Worker
    "wake",     \* the queue was idle: about to wake the main thread
    "exited" }  \* take() returned false: the thread ends

Kind == {"unborn", "init", "down", "up", "error", "destroyed"}

TypeOK ==
  /\ main \in MainLocation
  /\ mainEvent \in Event \cup {None}
  /\ mq \in Seq(Event)
  /\ wq \in Seq(Worker)
  /\ closed \in BOOLEAN
  /\ terminating \in BOOLEAN
  /\ pc \in [Thread -> Location]
  /\ job \in [Thread -> Worker \cup {None}]
  /\ event \in [Thread -> Event \cup {None}]
  /\ parent \in [Worker -> Worker \cup {Main, None}]
  /\ events \in [Worker -> Seq(Event)]
  /\ current \in [Worker -> Event \cup {None}]
  /\ terminated \in [Worker -> BOOLEAN]
  /\ flag \in [Worker -> BOOLEAN]
  /\ kind \in [Event -> Kind]
  /\ child \in [Event -> Worker \cup {None}]
  /\ mainEvent # None => main \in {"event", "finish", "aborted"}
  /\ main \in {"event", "finish"} => mainEvent # None
  /\ \A t \in Thread :
       job[t] # None <=> pc[t] \notin {"take", "waiting", "wake", "exited"}

\* The state initWorkers leaves: an empty tree and threads that are starting.
Init ==
  /\ main = "script" /\ mainEvent = None
  /\ mq = <<>> /\ wq = <<>>
  /\ closed = FALSE /\ terminating = FALSE
  /\ pc = [t \in Thread |-> "take"]
  /\ job = [t \in Thread |-> None]
  /\ event = [t \in Thread |-> None]
  /\ parent = [w \in Worker |-> None]
  /\ events = [w \in Worker |-> <<>>]
  /\ current = [w \in Worker |-> None]
  /\ terminated = [w \in Worker |-> FALSE]
  /\ flag = [w \in Worker |-> FALSE]
  /\ kind = [e \in Event |-> "unborn"]
  /\ child = [e \in Event |-> None]
-----------------------------------------------------------------------------
(***************************************************************************)
(* Posting.                                                                *)
(***************************************************************************)
Goto(t, l) == pc' = [pc EXCEPT ![t] = l]

GotoQuietly(t, l) == Goto(t, l)  \* mutant: post does not notify

\* ThreadSafeQueue::post notifies the condition variable when the queue was
\* empty: then every waiting thread wakes up.  wq' is known here.
GotoAndNotify(t, l) ==
  pc' = [u \in Thread |-> IF u = t THEN l
                          ELSE IF pc[u] = "waiting" /\ wq = <<>> /\ wq' # <<>>
                            THEN "take"
                          ELSE pc[u]]

NewWorker(w) == parent[w] = None /\ \A v \in Worker : v < w => parent[v] # None
NewEvent(e)  == kind[e] = "unborn" /\ \A f \in Event : f < e => kind[f] # "unborn"

\* An Event object is created, or an existing one is given a new child.
SetEvent(e, k, c) ==
  /\ kind' = [kind EXCEPT ![e] = k]
  /\ child' = [child EXCEPT ![e] = c]

Destroyed(S) == [e \in Event |-> IF e \in S THEN "destroyed" ELSE kind[e]]

Unoccupied(w) == current[w] = None /\ events[w] = <<>>

AcceptsWhenTerminated(p) ==  \* mutant: terminated is not tested
  p \in Worker => (Unoccupied(p) => ~closed)

\* Does p->post(event) return true?
Accepts(p) ==
  p \in Worker => ~terminated[p] /\ (Unoccupied(p) => ~closed)

PostEnqueues(p, e) ==  \* mutant: a busy Worker is enqueued as well
  \/ /\ p = Main
     /\ mq' = Append(mq, e)
     /\ main' = IF main = "waiting" /\ mq = <<>> THEN "take" ELSE main
     /\ UNCHANGED <<wq, events>>
  \/ /\ p \in Worker
     /\ events' = [events EXCEPT ![p] = Append(@, e)]
     /\ wq' = Append(wq, p)
     /\ UNCHANGED <<mq, main>>

\* MainQueue::post and Worker::post: a Worker that was idle is enqueued.
Post(p, e) ==
  \/ /\ p = Main
     /\ mq' = Append(mq, e)
     /\ main' = IF main = "waiting" /\ mq = <<>> THEN "take" ELSE main
     /\ UNCHANGED <<wq, events>>
  \/ /\ p \in Worker
     /\ events' = [events EXCEPT ![p] = Append(@, e)]
     /\ wq' = IF Unoccupied(p) THEN Append(wq, p) ELSE wq
     /\ UNCHANGED <<mq, main>>
-----------------------------------------------------------------------------
(***************************************************************************)
(* Termination of a Worker.                                                *)
(***************************************************************************)
MustTerminate(w) == flag[w] \/ terminating

CheckTerminationAlone(w) ==  \* mutant: the children are not told
  IF MustTerminate(w)
  THEN /\ terminated' = [terminated EXCEPT ![w] = TRUE]
       /\ events' = [events EXCEPT ![w] = <<>>]
       /\ flag' = [flag EXCEPT ![w] = FALSE]
  ELSE UNCHANGED <<terminated, events, flag>>

\* lockedCheckTermination, with terminateSelf: the events that are pending
\* are gone (see Doomed) and the children are told.
CheckTermination(w) ==
  IF MustTerminate(w)
  THEN /\ terminated' = [terminated EXCEPT ![w] = TRUE]
       /\ events' = [events EXCEPT ![w] = <<>>]
       /\ flag' = [c \in Worker |-> c # w /\ (flag[c] \/ parent[c] = w)]
  ELSE UNCHANGED <<terminated, events, flag>>

\* The events that lockedCheckTermination destroys.
Doomed(w) == IF MustTerminate(w) THEN Range(events[w]) ELSE {}

\* What lockedCheckTermination returns.
IsOver(w) == terminated[w] \/ MustTerminate(w)
-----------------------------------------------------------------------------
(***************************************************************************)
(* Calls that scripts make: a is the main thread or a thread of the pool.  *)
(***************************************************************************)
Scripting(a) == IF a = Main THEN main \in {"script", "event"} ELSE pc[a] = "run"
Self(a)      == IF a = Main THEN Main ELSE job[a]

\* new Worker(script): Worker::create with its InitEvent.
Create(a, w, e) ==
  /\ Scripting(a)
  /\ NewWorker(w) /\ NewEvent(e)
  /\ parent' = [parent EXCEPT ![w] = Self(a)]
  /\ SetEvent(e, "init", w)
  /\ events' = [events EXCEPT ![w] = Append(@, e)]
  /\ wq' = Append(wq, w)
  /\ GotoAndNotify(a, "run")
  /\ UNCHANGED <<main, mainEvent, mq, poolVars, job, event,
                 current, terminated, flag>>

\* new Worker in the script of a Worker.  Create is what it does once its
\* constructor knows its parent; but createContext sets the reserved slot of
\* post twice and never that of ctor.  The slots are void, and the process
\* crashes on the ThreadPool pointer it takes from one.
CreateNested(t) ==
  /\ pc[t] = "run"
  /\ main' = "aborted"
  /\ UNCHANGED <<mainEvent, mq, wq, poolVars, pc, job, event, workerVars,
                 events, kind, child>>

\* child.postMessage(data)
PostMessageToChild(a, w, e) ==
  /\ Scripting(a)
  /\ parent[w] = Self(a) /\ NewEvent(e)
  /\ Accepts(w)
  /\ SetEvent(e, "down", w)
  /\ Post(w, e)
  /\ GotoAndNotify(a, "run")
  /\ UNCHANGED <<mainEvent, poolVars, job, event, workerVars>>

\* The child is terminated: "out of memory", which a script cannot catch, and
\* nobody destroys the event.
PostMessageToChildFails(a, w, e) ==
  /\ Scripting(a)
  /\ parent[w] = Self(a) /\ NewEvent(e)
  /\ ~Accepts(w)
  /\ SetEvent(e, "down", w)
  /\ IF a = Main
     THEN main' = (IF main = "script" THEN "aborted" ELSE "finish") /\ UNCHANGED pc
     ELSE Goto(a, "failed") /\ UNCHANGED main
  /\ UNCHANGED <<mainEvent, mq, wq, poolVars, job, event, workerVars, events>>

\* child.terminate(): setTerminateFlag.
Terminate(a, w) ==
  /\ Scripting(a)
  /\ parent[w] = Self(a)
  /\ flag' = [flag EXCEPT ![w] = TRUE]
  /\ UNCHANGED <<main, mainEvent, mq, wq, poolVars, pc, job, event,
                 parent, current, terminated, events, kind, child>>
-----------------------------------------------------------------------------
(***************************************************************************)
(* WorkerQueue::work.                                                      *)
(***************************************************************************)
\* take(), with the lock held, by a thread that is not in busy (any more).
Take(t) ==
  \/ /\ wq # <<>>
     /\ job' = [job EXCEPT ![t] = Head(wq)]
     /\ wq' = Tail(wq)
     /\ Goto(t, "process")
  \/ /\ wq = <<>>
     /\ job' = [job EXCEPT ![t] = None]
     /\ Goto(t, IF closed THEN "exited" ELSE "waiting")
     /\ UNCHANGED wq

TakeWorker(t) ==
  /\ pc[t] = "take"
  /\ Take(t)
  /\ UNCHANGED <<main, mainEvent, mq, poolVars, event, workerVars,
                 events, kind, child>>

NothingEnqueued(T) == wq = <<>>  \* mutant: busy threads are not looked at

\* ThreadSafeQueue::lockedIsIdle, when only the threads in T may be busy.
IdleBut(T) == wq = <<>> /\ \A t \in Thread \ T : job[t] = None

DropWorkerLate(t) ==  \* mutant: the main thread is woken before the drop
  /\ pc[t] = "drop"
  /\ IF IdleBut({t}) THEN Goto(t, "wake") /\ UNCHANGED <<job, wq>> ELSE Take(t)
  /\ UNCHANGED <<main, mainEvent, mq, poolVars, event, workerVars,
                 events, kind, child>>

\* drop(w); then take() again, unless the main thread must be told first.
DropWorker(t) ==
  /\ pc[t] = "drop"
  /\ IF IdleBut({t})
     THEN /\ job' = [job EXCEPT ![t] = None]
          /\ Goto(t, "wake")
          /\ UNCHANGED wq
     ELSE Take(t)
  /\ UNCHANGED <<main, mainEvent, mq, poolVars, event, workerVars,
                 events, kind, child>>

WakeMain(t) ==
  /\ pc[t] = "wake"
  /\ main' = IF main = "waiting" THEN "take" ELSE main
  /\ Goto(t, "take")
  /\ UNCHANGED <<mainEvent, mq, wq, poolVars, job, event, workerVars,
                 events, kind, child>>
-----------------------------------------------------------------------------
(***************************************************************************)
(* Worker::processOneEvent, by thread t.                                   *)
(***************************************************************************)
StartEvent(t) ==
  LET w == job[t] IN
  /\ pc[t] = "process"
  /\ ~IsOver(w) /\ events[w] # <<>>
  /\ event' = [event EXCEPT ![t] = Head(events[w])]
  /\ current' = [current EXCEPT ![w] = Head(events[w])]
  /\ events' = [events EXCEPT ![w] = Tail(@)]
  /\ Goto(t, "run")
  /\ UNCHANGED <<main, mainEvent, mq, wq, poolVars, job,
                 parent, terminated, flag, kind, child>>

SkipEvent(t) ==
  LET w == job[t] IN
  /\ pc[t] = "process"
  /\ IsOver(w) \/ events[w] = <<>>
  /\ CheckTermination(w)
  /\ kind' = Destroyed(Doomed(w))
  /\ Goto(t, "drop")
  /\ UNCHANGED <<main, mainEvent, mq, wq, poolVars, job, event,
                 parent, current, child>>

\* jsOperationCallback, or the check of jsPostMessageToParent, ends the script.
TerminateScript(t) ==
  LET w == job[t] IN
  /\ pc[t] = "run"
  /\ MustTerminate(w)
  /\ CheckTermination(w)
  /\ kind' = Destroyed(Doomed(w))
  /\ Goto(t, "failed")
  /\ UNCHANGED <<main, mainEvent, mq, wq, poolVars, job, event,
                 parent, current, child>>

\* postMessage(data): checkTermination, then the post.
CheckBeforePost(t) ==
  /\ pc[t] = "run"
  /\ ~MustTerminate(job[t])
  /\ Goto(t, "posting")
  /\ UNCHANGED <<main, mainEvent, mq, wq, poolVars, job, event, workerVars,
                 events, kind, child>>

PostMessageToParent(t, e) ==
  LET w == job[t] IN
  /\ pc[t] = "posting"
  /\ NewEvent(e)
  /\ Accepts(parent[w])
  /\ SetEvent(e, "up", w)
  /\ Post(parent[w], e)
  /\ GotoAndNotify(t, "run")
  /\ UNCHANGED <<mainEvent, poolVars, job, event, workerVars>>

\* JS_WriteStructuredClone fails, or the parent is terminated: then the event
\* is destroyed at once.
PostMessageToParentFails(t) ==
  /\ pc[t] = "posting"
  /\ Goto(t, "failed")
  /\ UNCHANGED <<main, mainEvent, mq, wq, poolVars, job, event, workerVars,
                 events, kind, child>>

ScriptReturns(t) ==
  /\ pc[t] = "run"
  /\ Goto(t, "finish")
  /\ UNCHANGED <<main, mainEvent, mq, wq, poolVars, job, event, workerVars,
                 events, kind, child>>

ScriptFails(t) ==
  /\ pc[t] = "run"
  /\ Goto(t, "failed")
  /\ UNCHANGED <<main, mainEvent, mq, wq, poolVars, job, event, workerVars,
                 events, kind, child>>

\* ErrorEvent::process without an onerror handler returns forwardToParent.
NoErrorHandler(t) ==
  /\ pc[t] = "run"
  /\ kind[event[t]] = "error"
  /\ Goto(t, "forward")
  /\ UNCHANGED <<main, mainEvent, mq, wq, poolVars, job, event, workerVars,
                 events, kind, child>>

ForwardAsIs(t) ==  \* mutant: no setChildAndRecipient
  LET w == job[t] IN
  /\ pc[t] = "forward"
  /\ UNCHANGED <<kind, child>>
  /\ IF Accepts(parent[w])
     THEN /\ Post(parent[w], event[t])
          /\ event' = [event EXCEPT ![t] = None]
          /\ GotoAndNotify(t, "finish")
     ELSE /\ Goto(t, "failed")
          /\ UNCHANGED <<main, mq, wq, events, event>>
  /\ UNCHANGED <<mainEvent, poolVars, job, workerVars>>

ForwardAndKeep(t) ==  \* mutant: event is not set to NULL
  LET w == job[t] IN
  /\ pc[t] = "forward"
  /\ SetEvent(event[t], "error", w)
  /\ IF Accepts(parent[w])
     THEN Post(parent[w], event[t]) /\ GotoAndNotify(t, "finish")
     ELSE Goto(t, "failed") /\ UNCHANGED <<main, mq, wq, events>>
  /\ UNCHANGED <<mainEvent, poolVars, job, event, workerVars>>

\* The event is the parent's now, as an error of this Worker.
ForwardToParent(t) ==
  LET w == job[t] IN
  /\ pc[t] = "forward"
  /\ SetEvent(event[t], "error", w)
  /\ IF Accepts(parent[w])
     THEN /\ Post(parent[w], event[t])
          /\ event' = [event EXCEPT ![t] = None]
          /\ GotoAndNotify(t, "finish")
     ELSE /\ Goto(t, "failed")
          /\ UNCHANGED <<main, mq, wq, events, event>>
  /\ UNCHANGED <<mainEvent, poolVars, job, workerVars>>

\* checkTermination before an error is reported: a Worker that terminates
\* reports none.
CheckAfterFailure(t) ==
  LET w == job[t] IN
  /\ pc[t] = "failed"
  /\ CheckTermination(w)
  /\ kind' = Destroyed(Doomed(w))
  /\ Goto(t, IF IsOver(w) THEN "finish" ELSE "error")
  /\ UNCHANGED <<main, mainEvent, mq, wq, poolVars, job, event,
                 parent, current, child>>

PostError(t, e) ==
  LET w == job[t] IN
  /\ pc[t] = "error"
  /\ NewEvent(e)
  /\ Accepts(parent[w])
  /\ SetEvent(e, "error", w)
  /\ Post(parent[w], e)
  /\ GotoAndNotify(t, "finish")
  /\ UNCHANGED <<mainEvent, poolVars, job, event, workerVars>>

\* The exception has no string, or the parent is terminated.
DropError(t) ==
  /\ pc[t] = "error"
  /\ Goto(t, "finish")
  /\ UNCHANGED <<main, mainEvent, mq, wq, poolVars, job, event, workerVars,
                 events, kind, child>>

\* The event is destroyed, unless it was forwarded.
DestroyEvent(t) ==
  /\ pc[t] = "finish"
  /\ kind' = Destroyed({event[t]})
  /\ event' = [event EXCEPT ![t] = None]
  /\ Goto(t, "release")
  /\ UNCHANGED <<main, mainEvent, mq, wq, poolVars, job, workerVars, events,
                 child>>

ReleaseOnly(t) ==  \* mutant: the Worker is not enqueued again
  LET w == job[t] IN
  /\ pc[t] = "release"
  /\ kind' = Destroyed(Doomed(w))
  /\ current' = [current EXCEPT ![w] = None]
  /\ CheckTermination(w)
  /\ Goto(t, "drop")
  /\ UNCHANGED <<main, mainEvent, mq, wq, poolVars, job, event, parent, child>>

\* The Worker is released, and enqueued again if more events have arrived.
Release(t) ==
  LET w == job[t] IN
  /\ pc[t] = "release"
  /\ kind' = Destroyed(Doomed(w))
  /\ current' = [current EXCEPT ![w] = None]
  /\ CheckTermination(w)
  /\ wq' = IF ~IsOver(w) /\ events[w] # <<>> /\ ~closed THEN Append(wq, w) ELSE wq
  /\ GotoAndNotify(t, "drop")
  /\ UNCHANGED <<main, mainEvent, mq, poolVars, job, event, parent, child>>
-----------------------------------------------------------------------------
(***************************************************************************)
(* The main thread.                                                        *)
(***************************************************************************)
\* main() calls finish(), or returns because the script failed.
EndScript ==
  /\ main = "script"
  /\ main' \in {"take", "aborted"}
  /\ UNCHANGED <<mainEvent, mq, wq, poolVars, pc, job, event, workerVars,
                 events, kind, child>>

MainTakePeeks ==  \* mutant: the event stays in the queue
  /\ main = "take"
  /\ \/ /\ mq # <<>>
        /\ mainEvent' = Head(mq)
        /\ main' = "event"
     \/ /\ mq = <<>>
        /\ main' = IF IdleBut({}) THEN "stopped" ELSE "waiting"
        /\ UNCHANGED mainEvent
  /\ UNCHANGED <<mq, wq, poolVars, pc, job, event, workerVars,
                 events, kind, child>>

\* take() in mainThreadWork; shouldStop looks at the WorkerQueue while the
\* lock of the MainQueue is held.
MainTake ==
  /\ main = "take"
  /\ \/ /\ mq # <<>>
        /\ mainEvent' = Head(mq)
        /\ mq' = Tail(mq)
        /\ main' = "event"
     \/ /\ mq = <<>>
        /\ main' = IF IdleBut({}) THEN "stopped" ELSE "waiting"
        /\ UNCHANGED <<mainEvent, mq>>
  /\ UNCHANGED <<wq, poolVars, pc, job, event, workerVars, events, kind, child>>

\* continueOnError is true: whatever the handler does, the event is destroyed
\* and the loop goes on.
EndMainEvent ==
  /\ main \in {"event", "finish"}
  /\ kind' = Destroyed({mainEvent})
  /\ mainEvent' = None
  /\ main' = "take"
  /\ UNCHANGED <<mq, wq, poolVars, pc, job, event, workerVars, events, child>>

\* ThreadPool::shutdown: close() the WorkerQueue, and join the threads.
Close ==
  /\ main = "stopped"
  /\ main' = "joining"
  /\ closed' = TRUE
  /\ wq' = <<>>
  /\ pc' = [t \in Thread |-> IF pc[t] = "waiting" THEN "take" ELSE pc[t]]
  /\ UNCHANGED <<mainEvent, mq, terminating, job, event, workerVars,
                 events, kind, child>>

\* Every Worker is disposed of, with its events and those in the MainQueue.
Dispose ==
  /\ main = "joining"
  /\ \A t \in Thread : pc[t] = "exited"
  /\ main' = "done"
  /\ terminating' = FALSE
  /\ kind' = Destroyed(Range(mq) \cup UNION {Range(events[w]) : w \in Worker})
  /\ mq' = <<>>
  /\ events' = [w \in Worker |-> <<>>]
  /\ UNCHANGED <<mainEvent, wq, closed, pc, job, event, workerVars, child>>

\* terminateAll, by another thread (the watchdog): once terminating is set,
\* every check of a flag sees it, so that all flags are set at once here.
TerminateAll ==
  /\ main \notin {"done", "aborted"}
  /\ terminating' = TRUE
  /\ flag' = [w \in Worker |-> parent[w] # None]
  /\ UNCHANGED <<main, mainEvent, mq, wq, closed, pc, job, event,
                 parent, current, terminated, events, kind, child>>
-----------------------------------------------------------------------------
Call(a) ==
  \E w \in Worker :
    \/ Terminate(a, w)
    \/ \E e \in Event :
         \/ Create(a, w, e)
         \/ PostMessageToChild(a, w, e)
         \/ PostMessageToChildFails(a, w, e)

ThreadStep(t) ==
  \/ TakeWorker(t) \/ DropWorker(t) \/ WakeMain(t)
  \/ StartEvent(t) \/ SkipEvent(t)
  \/ Call(t) \/ CreateNested(t) \/ TerminateScript(t) \/ CheckBeforePost(t)
  \/ (\E e \in Event : PostMessageToParent(t, e))
  \/ PostMessageToParentFails(t)
  \/ ScriptReturns(t) \/ ScriptFails(t) \/ NoErrorHandler(t)
  \/ ForwardToParent(t) \/ CheckAfterFailure(t)
  \/ (\E e \in Event : PostError(t, e)) \/ DropError(t)
  \/ DestroyEvent(t) \/ Release(t)

MainStep == Call(Main) \/ EndScript \/ MainTake \/ EndMainEvent \/ Close \/ Dispose

\* The process has ended, with its threads.
Ended == main \in {"done", "aborted"} /\ UNCHANGED vars

Next ==
  \/ main # "aborted" /\ \E t \in Thread : ThreadStep(t)
  \/ MainStep
  \/ TerminateAll
  \/ Ended

\* Native threads take the steps they can take, and scripts end: the model
\* bounds what they create and post.
Fairness == WF_vars(MainStep) /\ \A t \in Thread : WF_vars(ThreadStep(t))

Spec     == Init /\ [][Next]_vars
FairSpec == Spec /\ Fairness
-----------------------------------------------------------------------------
(***************************************************************************)
(* Properties.                                                             *)
(***************************************************************************)
\* The section of processOneEvent between its two locks.
Running(t) ==
  pc[t] \in {"run", "posting", "forward", "failed", "error", "finish", "release"}

\* "so that two threads won't try to run a Worker at the same time": the
\* WorkerQueue holds a Worker at most once, and not while a thread has taken
\* it, so that the runtime of a Worker is entered by one thread at a time.
RunsAlone ==
  /\ IsInjective(wq)
  /\ \A t \in Thread :
       /\ Running(t) => job[t] # None /\ current[job[t]] # None
       /\ Running(t) \/ pc[t] = "process" =>
            /\ job[t] \notin Range(wq)
            /\ \A u \in Thread \ {t} :
                 Running(u) \/ pc[u] = "process" => job[u] # job[t]

\* Nobody is forgotten.  Worker::post enqueues only a Worker that has neither
\* events nor a current one: whoever has events is enqueued, or with a thread
\* that will enqueue it again.  post notifies only when the queue was empty,
\* and the threads go to sleep on the test of a queue that others fill: none
\* sleeps while there is work.  The main thread sleeps only while somebody is
\* still going to wake it.
NoLostWakeup ==
  /\ \A w \in Worker :
       events[w] # <<>> =>
         \/ w \in Range(wq)
         \/ \E t \in Thread : job[t] = w /\ (pc[t] = "process" \/ Running(t))
  /\ wq # <<>> \/ closed => \A t \in Thread : pc[t] # "waiting"
  /\ main = "waiting" =>
       /\ mq = <<>>
       /\ wq # <<>> \/ \E t \in Thread : job[t] # None \/ pc[t] = "wake"

\* Where an event is: each is in one queue or with one thread, once, and is
\* alive there; nothing is destroyed twice or used after that.
Holders(e) ==
  {w \in Worker : e \in Range(events[w])} \cup {t \in Thread : event[t] = e}
    \cup (IF mainEvent = e \/ e \in Range(mq) THEN {Main} ELSE {})
OwnedOnce ==
  /\ IsInjective(mq) /\ mainEvent \notin Range(mq)
  /\ \A w \in Worker : IsInjective(events[w])
  /\ \A e \in Event :
       /\ Cardinality(Holders(e)) <= 1
       /\ Holders(e) # {} => kind[e] \notin {"unborn", "destroyed"}

\* An event finds the global object it needs: a Worker is sent its own init
\* and down events, and its children's up and error events, however far an
\* error has been forwarded.
Belongs(e, p) ==
  IF kind[e] \in {"init", "down"} THEN child[e] = p ELSE parent[child[e]] = p
RoutedToParent ==
  /\ \A w \in Worker : \A e \in Range(events[w]) : Belongs(e, w)
  /\ \A t \in Thread : event[t] # None /\ pc[t] \notin {"failed", "error", "finish"}
       => Belongs(event[t], job[t])
  /\ \A e \in Range(mq) \cup ({mainEvent} \ {None}) : Belongs(e, Main)

\* "Tell the children to shut down too": when a Worker has terminated, all
\* its children have or will find their flag when they next run; its script
\* has ended; and no event is left to it, or accepted while children, parent
\* and the thread that runs it go on.
TerminationSpreads ==
  /\ \A w, c \in Worker :
       terminated[w] /\ parent[c] = w => (terminated[c] \/ flag[c])
  /\ \A w \in Worker : terminated[w] => events[w] = <<>>
  /\ \A t \in Thread : pc[t] \in {"run", "posting"} => ~terminated[job[t]]

\* Scripts see mailboxes that are worked on one event at a time, in order, and
\* that a termination closes for good; finish() returns when all are empty.
M == INSTANCE Mailboxes WITH
       Actor <- Worker \cup {Main},
       box <- [a \in Worker \cup {Main} |-> IF a = Main THEN mq ELSE events[a]],
       handling <- [a \in Worker \cup {Main} |->
                      IF a = Main THEN mainEvent ELSE current[a]],
       dead <- {w \in Worker : terminated[w]},
       phase <- CASE main \in {"joining", "done"} -> "finished"
                  [] main = "aborted" -> "aborted"
                  [] OTHER -> "open"
ImplementsMailboxes == M!Spec

\* finish() returns, whatever messages, errors and terminations are under way.
FinishReturns == <>(main \in {"done", "aborted"})
=============================================================================
