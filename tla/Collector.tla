----------------------------- MODULE Collector -----------------------------
(***************************************************************************)
(* WorkerPool with a garbage collection on the main thread: what it marks  *)
(* from the ThreadPool, which main() roots.  The main thread does nothing  *)
(* else meanwhile; the threads of the pool, whose Workers have runtimes of *)
(* their own, go on.  jsTraceThreadPool traces the MainQueue and then the  *)
(* WorkerQueue, each with its own lock held and released: two actions.     *)
(* jsTraceWorker takes no lock; it is an action for each Worker, at any    *)
(* time after the Worker has been marked.                                  *)
(*                                                                         *)
(* References from scripts are left out: marked is what the ThreadPool     *)
(* alone keeps alive.  So is what the sweep does to the others.            *)
(***************************************************************************)
EXTENDS WorkerPool

VARIABLES
  gc,      \* how far the collection is: see Collection
  marked,  \* the Workers whose JSObject is marked
  scanned  \* those for which jsTraceWorker has been called

gcVars  == <<gc, marked, scanned>>
allVars == <<vars, gcVars>>

Collection ==
  { "none",  \* there is none
    "mq",    \* the MainQueue has been traced
    "wq" }   \* the WorkerQueue, too: marked Workers are still scanned

Collecting == gc # "none"

CollectorTypeOK ==
  /\ gc \in Collection
  /\ marked \subseteq {w \in Worker : parent[w] # None}
  /\ scanned \subseteq marked
  /\ Collecting => main \in {"script", "event", "aborted"}

CollectorInit == Init /\ gc = "none" /\ marked = {} /\ scanned = {}
-----------------------------------------------------------------------------
\* The queue and the busy list of the MainQueue: events mark their children.
MainQueueRoots == {child[e] : e \in Range(mq) \cup ({mainEvent} \ {None})}

\* The queue and the busy list of the WorkerQueue.
WorkerQueueRoots == Range(wq) \cup {job[t] : t \in {u \in Thread : job[u] # None}}

\* jsTraceThreadPool, first section.
TraceMainQueue ==
  /\ gc = "none" /\ main \in {"script", "event"}
  /\ gc' = "mq"
  /\ marked' = MainQueueRoots
  /\ UNCHANGED <<vars, scanned>>

\* jsTraceThreadPool, second section.
TraceWorkerQueue ==
  /\ gc = "mq" /\ main # "aborted"
  /\ gc' = "wq"
  /\ marked' = marked \cup WorkerQueueRoots
  /\ UNCHANGED <<vars, scanned>>

\* The events jsTraceWorker reads, and the Workers it marks, through them too.
Traced(w) == Range(events[w]) \cup ({current[w]} \ {None})

Referents(w) == ({parent[w]} \cup {child[e] : e \in Traced(w)}) \ {Main, None}

\* jsTraceWorker.
TraceWorker(w) ==
  /\ Collecting /\ main # "aborted"
  /\ w \in marked \ scanned
  /\ marked' = marked \cup Referents(w)
  /\ scanned' = scanned \cup {w}
  /\ UNCHANGED <<vars, gc>>

\* Nothing is left to scan: what is not marked will be finalized.
MarkingEnds == gc = "wq" /\ marked = scanned

EndCollection ==
  /\ MarkingEnds /\ main # "aborted"
  /\ gc' = "none" /\ marked' = {} /\ scanned' = {}
  /\ UNCHANGED vars
-----------------------------------------------------------------------------
Collect ==
  \/ TraceMainQueue \/ TraceWorkerQueue
  \/ (\E w \in Worker : TraceWorker(w))
  \/ EndCollection

\* The other threads run during a collection.
OtherThreads ==
  \/ main # "aborted" /\ \E t \in Thread : ThreadStep(t)
  \/ TerminateAll
  \/ Ended

CollectorNext ==
  \/ Collect
  \/ ~Collecting /\ MainStep /\ UNCHANGED gcVars
  \/ OtherThreads /\ UNCHANGED gcVars

CollectorSpec == CollectorInit /\ [][CollectorNext]_allVars
-----------------------------------------------------------------------------
\* "the Worker has an incoming event pending or running"
Incoming(w) == current[w] # None \/ events[w] # <<>>

\* "it has sent an outgoing event to its parent that is still pending"
Outgoing(w) ==
  \E e \in Event : kind[e] \in {"up", "error"} /\ child[e] = w /\ Holders(e) # {}

\* Rule (b) of the lifetime rules: a Worker of the main thread with incoming
\* events is marked, although it may have got them, or have been taken, run
\* and enqueued again, at any time between the sections of the collection.
IncomingMarked ==
  MarkingEnds => \A w \in Worker : parent[w] = Main /\ Incoming(w) => w \in marked

\* Rules (b) and (c) together.  Rule (c) is violated: the MainQueue is traced
\* first, so that a Worker may post to it after that and be idle, and in no
\* busy list, when the WorkerQueue is traced.
PendingWorkersMarked ==
  MarkingEnds =>
    \A w \in Worker : parent[w] = Main /\ (Incoming(w) \/ Outgoing(w)) => w \in marked

\* "trace() methods must go through the mutexes just like everyone else": the
\* events jsTraceWorker reads are alive.  They are not: it takes no lock, and
\* current points to an event that has been destroyed, here or by the parent
\* it was forwarded to.
TracedEventsAlive ==
  Collecting /\ main # "aborted" =>
    \A w \in marked \ scanned : \A e \in Traced(w) : kind[e] # "destroyed"
=============================================================================
