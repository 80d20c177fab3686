-------------------------- MODULE WorkerPoolProofs --------------------------
(***************************************************************************)
(* Proofs about WorkerPool, and its Collector, for every set of threads    *)
(* and every number of Workers and events.                                 *)
(***************************************************************************)
EXTENDS Collector, SequenceLemmas

(***************************************************************************)
(* The inductive invariant.                                                *)
(***************************************************************************)
\* A thread has its Worker for itself between take() and the release in
\* processOneEvent; not while it is about to drop it.
Holds(t) == pc[t] = "process" \/ Running(t)

\* A Worker is in the WorkerQueue once, or with one thread.
Exclusive ==
  /\ IsInjective(wq)
  /\ \A t \in Thread : Holds(t) => job[t] \notin Range(wq)
  /\ \A t, u \in Thread : Holds(t) /\ Holds(u) /\ job[t] = job[u] => t = u

\* A Worker has work exactly when it is in the queue or with a thread, and
\* current is set exactly between the two locks of processOneEvent.
Scheduled ==
  /\ \A w \in Range(wq) : events[w] # <<>> /\ current[w] = None
  /\ \A t \in Thread :
       /\ pc[t] = "process" => events[job[t]] # <<>> /\ current[job[t]] = None
       /\ Running(t) => current[job[t]] # None
  /\ \A w \in Worker :
       /\ current[w] # None => \E t \in Thread : Running(t) /\ job[t] = w
       /\ events[w] # <<>> =>
            w \in Range(wq) \/ \E t \in Thread : Holds(t) /\ job[t] = w

\* What a Worker is before it is created: nobody works for it or descends from it.
Born ==
  /\ \A w \in Worker : parent[w] = None => events[w] = <<>> /\ ~terminated[w]
  /\ \A w \in Worker : parent[w] \in Worker => parent[parent[w]] # None
  /\ \A t \in Thread : job[t] # None => parent[job[t]] # None

\* Once the main thread has found nothing to do, there is nothing to do.
Quiet ==
  /\ closed => main \in {"joining", "done"}
  /\ main \in {"stopped", "joining", "done"} =>
       mq = <<>> /\ wq = <<>> /\ \A t \in Thread : job[t] = None

\* Who sleeps has nothing to do, or will be woken.
Awake ==
  /\ wq # <<>> \/ closed => \A t \in Thread : pc[t] # "waiting"
  /\ main = "waiting" =>
       /\ mq = <<>>
       /\ wq # <<>> \/ \E t \in Thread : job[t] # None \/ pc[t] = "wake"

\* TerminationSpreads, in parts.
ChildrenTold ==
  \A w, c \in Worker :
    terminated[w] /\ parent[c] = w => (terminated[c] \/ flag[c])
Spread ==
  /\ ChildrenTold
  /\ \A w \in Worker : terminated[w] => events[w] = <<>>
  /\ \A t \in Thread : pc[t] \in {"run", "posting"} => ~terminated[job[t]]

\* An event is in one place, as OwnedOnce says; and current points to the
\* event of the thread, until the thread gives it away.
Owned ==
  /\ IsInjective(mq)
  /\ \A w \in Worker : IsInjective(events[w])
  /\ \A w \in Worker : \A e \in Range(events[w]) :
       /\ \A v \in Worker : e \in Range(events[v]) => v = w
       /\ e \notin Range(mq) /\ e # mainEvent
       /\ \A t \in Thread : event[t] # e
  /\ \A e \in Range(mq) : e # mainEvent /\ \A t \in Thread : event[t] # e
  /\ \A t \in Thread :
       /\ pc[t] \in {"run", "posting", "forward", "failed", "error"} => event[t] # None
       /\ event[t] # None =>
            /\ Running(t) /\ pc[t] # "release"
            /\ current[job[t]] = event[t]
            /\ event[t] # mainEvent
            /\ \A u \in Thread : event[u] = event[t] => u = t

Live(e) == kind[e] \notin {"unborn", "destroyed"}

Alive ==
  /\ \A w \in Worker : \A e \in Range(events[w]) : Live(e)
  /\ \A e \in Range(mq) : Live(e)
  /\ mainEvent # None => Live(mainEvent)
  /\ \A t \in Thread : event[t] # None => Live(event[t])

\* RoutedToParent, and where an error is that could not be forwarded.
Routed ==
  /\ \A e \in Event : kind[e] # "unborn" => child[e] \in Worker
  /\ RoutedToParent
  /\ \A t \in Thread : event[t] # None =>
       \/ Belongs(event[t], job[t])
       \/ kind[event[t]] = "error" /\ child[event[t]] = job[t]

IndInv ==
  /\ TypeOK /\ Exclusive /\ Scheduled /\ Born /\ Quiet /\ Awake /\ Spread
  /\ Owned /\ Alive /\ Routed
-----------------------------------------------------------------------------
\* Threads, Workers and null pointers are told apart.
LEMMA Distinct ==
  /\ Main \notin Worker /\ Main \notin Thread /\ Main # None
  /\ None \notin Worker /\ None \notin Event
BY WorkerPoolAssumption

LEMMA InitInv ==
  ASSUME Init PROVE IndInv
<1>1. TypeOK
  <2>1. mq \in Seq(Event) /\ wq \in Seq(Worker) /\ events \in [Worker -> Seq(Event)]
    BY DEF Init
  <2>2. pc \in [Thread -> Location] /\ kind \in [Event -> Kind]
    BY DEF Init, Location, Kind
  <2> QED
    BY <2>1, <2>2 DEF Init, TypeOK, MainLocation
<1>2. \A t \in Thread : ~Holds(t) /\ ~Running(t)
  BY DEF Init, Holds, Running
<1>3. Range(wq) = {} /\ Range(mq) = {} /\ IsInjective(wq) /\ IsInjective(mq)
      /\ \A w \in Worker : Range(events[w]) = {} /\ IsInjective(events[w])
  BY EmptyRange DEF Init
<1>4. Exclusive /\ Scheduled /\ Born /\ Quiet /\ Awake
  BY <1>2, <1>3, Distinct DEF Init, Exclusive, Scheduled, Born, Quiet, Awake
<1>5. Spread
  BY DEF Init, Spread, ChildrenTold
<1>6. Owned /\ Alive
  BY <1>3 DEF Init, Owned, Alive
<1>7. Routed
  BY <1>3 DEF Init, Routed, RoutedToParent
<1> QED
  BY <1>1, <1>4, <1>5, <1>6, <1>7 DEF IndInv
-----------------------------------------------------------------------------
(***************************************************************************)
(* Types.                                                                  *)
(***************************************************************************)
LEMMA PostTypes ==
  ASSUME TypeOK, NEW p, NEW e \in Event, Post(p, e)
  PROVE  /\ p \in Worker \cup {Main}
         /\ mq' \in Seq(Event)
         /\ wq' \in Seq(Worker)
         /\ events' \in [Worker -> Seq(Event)]
         /\ main' = main \/ (main = "waiting" /\ main' = "take")
<1>1. Append(mq, e) \in Seq(Event)
  BY AppendRange DEF TypeOK
<1>2. ASSUME p \in Worker
      PROVE  Append(wq, p) \in Seq(Worker) /\ Append(events[p], e) \in Seq(Event)
  BY <1>2, AppendRange DEF TypeOK
<1>3. CASE p = Main
  BY <1>1, <1>3, Distinct DEF Post, TypeOK
<1>4. CASE p \in Worker
  <2>1. /\ events' = [events EXCEPT ![p] = Append(@, e)]
        /\ wq' = IF Unoccupied(p) THEN Append(wq, p) ELSE wq
        /\ UNCHANGED <<mq, main>>
    BY <1>4, Distinct DEF Post
  <2> QED
    BY <1>2, <1>4, <2>1 DEF TypeOK
<1> QED
  BY <1>3, <1>4 DEF Post

LEMMA CheckTypes ==
  ASSUME TypeOK, NEW w \in Worker, CheckTermination(w)
  PROVE  /\ terminated' \in [Worker -> BOOLEAN]
         /\ events' \in [Worker -> Seq(Event)]
         /\ flag' \in [Worker -> BOOLEAN]
<1>1. CASE MustTerminate(w)
  <2>1. flag' = [c \in Worker |-> c # w /\ (flag[c] \/ parent[c] = w)]
    BY <1>1 DEF CheckTermination
  <2>2. flag' \in [Worker -> BOOLEAN]
    BY <2>1, Zenon
  <2>3. terminated' = [terminated EXCEPT ![w] = TRUE] /\ events' = [events EXCEPT ![w] = <<>>]
    BY <1>1, Zenon DEF CheckTermination
  <2>4. terminated' \in [Worker -> BOOLEAN]
    BY <2>3, Zenon DEF TypeOK
  <2>5. events' \in [Worker -> Seq(Event)]
    BY <2>3 DEF TypeOK
  <2> QED
    BY <2>2, <2>4, <2>5, Zenon
<1>2. CASE ~MustTerminate(w)
  BY <1>2 DEF CheckTermination, TypeOK
<1> QED
  BY <1>1, <1>2

\* The locations of a thread that has taken a Worker.
Busy == Location \ {"take", "waiting", "wake", "exited"}

LEMMA TakeTypes ==
  ASSUME TypeOK, NEW t \in Thread, Take(t)
  PROVE  /\ wq' \in Seq(Worker)
         /\ job' \in [Thread -> Worker \cup {None}]
         /\ pc' \in [Thread -> Location]
         /\ \A u \in Thread : job'[u] # None <=> pc'[u] \in Busy
<1>1. wq # <<>> => Head(wq) \in Worker /\ Tail(wq) \in Seq(Worker)
  BY HeadRange DEF TypeOK
<1>2. /\ wq \in Seq(Worker)
      /\ job \in [Thread -> Worker \cup {None}]
      /\ pc \in [Thread -> Location]
      /\ \A u \in Thread : job[u] # None <=> pc[u] \in Busy
  BY DEF TypeOK, Busy, Location
<1>3. CASE wq # <<>>
  <2>1. /\ job' = [job EXCEPT ![t] = Head(wq)]
        /\ wq' = Tail(wq)
        /\ pc' = [pc EXCEPT ![t] = "process"]
    BY <1>3 DEF Take, Goto
  <2> QED
    BY <1>1, <1>2, <1>3, <2>1, Distinct DEF Busy, Location
<1>4. CASE wq = <<>>
  BY <1>2, <1>4 DEF Take, Goto, Busy, Location
<1> QED
  BY <1>3, <1>4

\* What the type invariant says of a thread and its Worker.
LEMMA BusyThread ==
  ASSUME TypeOK, NEW t \in Thread
  PROVE  /\ job[t] \in Worker \cup {None}
         /\ pc[t] \in Location
         /\ pc[t] \in Busy <=> job[t] \in Worker
BY Distinct DEF TypeOK, Busy, Location

\* A step of a thread that stays busy, or of a script, wakes up others at most.
LEMMA NotifyTypes ==
  ASSUME TypeOK, NEW a \in Thread \cup {Main}, NEW l \in Busy,
         a \in Thread => pc[a] \in Busy, GotoAndNotify(a, l), UNCHANGED job
  PROVE  /\ pc' \in [Thread -> Location]
         /\ \A u \in Thread : job'[u] # None <=> pc'[u] \in Busy
BY DEF TypeOK, GotoAndNotify, Busy, Location

LEMMA GotoTypes ==
  ASSUME TypeOK, NEW t \in Thread, NEW l \in Busy, pc[t] \in Busy, Goto(t, l), UNCHANGED job
  PROVE  /\ pc' \in [Thread -> Location]
         /\ \A u \in Thread : job'[u] # None <=> pc'[u] \in Busy
BY DEF TypeOK, Goto, Busy, Location

\* TypeOK, when the main thread has no event or keeps it.
MainTypes ==
  /\ main \in MainLocation
  /\ mainEvent \in Event \cup {None}
  /\ mainEvent # None => main \in {"event", "finish", "aborted"}
  /\ main \in {"event", "finish"} => mainEvent # None
ThreadTypes ==
  /\ pc \in [Thread -> Location]
  /\ job \in [Thread -> Worker \cup {None}]
  /\ \A t \in Thread : job[t] # None <=> pc[t] \in Busy
QueueTypes ==
  /\ mq \in Seq(Event)
  /\ wq \in Seq(Worker)
  /\ events \in [Worker -> Seq(Event)]
FlagTypes ==
  /\ closed \in BOOLEAN
  /\ terminating \in BOOLEAN
  /\ terminated \in [Worker -> BOOLEAN]
  /\ flag \in [Worker -> BOOLEAN]
ObjectTypes ==
  /\ event \in [Thread -> Event \cup {None}]
  /\ parent \in [Worker -> Worker \cup {Main, None}]
  /\ current \in [Worker -> Event \cup {None}]
  /\ kind \in [Event -> Kind]
  /\ child \in [Event -> Worker \cup {None}]

LEMMA TypeParts ==
  /\ TypeOK => MainTypes /\ ThreadTypes /\ QueueTypes /\ FlagTypes /\ ObjectTypes
  /\ MainTypes' /\ ThreadTypes' /\ QueueTypes' /\ FlagTypes' /\ ObjectTypes' => TypeOK'
<1>1. \A l \in Location : l \notin {"take", "waiting", "wake", "exited"} <=> l \in Busy
  BY DEF Busy
<1>2. ThreadTypes <=> /\ pc \in [Thread -> Location]
                      /\ job \in [Thread -> Worker \cup {None}]
                      /\ \A t \in Thread :
                           job[t] # None <=> pc[t] \notin {"take", "waiting", "wake", "exited"}
  BY <1>1 DEF ThreadTypes
<1>3. ThreadTypes' => /\ pc' \in [Thread -> Location]
                      /\ job' \in [Thread -> Worker \cup {None}]
                      /\ \A t \in Thread :
                           job'[t] # None <=> pc'[t] \notin {"take", "waiting", "wake", "exited"}
  BY <1>1 DEF ThreadTypes
<1> QED
  BY <1>2, <1>3, Zenon DEF TypeOK, MainTypes, QueueTypes, FlagTypes, ObjectTypes

\* The locations between which a thread moves without touching its Worker.
InertStep(t) ==
  \/ CheckBeforePost(t) \/ PostMessageToParentFails(t) \/ ScriptReturns(t)
  \/ ScriptFails(t) \/ NoErrorHandler(t) \/ DropError(t)

LEMMA InertMove ==
  ASSUME NEW t \in Thread, InertStep(t)
  PROVE  \E l \in {"posting", "failed", "finish", "forward"} :
           /\ pc[t] \in {"run", "posting", "error"}
           /\ l \in {"posting", "forward"} => pc[t] = "run"
           /\ l = "finish" => pc[t] \in {"run", "error"}
           /\ Goto(t, l)
           /\ UNCHANGED <<main, mainEvent, mq, wq, poolVars, job, event, workerVars,
                          events, kind, child>>
BY DEF InertStep, CheckBeforePost, PostMessageToParentFails, ScriptReturns,
       ScriptFails, NoErrorHandler, DropError

LEMMA NextTypes ==
  ASSUME TypeOK, \A t \in Thread : pc[t] = "forward" => event[t] # None, [Next]_vars
  PROVE  TypeOK'
<1> USE DEF poolVars, workerVars
<1>0. MainTypes /\ ThreadTypes /\ QueueTypes /\ FlagTypes /\ ObjectTypes
  BY TypeParts
<1>1. UNCHANGED <<main, mainEvent>> => MainTypes'
  BY <1>0 DEF MainTypes
<1>2. UNCHANGED <<pc, job>> => ThreadTypes'
  BY <1>0 DEF ThreadTypes
<1>3. UNCHANGED <<mq, wq, events>> => QueueTypes'
  BY <1>0 DEF QueueTypes
<1>4. UNCHANGED <<closed, terminating, terminated, flag>> => FlagTypes'
  BY <1>0, Zenon DEF FlagTypes
<1>5. UNCHANGED <<event, parent, current, kind, child>> => ObjectTypes'
  BY <1>0 DEF ObjectTypes
<1>6. \A S : Destroyed(S) \in [Event -> Kind]
  BY <1>0 DEF Destroyed, ObjectTypes, Kind
<1>7. ASSUME NEW e \in Event, NEW k \in Kind, NEW w \in Worker, SetEvent(e, k, w),
             UNCHANGED <<parent, current>>, event' \in [Thread -> Event \cup {None}]
      PROVE  ObjectTypes'
  BY <1>0, <1>7 DEF ObjectTypes, SetEvent
<1>8. ASSUME NEW p, NEW e \in Event, Post(p, e), UNCHANGED mainEvent
      PROVE  MainTypes' /\ QueueTypes'
  <2>1. p \in Worker \cup {Main} /\ QueueTypes'
        /\ (main' = main \/ (main = "waiting" /\ main' = "take"))
    BY <1>8, PostTypes DEF QueueTypes
  <2> QED
    BY <1>0, <1>8, <2>1 DEF MainTypes, MainLocation
<1>9. ASSUME NEW t \in Thread, NEW l \in Busy, pc[t] \in Busy, UNCHANGED job,
             Goto(t, l) \/ GotoAndNotify(t, l)
      PROVE  ThreadTypes'
  BY <1>0, <1>9, GotoTypes, NotifyTypes DEF ThreadTypes
<1>10. ASSUME NEW a \in Thread \cup {Main}, Scripting(a), UNCHANGED job,
              GotoAndNotify(a, "run")
       PROVE  ThreadTypes'
  <2>1. a \in Thread => pc[a] \in Busy
    BY <1>10, Distinct DEF Scripting, Busy, Location
  <2>2. "run" \in Busy
    BY DEF Busy, Location
  <2> QED
    BY <1>0, <1>10, <2>1, <2>2, NotifyTypes DEF ThreadTypes
<1>11. ASSUME NEW w \in Worker, CheckTermination(w), UNCHANGED <<poolVars, mq>>,
              wq' \in Seq(Worker)
       PROVE  FlagTypes' /\ QueueTypes'
  <2>1. /\ terminated' \in [Worker -> BOOLEAN]
        /\ events' \in [Worker -> Seq(Event)]
        /\ flag' \in [Worker -> BOOLEAN]
    BY <1>11, CheckTypes
  <2> QED
    BY <1>0, <1>11, <2>1, Zenon DEF FlagTypes, QueueTypes
<1>12. \A l \in {"process", "run", "posting", "forward", "failed", "error", "finish",
                 "release", "drop"} : l \in Busy
  BY DEF Busy, Location
<1>20. ASSUME NEW t \in Thread, InertStep(t)
       PROVE  TypeOK'
  <2>1. PICK l \in {"posting", "failed", "finish", "forward"} :
               /\ pc[t] \in {"run", "posting", "error"}
               /\ Goto(t, l)
               /\ UNCHANGED <<main, mainEvent, mq, wq, poolVars, job, event,
                              workerVars, events, kind, child>>
    BY <1>20, InertMove
  <2>2. ThreadTypes'
    BY <1>9, <1>12, <2>1
  <2> QED
    BY <1>1, <1>3, <1>4, <1>5, <2>1, <2>2, TypeParts, Zenon
<1>21. ASSUME NEW a \in Thread \cup {Main}, NEW w \in Worker, Terminate(a, w)
       PROVE  TypeOK'
  <2>1. UNCHANGED <<main, mainEvent, mq, wq, poolVars, pc, job, event, parent,
                    current, terminated, events, kind, child>>
        /\ flag' = [flag EXCEPT ![w] = TRUE]
    BY <1>21, Zenon DEF Terminate
  <2>2. FlagTypes'
    BY <1>0, <2>1, Zenon DEF FlagTypes
  <2> QED
    BY <1>1, <1>2, <1>3, <1>5, <2>1, <2>2, TypeParts, Zenon
<1>22. ASSUME NEW a \in Thread \cup {Main}, NEW w \in Worker, NEW e \in Event, Create(a, w, e)
       PROVE  TypeOK'
  <2>1. ThreadTypes'
    BY <1>10, <1>22 DEF Create
  <2>2. QueueTypes'
    <3>1. Append(events[w], e) \in Seq(Event) /\ Append(wq, w) \in Seq(Worker)
      BY <1>0, AppendRange DEF QueueTypes
    <3> QED
      BY <1>0, <1>22, <3>1 DEF QueueTypes, Create
  <2>3. ObjectTypes'
    <3>1. Self(a) \in Worker \cup {Main, None}
      BY <1>0 DEF Self, ThreadTypes
    <3>2. parent' \in [Worker -> Worker \cup {Main, None}]
      BY <1>0, <1>22, <3>1 DEF ObjectTypes, Create
    <3>3. SetEvent(e, "init", w) /\ UNCHANGED <<event, current>>
      BY <1>22 DEF Create
    <3> QED
      BY <1>0, <3>2, <3>3 DEF ObjectTypes, SetEvent, Kind
  <2> QED
    BY <1>1, <1>4, <1>22, <2>1, <2>2, <2>3, TypeParts, Zenon DEF Create
<1>23. ASSUME NEW t \in Thread, CreateNested(t)
       PROVE  TypeOK'
  <2>1. MainTypes'
    BY <1>0, <1>23 DEF CreateNested, MainTypes, MainLocation
  <2> QED
    BY <1>2, <1>3, <1>4, <1>5, <1>23, <2>1, TypeParts, Zenon DEF CreateNested
<1>24. ASSUME NEW a \in Thread \cup {Main}, NEW w \in Worker, NEW e \in Event,
              PostMessageToChild(a, w, e)
       PROVE  TypeOK'
  <2>1. MainTypes' /\ QueueTypes'
    BY <1>8, <1>24 DEF PostMessageToChild
  <2>2. ThreadTypes'
    BY <1>10, <1>24 DEF PostMessageToChild
  <2>3. ObjectTypes'
    BY <1>0, <1>7, <1>24 DEF PostMessageToChild, Kind, ObjectTypes
  <2> QED
    BY <1>4, <1>24, <2>1, <2>2, <2>3, TypeParts, Zenon DEF PostMessageToChild
<1>25. ASSUME NEW a \in Thread \cup {Main}, NEW w \in Worker, NEW e \in Event,
              PostMessageToChildFails(a, w, e)
       PROVE  TypeOK'
  <2>1. ObjectTypes'
    BY <1>0, <1>7, <1>25 DEF PostMessageToChildFails, Kind, ObjectTypes
  <2>2. UNCHANGED <<mainEvent, mq, wq, poolVars, job, terminated, flag, events>>
    BY <1>25 DEF PostMessageToChildFails
  <2>3. CASE a = Main
    <3>1. MainTypes' /\ UNCHANGED pc
      BY <1>0, <1>25, <2>3 DEF PostMessageToChildFails, Scripting, MainTypes, MainLocation
    <3> QED
      BY <1>2, <1>3, <1>4, <2>1, <2>2, <3>1, TypeParts, Zenon
  <2>4. CASE a # Main
    <3>1. a \in Thread /\ pc[a] = "run" /\ Goto(a, "failed") /\ UNCHANGED main
      BY <1>25, <2>4 DEF PostMessageToChildFails, Scripting
    <3>2. ThreadTypes'
      BY <1>9, <1>12, <2>2, <3>1
    <3> QED
      BY <1>1, <1>3, <1>4, <2>1, <2>2, <3>1, <3>2, TypeParts, Zenon
  <2> QED
    BY <2>3, <2>4
<1>26. ASSUME NEW t \in Thread, TakeWorker(t) \/ DropWorker(t)
       PROVE  TypeOK'
  <2>1. UNCHANGED <<main, mainEvent, mq, poolVars, event, workerVars, events, kind, child>>
    BY <1>26, Zenon DEF TakeWorker, DropWorker
  <2>2. wq' \in Seq(Worker) /\ ThreadTypes'
    <3>1. CASE Take(t)
      BY <3>1, TakeTypes DEF ThreadTypes
    <3>2. CASE ~Take(t)
      BY <1>0, <1>26, <3>2 DEF TakeWorker, DropWorker, Goto, ThreadTypes, QueueTypes,
                               Busy, Location
    <3> QED
      BY <3>1, <3>2
  <2>3. QueueTypes'
    BY <1>0, <2>1, <2>2 DEF QueueTypes
  <2> QED
    BY <1>1, <1>4, <1>5, <2>1, <2>2, <2>3, TypeParts, Zenon
<1>27. ASSUME NEW t \in Thread, WakeMain(t)
       PROVE  TypeOK'
  <2>1. MainTypes' /\ ThreadTypes'
    BY <1>0, <1>27 DEF WakeMain, Goto, MainTypes, ThreadTypes, MainLocation, Busy, Location
  <2> QED
    BY <1>3, <1>4, <1>5, <1>27, <2>1, TypeParts, Zenon DEF WakeMain
<1>28. ASSUME NEW t \in Thread, StartEvent(t)
       PROVE  TypeOK'
  <2>1. pc[t] \in Busy /\ job[t] \in Worker
    BY <1>12, <1>28, BusyThread DEF StartEvent
  <2>2. Head(events[job[t]]) \in Event /\ Tail(events[job[t]]) \in Seq(Event)
    BY <1>0, <1>28, <2>1, HeadRange DEF StartEvent, QueueTypes
  <2>3. ThreadTypes'
    BY <1>9, <1>12, <1>28, <2>1 DEF StartEvent
  <2>4. QueueTypes'
    BY <1>0, <1>28, <2>1, <2>2 DEF StartEvent, QueueTypes
  <2>5. ObjectTypes'
    BY <1>0, <1>28, <2>1, <2>2 DEF StartEvent, ObjectTypes
  <2> QED
    BY <1>1, <1>4, <1>28, <2>3, <2>4, <2>5, TypeParts, Zenon DEF StartEvent
<1>29. ASSUME NEW t \in Thread,
              SkipEvent(t) \/ TerminateScript(t) \/ CheckAfterFailure(t) \/ Release(t)
       PROVE  TypeOK'
  <2>1. pc[t] \in Busy /\ job[t] \in Worker
    BY <1>12, <1>29, BusyThread DEF SkipEvent, TerminateScript, CheckAfterFailure, Release
  <2>2. /\ UNCHANGED <<main, mainEvent, mq, poolVars, job, event, parent, child>>
        /\ CheckTermination(job[t])
        /\ kind' = Destroyed(Doomed(job[t]))
    BY <1>29, Zenon DEF SkipEvent, TerminateScript, CheckAfterFailure, Release
  <2>3. ThreadTypes'
    <3>1. \E l \in Busy : Goto(t, l) \/ GotoAndNotify(t, l)
      BY <1>12, <1>29 DEF SkipEvent, TerminateScript, CheckAfterFailure, Release
    <3> QED
      BY <1>9, <2>1, <2>2, <3>1
  <2>4. wq' \in Seq(Worker)
    <3>1. Append(wq, job[t]) \in Seq(Worker)
      BY <1>0, <2>1, AppendRange DEF QueueTypes
    <3> QED
      BY <1>0, <1>29, <3>1 DEF SkipEvent, TerminateScript, CheckAfterFailure, Release, QueueTypes
  <2>5. current' \in [Worker -> Event \cup {None}]
    BY <1>0, <1>29 DEF SkipEvent, TerminateScript, CheckAfterFailure, Release, ObjectTypes
  <2>6. ObjectTypes'
    BY <1>0, <1>6, <2>2, <2>5, Zenon DEF ObjectTypes
  <2> QED
    BY <1>1, <1>11, <2>1, <2>2, <2>3, <2>4, <2>6, TypeParts, Zenon
<1>30. ASSUME NEW t \in Thread, NEW e \in Event, PostMessageToParent(t, e) \/ PostError(t, e)
       PROVE  TypeOK'
  <2>1. pc[t] \in Busy /\ job[t] \in Worker
    BY <1>12, <1>30, BusyThread DEF PostMessageToParent, PostError
  <2>2. /\ UNCHANGED <<mainEvent, poolVars, job, event, workerVars>>
        /\ Post(parent[job[t]], e)
        /\ GotoAndNotify(t, "run") \/ GotoAndNotify(t, "finish")
        /\ SetEvent(e, "up", job[t]) \/ SetEvent(e, "error", job[t])
    BY <1>30, Zenon DEF PostMessageToParent, PostError
  <2>3. MainTypes' /\ QueueTypes'
    BY <1>8, <2>2
  <2>4. ThreadTypes'
    BY <1>9, <1>12, <2>1, <2>2
  <2>5. ObjectTypes'
    BY <1>0, <1>7, <2>1, <2>2 DEF Kind, ObjectTypes
  <2> QED
    BY <1>4, <2>2, <2>3, <2>4, <2>5, TypeParts, Zenon
<1>31. ASSUME NEW t \in Thread, ForwardToParent(t)
       PROVE  TypeOK'
  <2>1. pc[t] \in Busy /\ job[t] \in Worker /\ event[t] \in Event /\ event[t] # None
    BY <1>0, <1>12, <1>31, BusyThread DEF ForwardToParent, ObjectTypes
  <2>2. UNCHANGED <<mainEvent, poolVars, job, workerVars>>
        /\ SetEvent(event[t], "error", job[t])
    BY <1>31, Zenon DEF ForwardToParent
  <2>3. MainTypes' /\ QueueTypes'
    <3>1. CASE Accepts(parent[job[t]])
      BY <1>8, <1>31, <2>1, <2>2, <3>1 DEF ForwardToParent
    <3>2. CASE ~Accepts(parent[job[t]])
      BY <1>1, <1>3, <1>31, <2>2, <3>2 DEF ForwardToParent
    <3> QED
      BY <3>1, <3>2
  <2>4. ThreadTypes'
    BY <1>9, <1>12, <1>31, <2>1, <2>2 DEF ForwardToParent
  <2>5. ObjectTypes'
    <3>1. event' \in [Thread -> Event \cup {None}]
      BY <1>0, <1>31 DEF ForwardToParent, ObjectTypes
    <3> QED
      BY <1>7, <2>1, <2>2, <3>1 DEF Kind
  <2> QED
    BY <1>4, <2>2, <2>3, <2>4, <2>5, TypeParts, Zenon
<1>32. ASSUME NEW t \in Thread, DestroyEvent(t)
       PROVE  TypeOK'
  <2>1. pc[t] \in Busy
    BY <1>12, <1>32 DEF DestroyEvent
  <2>2. ThreadTypes'
    BY <1>9, <1>12, <1>32, <2>1 DEF DestroyEvent
  <2>3. ObjectTypes'
    BY <1>0, <1>6, <1>32 DEF DestroyEvent, ObjectTypes
  <2> QED
    BY <1>1, <1>3, <1>4, <1>32, <2>2, <2>3, TypeParts, Zenon DEF DestroyEvent
<1>33. CASE EndScript
  <2>1. MainTypes'
    BY <1>0, <1>33 DEF EndScript, MainTypes, MainLocation
  <2> QED
    BY <1>2, <1>3, <1>4, <1>5, <1>33, <2>1, TypeParts, Zenon DEF EndScript
<1>34. CASE MainTake
  <2>1. mq # <<>> => Head(mq) \in Event /\ Tail(mq) \in Seq(Event)
    BY <1>0, HeadRange DEF QueueTypes
  <2>2. MainTypes' /\ QueueTypes'
    BY <1>0, <1>34, <2>1, Distinct DEF MainTake, MainTypes, MainLocation, QueueTypes
  <2> QED
    BY <1>2, <1>4, <1>5, <1>34, <2>2, TypeParts, Zenon DEF MainTake
<1>35. CASE EndMainEvent
  <2>1. MainTypes'
    BY <1>0, <1>35 DEF EndMainEvent, MainTypes, MainLocation
  <2>2. ObjectTypes'
    BY <1>0, <1>6, <1>35 DEF EndMainEvent, ObjectTypes
  <2> QED
    BY <1>2, <1>3, <1>4, <1>35, <2>1, <2>2, TypeParts, Zenon DEF EndMainEvent
<1>36. CASE Close
  <2>1. MainTypes' /\ QueueTypes'
    BY <1>0, <1>36 DEF Close, MainTypes, MainLocation, QueueTypes
  <2>2. ThreadTypes'
    BY <1>0, <1>36 DEF Close, ThreadTypes, Busy, Location
  <2>3. FlagTypes'
    BY <1>0, <1>36, Zenon DEF Close, FlagTypes
  <2> QED
    BY <1>5, <1>36, <2>1, <2>2, <2>3, TypeParts, Zenon DEF Close
<1>37. CASE Dispose
  <2>1. MainTypes' /\ QueueTypes'
    BY <1>0, <1>37 DEF Dispose, MainTypes, MainLocation, QueueTypes
  <2>2. FlagTypes'
    BY <1>0, <1>37, Zenon DEF Dispose, FlagTypes
  <2>3. ObjectTypes'
    BY <1>0, <1>6, <1>37 DEF Dispose, ObjectTypes
  <2> QED
    BY <1>2, <1>37, <2>1, <2>2, <2>3, TypeParts, Zenon DEF Dispose
<1>38. CASE TerminateAll
  <2>1. FlagTypes'
    BY <1>0, <1>38, Zenon DEF TerminateAll, FlagTypes
  <2> QED
    BY <1>1, <1>2, <1>3, <1>5, <1>38, <2>1, TypeParts, Zenon DEF TerminateAll
<1>39. CASE UNCHANGED vars
  BY <1>1, <1>2, <1>3, <1>4, <1>5, <1>39, TypeParts, Zenon DEF vars
<1>40. ASSUME NEW a \in Thread \cup {Main}, Call(a)
       PROVE  TypeOK'
  BY <1>21, <1>22, <1>24, <1>25, <1>40, Zenon DEF Call
<1>41. ASSUME NEW t \in Thread, ThreadStep(t)
       PROVE  TypeOK'
  BY <1>20, <1>23, <1>26, <1>27, <1>28, <1>29, <1>30, <1>31, <1>32, <1>40, <1>41, Zenon
     DEF ThreadStep, InertStep
<1> QED
  BY <1>33, <1>34, <1>35, <1>36, <1>37, <1>38, <1>39, <1>40, <1>41, Zenon
     DEF Next, MainStep, Ended
-----------------------------------------------------------------------------
(***************************************************************************)
(* Who works on which Worker.                                              *)
(***************************************************************************)
Sched == Exclusive /\ Scheduled /\ Born /\ Quiet /\ Awake

\* No thread takes or leaves a Worker.
SameHolds ==
  \A u \in Thread : /\ pc'[u] = "process" <=> pc[u] = "process"
                    /\ Running(u)' <=> Running(u)

\* Somebody works: finish() is not over.
LEMMA NotQuiet ==
  ASSUME IndInv, NEW t \in Thread, pc[t] \in Busy
  PROVE  main \notin {"stopped", "joining", "done"} /\ ~closed /\ job[t] \in Worker
BY BusyThread, Distinct DEF IndInv, Quiet

LEMMA ScriptNotQuiet ==
  ASSUME IndInv, NEW a \in Thread \cup {Main}, Scripting(a)
  PROVE  /\ main \notin {"stopped", "joining", "done"} /\ ~closed
         /\ Self(a) \in Worker \cup {Main} /\ Self(a) # None
<1>1. CASE a = Main
  BY <1>1, Distinct DEF Scripting, Self, IndInv, Quiet
<1>2. CASE a # Main
  BY <1>2, NotQuiet, Distinct DEF Scripting, Self, Busy, Location
<1> QED
  BY <1>1, <1>2

\* Steps that are not about work.
LEMMA StillScheduled ==
  ASSUME IndInv, SameHolds,
         UNCHANGED <<mq, wq, closed, job, events, current, parent>>,
         \A w \in Worker : parent[w] = None => ~terminated'[w],
         \A u \in Thread : /\ pc'[u] = "waiting" => pc[u] = "waiting"
                           /\ pc[u] = "wake" => pc'[u] = "wake",
         main' = main \/ (~closed /\ main' \notin {"stopped", "joining", "done", "waiting"})
  PROVE  Sched'
<1>1. \A u \in Thread : Holds(u)' <=> Holds(u)
  BY DEF SameHolds, Holds
<1>2. Exclusive'
  BY <1>1 DEF IndInv, Exclusive
<1>3. Scheduled'
  BY <1>1 DEF IndInv, Scheduled, SameHolds
<1>4. Born'
  BY DEF IndInv, Born
<1>5. Quiet'
  BY DEF IndInv, Quiet
<1>6. Awake'
  BY DEF IndInv, Awake
<1> QED
  BY <1>2, <1>3, <1>4, <1>5, <1>6 DEF Sched

\* Worker::post and MainQueue::post.
LEMMA PostScheduled ==
  ASSUME IndInv, NEW p, NEW e \in Event, Post(p, e), Accepts(p), ~closed,
         main \notin {"stopped", "joining", "done"},
         p \in Worker => parent[p] # None,
         SameHolds, UNCHANGED <<closed, job, current, parent, terminated>>,
         \A u \in Thread : /\ pc'[u] = "waiting" => pc[u] = "waiting" /\ (wq = <<>> => wq' = <<>>)
                           /\ pc[u] = "wake" => pc'[u] = "wake"
  PROVE  Sched'
<1>1. \A u \in Thread : Holds(u)' <=> Holds(u)
  BY DEF SameHolds, Holds
<1>2. mq \in Seq(Event) /\ wq \in Seq(Worker) /\ events \in [Worker -> Seq(Event)]
      /\ current \in [Worker -> Event \cup {None}]
  BY DEF IndInv, TypeOK
<1>3. CASE p = Main
  <2>1. UNCHANGED <<wq, events>> /\ mq' = Append(mq, e)
        /\ main' = IF main = "waiting" /\ mq = <<>> THEN "take" ELSE main
    BY <1>3, Distinct DEF Post
  <2>2. Exclusive'
    BY <1>1, <2>1 DEF IndInv, Exclusive
  <2>3. Scheduled'
    BY <1>1, <2>1 DEF IndInv, Scheduled, SameHolds
  <2>4. Born'
    BY <2>1 DEF IndInv, Born
  <2>5. Quiet' /\ Awake'
    BY <2>1 DEF IndInv, Quiet, Awake
  <2> QED
    BY <2>2, <2>3, <2>4, <2>5 DEF Sched
<1>4. CASE p \in Worker
  <2>1. /\ events' = [events EXCEPT ![p] = Append(@, e)]
        /\ wq' = IF Unoccupied(p) THEN Append(wq, p) ELSE wq
        /\ UNCHANGED <<mq, main>>
    BY <1>4, Distinct DEF Post
  <2>2. Append(events[p], e) # <<>>
    BY <1>2, <1>4, NonemptyAppend
  <2>3. \A w \in Worker : events'[w] = IF w = p THEN Append(events[p], e) ELSE events[w]
    BY <1>2, <2>1
  <2>4. /\ Append(wq, p) # <<>> /\ Range(Append(wq, p)) = Range(wq) \cup {p}
        /\ IsInjective(wq) /\ p \notin Range(wq) => IsInjective(Append(wq, p))
        /\ Range(wq) \subseteq Worker
    BY <1>2, <1>4, AppendRange, NonemptyAppend, SeqRange
  <2>5. Unoccupied(p) => /\ p \notin Range(wq)
                         /\ \A t \in Thread : Holds(t) => job[t] # p
    BY DEF IndInv, Scheduled, Unoccupied, Holds
  <2>6. ~Unoccupied(p) => p \in Range(wq) \/ \E t \in Thread : Holds(t) /\ job[t] = p
    BY <1>4 DEF IndInv, Scheduled, Unoccupied, Holds
  <2>7. wq' \in {wq, Append(wq, p)} /\ (wq # <<>> => wq' # <<>>)
    BY <2>1, <2>4
  <2>8. Exclusive'
    BY <1>1, <2>1, <2>4, <2>5 DEF IndInv, Exclusive
  <2>9. Scheduled'
    <3>1. \A w \in Range(wq') : events'[w] # <<>> /\ current'[w] = None
      <4> SUFFICES ASSUME NEW w \in Range(wq')
                   PROVE  events'[w] # <<>> /\ current[w] = None
        OBVIOUS
      <4>1. w \in Range(wq) \/ (Unoccupied(p) /\ w = p)
        BY <2>1, <2>4
      <4>2. w \in Worker
        BY <1>4, <2>4, <4>1
      <4>3. CASE w \in Range(wq)
        BY <2>2, <2>3, <4>2, <4>3 DEF IndInv, Scheduled
      <4>4. CASE w \notin Range(wq)
        BY <2>2, <2>3, <4>1, <4>2, <4>4 DEF Unoccupied
      <4> QED
        BY <4>3, <4>4
    <3>2. \A t \in Thread :
            /\ pc'[t] = "process" => events'[job'[t]] # <<>> /\ current'[job'[t]] = None
            /\ Running(t)' => current'[job'[t]] # None
      <4> SUFFICES ASSUME NEW t \in Thread
                   PROVE  /\ pc'[t] = "process" => events'[job[t]] # <<>> /\ current[job[t]] = None
                          /\ Running(t)' => current[job[t]] # None
        OBVIOUS
      <4>1. pc[t] = "process" => job[t] \in Worker
        BY BusyThread DEF IndInv, Busy, Location
      <4>2. pc'[t] = "process" => events[job[t]] # <<>> /\ current[job[t]] = None
        BY DEF IndInv, Scheduled, SameHolds
      <4>3. Running(t)' => current[job[t]] # None
        BY DEF IndInv, Scheduled, SameHolds
      <4> QED
        BY <2>2, <2>3, <4>1, <4>2, <4>3 DEF SameHolds
    <3>3. \A w \in Worker : current'[w] # None => \E t \in Thread : Running(t)' /\ job'[t] = w
      BY DEF IndInv, Scheduled, SameHolds
    <3>4. \A w \in Worker : events'[w] # <<>> =>
            w \in Range(wq') \/ \E t \in Thread : Holds(t)' /\ job'[t] = w
      BY <1>1, <2>1, <2>3, <2>4, <2>6 DEF IndInv, Scheduled
    <3> QED
      BY <3>1, <3>2, <3>3, <3>4 DEF Scheduled
  <2>10. Born'
    BY <2>3 DEF IndInv, Born
  <2>11. Quiet'
    BY <2>1 DEF IndInv, Quiet
  <2>12. Awake'
    BY <2>1, <2>7 DEF IndInv, Awake
  <2> QED
    BY <2>8, <2>9, <2>10, <2>11, <2>12 DEF Sched
<1> QED
  BY <1>3, <1>4 DEF Post

\* A thread that runs a script, or the main thread, posts.
LEMMA NotifyHolds ==
  ASSUME TypeOK, NEW a \in Thread \cup {Main}, NEW l \in {"run", "finish"},
         a \in Thread => Running(a), GotoAndNotify(a, l)
  PROVE  /\ SameHolds
         /\ \A u \in Thread : /\ pc'[u] = "waiting" => pc[u] = "waiting" /\ (wq = <<>> => wq' = <<>>)
                              /\ pc[u] = "wake" => pc'[u] = "wake"
<1>1. \A u \in Thread :
        /\ u = a => pc'[u] = l
        /\ u # a => pc'[u] = pc[u] \/ (/\ pc[u] = "waiting" /\ pc'[u] = "take"
                                       /\ wq = <<>> /\ wq' # <<>>)
        /\ u # a /\ pc[u] = "waiting" /\ wq = <<>> /\ wq' # <<>> => pc'[u] = "take"
  BY DEF GotoAndNotify
<1>2. \A u \in Thread : Running(u)' <=> Running(u)
  BY <1>1 DEF Running
<1>3. \A u \in Thread : pc'[u] = "process" <=> pc[u] = "process"
  BY <1>1 DEF Running
<1> QED
  BY <1>1, <1>2, <1>3 DEF SameHolds, Running

\* take() of the WorkerQueue.
LEMMA TakeScheduled ==
  ASSUME IndInv, NEW t \in Thread, Take(t), ~Holds(t),
         pc[t] = "wake" => FALSE,
         job[t] # None => ~IdleBut({t}),
         UNCHANGED <<main, mq, closed, events, current, parent, terminated>>
  PROVE  Sched'
<1>1. /\ wq \in Seq(Worker) /\ job \in [Thread -> Worker \cup {None}]
      /\ pc \in [Thread -> Location] /\ Range(wq) \subseteq Worker
  BY SeqRange DEF IndInv, TypeOK
<1>2. \A u \in Thread : u # t => pc'[u] = pc[u] /\ job'[u] = job[u]
  BY <1>1 DEF Take, Goto
<1>3. \A u \in Thread : u # t => (Holds(u)' <=> Holds(u)) /\ (Running(u)' <=> Running(u))
  BY <1>2 DEF Holds, Running
<1>4. CASE wq # <<>>
  <2>1. job'[t] = Head(wq) /\ wq' = Tail(wq) /\ pc'[t] = "process"
    BY <1>1, <1>4 DEF Take, Goto
  <2>2. /\ Head(wq) \in Worker /\ Range(wq) = {Head(wq)} \cup Range(Tail(wq))
        /\ IsInjective(Tail(wq)) /\ Head(wq) \notin Range(Tail(wq))
    BY <1>1, <1>4, HeadRange DEF IndInv, Exclusive
  <2>3. Holds(t)' /\ ~Running(t)' /\ ~Running(t)
    BY <2>1 DEF Holds, Running
  <2>4. Exclusive'
    <3>1. \A u \in Thread : Holds(u)' => job'[u] \notin Range(wq')
      BY <1>2, <1>3, <2>1, <2>2 DEF IndInv, Exclusive
    <3>2. \A u, v \in Thread : Holds(u)' /\ Holds(v)' /\ job'[u] = job'[v] => u = v
      BY <1>2, <1>3, <2>1, <2>2 DEF IndInv, Exclusive
    <3> QED
      BY <2>1, <2>2, <3>1, <3>2 DEF Exclusive
  <2>5. Scheduled'
    <3>1. \A w \in Range(wq') : events'[w] # <<>> /\ current'[w] = None
      BY <2>1, <2>2 DEF IndInv, Scheduled
    <3>2. \A u \in Thread :
            /\ pc'[u] = "process" => events'[job'[u]] # <<>> /\ current'[job'[u]] = None
            /\ Running(u)' => current'[job'[u]] # None
      BY <1>2, <1>3, <2>1, <2>2, <2>3 DEF IndInv, Scheduled
    <3>3. \A w \in Worker : current'[w] # None => \E u \in Thread : Running(u)' /\ job'[u] = w
      BY <1>2, <1>3, <2>3 DEF IndInv, Scheduled
    <3>4. \A w \in Worker : events'[w] # <<>> =>
            w \in Range(wq') \/ \E u \in Thread : Holds(u)' /\ job'[u] = w
      BY <1>2, <1>3, <2>1, <2>2, <2>3 DEF IndInv, Scheduled
    <3> QED
      BY <3>1, <3>2, <3>3, <3>4 DEF Scheduled
  <2>6. Born'
    <3>1. parent[Head(wq)] # None
      BY <2>2 DEF IndInv, Scheduled, Born
    <3> QED
      BY <1>2, <2>1, <3>1 DEF IndInv, Born
  <2>7. Quiet'
    BY <1>4 DEF IndInv, Quiet
  <2>8. Awake'
    BY <1>2, <1>4, <2>1, <2>2, Distinct DEF IndInv, Awake
  <2> QED
    BY <2>4, <2>5, <2>6, <2>7, <2>8 DEF Sched
<1>5. CASE wq = <<>>
  <2>1. job'[t] = None /\ wq' = <<>> /\ pc'[t] = IF closed THEN "exited" ELSE "waiting"
    BY <1>1, <1>5 DEF Take, Goto
  <2>2. ~Holds(t)' /\ ~Running(t)' /\ ~Running(t) /\ pc'[t] # "process"
    BY <2>1 DEF Holds, Running
  <2>3. Exclusive'
    BY <1>2, <1>3, <1>5, <2>1, <2>2 DEF IndInv, Exclusive
  <2>4. Scheduled'
    <3>1. \A w \in Range(wq') : events'[w] # <<>> /\ current'[w] = None
      BY <1>5, <2>1 DEF IndInv, Scheduled
    <3>2. \A u \in Thread :
            /\ pc'[u] = "process" => events'[job'[u]] # <<>> /\ current'[job'[u]] = None
            /\ Running(u)' => current'[job'[u]] # None
      BY <1>2, <1>3, <2>2 DEF IndInv, Scheduled
    <3>3. \A w \in Worker : current'[w] # None => \E u \in Thread : Running(u)' /\ job'[u] = w
      BY <1>2, <1>3, <2>2 DEF IndInv, Scheduled
    <3>4. \A w \in Worker : events'[w] # <<>> =>
            w \in Range(wq') \/ \E u \in Thread : Holds(u)' /\ job'[u] = w
      BY <1>2, <1>3, <1>5, <2>1, <2>2 DEF IndInv, Scheduled
    <3> QED
      BY <3>1, <3>2, <3>3, <3>4 DEF Scheduled
  <2>5. Born'
    BY <1>2, <2>1 DEF IndInv, Born
  <2>6. Quiet'
    BY <1>2, <1>5, <2>1 DEF IndInv, Quiet
  <2>7. Awake'
    <3>1. wq' # <<>> \/ closed' => \A u \in Thread : pc'[u] # "waiting"
      BY <1>2, <2>1 DEF IndInv, Awake
    <3>2. ASSUME main = "waiting"
          PROVE  mq = <<>> /\ \E u \in Thread : job'[u] # None \/ pc'[u] = "wake"
      <4>1. mq = <<>> /\ \E u \in Thread : job[u] # None \/ pc[u] = "wake"
        BY <1>5, <3>2 DEF IndInv, Awake
      <4>2. CASE job[t] = None
        BY <1>2, <4>1, <4>2
      <4>3. CASE job[t] # None
        BY <1>2, <1>5, <4>1, <4>3 DEF IdleBut
      <4> QED
        BY <4>2, <4>3
    <3> QED
      BY <3>1, <3>2 DEF Awake
  <2> QED
    BY <2>3, <2>4, <2>5, <2>6, <2>7 DEF Sched
<1> QED
  BY <1>4, <1>5

\* drop() of the WorkerQueue, when the main thread must be told.
LEMMA DropScheduled ==
  ASSUME IndInv, NEW t \in Thread, pc[t] = "drop", job' = [job EXCEPT ![t] = None],
         Goto(t, "wake"),
         UNCHANGED <<main, mq, wq, closed, events, current, parent, terminated>>
  PROVE  Sched'
<1>1. /\ job \in [Thread -> Worker \cup {None}]
      /\ pc \in [Thread -> Location]
  BY DEF IndInv, TypeOK
<1>2. /\ \A u \in Thread : u # t => pc'[u] = pc[u] /\ job'[u] = job[u]
      /\ pc'[t] = "wake" /\ job'[t] = None
  BY <1>1 DEF Goto
<1>3. \A u \in Thread : /\ (Holds(u)' <=> Holds(u)) /\ (Running(u)' <=> Running(u))
                        /\ pc'[u] = "process" <=> pc[u] = "process"
                        /\ Holds(u) \/ Running(u) => u # t
  BY <1>2 DEF Holds, Running
<1>4. Exclusive'
  BY <1>2, <1>3 DEF IndInv, Exclusive
<1>5. Scheduled'
  <2>1. \A u \in Thread :
          /\ pc'[u] = "process" => events'[job'[u]] # <<>> /\ current'[job'[u]] = None
          /\ Running(u)' => current'[job'[u]] # None
    BY <1>2, <1>3 DEF IndInv, Scheduled
  <2>2. \A w \in Worker : current'[w] # None => \E u \in Thread : Running(u)' /\ job'[u] = w
    BY <1>2, <1>3 DEF IndInv, Scheduled
  <2>3. \A w \in Worker : events'[w] # <<>> =>
          w \in Range(wq') \/ \E u \in Thread : Holds(u)' /\ job'[u] = w
    BY <1>2, <1>3 DEF IndInv, Scheduled
  <2> QED
    BY <2>1, <2>2, <2>3 DEF IndInv, Scheduled
<1>6. Born' /\ Quiet'
  BY <1>2 DEF IndInv, Born, Quiet
<1>7. Awake'
  BY <1>2 DEF IndInv, Awake
<1> QED
  BY <1>4, <1>5, <1>6, <1>7 DEF Sched

LEMMA WakeScheduled ==
  ASSUME IndInv, NEW t \in Thread, WakeMain(t)
  PROVE  Sched'
<1>1. pc \in [Thread -> Location]
  BY DEF IndInv, TypeOK
<1>2. /\ \A u \in Thread : u # t => pc'[u] = pc[u]
      /\ pc[t] = "wake" /\ pc'[t] = "take"
      /\ main' = IF main = "waiting" THEN "take" ELSE main
      /\ UNCHANGED <<mq, wq, closed, job, events, current, parent, terminated>>
  BY <1>1 DEF WakeMain, Goto, poolVars, workerVars
<1>3. SameHolds /\ \A u \in Thread : Holds(u)' <=> Holds(u)
  BY <1>2 DEF SameHolds, Holds, Running
<1>4. Exclusive' /\ Born' /\ Quiet' /\ Awake'
  BY <1>2, <1>3 DEF IndInv, Exclusive, Born, Quiet, Awake
<1>5. Scheduled'
  BY <1>2, <1>3 DEF IndInv, Scheduled, SameHolds
<1> QED
  BY <1>4, <1>5 DEF Sched

\* The thread stays with its Worker, or leaves it to the queue, or without work:
\* no other Worker or thread is touched.
LEMMA OneWorker ==
  ASSUME IndInv, NEW t \in Thread, NEW w \in Worker, job[t] = w, Holds(t),
         UNCHANGED <<main, mq, closed, job, parent>>,
         wq' = wq \/ (wq' = Append(wq, w) /\ pc'[t] = "drop" /\ events'[w] # <<>>),
         \A v \in Worker : v # w => /\ events'[v] = events[v] /\ current'[v] = current[v]
                                    /\ terminated'[v] = terminated[v],
         Running(t)' \/ pc'[t] = "drop",
         Running(t)' <=> current'[w] # None,
         events'[w] # <<>> => Running(t)' \/ wq' = Append(wq, w),
         \A u \in Thread : u # t =>
           pc'[u] = pc[u] \/ (pc[u] = "waiting" /\ pc'[u] = "take"),
         \A u \in Thread : pc'[u] = "waiting" /\ wq = <<>> => wq' = <<>>
  PROVE  Sched'
<1>1. /\ wq \in Seq(Worker) /\ Range(wq) \subseteq Worker
      /\ Range(Append(wq, w)) = Range(wq) \cup {w}
      /\ IsInjective(wq) /\ w \notin Range(wq) => IsInjective(Append(wq, w))
      /\ Append(wq, w) # <<>>
  <2>1. wq \in Seq(Worker)
    BY DEF IndInv, TypeOK
  <2> QED
    BY <2>1, SeqRange, AppendRange, NonemptyAppend
<1>2. \A u \in Thread : u # t => /\ Holds(u)' <=> Holds(u)
                                 /\ Running(u)' <=> Running(u)
                                 /\ pc'[u] = "process" <=> pc[u] = "process"
  BY DEF Holds, Running
<1>3. /\ w \notin Range(wq) /\ IsInjective(wq)
      /\ \A u \in Thread : u # t /\ Holds(u) => job[u] # w
      /\ parent[w] # None /\ w # None
  BY Distinct DEF IndInv, Exclusive, Born
<1>4. /\ ~closed /\ pc[t] \in Busy /\ main \notin {"stopped", "joining", "done"}
      /\ pc'[t] # "process" /\ pc'[t] # "waiting"
      /\ (Holds(t)' <=> Running(t)')
  BY NotQuiet DEF Holds, Running, Busy, Location
<1>5. \A u \in Thread : u # t /\ Holds(u) => job[u] \in Worker
  BY BusyThread DEF IndInv, Holds, Running, Busy, Location
<1>6. \A u \in Thread : Running(u) => Holds(u)
  BY DEF Holds
<1>7. Exclusive'
  <2>1. IsInjective(wq')
    BY <1>1, <1>3
  <2>2. \A u \in Thread : Holds(u)' => job'[u] \notin Range(wq')
    <3>1. Holds(t)' => wq' = wq
      BY <1>4 DEF Running
    <3> QED
      BY <1>1, <1>2, <1>3, <3>1 DEF IndInv, Exclusive
  <2>3. \A u, v \in Thread : Holds(u)' /\ Holds(v)' /\ job'[u] = job'[v] => u = v
    BY <1>2, <1>3 DEF IndInv, Exclusive
  <2> QED
    BY <2>1, <2>2, <2>3 DEF Exclusive
<1>8. Scheduled'
  <2>1. \A v \in Range(wq') : events'[v] # <<>> /\ current'[v] = None
    <3>1. wq' = Append(wq, w) => current'[w] = None
      <4>1. Append(wq, w) # wq
        BY <1>1, <1>3
      <4>2. wq' = Append(wq, w) => ~Running(t)'
        BY <4>1 DEF Running
      <4> QED
        BY <4>2, Zenon
    <3>2. \A v \in Range(wq) : v \in Worker /\ v # w /\ events[v] # <<>> /\ current[v] = None
      BY <1>1, <1>3 DEF IndInv, Scheduled
    <3>3. wq' = Append(wq, w) => events'[w] # <<>>
      BY <1>1, <1>3
    <3> QED
      BY <1>1, <3>1, <3>2, <3>3
  <2>2. \A u \in Thread :
          /\ pc'[u] = "process" => events'[job'[u]] # <<>> /\ current'[job'[u]] = None
          /\ Running(u)' => current'[job'[u]] # None
    <3> SUFFICES ASSUME NEW u \in Thread
                 PROVE  /\ pc'[u] = "process" => events'[job[u]] # <<>> /\ current'[job[u]] = None
                        /\ Running(u)' => current'[job[u]] # None
      OBVIOUS
    <3>1. CASE u = t
      BY <1>4, <3>1
    <3>2. CASE u # t
      <4>1. pc[u] = "process" => events[job[u]] # <<>> /\ current[job[u]] = None
        BY DEF IndInv, Scheduled
      <4>2. Running(u) => current[job[u]] # None
        BY DEF IndInv, Scheduled
      <4>3. Holds(u) => job[u] \in Worker /\ job[u] # w
        BY <1>3, <1>5, <3>2
      <4>4. pc[u] = "process" => Holds(u)
        BY DEF Holds
      <4> QED
        BY <1>2, <1>6, <3>2, <4>1, <4>2, <4>3, <4>4
    <3> QED
      BY <3>1, <3>2
  <2>3. \A v \in Worker : current'[v] # None => \E u \in Thread : Running(u)' /\ job'[u] = v
    <3> SUFFICES ASSUME NEW v \in Worker, current'[v] # None
                 PROVE  \E u \in Thread : Running(u)' /\ job[u] = v
      OBVIOUS
    <3>1. CASE v = w
      BY <3>1
    <3>2. CASE v # w
      <4>1. PICK u \in Thread : Running(u) /\ job[u] = v
        BY <3>2 DEF IndInv, Scheduled
      <4> QED
        BY <1>2, <3>2, <4>1
    <3> QED
      BY <3>1, <3>2
  <2>4. \A v \in Worker : events'[v] # <<>> =>
          v \in Range(wq') \/ \E u \in Thread : Holds(u)' /\ job'[u] = v
    <3> SUFFICES ASSUME NEW v \in Worker, events'[v] # <<>>
                 PROVE  v \in Range(wq') \/ \E u \in Thread : Holds(u)' /\ job[u] = v
      OBVIOUS
    <3>1. CASE v = w
      BY <1>1, <1>4, <3>1
    <3>2. CASE v # w
      <4>1. v \in Range(wq) \/ \E u \in Thread : Holds(u) /\ job[u] = v
        BY <3>2 DEF IndInv, Scheduled
      <4> QED
        BY <1>1, <1>2, <3>2, <4>1
    <3> QED
      BY <3>1, <3>2
  <2> QED
    BY <2>1, <2>2, <2>3, <2>4 DEF Scheduled
<1>9. Born'
  BY <1>3 DEF IndInv, Born
<1>10. Quiet'
  BY <1>4 DEF IndInv, Quiet
<1>11. Awake'
  <2>1. \A u \in Thread : /\ pc'[u] = "waiting" => pc[u] = "waiting"
                          /\ pc[u] = "wake" => pc'[u] = "wake"
    BY <1>4 DEF Busy
  <2>2. job'[t] # None
    BY <1>3
  <2> QED
    BY <1>4, <2>1, <2>2 DEF IndInv, Awake
<1> QED
  BY <1>7, <1>8, <1>9, <1>10, <1>11 DEF Sched

LEMMA StartScheduled ==
  ASSUME IndInv, NEW t \in Thread, StartEvent(t)
  PROVE  Sched'
<1> DEFINE w == job[t]
<1>1. Holds(t) /\ w \in Worker
  BY NotQuiet DEF StartEvent, Holds, Busy, Location
<1>2. /\ pc \in [Thread -> Location] /\ current \in [Worker -> Event \cup {None}]
      /\ events \in [Worker -> Seq(Event)]
  BY DEF IndInv, TypeOK
<1>3. /\ UNCHANGED <<main, mq, wq, closed, job, parent, terminated>>
      /\ pc' = [pc EXCEPT ![t] = "run"]
      /\ events[w] # <<>>
      /\ current' = [current EXCEPT ![w] = Head(events[w])]
      /\ events' = [events EXCEPT ![w] = Tail(events[w])]
  BY DEF StartEvent, Goto, poolVars, workerVars
<1>4. Head(events[w]) \in Event
  BY <1>1, <1>2, <1>3, HeadRange
<1>5. Running(t)' /\ current'[w] # None
  BY <1>1, <1>2, <1>3, <1>4, Distinct DEF Running
<1> HIDE DEF w
<1>6. /\ \A v \in Worker : v # w => /\ events'[v] = events[v] /\ current'[v] = current[v]
                                    /\ terminated'[v] = terminated[v]
      /\ \A u \in Thread : u # t => pc'[u] = pc[u]
  BY <1>2, <1>3
<1>7. job[t] = w
  BY DEF w
<1> QED
  BY <1>1, <1>3, <1>5, <1>6, <1>7, OneWorker

\* lockedCheckTermination, by a thread that is at pc[t] with its Worker.
LEMMA CheckEvents ==
  ASSUME IndInv, NEW w \in Worker, CheckTermination(w)
  PROVE  /\ \A v \in Worker : v # w => events'[v] = events[v] /\ terminated'[v] = terminated[v]
         /\ IsOver(w) => events'[w] = <<>>
         /\ ~IsOver(w) => events'[w] = events[w]
<1>1. /\ events \in [Worker -> Seq(Event)] /\ terminated \in [Worker -> BOOLEAN]
      /\ terminated[w] => events[w] = <<>>
  BY DEF IndInv, TypeOK, Spread
<1>2. CASE MustTerminate(w)
  <2>1. terminated' = [terminated EXCEPT ![w] = TRUE] /\ events' = [events EXCEPT ![w] = <<>>]
    BY <1>2, Zenon DEF CheckTermination
  <2> QED
    BY <1>1, <1>2, <2>1 DEF IsOver
<1>3. CASE ~MustTerminate(w)
  BY <1>1, <1>3 DEF CheckTermination, IsOver
<1> QED
  BY <1>2, <1>3

LEMMA CheckScheduled ==
  ASSUME IndInv, NEW t \in Thread,
         SkipEvent(t) \/ TerminateScript(t) \/ CheckAfterFailure(t) \/ Release(t)
  PROVE  Sched'
<1> DEFINE w == job[t]
<1>1. Holds(t) /\ w \in Worker
  BY NotQuiet DEF SkipEvent, TerminateScript, CheckAfterFailure, Release, Holds, Running, Busy, Location
<1>2. /\ pc \in [Thread -> Location] /\ current \in [Worker -> Event \cup {None}]
      /\ wq \in Seq(Worker)
  BY DEF IndInv, TypeOK
<1>3. /\ UNCHANGED <<main, mq, closed, job, parent>>
      /\ CheckTermination(w)
  BY Zenon DEF SkipEvent, TerminateScript, CheckAfterFailure, Release, poolVars, workerVars
<1>4. ~closed
  BY <1>1, NotQuiet DEF Holds, Running, Busy, Location
<1> HIDE DEF w
<1>5. /\ \A v \in Worker : v # w => events'[v] = events[v] /\ terminated'[v] = terminated[v]
      /\ IsOver(w) => events'[w] = <<>>
      /\ ~IsOver(w) => events'[w] = events[w]
  BY <1>1, <1>3, CheckEvents
<1>6. job[t] = w
  BY DEF w
<1>7. CASE SkipEvent(t)
  <2>1. UNCHANGED <<wq, current>> /\ pc' = [pc EXCEPT ![t] = "drop"]
    BY <1>7 DEF SkipEvent, Goto
  <2>2. IsOver(w) /\ current[w] = None
    BY <1>6, <1>7 DEF SkipEvent, IndInv, Scheduled
  <2>3. ~Running(t)' /\ pc'[t] = "drop" /\ \A u \in Thread : u # t => pc'[u] = pc[u]
    BY <1>2, <2>1 DEF Running
  <2> QED
    BY <1>1, <1>3, <1>5, <1>6, <2>1, <2>2, <2>3, OneWorker
<1>8. CASE TerminateScript(t) \/ CheckAfterFailure(t)
  <2>1. PICK l \in {"failed", "finish", "error"} :
          UNCHANGED <<wq, current>> /\ pc' = [pc EXCEPT ![t] = l] /\ Running(t)
    BY <1>8 DEF TerminateScript, CheckAfterFailure, Goto, Running
  <2>2. current[w] # None
    BY <1>6, <2>1 DEF IndInv, Scheduled
  <2>3. Running(t)' /\ \A u \in Thread : u # t => pc'[u] = pc[u]
    BY <1>2, <2>1 DEF Running
  <2> QED
    BY <1>1, <1>3, <1>5, <1>6, <2>1, <2>2, <2>3, OneWorker
<1>9. CASE Release(t)
  <2>1. /\ current' = [current EXCEPT ![w] = None]
        /\ wq' = IF ~IsOver(w) /\ events[w] # <<>> THEN Append(wq, w) ELSE wq
        /\ GotoAndNotify(t, "drop")
    BY <1>4, <1>6, <1>9 DEF Release
  <2>2. /\ pc'[t] = "drop" /\ ~Running(t)'
        /\ \A u \in Thread : u # t =>
             pc'[u] = pc[u] \/ (pc[u] = "waiting" /\ pc'[u] = "take")
        /\ \A u \in Thread : pc'[u] = "waiting" /\ wq = <<>> => wq' = <<>>
    BY <2>1 DEF GotoAndNotify, Running
  <2>3. current'[w] = None /\ \A v \in Worker : v # w => current'[v] = current[v]
    BY <1>1, <1>2, <2>1
  <2>4. wq' = wq \/ (wq' = Append(wq, w) /\ events'[w] # <<>>)
    BY <1>5, <2>1
  <2>5. events'[w] # <<>> => wq' = Append(wq, w)
    BY <1>5, <2>1
  <2> QED
    BY <1>1, <1>3, <1>5, <1>6, <2>2, <2>3, <2>4, <2>5, OneWorker
<1> QED
  BY <1>7, <1>8, <1>9

\* Nobody has a Worker that is not created yet.
LEMMA NewWorkerFree ==
  ASSUME IndInv, NEW w \in Worker, parent[w] = None
  PROVE  /\ w \notin Range(wq) /\ \A t \in Thread : job[t] # w
         /\ events[w] = <<>> /\ current[w] = None /\ ~terminated[w]
<1>1. /\ events[w] = <<>> /\ ~terminated[w] /\ w \notin Range(wq)
  BY DEF IndInv, Born, Scheduled
<1>2. \A t \in Thread : job[t] # w
  BY Distinct DEF IndInv, Born
<1>3. current[w] = None
  BY <1>2 DEF IndInv, Scheduled
<1> QED
  BY <1>1, <1>2, <1>3

LEMMA CreateScheduled ==
  ASSUME IndInv, NEW a \in Thread \cup {Main}, NEW w \in Worker, NEW e \in Event,
         Create(a, w, e)
  PROVE  Sched'
<1>1. /\ main \notin {"stopped", "joining", "done"} /\ ~closed
      /\ Self(a) # None
  BY ScriptNotQuiet DEF Create
<1>2. /\ wq \in Seq(Worker) /\ Range(wq) \subseteq Worker
      /\ parent \in [Worker -> Worker \cup {Main, None}]
      /\ events \in [Worker -> Seq(Event)]
  BY SeqRange DEF IndInv, TypeOK
<1>3. /\ w \notin Range(wq) /\ \A t \in Thread : job[t] # w
      /\ events[w] = <<>> /\ current[w] = None /\ ~terminated[w]
  BY NewWorkerFree DEF Create, NewWorker
<1>4. /\ parent' = [parent EXCEPT ![w] = Self(a)]
      /\ events' = [events EXCEPT ![w] = Append(@, e)]
      /\ wq' = Append(wq, w)
      /\ GotoAndNotify(a, "run")
      /\ UNCHANGED <<main, mq, closed, job, current, terminated>>
  BY DEF Create, poolVars
<1>5. /\ events'[w] # <<>>
      /\ \A v \in Worker : v # w => events'[v] = events[v] /\ parent'[v] = parent[v]
      /\ parent'[w] # None
  BY <1>1, <1>2, <1>4, NonemptyAppend
<1>6. /\ Range(wq') = Range(wq) \cup {w} /\ wq' # <<>>
      /\ IsInjective(wq) => IsInjective(wq')
  BY <1>2, <1>3, <1>4, AppendRange, NonemptyAppend
<1>7. /\ SameHolds
      /\ \A u \in Thread : /\ pc'[u] = "waiting" => pc[u] = "waiting" /\ wq # <<>>
                           /\ pc[u] = "wake" => pc'[u] = "wake"
  <2>1. a \in Thread => Running(a)
    BY Distinct DEF Create, Scripting, Running
  <2>2. TypeOK
    BY DEF IndInv
  <2> QED
    BY <1>4, <1>6, <2>1, <2>2, NotifyHolds
<1>8. \A u \in Thread : Holds(u)' <=> Holds(u)
  BY <1>7 DEF SameHolds, Holds
<1>9. \A u \in Thread : job[u] # None => job[u] \in Worker
  BY DEF IndInv, TypeOK
<1>10. Exclusive'
  BY <1>3, <1>4, <1>6, <1>8 DEF IndInv, Exclusive
<1>11. Scheduled'
  <2>1. \A v \in Range(wq') : events'[v] # <<>> /\ current'[v] = None
    BY <1>2, <1>3, <1>4, <1>5, <1>6 DEF IndInv, Scheduled
  <2>2. \A u \in Thread :
          /\ pc'[u] = "process" => events'[job'[u]] # <<>> /\ current'[job'[u]] = None
          /\ Running(u)' => current'[job'[u]] # None
    <3> SUFFICES ASSUME NEW u \in Thread
                 PROVE  /\ pc'[u] = "process" => events'[job[u]] # <<>> /\ current[job[u]] = None
                        /\ Running(u)' => current[job[u]] # None
      BY <1>4
    <3>1. pc[u] = "process" => job[u] \in Worker /\ job[u] # w
                               /\ events[job[u]] # <<>> /\ current[job[u]] = None
      BY <1>3, BusyThread DEF IndInv, Scheduled, Busy, Location
    <3>2. Running(u)' => current[job[u]] # None
      BY <1>7 DEF IndInv, Scheduled, SameHolds
    <3>3. pc'[u] = "process" => pc[u] = "process"
      BY <1>7 DEF SameHolds
    <3> QED
      BY <1>5, <3>1, <3>2, <3>3
  <2>3. \A v \in Worker : current'[v] # None => \E u \in Thread : Running(u)' /\ job'[u] = v
    BY <1>4, <1>7 DEF IndInv, Scheduled, SameHolds
  <2>4. \A v \in Worker : events'[v] # <<>> =>
          v \in Range(wq') \/ \E u \in Thread : Holds(u)' /\ job'[u] = v
    BY <1>4, <1>5, <1>6, <1>8 DEF IndInv, Scheduled
  <2> QED
    BY <2>1, <2>2, <2>3, <2>4 DEF Scheduled
<1>12. Born'
  <2>1. Self(a) \in Worker => parent[Self(a)] # None
    BY Distinct DEF Self, IndInv, Born
  <2>2. \A v \in Worker : v = w \/ parent'[v] = parent[v]
    BY <1>5
  <2>3. parent'[w] = Self(a)
    BY <1>2, <1>4
  <2>4. \A v \in Worker : parent'[v] \in Worker => parent'[parent'[v]] # None
    BY <1>5, <2>1, <2>2, <2>3 DEF IndInv, Born
  <2> QED
    BY <1>3, <1>4, <1>5, <1>9, <2>4 DEF IndInv, Born
<1>13. Quiet'
  BY <1>1, <1>4 DEF IndInv, Quiet
<1>14. Awake'
  BY <1>1, <1>4, <1>6, <1>7 DEF IndInv, Awake
<1> QED
  BY <1>10, <1>11, <1>12, <1>13, <1>14 DEF Sched

LEMMA MainTakeScheduled ==
  ASSUME IndInv, MainTake
  PROVE  Sched'
<1>1. /\ UNCHANGED <<wq, closed, pc, job, events, current, parent, terminated>>
      /\ main = "take" /\ ~closed
      /\ \/ main' = "event"
         \/ mq = <<>> /\ mq' = <<>> /\ main' = IF IdleBut({}) THEN "stopped" ELSE "waiting"
  BY DEF MainTake, poolVars, workerVars, IndInv, Quiet
<1>2. SameHolds /\ \A u \in Thread : Holds(u)' <=> Holds(u)
  BY <1>1 DEF SameHolds, Holds, Running
<1>3. Exclusive' /\ Born'
  BY <1>1, <1>2 DEF IndInv, Exclusive, Born
<1>4. Scheduled'
  BY <1>1, <1>2 DEF IndInv, Scheduled, SameHolds
<1>5. Quiet'
  BY <1>1 DEF Quiet, IdleBut
<1>6. Awake'
  BY <1>1 DEF IndInv, Awake, IdleBut
<1> QED
  BY <1>3, <1>4, <1>5, <1>6 DEF Sched

\* close() of the WorkerQueue, which is empty then; and the end of finish().
LEMMA CloseScheduled ==
  ASSUME IndInv, Close \/ Dispose
  PROVE  Sched'
<1>1. /\ main \in {"stopped", "joining"} /\ wq = <<>> /\ mq = <<>>
      /\ \A t \in Thread : job[t] = None
  BY DEF Close, Dispose, IndInv, Quiet
<1>2. \A u \in Thread : ~Holds(u) /\ ~Running(u) /\ pc[u] # "process"
  BY <1>1, BusyThread, Distinct DEF IndInv, Holds, Running, Busy, Location
<1>3. \A w \in Worker : events[w] = <<>> /\ current[w] = None
  BY <1>1, <1>2, EmptyRange DEF IndInv, Scheduled
<1>4. /\ UNCHANGED <<job, current, parent, terminated>>
      /\ wq' = <<>> /\ mq' = <<>> /\ main' \in {"joining", "done"}
      /\ \A w \in Worker : events'[w] = <<>>
      /\ \A u \in Thread : (pc'[u] = pc[u] /\ pc[u] = "exited")
                           \/ pc'[u] = IF pc[u] = "waiting" THEN "take" ELSE pc[u]
      /\ closed' => main' \in {"joining", "done"}
  BY <1>1, <1>3 DEF Close, Dispose, workerVars
<1>5. \A u \in Thread : ~Holds(u)' /\ ~Running(u)' /\ pc'[u] # "process" /\ pc'[u] # "waiting"
  BY <1>2, <1>4 DEF Holds, Running
<1>6. Exclusive'
  BY <1>4, <1>5, EmptyRange DEF Exclusive
<1>7. Scheduled'
  BY <1>3, <1>4, <1>5, EmptyRange DEF Scheduled
<1>8. Born'
  BY <1>3, <1>4 DEF IndInv, Born
<1>9. Quiet' /\ Awake'
  BY <1>1, <1>4, <1>5 DEF Quiet, Awake
<1> QED
  BY <1>6, <1>7, <1>8, <1>9 DEF Sched

\* Scripts post, threads report errors.
LEMMA PosterScheduled ==
  ASSUME IndInv, NEW a \in Thread \cup {Main}, NEW p, NEW e \in Event,
         NEW l \in {"run", "finish"},
         Post(p, e), Accepts(p), p \in Worker => parent[p] # None,
         Scripting(a) \/ (a \in Thread /\ Running(a)), GotoAndNotify(a, l),
         UNCHANGED <<closed, job, current, parent, terminated>>
  PROVE  Sched'
<1>1. a \in Thread => Running(a)
  BY Distinct DEF Scripting, Running
<1>2. main \notin {"stopped", "joining", "done"} /\ ~closed
  <2>1. CASE Scripting(a)
    BY <2>1, ScriptNotQuiet
  <2>2. CASE a \in Thread /\ Running(a)
    BY <2>2, NotQuiet DEF Running, Busy, Location
  <2> QED
    BY <2>1, <2>2
<1>3. TypeOK
  BY DEF IndInv
<1>4. /\ SameHolds
      /\ \A u \in Thread : /\ pc'[u] = "waiting" => pc[u] = "waiting" /\ (wq = <<>> => wq' = <<>>)
                           /\ pc[u] = "wake" => pc'[u] = "wake"
  BY <1>1, <1>3, NotifyHolds
<1> QED
  BY <1>2, <1>4, PostScheduled

LEMMA NextScheduled ==
  ASSUME IndInv, [Next]_vars
  PROVE  Sched'
<1> USE DEF poolVars, workerVars
<1>1. /\ pc \in [Thread -> Location] /\ parent \in [Worker -> Worker \cup {Main, None}]
      /\ \A w \in Worker : parent[w] = None => ~terminated[w]
      /\ \A t \in Thread : job[t] # None => parent[job[t]] # None
  BY DEF IndInv, TypeOK, Born
<1>2. ASSUME UNCHANGED <<mq, wq, closed, pc, job, events, current, parent, terminated>>,
             main' = main \/ (~closed /\ main' \notin {"stopped", "joining", "done", "waiting"})
      PROVE  Sched'
  <2>1. SameHolds
    BY <1>2 DEF SameHolds, Running
  <2> QED
    BY <1>1, <1>2, <2>1, StillScheduled
<1>3. ASSUME NEW t \in Thread, NEW l \in {"posting", "forward", "failed", "error", "finish", "release"},
             Running(t), Goto(t, l),
             UNCHANGED <<main, mq, wq, closed, job, events, current, parent, terminated>>
      PROVE  Sched'
  <2>1. \A u \in Thread : u # t => pc'[u] = pc[u]
    BY <1>1, <1>3 DEF Goto
  <2>2. pc'[t] = l
    BY <1>1, <1>3 DEF Goto
  <2>3. SameHolds
    BY <1>3, <2>1, <2>2 DEF SameHolds, Running
  <2>4. \A u \in Thread : /\ pc'[u] = "waiting" => pc[u] = "waiting"
                          /\ pc[u] = "wake" => pc'[u] = "wake"
    BY <1>3, <2>1, <2>2 DEF Running
  <2> QED
    BY <1>1, <1>3, <2>3, <2>4, StillScheduled
<1>10. ASSUME NEW t \in Thread, InertStep(t)
       PROVE  Sched'
  <2>1. PICK l \in {"posting", "failed", "finish", "forward"} :
               /\ pc[t] \in {"run", "posting", "error"}
               /\ Goto(t, l)
               /\ UNCHANGED <<main, mainEvent, mq, wq, poolVars, job, event,
                              workerVars, events, kind, child>>
    BY <1>10, InertMove
  <2> QED
    BY <1>3, <2>1 DEF Running
<1>11. ASSUME NEW a \in Thread \cup {Main}, Call(a)
       PROVE  Sched'
  <2>1. ASSUME NEW w \in Worker, Terminate(a, w)
        PROVE  Sched'
    BY <1>2, <2>1 DEF Terminate
  <2>2. ASSUME NEW w \in Worker, NEW e \in Event, Create(a, w, e)
        PROVE  Sched'
    BY <2>2, CreateScheduled
  <2>3. ASSUME NEW w \in Worker, NEW e \in Event, PostMessageToChild(a, w, e)
        PROVE  Sched'
    <3>1. Scripting(a) /\ parent[w] # None
      BY <2>3, ScriptNotQuiet DEF PostMessageToChild
    <3> QED
      BY <2>3, <3>1, PosterScheduled DEF PostMessageToChild
  <2>4. ASSUME NEW w \in Worker, NEW e \in Event, PostMessageToChildFails(a, w, e)
        PROVE  Sched'
    <3>1. CASE a = Main
      <4>1. ~closed
        BY <2>4, ScriptNotQuiet DEF PostMessageToChildFails
      <4> QED
        BY <1>2, <2>4, <3>1, <4>1 DEF PostMessageToChildFails
    <3>2. CASE a # Main
      BY <1>3, <2>4, <3>2 DEF PostMessageToChildFails, Scripting, Running
    <3> QED
      BY <3>1, <3>2
  <2> QED
    BY <1>11, <2>1, <2>2, <2>3, <2>4 DEF Call
<1>12. ASSUME NEW t \in Thread, CreateNested(t)
       PROVE  Sched'
  <2>1. ~closed
    BY <1>12, NotQuiet DEF CreateNested, Busy, Location
  <2> QED
    BY <1>2, <1>12, <2>1 DEF CreateNested
<1>13. ASSUME NEW t \in Thread, TakeWorker(t) \/ DropWorker(t)
       PROVE  Sched'
  <2>1. pc[t] \in {"take", "drop"} /\ ~Holds(t)
    BY <1>13 DEF TakeWorker, DropWorker, Holds, Running
  <2>2. UNCHANGED <<main, mq, closed, events, current, parent, terminated>>
    BY <1>13 DEF TakeWorker, DropWorker
  <2>3. pc[t] = "take" => job[t] = None
    BY BusyThread, Distinct DEF IndInv, Busy
  <2>4. CASE pc[t] = "take" \/ ~IdleBut({t})
    <3>1. Take(t)
      BY <1>13, <2>4 DEF TakeWorker, DropWorker
    <3> QED
      BY <2>1, <2>2, <2>3, <2>4, <3>1, TakeScheduled
  <2>5. CASE pc[t] = "drop" /\ IdleBut({t})
    <3>1. job' = [job EXCEPT ![t] = None] /\ Goto(t, "wake") /\ UNCHANGED wq
      BY <1>13, <2>5 DEF TakeWorker, DropWorker
    <3> QED
      BY <2>2, <2>5, <3>1, DropScheduled
  <2> QED
    BY <2>1, <2>4, <2>5
<1>14. ASSUME NEW t \in Thread, NEW e \in Event, PostMessageToParent(t, e) \/ PostError(t, e)
       PROVE  Sched'
  <2>1. Running(t) /\ job[t] \in Worker
    BY <1>14, NotQuiet, Distinct DEF PostMessageToParent, PostError, Running, Busy, Location
  <2>2. /\ Post(parent[job[t]], e) /\ Accepts(parent[job[t]])
        /\ GotoAndNotify(t, "run") \/ GotoAndNotify(t, "finish")
        /\ UNCHANGED <<closed, job, current, parent, terminated>>
    BY <1>14 DEF PostMessageToParent, PostError
  <2>3. parent[job[t]] \in Worker => parent[parent[job[t]]] # None
    BY <2>1 DEF IndInv, Born
  <2> QED
    BY <2>1, <2>2, <2>3, PosterScheduled
<1>15. ASSUME NEW t \in Thread, ForwardToParent(t)
       PROVE  Sched'
  <2>1. Running(t) /\ job[t] \in Worker
    BY <1>15, NotQuiet DEF ForwardToParent, Running, Busy, Location
  <2>2. UNCHANGED <<closed, job, current, parent, terminated>>
    BY <1>15 DEF ForwardToParent
  <2>3. CASE Accepts(parent[job[t]])
    <3>1. event[t] \in Event
      BY <1>15, Distinct DEF ForwardToParent, IndInv, TypeOK, Owned
    <3>2. Post(parent[job[t]], event[t]) /\ GotoAndNotify(t, "finish")
      BY <1>15, <2>3 DEF ForwardToParent
    <3>3. parent[job[t]] \in Worker => parent[parent[job[t]]] # None
      BY <2>1 DEF IndInv, Born
    <3> QED
      BY <2>1, <2>2, <2>3, <3>1, <3>2, <3>3, PosterScheduled
  <2>4. CASE ~Accepts(parent[job[t]])
    BY <1>3, <1>15, <2>1, <2>2, <2>4 DEF ForwardToParent
  <2> QED
    BY <2>3, <2>4
<1>16. ASSUME NEW t \in Thread, DestroyEvent(t)
       PROVE  Sched'
  BY <1>3, <1>16 DEF DestroyEvent, Running
<1>17. CASE EndScript
  <2>1. ~closed
    BY <1>17 DEF EndScript, IndInv, Quiet
  <2> QED
    BY <1>2, <1>17, <2>1 DEF EndScript
<1>18. CASE EndMainEvent
  <2>1. ~closed
    BY <1>18 DEF EndMainEvent, IndInv, Quiet
  <2> QED
    BY <1>2, <1>18, <2>1 DEF EndMainEvent
<1>19. CASE TerminateAll
  BY <1>2, <1>19 DEF TerminateAll
<1>20. CASE UNCHANGED vars
  BY <1>2, <1>20 DEF vars
<1>21. ASSUME NEW t \in Thread, ThreadStep(t)
       PROVE  Sched'
  BY <1>10, <1>11, <1>12, <1>13, <1>14, <1>15, <1>16, <1>21, WakeScheduled, StartScheduled,
     CheckScheduled, Zenon DEF ThreadStep, InertStep
<1> QED
  BY <1>11, <1>17, <1>18, <1>19, <1>20, <1>21, MainTakeScheduled, CloseScheduled, Zenon
     DEF Next, MainStep, Ended
-----------------------------------------------------------------------------
(***************************************************************************)
(* Termination.                                                            *)
(***************************************************************************)
\* Steps that terminate nobody.
LEMMA StillSpread ==
  ASSUME IndInv, UNCHANGED <<parent, terminated>>,
         \A w \in Worker : flag[w] => flag'[w],
         \A w \in Worker : terminated[w] /\ events[w] = <<>> => events'[w] = <<>>,
         \A t \in Thread : pc'[t] \in {"run", "posting"} =>
           /\ job'[t] = job[t]
           /\ pc[t] \in {"run", "posting"} \/ ~terminated[job[t]]
  PROVE  Spread'
<1>1. ChildrenTold'
  BY DEF IndInv, Spread, ChildrenTold
<1>2. \A w \in Worker : terminated'[w] => events'[w] = <<>>
  BY DEF IndInv, Spread
<1>3. \A t \in Thread : pc'[t] \in {"run", "posting"} => ~terminated'[job'[t]]
  BY DEF IndInv, Spread
<1> QED
  BY <1>1, <1>2, <1>3 DEF Spread

\* Worker::post refuses an event for a Worker that has terminated.
LEMMA PostSpread ==
  ASSUME IndInv, NEW a \in Thread \cup {Main}, NEW p, NEW e \in Event,
         NEW l \in {"run", "finish"},
         Post(p, e), Accepts(p), GotoAndNotify(a, l),
         a \in Thread => pc[a] \in {"run", "posting"} \/ l = "finish",
         UNCHANGED <<job, parent, terminated, flag>>
  PROVE  Spread'
<1>1. \A w \in Worker : terminated[w] /\ events[w] = <<>> => events'[w] = <<>>
  <2>1. events \in [Worker -> Seq(Event)]
    BY DEF IndInv, TypeOK
  <2>2. p \in Worker => ~terminated[p]
    BY DEF Accepts
  <2>3. events' = events \/ (p \in Worker /\ events' = [events EXCEPT ![p] = Append(@, e)])
    BY DEF Post
  <2> QED
    BY <2>1, <2>2, <2>3
<1>2. \A t \in Thread : pc'[t] \in {"run", "posting"} => pc[t] \in {"run", "posting"}
  BY DEF GotoAndNotify
<1> QED
  BY <1>1, <1>2, StillSpread

LEMMA CheckSpread ==
  ASSUME IndInv, NEW t \in Thread,
         SkipEvent(t) \/ TerminateScript(t) \/ CheckAfterFailure(t) \/ Release(t)
  PROVE  Spread'
<1> DEFINE w == job[t]
<1>1. Holds(t) /\ w \in Worker
  BY NotQuiet DEF SkipEvent, TerminateScript, CheckAfterFailure, Release, Holds, Running, Busy, Location
<1>2. CheckTermination(w) /\ UNCHANGED <<job, parent>>
  BY Zenon DEF SkipEvent, TerminateScript, CheckAfterFailure, Release, poolVars, workerVars
<1>3. \A u \in Thread : pc'[u] \in {"run", "posting"} => pc[u] \in {"run", "posting"} /\ u # t
  <2>1. pc \in [Thread -> Location]
    BY DEF IndInv, TypeOK
  <2>2. \E l \in {"drop", "failed", "finish", "error"} : Goto(t, l) \/ GotoAndNotify(t, l)
    BY DEF SkipEvent, TerminateScript, CheckAfterFailure, Release
  <2> QED
    BY <2>1, <2>2 DEF Goto, GotoAndNotify
<1>4. \A u \in Thread : u # t /\ pc[u] \in {"run", "posting"} => job[u] # w
  BY <1>1 DEF IndInv, Exclusive, Holds, Running
<1>5. \A u \in Thread : pc[u] \in {"run", "posting"} => job[u] \in Worker
  BY BusyThread DEF IndInv, Busy, Location
<1> HIDE DEF w
<1>6. /\ \A v \in Worker : v # w => events'[v] = events[v] /\ terminated'[v] = terminated[v]
      /\ IsOver(w) => events'[w] = <<>>
  BY <1>1, <1>2, CheckEvents
<1>7. CASE MustTerminate(w)
  <2>1. /\ \A c \in Worker : terminated'[c] <=> (c = w \/ terminated[c])
        /\ \A c \in Worker : flag'[c] <=> (c # w /\ (flag[c] \/ parent[c] = w))
    <3>1. terminated' = [terminated EXCEPT ![w] = TRUE]
      BY <1>2, <1>7, Zenon DEF CheckTermination
    <3>2. flag' = [c \in Worker |-> c # w /\ (flag[c] \/ parent[c] = w)]
      BY <1>2, <1>7, Zenon DEF CheckTermination
    <3>3. terminated \in [Worker -> BOOLEAN]
      BY Zenon DEF IndInv, TypeOK
    <3>4. \A c \in Worker : terminated'[c] <=> (c = w \/ terminated[c])
      BY <1>1, <3>1, <3>3, Zenon
    <3> QED
      BY <3>2, <3>4, Zenon
  <2>2. ChildrenTold'
    BY <1>2, <2>1, Zenon DEF IndInv, Spread, ChildrenTold
  <2>3. \A v \in Worker : terminated'[v] => events'[v] = <<>>
    <3>1. IsOver(w)
      BY <1>7 DEF IsOver
    <3> QED
      BY <1>6, <2>1, <3>1 DEF IndInv, Spread
  <2>4. \A u \in Thread : pc'[u] \in {"run", "posting"} => ~terminated'[job'[u]]
    BY <1>2, <1>3, <1>4, <1>5, <1>6 DEF IndInv, Spread
  <2> QED
    BY <2>2, <2>3, <2>4 DEF Spread
<1>8. CASE ~MustTerminate(w)
  <2>1. UNCHANGED <<terminated, events, flag>>
    BY <1>2, <1>8 DEF CheckTermination
  <2> QED
    BY <1>2, <1>3, <2>1, StillSpread
<1> QED
  BY <1>7, <1>8

LEMMA NextSpread ==
  ASSUME IndInv, [Next]_vars
  PROVE  Spread'
<1> USE DEF poolVars, workerVars
<1>1. /\ pc \in [Thread -> Location] /\ parent \in [Worker -> Worker \cup {Main, None}]
      /\ events \in [Worker -> Seq(Event)]
  BY DEF IndInv, TypeOK
<1>2. ASSUME UNCHANGED <<job, parent, terminated, flag, events>>,
             \A t \in Thread : pc'[t] \in {"run", "posting"} => pc[t] \in {"run", "posting"}
      PROVE  Spread'
  BY <1>2, StillSpread
<1>10. ASSUME NEW t \in Thread, InertStep(t)
       PROVE  Spread'
  <2>1. PICK l \in {"posting", "failed", "finish", "forward"} :
               /\ l \in {"posting", "forward"} => pc[t] = "run"
               /\ Goto(t, l)
               /\ UNCHANGED <<main, mainEvent, mq, wq, poolVars, job, event,
                              workerVars, events, kind, child>>
    BY <1>10, InertMove
  <2> QED
    BY <1>1, <1>2, <2>1 DEF Goto
<1>11. ASSUME NEW a \in Thread \cup {Main}, Call(a)
       PROVE  Spread'
  <2>1. ASSUME NEW w \in Worker, Terminate(a, w)
        PROVE  Spread'
    <3>1. \A v \in Worker : flag[v] => flag'[v]
      <4>1. flag' = [flag EXCEPT ![w] = TRUE]
        BY <2>1, Zenon DEF Terminate
      <4>2. flag \in [Worker -> BOOLEAN]
        BY Zenon DEF IndInv, TypeOK
      <4> QED
        BY <4>1, <4>2, Zenon
    <3>2. UNCHANGED <<pc, job, parent, terminated, events>>
      BY <2>1, Zenon DEF Terminate
    <3> QED
      BY <3>1, <3>2, StillSpread
  <2>2. ASSUME NEW w \in Worker, NEW e \in Event, Create(a, w, e)
        PROVE  Spread'
    <3>1. /\ UNCHANGED <<job, terminated, flag>> /\ GotoAndNotify(a, "run")
          /\ parent' = [parent EXCEPT ![w] = Self(a)]
          /\ events' = [events EXCEPT ![w] = Append(@, e)]
          /\ a \in Thread => pc[a] = "run"
      BY <2>2, Distinct DEF Create, Scripting
    <3>2. ~terminated[w]
      BY <2>2, NewWorkerFree DEF Create, NewWorker
    <3>3. Self(a) \in Worker => ~terminated[Self(a)]
      BY <2>2, Distinct DEF Create, Scripting, Self, IndInv, Spread
    <3>4. ChildrenTold'
      BY <1>1, <3>1, <3>2, <3>3 DEF IndInv, Spread, ChildrenTold
    <3>5. \A v \in Worker : terminated'[v] => events'[v] = <<>>
      BY <1>1, <3>1, <3>2 DEF IndInv, Spread
    <3>6. \A t \in Thread : pc'[t] \in {"run", "posting"} => pc[t] \in {"run", "posting"}
      BY <3>1 DEF GotoAndNotify
    <3>7. \A t \in Thread : pc'[t] \in {"run", "posting"} => ~terminated'[job'[t]]
      BY <3>1, <3>6 DEF IndInv, Spread
    <3> QED
      BY <3>4, <3>5, <3>7 DEF Spread
  <2>3. ASSUME NEW w \in Worker, NEW e \in Event, PostMessageToChild(a, w, e)
        PROVE  Spread'
    <3>1. a \in Thread => pc[a] = "run"
      BY <2>3, Distinct DEF PostMessageToChild, Scripting
    <3> QED
      BY <2>3, <3>1, PostSpread DEF PostMessageToChild
  <2>4. ASSUME NEW w \in Worker, NEW e \in Event, PostMessageToChildFails(a, w, e)
        PROVE  Spread'
    <3>1. UNCHANGED <<job, parent, terminated, flag, events>>
          /\ (UNCHANGED pc \/ Goto(a, "failed"))
      BY <2>4 DEF PostMessageToChildFails
    <3>2. \A t \in Thread : pc'[t] \in {"run", "posting"} => pc[t] \in {"run", "posting"}
      BY <1>1, <3>1 DEF Goto
    <3> QED
      BY <1>2, <3>1, <3>2
  <2> QED
    BY <1>11, <2>1, <2>2, <2>3, <2>4 DEF Call
<1>12. ASSUME NEW t \in Thread, CreateNested(t) \/ WakeMain(t) \/ DestroyEvent(t)
       PROVE  Spread'
  <2>1. UNCHANGED <<job, parent, terminated, flag, events>>
        /\ (UNCHANGED pc \/ Goto(t, "take") \/ Goto(t, "release"))
    BY <1>12 DEF CreateNested, WakeMain, DestroyEvent
  <2>2. \A u \in Thread : pc'[u] \in {"run", "posting"} => pc[u] \in {"run", "posting"}
    BY <1>1, <2>1 DEF Goto
  <2> QED
    BY <1>2, <2>1, <2>2
<1>13. ASSUME NEW t \in Thread, TakeWorker(t) \/ DropWorker(t)
       PROVE  Spread'
  <2>1. UNCHANGED <<parent, terminated, flag, events>>
    BY <1>13 DEF TakeWorker, DropWorker
  <2>2. \A u \in Thread : pc'[u] \in {"run", "posting"} => u # t /\ pc[u] = pc'[u]
    BY <1>1, <1>13 DEF TakeWorker, DropWorker, Take, Goto
  <2>3. \A u \in Thread : u # t => job'[u] = job[u]
    BY <1>13 DEF TakeWorker, DropWorker, Take, IndInv, TypeOK
  <2> QED
    BY <2>1, <2>2, <2>3, StillSpread
<1>14. ASSUME NEW t \in Thread, NEW e \in Event, PostMessageToParent(t, e) \/ PostError(t, e)
       PROVE  Spread'
  <2>1. PICK l \in {"run", "finish"} :
          /\ Post(parent[job[t]], e) /\ Accepts(parent[job[t]])
          /\ GotoAndNotify(t, l)
          /\ pc[t] = "posting" \/ l = "finish"
          /\ UNCHANGED <<job, parent, terminated, flag>>
    BY <1>14 DEF PostMessageToParent, PostError
  <2> QED
    BY <2>1, PostSpread
<1>15. ASSUME NEW t \in Thread, ForwardToParent(t)
       PROVE  Spread'
  <2>1. UNCHANGED <<job, parent, terminated, flag>>
    BY <1>15 DEF ForwardToParent
  <2>2. CASE Accepts(parent[job[t]])
    <3>1. event[t] \in Event
      BY <1>15, Distinct DEF ForwardToParent, IndInv, TypeOK, Owned
    <3>2. Post(parent[job[t]], event[t]) /\ GotoAndNotify(t, "finish")
      BY <1>15, <2>2 DEF ForwardToParent
    <3> QED
      BY <2>1, <2>2, <3>1, <3>2, PostSpread
  <2>3. CASE ~Accepts(parent[job[t]])
    <3>1. Goto(t, "failed") /\ UNCHANGED events
      BY <1>15, <2>3 DEF ForwardToParent
    <3> QED
      BY <1>1, <1>2, <2>1, <3>1 DEF Goto
  <2> QED
    BY <2>2, <2>3
<1>16. ASSUME NEW t \in Thread, StartEvent(t)
       PROVE  Spread'
  <2>1. /\ UNCHANGED <<job, parent, terminated, flag>> /\ Goto(t, "run")
        /\ ~terminated[job[t]]
        /\ events' = [events EXCEPT ![job[t]] = Tail(@)]
    BY <1>16 DEF StartEvent, IsOver
  <2>2. \A w \in Worker : terminated[w] => events'[w] = events[w]
    BY <1>1, <2>1
  <2>3. \A u \in Thread : pc'[u] \in {"run", "posting"} => pc[u] \in {"run", "posting"} \/ u = t
    BY <1>1, <2>1 DEF Goto
  <2> QED
    BY <2>1, <2>2, <2>3, StillSpread
<1>17. CASE EndScript \/ MainTake \/ EndMainEvent \/ UNCHANGED vars
  BY <1>2, <1>17 DEF EndScript, MainTake, EndMainEvent, vars
<1>18. CASE Close \/ Dispose
  <2>1. UNCHANGED <<job, parent, terminated, flag>> /\ \A w \in Worker : events'[w] \in {events[w], <<>>}
    BY <1>18 DEF Close, Dispose
  <2>2. \A t \in Thread : pc'[t] \in {"run", "posting"} => pc[t] \in {"run", "posting"}
    BY <1>18 DEF Close, Dispose
  <2> QED
    BY <2>1, <2>2, StillSpread
<1>19. CASE TerminateAll
  <2>1. UNCHANGED <<pc, job, parent, terminated, events>>
        /\ flag' = [w \in Worker |-> parent[w] # None]
    BY <1>19 DEF TerminateAll
  <2>2. ChildrenTold'
    BY <2>1, Distinct, Zenon DEF ChildrenTold
  <2>3. /\ \A w \in Worker : terminated'[w] => events'[w] = <<>>
        /\ \A t \in Thread : pc'[t] \in {"run", "posting"} => ~terminated'[job'[t]]
    BY <2>1 DEF IndInv, Spread
  <2> QED
    BY <2>2, <2>3 DEF Spread
<1>20. ASSUME NEW t \in Thread, ThreadStep(t)
       PROVE  Spread'
  BY <1>10, <1>11, <1>12, <1>13, <1>14, <1>15, <1>16, <1>20, CheckSpread, Zenon
     DEF ThreadStep, InertStep
<1> QED
  BY <1>11, <1>17, <1>18, <1>19, <1>20, Zenon DEF Next, MainStep, Ended
-----------------------------------------------------------------------------
(***************************************************************************)
(* Where the events are.                                                   *)
(***************************************************************************)
Placed == Owned /\ Alive /\ Routed

\* Where a thread has an event, where it must have one, and where that is the
\* event its Worker was given.
MayOwn  == {"run", "posting", "forward", "failed", "error", "finish"}
MustOwn == MayOwn \ {"finish"}
Handles == {"run", "posting", "forward"}

LEMMA OwnedThread ==
  ASSUME IndInv, NEW t \in Thread
  PROVE  /\ event[t] \in Event \cup {None}
         /\ event[t] # None <=> event[t] \in Event
         /\ event[t] # None => pc[t] \in MayOwn
         /\ pc[t] \in MustOwn => event[t] # None
BY Distinct DEF IndInv, TypeOK, Owned, Running, MayOwn, MustOwn

\* Steps that take events from where they are and put them nowhere.
LEMMA OwnedShrinks ==
  ASSUME IndInv,
         \A w \in Worker : Range(events'[w]) \subseteq Range(events[w]) /\ IsInjective(events'[w]),
         Range(mq') \subseteq Range(mq), IsInjective(mq'),
         mainEvent' \in {mainEvent, None},
         \A t \in Thread :
           /\ event'[t] \in {event[t], None}
           /\ pc'[t] \in MustOwn => event'[t] # None
           /\ event'[t] # None => pc'[t] \in MayOwn /\ current'[job'[t]] = current[job[t]]
  PROVE  Owned'
<1>1. /\ \A w \in Worker : \A e \in Range(events[w]) : e \in Event /\ e # None
      /\ \A e \in Range(mq) : e \in Event /\ e # None
  BY SeqRange, Distinct DEF IndInv, TypeOK
<1>2. \A w \in Worker : \A e \in Range(events'[w]) :
        /\ \A v \in Worker : e \in Range(events'[v]) => v = w
        /\ e \notin Range(mq') /\ e # mainEvent'
        /\ \A t \in Thread : event'[t] # e
  BY <1>1 DEF IndInv, Owned
<1>3. \A e \in Range(mq') : e # mainEvent' /\ \A t \in Thread : event'[t] # e
  BY <1>1 DEF IndInv, Owned
<1>4. \A t \in Thread :
        /\ pc'[t] \in {"run", "posting", "forward", "failed", "error"} => event'[t] # None
        /\ event'[t] # None =>
             /\ Running(t)' /\ pc'[t] # "release"
             /\ current'[job'[t]] = event'[t]
             /\ event'[t] # mainEvent'
             /\ \A u \in Thread : event'[u] = event'[t] => u = t
  BY DEF IndInv, Owned, Running, MayOwn, MustOwn
<1> QED
  BY <1>2, <1>3, <1>4 DEF Owned

\* The same, when those in S are destroyed.
LEMMA PlacedShrinks ==
  ASSUME IndInv, NEW S, kind' = Destroyed(S), UNCHANGED <<child, parent>>,
         \A e \in S \cap Event : kind[e] # "unborn",
         None \notin S,
         \A w \in Worker : /\ Range(events'[w]) \subseteq Range(events[w])
                           /\ Range(events'[w]) \cap S = {}
                           /\ IsInjective(events'[w]),
         Range(mq') \subseteq Range(mq), Range(mq') \cap S = {}, IsInjective(mq'),
         mainEvent' \in {mainEvent, None}, mainEvent' \notin S,
         \A t \in Thread :
           /\ event'[t] \in {event[t], None} /\ event'[t] \notin S
           /\ pc'[t] \in MustOwn => event'[t] # None
           /\ event'[t] # None => /\ pc'[t] \in MayOwn
                                  /\ pc'[t] \in Handles => pc[t] \in Handles
                                  /\ current'[job'[t]] = current[job[t]]
                                  /\ job'[t] = job[t]
  PROVE  Placed'
<1>1. /\ \A w \in Worker : Range(events[w]) \subseteq Event
      /\ Range(mq) \subseteq Event
      /\ mainEvent \in Event \cup {None}
      /\ \A t \in Thread : event[t] \in Event \cup {None}
      /\ kind \in [Event -> Kind]
  BY SeqRange DEF IndInv, TypeOK
<1>2. \A e \in Event : e \notin S => kind'[e] = kind[e]
  BY DEF Destroyed
<1>3. \A e \in Event : kind'[e] # "unborn" => kind[e] # "unborn"
  BY DEF Destroyed
<1>4. Owned'
  BY OwnedShrinks
<1>5. Alive'
  BY <1>1, <1>2 DEF IndInv, Alive, Live
<1>6. \A e \in Event : e \notin S => \A p : Belongs(e, p)' <=> Belongs(e, p)
  BY <1>2 DEF Belongs
<1>7. Routed'
  <2>1. \A e \in Event : kind'[e] # "unborn" => child'[e] \in Worker
    BY <1>3 DEF IndInv, Routed
  <2>2. \A w \in Worker : \A e \in Range(events'[w]) : Belongs(e, w)'
    BY <1>1, <1>6 DEF IndInv, Routed, RoutedToParent
  <2>3. \A e \in Range(mq') \cup ({mainEvent'} \ {None}) : Belongs(e, Main)'
    BY <1>1, <1>6 DEF IndInv, Routed, RoutedToParent
  <2>4. \A t \in Thread : event'[t] # None /\ pc'[t] \notin {"failed", "error", "finish"}
          => Belongs(event[t], job[t])'
    <3> SUFFICES ASSUME NEW t \in Thread, event'[t] # None,
                        pc'[t] \notin {"failed", "error", "finish"}
                 PROVE  Belongs(event[t], job[t])'
      OBVIOUS
    <3>1. pc[t] \in Handles
      BY DEF MayOwn, Handles
    <3>2. Belongs(event[t], job[t])
      BY <3>1 DEF IndInv, Routed, RoutedToParent, Handles
    <3> QED
      BY <1>1, <1>2, <3>2 DEF Belongs
  <2>5. \A t \in Thread : event'[t] # None =>
          \/ Belongs(event[t], job[t])'
          \/ kind'[event'[t]] = "error" /\ child'[event'[t]] = job'[t]
    BY <1>1, <1>2 DEF IndInv, Routed, Belongs
  <2> QED
    BY <2>1, <2>2, <2>3, <2>4, <2>5 DEF Routed, RoutedToParent
<1> QED
  BY <1>4, <1>5, <1>7 DEF Placed

\* The event e is posted to p, or lost; nobody had it, or who had it gives it away.
Deposit(p, e) ==
  \/ p = Main /\ mq' = Append(mq, e) /\ UNCHANGED events
  \/ p \in Worker /\ events' = [events EXCEPT ![p] = Append(@, e)] /\ UNCHANGED mq
  \/ UNCHANGED <<mq, events>>

Nowhere(e) ==
  /\ \A w \in Worker : e \notin Range(events[w])
  /\ e \notin Range(mq) /\ e # mainEvent

LEMMA DepositRange ==
  ASSUME IndInv, NEW p, NEW e \in Event, Deposit(p, e), Nowhere(e)
  PROVE  /\ \A w \in Worker : /\ IsInjective(events'[w])
                              /\ \/ Range(events'[w]) = Range(events[w])
                                 \/ w = p /\ Range(events'[w]) = Range(events[w]) \cup {e}
         /\ IsInjective(mq')
         /\ Range(mq') = Range(mq) \/ (p = Main /\ Range(mq') = Range(mq) \cup {e})
<1>1. /\ mq \in Seq(Event) /\ events \in [Worker -> Seq(Event)]
      /\ IsInjective(mq) /\ \A w \in Worker : IsInjective(events[w])
  BY DEF IndInv, TypeOK, Owned
<1>2. CASE p = Main /\ mq' = Append(mq, e) /\ UNCHANGED events
  BY <1>1, <1>2, AppendRange DEF Nowhere
<1>3. CASE p \in Worker /\ events' = [events EXCEPT ![p] = Append(@, e)] /\ UNCHANGED mq
  <2>1. /\ IsInjective(Append(events[p], e))
        /\ Range(Append(events[p], e)) = Range(events[p]) \cup {e}
    BY <1>1, <1>3, AppendRange DEF Nowhere
  <2> QED
    BY <1>1, <1>3, <2>1
<1>4. CASE UNCHANGED <<mq, events>>
  BY <1>1, <1>4
<1> QED
  BY <1>2, <1>3, <1>4 DEF Deposit

LEMMA PlacedDeposit ==
  ASSUME IndInv, NEW p \in Worker \cup {Main}, NEW e \in Event, Deposit(p, e), Nowhere(e),
         NEW k \in {"init", "down", "up", "error"}, NEW c \in Worker, SetEvent(e, k, c),
         UNCHANGED <<mainEvent, current, job>>,
         \A w \in Worker : parent[w] # None => parent'[w] = parent[w],
         k \in {"init", "down"} => c = p,
         k \in {"up", "error"} => parent[c] = p,
         \A t \in Thread :
           /\ event'[t] \in {event[t], None} /\ event'[t] # e
           /\ pc'[t] \in MustOwn => event'[t] # None
           /\ event'[t] # None => /\ pc'[t] \in MayOwn
                                  /\ pc'[t] \in Handles => pc[t] \in Handles
  PROVE  Placed'
<1>1. /\ \A w \in Worker : Range(events[w]) \subseteq Event
      /\ Range(mq) \subseteq Event
      /\ mainEvent \in Event \cup {None}
      /\ \A t \in Thread : event[t] \in Event \cup {None}
      /\ kind \in [Event -> Kind] /\ child \in [Event -> Worker \cup {None}]
  BY SeqRange DEF IndInv, TypeOK
<1>2. /\ \A w \in Worker : /\ IsInjective(events'[w])
                           /\ \/ Range(events'[w]) = Range(events[w])
                              \/ w = p /\ Range(events'[w]) = Range(events[w]) \cup {e}
      /\ IsInjective(mq')
      /\ Range(mq') = Range(mq) \/ (p = Main /\ Range(mq') = Range(mq) \cup {e})
  BY DepositRange
<1>3. /\ \A f \in Event : f # e => kind'[f] = kind[f] /\ child'[f] = child[f]
      /\ kind'[e] = k /\ child'[e] = c
  BY <1>1 DEF SetEvent
<1>4. Belongs(e, p)'
  BY <1>3, Distinct DEF Belongs
<1>5. ASSUME NEW f \in Event, f # e, kind[f] # "unborn", NEW q \in Worker \cup {Main},
             Belongs(f, q)
      PROVE  Belongs(f, q)'
  <2>1. child[f] \in Worker
    BY <1>5 DEF IndInv, Routed
  <2> QED
    BY <1>3, <1>5, <2>1, Distinct DEF Belongs
<1>6. Owned'
  <2>1. \A w \in Worker : \A f \in Range(events'[w]) :
          /\ \A v \in Worker : f \in Range(events'[v]) => v = w
          /\ f \notin Range(mq') /\ f # mainEvent'
          /\ \A t \in Thread : event'[t] # f
    <3> SUFFICES ASSUME NEW w \in Worker, NEW f \in Range(events'[w])
                 PROVE  /\ \A v \in Worker : f \in Range(events'[v]) => v = w
                        /\ f \notin Range(mq') /\ f # mainEvent
                        /\ \A t \in Thread : event'[t] # f
      OBVIOUS
    <3>1. CASE f = e
      BY <1>2, <3>1, Distinct DEF Nowhere
    <3>2. CASE f # e
      <4>1. f \in Range(events[w])
        BY <1>2, <3>2
      <4>2. f # None
        BY <1>1, <4>1, Distinct
      <4> QED
        BY <1>2, <3>2, <4>1, <4>2 DEF IndInv, Owned
    <3> QED
      BY <3>1, <3>2
  <2>2. \A f \in Range(mq') : f # mainEvent' /\ \A t \in Thread : event'[t] # f
    <3> SUFFICES ASSUME NEW f \in Range(mq')
                 PROVE  f # mainEvent /\ \A t \in Thread : event'[t] # f
      OBVIOUS
    <3>1. CASE f = e
      BY <3>1 DEF Nowhere
    <3>2. CASE f # e
      BY <1>1, <1>2, <3>2, Distinct DEF IndInv, Owned
    <3> QED
      BY <3>1, <3>2
  <2>3. \A t \in Thread :
          /\ pc'[t] \in {"run", "posting", "forward", "failed", "error"} => event'[t] # None
          /\ event'[t] # None =>
               /\ Running(t)' /\ pc'[t] # "release"
               /\ current'[job'[t]] = event'[t]
               /\ event'[t] # mainEvent'
               /\ \A u \in Thread : event'[u] = event'[t] => u = t
    BY DEF IndInv, Owned, Running, MayOwn, MustOwn
  <2> QED
    BY <1>2, <2>1, <2>2, <2>3 DEF Owned
<1>7. \A f \in Event : /\ f # e => (Live(f)' <=> Live(f))
                       /\ f = e => Live(f)'
  BY <1>3 DEF Live
<1>8. Alive'
  <2>1. /\ \A w \in Worker : \A f \in Range(events'[w]) : Live(f)'
        /\ \A f \in Range(mq') : Live(f)'
    BY <1>1, <1>2, <1>7 DEF IndInv, Alive
  <2>2. mainEvent' # None => Live(mainEvent)'
    BY <1>1, <1>3 DEF IndInv, Alive, Live, Nowhere
  <2>3. \A t \in Thread : event'[t] # None => Live(event[t])'
    BY <1>1, <1>3 DEF IndInv, Alive, Live
  <2> QED
    BY <2>1, <2>2, <2>3 DEF Alive
<1>9. Routed'
  <2>1. \A f \in Event : kind'[f] # "unborn" => child'[f] \in Worker
    BY <1>3 DEF IndInv, Routed
  <2>2. \A w \in Worker : \A f \in Range(events'[w]) : Belongs(f, w)'
    <3> SUFFICES ASSUME NEW w \in Worker, NEW f \in Range(events'[w])
                 PROVE  Belongs(f, w)'
      OBVIOUS
    <3>1. CASE f = e
      <4>1. w = p
        BY <1>2, <3>1 DEF Nowhere
      <4> QED
        BY <1>4, <3>1, <4>1
    <3>2. CASE f # e
      <4>1. f \in Range(events[w]) /\ f \in Event
        BY <1>1, <1>2, <3>2
      <4>2. kind[f] # "unborn" /\ Belongs(f, w)
        BY <4>1 DEF IndInv, Alive, Live, Routed, RoutedToParent
      <4> QED
        BY <1>5, <3>2, <4>1, <4>2
    <3> QED
      BY <3>1, <3>2
  <2>3. \A f \in Range(mq') \cup ({mainEvent'} \ {None}) : Belongs(f, Main)'
    BY <1>1, <1>2, <1>4, <1>5 DEF IndInv, Alive, Live, Routed, RoutedToParent, Nowhere
  <2>4. ASSUME NEW t \in Thread, event'[t] # None
        PROVE  /\ event'[t] = event[t] /\ event[t] \in Event /\ event[t] # e
               /\ kind[event[t]] # "unborn" /\ job[t] \in Worker
               /\ kind'[event[t]] = kind[event[t]] /\ child'[event[t]] = child[event[t]]
    <3>1. event'[t] = event[t] /\ event[t] \in Event /\ event[t] # e
      BY <1>1, <2>4
    <3>2. kind[event[t]] # "unborn"
      BY <2>4, <3>1 DEF IndInv, Alive, Live
    <3>3. job[t] \in Worker
      BY <2>4, <3>1, OwnedThread, BusyThread DEF IndInv, MayOwn, Busy, Location
    <3> QED
      BY <1>3, <3>1, <3>2, <3>3
  <2>5. ASSUME NEW t \in Thread, event'[t] # None, Belongs(event[t], job[t])
        PROVE  Belongs(event[t], job[t])'
    <3>1. child[event[t]] \in Worker
      BY <2>4, <2>5 DEF IndInv, Routed
    <3> QED
      BY <2>4, <2>5, <3>1, Distinct DEF Belongs
  <2>6. \A t \in Thread : event'[t] # None /\ pc'[t] \notin {"failed", "error", "finish"}
          => Belongs(event[t], job[t])'
    <3> SUFFICES ASSUME NEW t \in Thread, event'[t] # None,
                        pc'[t] \notin {"failed", "error", "finish"}
                 PROVE  Belongs(event[t], job[t])'
      OBVIOUS
    <3>1. pc[t] \in Handles
      BY DEF MayOwn, Handles
    <3>2. Belongs(event[t], job[t])
      BY <2>4, <3>1 DEF IndInv, Routed, RoutedToParent, Handles
    <3> QED
      BY <2>5, <3>2
  <2>7. \A t \in Thread : event'[t] # None =>
          \/ Belongs(event[t], job[t])'
          \/ kind'[event'[t]] = "error" /\ child'[event'[t]] = job'[t]
    <3> SUFFICES ASSUME NEW t \in Thread, event'[t] # None
                 PROVE  \/ Belongs(event[t], job[t])'
                        \/ kind'[event'[t]] = "error" /\ child'[event'[t]] = job'[t]
      OBVIOUS
    <3>1. \/ Belongs(event[t], job[t])
          \/ kind[event[t]] = "error" /\ child[event[t]] = job[t]
      BY <2>4 DEF IndInv, Routed
    <3> QED
      BY <2>4, <2>5, <3>1
  <2> QED
    BY <2>1, <2>2, <2>3, <2>6, <2>7 DEF Routed, RoutedToParent
<1> QED
  BY <1>6, <1>8, <1>9 DEF Placed

LEMMA StartPlaced ==
  ASSUME IndInv, NEW t \in Thread, StartEvent(t)
  PROVE  Placed'
<1> DEFINE w == job[t]
           e == Head(events[w])
<1>1. w \in Worker /\ pc[t] = "process" /\ event[t] = None
  BY NotQuiet, OwnedThread DEF StartEvent, Busy, Location, MayOwn
<1>2. /\ pc \in [Thread -> Location] /\ event \in [Thread -> Event \cup {None}]
      /\ current \in [Worker -> Event \cup {None}] /\ events \in [Worker -> Seq(Event)]
      /\ \A v \in Worker : Range(events[v]) \subseteq Event
      /\ Range(mq) \subseteq Event
  BY SeqRange DEF IndInv, TypeOK
<1>3. /\ event' = [event EXCEPT ![t] = e] /\ current' = [current EXCEPT ![w] = e]
      /\ events' = [events EXCEPT ![w] = Tail(events[w])]
      /\ pc' = [pc EXCEPT ![t] = "run"]
      /\ UNCHANGED <<mainEvent, mq, job, parent, kind, child>>
      /\ events[w] # <<>>
  BY DEF StartEvent, Goto
<1>4. /\ e \in Event /\ e \in Range(events[w])
      /\ Range(Tail(events[w])) \subseteq Range(events[w]) /\ e \notin Range(Tail(events[w]))
      /\ IsInjective(Tail(events[w]))
  BY <1>1, <1>2, <1>3, HeadRange DEF IndInv, Owned
<1> HIDE DEF w, e
<1>5. /\ \A v \in Worker : /\ Range(events'[v]) \subseteq Range(events[v]) \ {e}
                           /\ IsInjective(events'[v])
      /\ \A u \in Thread : u # t => event'[u] = event[u] /\ pc'[u] = pc[u]
      /\ event'[t] = e /\ pc'[t] = "run" /\ current'[w] = e /\ job[t] = w
      /\ \A v \in Worker : v # w => current'[v] = current[v]
  <2>1. \A v \in Worker : v # w => e \notin Range(events[v])
    BY <1>1, <1>4 DEF IndInv, Owned
  <2>2. \A v \in Worker : v # w => events'[v] = events[v]
    BY <1>1, <1>2, <1>3
  <2>3. events'[w] = Tail(events[w])
    BY <1>1, <1>2, <1>3
  <2>4. \A v \in Worker : IsInjective(events[v])
    BY DEF IndInv, Owned
  <2>5. \A v \in Worker : Range(events'[v]) \subseteq Range(events[v]) \ {e} /\ IsInjective(events'[v])
    BY <1>4, <2>1, <2>2, <2>3, <2>4
  <2>6. \A u \in Thread : u # t => event'[u] = event[u] /\ pc'[u] = pc[u]
    BY <1>2, <1>3
  <2>7. event'[t] = e /\ pc'[t] = "run" /\ current'[w] = e /\ job[t] = w
    BY <1>1, <1>2, <1>3 DEF w
  <2>8. \A v \in Worker : v # w => current'[v] = current[v]
    BY <1>1, <1>2, <1>3
  <2> QED
    BY <2>5, <2>6, <2>7, <2>8
<1>6. /\ e \notin Range(mq) /\ e # mainEvent /\ e # None
      /\ \A u \in Thread : event[u] # e
      /\ Live(e) /\ Belongs(e, w)
  BY <1>1, <1>4, Distinct DEF IndInv, Owned, Alive, Routed, RoutedToParent
<1>7. Owned'
  <2>1. \A v \in Worker : \A f \in Range(events'[v]) :
          /\ \A x \in Worker : f \in Range(events'[x]) => x = v
          /\ f \notin Range(mq') /\ f # mainEvent'
          /\ \A u \in Thread : event'[u] # f
    <3> SUFFICES ASSUME NEW v \in Worker, NEW f \in Range(events'[v])
                 PROVE  /\ \A x \in Worker : f \in Range(events'[x]) => x = v
                        /\ f \notin Range(mq) /\ f # mainEvent
                        /\ \A u \in Thread : event'[u] # f
      BY <1>3
    <3>1. f \in Range(events[v]) /\ f # e
      BY <1>5
    <3>2. /\ \A x \in Worker : f \in Range(events[x]) => x = v
          /\ f \notin Range(mq) /\ f # mainEvent
          /\ \A u \in Thread : event[u] # f
      BY <3>1 DEF IndInv, Owned
    <3>3. \A x \in Worker : f \in Range(events'[x]) => x = v
      BY <1>5, <3>2
    <3>4. \A u \in Thread : event'[u] # f
      BY <1>5, <3>1, <3>2
    <3> QED
      BY <3>2, <3>3, <3>4
  <2>2. \A f \in Range(mq') : f # mainEvent' /\ \A u \in Thread : event'[u] # f
    BY <1>3, <1>5, <1>6 DEF IndInv, Owned
  <2>3. ASSUME NEW u \in Thread
        PROVE  /\ pc'[u] \in {"run", "posting", "forward", "failed", "error"} => event'[u] # None
               /\ event'[u] # None =>
                    /\ Running(u)' /\ pc'[u] # "release"
                    /\ current'[job'[u]] = event'[u]
                    /\ event'[u] # mainEvent'
                    /\ \A x \in Thread : event'[x] = event'[u] => x = u
    <3>1. CASE u = t
      BY <1>3, <1>5, <1>6, <3>1 DEF Running
    <3>2. CASE u # t
      <4>1. Running(u) => job[u] # w
        BY <1>1, <1>5, <3>2 DEF IndInv, Exclusive, Holds
      <4>2. Running(u) => job[u] \in Worker
        BY BusyThread DEF IndInv, Running, Busy, Location
      <4>3. Running(u) => Running(u)'
        BY <1>5, <3>2 DEF Running
      <4>4. event[u] # None => /\ Running(u) /\ pc[u] # "release"
                               /\ current[job[u]] = event[u]
                               /\ event[u] # mainEvent
                               /\ \A x \in Thread : event[x] = event[u] => x = u
        BY DEF IndInv, Owned
      <4>5. pc[u] \in {"run", "posting", "forward", "failed", "error"} => event[u] # None
        BY DEF IndInv, Owned
      <4> QED
        BY <1>3, <1>5, <1>6, <3>2, <4>1, <4>2, <4>3, <4>4, <4>5
    <3> QED
      BY <3>1, <3>2
  <2>4. IsInjective(mq') /\ \A v \in Worker : IsInjective(events'[v])
    BY <1>3, <1>5 DEF IndInv, Owned
  <2> QED
    BY <2>1, <2>2, <2>3, <2>4, Zenon DEF Owned
<1>8. Alive'
  BY <1>3, <1>5, <1>6 DEF IndInv, Alive, Live
<1>9. Routed'
  <2>1. \A f \in Event : kind'[f] # "unborn" => child'[f] \in Worker
    BY <1>3 DEF IndInv, Routed
  <2>2. \A v \in Worker : \A f \in Range(events'[v]) : Belongs(f, v)'
    <3> SUFFICES ASSUME NEW v \in Worker, NEW f \in Range(events'[v])
                 PROVE  Belongs(f, v)'
      OBVIOUS
    <3>1. f \in Range(events[v])
      BY <1>5
    <3>2. Belongs(f, v)
      BY <3>1 DEF IndInv, Routed, RoutedToParent
    <3> QED
      BY <1>3, <3>2 DEF Belongs
  <2>3. \A f \in Range(mq') \cup ({mainEvent'} \ {None}) : Belongs(f, Main)'
    BY <1>3 DEF IndInv, Routed, RoutedToParent, Belongs
  <2>4. Belongs(event[t], job[t])'
    BY <1>3, <1>5, <1>6 DEF Belongs
  <2>5. \A u \in Thread : event'[u] # None /\ pc'[u] \notin {"failed", "error", "finish"}
          => Belongs(event[u], job[u])'
    BY <1>3, <1>5, <2>4 DEF IndInv, Routed, RoutedToParent, Belongs
  <2>6. \A u \in Thread : event'[u] # None =>
          \/ Belongs(event[u], job[u])'
          \/ kind'[event'[u]] = "error" /\ child'[event'[u]] = job'[u]
    BY <1>3, <1>5, <2>4 DEF IndInv, Routed, Belongs
  <2> QED
    BY <2>1, <2>2, <2>3, <2>5, <2>6 DEF Routed, RoutedToParent
<1> QED
  BY <1>7, <1>8, <1>9 DEF Placed

LEMMA MainTakePlaced ==
  ASSUME IndInv, MainTake
  PROVE  Placed'
<1>1. /\ UNCHANGED <<pc, job, event, current, parent, events, kind, child>>
      /\ mainEvent = None
      /\ \/ UNCHANGED <<mainEvent, mq>>
         \/ mq # <<>> /\ mainEvent' = Head(mq) /\ mq' = Tail(mq)
  BY DEF MainTake, workerVars, IndInv, TypeOK
<1>2. /\ IsInjective(mq') /\ Range(mq') \subseteq Range(mq)
      /\ mainEvent' # None => mainEvent' \in Range(mq) \ Range(mq')
      /\ None \notin Range(mq)
  <2>1. mq \in Seq(Event) /\ IsInjective(mq) /\ Range(mq) \subseteq Event
    BY SeqRange DEF IndInv, TypeOK, Owned
  <2>2. CASE UNCHANGED <<mainEvent, mq>>
    BY <1>1, <2>1, <2>2, Distinct
  <2>3. CASE mq # <<>> /\ mainEvent' = Head(mq) /\ mq' = Tail(mq)
    <3>1. /\ Range(mq) = {Head(mq)} \cup Range(Tail(mq))
          /\ IsInjective(Tail(mq)) /\ Head(mq) \notin Range(Tail(mq))
      BY <2>1, <2>3, HeadRange
    <3> QED
      BY <2>1, <2>3, <3>1, Distinct
  <2> QED
    BY <1>1, <2>2, <2>3
<1>3. Owned'
  <2>1. \A w \in Worker : \A e \in Range(events'[w]) :
          /\ \A v \in Worker : e \in Range(events'[v]) => v = w
          /\ e \notin Range(mq') /\ e # mainEvent'
          /\ \A t \in Thread : event'[t] # e
    <3>1. \A w \in Worker : \A e \in Range(events[w]) : e # None
      BY SeqRange, Distinct DEF IndInv, TypeOK
    <3> QED
      BY <1>1, <1>2, <3>1 DEF IndInv, Owned
  <2>2. \A e \in Range(mq') : e # mainEvent' /\ \A t \in Thread : event'[t] # e
    BY <1>1, <1>2 DEF IndInv, Owned
  <2>3. \A t \in Thread :
          /\ pc'[t] \in {"run", "posting", "forward", "failed", "error"} => event'[t] # None
          /\ event'[t] # None =>
               /\ Running(t)' /\ pc'[t] # "release"
               /\ current'[job'[t]] = event'[t]
               /\ event'[t] # mainEvent'
               /\ \A u \in Thread : event'[u] = event'[t] => u = t
    <3>1. \A t \in Thread : Running(t)' <=> Running(t)
      BY <1>1 DEF Running
    <3> QED
      BY <1>1, <1>2, <3>1 DEF IndInv, Owned
  <2>4. \A w \in Worker : IsInjective(events'[w])
    BY <1>1 DEF IndInv, Owned
  <2> QED
    BY <1>2, <2>1, <2>2, <2>3, <2>4 DEF Owned
<1>4. Alive'
  BY <1>1, <1>2 DEF IndInv, Alive, Live
<1>5. Routed'
  <2>1. \A e \in Event : kind'[e] # "unborn" => child'[e] \in Worker
    BY <1>1 DEF IndInv, Routed
  <2>2. \A w \in Worker : \A e \in Range(events'[w]) : Belongs(e, w)'
    BY <1>1 DEF IndInv, Routed, RoutedToParent, Belongs
  <2>3. \A e \in Range(mq') \cup ({mainEvent'} \ {None}) : Belongs(e, Main)'
    BY <1>1, <1>2 DEF IndInv, Routed, RoutedToParent, Belongs
  <2>4. \A t \in Thread : event'[t] # None /\ pc'[t] \notin {"failed", "error", "finish"}
          => Belongs(event[t], job[t])'
    BY <1>1 DEF IndInv, Routed, RoutedToParent, Belongs
  <2>5. \A t \in Thread : event'[t] # None =>
          \/ Belongs(event[t], job[t])'
          \/ kind'[event'[t]] = "error" /\ child'[event'[t]] = job'[t]
    BY <1>1 DEF IndInv, Routed, Belongs
  <2> QED
    BY <2>1, <2>2, <2>3, <2>4, <2>5 DEF Routed, RoutedToParent
<1> QED
  BY <1>3, <1>4, <1>5 DEF Placed

\* Steps that are not about events.
LEMMA StillPlaced ==
  ASSUME IndInv, UNCHANGED <<mq, mainEvent, event, events, current, kind, child, parent>>,
         \A t \in Thread :
           /\ pc'[t] \in MustOwn => event[t] # None
           /\ event[t] # None => /\ pc'[t] \in MayOwn
                                 /\ pc'[t] \in Handles => pc[t] \in Handles
                                 /\ job'[t] = job[t]
  PROVE  Placed'
<1>1. kind' = Destroyed({})
  BY DEF IndInv, TypeOK, Destroyed
<1>2. IsInjective(mq) /\ \A w \in Worker : IsInjective(events[w])
  BY DEF IndInv, Owned
<1> QED
  BY <1>1, <1>2, PlacedShrinks

LEMMA CheckPlaced ==
  ASSUME IndInv, NEW t \in Thread,
         SkipEvent(t) \/ TerminateScript(t) \/ CheckAfterFailure(t) \/ Release(t)
  PROVE  Placed'
<1> DEFINE w == job[t]
           S == Doomed(w)
<1>1. Holds(t) /\ w \in Worker
  BY NotQuiet DEF SkipEvent, TerminateScript, CheckAfterFailure, Release, Holds, Running, Busy, Location
<1>2. /\ pc \in [Thread -> Location] /\ current \in [Worker -> Event \cup {None}]
      /\ mq \in Seq(Event) /\ events \in [Worker -> Seq(Event)]
      /\ Range(events[w]) \subseteq Event
  BY <1>1, SeqRange DEF IndInv, TypeOK
<1>3. /\ UNCHANGED <<mainEvent, mq, job, event, parent, child>>
      /\ CheckTermination(w) /\ kind' = Destroyed(S)
  BY Zenon DEF SkipEvent, TerminateScript, CheckAfterFailure, Release, poolVars, workerVars
<1>4. \A v \in Worker : v # w => current'[v] = current[v]
  BY <1>1, <1>2 DEF SkipEvent, TerminateScript, CheckAfterFailure, Release
<1>5. /\ current'[w] = current[w] \/ Release(t)
      /\ \A u \in Thread : u # t =>
           pc'[u] = pc[u] \/ (pc[u] = "waiting" /\ pc'[u] = "take")
      /\ pc'[t] \in {"drop", "failed", "finish", "error"}
      /\ pc'[t] # "drop" => pc[t] \in {"run", "failed"}
      /\ pc'[t] = "drop" => pc[t] \in {"process", "release"}
  BY <1>2 DEF SkipEvent, TerminateScript, CheckAfterFailure, Release, Goto, GotoAndNotify
<1>6. /\ \A v \in Worker : v # w => events'[v] = events[v]
      /\ IsOver(w) => events'[w] = <<>>
      /\ ~IsOver(w) => events'[w] = events[w]
  BY <1>1, <1>3, CheckEvents
<1>7. S = (IF MustTerminate(w) THEN Range(events[w]) ELSE {}) /\ (MustTerminate(w) => IsOver(w))
  BY DEF Doomed, IsOver
<1>8. \A v \in Worker : IsInjective(events[v])
  BY DEF IndInv, Owned
<1>9. w = job[t]
  OBVIOUS
<1> HIDE DEF w, S
<1>10. /\ \A e \in S : e \in Event /\ kind[e] # "unborn" /\ e # None
       /\ \A e \in S : e \in Range(events[w])
  BY <1>1, <1>2, <1>7, Distinct DEF IndInv, Alive, Live
<1>11. \A v \in Worker : /\ Range(events'[v]) \subseteq Range(events[v])
                         /\ Range(events'[v]) \cap S = {}
                         /\ IsInjective(events'[v])
  <2>1. CASE IsOver(w)
    <3>1. ASSUME NEW v \in Worker, v # w
          PROVE  Range(events[v]) \cap S = {}
      BY <1>1, <1>10, <3>1 DEF IndInv, Owned
    <3> QED
      BY <1>6, <1>8, <2>1, <3>1, EmptyRange
  <2>2. CASE ~IsOver(w)
    BY <1>6, <1>7, <1>8, <2>2
  <2> QED
    BY <2>1, <2>2
<1>12. Range(mq) \cap S = {} /\ IsInjective(mq) /\ mainEvent \notin S
       /\ \A u \in Thread : event[u] \notin S
  BY <1>1, <1>10 DEF IndInv, Owned
<1>13. \A u \in Thread : pc[u] \in MayOwn => u = t \/ job[u] # w
  BY <1>1, <1>9 DEF IndInv, Exclusive, Holds, Running, MayOwn
<1>14. \A u \in Thread : pc[u] \in MayOwn => job[u] \in Worker
  BY BusyThread DEF IndInv, MayOwn, Busy, Location
<1>15. ASSUME NEW u \in Thread
       PROVE  /\ pc'[u] \in MustOwn => event[u] # None
              /\ event[u] # None => /\ pc'[u] \in MayOwn
                                    /\ pc'[u] \in Handles => pc[u] \in Handles
                                    /\ current'[job[u]] = current[job[u]]
  <2>1. CASE u = t
    <3>1. pc'[t] \in MustOwn => pc[t] \in MustOwn
      BY <1>5 DEF MustOwn, MayOwn
    <3>2. event[t] # None => pc[t] \in MayOwn
      BY OwnedThread
    <3>3. event[t] # None => pc'[t] # "drop"
      BY <1>5, <3>2 DEF MayOwn
    <3>4. Release(t) => pc[t] = "release"
      BY DEF Release
    <3> QED
      BY <1>5, <1>9, <2>1, <3>1, <3>2, <3>3, <3>4, OwnedThread DEF MayOwn, Handles
  <2>2. CASE u # t
    <3>1. pc'[u] \in MustOwn => pc[u] \in MustOwn
      BY <1>5, <2>2 DEF MustOwn, MayOwn
    <3>2. event[u] # None => pc[u] \in MayOwn
      BY OwnedThread
    <3>3. pc[u] \in MayOwn => pc'[u] = pc[u]
      BY <1>5, <2>2 DEF MayOwn
    <3> QED
      BY <1>4, <1>13, <1>14, <2>2, <3>1, <3>2, <3>3, OwnedThread
  <2> QED
    BY <2>1, <2>2
<1> QED
  <2>1. \A e \in S \cap Event : kind[e] # "unborn"
    BY <1>10
  <2>2. None \notin S
    BY <1>10
  <2> QED
    BY <1>3, <1>11, <1>12, <1>15, <2>1, <2>2, PlacedShrinks

LEMMA DestroyPlaced ==
  ASSUME IndInv, NEW t \in Thread, DestroyEvent(t)
  PROVE  Placed'
<1>1. /\ pc \in [Thread -> Location] /\ event \in [Thread -> Event \cup {None}]
      /\ kind \in [Event -> Kind]
  BY DEF IndInv, TypeOK
<1>2. /\ kind' = Destroyed({event[t]}) /\ event' = [event EXCEPT ![t] = None]
      /\ pc' = [pc EXCEPT ![t] = "release"]
      /\ UNCHANGED <<mainEvent, mq, job, parent, current, events, child>>
  BY DEF DestroyEvent, Goto, workerVars
<1>3. kind' = Destroyed({event[t]} \ {None})
  BY <1>2, Distinct DEF Destroyed
<1>4. \A u \in Thread : u # t => event'[u] = event[u] /\ pc'[u] = pc[u]
  BY <1>1, <1>2
<1>5. event'[t] = None /\ pc'[t] = "release"
  BY <1>1, <1>2
<1>6. /\ IsInjective(mq) /\ \A w \in Worker : IsInjective(events[w])
      /\ \A w \in Worker : event[t] \notin Range(events[w])
      /\ event[t] \notin Range(mq)
      /\ event[t] # None => /\ event[t] # mainEvent
                            /\ \A u \in Thread : event[u] = event[t] => u = t
      /\ event[t] # None => kind[event[t]] # "unborn"
  BY DEF IndInv, Owned, Alive, Live
<1>7. ASSUME NEW u \in Thread
      PROVE  /\ event'[u] \in {event[u], None} /\ event'[u] \notin {event[t]} \ {None}
             /\ pc'[u] \in MustOwn => event'[u] # None
             /\ event'[u] # None => /\ pc'[u] \in MayOwn
                                    /\ pc'[u] \in Handles => pc[u] \in Handles
  <2>1. CASE u = t
    BY <1>5, <2>1 DEF MustOwn, MayOwn
  <2>2. CASE u # t
    BY <1>4, <1>6, <2>2, OwnedThread
  <2> QED
    BY <2>1, <2>2
<1> DEFINE S == {event[t]} \ {None}
<1>8. /\ \A e \in S \cap Event : kind[e] # "unborn"
      /\ None \notin S /\ mainEvent \notin S /\ Range(mq) \cap S = {}
      /\ \A w \in Worker : Range(events[w]) \cap S = {}
  BY <1>6
<1>9. kind' = Destroyed(S) /\ \A u \in Thread : event'[u] \notin S
  BY <1>3, <1>7
<1> HIDE DEF S
<1> QED
  BY <1>2, <1>6, <1>7, <1>8, <1>9, PlacedShrinks

LEMMA EndMainPlaced ==
  ASSUME IndInv, EndMainEvent
  PROVE  Placed'
<1>1. /\ kind' = Destroyed({mainEvent}) /\ mainEvent' = None
      /\ UNCHANGED <<mq, pc, job, event, parent, current, events, child>>
  BY DEF EndMainEvent, workerVars
<1>2. mainEvent \in Event /\ kind[mainEvent] # "unborn"
  BY DEF EndMainEvent, IndInv, TypeOK, Alive, Live
<1>3. /\ IsInjective(mq) /\ \A w \in Worker : IsInjective(events[w])
      /\ \A w \in Worker : mainEvent \notin Range(events[w])
      /\ mainEvent \notin Range(mq)
      /\ \A u \in Thread : event[u] # mainEvent
  BY <1>2, Distinct DEF IndInv, Owned
<1>4. \A u \in Thread : /\ pc[u] \in MustOwn => event[u] # None
                        /\ event[u] # None => pc[u] \in MayOwn
  BY OwnedThread
<1> DEFINE S == {mainEvent}
<1>5. /\ \A e \in S \cap Event : kind[e] # "unborn"
      /\ None \notin S /\ Range(mq) \cap S = {}
      /\ \A w \in Worker : Range(events[w]) \cap S = {}
      /\ \A u \in Thread : event[u] \notin S
      /\ kind' = Destroyed(S)
  BY <1>1, <1>2, <1>3, Distinct
<1> HIDE DEF S
<1> QED
  BY <1>1, <1>3, <1>4, <1>5, PlacedShrinks

LEMMA DisposePlaced ==
  ASSUME IndInv, Dispose
  PROVE  Placed'
<1> DEFINE S == Range(mq) \cup UNION {Range(events[w]) : w \in Worker}
<1>1. /\ kind' = Destroyed(S) /\ mq' = <<>> /\ \A w \in Worker : events'[w] = <<>>
      /\ UNCHANGED <<mainEvent, pc, job, event, current, parent, child>>
      /\ main = "joining"
  BY DEF Dispose, workerVars
<1>2. /\ \A e \in S \cap Event : kind[e] # "unborn"
      /\ None \notin S
  <2>1. Range(mq) \subseteq Event /\ \A w \in Worker : Range(events[w]) \subseteq Event
    BY SeqRange DEF IndInv, TypeOK
  <2> QED
    BY <2>1, Distinct DEF IndInv, Alive, Live
<1> HIDE DEF S
<1>3. mainEvent = None /\ \A t \in Thread : event[t] = None /\ pc[t] \notin MustOwn
  <2>1. \A t \in Thread : job[t] = None
    BY <1>1 DEF IndInv, Quiet
  <2>2. \A t \in Thread : pc[t] \notin MayOwn
    BY <2>1, BusyThread, Distinct DEF IndInv, MayOwn, Busy, Location
  <2> QED
    BY <1>1, <2>2, OwnedThread DEF MustOwn, IndInv, TypeOK
<1> QED
  BY <1>1, <1>2, <1>3, EmptyRange, PlacedShrinks

\* A new event is posted, or lost.
LEMMA NewEventPlaced ==
  ASSUME IndInv, NEW p \in Worker \cup {Main}, NEW e \in Event, NewEvent(e), Deposit(p, e),
         NEW k \in {"init", "down", "up", "error"}, NEW c \in Worker, SetEvent(e, k, c),
         UNCHANGED <<mainEvent, current, job, event>>,
         \A w \in Worker : parent[w] # None => parent'[w] = parent[w],
         k \in {"init", "down"} => c = p,
         k \in {"up", "error"} => parent[c] = p,
         \A t \in Thread :
           /\ pc'[t] \in MustOwn => pc[t] \in MustOwn
           /\ pc[t] \in MayOwn => /\ pc'[t] \in MayOwn
                                  /\ pc'[t] \in Handles => pc[t] \in Handles
  PROVE  Placed'
<1>1. kind[e] = "unborn" /\ e # None
  BY Distinct DEF NewEvent
<1>2. Nowhere(e) /\ \A t \in Thread : event[t] # e
  BY <1>1 DEF IndInv, Alive, Live, Nowhere
<1>3. \A t \in Thread :
        /\ event'[t] = event[t] /\ event[t] # e
        /\ pc'[t] \in MustOwn => event[t] # None
        /\ event[t] # None => /\ pc'[t] \in MayOwn
                              /\ pc'[t] \in Handles => pc[t] \in Handles
  BY <1>2, OwnedThread
<1> QED
  BY <1>2, <1>3, PlacedDeposit

\* The event of a thread becomes an error, which it forwards or cannot forward.
LEMMA ForwardPlaced ==
  ASSUME IndInv, NEW t \in Thread, ForwardToParent(t)
  PROVE  Placed'
<1> DEFINE w == job[t]
           e == event[t]
<1>1. w \in Worker /\ pc[t] = "forward" /\ e \in Event /\ e # None
  BY NotQuiet, OwnedThread DEF ForwardToParent, Busy, Location, MustOwn, MayOwn
<1>2. /\ SetEvent(e, "error", w) /\ UNCHANGED <<mainEvent, job, parent, current>>
  BY DEF ForwardToParent, workerVars
<1>3. /\ pc \in [Thread -> Location] /\ event \in [Thread -> Event \cup {None}]
      /\ parent[w] \in Worker \cup {Main}
  <2>1. parent[w] \in Worker \cup {Main, None} /\ parent[w] # None
    BY <1>1, Distinct DEF IndInv, TypeOK, Born
  <2> QED
    BY <2>1 DEF IndInv, TypeOK
<1>4. /\ Nowhere(e) /\ \A u \in Thread : u # t => event[u] # e
  BY <1>1 DEF IndInv, Owned, Nowhere
<1>5. CASE Accepts(parent[w])
  <2>1. /\ Post(parent[w], e) /\ event' = [event EXCEPT ![t] = None]
        /\ GotoAndNotify(t, "finish")
    BY <1>5 DEF ForwardToParent
  <2>2. Deposit(parent[w], e)
    BY <2>1 DEF Post, Deposit
  <2>3. event'[t] = None /\ \A u \in Thread : u # t => event'[u] = event[u]
    BY <1>3, <2>1
  <2>4. /\ pc'[t] = "finish"
        /\ \A u \in Thread : u # t =>
             pc'[u] = pc[u] \/ (pc[u] = "waiting" /\ pc'[u] = "take")
    BY <2>1 DEF GotoAndNotify
  <2> HIDE DEF w, e
  <2>5. ASSUME NEW u \in Thread
        PROVE  /\ event'[u] \in {event[u], None} /\ event'[u] # e
               /\ pc'[u] \in MustOwn => event'[u] # None
               /\ event'[u] # None => /\ pc'[u] \in MayOwn
                                      /\ pc'[u] \in Handles => pc[u] \in Handles
    <3>1. CASE u = t
      BY <1>1, <2>3, <2>4, <3>1 DEF MustOwn
    <3>2. CASE u # t
      <4>1. pc'[u] \in MustOwn => pc[u] \in MustOwn
        BY <2>4, <3>2 DEF MustOwn, MayOwn
      <4>2. pc[u] \in MayOwn => pc'[u] = pc[u]
        BY <2>4, <3>2 DEF MayOwn
      <4> QED
        BY <1>4, <2>3, <3>2, <4>1, <4>2, OwnedThread
    <3> QED
      BY <3>1, <3>2
  <2> QED
    BY <1>1, <1>2, <1>3, <1>4, <2>2, <2>5, PlacedDeposit
<1>6. CASE ~Accepts(parent[w])
  <2>1. pc' = [pc EXCEPT ![t] = "failed"] /\ UNCHANGED <<mq, events, event>>
    BY <1>6 DEF ForwardToParent, Goto
  <2>2. e = event[t] /\ w = job[t]
    OBVIOUS
  <2> HIDE DEF w, e
  <2>3. /\ kind'[e] = "error" /\ child'[e] = w
        /\ \A f \in Event : f # e => kind'[f] = kind[f] /\ child'[f] = child[f]
    BY <1>1, <1>2 DEF SetEvent, IndInv, TypeOK
  <2>4. pc'[t] = "failed" /\ \A u \in Thread : u # t => pc'[u] = pc[u]
    BY <1>3, <2>1
  <2>5. /\ \A v \in Worker : Range(events[v]) \subseteq Event
        /\ Range(mq) \subseteq Event /\ mainEvent \in Event \cup {None}
    BY SeqRange DEF IndInv, TypeOK
  <2>6. Owned'
    <3>1. \A u \in Thread : /\ pc'[u] \in MustOwn => event[u] # None
                            /\ event[u] # None => pc'[u] \in MayOwn
      BY <1>1, <2>2, <2>4, OwnedThread DEF MustOwn, MayOwn
    <3>2. IsInjective(mq) /\ \A v \in Worker : IsInjective(events[v])
      BY DEF IndInv, Owned
    <3> QED
      BY <1>2, <2>1, <3>1, <3>2, OwnedShrinks
  <2>7. Alive'
    <3>1. \A f \in Event : Live(f) => Live(f)'
      BY <2>3 DEF Live
    <3>2. \A u \in Thread : event[u] # None => event[u] \in Event
      BY OwnedThread
    <3>3. /\ \A v \in Worker : \A f \in Range(events'[v]) : Live(f)'
          /\ \A f \in Range(mq') : Live(f)'
      BY <2>1, <2>5, <3>1 DEF IndInv, Alive
    <3>4. mainEvent' # None => Live(mainEvent)'
      BY <1>2, <2>3, <2>5 DEF IndInv, Alive, Live
    <3>5. \A u \in Thread : event'[u] # None => Live(event[u])'
      BY <2>1, <2>3, <3>2 DEF IndInv, Alive, Live
    <3> QED
      BY <3>3, <3>4, <3>5 DEF Alive
  <2>8. Routed'
    <3>1. \A f \in Event : kind'[f] # "unborn" => child'[f] \in Worker
      BY <1>1, <2>3 DEF IndInv, Routed
    <3>2. \A v \in Worker : \A f \in Range(events'[v]) : Belongs(f, v)'
      <4> SUFFICES ASSUME NEW v \in Worker, NEW f \in Range(events'[v])
                   PROVE  Belongs(f, v)'
        OBVIOUS
      <4>1. f \in Event /\ f # e /\ Belongs(f, v)
        BY <1>4, <2>1, <2>5 DEF Nowhere, IndInv, Routed, RoutedToParent
      <4> QED
        BY <1>2, <2>3, <4>1 DEF Belongs
    <3>3. \A f \in Range(mq') \cup ({mainEvent'} \ {None}) : Belongs(f, Main)'
      <4> SUFFICES ASSUME NEW f \in Range(mq') \cup ({mainEvent'} \ {None})
                   PROVE  Belongs(f, Main)'
        OBVIOUS
      <4>1. f \in Event /\ f # e /\ Belongs(f, Main)
        BY <1>2, <1>4, <2>1, <2>5 DEF Nowhere, IndInv, Routed, RoutedToParent
      <4> QED
        BY <1>2, <2>3, <4>1 DEF Belongs
    <3>4. \A u \in Thread : u # t /\ event[u] # None => event[u] \in Event /\ event[u] # e
      BY <1>4, OwnedThread
    <3>5. \A u \in Thread : event'[u] # None /\ pc'[u] \notin {"failed", "error", "finish"}
            => Belongs(event[u], job[u])'
      BY <1>2, <2>1, <2>3, <2>4, <3>4 DEF IndInv, Routed, RoutedToParent, Belongs
    <3>6. \A u \in Thread : event'[u] # None =>
            \/ Belongs(event[u], job[u])'
            \/ kind'[event'[u]] = "error" /\ child'[event'[u]] = job'[u]
      BY <1>2, <2>1, <2>2, <2>3, <3>4 DEF IndInv, Routed, Belongs
    <3> QED
      BY <3>1, <3>2, <3>3, <3>5, <3>6 DEF Routed, RoutedToParent
  <2> QED
    BY <2>6, <2>7, <2>8 DEF Placed
<1> QED
  BY <1>5, <1>6

LEMMA NextPlaced ==
  ASSUME IndInv, [Next]_vars
  PROVE  Placed'
<1> USE DEF poolVars, workerVars
<1>1. pc \in [Thread -> Location]
  BY DEF IndInv, TypeOK
<1>2. ASSUME UNCHANGED <<mq, mainEvent, event, events, current, kind, child, parent>>,
             \A t \in Thread :
               /\ pc'[t] \in MustOwn => pc[t] \in MustOwn
               /\ pc[t] \in MayOwn => /\ pc'[t] \in MayOwn /\ job'[t] = job[t]
                                      /\ pc'[t] \in Handles => pc[t] \in Handles
      PROVE  Placed'
  BY <1>2, OwnedThread, StillPlaced
<1>3. ASSUME NEW a \in Thread \cup {Main}, NEW l \in {"run", "finish"}, GotoAndNotify(a, l),
             a \in Thread => pc[a] \in {"run", "posting"} \/ (l = "finish" /\ pc[a] = "error")
      PROVE  \A t \in Thread :
               /\ pc'[t] \in MustOwn => pc[t] \in MustOwn
               /\ pc[t] \in MayOwn => /\ pc'[t] \in MayOwn
                                      /\ pc'[t] \in Handles => pc[t] \in Handles
  BY <1>3 DEF GotoAndNotify, MustOwn, MayOwn, Handles
<1>10. ASSUME NEW t \in Thread, InertStep(t)
       PROVE  Placed'
  <2>1. PICK l \in {"posting", "failed", "finish", "forward"} :
               /\ pc[t] \in {"run", "posting", "error"}
               /\ l \in {"posting", "forward"} => pc[t] = "run"
               /\ Goto(t, l)
               /\ UNCHANGED <<main, mainEvent, mq, wq, poolVars, job, event,
                              workerVars, events, kind, child>>
    BY <1>10, InertMove
  <2>2. pc'[t] = l /\ \A u \in Thread : u # t => pc'[u] = pc[u]
    BY <1>1, <2>1 DEF Goto
  <2> QED
    BY <1>2, <2>1, <2>2 DEF MustOwn, MayOwn, Handles
<1>11. ASSUME NEW a \in Thread \cup {Main}, Call(a)
       PROVE  Placed'
  <2>1. ASSUME NEW w \in Worker, Terminate(a, w)
        PROVE  Placed'
    BY <1>2, <2>1 DEF Terminate
  <2>2. ASSUME NEW w \in Worker, NEW e \in Event, Create(a, w, e)
        PROVE  Placed'
    <3>1. /\ NewEvent(e) /\ SetEvent(e, "init", w)
          /\ UNCHANGED <<mainEvent, current, job, event>>
          /\ GotoAndNotify(a, "run")
          /\ a \in Thread => pc[a] = "run"
          /\ Deposit(w, e)
      BY <2>2, Distinct DEF Create, Scripting, Deposit
    <3>2. \A v \in Worker : parent[v] # None => parent'[v] = parent[v]
      BY <2>2 DEF Create, NewWorker, IndInv, TypeOK
    <3>3. \A t \in Thread :
               /\ pc'[t] \in MustOwn => pc[t] \in MustOwn
               /\ pc[t] \in MayOwn => /\ pc'[t] \in MayOwn
                                      /\ pc'[t] \in Handles => pc[t] \in Handles
      BY <1>3, <3>1
    <3> QED
      BY <3>1, <3>2, <3>3, NewEventPlaced
  <2>3. ASSUME NEW w \in Worker, NEW e \in Event, PostMessageToChild(a, w, e)
        PROVE  Placed'
    <3>1. /\ NewEvent(e) /\ SetEvent(e, "down", w) /\ Post(w, e)
          /\ UNCHANGED <<mainEvent, current, job, event, parent>>
          /\ GotoAndNotify(a, "run")
          /\ a \in Thread => pc[a] = "run"
      BY <2>3, Distinct DEF PostMessageToChild, Scripting
    <3>2. Deposit(w, e)
      BY <3>1 DEF Post, Deposit
    <3>3. \A t \in Thread :
               /\ pc'[t] \in MustOwn => pc[t] \in MustOwn
               /\ pc[t] \in MayOwn => /\ pc'[t] \in MayOwn
                                      /\ pc'[t] \in Handles => pc[t] \in Handles
      BY <1>3, <3>1
    <3> QED
      BY <3>1, <3>2, <3>3, NewEventPlaced
  <2>4. ASSUME NEW w \in Worker, NEW e \in Event, PostMessageToChildFails(a, w, e)
        PROVE  Placed'
    <3>1. /\ NewEvent(e) /\ SetEvent(e, "down", w)
          /\ UNCHANGED <<mainEvent, mq, events, current, job, event, parent>>
          /\ UNCHANGED pc \/ (Goto(a, "failed") /\ pc[a] = "run")
      BY <2>4 DEF PostMessageToChildFails, Scripting
    <3>2. Deposit(w, e)
      BY <3>1 DEF Deposit
    <3>3. \A t \in Thread :
               /\ pc'[t] \in MustOwn => pc[t] \in MustOwn
               /\ pc[t] \in MayOwn => /\ pc'[t] \in MayOwn
                                      /\ pc'[t] \in Handles => pc[t] \in Handles
      BY <1>1, <3>1 DEF Goto, MustOwn, MayOwn, Handles
    <3> QED
      BY <3>1, <3>2, <3>3, NewEventPlaced
  <2> QED
    BY <1>11, <2>1, <2>2, <2>3, <2>4 DEF Call
<1>12. ASSUME NEW t \in Thread, CreateNested(t) \/ WakeMain(t)
       PROVE  Placed'
  <2>1. UNCHANGED <<mq, mainEvent, event, events, current, kind, child, parent, job>>
        /\ (UNCHANGED pc \/ (pc[t] = "wake" /\ Goto(t, "take")))
    BY <1>12 DEF CreateNested, WakeMain
  <2>2. \A u \in Thread : pc'[u] = pc[u] \/ (pc[u] = "wake" /\ pc'[u] = "take")
    BY <1>1, <2>1 DEF Goto
  <2> QED
    BY <1>2, <2>1, <2>2 DEF MustOwn, MayOwn
<1>13. ASSUME NEW t \in Thread, TakeWorker(t) \/ DropWorker(t)
       PROVE  Placed'
  <2>1. UNCHANGED <<mq, mainEvent, event, events, current, kind, child, parent>>
    BY <1>13 DEF TakeWorker, DropWorker
  <2>2. pc'[t] \in {"process", "waiting", "exited", "wake"} /\ pc[t] \in {"take", "drop"}
    BY <1>1, <1>13 DEF TakeWorker, DropWorker, Take, Goto
  <2>3. \A u \in Thread : u # t => pc'[u] = pc[u] /\ job'[u] = job[u]
    BY <1>13 DEF TakeWorker, DropWorker, Take, Goto, IndInv, TypeOK
  <2>4. \A u \in Thread :
               /\ pc'[u] \in MustOwn => pc[u] \in MustOwn
               /\ pc[u] \in MayOwn => /\ pc'[u] \in MayOwn /\ job'[u] = job[u]
                                      /\ pc'[u] \in Handles => pc[u] \in Handles
    BY <2>2, <2>3 DEF MustOwn, MayOwn
  <2> QED
    BY <1>2, <2>1, <2>4
<1>14. ASSUME NEW t \in Thread, NEW e \in Event, PostMessageToParent(t, e) \/ PostError(t, e)
       PROVE  Placed'
  <2>1. PICK l \in {"run", "finish"}, k \in {"up", "error"} :
          /\ NewEvent(e) /\ SetEvent(e, k, job[t])
          /\ Post(parent[job[t]], e)
          /\ GotoAndNotify(t, l)
          /\ pc[t] = "posting" \/ (l = "finish" /\ pc[t] = "error")
          /\ UNCHANGED <<mainEvent, current, job, event, parent>>
    BY <1>14 DEF PostMessageToParent, PostError
  <2>2. job[t] \in Worker
    BY <2>1, NotQuiet DEF Busy, Location
  <2>3. parent[job[t]] \in Worker \cup {Main}
    BY <2>1 DEF Post
  <2>4. Deposit(parent[job[t]], e)
    BY <2>1 DEF Post, Deposit
  <2>5. \A u \in Thread :
               /\ pc'[u] \in MustOwn => pc[u] \in MustOwn
               /\ pc[u] \in MayOwn => /\ pc'[u] \in MayOwn
                                      /\ pc'[u] \in Handles => pc[u] \in Handles
    BY <1>3, <2>1
  <2> QED
    BY <2>1, <2>2, <2>3, <2>4, <2>5, NewEventPlaced
<1>15. CASE EndScript \/ TerminateAll \/ UNCHANGED vars
  BY <1>2, <1>15 DEF EndScript, TerminateAll, vars
<1>16. CASE Close
  <2>1. UNCHANGED <<mq, mainEvent, event, events, current, kind, child, parent, job>>
    BY <1>16 DEF Close
  <2>2. \A u \in Thread : pc'[u] = pc[u] \/ (pc[u] = "waiting" /\ pc'[u] = "take")
    BY <1>16 DEF Close
  <2> QED
    BY <1>2, <2>1, <2>2 DEF MustOwn, MayOwn
<1>17. ASSUME NEW t \in Thread, ThreadStep(t)
       PROVE  Placed'
  BY <1>10, <1>11, <1>12, <1>13, <1>14, <1>17, StartPlaced, CheckPlaced, ForwardPlaced,
     DestroyPlaced, Zenon DEF ThreadStep, InertStep
<1> QED
  BY <1>11, <1>15, <1>16, <1>17, MainTakePlaced, EndMainPlaced, DisposePlaced, Zenon
     DEF Next, MainStep, Ended
-----------------------------------------------------------------------------
(***************************************************************************)
(* The invariant, and what follows from it.                                *)
(***************************************************************************)
LEMMA NextInv ==
  ASSUME IndInv, [Next]_vars
  PROVE  IndInv'
<1>1. TypeOK'
  <2>1. TypeOK /\ \A t \in Thread : pc[t] = "forward" => event[t] # None
    BY DEF IndInv, Owned
  <2> QED
    BY <2>1, NextTypes
<1> QED
  BY <1>1, NextScheduled, NextSpread, NextPlaced, Zenon DEF IndInv, Sched, Placed

\* The inductive invariant holds in every state of the workers.
THEOREM Invariant == Spec => []IndInv
BY InitInv, NextInv, PTL DEF Spec

\* The types of the pool's state, and when a thread has taken a Worker.
THEOREM TypeCorrect == Spec => []TypeOK
<1>1. IndInv => TypeOK
  BY DEF IndInv
<1> QED
  BY <1>1, Invariant, PTL

\* The runtime of a Worker is entered by one thread at a time, however many
\* threads serve however many Workers.
THEOREM EachRunsAlone == Spec => []RunsAlone
<1>1. IndInv => RunsAlone
  <2> SUFFICES ASSUME IndInv PROVE RunsAlone
    OBVIOUS
  <2>1. \A t \in Thread : Running(t) \/ pc[t] = "process" <=> Holds(t)
    BY DEF Holds
  <2>2. \A t \in Thread : Running(t) => job[t] # None /\ current[job[t]] # None
    BY BusyThread, Distinct DEF IndInv, Scheduled, Running, Busy, Location
  <2> QED
    BY <2>1, <2>2 DEF IndInv, Exclusive, RunsAlone
<1> QED
  BY <1>1, Invariant, PTL

\* No Worker with events is forgotten, and nobody sleeps who has work.
THEOREM NobodyForgotten == Spec => []NoLostWakeup
<1>1. IndInv => NoLostWakeup
  <2> SUFFICES ASSUME IndInv PROVE NoLostWakeup
    OBVIOUS
  <2>1. \A w \in Worker : events[w] # <<>> =>
          \/ w \in Range(wq)
          \/ \E t \in Thread : job[t] = w /\ (pc[t] = "process" \/ Running(t))
    BY DEF IndInv, Scheduled, Holds
  <2> QED
    BY <2>1 DEF IndInv, Awake, NoLostWakeup
<1> QED
  BY <1>1, Invariant, PTL

\* An event has one owner, which alone will destroy it, and is alive there.
THEOREM EventsOwnedOnce == Spec => []OwnedOnce
<1>1. IndInv => OwnedOnce
  <2> SUFFICES ASSUME IndInv PROVE OwnedOnce
    OBVIOUS
  <2>1. ASSUME NEW e \in Event
        PROVE  Cardinality(Holders(e)) <= 1
    <3>1. ASSUME NEW x \in Holders(e), NEW y \in Holders(e)
          PROVE  x = y
      <4> DEFINE Box(z) == z \in Worker /\ e \in Range(events[z])
                 Hand(z) == z \in Thread /\ event[z] = e
                 AtMain(z) == z = Main /\ (mainEvent = e \/ e \in Range(mq))
      <4>1. e # None
        BY Distinct
      <4>2. \A z \in Holders(e) : Box(z) \/ Hand(z) \/ AtMain(z)
        BY DEF Holders
      <4>3. \A z1, z2 : Box(z1) => ~Hand(z2) /\ ~AtMain(z2) /\ (Box(z2) => z1 = z2)
        BY DEF IndInv, Owned
      <4>4. \A z1, z2 : Hand(z1) => ~AtMain(z2) /\ (Hand(z2) => z1 = z2)
        BY <4>1 DEF IndInv, Owned
      <4>5. \A z1, z2 : AtMain(z1) /\ AtMain(z2) => z1 = z2
        OBVIOUS
      <4> HIDE DEF Box, Hand, AtMain
      <4> QED
        BY <3>1, <4>2, <4>3, <4>4, <4>5
    <3>2. CASE Holders(e) = {}
      BY <3>2, FS_EmptySet
    <3>3. CASE Holders(e) # {}
      <4>1. PICK x : x \in Holders(e)
        BY <3>3
      <4>2. Holders(e) = {x}
        BY <3>1, <4>1
      <4>3. Cardinality({x}) = 1
        BY FS_Singleton, Zenon
      <4>4. Cardinality(Holders(e)) = 1
        BY <4>2, <4>3, Zenon
      <4> QED
        BY <4>4
    <3> QED
      BY <3>2, <3>3
  <2>2. ASSUME NEW e \in Event, Holders(e) # {}
        PROVE  kind[e] \notin {"unborn", "destroyed"}
    <3>1. e # None
      BY Distinct
    <3> QED
      BY <2>2, <3>1 DEF Holders, IndInv, Alive, Live
  <2>3. mainEvent \notin Range(mq)
    BY DEF IndInv, Owned
  <2> QED
    BY <2>1, <2>2, <2>3 DEF IndInv, Owned, OwnedOnce
<1> QED
  BY <1>1, Invariant, PTL

\* Every event is with the Worker, or the main thread, whose global object it
\* needs.
THEOREM EventsRouted == Spec => []RoutedToParent
<1>1. IndInv => RoutedToParent
  BY DEF IndInv, Routed
<1> QED
  BY <1>1, Invariant, PTL

\* When a Worker has terminated, its script has ended, no event is left to it
\* and its children have terminated or been told to.
THEOREM TerminationReaches == Spec => []TerminationSpreads
<1>1. IndInv => TerminationSpreads
  BY DEF IndInv, Spread, ChildrenTold, TerminationSpreads
<1> QED
  BY <1>1, Invariant, PTL
-----------------------------------------------------------------------------
(***************************************************************************)
(* The collector.                                                          *)
(***************************************************************************)
\* An event that was ever created belongs to a Worker that was, although it
\* may be destroyed while current still points to it.
Known ==
  /\ \A e \in Event : kind[e] # "unborn" => parent[child[e]] # None
  /\ \A w \in Worker : current[w] # None => kind[current[w]] # "unborn"

\* What every step does to parents, and to the children of events.
Keeps ==
  /\ \A w \in Worker : parent[w] # None => parent'[w] = parent[w]
  /\ \A e \in Event :
       /\ kind[e] # "unborn" => kind'[e] # "unborn"
       /\ kind'[e] # "unborn" =>
            \/ kind[e] # "unborn" /\ child'[e] = child[e]
            \/ parent'[child'[e]] # None
  /\ \A w \in Worker :
       \/ current'[w] = current[w] \/ current'[w] = None
       \/ current'[w] \in Event /\ kind[current'[w]] # "unborn"

LEMMA KnownKept ==
  ASSUME IndInv, Known, Keeps PROVE Known'
<1>1. /\ \A e \in Event : kind[e] # "unborn" => child[e] \in Worker
      /\ \A w \in Worker : current[w] \in Event \cup {None}
  BY DEF IndInv, TypeOK, Routed
<1>2. \A e \in Event : kind'[e] # "unborn" => parent'[child'[e]] # None
  BY <1>1 DEF Known, Keeps
<1>3. ASSUME NEW w \in Worker, current'[w] # None
      PROVE  kind'[current'[w]] # "unborn"
  <2>1. current'[w] \in Event /\ kind[current'[w]] # "unborn"
    BY <1>1, <1>3 DEF Known, Keeps
  <2> QED
    BY <2>1 DEF Keeps
<1> QED
  BY <1>2, <1>3 DEF Known

\* An event is created, or forwarded, and belongs to a Worker of the tree.
LEMMA SetKeeps ==
  ASSUME IndInv, NEW e \in Event, NEW k \in Kind \ {"unborn"}, NEW c \in Worker,
         SetEvent(e, k, c), UNCHANGED current, parent'[c] # None,
         \A w \in Worker : parent[w] # None => parent'[w] = parent[w]
  PROVE  Keeps
<1>1. kind' = [kind EXCEPT ![e] = k] /\ child' = [child EXCEPT ![e] = c]
  BY DEF SetEvent
<1>2. kind \in [Event -> Kind] /\ child \in [Event -> Worker \cup {None}]
  BY DEF IndInv, TypeOK
<1>3. \A f \in Event : IF f = e THEN kind'[f] = k /\ child'[f] = c
                       ELSE kind'[f] = kind[f] /\ child'[f] = child[f]
  BY <1>1, <1>2
<1> QED
  BY <1>3 DEF Keeps

\* Events that are alive are destroyed, or none.
LEMMA DestroyKeeps ==
  ASSUME IndInv, NEW S, \A e \in Event : e \in S => kind[e] # "unborn",
         kind' = Destroyed(S), UNCHANGED <<parent, child>>,
         \A w \in Worker : current'[w] = current[w] \/ current'[w] = None
  PROVE  Keeps
<1>1. \A e \in Event : kind'[e] = IF e \in S THEN "destroyed" ELSE kind[e]
  BY DEF Destroyed
<1>2. \A e \in Event : kind'[e] # "unborn" <=> kind[e] # "unborn"
  BY <1>1
<1> QED
  BY <1>2 DEF Keeps

\* The Workers that thread t gives events: its own one's children and parent.
Reaches(t) ==
  \A v \in Worker :
    Incoming(v)' => \/ Incoming(v)
                    \/ /\ job[t] \in Worker /\ Incoming(job[t])
                       /\ parent'[v] = job[t] \/ parent'[job[t]] = v

LEMMA RunnerIncoming ==
  ASSUME IndInv, NEW t \in Thread, pc[t] \in Busy \ {"process", "drop"}
  PROVE  job[t] \in Worker /\ Incoming(job[t]) /\ parent[job[t]] # None
<1>1. Running(t) /\ job[t] \in Worker
  BY NotQuiet DEF Running, Busy, Location
<1> QED
  BY <1>1, Distinct DEF Incoming, IndInv, Scheduled, Born

LEMMA PostReaches ==
  ASSUME IndInv, NEW t \in Thread, job[t] \in Worker, Incoming(job[t]),
         NEW p, NEW e \in Event, Post(p, e), UNCHANGED <<current, parent>>,
         p = Main \/ parent[p] = job[t] \/ parent[job[t]] = p
  PROVE  Reaches(t)
<1>1. CASE p = Main
  BY <1>1, Distinct DEF Post, Reaches, Incoming
<1>2. CASE p # Main
  <2>1. p \in Worker /\ events' = [events EXCEPT ![p] = Append(@, e)]
    BY <1>2 DEF Post
  <2>2. \A v \in Worker : v # p => events'[v] = events[v]
    BY <2>1 DEF IndInv, TypeOK
  <2>3. \A v \in Worker : v # p => (Incoming(v)' <=> Incoming(v))
    BY <2>2 DEF Incoming
  <2>4. parent'[p] = job[t] \/ parent'[job[t]] = p
    BY <1>2
  <2> QED
    BY <2>3, <2>4 DEF Reaches
<1> QED
  BY <1>1, <1>2

LEMMA CallKeeps ==
  ASSUME IndInv, NEW a \in Thread \cup {Main}, Call(a)
  PROVE  Keeps
<1>1. PICK w \in Worker :
        \/ Terminate(a, w)
        \/ \E e \in Event : \/ Create(a, w, e)
                            \/ PostMessageToChild(a, w, e)
                            \/ PostMessageToChildFails(a, w, e)
  BY DEF Call
<1>2. Scripting(a)
  BY <1>1 DEF Create, PostMessageToChild, PostMessageToChildFails, Terminate
<1>3. Self(a) # None
  BY <1>2, ScriptNotQuiet
<1>4. "init" \in Kind \ {"unborn"} /\ "down" \in Kind \ {"unborn"}
  BY DEF Kind
<1>5. CASE Terminate(a, w)
  BY <1>5 DEF Terminate, Keeps
<1>6. ASSUME NEW e \in Event, Create(a, w, e) PROVE Keeps
  <2>1. /\ parent[w] = None /\ parent' = [parent EXCEPT ![w] = Self(a)]
        /\ SetEvent(e, "init", w) /\ UNCHANGED current
    BY <1>6 DEF Create, NewWorker
  <2>2. /\ parent'[w] # None
        /\ \A v \in Worker : parent[v] # None => parent'[v] = parent[v]
    BY <1>3, <2>1 DEF IndInv, TypeOK
  <2> QED
    BY <1>4, <2>1, <2>2, SetKeeps
<1>7. ASSUME NEW e \in Event,
             PostMessageToChild(a, w, e) \/ PostMessageToChildFails(a, w, e)
      PROVE  Keeps
  <2>1. SetEvent(e, "down", w) /\ UNCHANGED <<parent, current>> /\ parent[w] = Self(a)
    BY <1>7 DEF PostMessageToChild, PostMessageToChildFails, workerVars
  <2> QED
    BY <1>3, <1>4, <2>1, SetKeeps
<1> QED
  BY <1>1, <1>5, <1>6, <1>7

LEMMA CallReaches ==
  ASSUME IndInv, NEW t \in Thread, Call(t)
  PROVE  Reaches(t) /\ UNCHANGED main
<1>1. PICK w \in Worker :
        \/ Terminate(t, w)
        \/ \E e \in Event : \/ Create(t, w, e)
                            \/ PostMessageToChild(t, w, e)
                            \/ PostMessageToChildFails(t, w, e)
  BY DEF Call
<1>2. t # Main /\ Self(t) = job[t] /\ pc[t] = "run"
  BY <1>1, Distinct DEF Create, PostMessageToChild, PostMessageToChildFails, Terminate,
                        Scripting, Self
<1>3. job[t] \in Worker /\ Incoming(job[t])
  BY <1>2, RunnerIncoming DEF Busy, Location
<1>4. CASE Terminate(t, w)
  BY <1>4 DEF Terminate, Reaches, Incoming
<1>5. ASSUME NEW e \in Event, Create(t, w, e) PROVE Reaches(t) /\ UNCHANGED main
  <2>1. /\ parent' = [parent EXCEPT ![w] = job[t]]
        /\ events' = [events EXCEPT ![w] = Append(@, e)]
        /\ UNCHANGED <<current, main>>
    BY <1>2, <1>5 DEF Create
  <2>2. parent'[w] = job[t] /\ \A v \in Worker : v # w => events'[v] = events[v]
    BY <2>1 DEF IndInv, TypeOK
  <2>3. \A v \in Worker : v # w => (Incoming(v)' <=> Incoming(v))
    BY <2>1, <2>2 DEF Incoming
  <2> QED
    BY <1>3, <2>1, <2>2, <2>3 DEF Reaches
<1>6. ASSUME NEW e \in Event, PostMessageToChild(t, w, e) PROVE Reaches(t) /\ UNCHANGED main
  <2>1. Post(w, e) /\ UNCHANGED <<parent, current>> /\ parent[w] = job[t]
    BY <1>2, <1>6 DEF PostMessageToChild, workerVars
  <2>2. UNCHANGED main
    BY <2>1, Distinct DEF Post
  <2> QED
    BY <1>3, <2>1, <2>2, PostReaches
<1>7. ASSUME NEW e \in Event, PostMessageToChildFails(t, w, e)
      PROVE  Reaches(t) /\ UNCHANGED main
  BY <1>2, <1>7 DEF PostMessageToChildFails, workerVars, Reaches, Incoming
<1> QED
  BY <1>1, <1>4, <1>5, <1>6, <1>7

\* A collection goes on, or the process ends.
MainStays == main' \in {main, "aborted"} \/ main = "waiting"

LEMMA ThreadReaches ==
  ASSUME IndInv, NEW t \in Thread, ThreadStep(t)
  PROVE  Keeps /\ Reaches(t) /\ MainStays
<1> USE DEF poolVars, workerVars
<1>1. ASSUME UNCHANGED <<parent, current, kind, child>> PROVE Keeps
  BY <1>1 DEF Keeps
<1>2. ASSUME UNCHANGED <<events, current>> PROVE Reaches(t)
  BY <1>2 DEF Reaches, Incoming
<1>3. /\ \A w \in Worker : \A e \in Range(events[w]) : kind[e] # "unborn"
      /\ event[t] # None => kind[event[t]] # "unborn"
  BY DEF IndInv, Alive, Live
<1>4. CASE InertStep(t)
  <2>1. UNCHANGED <<main, parent, events, current, kind, child>>
    BY <1>4, InertMove
  <2> QED
    BY <1>1, <1>2, <2>1 DEF MainStays
<1>5. CASE TakeWorker(t) \/ DropWorker(t)
  BY <1>1, <1>2, <1>5 DEF TakeWorker, DropWorker, MainStays
<1>6. CASE WakeMain(t) \/ CreateNested(t)
  BY <1>1, <1>2, <1>6 DEF WakeMain, CreateNested, MainStays
<1>7. CASE Call(t)
  BY <1>7, CallKeeps, CallReaches DEF MainStays
<1>8. CASE StartEvent(t)
  <2> DEFINE w == job[t]
  <2>1. w \in Worker
    BY <1>8, NotQuiet DEF StartEvent, Busy, Location
  <2>2. /\ events[w] # <<>> /\ events' = [events EXCEPT ![w] = Tail(@)]
        /\ current' = [current EXCEPT ![w] = Head(events[w])]
        /\ UNCHANGED <<main, parent, kind, child>>
    BY <1>8 DEF StartEvent
  <2>3. Head(events[w]) \in Event /\ Head(events[w]) \in Range(events[w])
    BY <2>1, <2>2, HeadRange DEF IndInv, TypeOK
  <2> HIDE DEF w
  <2>4. /\ current'[w] = Head(events[w])
        /\ \A v \in Worker : v # w => events'[v] = events[v] /\ current'[v] = current[v]
    BY <2>1, <2>2 DEF IndInv, TypeOK
  <2>5. Keeps
    BY <1>3, <2>1, <2>2, <2>3, <2>4 DEF Keeps
  <2>6. \A v \in Worker : Incoming(v)' => Incoming(v)
    BY <2>1, <2>2, <2>4 DEF Incoming
  <2> QED
    BY <2>2, <2>5, <2>6 DEF Reaches, MainStays
<1>9. CASE SkipEvent(t) \/ TerminateScript(t) \/ CheckAfterFailure(t) \/ Release(t)
  <2> DEFINE w == job[t]
  <2>1. w \in Worker
    BY <1>9, NotQuiet DEF SkipEvent, TerminateScript, CheckAfterFailure, Release, Busy, Location
  <2>2. /\ CheckTermination(w) /\ kind' = Destroyed(Doomed(w))
        /\ UNCHANGED <<main, parent, child>>
        /\ current' \in {current, [current EXCEPT ![w] = None]}
    BY <1>9 DEF SkipEvent, TerminateScript, CheckAfterFailure, Release
  <2> HIDE DEF w
  <2>3. \A v \in Worker : current'[v] = current[v] \/ current'[v] = None
    BY <2>1, <2>2 DEF IndInv, TypeOK
  <2>4. \A v \in Worker : events'[v] = events[v] \/ events'[v] = <<>>
    BY <2>1, <2>2, CheckEvents
  <2>5. \A v \in Worker : Incoming(v)' => Incoming(v)
    BY <2>3, <2>4 DEF Incoming
  <2>6. \A e \in Event : e \in Doomed(w) => kind[e] # "unborn"
    BY <1>3, <2>1 DEF Doomed
  <2>7. Keeps
    BY <2>2, <2>3, <2>6, DestroyKeeps
  <2> QED
    BY <2>2, <2>5, <2>7 DEF Reaches, MainStays
<1>10. CASE DestroyEvent(t)
  <2>1. /\ kind' = Destroyed({event[t]}) /\ UNCHANGED <<main, parent, events, current, child>>
    BY <1>10 DEF DestroyEvent
  <2>2. \A e \in Event : e \in {event[t]} => kind[e] # "unborn"
    BY <1>3, Distinct
  <2>3. Keeps
    BY <2>1, <2>2, DestroyKeeps
  <2> QED
    BY <1>2, <2>1, <2>3 DEF MainStays
<1>11. ASSUME NEW e \in Event, NEW k \in {"up", "error"}, pc[t] \in Busy \ {"process", "drop"},
              SetEvent(e, k, job[t]), UNCHANGED <<current, parent>>
       PROVE  Keeps
  <2>1. job[t] \in Worker /\ parent[job[t]] # None
    BY <1>11, RunnerIncoming
  <2>2. k \in Kind \ {"unborn"}
    BY DEF Kind
  <2> QED
    BY <1>11, <2>1, <2>2, SetKeeps
<1>12. ASSUME NEW e \in Event, pc[t] \in Busy \ {"process", "drop"},
              Post(parent[job[t]], e), UNCHANGED <<current, parent>>
       PROVE  Reaches(t) /\ MainStays
  <2>1. job[t] \in Worker /\ Incoming(job[t])
    BY <1>12, RunnerIncoming
  <2>2. MainStays
    BY <1>12 DEF Post, MainStays
  <2> QED
    BY <1>12, <2>1, <2>2, PostReaches
<1>13. ASSUME NEW e \in Event, PostMessageToParent(t, e) \/ PostError(t, e)
       PROVE  Keeps /\ Reaches(t) /\ MainStays
  <2>1. PICK k \in {"up", "error"} : SetEvent(e, k, job[t])
    BY <1>13 DEF PostMessageToParent, PostError
  <2>2. /\ pc[t] \in Busy \ {"process", "drop"} /\ Post(parent[job[t]], e)
        /\ UNCHANGED <<current, parent>>
    BY <1>13 DEF PostMessageToParent, PostError, Busy, Location
  <2> QED
    BY <1>11, <1>12, <2>1, <2>2
<1>14. CASE ForwardToParent(t)
  <2>1. pc[t] \in Busy \ {"process", "drop"} /\ pc[t] \in MustOwn
    BY <1>14 DEF ForwardToParent, Busy, Location, MustOwn, MayOwn
  <2>2. event[t] \in Event
    BY <2>1, OwnedThread
  <2>3. SetEvent(event[t], "error", job[t]) /\ UNCHANGED <<current, parent>>
    BY <1>14 DEF ForwardToParent
  <2>4. Keeps
    BY <1>11, <2>1, <2>2, <2>3
  <2>5. CASE Accepts(parent[job[t]])
    BY <1>12, <1>14, <2>1, <2>2, <2>3, <2>4, <2>5 DEF ForwardToParent
  <2>6. CASE ~Accepts(parent[job[t]])
    <3>1. UNCHANGED <<main, events, current>>
      BY <1>14, <2>6 DEF ForwardToParent
    <3> QED
      BY <1>2, <2>4, <3>1 DEF MainStays
  <2> QED
    BY <2>5, <2>6
<1> QED
  BY <1>4, <1>5, <1>6, <1>7, <1>8, <1>9, <1>10, <1>13, <1>14, Zenon DEF ThreadStep, InertStep

LEMMA NextKeeps ==
  ASSUME IndInv, [Next]_vars
  PROVE  Keeps
<1> USE DEF poolVars, workerVars
<1>1. ASSUME UNCHANGED <<parent, current, kind, child>> PROVE Keeps
  BY <1>1 DEF Keeps
<1>2. CASE EndScript \/ MainTake \/ Close \/ TerminateAll \/ UNCHANGED vars
  BY <1>1, <1>2 DEF EndScript, MainTake, Close, TerminateAll, vars
<1>3. CASE EndMainEvent
  <2>1. kind' = Destroyed({mainEvent}) /\ UNCHANGED <<parent, current, child>>
    BY <1>3 DEF EndMainEvent
  <2>2. \A e \in Event : e \in {mainEvent} => kind[e] # "unborn"
    BY Distinct DEF IndInv, Alive, Live
  <2> QED
    BY <2>1, <2>2, DestroyKeeps
<1>4. CASE Dispose
  <2> DEFINE S == Range(mq) \cup UNION {Range(events[w]) : w \in Worker}
  <2>1. kind' = Destroyed(S) /\ UNCHANGED <<parent, current, child>>
    BY <1>4 DEF Dispose
  <2>2. \A e \in Event : e \in S => kind[e] # "unborn"
    BY DEF IndInv, Alive, Live
  <2> HIDE DEF S
  <2> QED
    BY <2>1, <2>2, DestroyKeeps
<1>5. ASSUME NEW t \in Thread, ThreadStep(t) PROVE Keeps
  BY <1>5, ThreadReaches
<1>6. CASE Call(Main)
  BY <1>6, CallKeeps
<1> QED
  BY <1>2, <1>3, <1>4, <1>5, <1>6, Zenon DEF Next, MainStep, Ended

\* A set of Workers with the Workers they created and with those that created
\* them, down to the main thread.
Family(S) == \A v \in Worker : parent[v] \in Worker => (v \in S <=> parent[v] \in S)

\* Once the WorkerQueue is traced, a family that has not been reached has no
\* event and can get none: only one of its own could send it.
Quiescent ==
  gc = "wq" =>
    \A S \in SUBSET Worker :
      Family(S) /\ S \cap marked = {} => \A v \in S : ~Incoming(v)

CollectorInv ==
  /\ CollectorTypeOK
  /\ ~Collecting => marked = {} /\ scanned = {}
  /\ \A w \in scanned : parent[w] \in marked \cup {Main}
  /\ Quiescent
  /\ Known

LEMMA CollectorInitInv ==
  ASSUME CollectorInit PROVE IndInv /\ CollectorInv
<1>1. IndInv
  BY InitInv DEF CollectorInit
<1>2. gc = "none" /\ marked = {} /\ scanned = {}
  BY DEF CollectorInit
<1>3. Known
  BY DEF CollectorInit, Init, Known
<1> QED
  BY <1>1, <1>2, <1>3 DEF CollectorInv, CollectorTypeOK, Collection, Collecting, Quiescent

\* Whatever Worker the tracing of the ThreadPool reaches has been created.
LEMMA RootsBorn ==
  ASSUME IndInv, Known
  PROVE  MainQueueRoots \cup WorkerQueueRoots \subseteq {w \in Worker : parent[w] # None}
<1>1. \A e \in Event : kind[e] # "unborn" => child[e] \in Worker /\ parent[child[e]] # None
  BY DEF IndInv, Routed, Known
<1>2. Range(mq) \subseteq Event /\ Range(wq) \subseteq Worker /\ mainEvent \in Event \cup {None}
  BY SeqRange DEF IndInv, TypeOK
<1>3. \A e \in Range(mq) \cup ({mainEvent} \ {None}) : e \in Event /\ kind[e] # "unborn"
  BY <1>2 DEF IndInv, Alive, Live
<1>4. \A w \in Range(wq) : w \in Worker /\ parent[w] # None
  BY <1>2 DEF IndInv, Scheduled, Born
<1>5. \A t \in Thread : job[t] # None => job[t] \in Worker /\ parent[job[t]] # None
  BY DEF IndInv, TypeOK, Born
<1> QED
  BY <1>1, <1>3, <1>4, <1>5 DEF MainQueueRoots, WorkerQueueRoots

LEMMA ReferentsBorn ==
  ASSUME IndInv, Known, NEW w \in Worker
  PROVE  Referents(w) \subseteq {v \in Worker : parent[v] # None}
<1>1. \A e \in Event : kind[e] # "unborn" => child[e] \in Worker /\ parent[child[e]] # None
  BY DEF IndInv, Routed, Known
<1>2. Range(events[w]) \subseteq Event /\ current[w] \in Event \cup {None}
  BY SeqRange DEF IndInv, TypeOK
<1>3. \A e \in Traced(w) : e \in Event /\ kind[e] # "unborn"
  BY <1>2 DEF Traced, IndInv, Alive, Live, Known
<1>4. parent[w] \in Worker \cup {Main, None} /\ (parent[w] \in Worker => parent[parent[w]] # None)
  BY DEF IndInv, TypeOK, Born
<1> QED
  BY <1>1, <1>3, <1>4 DEF Referents

LEMMA CollectInv ==
  ASSUME IndInv, CollectorInv, Collect
  PROVE  CollectorInv' /\ UNCHANGED vars
<1>1. UNCHANGED vars
  BY DEF Collect, TraceMainQueue, TraceWorkerQueue, TraceWorker, EndCollection
<1>2. UNCHANGED <<main, parent, current, events, kind, child>>
  BY <1>1, Zenon DEF vars, workerVars
<1>3. Known'
  BY <1>2 DEF CollectorInv, Known
<1>4. CASE TraceMainQueue
  <2>1. /\ gc = "none" /\ main \in {"script", "event"} /\ gc' = "mq"
        /\ marked' = MainQueueRoots /\ scanned' = scanned
    BY <1>4 DEF TraceMainQueue
  <2>2. scanned = {}
    BY <2>1 DEF CollectorInv, Collecting
  <2>3. marked' \subseteq {w \in Worker : parent[w] # None}
    BY <2>1, RootsBorn DEF CollectorInv
  <2> QED
    BY <1>1, <1>2, <1>3, <2>1, <2>2, <2>3
       DEF CollectorInv, CollectorTypeOK, Collection, Collecting, Quiescent
<1>5. CASE TraceWorkerQueue
  <2>1. /\ gc = "mq" /\ gc' = "wq" /\ marked' = marked \cup WorkerQueueRoots
        /\ scanned' = scanned
    BY <1>5 DEF TraceWorkerQueue
  <2>2. marked' \subseteq {w \in Worker : parent[w] # None}
    BY <2>1, RootsBorn DEF CollectorInv, CollectorTypeOK
  <2>3. \A v \in Worker : Incoming(v) => v \in WorkerQueueRoots
    <3> SUFFICES ASSUME NEW v \in Worker, Incoming(v) PROVE v \in WorkerQueueRoots
      OBVIOUS
    <3>1. v \in Range(wq) \/ \E t \in Thread : job[t] = v
      BY DEF Incoming, IndInv, Scheduled
    <3> QED
      BY <3>1, Distinct DEF WorkerQueueRoots
  <2>4. Quiescent'
    BY <1>2, <2>1, <2>3 DEF Quiescent, Incoming
  <2> QED
    BY <1>1, <1>2, <1>3, <2>1, <2>2, <2>4
       DEF CollectorInv, CollectorTypeOK, Collection, Collecting
<1>6. ASSUME NEW w \in Worker, TraceWorker(w) PROVE CollectorInv'
  <2>1. /\ w \in marked /\ marked' = marked \cup Referents(w)
        /\ scanned' = scanned \cup {w} /\ gc' = gc /\ Collecting
    BY <1>6 DEF TraceWorker
  <2>2. marked' \subseteq {v \in Worker : parent[v] # None}
    BY <2>1, ReferentsBorn DEF CollectorInv, CollectorTypeOK
  <2>3. parent[w] \in Referents(w) \cup {Main}
    BY <2>1 DEF CollectorInv, CollectorTypeOK, Referents
  <2>4. Quiescent'
    BY <1>2, <2>1 DEF CollectorInv, Quiescent, Family, Incoming
  <2> QED
    BY <1>2, <1>3, <2>1, <2>2, <2>3, <2>4 DEF CollectorInv, CollectorTypeOK, Collecting
<1>7. CASE EndCollection
  BY <1>1, <1>2, <1>3, <1>7
     DEF EndCollection, CollectorInv, CollectorTypeOK, Collection, Collecting, Quiescent
<1> QED
  BY <1>1, <1>4, <1>5, <1>6, <1>7 DEF Collect

\* The pool goes on during a collection.
LEMMA OthersInv ==
  ASSUME IndInv, CollectorInv, OtherThreads, UNCHANGED gcVars
  PROVE  CollectorInv'
<1>1. [Next]_vars
  BY Zenon DEF OtherThreads, Next
<1>2. Keeps /\ Known'
  BY <1>1, NextKeeps, KnownKept DEF CollectorInv
<1>3. UNCHANGED <<gc, marked, scanned>>
  BY DEF gcVars
<1>4. marked' \subseteq {w \in Worker : parent'[w] # None}
  BY <1>2, <1>3 DEF CollectorInv, CollectorTypeOK, Keeps
<1>5. \A w \in scanned : parent'[w] = parent[w]
  BY <1>2 DEF CollectorInv, CollectorTypeOK, Keeps
<1>6. MainStays
  <2>1. ASSUME NEW t \in Thread, ThreadStep(t) PROVE MainStays
    BY <2>1, ThreadReaches
  <2>2. CASE TerminateAll \/ Ended
    BY <2>2 DEF TerminateAll, Ended, vars, MainStays
  <2> QED
    BY <2>1, <2>2 DEF OtherThreads
<1>7. Collecting' => main' \in {"script", "event", "aborted"}
  BY <1>3, <1>6 DEF CollectorInv, CollectorTypeOK, MainStays, Collecting
<1>8. Quiescent'
  <2> SUFFICES ASSUME gc = "wq", NEW S \in SUBSET Worker, Family(S)', S \cap marked = {},
                      NEW v \in S, Incoming(v)'
               PROVE  FALSE
    BY <1>3 DEF Quiescent
  <2>1. Family(S)
    BY <1>2, Distinct DEF Family, Keeps
  <2>2. \A u \in S : ~Incoming(u)
    BY <2>1 DEF CollectorInv, Quiescent
  <2>3. ASSUME NEW t \in Thread, ThreadStep(t) PROVE FALSE
    <3>1. Reaches(t)
      BY <2>3, ThreadReaches
    <3>2. /\ job[t] \in Worker /\ Incoming(job[t])
          /\ parent'[v] = job[t] \/ parent'[job[t]] = v
      BY <2>2, <3>1 DEF Reaches
    <3>3. job[t] \in S
      BY <3>2 DEF Family
    <3> QED
      BY <2>2, <3>2, <3>3
  <2>4. CASE TerminateAll \/ Ended
    <3>1. UNCHANGED <<events, current>>
      BY <2>4 DEF TerminateAll, Ended, vars, workerVars
    <3> QED
      BY <2>2, <3>1 DEF Incoming
  <2> QED
    BY <2>3, <2>4 DEF OtherThreads
<1> QED
  BY <1>2, <1>3, <1>4, <1>5, <1>7, <1>8 DEF CollectorInv, CollectorTypeOK, Collecting

LEMMA CollectorNextInv ==
  ASSUME IndInv, CollectorInv, [CollectorNext]_allVars
  PROVE  IndInv' /\ CollectorInv' /\ [Next]_vars
<1>1. CASE Collect
  <2>1. CollectorInv' /\ UNCHANGED vars
    BY <1>1, CollectInv
  <2> QED
    BY <2>1, NextInv
<1>2. CASE OtherThreads /\ UNCHANGED gcVars
  <2>1. [Next]_vars
    BY <1>2, Zenon DEF OtherThreads, Next
  <2> QED
    BY <1>2, <2>1, NextInv, OthersInv
<1>3. CASE ~Collecting /\ (MainStep \/ UNCHANGED vars) /\ UNCHANGED gcVars
  <2>1. [Next]_vars
    BY <1>3, Zenon DEF Next
  <2>2. Known'
    BY <2>1, NextKeeps, KnownKept DEF CollectorInv
  <2>3. gc = "none" /\ gc' = "none" /\ marked' = {} /\ scanned' = {}
    BY <1>3 DEF CollectorInv, Collecting, gcVars
  <2> QED
    BY <2>1, <2>2, <2>3, NextInv
       DEF CollectorInv, CollectorTypeOK, Collection, Collecting, Quiescent
<1>4. CASE UNCHANGED allVars
  <2>1. UNCHANGED vars /\ UNCHANGED <<gc, marked, scanned>>
    BY <1>4 DEF allVars, gcVars
  <2>2. UNCHANGED <<main, parent, current, events, kind, child>>
    BY <2>1, Zenon DEF vars, workerVars
  <2>3. CollectorInv'
    BY <2>1, <2>2 DEF CollectorInv, CollectorTypeOK, Collecting, Quiescent, Family, Incoming, Known
  <2> QED
    BY <2>1, <2>3, NextInv
<1> QED
  BY <1>1, <1>2, <1>3, <1>4 DEF CollectorNext

\* A collection at any time, and in the middle of anything, leaves the
\* behaviour of the pool as it is.
THEOREM CollectionsInvisible == CollectorSpec => Spec
<1>1. CollectorInit => Init
  BY DEF CollectorInit
<1> QED
  BY <1>1, CollectorInitInv, CollectorNextInv, PTL DEF CollectorSpec, Spec

THEOREM CollectorInvariant == CollectorSpec => [](IndInv /\ CollectorInv)
BY CollectorInitInv, CollectorNextInv, PTL DEF CollectorSpec

\* When the marking has ended, the Workers that are not marked are closed
\* under descent: the family of one of the main thread's has no events.
LEMMA MarkingFinds ==
  ASSUME IndInv, CollectorInv, MarkingEnds, NEW w \in Worker, parent[w] = Main, Incoming(w)
  PROVE  w \in marked
<1> DEFINE Closed(T) == \A v \in Worker : parent[v] \in T => v \in T
           S == {u \in Worker : \A T \in SUBSET Worker : w \in T /\ Closed(T) => u \in T}
<1> SUFFICES ASSUME w \notin marked PROVE FALSE
  OBVIOUS
<1>1. /\ gc = "wq" /\ marked \subseteq Worker
      /\ \A v \in marked : parent[v] \in marked \cup {Main}
  BY DEF MarkingEnds, CollectorInv, CollectorTypeOK
<1>2. w \in S
  OBVIOUS
<1>3. S \cap marked = {}
  <2>1. Closed(Worker \ marked)
    BY <1>1, Distinct
  <2> QED
    BY <2>1
<1>4. ASSUME NEW v \in Worker, parent[v] \in S PROVE v \in S
  BY <1>4
<1>5. ASSUME NEW v \in Worker, v \in S, parent[v] \in Worker PROVE parent[v] \in S
  <2> SUFFICES ASSUME parent[v] \notin S PROVE FALSE
    OBVIOUS
  <2>1. v # w
    BY <1>5, Distinct
  <2>2. Closed(S \ {v})
    BY <1>4
  <2>3. w \in S \ {v} /\ S \ {v} \in SUBSET Worker
    BY <1>2, <2>1
  <2> QED
    BY <1>5, <2>2, <2>3
<1> HIDE DEF S
<1>6. S \subseteq Worker
  BY DEF S
<1>7. Family(S)
  BY <1>4, <1>5 DEF Family
<1> QED
  BY <1>1, <1>2, <1>3, <1>6, <1>7 DEF CollectorInv, Quiescent

\* No collection finalizes a Worker of the main thread that has incoming
\* events, wherever the events and the Worker are in its course.
THEOREM IncomingSurvives == CollectorSpec => []IncomingMarked
<1>1. IndInv /\ CollectorInv => IncomingMarked
  BY MarkingFinds DEF IncomingMarked
<1> QED
  BY <1>1, CollectorInvariant, PTL
-----------------------------------------------------------------------------
(***************************************************************************)
(* The workers implement the mailboxes.                                    *)
(***************************************************************************)
Actor == Worker \cup {Main}
Open  == main \notin {"joining", "done", "aborted"}

\* The mailboxes and the phase, point by point.
Mailbox(a) == IF a = Main THEN mq ELSE events[a]
Hand(a)    == IF a = Main THEN mainEvent ELSE current[a]
Phase      == IF main \in {"joining", "done"} THEN "finished"
              ELSE IF main = "aborted" THEN "aborted" ELSE "open"
Dead       == {w \in Worker : terminated[w]}

\* Steps that scripts do not see.
LEMMA Stutters ==
  ASSUME \A a \in Actor : Mailbox(a)' = Mailbox(a) /\ Hand(a)' = Hand(a),
         Dead' = Dead, Phase' = Phase
  PROVE  UNCHANGED M!vars
<1>1. /\ [a \in Worker \cup {Main} |-> IF a = Main THEN mq' ELSE events'[a]]
           = [a \in Worker \cup {Main} |-> IF a = Main THEN mq ELSE events[a]]
      /\ [a \in Worker \cup {Main} |-> IF a = Main THEN mainEvent' ELSE current'[a]]
           = [a \in Worker \cup {Main} |-> IF a = Main THEN mainEvent ELSE current[a]]
  BY DEF Mailbox, Hand, Actor
<1>2. (CASE main' \in {"joining", "done"} -> "finished"
         [] main' = "aborted" -> "aborted"
         [] OTHER -> "open")
      = (CASE main \in {"joining", "done"} -> "finished"
         [] main = "aborted" -> "aborted"
         [] OTHER -> "open")
  BY DEF Phase
<1> QED
  BY <1>1, <1>2 DEF M!vars, Dead

LEMMA Sends ==
  ASSUME NEW a \in Actor, NEW e \in Event, Phase = "open", Phase' = "open",
         a \notin Dead, Dead' = Dead,
         Mailbox(a)' = Append(Mailbox(a), e),
         \A b \in Actor : b # a => Mailbox(b)' = Mailbox(b),
         \A b \in Actor : Hand(b)' = Hand(b) /\ \A i \in DOMAIN Mailbox(b) : Mailbox(b)[i] # e
  PROVE  M!Send(a, e)
BY DEF M!Send, Mailbox, Hand, Actor, Phase, Dead

LEMMA HandlesNext ==
  ASSUME NEW a \in Actor, Phase = "open", Phase' = "open",
         a \notin Dead, Dead' = Dead,
         Hand(a) = None, Mailbox(a) # <<>>,
         Hand(a)' = Head(Mailbox(a)), Mailbox(a)' = Tail(Mailbox(a)),
         \A b \in Actor : b # a => Mailbox(b)' = Mailbox(b) /\ Hand(b)' = Hand(b)
  PROVE  M!Handle(a)
BY DEF M!Handle, Mailbox, Hand, Actor, Phase, Dead

LEMMA Dies ==
  ASSUME NEW a \in Worker, Phase = "open", Phase' = "open", Dead' = Dead \cup {a},
         Mailbox(a)' = <<>>,
         \A b \in Actor : (b # a => Mailbox(b)' = Mailbox(b)) /\ Hand(b)' = Hand(b)
  PROVE  M!Die(a)
BY Distinct DEF M!Die, M!Perish, Mailbox, Hand, Actor, Phase, Dead

LEMMA IsDone ==
  ASSUME NEW a \in Actor, Phase = "open", Phase' = "open",
         Hand(a) # None, Hand(a)' = None,
         \A b \in Actor : b # a => Mailbox(b)' = Mailbox(b) /\ Hand(b)' = Hand(b),
         \/ Dead' = Dead /\ Mailbox(a)' = Mailbox(a)
         \/ a # Main /\ Dead' = Dead \cup {a} /\ Mailbox(a)' = <<>>
  PROVE  M!Done(a)
<1>1. CASE Dead' = Dead /\ Mailbox(a)' = Mailbox(a)
  BY <1>1 DEF M!Done, Mailbox, Hand, Actor, Phase, Dead
<1>2. CASE a # Main /\ Dead' = Dead \cup {a} /\ Mailbox(a)' = <<>>
  BY <1>2 DEF M!Done, M!Perish, Mailbox, Hand, Actor, Phase, Dead
<1> QED
  BY <1>1, <1>2

LEMMA Finishes ==
  ASSUME Phase = "open", Phase' = "finished", Dead' = Dead,
         \A a \in Actor : /\ Mailbox(a) = <<>> /\ Hand(a) = None
                          /\ Mailbox(a)' = <<>> /\ Hand(a)' = None
  PROVE  M!Finish
BY DEF M!Finish, Mailbox, Hand, Actor, Phase, Dead

LEMMA Aborts ==
  ASSUME Phase = "open", Phase' = "aborted", Dead' = Dead,
         \A a \in Actor : Mailbox(a)' = Mailbox(a) /\ Hand(a)' = Hand(a)
  PROVE  M!Abort
BY DEF M!Abort, Mailbox, Hand, Actor, Phase, Dead

\* The events in a mailbox, and how a step of the pool shows in them.
LEMMA MailboxTypes ==
  ASSUME TypeOK, NEW a \in Actor
  PROVE  /\ Mailbox(a) \in Seq(Event)
         /\ a # Main => a \in Worker /\ Mailbox(a) = events[a] /\ Hand(a) = current[a]
         /\ a = Main => Mailbox(a) = mq /\ Hand(a) = mainEvent
BY DEF TypeOK, Mailbox, Hand, Actor

LEMMA PhaseOpen ==
  /\ Phase = "open" <=> Open
  /\ Phase' = "open" <=> Open'
BY DEF Phase, Open

LEMMA StutterStep ==
  ASSUME UNCHANGED <<mq, events, mainEvent, current, terminated>>, Phase' = Phase
  PROVE  UNCHANGED M!vars
<1>1. \A a \in Actor : Mailbox(a)' = Mailbox(a) /\ Hand(a)' = Hand(a)
  BY DEF Mailbox, Hand
<1>2. Dead' = Dead
  BY DEF Dead
<1> QED
  BY <1>1, <1>2, Stutters

LEMMA PostSends ==
  ASSUME IndInv, NEW p \in Actor, NEW e \in Event, Nowhere(e),
         \/ p = Main /\ mq' = Append(mq, e) /\ UNCHANGED events
         \/ p \in Worker /\ events' = [events EXCEPT ![p] = Append(@, e)] /\ UNCHANGED mq,
         p \in Worker => ~terminated[p],
         UNCHANGED <<mainEvent, current, terminated>>, Phase = "open", Phase' = "open"
  PROVE  M!Send(p, e)
<1>1. mq \in Seq(Event) /\ events \in [Worker -> Seq(Event)]
  BY DEF IndInv, TypeOK
<1>2. /\ Mailbox(p)' = Append(Mailbox(p), e)
      /\ \A b \in Actor : b # p => Mailbox(b)' = Mailbox(b)
  BY <1>1, Distinct DEF Mailbox, Actor
<1>3. ASSUME NEW b \in Actor, NEW i \in DOMAIN Mailbox(b) PROVE Mailbox(b)[i] # e
  <2>1. e \notin Range(Mailbox(b))
    BY DEF Nowhere, Mailbox, Actor
  <2> QED
    BY <2>1 DEF Range
<1>4. \A b \in Actor : Hand(b)' = Hand(b)
  BY DEF Hand
<1>5. p \notin Dead /\ Dead' = Dead
  BY DEF Dead
<1> QED
  BY <1>2, <1>3, <1>4, <1>5, Sends

\* Worker::post and MainQueue::post.
LEMMA PosterSends ==
  ASSUME IndInv, NEW p, NEW e \in Event, Nowhere(e), Post(p, e), Accepts(p),
         UNCHANGED <<mainEvent, current, terminated>>, Phase = "open"
  PROVE  M!Send(p, e)
<1>1. p \in Actor
  BY DEF Post, Actor
<1>2. main' = main \/ main' = "take"
  BY DEF Post
<1>3. Phase' = "open"
  BY <1>2 DEF Phase
<1>4. \/ p = Main /\ mq' = Append(mq, e) /\ UNCHANGED events
      \/ p \in Worker /\ events' = [events EXCEPT ![p] = Append(@, e)] /\ UNCHANGED mq
  BY DEF Post
<1>5. p \in Worker => ~terminated[p]
  BY DEF Accepts
<1> QED
  BY <1>1, <1>3, <1>4, <1>5, PostSends

LEMMA NewNowhere ==
  ASSUME IndInv, NEW e \in Event, NewEvent(e)
  PROVE  Nowhere(e)
<1>1. kind[e] = "unborn" /\ e # None
  BY Distinct DEF NewEvent
<1> QED
  BY <1>1 DEF IndInv, Alive, Live, Nowhere

LEMMA ThreadOpen ==
  ASSUME IndInv, NEW t \in Thread, pc[t] \in Busy, main # "aborted"
  PROVE  Phase = "open"
BY NotQuiet DEF Phase

LEMMA StartHandles ==
  ASSUME IndInv, NEW t \in Thread, NEW w \in Worker, job[t] = w, StartEvent(t),
         main # "aborted"
  PROVE  M!Handle(w)
<1>1. w \in Worker /\ pc[t] = "process" /\ Phase = "open"
  BY NotQuiet, ThreadOpen DEF StartEvent, Busy, Location
<1>2. /\ current \in [Worker -> Event \cup {None}] /\ events \in [Worker -> Seq(Event)]
      /\ terminated \in [Worker -> BOOLEAN] /\ current[w] = None
  BY <1>1 DEF IndInv, TypeOK, Scheduled
<1>3. /\ UNCHANGED <<main, mainEvent, mq, terminated>>
      /\ ~terminated[w] /\ events[w] # <<>>
      /\ current' = [current EXCEPT ![w] = Head(events[w])]
      /\ events' = [events EXCEPT ![w] = Tail(events[w])]
  BY DEF StartEvent, IsOver
<1>4. /\ Hand(w) = None /\ Mailbox(w) # <<>>
      /\ Hand(w)' = Head(Mailbox(w)) /\ Mailbox(w)' = Tail(Mailbox(w))
      /\ \A b \in Actor : b # w => Mailbox(b)' = Mailbox(b) /\ Hand(b)' = Hand(b)
  BY <1>1, <1>2, <1>3, Distinct DEF Mailbox, Hand, Actor
<1>5. w \notin Dead /\ Dead' = Dead /\ Phase' = "open" /\ w \in Actor
  BY <1>1, <1>3 DEF Dead, Phase, Actor
<1> QED
  BY <1>1, <1>4, <1>5, HandlesNext

\* What the check of a Worker's flag does to its mailbox.
LEMMA CheckMailbox ==
  ASSUME IndInv, NEW w \in Worker, CheckTermination(w), UNCHANGED mq
  PROVE  /\ \A b \in Actor : b # w => Mailbox(b)' = Mailbox(b)
         /\ \/ Dead' = Dead /\ Mailbox(w)' = Mailbox(w)
            \/ Dead' = Dead \cup {w} /\ Mailbox(w)' = <<>>
<1>1. /\ events \in [Worker -> Seq(Event)] /\ terminated \in [Worker -> BOOLEAN]
  BY DEF IndInv, TypeOK
<1>2. CASE MustTerminate(w)
  <2>1. terminated' = [terminated EXCEPT ![w] = TRUE] /\ events' = [events EXCEPT ![w] = <<>>]
    BY <1>2, Zenon DEF CheckTermination
  <2>2. \A v \in Worker : terminated'[v] <=> (v = w \/ terminated[v])
    BY <1>1, <2>1, Zenon
  <2>3. Dead' = Dead \cup {w}
    BY <2>2 DEF Dead
  <2>4. Mailbox(w)' = <<>> /\ \A b \in Actor : b # w => Mailbox(b)' = Mailbox(b)
    BY <1>1, <2>1, Distinct DEF Mailbox, Actor
  <2> QED
    BY <2>3, <2>4
<1>3. CASE ~MustTerminate(w)
  <2>1. UNCHANGED <<terminated, events>>
    BY <1>3 DEF CheckTermination
  <2> QED
    BY <2>1 DEF Dead, Mailbox
<1> QED
  BY <1>2, <1>3

LEMMA CheckDies ==
  ASSUME IndInv, NEW t \in Thread, NEW w \in Worker, job[t] = w, main # "aborted",
         SkipEvent(t) \/ TerminateScript(t) \/ CheckAfterFailure(t)
  PROVE  M!Die(w) \/ UNCHANGED M!vars
<1>1. w \in Worker /\ Phase = "open" /\ w # Main
  BY NotQuiet, ThreadOpen, Distinct DEF SkipEvent, TerminateScript, CheckAfterFailure, Busy, Location
<1>2. UNCHANGED <<main, mainEvent, mq, current>> /\ CheckTermination(w)
  BY Zenon DEF SkipEvent, TerminateScript, CheckAfterFailure
<1>3. /\ \A b \in Actor : b # w => Mailbox(b)' = Mailbox(b)
      /\ \/ Dead' = Dead /\ Mailbox(w)' = Mailbox(w)
         \/ Dead' = Dead \cup {w} /\ Mailbox(w)' = <<>>
  BY <1>1, <1>2, CheckMailbox
<1>4. Phase' = Phase /\ \A b \in Actor : Hand(b)' = Hand(b)
  BY <1>2 DEF Phase, Hand
<1>5. CASE Dead' = Dead /\ Mailbox(w)' = Mailbox(w)
  <2>1. \A b \in Actor : Mailbox(b)' = Mailbox(b)
    BY <1>3, <1>5
  <2> QED
    BY <1>4, <1>5, <2>1, Stutters
<1>6. CASE Dead' = Dead \cup {w} /\ Mailbox(w)' = <<>>
  BY <1>1, <1>3, <1>4, <1>6, Dies
<1> QED
  BY <1>3, <1>5, <1>6

LEMMA ReleaseDone ==
  ASSUME IndInv, NEW t \in Thread, NEW w \in Worker, job[t] = w, main # "aborted", Release(t)
  PROVE  M!Done(w)
<1>1. w \in Worker /\ Phase = "open" /\ w # Main /\ current[w] # None
  <2>1. Running(t)
    BY DEF Release, Running
  <2> QED
    BY <2>1, NotQuiet, ThreadOpen, Distinct DEF Release, Busy, Location, IndInv, Scheduled
<1>2. /\ UNCHANGED <<main, mainEvent, mq>> /\ CheckTermination(w)
      /\ current' = [current EXCEPT ![w] = None]
  BY Zenon DEF Release
<1>3. w \in Actor /\ current \in [Worker -> Event \cup {None}]
  BY <1>1 DEF Actor, IndInv, TypeOK
<1>5. /\ \A b \in Actor : b # w => Mailbox(b)' = Mailbox(b)
      /\ \/ Dead' = Dead /\ Mailbox(w)' = Mailbox(w)
         \/ Dead' = Dead \cup {w} /\ Mailbox(w)' = <<>>
  BY <1>1, <1>2, CheckMailbox
<1>6. Phase' = "open"
  BY <1>1, <1>2 DEF Phase
<1>7. /\ Hand(w) # None /\ Hand(w)' = None
      /\ \A b \in Actor : b # w => Hand(b)' = Hand(b)
  BY <1>1, <1>2, <1>3, Distinct DEF Hand, Actor
<1> QED
  BY <1>1, <1>3, <1>5, <1>6, <1>7, IsDone

LEMMA NextMailboxes ==
  ASSUME IndInv, [Next]_vars
  PROVE  [M!Next]_(M!vars)
<1> USE DEF poolVars, workerVars
<1>1. \A a \in Actor : \A e \in Event : M!Send(a, e) => M!Next
  BY Zenon DEF M!Next, Actor
<1>2. \A a \in Actor : M!Handle(a) \/ M!Done(a) \/ M!Die(a) => M!Next
  BY Zenon DEF M!Next, Actor
<1>3. M!Finish \/ M!Abort => M!Next
  BY Zenon DEF M!Next
<1>4. Worker \subseteq Actor /\ Main \in Actor
  BY DEF Actor
<1>10. ASSUME NEW t \in Thread, InertStep(t)
       PROVE  UNCHANGED M!vars
  <2>1. UNCHANGED <<main, mainEvent, mq, events, current, terminated>>
    BY <1>10, InertMove
  <2>2. Phase' = Phase
    BY <2>1 DEF Phase
  <2> QED
    BY <2>1, <2>2, StutterStep
<1>11. ASSUME NEW a \in Thread \cup {Main}, Call(a), a # Main => main # "aborted"
       PROVE  M!Next \/ UNCHANGED M!vars
  <2>1. Scripting(a)
    BY <1>11 DEF Call, Terminate, Create, PostMessageToChild, PostMessageToChildFails
  <2>2. Phase = "open"
    <3>1. main # "aborted"
      BY <1>11, <2>1 DEF Scripting
    <3> QED
      BY <2>1, <3>1, ScriptNotQuiet DEF Phase
  <2>3. ASSUME NEW w \in Worker, Terminate(a, w)
        PROVE  UNCHANGED M!vars
    <3>1. UNCHANGED <<main, mq, events, mainEvent, current, terminated>>
      BY <2>3, Zenon DEF Terminate
    <3>2. Phase' = Phase
      BY <3>1 DEF Phase
    <3> QED
      BY <3>1, <3>2, StutterStep
  <2>4. ASSUME NEW w \in Worker, NEW e \in Event, Create(a, w, e)
        PROVE  M!Send(w, e)
    <3>1. /\ events' = [events EXCEPT ![w] = Append(@, e)]
          /\ UNCHANGED <<main, mq, mainEvent, current, terminated>>
          /\ NewEvent(e) /\ parent[w] = None
      BY <2>4 DEF Create, NewWorker
    <3>2. ~terminated[w] /\ Nowhere(e)
      BY <3>1, NewWorkerFree, NewNowhere
    <3>3. Phase' = "open"
      BY <2>2, <3>1 DEF Phase
    <3> QED
      BY <1>4, <2>2, <3>1, <3>2, <3>3, PostSends
  <2>5. ASSUME NEW w \in Worker, NEW e \in Event, PostMessageToChild(a, w, e)
        PROVE  M!Send(w, e)
    <3>1. /\ UNCHANGED <<mainEvent, current, terminated>>
          /\ NewEvent(e) /\ Post(w, e) /\ Accepts(w)
      BY <2>5 DEF PostMessageToChild
    <3> QED
      BY <2>2, <3>1, NewNowhere, PosterSends
  <2>6. ASSUME NEW w \in Worker, NEW e \in Event, PostMessageToChildFails(a, w, e)
        PROVE  M!Abort \/ UNCHANGED M!vars
    <3>1. /\ UNCHANGED <<mq, events, mainEvent, current, terminated>>
          /\ main' = main \/ (main' \in {"aborted", "finish"})
      BY <2>6 DEF PostMessageToChildFails
    <3>2. CASE main' = "aborted"
      <4>1. Phase' = "aborted"
        BY <3>2 DEF Phase
      <4>2. /\ \A b \in Actor : Mailbox(b)' = Mailbox(b) /\ Hand(b)' = Hand(b)
            /\ Dead' = Dead
        BY <3>1 DEF Mailbox, Hand, Dead
      <4> QED
        BY <2>2, <4>1, <4>2, Aborts
    <3>3. CASE main' # "aborted"
      <4>1. Phase' = Phase
        BY <2>2, <3>1, <3>3 DEF Phase
      <4> QED
        BY <3>1, <4>1, StutterStep
    <3> QED
      BY <3>2, <3>3
  <2> QED
    BY <1>1, <1>3, <1>4, <1>11, <2>3, <2>4, <2>5, <2>6, Zenon DEF Call
<1>12. ASSUME main' = "aborted", Phase = "open",
              UNCHANGED <<mq, events, mainEvent, current, terminated>>
       PROVE  M!Abort
  <2>1. Phase' = "aborted"
    BY <1>12 DEF Phase
  <2>2. /\ \A b \in Actor : Mailbox(b)' = Mailbox(b) /\ Hand(b)' = Hand(b)
        /\ Dead' = Dead
    BY <1>12 DEF Mailbox, Hand, Dead
  <2> QED
    BY <1>12, <2>1, <2>2, Aborts
<1>13. ASSUME NEW t \in Thread, main # "aborted", CreateNested(t)
       PROVE  M!Abort
  <2>1. UNCHANGED <<mq, events, mainEvent, current, terminated>> /\ main' = "aborted"
    BY <1>13 DEF CreateNested
  <2>2. pc[t] \in Busy
    BY <1>13 DEF CreateNested, Busy, Location
  <2> QED
    BY <1>12, <1>13, <2>1, <2>2, ThreadOpen
<1>14. ASSUME NEW t \in Thread, TakeWorker(t) \/ DropWorker(t) \/ WakeMain(t) \/ DestroyEvent(t)
       PROVE  UNCHANGED M!vars
  <2>1. UNCHANGED <<mq, events, mainEvent, current, terminated>>
        /\ (main' = main \/ (main = "waiting" /\ main' = "take"))
    BY <1>14 DEF TakeWorker, DropWorker, WakeMain, DestroyEvent
  <2>2. Phase' = Phase
    BY <2>1 DEF Phase
  <2> QED
    BY <2>1, <2>2, StutterStep
<1>15. ASSUME NEW t \in Thread, main # "aborted",
              NEW e \in Event, PostMessageToParent(t, e) \/ PostError(t, e)
       PROVE  M!Next
  <2>1. /\ UNCHANGED <<mainEvent, current, terminated>>
        /\ NewEvent(e) /\ Post(parent[job[t]], e) /\ Accepts(parent[job[t]])
    BY <1>15 DEF PostMessageToParent, PostError
  <2>2. Phase = "open"
    BY <1>15, ThreadOpen DEF PostMessageToParent, PostError, Busy, Location
  <2>3. PICK p \in Actor : p = parent[job[t]]
    BY <2>1 DEF Post, Actor
  <2>4. M!Send(p, e)
    BY <2>1, <2>2, <2>3, NewNowhere, PosterSends
  <2> QED
    BY <1>1, <2>4
<1>16. ASSUME NEW t \in Thread, main # "aborted", ForwardToParent(t)
       PROVE  M!Next \/ UNCHANGED M!vars
  <2>1. UNCHANGED <<mainEvent, current, terminated>>
    BY <1>16 DEF ForwardToParent
  <2>2. Phase = "open"
    BY <1>16, ThreadOpen DEF ForwardToParent, Busy, Location
  <2>3. CASE Accepts(parent[job[t]])
    <3>1. Post(parent[job[t]], event[t])
      BY <1>16, <2>3 DEF ForwardToParent
    <3>2. event[t] \in Event /\ event[t] # None
      BY <1>16, OwnedThread DEF ForwardToParent, MustOwn, MayOwn
    <3>3. PICK p \in Actor, e \in Event : p = parent[job[t]] /\ e = event[t]
      BY <3>1, <3>2 DEF Post, Actor
    <3>4. Nowhere(e)
      BY <3>2, <3>3 DEF IndInv, Owned, Nowhere
    <3>5. M!Send(p, e)
      BY <2>1, <2>2, <2>3, <3>1, <3>3, <3>4, PosterSends
    <3> QED
      BY <1>1, <3>5
  <2>4. CASE ~Accepts(parent[job[t]])
    <3>1. UNCHANGED <<main, mq, events>>
      BY <1>16, <2>4 DEF ForwardToParent
    <3>2. Phase' = Phase
      BY <3>1 DEF Phase
    <3> QED
      BY <2>1, <3>1, <3>2, StutterStep
  <2> QED
    BY <2>3, <2>4
<1>17. ASSUME NEW t \in Thread, main # "aborted",
              \/ StartEvent(t) \/ SkipEvent(t) \/ TerminateScript(t)
              \/ CheckAfterFailure(t) \/ Release(t)
       PROVE  M!Next \/ UNCHANGED M!vars
  <2>1. PICK w \in Worker : job[t] = w
    BY <1>17, NotQuiet DEF StartEvent, SkipEvent, TerminateScript, CheckAfterFailure, Release,
                           Busy, Location
  <2> QED
    BY <1>2, <1>4, <1>17, <2>1, StartHandles, CheckDies, ReleaseDone
<1>18. CASE EndScript
  <2>1. UNCHANGED <<mq, events, mainEvent, current, terminated>>
        /\ main = "script" /\ main' \in {"take", "aborted"}
    BY <1>18 DEF EndScript
  <2>2. CASE main' = "take"
    <3>1. Phase' = Phase
      BY <2>1, <2>2 DEF Phase
    <3> QED
      BY <2>1, <3>1, StutterStep
  <2>3. CASE main' = "aborted"
    <3>1. Phase = "open"
      BY <2>1 DEF Phase
    <3> QED
      BY <1>3, <1>12, <2>1, <2>3, <3>1
  <2> QED
    BY <2>1, <2>2, <2>3
<1>19. CASE MainTake
  <2>1. /\ UNCHANGED <<events, current, terminated>> /\ main = "take"
        /\ mainEvent = None /\ main' \in {"event", "stopped", "waiting"}
    BY <1>19 DEF MainTake, IndInv, TypeOK
  <2>2. Phase = "open" /\ Phase' = "open"
    BY <2>1 DEF Phase
  <2>3. CASE mq = <<>>
    <3>1. UNCHANGED <<mq, mainEvent>>
      BY <1>19, <2>3 DEF MainTake
    <3> QED
      BY <2>1, <2>2, <3>1, StutterStep
  <2>4. CASE mq # <<>>
    <3>1. mainEvent' = Head(mq) /\ mq' = Tail(mq)
      BY <1>19, <2>4 DEF MainTake
    <3>2. /\ Hand(Main) = None /\ Mailbox(Main) # <<>>
          /\ Hand(Main)' = Head(Mailbox(Main)) /\ Mailbox(Main)' = Tail(Mailbox(Main))
          /\ \A b \in Actor : b # Main => Mailbox(b)' = Mailbox(b) /\ Hand(b)' = Hand(b)
      BY <2>1, <2>4, <3>1 DEF Mailbox, Hand
    <3>3. Main \notin Dead /\ Dead' = Dead
      BY <2>1, Distinct DEF Dead
    <3>4. M!Handle(Main)
      BY <1>4, <2>2, <3>2, <3>3, HandlesNext
    <3> QED
      BY <1>2, <1>4, <3>4
  <2> QED
    BY <2>3, <2>4
<1>20. CASE EndMainEvent
  <2>1. /\ UNCHANGED <<mq, events, current, terminated>> /\ main \in {"event", "finish"}
        /\ mainEvent # None /\ mainEvent' = None /\ main' = "take"
    BY <1>20 DEF EndMainEvent, IndInv, TypeOK
  <2>2. Phase = "open" /\ Phase' = "open"
    BY <2>1 DEF Phase
  <2>3. /\ Hand(Main) # None /\ Hand(Main)' = None
        /\ Mailbox(Main)' = Mailbox(Main) /\ Dead' = Dead
        /\ \A b \in Actor : b # Main => Mailbox(b)' = Mailbox(b) /\ Hand(b)' = Hand(b)
    BY <2>1 DEF Mailbox, Hand, Dead
  <2>4. M!Done(Main)
    BY <1>4, <2>2, <2>3, IsDone
  <2> QED
    BY <1>2, <1>4, <2>4
<1>21. CASE Close \/ Dispose
  <2>1. /\ main \in {"stopped", "joining"} /\ mq = <<>> /\ wq = <<>>
        /\ \A t \in Thread : job[t] = None
    BY <1>21 DEF Close, Dispose, IndInv, Quiet
  <2>2. \A t \in Thread : ~Holds(t) /\ ~Running(t)
    BY <2>1, BusyThread, Distinct DEF IndInv, Holds, Running, Busy, Location
  <2>3. \A w \in Worker : events[w] = <<>> /\ current[w] = None
    BY <2>1, <2>2, EmptyRange DEF IndInv, Scheduled
  <2>4. mainEvent = None
    BY <2>1 DEF IndInv, TypeOK
  <2>5. /\ UNCHANGED <<mainEvent, current, terminated>> /\ mq' = <<>>
        /\ \A w \in Worker : events'[w] = <<>>
    BY <1>21, <2>1, <2>3 DEF Close, Dispose
  <2>6. /\ \A a \in Actor : /\ Mailbox(a) = <<>> /\ Hand(a) = None
                            /\ Mailbox(a)' = <<>> /\ Hand(a)' = None
        /\ Dead' = Dead
    BY <2>1, <2>3, <2>4, <2>5 DEF Mailbox, Hand, Actor, Dead
  <2>7. CASE Close
    <3>1. Phase = "open" /\ Phase' = "finished"
      BY <2>7 DEF Close, Phase
    <3> QED
      BY <1>3, <2>6, <3>1, Finishes
  <2>8. CASE Dispose
    <3>1. Phase' = Phase
      BY <2>8 DEF Dispose, Phase
    <3> QED
      BY <2>6, <3>1, Stutters
  <2> QED
    BY <1>21, <2>7, <2>8
<1>22. CASE TerminateAll \/ UNCHANGED vars
  <2>1. UNCHANGED <<main, mq, events, mainEvent, current, terminated>>
    BY <1>22 DEF TerminateAll, vars
  <2>2. Phase' = Phase
    BY <2>1 DEF Phase
  <2> QED
    BY <2>1, <2>2, StutterStep
<1>23. ASSUME NEW t \in Thread, main # "aborted", ThreadStep(t)
       PROVE  M!Next \/ UNCHANGED M!vars
  BY <1>3, <1>10, <1>11, <1>13, <1>14, <1>15, <1>16, <1>17, <1>23, Zenon
     DEF ThreadStep, InertStep
<1>24. ASSUME Call(Main) PROVE M!Next \/ UNCHANGED M!vars
  BY <1>11, <1>24
<1> QED
  BY <1>18, <1>19, <1>20, <1>21, <1>22, <1>23, <1>24, Zenon DEF Next, MainStep, Ended

\* Threads, locks, queues of Workers and flags are no more than mailboxes that
\* are worked on in order, until a termination closes them.
THEOREM MailboxesImplemented == Spec => ImplementsMailboxes
<1>1. Init => M!Init
  <2> SUFFICES ASSUME Init PROVE M!Init
    OBVIOUS
  <2>1. \A a \in Actor : (IF a = Main THEN mq ELSE events[a]) = <<>>
    BY DEF Init, Actor
  <2>2. \A a \in Actor : (IF a = Main THEN mainEvent ELSE current[a]) = None
    BY DEF Init, Actor
  <2> QED
    BY <2>1, <2>2 DEF Init, M!Init, Actor
<1>2. IndInv /\ [Next]_vars => [M!Next]_(M!vars)
  BY NextMailboxes
<1> QED
  BY <1>1, <1>2, Invariant, PTL DEF Spec, ImplementsMailboxes, M!Spec
=============================================================================
