--------------------------- MODULE TaskPoolProofs ---------------------------
(***************************************************************************)
(* Proofs about TaskPool for every set of runners and tasks.               *)
(***************************************************************************)
EXTENDS TaskPool, SequenceLemmas

LEMMA InitInv ==
  ASSUME Init PROVE IndInv
<1>1. TypeOK
  <2>1. 0 \in 0..MaxTurns /\ NoTask \in Task \cup {NoTask} /\ Root \in Task
    BY TaskPoolAssumption
  <2>2. /\ toCreate \in Seq(Task)
        /\ toReawaken \in [Runner -> Seq(Task)]
        /\ toFork \in [Task -> Seq(Task)]
    BY DEF Init
  <2>3. /\ pc \in [Runner -> Location]
        /\ current \in [Runner -> Task \cup {NoTask}]
        /\ parent \in [Task -> Task \cup {NoTask}]
        /\ owner \in [Task -> Runner \cup {NoTask}]
    BY <2>1 DEF Init, Location
  <2>4. /\ gen \in [Task -> 0..MaxTurns]
        /\ turn \in [Task -> 0..MaxTurns]
        /\ ready \in [Task -> SUBSET (1..MaxTurns)]
        /\ outstanding \in [Task -> Nat]
    BY <2>1 DEF Init
  <2>5. /\ result \in [Task -> {"none", "null", "data"}]
        /\ slot \in [Task -> {"null", "data"}]
        /\ got \in [Task -> {"none", "null", "data"}]
        /\ rooted \in [Task -> BOOLEAN]
        /\ ctx \in [Task -> {"none", "live", "freed"}]
        /\ handler \in [Task -> BOOLEAN]
        /\ rval \in [Task -> Outcome]
        /\ main \in {"start", "join", "returned"}
        /\ terminating \in BOOLEAN
    BY DEF Init, Outcome
  <2> QED
    BY <2>2, <2>3, <2>4, <2>5 DEF TypeOK
<1>2. \A t \in Task : Pending(t) = {}
  BY TaskPoolAssumption DEF Init, Pending
<1>3. Placed
  BY EmptyRange DEF Init, Placed
<1>4. Born
  BY EmptyRange, TaskPoolAssumption DEF Init, Born, Untouched
<1>5. Turns
  BY TaskPoolAssumption DEF Init, Turns
<1>6. Awaited
  BY <1>2, EmptyRange DEF Init, Awaited, Waking
<1>7. CounterExact
  BY <1>2, FS_EmptySet DEF Init, CounterExact
<1>8. JoinComplete
  BY DEF Init, JoinComplete
<1> QED
  BY <1>1, <1>3, <1>4, <1>5, <1>6, <1>7, <1>8 DEF IndInv
-----------------------------------------------------------------------------
(***************************************************************************)
(* Steps of a runner that change nobody's children.                        *)
(***************************************************************************)
\* Locations that do not say that a task has completed or hands over children.
Plain == Location \ {"enqueue", "clear", "reawaken", "free"}

\* The runner stays with its task and changes the data of no other; sleepers
\* may wake up.
PlainStep(r) ==
  /\ pc[r] \in Plain /\ pc'[r] \in Plain
  /\ \A q \in Runner \ {r} :
       pc'[q] = pc[q] \/ (pc[q] = "waiting" /\ pc'[q] = "getWork")
  /\ UNCHANGED <<current, toReawaken, parent, toFork, outstanding>>
  /\ \A t \in Task : ctx'[t] = "freed" <=> ctx[t] = "freed"
  /\ \A t \in Task \ {current[r]} :
       ctx'[t] = ctx[t] /\ handler'[t] = handler[t] /\ turn'[t] = turn[t]

\* No step changes who has completed, who is handing over, or who is awaited.
SamePending ==
  \A t \in Task :
    /\ Completed(t)' <=> Completed(t)
    /\ HandingOver(t)' <=> HandingOver(t)
    /\ Clearing(t)' <=> Clearing(t)
    /\ Pending(t)' = Pending(t)

LEMMA PlainStepPending ==
  ASSUME IndInv, NEW r \in Runner, PlainStep(r)
  PROVE  SamePending
<1> SUFFICES ASSUME NEW t \in Task
             PROVE  /\ Completed(t)' <=> Completed(t)
                    /\ HandingOver(t)' <=> HandingOver(t)
                    /\ Clearing(t)' <=> Clearing(t)
                    /\ Pending(t)' = Pending(t)
  BY DEF SamePending
<1> USE DEF PlainStep, Plain, Location
<1>1. \A u \in Task : Completed(u)' <=> Completed(u)
  BY DEF Completed
<1>2. HandingOver(t)' <=> HandingOver(t)
  BY DEF HandingOver
<1>3. Clearing(t)' <=> Clearing(t)
  BY DEF Clearing
<1>4. Pending(t)' = Pending(t)
  BY <1>1, <1>2 DEF Pending
<1> QED
  BY <1>1, <1>2, <1>3, <1>4

LEMMA PlainStepAwaited ==
  ASSUME IndInv, NEW r \in Runner, PlainStep(r)
  PROVE  CounterExact' /\ Awaited'
<1>1. SamePending
  BY PlainStepPending
<1>2. CounterExact'
  BY <1>1 DEF IndInv, CounterExact, PlainStep, SamePending
<1>3. \A p \in Task : current[r] = p => ~Suspended(p) /\ ~Woken(p)
  BY DEF Suspended, Woken, PlainStep, Plain, Location
<1>4. \A p \in Task, q \in Runner : Waking(q, p)' <=> Waking(q, p)
  BY DEF Waking, PlainStep, Plain, Location
<1>5. ASSUME NEW p \in Task, current[r] # p, Suspended(p)
      PROVE  Suspended(p)'
  BY <1>1, <1>5 DEF Suspended, PlainStep, SamePending
<1>6. ASSUME NEW p \in Task, current[r] # p, Woken(p)
      PROVE  Woken(p)'
  BY <1>1, <1>6 DEF Woken, PlainStep, SamePending
<1>7. Awaited'
  BY <1>1, <1>3, <1>4, <1>5, <1>6 DEF IndInv, Awaited, PlainStep, SamePending
<1> QED
  BY <1>2, <1>7

LEMMA PlainStepBorn ==
  ASSUME IndInv, NEW r \in Runner, PlainStep(r), UNCHANGED <<main, toCreate, gen>>,
         \A t \in Task : /\ ctx[t] # "none" => ctx'[t] # "none"
                         /\ ctx'[t] = "none" => turn'[t] = turn[t]
                         /\ turn[t] \in Nat /\ turn'[t] \in Nat /\ turn[t] <= turn'[t]
  PROVE  Born'
<1>1. SamePending
  BY PlainStepPending
<1>2. \A t \in Task : Untouched(t) => Untouched(t)'
  BY DEF Untouched, PlainStep
<1>3. \A t \in Task : ctx'[t] = "none" => ctx[t] = "none"
  OBVIOUS
<1>4. parent'[Root] = NoTask /\ (main' = "start" => Untouched(Root)')
  BY <1>2, TaskPoolAssumption DEF IndInv, Born, PlainStep
<1>5. ASSUME NEW t \in Task
      PROVE  /\ t # Root /\ parent'[t] = NoTask => Untouched(t)'
             /\ ctx'[t] = "none" => toFork'[t] = <<>> /\ turn'[t] = 0
             /\ IsInjective(toFork'[t])
  BY <1>2, <1>3 DEF IndInv, Born, PlainStep
<1>6. ASSUME NEW t \in Task, parent'[t] # NoTask
      PROVE  ctx'[parent'[t]] # "none" /\ gen'[t] \in 1..turn'[parent'[t]]
  <2>1. parent[t] = parent'[t] /\ gen'[t] = gen[t]
    BY DEF PlainStep
  <2>2. ctx[parent[t]] # "none" /\ gen[t] \in 1..turn[parent[t]]
    BY <1>6, <2>1 DEF IndInv, Born
  <2>3. parent[t] \in Task
    BY <1>6, <2>1 DEF IndInv, TypeOK
  <2> DEFINE p == parent[t]
             g == gen[t]
  <2>4. ctx'[p] # "none" /\ p \in Task /\ g \in 1..turn[p]
    BY <2>2, <2>3
  <2>5. turn[p] \in Nat /\ turn'[p] \in Nat /\ turn[p] <= turn'[p]
    BY <2>4
  <2> HIDE DEF p, g
  <2>6. g \in 1..turn'[p]
    BY <2>4, <2>5
  <2> QED
    BY <2>1, <2>4, <2>6 DEF p, g
<1>7. ASSUME NEW t \in Task, NEW c \in Range(toFork'[t])
      PROVE  parent'[c] = t /\ (Untouched(c)' \/ Clearing(t)')
  <2>1. toFork[t] \in Seq(Task) /\ c \in Range(toFork[t])
    BY <1>7 DEF IndInv, TypeOK, PlainStep
  <2>2. c \in Task
    BY <2>1, SeqRange
  <2> QED
    BY <1>1, <1>2, <2>1, <2>2 DEF IndInv, Born, PlainStep, SamePending
<1> QED
  BY <1>4, <1>5, <1>6, <1>7 DEF Born

LEMMA PlainStepPlaced ==
  ASSUME IndInv, NEW r \in Runner, PlainStep(r), UNCHANGED <<toCreate, ctx, owner>>,
         pc'[r] = "create" => pc[r] = "create",
         pc[r] = "create" => pc'[r] = "create",
         pc[r] \in {"getWork", "waiting", "exited"}
           <=> pc'[r] \in {"getWork", "waiting", "exited"}
  PROVE  Placed'
<1>1. \A q \in Runner :
        /\ pc'[q] = "create" <=> pc[q] = "create"
        /\ pc'[q] \in {"getWork", "waiting", "exited"}
             <=> pc[q] \in {"getWork", "waiting", "exited"}
  BY DEF PlainStep
<1> QED
  BY <1>1 DEF IndInv, Placed, PlainStep

LEMMA TurnsAreNat ==
  ASSUME TypeOK PROVE \A t \in Task : turn[t] \in Nat
<1>1. 0..MaxTurns \subseteq Nat
  BY TaskPoolAssumption
<1> QED
  BY <1>1 DEF TypeOK

LEMMA WorkingTask ==
  ASSUME IndInv, NEW r \in Runner, pc[r] \notin {"getWork", "waiting", "exited"}
  PROVE  current[r] \in Task
  BY DEF IndInv, Placed, TypeOK

\* No two runners work on one task.
LEMMA OwnTask ==
  ASSUME IndInv, NEW r \in Runner, NEW q \in Runner, r # q, current[r] # NoTask
  PROVE  current[q] # current[r]
<1> SUFFICES ASSUME current[q] = current[r] PROVE FALSE
  OBVIOUS
<1>1. CASE pc[r] = "create" \/ pc[q] = "create"
  BY <1>1 DEF IndInv, Placed
<1>2. CASE pc[r] # "create" /\ pc[q] # "create"
  BY <1>2 DEF IndInv, Placed
<1> QED
  BY <1>1, <1>2

\* A task at a plain location has nobody to wait for.
LEMMA NobodyPending ==
  ASSUME IndInv, NEW r \in Runner, pc[r] \in Plain, current[r] \in Task
  PROVE  Pending(current[r]) = {} /\ outstanding[current[r]] = 0
<1>1. ~Suspended(current[r])
  BY DEF Suspended, Plain, Location
<1>2. Pending(current[r]) = {}
  BY <1>1 DEF IndInv, Awaited
<1> QED
  BY <1>2, FS_EmptySet DEF IndInv, CounterExact

LEMMA WaitStep ==
  ASSUME IndInv, NEW r \in Runner, Wait(r) PROVE IndInv'
<1> USE DEF Wait, IndInv, Goto, poolVars, runnerVars, handleVars, contextVars
<1>1. TypeOK'
  BY DEF TypeOK, Location
<1>2. PlainStep(r)
  BY DEF PlainStep, Plain, TypeOK, Location
<1>3. SamePending /\ CounterExact' /\ Awaited'
  BY <1>2, PlainStepPending, PlainStepAwaited
<1>4. Placed'
  BY <1>2, PlainStepPlaced DEF TypeOK
<1>5. Born'
  BY <1>2, TurnsAreNat, PlainStepBorn
<1>6. Turns'
  BY <1>3 DEF Turns, SamePending, TypeOK, Location
<1>7. JoinComplete'
  BY <1>3 DEF JoinComplete, SamePending, IsReady
<1> QED
  BY <1>1, <1>3, <1>4, <1>5, <1>6, <1>7

LEMMA QuitStep ==
  ASSUME IndInv, NEW r \in Runner, Quit(r) PROVE IndInv'
<1> USE DEF Quit, IndInv, Goto, poolVars, runnerVars, handleVars, contextVars
<1>1. TypeOK'
  BY DEF TypeOK, Location
<1>2. PlainStep(r)
  BY DEF PlainStep, Plain, TypeOK, Location
<1>3. SamePending /\ CounterExact' /\ Awaited'
  BY <1>2, PlainStepPending, PlainStepAwaited
<1>4. Placed'
  BY <1>2, PlainStepPlaced DEF TypeOK
<1>5. Born'
  BY <1>2, TurnsAreNat, PlainStepBorn
<1>6. Turns'
  BY <1>3 DEF Turns, SamePending, TypeOK, Location
<1>7. JoinComplete'
  BY <1>3 DEF JoinComplete, SamePending, IsReady
<1> QED
  BY <1>1, <1>3, <1>4, <1>5, <1>6, <1>7

LEMMA SetOncompletionStep ==
  ASSUME IndInv, NEW r \in Runner, SetOncompletion(r) PROVE IndInv'
<1> USE DEF SetOncompletion, IndInv, Goto, poolVars, runnerVars, handleVars, contextVars
<1>1. TypeOK'
  BY DEF TypeOK, Location
<1>2. PlainStep(r)
  BY DEF PlainStep, Plain, TypeOK, Location
<1>3. SamePending /\ CounterExact' /\ Awaited'
  BY <1>2, PlainStepPending, PlainStepAwaited
<1>4. Placed'
  BY <1>2, PlainStepPlaced DEF TypeOK
<1>5. Born'
  BY <1>2, TurnsAreNat, PlainStepBorn
<1>6. Turns'
  <2>1. current[r] \in Task /\ turn[current[r]] > 0
    BY <1>2, WorkingTask, TaskPoolAssumption DEF Turns
  <2>2. \A t \in Task : handler'[t] => 0 < turn[t] /\ turn[t] < MaxTurns
    BY <2>1 DEF Turns, TypeOK
  <2>3. \A t \in Task : handler[t] => handler'[t]
    BY DEF TypeOK
  <2> QED
    BY <1>3, <2>2, <2>3 DEF Turns, SamePending, TypeOK
<1>7. JoinComplete'
  BY <1>3 DEF JoinComplete, SamePending, IsReady
<1> QED
  BY <1>1, <1>3, <1>4, <1>5, <1>6, <1>7

LEMMA TurnFailsStep ==
  ASSUME IndInv, NEW r \in Runner, TurnFails(r) PROVE IndInv'
<1> USE DEF TurnFails, IndInv, Goto, poolVars, runnerVars, handleVars, contextVars
<1>1. TypeOK'
  BY DEF TypeOK, Location, Outcome
<1>2. PlainStep(r)
  BY DEF PlainStep, Plain, TypeOK, Location
<1>3. SamePending /\ CounterExact' /\ Awaited'
  BY <1>2, PlainStepPending, PlainStepAwaited
<1>4. Placed'
  BY <1>2, PlainStepPlaced DEF TypeOK
<1>5. Born'
  BY <1>2, TurnsAreNat, PlainStepBorn
<1>6. Turns'
  BY <1>3 DEF Turns, SamePending, TypeOK, Location
<1>7. JoinComplete'
  BY <1>3 DEF JoinComplete, SamePending, IsReady
<1> QED
  BY <1>1, <1>3, <1>4, <1>5, <1>6, <1>7

LEMMA TurnLoopsStep ==
  ASSUME IndInv, NEW r \in Runner, TurnLoops(r) PROVE IndInv'
<1> USE DEF TurnLoops, IndInv, Goto, poolVars, runnerVars, handleVars, contextVars
<1>1. TypeOK'
  BY DEF TypeOK, Location
<1>2. PlainStep(r)
  BY DEF PlainStep, Plain, TypeOK, Location
<1>3. SamePending /\ CounterExact' /\ Awaited'
  BY <1>2, PlainStepPending, PlainStepAwaited
<1>4. Placed'
  BY <1>2, PlainStepPlaced DEF TypeOK
<1>5. Born'
  BY <1>2, TurnsAreNat, PlainStepBorn
<1>6. Turns'
  BY <1>3 DEF Turns, SamePending, TypeOK, Location
<1>7. JoinComplete'
  BY <1>3 DEF JoinComplete, SamePending, IsReady
<1> QED
  BY <1>1, <1>3, <1>4, <1>5, <1>6, <1>7

LEMMA TurnCompletesStep ==
  ASSUME IndInv, NEW r \in Runner, TurnCompletes(r) PROVE IndInv'
<1> USE DEF TurnCompletes, IndInv, Goto, poolVars, runnerVars, handleVars, contextVars
<1>1. TypeOK'
  <2>1. PICK v \in ReturnValue : rval' = [rval EXCEPT ![current[r]] = v]
    OBVIOUS
  <2>2. rval' \in [Task -> Outcome]
    BY <2>1, TaskPoolAssumption DEF TypeOK
  <2> QED
    BY <2>2 DEF TypeOK, Location
<1>2. PlainStep(r)
  BY DEF PlainStep, Plain, TypeOK, Location
<1>3. SamePending /\ CounterExact' /\ Awaited'
  BY <1>2, PlainStepPending, PlainStepAwaited
<1>4. Placed'
  BY <1>2, PlainStepPlaced DEF TypeOK
<1>5. Born'
  BY <1>2, TurnsAreNat, PlainStepBorn
<1>6. Turns'
  BY <1>3 DEF Turns, SamePending, TypeOK, Location
<1>7. JoinComplete'
  BY <1>3 DEF JoinComplete, SamePending, IsReady
<1> QED
  BY <1>1, <1>3, <1>4, <1>5, <1>6, <1>7

LEMMA PackResultStep ==
  ASSUME IndInv, NEW r \in Runner, PackResult(r) PROVE IndInv'
<1> USE DEF PackResult, IndInv, Goto, poolVars, runnerVars, handleVars, contextVars
<1>1. TypeOK'
  <2>1. pc' \in [Runner -> Location]
    BY DEF TypeOK, Location
  <2>2. current[r] \in Task /\ rval[current[r]] \in Outcome
    BY WorkingTask DEF TypeOK
  <2>3. Packed(rval[current[r]]) \in {"none", "null", "data"}
    BY <2>2 DEF Packed, Outcome
  <2>4. result' \in [Task -> {"none", "null", "data"}]
    BY <2>3 DEF TypeOK
  <2> QED
    BY <2>1, <2>4 DEF TypeOK
<1>2. PlainStep(r)
  BY DEF PlainStep, Plain, TypeOK, Location
<1>3. SamePending /\ CounterExact' /\ Awaited'
  BY <1>2, PlainStepPending, PlainStepAwaited
<1>4. Placed'
  BY <1>2, PlainStepPlaced DEF TypeOK
<1>5. Born'
  BY <1>2, TurnsAreNat, PlainStepBorn
<1>6. Turns'
  BY <1>3 DEF Turns, SamePending, TypeOK, Location
<1>7. JoinComplete'
  BY <1>3 DEF JoinComplete, SamePending, IsReady
<1> QED
  BY <1>1, <1>3, <1>4, <1>5, <1>6, <1>7

LEMMA CreateTaskContextStep ==
  ASSUME IndInv, NEW r \in Runner, CreateTaskContext(r) PROVE IndInv'
<1> USE DEF CreateTaskContext, IndInv, Goto, poolVars, handleVars
<1>1. TypeOK'
  BY DEF TypeOK, Location
<1>2. current[r] \in Task /\ ctx[current[r]] = "none"
  BY WorkingTask DEF Placed
<1>3. outstanding' = outstanding
  <2>1. outstanding[current[r]] = 0
    <3>1. pc[r] \in Plain
      BY DEF Plain, Location
    <3> QED
      BY <1>2, <3>1, NobodyPending
  <2> QED
    BY <2>1 DEF TypeOK
<1>4. PlainStep(r)
  BY <1>2, <1>3 DEF PlainStep, Plain, TypeOK, Location
<1>5. SamePending /\ CounterExact' /\ Awaited'
  BY <1>4, PlainStepPending, PlainStepAwaited
<1>6. Placed'
  BY SMTT(30), <1>2, TaskPoolAssumption DEF Placed, TypeOK
<1>7. Born'
  BY <1>2, <1>4, PlainStepBorn DEF TypeOK
<1>8. Turns'
  <2>1. toFork[current[r]] = <<>> /\ turn[current[r]] = 0
    BY <1>2 DEF Born
  <2>2. \A q \in Runner \ {r} : current[q] # current[r]
    BY <1>2 DEF Placed
  <2>3. \A t \in Task : /\ handler'[t] => 0 < turn'[t] /\ turn'[t] < MaxTurns
                        /\ \A g \in ready'[t] : g < turn'[t]
    BY DEF Turns, TypeOK
  <2>4. ASSUME NEW q \in Runner, q # r
        PROVE  /\ pc'[q] = pc[q] /\ current'[q] = current[q]
               /\ current[q] # NoTask => handler'[current[q]] <=> handler[current[q]]
    BY <2>2, <2>4 DEF TypeOK
  <2>5. pc'[r] = "resume"
    BY DEF TypeOK
  <2> QED
    BY <1>5, <2>1, <2>3, <2>4, <2>5, TaskPoolAssumption DEF Turns, SamePending, TypeOK
<1>9. JoinComplete'
  BY <1>5 DEF JoinComplete, SamePending, IsReady
<1> QED
  BY <1>1, <1>5, <1>6, <1>7, <1>8, <1>9

LEMMA BeginTurnStep ==
  ASSUME IndInv, NEW r \in Runner, BeginTurn(r) PROVE IndInv'
<1> USE DEF BeginTurn, IndInv, Goto, poolVars, handleVars
<1> DEFINE p == current[r]
<1>1. /\ p \in Task /\ ctx[p] = "live"
      /\ turn[p] \in 0..(MaxTurns - 1) /\ MaxTurns \in Nat \ {0}
      /\ toFork[p] = <<>>
  <2>1. p \in Task /\ p # NoTask
    BY WorkingTask, TaskPoolAssumption
  <2>2. turn[p] \in 0..MaxTurns /\ MaxTurns \in Nat \ {0}
    BY <2>1, TaskPoolAssumption DEF TypeOK
  <2>3. ctx[p] = "live" /\ toFork[p] = <<>> /\ (turn[p] > 0 => turn[p] < MaxTurns)
    BY <2>1 DEF Placed, Turns
  <2> QED
    BY <2>1, <2>2, <2>3
<1>2. TypeOK'
  <2>1. turn' \in [Task -> 0..MaxTurns]
    BY <1>1 DEF TypeOK
  <2>2. ready' \in [Task -> SUBSET (1..MaxTurns)]
    BY <1>1 DEF TypeOK
  <2> QED
    BY <2>1, <2>2 DEF TypeOK, Location
<1>3. PlainStep(r)
  BY DEF PlainStep, Plain, TypeOK, Location
<1>4. SamePending /\ CounterExact' /\ Awaited'
  BY <1>3, PlainStepPending, PlainStepAwaited
<1>5. Placed'
  BY <1>3, PlainStepPlaced DEF TypeOK
<1>6. Born'
  <2>1. \A t \in Task : turn[t] \in Nat /\ turn'[t] \in Nat /\ turn[t] <= turn'[t]
    BY <1>1 DEF TypeOK
  <2>2. \A t \in Task : ctx'[t] = "none" => turn'[t] = turn[t]
    BY <1>1 DEF TypeOK
  <2> QED
    BY <1>3, <2>1, <2>2, PlainStepBorn
<1>7. Turns'
  <2>1. ASSUME NEW t \in Task
        PROVE  /\ handler'[t] => 0 < turn'[t] /\ turn'[t] < MaxTurns
               /\ \A g \in ready'[t] : g < turn'[t]
    BY <1>1 DEF Turns, TypeOK
  <2>2. ASSUME NEW q \in Runner, q # r
        PROVE  /\ pc'[q] = pc[q] /\ current'[q] = current[q] /\ current[q] # p
               /\ current[q] # NoTask =>
                    /\ handler'[current[q]] <=> handler[current[q]]
                    /\ turn'[current[q]] = turn[current[q]]
    <3>1. current[q] # p
      BY <1>1, <2>2, OwnTask, TaskPoolAssumption
    <3> QED
      BY <1>1, <2>2, <3>1 DEF TypeOK
  <2>3. pc'[r] = "turn" /\ turn'[p] > 0
    BY <1>1 DEF TypeOK
  <2>4. ASSUME NEW q \in Runner
        PROVE  /\ pc'[q] \in {"notify", "reawaken"} => current'[q] # Root
               /\ pc'[q] = "resume" => toFork'[current'[q]] = <<>>
               /\ pc'[q] = "resume" /\ turn'[current'[q]] > 0 => handler'[current'[q]]
               /\ current'[q] # NoTask /\ pc'[q] \notin {"create", "resume"} =>
                    turn'[current'[q]] > 0
    <3>1. CASE q = r
      BY <2>3, <3>1
    <3>2. CASE q # r
      <4>1. pc[q] = "resume" => current[q] # NoTask
        BY DEF Placed
      <4> QED
        BY <2>2, <3>2, <4>1 DEF Turns
    <3> QED
      BY <3>1, <3>2
  <2>5. ASSUME NEW q \in Runner, NEW t \in Task, current'[q] = t, pc'[q] = "enqueue"
        PROVE  Pending(t)' \subseteq Range(toFork'[t])
    BY <1>4, <2>2, <2>3, <2>5 DEF Turns, SamePending
  <2> QED
    BY <2>1, <2>4, <2>5 DEF Turns
<1>8. JoinComplete'
  <2> SUFFICES ASSUME NEW t \in Task, parent[t] # NoTask, gen[t] \in ready'[parent[t]]
               PROVE  Completed(t)
    BY <1>4 DEF JoinComplete, SamePending, IsReady
  <2>1. CASE gen[t] \in ready[parent[t]]
    BY <2>1 DEF JoinComplete, IsReady
  <2>2. CASE gen[t] \notin ready[parent[t]]
    <3>1. parent[t] = p
      BY <2>2 DEF TypeOK
    <3>2. Pending(p) = {}
      BY <1>1, NobodyPending DEF Plain, Location
    <3> QED
      BY <1>1, <3>1, <3>2, EmptyRange DEF Pending
  <2> QED
    BY <2>1, <2>2
<1> QED
  BY <1>2, <1>4, <1>5, <1>6, <1>7, <1>8

LEMMA GetStep ==
  ASSUME IndInv, NEW r \in Runner, NEW t \in Task, Get(r, t) PROVE IndInv'
<1> USE DEF Get, IndInv, poolVars, runnerVars, contextVars
<1>1. TypeOK'
  BY DEF TypeOK
<1>2. PlainStep(r)
  BY DEF PlainStep, Plain, TypeOK, Location
<1>3. SamePending /\ CounterExact' /\ Awaited'
  BY <1>2, PlainStepPending, PlainStepAwaited
<1>4. Placed'
  BY DEF Placed
<1>5. Born'
  BY <1>2, TurnsAreNat, PlainStepBorn
<1>6. Turns'
  BY SMTT(30), <1>3 DEF Turns, SamePending, TypeOK
<1>7. JoinComplete'
  BY <1>3 DEF JoinComplete, SamePending, IsReady
<1> QED
  BY <1>1, <1>3, <1>4, <1>5, <1>6, <1>7

LEMMA ShutdownStep ==
  ASSUME IndInv, Shutdown PROVE IndInv'
<1> USE DEF Shutdown, IndInv, runnerVars, handleVars, contextVars
<1>1. TypeOK'
  BY DEF TypeOK
<1>2. SamePending
  BY DEF SamePending, Pending, Completed, HandingOver, Clearing
<1>3. CounterExact' /\ Awaited'
  BY <1>2 DEF CounterExact, Awaited, Suspended, Woken, Waking, SamePending
<1>4. Placed'
  BY DEF Placed
<1>5. Born'
  BY <1>2 DEF Born, Untouched, Clearing
<1>6. Turns'
  BY <1>2 DEF Turns, SamePending
<1>7. JoinComplete'
  BY <1>2 DEF JoinComplete, SamePending, IsReady
<1> QED
  BY <1>1, <1>3, <1>4, <1>5, <1>6, <1>7
-----------------------------------------------------------------------------
(***************************************************************************)
(* Steps that hand a task over to a runner.                                *)
(***************************************************************************)
LEMMA StartPoolStep ==
  ASSUME IndInv, StartPool PROVE IndInv'
<1> USE DEF StartPool, IndInv, handleVars, contextVars
<1>1. /\ toCreate' \in Seq(Task)
      /\ Range(toCreate') = Range(toCreate) \cup {Root}
      /\ IsInjective(toCreate')
  <2>1. Root \in Task /\ toCreate \in Seq(Task) /\ IsInjective(toCreate)
    BY TaskPoolAssumption DEF TypeOK, Placed
  <2>2. Root \notin Range(toCreate)
    BY DEF Born, Untouched
  <2> QED
    BY <2>1, <2>2, AppendRange
<1>2. TypeOK'
  BY <1>1 DEF TypeOK, Location
<1>3. \A q \in Runner : \A l \in Location \ {"waiting", "getWork"} :
        pc'[q] = l <=> pc[q] = l
  BY DEF TypeOK
<1>4. SamePending
  BY <1>3 DEF SamePending, Pending, Completed, HandingOver, Clearing, Location
<1>5. CounterExact' /\ Awaited'
  BY <1>3, <1>4 DEF CounterExact, Awaited, Suspended, Woken, Waking, SamePending, Location
<1>6. Placed'
  BY <1>1 DEF Placed, TypeOK, Born, Untouched
<1>7. Born'
  <2>1. \A u : u # Root /\ Untouched(u) => Untouched(u)'
    BY <1>1 DEF Untouched
  <2>2. \A u \in Task : \A c \in Range(toFork[u]) : c # Root
    BY TaskPoolAssumption DEF Born
  <2> QED
    BY <1>4, <2>1, <2>2 DEF Born, SamePending
<1>8. Turns'
  BY <1>3, <1>4 DEF Turns, SamePending, Location, TypeOK
<1>9. JoinComplete'
  BY <1>4 DEF JoinComplete, SamePending, IsReady
<1> QED
  BY <1>2, <1>5, <1>6, <1>7, <1>8, <1>9

LEMMA TakeToCreateStep ==
  ASSUME IndInv, NEW r \in Runner, TakeToCreate(r) PROVE IndInv'
<1> USE DEF TakeToCreate, IndInv, Goto, handleVars, contextVars
<1> DEFINE t == Last(toCreate)
<1>1. /\ t \in Task /\ t \in Range(toCreate)
      /\ toCreate' \in Seq(Task) /\ IsInjective(toCreate')
      /\ Range(toCreate') \subseteq Range(toCreate) /\ t \notin Range(toCreate')
  BY PopRange DEF TypeOK, Placed
<1>2. ctx[t] = "none" /\ \A q \in Runner : current[q] # t
  BY <1>1 DEF Placed
<1> HIDE DEF t
<1>3. /\ current' = [current EXCEPT ![r] = t]
      /\ pc' = [pc EXCEPT ![r] = "create"]
      /\ pc[r] = "getWork" /\ current[r] = NoTask /\ NoTask \notin Task
      /\ UNCHANGED <<main, terminating, toReawaken, handleVars, contextVars>>
  BY TaskPoolAssumption DEF t, Placed
<1> HIDE DEF TakeToCreate
<1>4. /\ current'[r] = t /\ pc'[r] = "create"
      /\ \A q \in Runner \ {r} : current'[q] = current[q] /\ pc'[q] = pc[q]
  BY <1>3 DEF TypeOK
<1>5. TypeOK'
  <2>1. current' \in [Runner -> Task \cup {NoTask}]
    BY <1>1, <1>3 DEF TypeOK
  <2>2. pc' \in [Runner -> Location]
    BY <1>3 DEF TypeOK, Location
  <2> QED
    BY <1>1, <1>3, <2>1, <2>2 DEF TypeOK
<1>6. SamePending
  <2>1. \A u \in Task : Completed(u)' <=> Completed(u)
    BY <1>4, <1>3 DEF Completed
  <2>2. \A u \in Task : HandingOver(u)' <=> HandingOver(u)
    BY <1>4, <1>3 DEF HandingOver
  <2>3. \A u \in Task : Clearing(u)' <=> Clearing(u)
    BY <1>4, <1>3 DEF Clearing
  <2>4. \A u \in Task : Pending(u)' = Pending(u)
    BY <1>3, <2>1, <2>2 DEF Pending
  <2> QED
    BY <2>1, <2>2, <2>3, <2>4 DEF SamePending
<1>7. CounterExact'
  BY <1>3, <1>6 DEF CounterExact, SamePending
<1>8. Awaited'
  <2>1. \A p \in Task : Suspended(p) => Suspended(p)'
    BY <1>4, <1>2, <1>3, <1>6 DEF Suspended, SamePending
  <2>2. \A p \in Task : Woken(p) => Woken(p)'
    BY <1>4, <1>2, <1>3, <1>6 DEF Woken, SamePending
  <2>3. \A p \in Task, q \in Runner : Waking(q, p)' <=> Waking(q, p)
    BY <1>4, <1>3 DEF Waking
  <2> QED
    BY <1>3, <1>6, <2>1, <2>2, <2>3 DEF Awaited, SamePending
<1>9. Placed'
  <2>1. \A u \in Range(toCreate') :
          ctx[u] = "none" /\ \A q \in Runner : current'[q] # u
    BY <1>4, <1>1 DEF Placed
  <2> QED
    BY <1>4, <1>1, <1>2, <1>3, <2>1 DEF Placed
<1>10. Born'
  <2>1. \A u \in Task : Untouched(u) => Untouched(u)'
    BY <1>4, <1>1, <1>3 DEF Untouched
  <2>2. \A u \in Task : \A c \in Range(toFork[u]) : c \in Task
    BY SeqRange DEF TypeOK
  <2> QED
    BY <1>3, <1>6, <2>1, <2>2, TaskPoolAssumption DEF Born, SamePending
<1>11. Turns'
  BY <1>4, <1>3, <1>6 DEF Turns, SamePending
<1>12. JoinComplete'
  BY <1>3, <1>6 DEF JoinComplete, SamePending, IsReady
<1> QED
  BY <1>5, <1>7, <1>8, <1>9, <1>10, <1>11, <1>12

LEMMA TakeReawakenedStep ==
  ASSUME IndInv, NEW r \in Runner, TakeReawakened(r) PROVE IndInv'
<1> USE DEF IndInv, handleVars, contextVars, poolVars
<1> DEFINE p == Last(toReawaken[r])
<1> DEFINE rest == Front(toReawaken[r])
<1>1. /\ p \in Task /\ p \in Range(toReawaken[r])
      /\ rest \in Seq(Task) /\ IsInjective(rest)
      /\ Range(rest) \subseteq Range(toReawaken[r]) /\ p \notin Range(rest)
  <2>1. toReawaken[r] \in Seq(Task) /\ toReawaken[r] # <<>> /\ IsInjective(toReawaken[r])
    BY DEF TypeOK, Placed, TakeReawakened
  <2> QED
    BY <2>1, PopRange
<1>2. /\ pc[r] = "getWork" /\ current[r] = NoTask /\ NoTask \notin Task
      /\ current' = [current EXCEPT ![r] = p]
      /\ pc' = [pc EXCEPT ![r] = "resume"]
      /\ toReawaken' = [toReawaken EXCEPT ![r] = rest]
      /\ UNCHANGED <<poolVars, handleVars, contextVars>>
  BY TaskPoolAssumption DEF TakeReawakened, Goto, Placed
<1> HIDE DEF p, rest
<1>3. /\ current'[r] = p /\ pc'[r] = "resume" /\ toReawaken'[r] = rest
      /\ \A q \in Runner \ {r} : /\ current'[q] = current[q] /\ pc'[q] = pc[q]
                                 /\ toReawaken'[q] = toReawaken[q]
  BY <1>2 DEF TypeOK
<1>4. /\ Woken(p) /\ ctx[p] = "live" /\ owner[p] = r
      /\ \A q \in Runner : ~Waking(q, p)
      /\ \A q \in Runner : p \notin Range(toReawaken'[q])
      /\ \A q \in Runner : current[q] # p
  <2>1. Woken(p) /\ ctx[p] = "live" /\ owner[p] = r
    BY <1>1 DEF Awaited, Placed
  <2>2. \A q \in Runner : ~Waking(q, p)
    BY <1>1 DEF Awaited
  <2>3. \A q \in Runner \ {r} : p \notin Range(toReawaken[q])
    BY <2>1 DEF Placed
  <2>4. \A q \in Runner : current[q] # p
    BY <1>1, <1>2, <2>1 DEF Placed
  <2> QED
    BY <1>1, <1>3, <2>1, <2>2, <2>3, <2>4
<1>5. toFork[p] = <<>> /\ handler[p] /\ turn[p] > 0 /\ Pending(p) = {}
  BY <1>4 DEF Woken, Clearing
<1>6. TypeOK'
  <2>1. current' \in [Runner -> Task \cup {NoTask}]
    BY <1>1, <1>2 DEF TypeOK
  <2>2. pc' \in [Runner -> Location]
    BY <1>2 DEF TypeOK, Location
  <2>3. toReawaken' \in [Runner -> Seq(Task)]
    BY <1>1, <1>2 DEF TypeOK
  <2> QED
    BY <1>2, <2>1, <2>2, <2>3 DEF TypeOK
<1>7. SamePending
  <2>1. \A u \in Task : Completed(u)' <=> Completed(u)
    BY <1>2, <1>3 DEF Completed
  <2>2. \A u \in Task : HandingOver(u)' <=> HandingOver(u)
    BY <1>2, <1>3 DEF HandingOver
  <2>3. \A u \in Task : Clearing(u)' <=> Clearing(u)
    BY <1>2, <1>3 DEF Clearing
  <2>4. \A u \in Task : Pending(u)' = Pending(u)
    BY <1>2, <2>1, <2>2 DEF Pending
  <2> QED
    BY <2>1, <2>2, <2>3, <2>4 DEF SamePending
<1>8. CounterExact'
  BY <1>2, <1>7 DEF CounterExact, SamePending
<1>9. Awaited'
  <2>1. \A u \in Task \ {p} : Suspended(u) => Suspended(u)'
    BY <1>2, <1>3, <1>7 DEF Suspended, SamePending
  <2>2. \A u \in Task \ {p} : Woken(u) => Woken(u)'
    BY <1>2, <1>3, <1>7 DEF Woken, SamePending
  <2>3. \A u \in Task, q \in Runner : Waking(q, u)' <=> Waking(q, u)
    BY <1>2, <1>3 DEF Waking
  <2>4. \A q \in Runner : Range(toReawaken'[q]) \subseteq Range(toReawaken[q])
    BY <1>1, <1>3
  <2>5. ASSUME NEW u \in Task, Pending(u)' # {} PROVE Suspended(u)'
    BY <1>5, <1>7, <2>1, <2>5 DEF Awaited, SamePending
  <2>6. ASSUME NEW u \in Task, NEW q \in Runner,
               u \in Range(toReawaken'[q]) \/ Waking(q, u)'
        PROVE  Woken(u)'
    <3>1. u # p
      BY <1>4, <2>3, <2>6
    <3> QED
      BY <2>2, <2>3, <2>4, <2>6, <3>1 DEF Awaited
  <2> QED
    BY <2>3, <2>4, <2>5, <2>6 DEF Awaited
<1>10. Placed'
  <2>1. \A u \in Range(toCreate') :
          ctx[u] = "none" /\ \A q \in Runner : current'[q] # u
    BY <1>2, <1>3, <1>4 DEF Placed
  <2>2. \A q \in Runner : Range(toReawaken'[q]) \subseteq Range(toReawaken[q])
    BY <1>1, <1>3
  <2> QED
    BY <1>1, <1>2, <1>3, <1>4, <2>1, <2>2 DEF Placed
<1>11. Born'
  <2>1. \A u : Untouched(u) => Untouched(u)'
    BY <1>2, <1>3, <1>4 DEF Untouched
  <2> QED
    BY <1>2, <1>7, <2>1, TaskPoolAssumption DEF Born, SamePending
<1>12. Turns'
  BY <1>2, <1>3, <1>5, <1>7 DEF Turns, SamePending
<1>13. JoinComplete'
  BY <1>2, <1>7 DEF JoinComplete, SamePending, IsReady
<1> QED
  BY <1>6, <1>8, <1>9, <1>10, <1>11, <1>12, <1>13

-----------------------------------------------------------------------------
(***************************************************************************)
(* Steps that change the children of a task.                               *)
(***************************************************************************)
LEMMA ForkStep ==
  ASSUME IndInv, NEW r \in Runner, NEW t \in Task, Fork(r, t) PROVE IndInv'
<1> USE DEF IndInv, contextVars, poolVars, runnerVars
<1> PICK p \in Task : p = current[r]
  BY WorkingTask DEF Fork
<1>1. /\ pc[r] = "turn" /\ p \in Task /\ p # NoTask /\ NoTask \notin Task
      /\ t # Root /\ parent[t] = NoTask /\ Untouched(t) /\ t # p
      /\ ctx[p] = "live" /\ turn[p] > 0 /\ turn[p] \in 1..MaxTurns
  <2>1. pc[r] = "turn" /\ t # Root /\ parent[t] = NoTask
    BY DEF Fork
  <2>2. p \in Task /\ p # NoTask /\ NoTask \notin Task
    BY TaskPoolAssumption
  <2>3. Untouched(t)
    BY <2>1 DEF Born
  <2>4. ctx[p] = "live" /\ turn[p] > 0
    BY <2>1, <2>2 DEF Placed, Turns
  <2>5. turn[p] \in 0..MaxTurns /\ MaxTurns \in Nat
    BY <2>2, TaskPoolAssumption DEF TypeOK
  <2> QED
    BY <2>1, <2>2, <2>3, <2>4, <2>5 DEF Untouched
<1>2. /\ toFork[p] \in Seq(Task) /\ Append(toFork[p], t) \in Seq(Task)
      /\ Range(Append(toFork[p], t)) = Range(toFork[p]) \cup {t}
      /\ IsInjective(Append(toFork[p], t))
  <2>1. toFork[p] \in Seq(Task) /\ IsInjective(toFork[p])
    BY <1>1 DEF TypeOK, Born
  <2>2. t \notin Range(toFork[p])
    BY <1>1 DEF Born
  <2> QED
    BY <2>1, <2>2, AppendRange
<1>3. /\ \A u \in Task \ {t} : parent'[u] = parent[u] /\ gen'[u] = gen[u]
      /\ parent'[t] = p /\ gen'[t] = turn[p]
      /\ \A u \in Task \ {p} : toFork'[u] = toFork[u]
      /\ toFork'[p] = Append(toFork[p], t)
      /\ UNCHANGED <<poolVars, runnerVars, result, slot, got,
                     ctx, owner, outstanding, turn, ready, handler, rval>>
  BY <1>1 DEF Fork, TypeOK
<1>4. TypeOK'
  <2>1. parent' \in [Task -> Task \cup {NoTask}] /\ gen' \in [Task -> 0..MaxTurns]
    BY <1>1 DEF TypeOK, Fork
  <2>2. toFork' \in [Task -> Seq(Task)]
    BY <1>1, <1>2 DEF TypeOK, Fork
  <2>3. rooted' \in [Task -> BOOLEAN]
    BY DEF TypeOK, Fork
  <2> QED
    BY <1>3, <2>1, <2>2, <2>3 DEF TypeOK
<1>5. Pending(p) = {} /\ ~HandingOver(p)
  <2>1. Pending(p) = {}
    BY <1>1, NobodyPending DEF Plain, Location
  <2>2. ~HandingOver(p)
    BY <1>1, OwnTask DEF HandingOver
  <2> QED
    BY <2>1, <2>2
<1>6. SamePending
  <2>1. \A u \in Task : Completed(u)' <=> Completed(u)
    BY <1>3 DEF Completed
  <2>2. \A u \in Task : HandingOver(u)' <=> HandingOver(u)
    BY <1>3 DEF HandingOver
  <2>3. \A u \in Task : Clearing(u)' <=> Clearing(u)
    BY <1>3 DEF Clearing
  <2>4. Pending(p)' = Pending(p)
    BY <1>2, <1>3, <1>5, <2>1, <2>2 DEF Pending
  <2>5. ASSUME NEW u \in Task, u # p PROVE Pending(u)' = Pending(u)
    BY <1>1, <1>3, <2>1, <2>2, <2>5 DEF Pending
  <2> QED
    BY <2>1, <2>2, <2>3, <2>4, <2>5 DEF SamePending
<1>7. CounterExact'
  BY <1>3, <1>6 DEF CounterExact, SamePending
<1>8. ~Suspended(p) /\ ~Woken(p)
  BY <1>1 DEF Suspended, Woken
<1>9. Awaited'
  <2>1. \A u \in Task \ {p} : Suspended(u) => Suspended(u)'
    BY <1>3, <1>6 DEF Suspended, SamePending
  <2>2. \A u \in Task \ {p} : Woken(u) => Woken(u)'
    BY <1>3, <1>6 DEF Woken, SamePending
  <2>3. \A u \in Task, q \in Runner : Waking(q, u)' <=> Waking(q, u)
    <3>1. \A q \in Runner : pc[q] = "reawaken" => current[q] \in Task /\ current[q] # t
      BY <1>1, WorkingTask DEF Untouched
    <3> QED
      BY <1>3, <3>1 DEF Waking
  <2>4. ASSUME NEW u \in Task, Pending(u)' # {} PROVE Suspended(u)'
    BY <1>6, <1>8, <2>1, <2>4 DEF Awaited, SamePending
  <2>5. ASSUME NEW u \in Task, NEW q \in Runner,
               u \in Range(toReawaken'[q]) \/ Waking(q, u)'
        PROVE  Woken(u)'
    BY <1>3, <1>8, <2>2, <2>3, <2>5 DEF Awaited
  <2> QED
    BY <1>3, <2>3, <2>4, <2>5 DEF Awaited
<1>10. Placed'
  BY <1>3 DEF Placed
<1>11. Born'
  <2>1. \A u : Untouched(u)' <=> Untouched(u)
    BY <1>3 DEF Untouched
  <2>2. parent'[Root] = NoTask /\ (main' = "start" => Untouched(Root)')
    BY <1>1, <1>3, <2>1, TaskPoolAssumption DEF Born
  <2>3. ASSUME NEW u \in Task
        PROVE  /\ u # Root /\ parent'[u] = NoTask => Untouched(u)'
               /\ ctx'[u] = "none" => toFork'[u] = <<>> /\ turn'[u] = 0
               /\ IsInjective(toFork'[u])
    <3>1. CASE u = p
      BY <1>1, <1>2, <1>3, <2>1, <3>1 DEF Born
    <3>2. CASE u # p
      BY <1>1, <1>3, <2>1, <3>2 DEF Born
    <3> QED
      BY <3>1, <3>2
  <2>4. ASSUME NEW u \in Task, parent'[u] # NoTask
        PROVE  ctx'[parent'[u]] # "none" /\ gen'[u] \in 1..turn'[parent'[u]]
    <3>1. CASE u = t
      BY <1>1, <1>3, <3>1
    <3>2. CASE u # t
      BY <1>3, <2>4, <3>2 DEF Born
    <3> QED
      BY <3>1, <3>2
  <2>5. ASSUME NEW u \in Task, NEW c \in Range(toFork'[u])
        PROVE  parent'[c] = u /\ (Untouched(c)' \/ Clearing(u)')
    <3>1. CASE u = p /\ c = t
      BY <1>1, <1>3, <2>1, <3>1
    <3>2. CASE ~(u = p /\ c = t)
      <4>1. c \in Range(toFork[u]) /\ toFork[u] \in Seq(Task)
        BY <1>2, <1>3, <2>5, <3>2 DEF TypeOK
      <4>2. c \in Task /\ parent[c] = u
        BY <4>1, SeqRange DEF Born
      <4>3. c # t
        BY <1>1, <4>2
      <4>4. Untouched(c) \/ Clearing(u)
        BY <4>1 DEF Born
      <4> QED
        BY <1>3, <1>6, <2>1, <4>2, <4>3, <4>4 DEF SamePending
    <3> QED
      BY <3>1, <3>2
  <2> QED
    BY <2>2, <2>3, <2>4, <2>5 DEF Born
<1>12. Turns'
  <2>1. ASSUME NEW q \in Runner, pc[q] = "resume" PROVE toFork'[current[q]] = <<>>
    <3>1. current[q] \in Task /\ current[q] # p
      BY <1>1, <2>1, WorkingTask, OwnTask
    <3> QED
      BY <1>3, <2>1, <3>1 DEF Turns
  <2>2. ASSUME NEW q \in Runner, NEW u \in Task, current[q] = u, pc[q] = "enqueue"
        PROVE  Pending(u)' \subseteq Range(toFork'[u])
    <3>1. u # p
      BY <1>1, <2>2, OwnTask
    <3> QED
      BY <1>3, <1>6, <2>2, <3>1 DEF Turns, SamePending
  <2> QED
    BY <1>3, <2>1, <2>2 DEF Turns
<1>13. JoinComplete'
  <2>1. ~IsReady(t)'
    <3>1. \A g \in ready[p] : g < turn[p] /\ g \in 1..MaxTurns
      BY <1>1 DEF Turns, TypeOK
    <3> QED
      BY <1>1, <1>3, <3>1 DEF IsReady
  <2> QED
    BY <1>3, <1>6, <2>1 DEF JoinComplete, SamePending, IsReady
<1> QED
  BY <1>4, <1>7, <1>9, <1>10, <1>11, <1>12, <1>13

\* A child in its parent's hands is untouched until the parent clears it.
LEMMA Forked ==
  ASSUME IndInv, NEW p \in Task, ~Clearing(p), NEW c \in Range(toFork[p])
  PROVE  c \in Task /\ parent[c] = p /\ c # Root /\ Untouched(c) /\ ~Completed(c)
<1>1. toFork[p] \in Seq(Task) /\ NoTask \notin Task
  BY TaskPoolAssumption DEF IndInv, TypeOK
<1>2. c \in Task /\ parent[c] = p /\ Untouched(c)
  BY <1>1, SeqRange DEF IndInv, Born
<1> QED
  BY <1>1, <1>2 DEF IndInv, Born, Untouched, Completed

LEMMA TurnSuspendsStep ==
  ASSUME IndInv, NEW r \in Runner, TurnSuspends(r) PROVE IndInv'
<1> USE DEF IndInv, handleVars, poolVars
<1> PICK p \in Task : p = current[r]
  BY WorkingTask DEF TurnSuspends
<1>1. /\ pc[r] = "turn" /\ handler[p] /\ NoTask \notin Task
      /\ ctx[p] = "live" /\ turn[p] > 0 /\ toFork[p] \in Seq(Task)
  BY TaskPoolAssumption DEF TurnSuspends, Placed, Turns, TypeOK
<1>2. /\ pc'[r] = "enqueue" /\ \A q \in Runner \ {r} : pc'[q] = pc[q]
      /\ UNCHANGED <<poolVars, current, toReawaken, handleVars,
                     ctx, owner, toFork, turn, ready, handler, rval>>
      /\ outstanding'[p] = outstanding[p] + Len(toFork[p])
      /\ \A u \in Task \ {p} : outstanding'[u] = outstanding[u]
  BY <1>1 DEF TurnSuspends, Goto, TypeOK
<1>3. \A q \in Runner \ {r} : current[q] # p
  BY <1>1, OwnTask
<1>4. Pending(p) = {} /\ outstanding[p] = 0 /\ ~HandingOver(p) /\ ~Clearing(p)
  <2>1. Pending(p) = {} /\ outstanding[p] = 0
    BY <1>1, NobodyPending DEF Plain, Location
  <2> QED
    BY <1>1, <1>3, <2>1 DEF HandingOver, Clearing
<1>5. TypeOK'
  <2>1. pc' \in [Runner -> Location]
    BY DEF TurnSuspends, Goto, TypeOK, Location
  <2>2. outstanding' \in [Task -> Nat]
    BY <1>1, <1>4 DEF TurnSuspends, TypeOK
  <2> QED
    BY <1>2, <2>1, <2>2 DEF TypeOK
<1>6. \A u \in Task : /\ Completed(u)' <=> Completed(u)
                      /\ Clearing(u)' <=> Clearing(u)
  BY <1>1, <1>2 DEF Completed, Clearing
<1>7. /\ HandingOver(p)'
      /\ \A u \in Task \ {p} : HandingOver(u)' <=> HandingOver(u)
  BY <1>1, <1>2 DEF HandingOver
<1>8. \A u \in Task \ {p} : Pending(u)' = Pending(u)
  BY <1>2, <1>6, <1>7 DEF Pending
<1>9. Pending(p)' = Range(toFork[p])
  <2>1. Pending(p)' = {u \in Task : parent[u] = p /\ ~Completed(u)}
    BY <1>2, <1>6, <1>7 DEF Pending
  <2>2. \A u \in Range(toFork[p]) : u \in Task /\ parent[u] = p /\ ~Completed(u)
    BY <1>4, Forked
  <2>3. \A u \in Task : parent[u] = p /\ ~Completed(u) => u \in Range(toFork[p])
    BY <1>4 DEF Pending
  <2> QED
    BY <2>1, <2>2, <2>3
<1>10. CounterExact'
  <2>1. outstanding'[p] = Cardinality(Pending(p)')
    <3>1. Len(toFork[p]) \in Nat /\ Cardinality(Range(toFork[p])) = Len(toFork[p])
      BY <1>1, InjectiveCardinality DEF Born
    <3> QED
      BY <1>2, <1>4, <1>9, <3>1
  <2> QED
    BY <1>2, <1>8, <2>1 DEF CounterExact
<1>11. Awaited'
  <2>1. \A u \in Task \ {p} : Suspended(u) => Suspended(u)'
    BY <1>2, <1>6, <1>7 DEF Suspended
  <2>2. \A u \in Task \ {p} : Woken(u) => Woken(u)'
    BY <1>2, <1>6, <1>8 DEF Woken
  <2>3. \A u \in Task, q \in Runner : Waking(q, u)' <=> Waking(q, u)
    BY <1>1, <1>2 DEF Waking
  <2>4. ~Woken(p) /\ Suspended(p)'
    BY <1>1, <1>2, <1>3, <1>7 DEF Woken, Suspended
  <2>5. ASSUME NEW u \in Task, Pending(u)' # {} PROVE Suspended(u)'
    BY <1>8, <2>1, <2>4, <2>5 DEF Awaited
  <2>6. ASSUME NEW u \in Task, NEW q \in Runner,
               u \in Range(toReawaken'[q]) \/ Waking(q, u)'
        PROVE  Woken(u)'
    BY <1>2, <2>2, <2>3, <2>4, <2>6 DEF Awaited
  <2> QED
    BY <1>2, <2>3, <2>5, <2>6 DEF Awaited
<1>12. Placed'
  BY <1>1, <1>2, <1>3 DEF Placed
<1>13. Born'
  <2>1. \A u : Untouched(u)' <=> Untouched(u)
    BY <1>2 DEF Untouched
  <2> QED
    BY <1>2, <1>6, <2>1, TaskPoolAssumption DEF Born
<1>14. Turns'
  <2>1. ASSUME NEW q \in Runner, NEW u \in Task, current[q] = u, pc'[q] = "enqueue"
        PROVE  Pending(u)' \subseteq Range(toFork[u])
    BY <1>2, <1>3, <1>8, <1>9, <2>1 DEF Turns
  <2> QED
    BY <1>1, <1>2, <2>1 DEF Turns
<1>15. JoinComplete'
  BY <1>2, <1>6 DEF JoinComplete, IsReady
<1> QED
  BY <1>5, <1>10, <1>11, <1>12, <1>13, <1>14, <1>15

LEMMA EnqueueTasksStep ==
  ASSUME IndInv, NEW r \in Runner, EnqueueTasks(r) PROVE IndInv'
<1> USE DEF IndInv, handleVars, contextVars
<1> PICK p \in Task : p = current[r]
  BY WorkingTask DEF EnqueueTasks
<1>1. /\ pc[r] = "enqueue" /\ NoTask \notin Task
      /\ toFork[p] \in Seq(Task) /\ toCreate \in Seq(Task)
  BY TaskPoolAssumption DEF EnqueueTasks, TypeOK
<1>2. /\ pc'[r] = "clear"
      /\ \A q \in Runner \ {r} : pc'[q] = pc[q] \/ (pc[q] = "waiting" /\ pc'[q] = "getWork")
      /\ UNCHANGED <<main, terminating, current, toReawaken, handleVars, contextVars>>
      /\ toCreate' = toCreate \o toFork[p]
  BY <1>1 DEF EnqueueTasks, GotoAndNotify
<1>3. ~Clearing(p) /\ \A q \in Runner \ {r} : current[q] # p
  BY <1>1, OwnTask DEF Clearing
<1>4. \A c \in Range(toFork[p]) : c \in Task /\ parent[c] = p /\ c # Root /\ Untouched(c)
  BY <1>3, Forked
<1>5. /\ toCreate' \in Seq(Task) /\ IsInjective(toCreate')
      /\ Range(toCreate') = Range(toCreate) \cup Range(toFork[p])
  <2>1. Range(toCreate) \cap Range(toFork[p]) = {}
    BY <1>4 DEF Untouched
  <2>2. IsInjective(toCreate) /\ IsInjective(toFork[p])
    BY DEF Placed, Born
  <2> QED
    BY <1>1, <1>2, <2>1, <2>2, ConcatRange
<1>6. TypeOK'
  <2>1. pc' \in [Runner -> Location]
    BY DEF EnqueueTasks, GotoAndNotify, TypeOK, Location
  <2> QED
    BY <1>2, <1>5, <2>1 DEF TypeOK
<1>7. \A u \in Task : /\ Completed(u)' <=> Completed(u)
                      /\ HandingOver(u)' <=> HandingOver(u)
                      /\ u # p => (Clearing(u)' <=> Clearing(u))
  <2>1. \A u \in Task : Completed(u)' <=> Completed(u)
    BY <1>1, <1>2 DEF Completed
  <2>2. \A u \in Task : HandingOver(u)' <=> HandingOver(u)
    BY <1>1, <1>2 DEF HandingOver
  <2>3. \A u \in Task : u # p => (Clearing(u)' <=> Clearing(u))
    BY <1>1, <1>2 DEF Clearing
  <2> QED
    BY <2>1, <2>2, <2>3
<1>8. Clearing(p)'
  BY <1>2 DEF Clearing
<1>9. \A u \in Task : Pending(u)' = Pending(u)
  BY <1>2, <1>7 DEF Pending
<1>10. CounterExact'
  BY <1>2, <1>9 DEF CounterExact
<1>11. Awaited'
  <2>1. \A u \in Task : Suspended(u) => Suspended(u)'
    BY <1>2, <1>7 DEF Suspended
  <2>2. \A u \in Task \ {p} : Woken(u) => Woken(u)'
    BY <1>2, <1>7, <1>9 DEF Woken
  <2>3. \A u \in Task, q \in Runner : Waking(q, u)' <=> Waking(q, u)
    BY <1>1, <1>2 DEF Waking
  <2>4. ~Woken(p)
    BY <1>1 DEF Woken
  <2>5. ASSUME NEW u \in Task, Pending(u)' # {} PROVE Suspended(u)'
    BY <1>9, <2>1, <2>5 DEF Awaited
  <2>6. ASSUME NEW u \in Task, NEW q \in Runner,
               u \in Range(toReawaken'[q]) \/ Waking(q, u)'
        PROVE  Woken(u)'
    BY <1>2, <2>2, <2>3, <2>4, <2>6 DEF Awaited
  <2> QED
    BY <1>2, <2>3, <2>5, <2>6 DEF Awaited
<1>12. Placed'
  <2>1. \A u \in Range(toCreate') : ctx[u] = "none" /\ \A q \in Runner : current[q] # u
    BY <1>4, <1>5 DEF Placed, Untouched
  <2>2. \A q \in Runner :
          /\ pc'[q] = "create" <=> pc[q] = "create"
          /\ pc'[q] \in {"getWork", "waiting", "exited"}
               <=> pc[q] \in {"getWork", "waiting", "exited"}
    BY <1>1, <1>2
  <2> QED
    BY <1>2, <1>5, <2>1, <2>2 DEF Placed
<1>13. Born'
  <2>1. \A u : u \notin Range(toFork[p]) /\ Untouched(u) => Untouched(u)'
    BY <1>2, <1>5 DEF Untouched
  <2>2. parent[Root] = NoTask /\ (main = "start" => Untouched(Root)')
    BY <1>4, <2>1 DEF Born
  <2>3. \A u \in Task : u # Root /\ parent[u] = NoTask => Untouched(u)'
    BY <1>1, <1>4, <2>1 DEF Born
  <2>4. ASSUME NEW u \in Task, NEW c \in Range(toFork[u])
        PROVE  parent[c] = u /\ (Untouched(c)' \/ Clearing(u)')
    BY <1>4, <1>7, <1>8, <2>1, <2>4 DEF Born
  <2> QED
    BY <1>2, <2>2, <2>3, <2>4 DEF Born
<1>14. Turns'
  BY <1>1, <1>2, <1>9 DEF Turns
<1>15. JoinComplete'
  BY <1>2, <1>7 DEF JoinComplete, IsReady
<1> QED
  BY <1>6, <1>10, <1>11, <1>12, <1>13, <1>14, <1>15

LEMMA ClearForkedStep ==
  ASSUME IndInv, NEW r \in Runner, ClearForked(r) PROVE IndInv'
<1> USE DEF IndInv, handleVars, poolVars
<1> PICK p \in Task : p = current[r]
  BY WorkingTask DEF ClearForked
<1>1. pc[r] = "clear" /\ NoTask \notin Task
  BY TaskPoolAssumption DEF ClearForked
<1>2. /\ pc'[r] = "getWork" /\ \A q \in Runner \ {r} : pc'[q] = pc[q]
      /\ current'[r] = NoTask /\ \A q \in Runner \ {r} : current'[q] = current[q]
      /\ toFork'[p] = <<>> /\ \A u \in Task \ {p} : toFork'[u] = toFork[u]
      /\ UNCHANGED <<poolVars, toReawaken, handleVars,
                     ctx, owner, outstanding, turn, ready, handler, rval>>
  BY <1>1 DEF ClearForked, Goto, TypeOK
<1>3. \A q \in Runner \ {r} : current[q] # p
  BY <1>1, OwnTask
<1>4. \A q \in Runner : current'[q] # p
  BY <1>1, <1>2, <1>3
<1>5. TypeOK'
  <2>1. pc' \in [Runner -> Location] /\ current' \in [Runner -> Task \cup {NoTask}]
    BY DEF ClearForked, Goto, TypeOK, Location
  <2>2. toFork' \in [Task -> Seq(Task)]
    BY DEF ClearForked, TypeOK
  <2> QED
    BY <1>2, <2>1, <2>2 DEF TypeOK
<1>6. \A u \in Task :
        /\ Completed(u)' <=> Completed(u)
        /\ u # p => HandingOver(u)' <=> HandingOver(u)
        /\ u # p => Clearing(u)' <=> Clearing(u)
  <2>1. \A u \in Task : Completed(u)' <=> Completed(u)
    BY <1>1, <1>2 DEF Completed
  <2>2. \A u \in Task \ {p} : HandingOver(u)' <=> HandingOver(u)
    BY <1>1, <1>2 DEF HandingOver
  <2>3. \A u \in Task \ {p} : Clearing(u)' <=> Clearing(u)
    BY <1>1, <1>2 DEF Clearing
  <2> QED
    BY <2>1, <2>2, <2>3
<1>7. \A u \in Task : Pending(u)' = Pending(u)
  <2>1. HandingOver(p)
    BY <1>1 DEF HandingOver
  <2>2. Pending(p)' = Pending(p)
    BY <1>2, <1>6, <2>1, EmptyRange DEF Pending
  <2>3. ASSUME NEW u \in Task, u # p PROVE Pending(u)' = Pending(u)
    BY <1>2, <1>6, <2>3 DEF Pending
  <2> QED
    BY <2>2, <2>3
<1>8. CounterExact'
  BY <1>2, <1>7 DEF CounterExact
<1>9. Awaited'
  <2>1. \A u \in Task : Suspended(u) => Suspended(u)'
    BY <1>1, <1>2, <1>4, <1>6 DEF Suspended
  <2>2. \A u \in Task : Woken(u) => Woken(u)'
    BY <1>1, <1>2, <1>4, <1>6, <1>7 DEF Woken
  <2>3. \A u \in Task, q \in Runner : Waking(q, u)' <=> Waking(q, u)
    BY <1>1, <1>2 DEF Waking
  <2>4. ASSUME NEW u \in Task, Pending(u)' # {} PROVE Suspended(u)'
    BY <1>7, <2>1, <2>4 DEF Awaited
  <2>5. ASSUME NEW u \in Task, NEW q \in Runner,
               u \in Range(toReawaken'[q]) \/ Waking(q, u)'
        PROVE  Woken(u)'
    BY <1>2, <2>2, <2>3, <2>5 DEF Awaited
  <2> QED
    BY <1>2, <2>3, <2>4, <2>5 DEF Awaited
<1>10. Placed'
  <2>1. \A u \in Range(toCreate) : u \in Task
    BY SeqRange DEF TypeOK
  <2>2. \A u \in Range(toCreate) : ctx[u] = "none" /\ \A q \in Runner : current'[q] # u
    BY <1>1, <1>2, <2>1 DEF Placed
  <2> QED
    BY <1>1, <1>2, <2>2 DEF Placed
<1>11. Born'
  <2>1. \A u \in Task : Untouched(u) => Untouched(u)'
    BY <1>1, <1>2 DEF Untouched
  <2>2. ASSUME NEW u \in Task, NEW c \in Range(toFork'[u])
        PROVE  parent[c] = u /\ (Untouched(c)' \/ Clearing(u)')
    <3>1. u # p /\ c \in Range(toFork[u]) /\ toFork[u] \in Seq(Task)
      BY <1>2, <2>2, EmptyRange DEF TypeOK
    <3>2. c \in Task
      BY <3>1, SeqRange
    <3> QED
      BY <1>6, <2>1, <3>1, <3>2 DEF Born
  <2>3. \A u \in Task : IsInjective(toFork'[u])
    BY <1>2, EmptyRange DEF Born
  <2> QED
    BY <1>2, <2>1, <2>2, <2>3, TaskPoolAssumption DEF Born
<1>12. Turns'
  <2>1. \A q \in Runner, u \in Task :
          current'[q] = u /\ pc'[q] = "enqueue" => Pending(u)' \subseteq Range(toFork'[u])
    BY <1>2, <1>4, <1>7 DEF Turns
  <2>2. \A q \in Runner : pc[q] = "resume" => current[q] \in Task
    BY WorkingTask
  <2>3. \A q \in Runner : pc'[q] = "resume" => toFork'[current'[q]] = <<>>
    BY <1>2, <2>2 DEF Turns
  <2> QED
    BY <1>2, <2>1, <2>3 DEF Turns
<1>13. JoinComplete'
  BY <1>2, <1>6 DEF JoinComplete, IsReady
<1> QED
  BY <1>5, <1>8, <1>9, <1>10, <1>11, <1>12, <1>13
-----------------------------------------------------------------------------
(***************************************************************************)
(* The steps in which a task ends.                                         *)
(***************************************************************************)
LEMMA CompleteRootStep ==
  ASSUME IndInv, NEW r \in Runner, CompleteRoot(r) PROVE IndInv'
<1> USE DEF IndInv, handleVars, contextVars
<1>1. pc[r] = "complete" /\ current[r] = Root /\ Root \in Task /\ NoTask \notin Task
  BY TaskPoolAssumption DEF CompleteRoot
<1>2. /\ pc'[r] = "free"
      /\ \A q \in Runner \ {r} : pc'[q] = pc[q] \/ (pc[q] = "waiting" /\ pc'[q] = "getWork")
      /\ UNCHANGED <<main, toCreate, current, toReawaken, handleVars, contextVars>>
      /\ terminating' = TRUE
  BY DEF CompleteRoot, GotoAndNotify
<1>3. TypeOK'
  <2>1. pc' \in [Runner -> Location]
    BY DEF CompleteRoot, GotoAndNotify, TypeOK, Location
  <2> QED
    BY <1>2, <2>1 DEF TypeOK
<1>4. /\ Completed(Root)'
      /\ \A u \in Task \ {Root} : Completed(u)' <=> Completed(u)
  BY <1>1, <1>2 DEF Completed
<1>5. \A u \in Task : HandingOver(u)' <=> HandingOver(u)
  BY <1>1, <1>2 DEF HandingOver
<1>6. \A u \in Task : Clearing(u)' <=> Clearing(u)
  BY <1>1, <1>2 DEF Clearing
<1>7. \A u \in Task : Pending(u)' = Pending(u)
  <2>1. \A u \in Task : parent[u] \in Task => u # Root
    BY <1>1 DEF Born
  <2> QED
    BY <1>2, <1>4, <1>5, <2>1 DEF Pending
<1>8. CounterExact'
  BY <1>2, <1>7 DEF CounterExact
<1>9. Awaited'
  <2>1. \A u \in Task : Suspended(u) => Suspended(u)'
    BY <1>1, <1>2, <1>5 DEF Suspended
  <2>2. \A u \in Task : Woken(u) => Woken(u)'
    BY <1>1, <1>2, <1>6, <1>7 DEF Woken
  <2>3. \A u \in Task, q \in Runner : Waking(q, u)' <=> Waking(q, u)
    BY <1>1, <1>2 DEF Waking
  <2>4. ASSUME NEW u \in Task, Pending(u)' # {} PROVE Suspended(u)'
    BY <1>7, <2>1, <2>4 DEF Awaited
  <2>5. ASSUME NEW u \in Task, NEW q \in Runner,
               u \in Range(toReawaken'[q]) \/ Waking(q, u)'
        PROVE  Woken(u)'
    BY <1>2, <2>2, <2>3, <2>5 DEF Awaited
  <2> QED
    BY <1>2, <2>3, <2>4, <2>5 DEF Awaited
<1>10. Placed'
  <2>1. \A q \in Runner :
          /\ pc'[q] = "create" <=> pc[q] = "create"
          /\ pc'[q] \in {"getWork", "waiting", "exited"}
               <=> pc[q] \in {"getWork", "waiting", "exited"}
    BY <1>1, <1>2
  <2> QED
    BY <1>2, <2>1 DEF Placed
<1>11. Born'
  <2>1. \A u : Untouched(u) <=> Untouched(u)'
    BY <1>2 DEF Untouched
  <2> QED
    BY <1>2, <1>6, <2>1, TaskPoolAssumption DEF Born
<1>12. Turns'
  BY <1>1, <1>2, <1>7 DEF Turns
<1>13. JoinComplete'
  BY <1>1, <1>2, <1>4 DEF JoinComplete, IsReady
<1> QED
  BY <1>3, <1>8, <1>9, <1>10, <1>11, <1>12, <1>13

\* A task that reports to its parent is one the parent waits for.
LEMMA Reporting ==
  ASSUME IndInv, NEW r \in Runner, pc[r] \in {"notify", "reawaken"}
  PROVE  /\ current[r] \in Task /\ current[r] # Root
         /\ parent[current[r]] \in Task
         /\ pc[r] = "notify" => current[r] \in Pending(parent[current[r]])
<1>1. /\ current[r] \in Task /\ current[r] # Root /\ NoTask \notin Task
      /\ ctx[current[r]] = "live" /\ ~Untouched(current[r])
  BY WorkingTask, TaskPoolAssumption DEF IndInv, Turns, Placed, Untouched
<1>2. parent[current[r]] \in Task
  BY <1>1 DEF IndInv, Born, TypeOK
<1>3. ASSUME pc[r] = "notify" PROVE current[r] \in Pending(parent[current[r]])
  <2>1. ~Completed(current[r])
    BY <1>1, <1>3, OwnTask DEF Completed
  <2>2. \A p \in Task : Clearing(p) => HandingOver(p)
    BY DEF Clearing, HandingOver
  <2>3. current[r] \notin Range(toFork[parent[current[r]]])
          \/ HandingOver(parent[current[r]])
    BY <1>1, <1>2, <2>2 DEF IndInv, Born
  <2> QED
    BY <1>1, <2>1, <2>3 DEF Pending
<1> QED
  BY <1>1, <1>2, <1>3

LEMMA NotifyParentStep ==
  ASSUME IndInv, NEW r \in Runner, NotifyParent(r) PROVE IndInv'
<1> USE DEF IndInv, handleVars, poolVars
<1>1. /\ pc[r] = "notify" /\ NoTask \notin Task
      /\ UNCHANGED <<poolVars, current, toReawaken, handleVars,
                     ctx, owner, toFork, turn, ready, handler, rval>>
  BY TaskPoolAssumption DEF NotifyParent
<1> PICK t \in Task : t = current[r]
  BY <1>1, Reporting
<1> PICK p \in Task : p = parent[t]
  BY <1>1, Reporting
<1>2. /\ t \in Pending(p) /\ Suspended(p) /\ t # p /\ t # Root
      /\ \A q \in Runner \ {r} : current[q] # t
  <2>1. t \in Pending(p) /\ t # Root
    BY <1>1, Reporting
  <2>2. Suspended(p)
    BY <2>1 DEF Awaited
  <2> QED
    BY <1>1, <2>1, <2>2, OwnTask DEF Suspended
<1>3. /\ pc'[r] = IF outstanding[p] = 1 THEN "reawaken" ELSE "free"
      /\ \A q \in Runner \ {r} : pc'[q] = pc[q]
      /\ outstanding'[p] = outstanding[p] - 1
      /\ \A u \in Task \ {p} : outstanding'[u] = outstanding[u]
  BY DEF NotifyParent, Goto, TypeOK
<1>4. /\ Completed(t)'
      /\ \A u \in Task \ {t} : Completed(u)' <=> Completed(u)
  BY <1>1, <1>3 DEF Completed
<1>5. \A u \in Task : HandingOver(u)' <=> HandingOver(u)
  BY <1>1, <1>3 DEF HandingOver
<1>6. \A u \in Task : Clearing(u)' <=> Clearing(u)
  BY <1>1, <1>3 DEF Clearing
<1>7. Pending(p)' = Pending(p) \ {t}
  BY <1>1, <1>4, <1>5 DEF Pending
<1>8. \A u \in Task \ {p} : Pending(u)' = Pending(u)
  BY <1>1, <1>4, <1>5 DEF Pending
<1>9. /\ outstanding[p] \in Nat \ {0}
      /\ outstanding'[p] = Cardinality(Pending(p)')
      /\ outstanding[p] = 1 => Pending(p)' = {}
  <2>1. IsFiniteSet(Pending(p)) /\ IsFiniteSet(Pending(p) \ {t})
    BY TaskPoolAssumption, FS_Subset DEF Pending
  <2>2. /\ outstanding[p] \in Nat
        /\ Cardinality(Pending(p) \ {t}) = outstanding[p] - 1
        /\ Cardinality(Pending(p) \ {t}) \in Nat
    <3>1. outstanding[p] = Cardinality(Pending(p)) /\ outstanding[p] \in Nat
      BY DEF CounterExact, TypeOK
    <3>2. Cardinality(Pending(p) \ {t}) = Cardinality(Pending(p)) - 1
      BY <1>2, <2>1, FS_RemoveElement
    <3>3. Cardinality(Pending(p) \ {t}) \in Nat
      BY <2>1, FS_CardinalityType
    <3> QED
      BY <3>1, <3>2, <3>3
  <2>3. outstanding[p] = 1 => Pending(p) \ {t} = {}
    BY <2>1, <2>2, FS_EmptySet
  <2> QED
    BY <1>3, <1>7, <2>2, <2>3
<1>10. TypeOK'
  <2>1. pc' \in [Runner -> Location]
    BY DEF NotifyParent, Goto, TypeOK, Location
  <2>2. outstanding' \in [Task -> Nat]
    BY <1>9 DEF NotifyParent, TypeOK
  <2> QED
    BY <1>1, <2>1, <2>2 DEF TypeOK
<1>11. CounterExact'
  BY <1>3, <1>8, <1>9 DEF CounterExact
<1>12. \A u \in Task : Suspended(u) => Suspended(u)'
  BY <1>1, <1>3, <1>5 DEF Suspended
<1>13. \A u \in Task \ {p} : Woken(u) => Woken(u)'
  BY <1>1, <1>3, <1>6, <1>8 DEF Woken
<1>14. outstanding[p] = 1 => Woken(p)'
  <2>1. ASSUME NEW q \in Runner, current[q] = p PROVE pc[q] = "clear"
    <3>1. pc[q] \in {"enqueue", "clear"}
      BY <1>2, <2>1 DEF Suspended
    <3>2. ASSUME pc[q] = "enqueue" PROVE FALSE
      <4>1. t \in Range(toFork[p])
        BY <1>2, <2>1, <3>2 DEF Turns
      <4>2. ~Clearing(p)
        BY <1>1, <2>1, <3>2, OwnTask DEF Clearing
      <4>3. Untouched(t)
        BY <4>1, <4>2, Forked
      <4> QED
        BY <4>3 DEF Untouched
    <3> QED
      BY <3>1, <3>2
  <2>2. toFork[p] = <<>> \/ Clearing(p)
    BY <1>2, <2>1 DEF Suspended, HandingOver, Clearing
  <2>3. ctx[p] = "live" /\ handler[p] /\ turn[p] > 0
    BY <1>2 DEF Suspended
  <2>4. \A q \in Runner : current[q] = p => q # r
    BY <1>2
  <2> QED
    BY <1>1, <1>3, <1>6, <1>9, <2>1, <2>2, <2>3, <2>4 DEF Woken
<1>15. ~Woken(p)
  BY <1>2 DEF Woken
<1>16. Awaited'
  <2>1. \A u \in Task, q \in Runner \ {r} : Waking(q, u)' <=> Waking(q, u)
    BY <1>1, <1>3 DEF Waking
  <2>2. \A u \in Task : Waking(r, u)' <=> u = p /\ outstanding[p] = 1
    BY <1>1, <1>3 DEF Waking
  <2>3. \A q \in Runner : p \notin Range(toReawaken[q]) /\ ~Waking(q, p)
    BY <1>15 DEF Awaited
  <2>4. ASSUME NEW u \in Task, Pending(u)' # {} PROVE Suspended(u)'
    BY <1>2, <1>8, <1>12, <2>4 DEF Awaited
  <2>5. ASSUME NEW u \in Task, NEW q \in Runner,
               u \in Range(toReawaken'[q]) \/ Waking(q, u)'
        PROVE  Woken(u)'
    <3>1. CASE u = p
      BY <1>1, <1>14, <2>1, <2>2, <2>3, <2>5, <3>1
    <3>2. CASE u # p
      BY <1>1, <1>13, <2>1, <2>2, <2>5, <3>2 DEF Awaited
    <3> QED
      BY <3>1, <3>2
  <2>6. ASSUME NEW u \in Task, NEW q \in Runner, Waking(q, u)', NEW s \in Runner
        PROVE  u \notin Range(toReawaken'[s]) /\ (Waking(s, u)' => s = q)
    <3>1. CASE u = p
      BY <1>1, <2>1, <2>2, <2>3, <2>6, <3>1
    <3>2. CASE u # p
      BY <1>1, <2>1, <2>2, <2>6, <3>2 DEF Awaited
    <3> QED
      BY <3>1, <3>2
  <2> QED
    BY <2>4, <2>5, <2>6 DEF Awaited
<1>17. Placed'
  BY <1>1, <1>3 DEF Placed
<1>18. Born'
  <2>1. \A u : Untouched(u) <=> Untouched(u)'
    BY <1>1 DEF Untouched
  <2> QED
    BY <1>1, <1>6, <2>1, TaskPoolAssumption DEF Born
<1>19. Turns'
  <2>1. \A q \in Runner, u \in Task :
          current[q] = u /\ pc'[q] = "enqueue" => Pending(u)' \subseteq Range(toFork[u])
    BY <1>3, <1>7, <1>8 DEF Turns
  <2>2. UNCHANGED <<current, turn, ready, handler, toFork>>
    BY <1>1
  <2>3. /\ \A q \in Runner \ {r} : pc'[q] = pc[q]
        /\ pc[r] = "notify" /\ pc'[r] \in {"reawaken", "free"}
    BY <1>1, <1>3
  <2> QED
    BY <2>1, <2>2, <2>3 DEF Turns
<1>20. JoinComplete'
  BY <1>1, <1>4 DEF JoinComplete, IsReady
<1> QED
  BY <1>10, <1>11, <1>16, <1>17, <1>18, <1>19, <1>20

LEMMA ReawakenStep ==
  ASSUME IndInv, NEW r \in Runner, Reawaken(r) PROVE IndInv'
<1> USE DEF IndInv, handleVars, contextVars, poolVars
<1>1. pc[r] = "reawaken" /\ NoTask \notin Task
  BY TaskPoolAssumption DEF Reawaken
<1> PICK t \in Task : t = current[r]
  BY <1>1, Reporting
<1> PICK p \in Task : p = parent[t]
  BY <1>1, Reporting
<1>2. /\ Woken(p) /\ Waking(r, p) /\ t # p
      /\ \A q \in Runner : p \notin Range(toReawaken[q])
      /\ \A q \in Runner : Waking(q, p) => q = r
  <2>1. Waking(r, p)
    BY <1>1 DEF Waking
  <2>2. Woken(p)
    BY <2>1 DEF Awaited
  <2> QED
    BY <1>1, <2>1, <2>2 DEF Awaited, Woken
<1> PICK o \in Runner : o = owner[p]
  BY <1>2 DEF Placed, Woken
<1>3. /\ pc'[r] = "free"
      /\ \A q \in Runner \ {r} : pc'[q] = pc[q] \/ (pc[q] = "waiting" /\ pc'[q] = "getWork")
      /\ UNCHANGED <<poolVars, current, handleVars, contextVars>>
      /\ toReawaken'[o] = Append(toReawaken[o], p)
      /\ \A q \in Runner \ {o} : toReawaken'[q] = toReawaken[q]
  BY SMTT(30) DEF Reawaken, GotoAndNotify, TypeOK
<1>4. /\ Append(toReawaken[o], p) \in Seq(Task)
      /\ Range(toReawaken'[o]) = Range(toReawaken[o]) \cup {p}
      /\ IsInjective(toReawaken'[o])
  <2>1. toReawaken[o] \in Seq(Task) /\ IsInjective(toReawaken[o])
    BY DEF TypeOK, Placed
  <2>2. p \notin Range(toReawaken[o])
    BY <1>2
  <2>3. /\ Append(toReawaken[o], p) \in Seq(Task)
        /\ Range(Append(toReawaken[o], p)) = Range(toReawaken[o]) \cup {p}
        /\ IsInjective(Append(toReawaken[o], p))
    BY <2>1, <2>2, AppendRange
  <2> QED
    BY <1>3, <2>3
<1>5. TypeOK'
  <2>1. pc' \in [Runner -> Location]
    BY DEF Reawaken, GotoAndNotify, TypeOK, Location
  <2>2. toReawaken' \in [Runner -> Seq(Task)]
    BY <1>4 DEF Reawaken, TypeOK
  <2> QED
    BY <1>3, <2>1, <2>2 DEF TypeOK
<1>6. SamePending
  <2>1. \A u \in Task : Completed(u)' <=> Completed(u)
    BY <1>1, <1>3 DEF Completed
  <2>2. \A u \in Task : HandingOver(u)' <=> HandingOver(u)
    BY <1>1, <1>3 DEF HandingOver
  <2>3. \A u \in Task : Clearing(u)' <=> Clearing(u)
    BY <1>1, <1>3 DEF Clearing
  <2>4. \A u \in Task : Pending(u)' = Pending(u)
    BY <1>3, <2>1, <2>2 DEF Pending
  <2> QED
    BY <2>1, <2>2, <2>3, <2>4 DEF SamePending
<1>7. CounterExact'
  BY <1>3, <1>6 DEF CounterExact, SamePending
<1>8. Awaited'
  <2>1. \A u \in Task : Suspended(u) => Suspended(u)'
    BY <1>1, <1>3, <1>6 DEF Suspended, SamePending
  <2>2. \A u \in Task : Woken(u) => Woken(u)'
    <3> SUFFICES ASSUME NEW u \in Task, Woken(u) PROVE Woken(u)'
      OBVIOUS
    <3>1. /\ ctx'[u] = "live" /\ handler'[u] /\ turn'[u] > 0
          /\ toFork'[u] = <<>> \/ Clearing(u)'
          /\ Pending(u)' = {}
      BY <1>3, <1>6 DEF Woken, SamePending
    <3>2. \A q \in Runner : current'[q] = u => q # r /\ pc[q] = "clear"
      BY <1>1, <1>3 DEF Woken
    <3>3. \A q \in Runner : current'[q] = u => pc'[q] = "clear"
      BY <1>3, <3>2
    <3> QED
      BY <3>1, <3>3 DEF Woken
  <2>3. /\ \A u \in Task : ~Waking(r, u)'
        /\ \A u \in Task, q \in Runner \ {r} : Waking(q, u)' <=> Waking(q, u)
    BY SMTT(30), <1>1, <1>3 DEF Waking
  <2>4. \A u \in Task \ {p}, q \in Runner :
          u \in Range(toReawaken'[q]) <=> u \in Range(toReawaken[q])
    BY <1>3, <1>4
  <2>5. ASSUME NEW u \in Task, Pending(u)' # {} PROVE Suspended(u)'
    BY <1>6, <2>1, <2>5 DEF Awaited, SamePending
  <2>6. ASSUME NEW u \in Task, NEW q \in Runner,
               u \in Range(toReawaken'[q]) \/ Waking(q, u)'
        PROVE  Woken(u)'
    <3>1. CASE u = p
      BY <1>2, <2>2, <3>1
    <3>2. CASE u # p
      BY <2>2, <2>3, <2>4, <2>6, <3>2 DEF Awaited
    <3> QED
      BY <3>1, <3>2
  <2>7. ASSUME NEW u \in Task, NEW q \in Runner, Waking(q, u)', NEW s \in Runner
        PROVE  u \notin Range(toReawaken'[s]) /\ (Waking(s, u)' => s = q)
    <3>1. q # r /\ Waking(q, u) /\ u # p
      BY <1>2, <2>3, <2>7
    <3> QED
      BY <2>3, <2>4, <3>1 DEF Awaited
  <2> QED
    BY <2>5, <2>6, <2>7 DEF Awaited
<1>9. Placed'
  <2>1. \A q \in Runner :
          /\ pc'[q] = "create" <=> pc[q] = "create"
          /\ pc'[q] \in {"getWork", "waiting", "exited"}
               <=> pc[q] \in {"getWork", "waiting", "exited"}
    BY <1>1, <1>3
  <2>2. ASSUME NEW q \in Runner
        PROVE  /\ IsInjective(toReawaken'[q])
               /\ \A u \in Range(toReawaken'[q]) : ctx[u] = "live" /\ owner[u] = q
    <3>1. CASE q = o
      <4>1. ctx[p] = "live" /\ owner[p] = q
        BY <1>2, <3>1 DEF Woken
      <4>2. \A u \in Range(toReawaken[q]) : ctx[u] = "live" /\ owner[u] = q
        BY DEF Placed
      <4> QED
        BY <1>4, <3>1, <4>1, <4>2
    <3>2. CASE q # o
      <4>1. toReawaken'[q] = toReawaken[q]
        BY <1>3, <3>2
      <4> QED
        BY <4>1 DEF Placed
    <3> QED
      BY <3>1, <3>2
  <2>3. UNCHANGED <<toCreate, current, ctx, owner>>
    BY <1>3
  <2> QED
    BY <2>1, <2>2, <2>3 DEF Placed
<1>10. Born'
  <2>1. \A u : Untouched(u) <=> Untouched(u)'
    BY <1>3 DEF Untouched
  <2> QED
    <3>1. UNCHANGED <<main, parent, ctx, gen, turn, toFork>>
      BY <1>3
    <3>2. \A u \in Task : Clearing(u)' <=> Clearing(u)
      BY <1>6 DEF SamePending
    <3>3. (main = "start" => Untouched(Root)) <=> (main' = "start" => Untouched(Root)')
      BY <2>1, <3>1
    <3> QED
      BY <2>1, <3>1, <3>2, <3>3 DEF Born
<1>11. Turns'
  <2>1. UNCHANGED <<current, turn, ready, handler, toFork>>
    BY <1>3
  <2>2. \A q \in Runner :
          /\ pc'[q] = pc[q] \/ pc'[q] = "getWork" \/ (q = r /\ pc'[q] = "free")
          /\ pc'[q] = "getWork" /\ pc[q] # "getWork" => pc[q] = "waiting"
    BY <1>3
  <2> QED
    BY <1>1, <1>6, <2>1, <2>2 DEF Turns, SamePending
<1>12. JoinComplete'
  BY <1>3, <1>6 DEF JoinComplete, IsReady, SamePending
<1> QED
  BY <1>5, <1>7, <1>8, <1>9, <1>10, <1>11, <1>12

LEMMA FreeContextStep ==
  ASSUME IndInv, NEW r \in Runner, FreeContext(r) PROVE IndInv'
<1> USE DEF IndInv, handleVars, poolVars
<1> PICK t \in Task : t = current[r]
  BY WorkingTask DEF FreeContext
<1>1. pc[r] = "free" /\ NoTask \notin Task
  BY TaskPoolAssumption DEF FreeContext
<1>2. /\ pc'[r] = "getWork" /\ \A q \in Runner \ {r} : pc'[q] = pc[q]
      /\ current'[r] = NoTask /\ \A q \in Runner \ {r} : current'[q] = current[q]
      /\ ctx'[t] = "freed" /\ \A u \in Task \ {t} : ctx'[u] = ctx[u]
      /\ UNCHANGED <<poolVars, toReawaken, parent, gen, result, slot, got,
                     owner, outstanding, toFork, turn, ready, handler, rval>>
  BY DEF FreeContext, Goto, TypeOK
<1>3. /\ \A q \in Runner : current'[q] # t
      /\ \A q \in Runner \ {r} : current[q] # t
      /\ ctx[t] = "live"
  <2>1. \A q \in Runner \ {r} : current[q] # t
    BY <1>1, OwnTask
  <2> QED
    BY <1>1, <1>2, <2>1 DEF Placed
<1>4. TypeOK'
  <2>1. pc' \in [Runner -> Location] /\ current' \in [Runner -> Task \cup {NoTask}]
    BY DEF FreeContext, Goto, TypeOK, Location
  <2>2. ctx' \in [Task -> {"none", "live", "freed"}]
    BY DEF FreeContext, TypeOK
  <2>3. rooted' \in [Task -> BOOLEAN]
    BY DEF FreeContext, TypeOK
  <2> QED
    BY <1>2, <2>1, <2>2, <2>3 DEF TypeOK
<1>5. SamePending
  <2>1. Completed(t) /\ Completed(t)'
    BY <1>1, <1>2 DEF Completed
  <2>2. \A u \in Task \ {t} : Completed(u)' <=> Completed(u)
    BY <1>1, <1>2 DEF Completed
  <2>3. \A u \in Task : HandingOver(u)' <=> HandingOver(u)
    BY <1>1, <1>2 DEF HandingOver
  <2>4. \A u \in Task : Clearing(u)' <=> Clearing(u)
    BY <1>1, <1>2 DEF Clearing
  <2>5. \A u \in Task : Pending(u)' = Pending(u)
    BY <1>2, <2>1, <2>2, <2>3 DEF Pending
  <2> QED
    BY <2>1, <2>2, <2>3, <2>4, <2>5 DEF SamePending
<1>6. CounterExact'
  BY <1>2, <1>5 DEF CounterExact, SamePending
<1>7. ~Suspended(t) /\ ~Woken(t)
  BY <1>1 DEF Suspended, Woken
<1>8. Awaited'
  <2>1. \A u \in Task \ {t} : Suspended(u) => Suspended(u)'
    BY <1>1, <1>2, <1>5 DEF Suspended, SamePending
  <2>2. \A u \in Task \ {t} : Woken(u) => Woken(u)'
    BY <1>1, <1>2, <1>5 DEF Woken, SamePending
  <2>3. \A u \in Task, q \in Runner : Waking(q, u)' <=> Waking(q, u)
    BY <1>1, <1>2 DEF Waking
  <2>4. ASSUME NEW u \in Task, Pending(u)' # {} PROVE Suspended(u)'
    BY <1>5, <1>7, <2>1, <2>4 DEF Awaited, SamePending
  <2>5. ASSUME NEW u \in Task, NEW q \in Runner,
               u \in Range(toReawaken'[q]) \/ Waking(q, u)'
        PROVE  Woken(u)'
    BY <1>2, <1>7, <2>2, <2>3, <2>5 DEF Awaited
  <2> QED
    BY <1>2, <2>3, <2>4, <2>5 DEF Awaited
<1>9. Placed'
  <2>1. \A q \in Runner : t \notin Range(toReawaken[q])
    BY <1>7 DEF Awaited
  <2>2. \A q \in Runner : \A u \in Range(toReawaken[q]) : u \in Task
    BY SeqRange DEF TypeOK
  <2>3. \A u \in Range(toCreate) : u \in Task /\ u # t
    <3>1. Range(toCreate) \subseteq Task
      BY SeqRange DEF TypeOK
    <3> QED
      BY <1>3, <3>1 DEF Placed
  <2>4. \A u \in Range(toCreate) : ctx'[u] = "none" /\ \A q \in Runner : current'[q] # u
    BY <1>1, <1>2, <2>3 DEF Placed
  <2>5. \A q \in Runner : /\ IsInjective(toReawaken[q])
                          /\ \A u \in Range(toReawaken[q]) : ctx'[u] = "live" /\ owner[u] = q
    BY <1>2, <2>1, <2>2 DEF Placed
  <2>6. \A q \in Runner \ {r} : current[q] \in Task \/ current[q] = NoTask
    BY DEF TypeOK
  <2>7. \A u \in Task : ctx'[u] # "none" => owner[u] \in Runner
    BY <1>2, <1>3 DEF Placed
  <2>8. ASSUME NEW q \in Runner
        PROVE  /\ current'[q] = NoTask <=> pc'[q] \in {"getWork", "waiting", "exited"}
               /\ pc'[q] = "create" => ctx'[current'[q]] = "none"
               /\ current'[q] # NoTask /\ pc'[q] # "create" =>
                    ctx'[current'[q]] = "live" /\ owner[current'[q]] = q
    <3>1. CASE q = r
      BY <1>2, <3>1
    <3>2. CASE q # r
      <4>1. pc[q] = "create" => current[q] # NoTask
        BY DEF Placed
      <4> QED
        BY <1>2, <1>3, <2>6, <3>2, <4>1 DEF Placed
    <3> QED
      BY <3>1, <3>2
  <2>9. \A q, s \in Runner :
          q # s /\ pc'[q] = "create" /\ pc'[s] = "create" => current'[q] # current'[s]
    BY <1>2 DEF Placed
  <2> QED
    BY <1>2, <2>4, <2>5, <2>7, <2>8, <2>9 DEF Placed
<1>10. Born'
  <2>1. \A u \in Task : Untouched(u) => Untouched(u)'
    BY <1>1, <1>2, <1>3 DEF Untouched
  <2>2. \A u \in Task : \A c \in Range(toFork[u]) : c \in Task
    BY SeqRange DEF TypeOK
  <2>3. \A u \in Task : (ctx'[u] = "none" <=> ctx[u] = "none")
    BY <1>2, <1>3
  <2>4. \A u \in Task : parent[u] \in Task \cup {NoTask}
    BY DEF TypeOK
  <2>5. ASSUME NEW u \in Task, NEW c \in Range(toFork[u])
        PROVE  parent[c] = u /\ (Untouched(c)' \/ Clearing(u)')
    BY <1>5, <2>1, <2>2, <2>5 DEF Born, SamePending
  <2> QED
    BY <1>2, <2>1, <2>3, <2>4, <2>5, TaskPoolAssumption DEF Born
<1>11. Turns'
  <2>1. \A q \in Runner : pc[q] = "resume" => current[q] \in Task
    BY WorkingTask
  <2>2. \A q \in Runner, u \in Task :
          current'[q] = u /\ pc'[q] = "enqueue" => Pending(u)' \subseteq Range(toFork[u])
    BY <1>2, <1>5 DEF Turns, SamePending
  <2> QED
    BY <1>2, <2>1, <2>2 DEF Turns
<1>12. JoinComplete'
  BY <1>2, <1>5 DEF JoinComplete, IsReady, SamePending
<1> QED
  BY <1>4, <1>6, <1>8, <1>9, <1>10, <1>11, <1>12

-----------------------------------------------------------------------------
(***************************************************************************)
(* The invariant and what it implies.                                      *)
(***************************************************************************)
LEMMA StutterInv ==
  ASSUME IndInv, UNCHANGED vars PROVE IndInv'
<1> USE DEF vars, poolVars, runnerVars, handleVars, contextVars, IndInv
<1>1. SamePending
  BY DEF SamePending, Pending, Completed, HandingOver, Clearing
<1>2. TypeOK'
  BY DEF TypeOK
<1>3. Placed'
  BY DEF Placed
<1>4. Born'
  BY <1>1 DEF Born, Untouched, SamePending
<1>5. Turns'
  BY <1>1 DEF Turns, SamePending
<1>6. CounterExact' /\ Awaited'
  BY <1>1 DEF CounterExact, Awaited, Suspended, Woken, Waking, SamePending
<1>7. JoinComplete'
  BY <1>1 DEF JoinComplete, IsReady, SamePending
<1> QED
  BY <1>2, <1>3, <1>4, <1>5, <1>6, <1>7

LEMMA NextInv ==
  ASSUME IndInv, [Next]_vars PROVE IndInv'
<1>1. CASE StartPool
  BY <1>1, StartPoolStep
<1>2. CASE Shutdown
  BY <1>2, ShutdownStep
<1>3. ASSUME NEW r \in Runner, Step(r) PROVE IndInv'
  <2>1. CASE TakeReawakened(r)
    BY <2>1, TakeReawakenedStep
  <2>2. CASE Quit(r)
    BY <2>2, QuitStep
  <2>3. CASE TakeToCreate(r)
    BY <2>3, TakeToCreateStep
  <2>4. CASE Wait(r)
    BY <2>4, WaitStep
  <2>5. CASE CreateTaskContext(r)
    BY <2>5, CreateTaskContextStep
  <2>6. CASE BeginTurn(r)
    BY <2>6, BeginTurnStep
  <2>7. CASE Script(r)
    BY <2>7, ForkStep, GetStep, SetOncompletionStep, TurnFailsStep,
       TurnSuspendsStep, TurnLoopsStep, TurnCompletesStep DEF Script
  <2>8. CASE EnqueueTasks(r)
    BY <2>8, EnqueueTasksStep
  <2>9. CASE ClearForked(r)
    BY <2>9, ClearForkedStep
  <2>10. CASE CompleteRoot(r)
    BY <2>10, CompleteRootStep
  <2>11. CASE PackResult(r)
    BY <2>11, PackResultStep
  <2>12. CASE NotifyParent(r)
    BY <2>12, NotifyParentStep
  <2>13. CASE Reawaken(r)
    BY <2>13, ReawakenStep
  <2>14. CASE FreeContext(r)
    BY <2>14, FreeContextStep
  <2> QED
    BY <1>3, <2>1, <2>2, <2>3, <2>4, <2>5, <2>6, <2>7, <2>8, <2>9, <2>10,
       <2>11, <2>12, <2>13, <2>14 DEF Step
<1>4. CASE UNCHANGED vars
  BY <1>4, StutterInv
<1> QED
  BY <1>1, <1>2, <1>3, <1>4 DEF Next, Returned

\* In every behaviour of the pool, whatever its runners and the trees its
\* scripts build, the parts of IndInv hold together.
THEOREM Invariant == Spec => []IndInv
<1>1. Init => IndInv
  BY InitInv
<1>2. IndInv /\ [Next]_vars => IndInv'
  BY NextInv
<1> QED
  BY <1>1, <1>2, PTL DEF Spec

\* The variables of the pool, its runners, handles and contexts keep their types.
THEOREM TypeCorrect == Spec => []TypeOK
<1>1. IndInv => TypeOK
  BY DEF IndInv
<1> QED
  BY <1>1, Invariant, PTL

\* _outstandingChildren, updated without the lock by JS_ATOMIC_ADD and by the
\* decrement of onChildCompleted, is always the number of the children that
\* have been handed over and have not completed.
THEOREM CountersAreExact == Spec => []CounterExact
<1>1. IndInv => CounterExact
  BY DEF IndInv
<1> QED
  BY <1>1, Invariant, PTL

\* When get() may return the result of a task (its generation is ready), all
\* the tasks forked in that turn have completed: the join of fork/join.
THEOREM JoinsAreComplete == Spec => []JoinComplete
<1>1. IndInv => JoinComplete
  BY DEF IndInv
<1> QED
  BY <1>1, Invariant, PTL

\* "delete this" at the end of resume never frees a context that a runner, a
\* queue or a child still refers to.
THEOREM ContextsOutliveTheirUse == Spec => []NoUseAfterFree
<1>1. ASSUME IndInv PROVE NoUseAfterFree
  <2>1. ASSUME NEW r \in Runner, pc[r] = "reawaken"
        PROVE  ctx[parent[current[r]]] = "live"
    <3>1. PICK p \in Task : p = parent[current[r]]
      BY <1>1, <2>1, Reporting
    <3>2. Woken(p)
      BY <1>1, <2>1, <3>1 DEF IndInv, Awaited, Waking
    <3> QED
      BY <3>1, <3>2 DEF Woken
  <2>2. \A p \in Task : Pending(p) # {} => ctx[p] = "live"
    BY <1>1 DEF IndInv, Awaited, Suspended
  <2> QED
    BY <1>1, <2>1, <2>2 DEF IndInv, Placed, NoUseAfterFree
<1> QED
  BY <1>1, Invariant, PTL

\* A task is on one runner or in one queue, and there once: it never runs
\* twice, nor on two runners, although a parent is reawakened by whichever
\* child ends last and possibly before its own runner has let go of it.
THEOREM TasksHaveOneHome == Spec => []OneHome
<1>1. ASSUME IndInv PROVE OneHome
  <2>1. ASSUME NEW r \in Runner, NEW q \in Runner, current[r] \in Range(toReawaken[q])
        PROVE  pc[r] = "clear" /\ q = r
    <3>1. toReawaken[q] \in Seq(Task) /\ NoTask \notin Task
      BY <1>1, TaskPoolAssumption DEF IndInv, TypeOK
    <3>2. current[r] \in Task
      BY <2>1, <3>1, SeqRange
    <3>3. PICK p \in Task : p = current[r]
      BY <3>2
    <3>4. Woken(p) /\ owner[p] = q
      BY <1>1, <2>1, <3>3 DEF IndInv, Awaited, Placed
    <3>5. pc[r] = "clear"
      BY <3>3, <3>4 DEF Woken
    <3>6. owner[p] = r
      BY <1>1, <3>1, <3>3, <3>5 DEF IndInv, Placed
    <3> QED
      BY <3>4, <3>5, <3>6
  <2>2. ASSUME NEW r \in Runner, NEW q \in Runner, q # r
        PROVE  /\ current[q] = current[r] => current[r] = NoTask
               /\ Range(toReawaken[q]) \cap Range(toReawaken[r]) = {}
    <3>1. current[q] = current[r] => current[r] = NoTask
      BY <1>1, <2>2, OwnTask
    <3>2. Range(toReawaken[q]) \cap Range(toReawaken[r]) = {}
      BY <1>1, <2>2 DEF IndInv, Placed
    <3> QED
      BY <3>1, <3>2
  <2>3. ASSUME NEW r \in Runner
        PROVE  /\ IsInjective(toReawaken[r]) /\ current[r] \notin Range(toCreate)
               /\ Range(toReawaken[r]) \cap Range(toCreate) = {}
    BY <1>1 DEF IndInv, Placed
  <2> QED
    BY <1>1, <2>1, <2>2, <2>3 DEF IndInv, Placed, OneHome
<1> QED
  BY <1>1, Invariant, PTL

\* A context is worked on and queued only at the runner that created it, whose
\* JSRuntime its objects belong to.
THEOREM TasksNeverMove == Spec => []RunnerAffinity
<1>1. IndInv => RunnerAffinity
  BY DEF IndInv, Placed, RunnerAffinity
<1> QED
  BY <1>1, Invariant, PTL

\* When resume calls the completion callback, OnCompletionSlot holds one.
THEOREM CallbacksArePresent == Spec => []CallbackPresent
<1>1. IndInv => CallbackPresent
  BY DEF IndInv, Turns, CallbackPresent
<1> QED
  BY <1>1, Invariant, PTL

\* A runner asleep in getWork has nothing to do: everybody who adds work or
\* ends the pool does so under the lock and notifies.
THEOREM NobodySleepsOnWork == Spec => []NoSleepOnWork
<1>1. Init => NoSleepOnWork
  BY DEF Init, NoSleepOnWork
<1>2. ASSUME TypeOK, NoSleepOnWork, [Next]_vars PROVE NoSleepOnWork'
  <2> USE <1>2 DEF NoSleepOnWork, poolVars, handleVars, contextVars, runnerVars
  <2>1. CASE StartPool
    BY <2>1 DEF StartPool
  <2>2. CASE Shutdown
    BY <2>2 DEF Shutdown
  <2>3. ASSUME NEW r \in Runner, Step(r) PROVE NoSleepOnWork'
    <3> USE DEF Goto, GotoAndNotify
    <3>1. CASE TakeReawakened(r) \/ TakeToCreate(r)
      BY <3>1 DEF TakeReawakened, TakeToCreate, TypeOK
    <3>2. CASE Quit(r) \/ Wait(r)
      BY <3>2 DEF Quit, Wait, TypeOK
    <3>3. CASE CreateTaskContext(r) \/ BeginTurn(r)
      <4>1. /\ UNCHANGED <<toCreate, toReawaken, terminating>>
            /\ Goto(r, "resume") \/ Goto(r, "turn")
        BY <3>3 DEF CreateTaskContext, BeginTurn
      <4> QED
        BY <4>1 DEF TypeOK
    <3>4. CASE Script(r)
      BY <3>4 DEF Script, Fork, Get, SetOncompletion, TurnFails, TurnSuspends,
         TurnLoops, TurnCompletes, TypeOK
    <3>5. CASE EnqueueTasks(r) \/ CompleteRoot(r) \/ Reawaken(r)
      BY <3>5 DEF EnqueueTasks, CompleteRoot, Reawaken, TypeOK
    <3>6. CASE ClearForked(r) \/ PackResult(r) \/ NotifyParent(r) \/ FreeContext(r)
      <4>1. /\ UNCHANGED <<toCreate, toReawaken, terminating>>
            /\ \E l \in Location \ {"waiting"} : Goto(r, l)
        BY <3>6 DEF ClearForked, PackResult, NotifyParent, FreeContext, Location
      <4> QED
        BY <4>1 DEF TypeOK
    <3> QED
      BY <2>3, <3>1, <3>2, <3>3, <3>4, <3>5, <3>6 DEF Step
  <2>4. CASE UNCHANGED vars
    BY <2>4 DEF vars
  <2> QED
    BY <2>1, <2>2, <2>3, <2>4 DEF Next, Returned
<1> QED
  BY <1>1, <1>2, TypeCorrect, PTL DEF Spec

\* The handle of a task that has not completed is a root of the runtime of the
\* parent, so that no garbage collection deletes it under the pool.
THEOREM HandlesSurviveCollection == Spec => []HandlesStayRooted
<1>1. Init => HandlesStayRooted
  BY DEF Init, HandlesStayRooted
<1>2. ASSUME IndInv, HandlesStayRooted, [Next]_vars PROVE HandlesStayRooted'
  <2> USE <1>2 DEF HandlesStayRooted, poolVars, handleVars, contextVars, runnerVars
  <2>1. CASE StartPool \/ Shutdown
    BY SMTT(30), <2>1 DEF StartPool, Shutdown
  <2>2. ASSUME NEW r \in Runner, Step(r) PROVE HandlesStayRooted'
    <3>1. CASE \E t \in Task : Fork(r, t)
      BY <3>1 DEF Fork, IndInv, TypeOK
    <3>2. CASE CreateTaskContext(r)
      BY <3>2 DEF CreateTaskContext, IndInv, Placed, TypeOK
    <3>3. CASE FreeContext(r)
      BY <3>3 DEF FreeContext, IndInv, TypeOK
    <3>4. CASE UNCHANGED <<parent, ctx, rooted>>
      BY <3>4
    <3> QED
      BY <2>2, <3>1, <3>2, <3>3, <3>4 DEF Step, Script, TakeReawakened, Quit,
         TakeToCreate, Wait, BeginTurn, Get, SetOncompletion, TurnFails,
         TurnSuspends, TurnLoops, TurnCompletes, EnqueueTasks, ClearForked,
         CompleteRoot, PackResult, NotifyParent, Reawaken
  <2>3. CASE UNCHANGED vars
    BY <2>3 DEF vars
  <2> QED
    BY <2>1, <2>2, <2>3 DEF Next, Returned
<1> QED
  BY <1>1, <1>2, Invariant, PTL DEF Spec
-----------------------------------------------------------------------------
(***************************************************************************)
(* Where a task is before and after a step of one runner.                  *)
(***************************************************************************)
\* A runner works on u at one of the locations L.
At(u, L) == \E r \in Runner : current[r] = u /\ pc[r] \in L

\* A runner other than r does.
Others(r, u, L) == \E q \in Runner \ {r} : current[q] = u /\ pc[q] \in L

Ended   == {"reawaken", "free"}
Packing == {"notify", "reawaken", "free"}
Turning == {"resume", "turn", "enqueue", "complete", "notify"}

\* The other runners at most wake up.
StepOf(r) ==
  \A q \in Runner \ {r} :
    /\ current'[q] = current[q]
    /\ pc'[q] = pc[q] \/ (pc[q] = "waiting" /\ pc'[q] = "getWork")

LEMMA StepsAreLocal ==
  ASSUME TypeOK, NEW r \in Runner, Step(r)
  PROVE  StepOf(r)
<1> USE DEF StepOf, Goto, GotoAndNotify, TypeOK, poolVars, runnerVars, handleVars, contextVars
<1>1. CASE TakeReawakened(r) \/ TakeToCreate(r) \/ ClearForked(r) \/ FreeContext(r)
  BY <1>1 DEF TakeReawakened, TakeToCreate, ClearForked, FreeContext
<1>2. CASE Quit(r) \/ Wait(r) \/ CreateTaskContext(r) \/ BeginTurn(r)
  BY <1>2 DEF Quit, Wait, CreateTaskContext, BeginTurn
<1>3. CASE Script(r)
  BY <1>3 DEF Script, Fork, Get, SetOncompletion, TurnFails, TurnSuspends, TurnLoops,
              TurnCompletes
<1>4. CASE EnqueueTasks(r) \/ CompleteRoot(r) \/ Reawaken(r)
  BY <1>4 DEF EnqueueTasks, CompleteRoot, Reawaken
<1>5. CASE PackResult(r)
  BY <1>5 DEF PackResult
<1>6. CASE NotifyParent(r)
  BY <1>6 DEF NotifyParent
<1> QED
  BY <1>1, <1>2, <1>3, <1>4, <1>5, <1>6 DEF Step

LEMMA AtStep ==
  ASSUME NEW r \in Runner, StepOf(r), NEW u \in Task,
         NEW L \in SUBSET (Location \ {"waiting", "getWork"})
  PROVE  /\ At(u, L) <=> (current[r] = u /\ pc[r] \in L) \/ Others(r, u, L)
         /\ At(u, L)' <=> (current'[r] = u /\ pc'[r] \in L) \/ Others(r, u, L)
<1>1. \A q \in Runner \ {r} : /\ current'[q] = current[q]
                              /\ pc'[q] \in L <=> pc[q] \in L
  BY DEF StepOf
<1> QED
  BY <1>1 DEF At, Others

\* Nobody else works on the task of a runner.
LEMMA Alone ==
  ASSUME IndInv, NEW r \in Runner, current[r] \in Task, NEW L
  PROVE  ~Others(r, current[r], L)
BY OwnTask, TaskPoolAssumption DEF Others
-----------------------------------------------------------------------------
(***************************************************************************)
(* Results: the value a script gets is the one its task returned.          *)
(***************************************************************************)
\* onCompleted has dealt with the value of the task's last turn.
Reported(t) == ctx[t] = "freed" \/ At(t, Packing)

\* What get makes of a return value.
Answer(v) == IF v = "data" THEN "data" ELSE "null"

Silent(t) == result[t] = "none" /\ slot[t] = "null" /\ got[t] = "none"

Answered(t) ==
  /\ result[t] = "none" \/ result[t] = Answer(rval[t])
  /\ result[t] = "none" => slot[t] = Answer(rval[t])
  /\ got[t] = "none" \/ got[t] = Answer(rval[t])

\* The clone is in result until the first get moves it to the slot, and the
\* root's value goes nowhere.
Answers ==
  \A t \in Task : IF Reported(t) /\ t # Root THEN Answered(t) ELSE Silent(t)

\* A step that touches the results of no task and ends no task's turn.
LEMMA ReportedSame ==
  ASSUME IndInv, NEW r \in Runner, StepOf(r), UNCHANGED <<current, ctx>>,
         pc[r] \in Packing <=> pc'[r] \in Packing
  PROVE  \A u \in Task : Reported(u)' <=> Reported(u)
<1> SUFFICES ASSUME NEW u \in Task PROVE Reported(u)' <=> Reported(u)
  OBVIOUS
<1>1. Packing \in SUBSET (Location \ {"waiting", "getWork"})
  BY DEF Packing, Location
<1>2. At(u, Packing)' <=> At(u, Packing)
  BY <1>1, AtStep
<1> QED
  BY <1>2 DEF Reported

LEMMA AnswersSame ==
  ASSUME Answers, \A u \in Task : Reported(u)' <=> Reported(u),
         UNCHANGED <<result, slot, got, rval>>
  PROVE  Answers'
<1>1. \A u \in Task : /\ Answered(u)' <=> Answered(u)
                      /\ Silent(u)' <=> Silent(u)
  BY DEF Answered, Silent
<1> QED
  BY <1>1 DEF Answers

LEMMA AnswersStep ==
  ASSUME IndInv, Answers, NEW r \in Runner, Step(r)
  PROVE  Answers'
<1> USE DEF poolVars, runnerVars, handleVars, contextVars, Goto, GotoAndNotify
<1>1. StepOf(r) /\ TypeOK
  BY StepsAreLocal DEF IndInv
<1>2. Packing \in SUBSET (Location \ {"waiting", "getWork"}) /\ NoTask \notin Task
  BY TaskPoolAssumption DEF Packing, Location
<1>3. \A u \in Task :
        /\ Reported(u) <=>
             ctx[u] = "freed" \/ (current[r] = u /\ pc[r] \in Packing) \/ Others(r, u, Packing)
        /\ Reported(u)' <=>
             ctx'[u] = "freed" \/ (current'[r] = u /\ pc'[r] \in Packing)
                \/ Others(r, u, Packing)
  BY <1>1, <1>2, AtStep DEF Reported
<1>4. CASE Quit(r) \/ Wait(r) \/ EnqueueTasks(r) \/ NotifyParent(r) \/ Reawaken(r)
  <2>1. UNCHANGED <<current, ctx, result, slot, got, rval>>
    BY <1>4 DEF Quit, Wait, EnqueueTasks, NotifyParent, Reawaken
  <2>2. pc[r] \in Packing <=> pc'[r] \in Packing
    BY <1>1, <1>4 DEF Quit, Wait, EnqueueTasks, NotifyParent, Reawaken, TypeOK, Packing
  <2> QED
    BY <1>1, <2>1, <2>2, ReportedSame, AnswersSame
<1>5. CASE TakeReawakened(r) \/ TakeToCreate(r) \/ ClearForked(r)
  <2>1. UNCHANGED <<ctx, result, slot, got, rval>>
    BY <1>5 DEF TakeReawakened, TakeToCreate, ClearForked
  <2>2. pc[r] \notin Packing /\ pc'[r] \notin Packing
    BY <1>1, <1>5 DEF TakeReawakened, TakeToCreate, ClearForked, TypeOK, Packing
  <2>3. \A u \in Task : Reported(u)' <=> Reported(u)
    BY <1>3, <2>1, <2>2
  <2> QED
    BY <2>1, <2>3, AnswersSame
<1>6. CASE CreateTaskContext(r)
  <2>1. /\ pc[r] \notin Packing /\ pc'[r] \notin Packing
        /\ UNCHANGED <<current, result, slot, got, rval>>
    BY <1>1, <1>6 DEF CreateTaskContext, TypeOK, Packing
  <2>2. current[r] \in Task /\ ctx[current[r]] = "none"
    BY <1>6, WorkingTask DEF CreateTaskContext, IndInv, Placed
  <2>3. \A u \in Task : ctx'[u] = "freed" <=> ctx[u] = "freed"
    BY <1>1, <1>6, <2>2 DEF CreateTaskContext, TypeOK
  <2>4. \A u \in Task : Reported(u)' <=> Reported(u)
    BY <1>3, <2>1, <2>3
  <2> QED
    BY <2>1, <2>4, AnswersSame
<1>7. CASE BeginTurn(r) \/ SetOncompletion(r) \/ TurnSuspends(r) \/ TurnLoops(r)
           \/ \E t \in Task : Fork(r, t)
  <2>1. UNCHANGED <<current, ctx, result, slot, got, rval>>
    BY <1>7 DEF BeginTurn, SetOncompletion, TurnSuspends, TurnLoops, Fork
  <2>2. pc[r] \in Packing <=> pc'[r] \in Packing
    BY <1>1, <1>7 DEF BeginTurn, SetOncompletion, TurnSuspends, TurnLoops, Fork, TypeOK, Packing
  <2> QED
    BY <1>1, <2>1, <2>2, ReportedSame, AnswersSame
<1>8. ASSUME NEW t \in Task, Get(r, t) PROVE Answers'
  <2>1. /\ parent[t] = current[r] /\ IsReady(t) /\ pc[r] = "turn"
        /\ UNCHANGED <<pc, current, ctx, rval>>
        /\ slot' = [slot EXCEPT ![t] = IF result[t] # "none" THEN result[t] ELSE slot[t]]
        /\ result' = [result EXCEPT ![t] = "none"]
        /\ got' = [got EXCEPT ![t] = IF result[t] # "none" THEN result[t] ELSE slot[t]]
    BY <1>8 DEF Get
  <2>2. current[r] \in Task
    BY <2>1, WorkingTask
  <2>3. t # Root /\ Completed(t)
    BY <1>2, <2>1, <2>2 DEF IndInv, Born, JoinComplete
  <2>4. Reported(t)
    BY <2>3 DEF Completed, Reported, At, Packing
  <2>5. \A u \in Task : Reported(u)' <=> Reported(u)
    BY <1>1, <2>1, ReportedSame
  <2>6. Answered(t)
    BY <2>3, <2>4 DEF Answers
  <2>7. Answered(t)'
    BY <1>1, <2>1, <2>6 DEF Answered, TypeOK
  <2>8. \A u \in Task \ {t} : /\ Answered(u)' <=> Answered(u)
                              /\ Silent(u)' <=> Silent(u)
    BY <1>1, <2>1 DEF Answered, Silent, TypeOK
  <2> QED
    BY <2>3, <2>4, <2>5, <2>7, <2>8 DEF Answers
<1>9. CASE TurnFails(r) \/ TurnCompletes(r)
  <2>1. /\ pc[r] = "turn" /\ pc'[r] = "complete"
        /\ UNCHANGED <<current, ctx, result, slot, got>>
        /\ \A u \in Task \ {current[r]} : rval'[u] = rval[u]
    BY <1>1, <1>9 DEF TurnFails, TurnCompletes, TypeOK
  <2>2. \A u \in Task : Reported(u)' <=> Reported(u)
    BY <1>1, <2>1, ReportedSame DEF Packing
  <2>3. current[r] \in Task /\ ctx[current[r]] # "freed"
    BY <1>2, <2>1, WorkingTask DEF IndInv, Placed
  <2>4. ~Reported(current[r])
    BY <1>3, <2>1, <2>3, Alone DEF Packing
  <2>5. \A u \in Task : Silent(u)' <=> Silent(u)
    BY <2>1 DEF Silent
  <2>6. \A u \in Task \ {current[r]} : Answered(u)' <=> Answered(u)
    BY <2>1 DEF Answered
  <2> QED
    BY <2>2, <2>4, <2>5, <2>6 DEF Answers
<1>10. CASE CompleteRoot(r)
  <2>1. /\ UNCHANGED <<current, ctx, result, slot, got, rval>>
        /\ current[r] = Root
    BY <1>10 DEF CompleteRoot
  <2>2. \A u \in Task \ {Root} : Reported(u)' <=> Reported(u)
    BY <1>3, <2>1
  <2>3. \A u \in Task : /\ Answered(u)' <=> Answered(u)
                        /\ Silent(u)' <=> Silent(u)
    BY <2>1 DEF Answered, Silent
  <2> QED
    BY <2>2, <2>3 DEF Answers
<1>11. CASE PackResult(r)
  <2> PICK t \in Task : t = current[r]
    BY <1>11, WorkingTask DEF PackResult
  <2>1. /\ pc[r] = "complete" /\ pc'[r] = "notify" /\ t # Root
        /\ UNCHANGED <<current, ctx, slot, got, rval>>
        /\ result' = [result EXCEPT ![t] = Packed(rval[t])]
    BY <1>1, <1>11 DEF PackResult, TypeOK
  <2>2. ctx[t] # "freed"
    BY <1>2, <2>1 DEF IndInv, Placed
  <2>3. ~Reported(t) /\ Reported(t)'
    BY <1>3, <2>1, <2>2, Alone DEF Packing
  <2>4. \A u \in Task \ {t} : Reported(u)' <=> Reported(u)
    BY <1>3, <2>1
  <2>5. Silent(t) /\ rval[t] \in Outcome
    BY <1>1, <2>3 DEF Answers, TypeOK
  <2>6. Answered(t)'
    <3>1. result'[t] = Packed(rval[t]) /\ slot'[t] = "null" /\ got'[t] = "none"
      BY <1>1, <2>1, <2>5 DEF Silent, TypeOK
    <3> QED
      BY <2>1, <2>5, <3>1 DEF Answered, Answer, Packed, Outcome
  <2>7. \A u \in Task \ {t} : /\ Answered(u)' <=> Answered(u)
                              /\ Silent(u)' <=> Silent(u)
    BY <1>1, <2>1 DEF Answered, Silent, TypeOK
  <2> QED
    BY <2>1, <2>3, <2>4, <2>6, <2>7 DEF Answers
<1>12. CASE FreeContext(r)
  <2> PICK t \in Task : t = current[r]
    BY <1>12, WorkingTask DEF FreeContext
  <2>1. /\ pc[r] = "free" /\ current'[r] = NoTask
        /\ UNCHANGED <<result, slot, got, rval>>
        /\ ctx'[t] = "freed" /\ \A u \in Task \ {t} : ctx'[u] = ctx[u]
    BY <1>1, <1>12 DEF FreeContext, TypeOK
  <2>2. \A u \in Task : Reported(u)' <=> Reported(u)
    BY <1>2, <1>3, <2>1 DEF Packing
  <2> QED
    BY <2>1, <2>2, AnswersSame
<1> QED
  BY <1>4, <1>5, <1>6, <1>7, <1>8, <1>9, <1>10, <1>11, <1>12 DEF Step, Script

\* get shows what the last turn of a task returned, null where that could not
\* be cloned, whenever and however often it is called.
THEOREM GetsAreFaithful == Spec => []GetFaithful
<1>1. Init => Answers
  BY DEF Init, Answers, Reported, At, Packing, Silent
<1>2. ASSUME IndInv, Answers, [Next]_vars PROVE Answers'
  <2>1. CASE StartPool
    <3>1. \A u \in Task : At(u, Packing)' <=> At(u, Packing)
      BY <1>2, <2>1 DEF StartPool, At, Packing, IndInv, TypeOK
    <3> QED
      BY <1>2, <2>1, <3>1, AnswersSame DEF StartPool, handleVars, contextVars, Reported
  <2>2. CASE Shutdown \/ UNCHANGED vars
    <3>1. UNCHANGED <<pc, current, ctx, result, slot, got, rval>>
      BY <2>2 DEF Shutdown, vars, runnerVars, handleVars, contextVars
    <3>2. \A u \in Task : Reported(u)' <=> Reported(u)
      BY <3>1 DEF Reported, At
    <3> QED
      BY <1>2, <3>1, <3>2, AnswersSame
  <2> QED
    BY <1>2, <2>1, <2>2, AnswersStep DEF Next, Returned
<1>3. Answers => GetFaithful
  BY DEF Answers, Answered, Silent, Answer, GetFaithful
<1> QED
  BY <1>1, <1>2, <1>3, Invariant, PTL DEF Spec
-----------------------------------------------------------------------------
(***************************************************************************)
(* Termination: when the root ends the pool, nothing is left.              *)
(***************************************************************************)
\* Parents form a tree: no set of tasks holds all its members' parents.
Tree == \A S \in SUBSET Task : (\A t \in S : parent[t] \in S) => S = {}

\* A task forked now has no children, and another one as its parent.
LEMMA TreeGrows ==
  ASSUME IndInv, Tree, NEW r \in Runner, NEW t \in Task, Fork(r, t)
  PROVE  Tree'
<1>1. /\ current[r] \in Task /\ NoTask \notin Task /\ parent' = [parent EXCEPT ![t] = current[r]]
      /\ t # Root /\ parent[t] = NoTask
  BY WorkingTask, TaskPoolAssumption DEF Fork
<1>2. Untouched(t)
  BY <1>1 DEF IndInv, Born
<1>3. t # current[r] /\ \A u \in Task : parent[u] # t
  BY <1>1, <1>2 DEF IndInv, Born, Untouched
<1> SUFFICES ASSUME NEW S \in SUBSET Task, \A u \in S : parent'[u] \in S PROVE S = {}
  BY DEF Tree
<1>4. \A u \in Task : parent'[u] = IF u = t THEN current[r] ELSE parent[u]
  BY <1>1 DEF IndInv, TypeOK
<1>5. \A u \in S \ {t} : parent[u] \in S \ {t}
  BY <1>3, <1>4
<1>6. S \ {t} = {}
  BY <1>5 DEF Tree
<1> QED
  BY <1>3, <1>4, <1>6

LEMMA TreeStays ==
  ASSUME IndInv, Tree, [Next]_vars
  PROVE  Tree'
<1> USE DEF poolVars, runnerVars, handleVars, contextVars
<1>1. ASSUME NEW r \in Runner, Step(r) PROVE Tree'
  <2>1. CASE \E t \in Task : Fork(r, t)
    BY <2>1, TreeGrows
  <2>2. CASE UNCHANGED parent
    BY <2>2 DEF Tree
  <2> QED
    BY <1>1, <2>1, <2>2 DEF Step, Script, TakeReawakened, Quit, TakeToCreate, Wait,
       CreateTaskContext, BeginTurn, Get, SetOncompletion, TurnFails, TurnSuspends,
       TurnLoops, TurnCompletes, EnqueueTasks, ClearForked, CompleteRoot, PackResult,
       NotifyParent, Reawaken, FreeContext
<1>2. CASE StartPool \/ Shutdown \/ UNCHANGED vars
  <2>1. UNCHANGED parent
    BY <1>2 DEF StartPool, Shutdown, vars
  <2> QED
    BY <2>1 DEF Tree
<1> QED
  BY <1>1, <1>2 DEF Next, Returned

\* The tasks below the root that the pool still has something to do for.
Unfinished ==
  {t \in Task \ {Root} :
     /\ ~Completed(t)
     /\ \/ ctx[t] = "live"
        \/ t \in Range(toCreate)
        \/ \E q \in Runner : current[q] = t}

\* Each of them is awaited by its parent, which is then unfinished itself.
LEMMA UnfinishedAwaited ==
  ASSUME IndInv, NEW t \in Unfinished
  PROVE  /\ parent[t] \in Task /\ Suspended(parent[t])
         /\ parent[t] # Root => parent[t] \in Unfinished
<1>1. t \in Task /\ t # Root /\ ~Completed(t) /\ ~Untouched(t) /\ NoTask \notin Task
  BY TaskPoolAssumption DEF Unfinished, Untouched
<1>2. parent[t] # NoTask
  BY <1>1 DEF IndInv, Born
<1>3. PICK p \in Task : p = parent[t]
  BY <1>1, <1>2 DEF IndInv, TypeOK
<1>4. t \in Range(toFork[p]) => Clearing(p)
  BY <1>1 DEF IndInv, Born
<1>5. t \in Pending(p)
  BY <1>1, <1>3, <1>4 DEF Pending, Clearing, HandingOver
<1>6. Suspended(p)
  BY <1>5 DEF IndInv, Awaited
<1>7. ctx[p] = "live" /\ ~Completed(p)
  BY <1>6 DEF Suspended, Completed
<1> QED
  BY <1>3, <1>6, <1>7 DEF Unfinished

\* Nobody is left to run once the root ends the pool.
Drained ==
  terminating =>
    /\ main # "start"
    /\ toCreate = <<>>
    /\ \A r \in Runner :
         toReawaken[r] = <<>> /\ pc[r] \in {"getWork", "waiting", "free", "exited"}
    /\ \A t \in Task : ctx[t] = "live" => At(t, {"free"})

\* The root completes: it waits for nobody, so by the tree nobody waits.
LEMMA RootEndsAll ==
  ASSUME IndInv, Tree, NEW r \in Runner, CompleteRoot(r)
  PROVE  Drained'
<1>1. /\ pc[r] = "complete" /\ current[r] = Root /\ Root \in Task /\ NoTask \notin Task
      /\ UNCHANGED <<main, toCreate, current, toReawaken, ctx>>
      /\ pc'[r] = "free"
      /\ \A q \in Runner \ {r} :
           pc'[q] = pc[q] \/ (pc[q] = "waiting" /\ pc'[q] = "getWork")
  BY TaskPoolAssumption
     DEF CompleteRoot, GotoAndNotify, IndInv, TypeOK, handleVars, contextVars
<1>2. ~Suspended(Root) /\ ~Woken(Root) /\ ctx[Root] = "live" /\ ~Untouched(Root)
  BY <1>1 DEF Suspended, Woken, IndInv, Placed, Untouched
<1>3. Unfinished = {}
  <2>1. \A t \in Unfinished : parent[t] \in Unfinished
    BY <1>2, UnfinishedAwaited
  <2>2. Unfinished \in SUBSET Task
    BY DEF Unfinished
  <2> QED
    BY <2>1, <2>2 DEF Tree
<1>4. \A t \in Task \ {Root} : ctx[t] = "live" => At(t, Ended)
  BY <1>3 DEF Unfinished, Completed, At, Ended
<1>5. \A p \in Task : ~Woken(p)
  <2>1. ASSUME NEW p \in Task, p # Root, Woken(p) PROVE FALSE
    <3>1. ctx[p] = "live" /\ \A q \in Runner : current[q] = p => pc[q] = "clear"
      BY <2>1 DEF Woken
    <3> QED
      BY <1>4, <2>1, <3>1 DEF At, Ended
  <2> QED
    BY <1>2, <2>1
<1>6. main # "start"
  BY <1>2 DEF IndInv, Born
<1>7. toCreate = <<>>
  <2>1. toCreate \in Seq(Task) /\ Range(toCreate) \subseteq Task
    BY SeqRange DEF IndInv, TypeOK
  <2>2. ASSUME NEW t \in Range(toCreate) PROVE FALSE
    <3>1. /\ t \in Task /\ ctx[t] = "none" /\ t # Root
          /\ \A q \in Runner : current[q] # t
      BY <1>2, <2>1, <2>2 DEF IndInv, Placed
    <3>2. ~Completed(t)
      BY <3>1 DEF Completed
    <3> QED
      BY <1>3, <2>2, <3>1, <3>2 DEF Unfinished
  <2> QED
    BY <2>1, <2>2, NonemptyRange
<1>8. ASSUME NEW q \in Runner PROVE toReawaken[q] = <<>>
  <2>1. toReawaken[q] \in Seq(Task)
    BY DEF IndInv, TypeOK
  <2>2. Range(toReawaken[q]) \subseteq Task
    BY <2>1, SeqRange
  <2>3. \A p \in Range(toReawaken[q]) : Woken(p)
    BY <2>2 DEF IndInv, Awaited
  <2> QED
    BY <1>5, <2>1, <2>2, <2>3, NonemptyRange
<1>9. ASSUME NEW q \in Runner, q # r PROVE pc[q] \in {"getWork", "waiting", "free", "exited"}
  <2>1. CASE current[q] = NoTask
    BY <2>1 DEF IndInv, Placed
  <2>2. CASE current[q] # NoTask
    <3> PICK t \in Task : t = current[q]
      BY <2>2 DEF IndInv, TypeOK
    <3>1. t # Root
      BY <1>1, <1>9, OwnTask
    <3>2. Completed(t) /\ ctx[t] # "freed"
      BY <1>1, <1>3, <3>1 DEF Unfinished, IndInv, Placed
    <3>3. pc[q] \in {"reawaken", "free"}
      BY <1>1, <3>2, OwnTask DEF Completed
    <3>4. ASSUME pc[q] = "reawaken" PROVE FALSE
      <4>1. parent[t] \in Task
        BY <3>4, Reporting
      <4>2. Woken(parent[t])
        BY <3>4, <4>1 DEF IndInv, Awaited, Waking
      <4> QED
        BY <1>5, <4>1, <4>2
    <3> QED
      BY <3>3, <3>4
  <2> QED
    BY <2>1, <2>2
<1>10. ASSUME NEW t \in Task, ctx[t] = "live" PROVE At(t, {"free"})'
  <2>1. CASE t = Root
    BY <1>1, <2>1 DEF At
  <2>2. CASE t # Root
    <3>1. PICK q \in Runner : current[q] = t /\ pc[q] \in Ended
      BY <1>4, <1>10, <2>2 DEF At
    <3>2. q # r /\ pc[q] = "free"
      BY <1>1, <1>9, <3>1 DEF Ended
    <3> QED
      BY <1>1, <3>1, <3>2 DEF At
  <2> QED
    BY <2>1, <2>2
<1>11. \A q \in Runner : pc'[q] \in {"getWork", "waiting", "free", "exited"}
  BY <1>1, <1>9
<1> QED
  BY <1>1, <1>6, <1>7, <1>8, <1>10, <1>11 DEF Drained

LEMMA DrainedStays ==
  ASSUME IndInv, Tree, Drained, [Next]_vars
  PROVE  Drained'
<1> USE DEF poolVars, runnerVars, handleVars, contextVars
<1>1. CASE ~terminating
  <2>1. CASE terminating' = terminating
    BY <1>1, <2>1 DEF Drained
  <2>2. ASSUME NEW r \in Runner, CompleteRoot(r) PROVE Drained'
    BY Zenon, <2>2, RootEndsAll
  <2>3. ASSUME NEW r \in Runner, Step(r), ~CompleteRoot(r)
        PROVE  terminating' = terminating
    BY <2>3 DEF Step, Script, TakeReawakened, Quit, TakeToCreate, Wait, Fork,
       CreateTaskContext, BeginTurn, Get, SetOncompletion, TurnFails, TurnSuspends,
       TurnLoops, TurnCompletes, EnqueueTasks, ClearForked, PackResult, NotifyParent,
       Reawaken, FreeContext
  <2>4. CASE StartPool \/ Shutdown \/ UNCHANGED vars
    BY <2>1, <2>4 DEF StartPool, Shutdown, vars
  <2> QED
    BY Zenon, <2>1, <2>2, <2>3, <2>4 DEF Next, Returned
<1>2. CASE terminating
  <2> USE <1>2
  <2>1. ASSUME StartPool PROVE FALSE
    BY <2>1 DEF StartPool, Drained
  <2>2. CASE Shutdown
    BY <2>2 DEF Shutdown, Drained, At
  <2>3. CASE UNCHANGED vars
    BY <2>3 DEF vars, Drained, At
  <2>4. ASSUME NEW r \in Runner, Step(r) PROVE Drained'
    <3>1. pc[r] \in {"getWork", "waiting", "free", "exited"} /\ toReawaken[r] = <<>>
          /\ toCreate = <<>>
      BY DEF Drained
    <3>2. Quit(r) \/ FreeContext(r)
      BY <2>4, <3>1 DEF Step, Script, TakeReawakened, TakeToCreate, Wait, Fork,
         CreateTaskContext, BeginTurn, Get, SetOncompletion, TurnFails, TurnSuspends,
         TurnLoops, TurnCompletes, EnqueueTasks, ClearForked, CompleteRoot, PackResult,
         NotifyParent, Reawaken
    <3>3. StepOf(r) /\ TypeOK
      BY <2>4, StepsAreLocal DEF IndInv
    <3>4. {"free"} \in SUBSET (Location \ {"waiting", "getWork"})
      BY DEF Location
    <3>5. \A q \in Runner : pc'[q] \in {"getWork", "waiting", "free", "exited"}
      <4>1. pc'[r] \in {"getWork", "exited"}
        BY <3>2, <3>3 DEF Quit, FreeContext, Goto, TypeOK
      <4> QED
        BY <3>3, <4>1 DEF StepOf, Drained
    <3>6. UNCHANGED <<main, toCreate, toReawaken>>
      BY <3>2 DEF Quit, FreeContext
    <3>7. ASSUME NEW t \in Task, ctx'[t] = "live" PROVE At(t, {"free"})'
      <4>1. CASE Quit(r)
        <5>1. ctx[t] = "live" /\ pc[r] # "free" /\ current' = current
          BY <3>7, <4>1 DEF Quit
        <5>2. At(t, {"free"})
          BY <5>1 DEF Drained
        <5> QED
          BY <3>3, <3>4, <5>1, <5>2, AtStep
      <4>2. CASE FreeContext(r)
        <5>1. ctx[t] = "live" /\ current[r] # t
          BY <3>3, <3>7, <4>2 DEF FreeContext, TypeOK
        <5>2. At(t, {"free"})
          BY <5>1 DEF Drained
        <5> QED
          BY <3>3, <3>4, <5>1, <5>2, AtStep
      <4> QED
        BY <3>2, <4>1, <4>2
    <3> QED
      BY <3>5, <3>6, <3>7 DEF Drained
  <2> QED
    BY <2>1, <2>2, <2>3, <2>4 DEF Next, Returned
<1> QED
  BY <1>1, <1>2

\* When the root task ends the pool, no task is queued, running or suspended,
\* so that the runners may quit without another look at _toCreate.
THEOREM TerminationDrains == Spec => []DrainedAtTermination
<1>1. Init => Tree /\ Drained
  <2>1. ASSUME Init PROVE Tree
    <3> SUFFICES ASSUME NEW S \in SUBSET Task, \A t \in S : parent[t] \in S PROVE S = {}
      BY DEF Tree
    <3> QED
      BY <2>1, TaskPoolAssumption DEF Init
  <2> QED
    BY <2>1 DEF Init, Drained
<1>2. IndInv /\ Tree /\ Drained /\ [Next]_vars => Tree' /\ Drained'
  BY TreeStays, DrainedStays
<1>3. Drained => DrainedAtTermination
  BY DEF Drained, DrainedAtTermination, At
<1> QED
  BY <1>1, <1>2, <1>3, Invariant, PTL DEF Spec
-----------------------------------------------------------------------------
(***************************************************************************)
(* The refinement: a step of the pool is a step of ForkJoin, or none.      *)
(***************************************************************************)
\* Where the runner is that makes a step, and where the others are.
LEMMA Moves ==
  ASSUME IndInv, NEW r \in Runner, Step(r), NEW u \in Task
  PROVE  /\ InTurn(u) <=> (current[r] = u /\ pc[r] \in Turning) \/ Others(r, u, Turning)
         /\ InTurn(u)' <=> (current'[r] = u /\ pc'[r] \in Turning) \/ Others(r, u, Turning)
         /\ Clearing(u) <=> (current[r] = u /\ pc[r] = "clear") \/ Others(r, u, {"clear"})
         /\ Clearing(u)' <=> (current'[r] = u /\ pc'[r] = "clear") \/ Others(r, u, {"clear"})
         /\ Completed(u) <=> \/ ctx[u] = "freed"
                             \/ current[r] = u /\ pc[r] \in Ended
                             \/ Others(r, u, Ended)
         /\ Completed(u)' <=> \/ ctx'[u] = "freed"
                              \/ current'[r] = u /\ pc'[r] \in Ended
                              \/ Others(r, u, Ended)
<1>1. StepOf(r)
  BY StepsAreLocal DEF IndInv
<1>2. \A L \in {Turning, Ended, {"clear"}} : L \in SUBSET (Location \ {"waiting", "getWork"})
  BY DEF Turning, Ended, Location
<1>3. /\ At(u, Turning) <=> (current[r] = u /\ pc[r] \in Turning) \/ Others(r, u, Turning)
      /\ At(u, Turning)' <=> (current'[r] = u /\ pc'[r] \in Turning) \/ Others(r, u, Turning)
  BY <1>1, <1>2, AtStep
<1>4. /\ At(u, Ended) <=> (current[r] = u /\ pc[r] \in Ended) \/ Others(r, u, Ended)
      /\ At(u, Ended)' <=> (current'[r] = u /\ pc'[r] \in Ended) \/ Others(r, u, Ended)
  BY <1>1, <1>2, AtStep
<1>5. /\ At(u, {"clear"}) <=> (current[r] = u /\ pc[r] \in {"clear"}) \/ Others(r, u, {"clear"})
      /\ At(u, {"clear"})' <=> (current'[r] = u /\ pc'[r] \in {"clear"}) \/ Others(r, u, {"clear"})
  BY <1>1, <1>2, AtStep
<1>6. /\ InTurn(u) <=> At(u, Turning)
      /\ InTurn(u)' <=> At(u, Turning)'
  BY DEF InTurn, At, Turning
<1>7. /\ Clearing(u) <=> At(u, {"clear"})
      /\ Clearing(u)' <=> At(u, {"clear"})'
  BY DEF Clearing, At
<1>8. /\ Completed(u) <=> ctx[u] = "freed" \/ At(u, Ended)
      /\ Completed(u)' <=> ctx'[u] = "freed" \/ At(u, Ended)'
  BY DEF Completed, At, Ended
<1> QED
  BY <1>3, <1>4, <1>5, <1>6, <1>7, <1>8

\* A handle that is no longer in the hands of p.
LEMMA PublishedBy ==
  ASSUME NEW u \in Task, NEW p \in Task, parent[u] = p
  PROVE  Published(u) <=> u \notin Range(toFork[p]) \/ Clearing(p)
BY DEF Published, Clearing

LEMMA SameStatus ==
  ASSUME TypeOK, NEW u \in Task, ctx'[u] = ctx[u], parent'[u] = parent[u],
         Completed(u)' <=> Completed(u), InTurn(u)' <=> InTurn(u),
         parent[u] # NoTask => (Published(u)' <=> Published(u))
  PROVE  Status(u)' = Status(u)
<1>1. CASE ctx[u] = "none"
  BY <1>1 DEF Status
<1>2. CASE ctx[u] = "live"
  BY <1>2 DEF Status
<1>3. CASE ctx[u] = "freed"
  BY <1>3 DEF Status, Completed
<1> QED
  BY <1>1, <1>2, <1>3 DEF TypeOK

\* A step that shows nowhere in the tree.
LEMMA SameTree ==
  ASSUME IndInv, NEW r \in Runner, Step(r),
         UNCHANGED <<ctx, parent, toFork>>,
         \A L \in {Turning, Ended, {"clear"}} :
            \/ (pc[r] \in L <=> pc'[r] \in L) /\ current' = current
            \/ pc[r] \notin L /\ pc'[r] \notin L
  PROVE  \A u \in Task : Status(u)' = Status(u)
<1>1. \A u \in Task : /\ InTurn(u)' <=> InTurn(u)
                      /\ Clearing(u)' <=> Clearing(u)
                      /\ Completed(u)' <=> Completed(u)
  BY Moves
<1>2. \A u \in Task : parent[u] # NoTask => (Published(u)' <=> Published(u))
  <2> SUFFICES ASSUME NEW u \in Task, NEW p \in Task, parent[u] = p
               PROVE  Published(u)' <=> Published(u)
    BY DEF IndInv, TypeOK
  <2>1. Published(u)' <=> u \notin Range(toFork'[p]) \/ Clearing(p)'
    BY DEF Published, Clearing
  <2> QED
    BY <1>1, <2>1, PublishedBy
<1> QED
  BY <1>1, <1>2, SameStatus DEF IndInv

\* The tasks the runner does not work on, before or after.
LEMMA SameElsewhere ==
  ASSUME IndInv, NEW r \in Runner, Step(r), NEW u \in Task,
         u # current[r], u # current'[r], ctx'[u] = ctx[u], parent'[u] = parent[u],
         parent[u] # NoTask => (Published(u)' <=> Published(u))
  PROVE  Status(u)' = Status(u)
<1>1. /\ InTurn(u)' <=> InTurn(u)
      /\ Completed(u)' <=> Completed(u)
  BY Moves
<1> QED
  BY <1>1, SameStatus DEF IndInv

\* Nothing is published while lists of forked tasks stay as they are and
\* nobody comes to clear one or has done so.
LEMMA SamePublished ==
  ASSUME IndInv, NEW r \in Runner, Step(r), UNCHANGED <<parent, toFork>>,
         pc[r] # "clear", pc'[r] # "clear"
  PROVE  \A u \in Task : parent[u] # NoTask => (Published(u)' <=> Published(u))
<1> SUFFICES ASSUME NEW u \in Task, NEW p \in Task, parent[u] = p
             PROVE  Published(u)' <=> Published(u)
  BY DEF IndInv, TypeOK
<1>1. Published(u)' <=> u \notin Range(toFork'[p]) \/ Clearing(p)'
  BY DEF Published, Clearing
<1>2. Clearing(p)' <=> Clearing(p)
  BY Moves
<1> QED
  BY <1>1, <1>2, PublishedBy

\* The task of a runner is alive, and its status is told by the runner's place.
LEMMA WorkedOn ==
  ASSUME IndInv, NEW r \in Runner, Step(r), NEW t \in Task, t = current[r]
  PROVE  /\ pc[r] # "create" => ctx[t] = "live"
         /\ InTurn(t) <=> pc[r] \in Turning
         /\ Completed(t) <=> pc[r] \in Ended
         /\ Clearing(t) <=> pc[r] = "clear"
         /\ current'[r] = t => /\ InTurn(t)' <=> pc'[r] \in Turning
                               /\ Completed(t)' <=> ctx'[t] = "freed" \/ pc'[r] \in Ended
                               /\ Clearing(t)' <=> pc'[r] = "clear"
<1>1. ~Others(r, t, Turning) /\ ~Others(r, t, Ended) /\ ~Others(r, t, {"clear"})
  BY Alone
<1>2. ctx[t] # "freed" /\ (pc[r] # "create" => ctx[t] = "live")
  BY TaskPoolAssumption DEF IndInv, Placed
<1> QED
  BY <1>1, <1>2, Moves

\* Starting a task: createTaskContext.
LEMMA CreateStarts ==
  ASSUME IndInv, NEW r \in Runner, CreateTaskContext(r)
  PROVE  Abstract!Start(current[r])
<1> USE DEF poolVars, handleVars
<1> PICK t \in Task : t = current[r]
  BY WorkingTask DEF CreateTaskContext
<1>1. /\ pc[r] = "create" /\ pc'[r] = "resume" /\ Step(r) /\ NoTask \notin Task
      /\ UNCHANGED <<current, parent, toFork>>
      /\ ctx[t] = "none" /\ ctx'[t] = "live" /\ \A u \in Task \ {t} : ctx'[u] = ctx[u]
  BY TaskPoolAssumption DEF CreateTaskContext, Goto, Step, IndInv, TypeOK, Placed
<1>2. \A u \in Task \ {t} : Status(u)' = Status(u)
  BY <1>1, SamePublished, SameElsewhere
<1>3. Status(t) = "ready"
  <2>1. ~Completed(t) /\ ~Untouched(t)
    BY <1>1, WorkedOn DEF Ended, Untouched
  <2>2. CASE t = Root
    BY <1>1, <2>1, <2>2 DEF Status
  <2>3. CASE t # Root
    <3>1. PICK p \in Task : p = parent[t]
      BY <2>1, <2>3 DEF IndInv, Born, TypeOK
    <3>2. Published(t)
      BY <2>1, <3>1, PublishedBy DEF IndInv, Born
    <3> QED
      BY <1>1, <2>1, <2>3, <3>1, <3>2 DEF Status
  <2> QED
    BY <2>2, <2>3
<1>4. Status(t)' = "running"
  <2>1. InTurn(t)' /\ ~Completed(t)'
    BY <1>1, WorkedOn DEF Turning, Ended
  <2> QED
    BY <1>1, <2>1 DEF Status
<1> QED
  BY <1>1, <1>2, <1>3, <1>4 DEF Abstract!Start

\* Reawakening a task: its runner takes it from the queue.
LEMMA TakingResumes ==
  ASSUME IndInv, NEW r \in Runner, TakeReawakened(r)
  PROVE  Abstract!Resume(current'[r])
<1> USE DEF poolVars, handleVars, contextVars
<1>1. toReawaken[r] \in Seq(Task) /\ toReawaken[r] # <<>>
  BY DEF TakeReawakened, IndInv, TypeOK
<1> PICK p \in Task : p = Last(toReawaken[r]) /\ p \in Range(toReawaken[r])
  BY <1>1, PopRange
<1>2. /\ pc[r] = "getWork" /\ pc'[r] = "resume" /\ Step(r) /\ NoTask \notin Task
      /\ current[r] = NoTask /\ current'[r] = p
      /\ UNCHANGED <<ctx, parent, toFork>>
  BY TaskPoolAssumption DEF TakeReawakened, Goto, Step, IndInv, TypeOK, Placed
<1>3. Woken(p) /\ owner[p] = r
  BY DEF IndInv, Awaited, Placed
<1>4. \A q \in Runner : current[q] # p
  <2> SUFFICES ASSUME NEW q \in Runner, current[q] = p PROVE FALSE
    OBVIOUS
  <2>1. pc[q] = "clear"
    BY <1>3 DEF Woken
  <2>2. owner[p] = q
    BY <1>2, <2>1 DEF IndInv, Placed
  <2> QED
    BY <1>2, <1>3, <2>1, <2>2
<1>5. ctx[p] = "live" /\ Pending(p) = {} /\ toFork[p] = <<>>
  BY <1>3, <1>4 DEF Woken, Clearing
<1>6. Status(p) = "suspended"
  BY <1>4, <1>5 DEF Status, Completed, InTurn
<1>7. Status(p)' = "running"
  <2>1. /\ InTurn(p)' <=> pc'[r] \in Turning \/ Others(r, p, Turning)
        /\ Completed(p)' <=> ctx'[p] = "freed" \/ pc'[r] \in Ended \/ Others(r, p, Ended)
    BY <1>2, Moves
  <2>2. ~Others(r, p, Ended)
    BY <1>4 DEF Others
  <2> QED
    BY <1>2, <1>5, <2>1, <2>2 DEF Status, Turning, Ended
<1>8. \A u \in Task \ {p} : Status(u)' = Status(u)
  BY <1>2, SamePublished, SameElsewhere
<1>9. \A t \in Task : parent[t] = p => Status(t) = "done"
  <2> SUFFICES ASSUME NEW t \in Task, parent[t] = p PROVE Status(t) = "done"
    OBVIOUS
  <2>1. Completed(t)
    BY <1>5, EmptyRange DEF Pending
  <2>2. ctx[t] # "none"
    BY <1>2, <2>1 DEF Completed, IndInv, Placed
  <2> QED
    BY <2>1, <2>2 DEF Status
<1> QED
  BY <1>2, <1>6, <1>7, <1>8, <1>9 DEF Abstract!Resume, Abstract!Children

\* Finishing a task: onCompleted tells the pool or the parent.
LEMMA EndingFinishes ==
  ASSUME IndInv, NEW r \in Runner, Step(r), pc[r] \in {"complete", "notify"},
         pc'[r] \in Ended, UNCHANGED <<current, ctx, parent, toFork>>
  PROVE  Abstract!Finish(current[r])
<1> PICK t \in Task : t = current[r]
  BY WorkingTask
<1>1. Status(t) = "running" /\ Status(t)' = "done"
  <2>1. ctx[t] = "live" /\ InTurn(t) /\ ~Completed(t) /\ Completed(t)'
    BY WorkedOn DEF Turning, Ended
  <2> QED
    BY <2>1 DEF Status
<1>2. \A u \in Task \ {t} : Status(u)' = Status(u)
  BY SamePublished, SameElsewhere DEF Ended
<1> QED
  BY <1>1, <1>2 DEF Abstract!Finish

\* Forking a task.
LEMMA ForkForks ==
  ASSUME IndInv, NEW r \in Runner, NEW t \in Task, Fork(r, t)
  PROVE  Abstract!Fork(current[r], t)
<1> USE DEF poolVars, runnerVars
<1> PICK p \in Task : p = current[r]
  BY WorkingTask DEF Fork
<1>1. /\ pc[r] = "turn" /\ Step(r) /\ NoTask \notin Task /\ t # Root /\ parent[t] = NoTask
      /\ UNCHANGED <<pc, current, ctx>>
      /\ parent' = [parent EXCEPT ![t] = p]
      /\ toFork' = [toFork EXCEPT ![p] = Append(@, t)]
  BY TaskPoolAssumption DEF Fork, Step, Script
<1>2. Untouched(t) /\ t # p /\ ~Completed(t)
  BY <1>1 DEF IndInv, Born, Untouched, Completed
<1>3. /\ toFork[p] \in Seq(Task) /\ toFork'[p] = Append(toFork[p], t)
      /\ \A u \in Task \ {p} : toFork'[u] = toFork[u]
      /\ parent'[t] = p /\ \A u \in Task \ {t} : parent'[u] = parent[u]
  BY <1>1 DEF IndInv, TypeOK
<1>4. Range(toFork'[p]) = Range(toFork[p]) \cup {t}
  BY <1>3, AppendRange
<1>5. \A u \in Task : /\ InTurn(u)' <=> InTurn(u)
                      /\ Completed(u)' <=> Completed(u)
                      /\ Clearing(u)' <=> Clearing(u)
  BY <1>1, Moves
<1>6. ASSUME NEW u \in Task \ {t} PROVE Status(u)' = Status(u)
  <2>1. ASSUME NEW q \in Task, parent[u] = q PROVE Published(u)' <=> Published(u)
    <3>1. Published(u)' <=> u \notin Range(toFork'[q]) \/ Clearing(q)'
      BY <1>3, <2>1 DEF Published, Clearing
    <3>2. u \in Range(toFork'[q]) <=> u \in Range(toFork[q])
      BY <1>3, <1>4
    <3> QED
      BY <1>5, <2>1, <3>1, <3>2, PublishedBy
  <2>2. parent[u] # NoTask => (Published(u)' <=> Published(u))
    BY <2>1 DEF IndInv, TypeOK
  <2> QED
    BY <1>1, <1>3, <1>5, <2>2, SameStatus DEF IndInv
<1>7. Status(p) = "running" /\ Status(t) = "unborn"
  <2>1. ctx[p] = "live" /\ InTurn(p) /\ ~Completed(p)
    BY <1>1, WorkedOn DEF Turning, Ended
  <2> QED
    BY <1>1, <1>2, <2>1 DEF Status, Untouched
<1>8. Status(t)' = "forked"
  <2>1. ~Clearing(p)
    BY <1>1, WorkedOn
  <2>2. Published(t)' <=> t \notin Range(toFork'[p]) \/ Clearing(p)'
    BY <1>3 DEF Published, Clearing
  <2>3. ~Published(t)' /\ ctx'[t] = "none" /\ ~Completed(t)' /\ parent'[t] # NoTask
    BY <1>1, <1>2, <1>3, <1>4, <1>5, <2>1, <2>2 DEF Untouched
  <2> QED
    BY <1>1, <2>3 DEF Status
<1> QED
  BY <1>1, <1>6, <1>7, <1>8 DEF Abstract!Fork

\* The end of the list: it is published already, and its owner suspended.
LEMMA ClearingStutters ==
  ASSUME IndInv, NEW r \in Runner, ClearForked(r)
  PROVE  \A u \in Task : Status(u)' = Status(u)
<1> USE DEF poolVars, handleVars
<1> PICK p \in Task : p = current[r]
  BY WorkingTask DEF ClearForked
<1>1. /\ pc[r] = "clear" /\ pc'[r] = "getWork" /\ Step(r) /\ NoTask \notin Task
      /\ current'[r] = NoTask /\ UNCHANGED <<ctx, parent>>
      /\ toFork'[p] = <<>> /\ \A u \in Task \ {p} : toFork'[u] = toFork[u]
  BY TaskPoolAssumption DEF ClearForked, Goto, Step, IndInv, TypeOK
<1>2. \A u \in Task : /\ InTurn(u)' <=> InTurn(u)
                      /\ Completed(u)' <=> Completed(u)
  BY <1>1, Moves DEF Turning, Ended
<1>3. Clearing(p) /\ \A u \in Task \ {p} : Clearing(u)' <=> Clearing(u)
  BY <1>1, Moves
<1>4. ASSUME NEW u \in Task, NEW q \in Task, parent[u] = q
      PROVE  Published(u)' <=> Published(u)
  <2>1. Published(u)' <=> u \notin Range(toFork'[q]) \/ Clearing(q)'
    BY <1>1, <1>4 DEF Published, Clearing
  <2>2. Published(u) <=> u \notin Range(toFork[q]) \/ Clearing(q)
    BY <1>4, PublishedBy
  <2>3. CASE q = p
    BY <1>1, <1>3, <2>1, <2>2, <2>3, EmptyRange
  <2>4. CASE q # p
    BY <1>1, <1>3, <2>1, <2>2, <2>4
  <2> QED
    BY <2>3, <2>4
<1>5. \A u \in Task : parent[u] # NoTask => (Published(u)' <=> Published(u))
  BY <1>4 DEF IndInv, TypeOK
<1> QED
  BY <1>1, <1>2, <1>5, SameStatus DEF IndInv

\* A task that has ended stays so without its context.
LEMMA FreeingStutters ==
  ASSUME IndInv, NEW r \in Runner, FreeContext(r)
  PROVE  \A u \in Task : Status(u)' = Status(u)
<1> USE DEF poolVars
<1> PICK t \in Task : t = current[r]
  BY WorkingTask DEF FreeContext
<1>1. /\ pc[r] = "free" /\ pc'[r] = "getWork" /\ Step(r) /\ NoTask \notin Task
      /\ current'[r] = NoTask /\ UNCHANGED <<parent, toFork>>
      /\ ctx'[t] = "freed" /\ \A u \in Task \ {t} : ctx'[u] = ctx[u]
  BY TaskPoolAssumption DEF FreeContext, Goto, Step, IndInv, TypeOK
<1>2. \A u \in Task \ {t} : Status(u)' = Status(u)
  BY <1>1, SamePublished, SameElsewhere
<1>3. Status(t) = "done"
  <2>1. Completed(t) /\ ctx[t] = "live"
    BY <1>1, WorkedOn DEF Ended
  <2> QED
    BY <2>1 DEF Status
<1>4. Status(t)' = "done"
  BY <1>1 DEF Status, Completed
<1> QED
  BY <1>2, <1>3, <1>4

\* Joining: the children are handed over together.
LEMMA EnqueueingJoins ==
  ASSUME IndInv, NEW r \in Runner, EnqueueTasks(r), toFork[current[r]] # <<>>
  PROVE  Abstract!Join(current[r])
<1> USE DEF handleVars, contextVars
<1> PICK p \in Task : p = current[r]
  BY WorkingTask DEF EnqueueTasks
<1>1. /\ pc[r] = "enqueue" /\ pc'[r] = "clear" /\ Step(r) /\ NoTask \notin Task
      /\ UNCHANGED <<current, ctx, parent, toFork>>
  BY TaskPoolAssumption DEF EnqueueTasks, GotoAndNotify, Step, IndInv, TypeOK
<1>2. /\ ctx[p] = "live" /\ InTurn(p) /\ ~Completed(p) /\ ~Clearing(p)
      /\ ~InTurn(p)' /\ ~Completed(p)' /\ Clearing(p)'
  BY <1>1, WorkedOn DEF Turning, Ended
<1>3. Status(p) = "running" /\ Status(p)' = "suspended"
  BY <1>1, <1>2 DEF Status
<1>4. \A u \in Task \ {p} : Clearing(u)' <=> Clearing(u)
  BY <1>1, Moves
<1>5. \A u \in Task, q \in Task : parent[u] = q =>
        /\ Published(u) <=> u \notin Range(toFork[q]) \/ Clearing(q)
        /\ Published(u)' <=> u \notin Range(toFork[q]) \/ Clearing(q)'
  <2> SUFFICES ASSUME NEW u \in Task, NEW q \in Task, parent[u] = q
               PROVE  /\ Published(u) <=> u \notin Range(toFork[q]) \/ Clearing(q)
                      /\ Published(u)' <=> u \notin Range(toFork[q]) \/ Clearing(q)'
    OBVIOUS
  <2> QED
    BY <1>1 DEF Published, Clearing
<1>6. ASSUME NEW u \in Range(toFork[p])
      PROVE  u \in Task /\ u # p /\ parent[u] = p /\ Status(u) = "forked" /\ Status(u)' = "ready"
  <2>1. u \in Task /\ parent[u] = p /\ u # Root /\ Untouched(u) /\ ~Completed(u)
    BY <1>2, Forked
  <2>2. ctx[u] = "none" /\ u # p /\ u # current[r] /\ ~Completed(u)'
    <3>1. ctx[u] = "none" /\ u # p
      BY <2>1 DEF Untouched
    <3> QED
      BY <1>1, <2>1, <3>1, Moves
  <2>3. ~Published(u) /\ Published(u)'
    BY <1>2, <1>5, <2>1
  <2> QED
    BY <1>1, <2>1, <2>2, <2>3 DEF Status
<1>7. ASSUME NEW u \in Task \ {p}, u \notin Range(toFork[p])
      PROVE  /\ Status(u)' = Status(u)
             /\ parent[u] = p => Status(u) # "forked"
  <2>1. parent[u] # NoTask => (Published(u)' <=> Published(u))
    <3> SUFFICES ASSUME NEW q \in Task, parent[u] = q PROVE Published(u)' <=> Published(u)
      BY <1>7 DEF IndInv, TypeOK
    <3> QED
      BY <1>4, <1>5, <1>7
  <2>2. Status(u)' = Status(u)
    BY <1>1, <1>7, <2>1, SameElsewhere
  <2>3. ASSUME parent[u] = p PROVE Status(u) # "forked"
    <3>1. Published(u)
      BY <1>5, <1>7, <2>3
    <3>2. ctx[u] \in {"none", "live", "freed"}
      BY <1>7 DEF IndInv, TypeOK
    <3>3. CASE ctx[u] = "none"
      <4>1. ~Completed(u)
        BY <1>1, <3>3 DEF Completed, IndInv, Placed
      <4> QED
        BY <3>1, <3>3, <4>1 DEF Status
    <3>4. CASE ctx[u] = "live"
      BY <3>4 DEF Status
    <3>5. CASE ctx[u] = "freed"
      BY <3>5 DEF Status, Completed
    <3> QED
      BY <3>2, <3>3, <3>4, <3>5
  <2> QED
    BY <2>2, <2>3
<1>8. toFork[p] \in Seq(Task) /\ Range(toFork[p]) # {}
  <2>1. toFork[p] \in Seq(Task) /\ toFork[p] # <<>>
    BY DEF IndInv, TypeOK
  <2> QED
    BY <2>1, NonemptyRange
<1>9. \A u \in Task : parent[u] = p /\ Status(u) = "forked" <=> u \in Range(toFork[p])
  BY <1>3, <1>6, <1>7
<1>10. \A u \in Task : Status(u)' = IF u = p THEN "suspended"
                                    ELSE IF parent[u] = p /\ Status(u) = "forked" THEN "ready"
                                    ELSE Status(u)
  BY <1>3, <1>6, <1>7, <1>9
<1>11. \E u \in Task : parent[u] = p /\ Status(u) = "forked"
  BY <1>6, <1>8
<1> QED
  BY <1>1, <1>3, <1>10, <1>11 DEF Abstract!Join, Abstract!Forked, Abstract!Children

\* enqueueTasks is called with children to hand over.
HandsOver == \A r \in Runner : pc[r] = "enqueue" => toFork[current[r]] # <<>>

LEMMA HandsOverStep ==
  ASSUME IndInv, HandsOver, NEW r \in Runner, Step(r)
  PROVE  HandsOver'
<1> USE DEF poolVars, runnerVars, handleVars, contextVars
<1>1. StepOf(r) /\ TypeOK /\ NoTask \notin Task
  BY StepsAreLocal, TaskPoolAssumption DEF IndInv
<1>2. \A q \in Runner \ {r} : pc'[q] = "enqueue" => /\ pc[q] = "enqueue"
                                                    /\ current'[q] = current[q]
  BY <1>1 DEF StepOf
<1>3. \A q \in Runner : pc[q] = "enqueue" => current[q] \in Task
  BY WorkingTask
<1>4. CASE TurnSuspends(r)
  BY <1>1, <1>2, <1>4 DEF TurnSuspends, HandsOver
<1>5. CASE pc'[r] # "enqueue" /\ UNCHANGED toFork
  BY <1>2, <1>5 DEF HandsOver
<1>6. CASE ClearForked(r)
  <2>1. /\ pc[r] = "clear" /\ pc'[r] = "getWork"
        /\ \A u \in Task \ {current[r]} : toFork'[u] = toFork[u]
    BY <1>1, <1>6 DEF ClearForked, Goto, TypeOK
  <2>2. current[r] # NoTask
    BY <2>1, WorkingTask, <1>1
  <2>3. \A q \in Runner \ {r} : pc[q] = "enqueue" => current[q] # current[r]
    BY <2>2, OwnTask
  <2> QED
    BY <1>2, <1>3, <2>1, <2>3 DEF HandsOver
<1>7. ASSUME NEW t \in Task, Fork(r, t) PROVE HandsOver'
  <2>1. /\ pc[r] = "turn" /\ UNCHANGED <<pc, current>> /\ current[r] \in Task
        /\ \A u \in Task \ {current[r]} : toFork'[u] = toFork[u]
    BY <1>1, <1>7, WorkingTask DEF Fork, TypeOK
  <2>2. \A q \in Runner \ {r} : pc[q] = "enqueue" => current[q] # current[r]
    BY <1>1, <2>1, OwnTask
  <2> QED
    BY <1>2, <1>3, <2>1, <2>2 DEF HandsOver
<1>8. ASSUME ~TurnSuspends(r), ~ClearForked(r), \A t \in Task : ~Fork(r, t)
      PROVE  pc'[r] # "enqueue" /\ UNCHANGED toFork
  <2> USE <1>1 DEF TypeOK, Goto, GotoAndNotify
  <2>1. CASE TakeReawakened(r) \/ TakeToCreate(r) \/ Quit(r) \/ Wait(r) \/ FreeContext(r)
    BY <2>1 DEF TakeReawakened, TakeToCreate, Quit, Wait, FreeContext
  <2>2. CASE CreateTaskContext(r) \/ BeginTurn(r) \/ EnqueueTasks(r) \/ CompleteRoot(r)
    BY <2>2 DEF CreateTaskContext, BeginTurn, EnqueueTasks, CompleteRoot
  <2>3. CASE PackResult(r) \/ NotifyParent(r) \/ Reawaken(r)
    BY <2>3 DEF PackResult, NotifyParent, Reawaken
  <2>4. CASE Script(r)
    BY <1>8, <2>4 DEF Script, Get, SetOncompletion, TurnFails, TurnLoops, TurnCompletes
  <2> QED
    BY <2>1, <2>2, <2>3, <2>4, <1>8 DEF Step
<1> QED
  BY <1>4, <1>5, <1>6, <1>7, <1>8

LEMMA StepRefines ==
  ASSUME IndInv, HandsOver, NEW r \in Runner, Step(r)
  PROVE  \/ Abstract!Next
         \/ parent' = parent /\ \A u \in Task : Status(u)' = Status(u)
<1> USE DEF poolVars, runnerVars, handleVars, contextVars
<1>1. TypeOK /\ NoTask \notin Task
  BY TaskPoolAssumption DEF IndInv
<1> DEFINE Still == parent' = parent /\ \A u \in Task : Status(u)' = Status(u)
<1> SUFFICES Abstract!Next \/ Still
  OBVIOUS
<1>2. ASSUME UNCHANGED <<ctx, parent, toFork>>,
             \A L \in {Turning, Ended, {"clear"}} :
                \/ (pc[r] \in L <=> pc'[r] \in L) /\ current' = current
                \/ pc[r] \notin L /\ pc'[r] \notin L
      PROVE  Still
  BY <1>2, SameTree
<1> HIDE DEF Still
<1>3. CASE Quit(r) \/ Wait(r) \/ TakeToCreate(r)
  <2>1. UNCHANGED <<ctx, parent, toFork>>
    BY <1>3 DEF Quit, Wait, TakeToCreate, Goto
  <2>2. pc[r] \notin Turning \cup Ended \cup {"clear"}
        /\ pc'[r] \notin Turning \cup Ended \cup {"clear"}
    BY <1>1, <1>3 DEF Quit, Wait, TakeToCreate, Goto, TypeOK, Turning, Ended
  <2> QED
    BY <1>2, <2>1, <2>2
<1>4. CASE BeginTurn(r) \/ SetOncompletion(r) \/ TurnFails(r) \/ TurnSuspends(r)
           \/ TurnLoops(r) \/ TurnCompletes(r) \/ \E t \in Task : Get(r, t)
  <2>1. UNCHANGED <<ctx, parent, toFork, current>>
    BY <1>4 DEF BeginTurn, SetOncompletion, TurnFails, TurnSuspends, TurnLoops,
       TurnCompletes, Get, Goto
  <2>2. /\ pc[r] \in Turning <=> pc'[r] \in Turning
        /\ pc[r] \in Ended <=> pc'[r] \in Ended
        /\ pc[r] = "clear" <=> pc'[r] = "clear"
    BY <1>1, <1>4 DEF BeginTurn, SetOncompletion, TurnFails, TurnSuspends, TurnLoops,
       TurnCompletes, Get, Goto, TypeOK, Turning, Ended
  <2> QED
    BY <1>2, <2>1, <2>2
<1>5. CASE PackResult(r) \/ Reawaken(r)
  <2>1. UNCHANGED <<ctx, parent, toFork, current>>
    BY <1>5 DEF PackResult, Reawaken, Goto
  <2>2. /\ pc[r] \in Turning <=> pc'[r] \in Turning
        /\ pc[r] \in Ended <=> pc'[r] \in Ended
        /\ pc[r] = "clear" <=> pc'[r] = "clear"
    BY <1>1, <1>5 DEF PackResult, Reawaken, Goto, GotoAndNotify, TypeOK, Turning, Ended
  <2> QED
    BY <1>2, <2>1, <2>2
<1>6. CASE ClearForked(r)
  BY <1>6, ClearingStutters DEF ClearForked, Still
<1>7. CASE FreeContext(r)
  BY <1>7, FreeingStutters DEF FreeContext, Still
<1>8. CASE CreateTaskContext(r)
  <2>1. current[r] \in Task /\ Abstract!Start(current[r])
    BY <1>8, WorkingTask, CreateStarts DEF CreateTaskContext
  <2> QED
    BY <2>1 DEF Abstract!Next
<1>9. CASE TakeReawakened(r)
  <2>1. toReawaken[r] \in Seq(Task) /\ toReawaken[r] # <<>>
    BY <1>1, <1>9 DEF TakeReawakened, TypeOK
  <2>2. current'[r] \in Task
    BY <1>1, <1>9, <2>1, PopRange DEF TakeReawakened, TypeOK
  <2>3. Abstract!Resume(current'[r])
    BY <1>9, TakingResumes
  <2> QED
    BY <2>2, <2>3 DEF Abstract!Next
<1>10. ASSUME NEW t \in Task, Fork(r, t) PROVE Abstract!Next
  <2>1. current[r] \in Task /\ Abstract!Fork(current[r], t)
    BY <1>10, WorkingTask, ForkForks DEF Fork
  <2> QED
    BY <2>1 DEF Abstract!Next
<1>11. CASE EnqueueTasks(r)
  <2>1. current[r] \in Task /\ Abstract!Join(current[r])
    BY <1>11, WorkingTask, EnqueueingJoins DEF EnqueueTasks, HandsOver
  <2> QED
    BY <2>1 DEF Abstract!Next
<1>12. CASE CompleteRoot(r) \/ NotifyParent(r)
  <2>1. /\ pc[r] \in {"complete", "notify"} /\ pc'[r] \in Ended
        /\ UNCHANGED <<current, ctx, parent, toFork>>
    BY <1>1, <1>12 DEF CompleteRoot, NotifyParent, Goto, GotoAndNotify, TypeOK, Ended
  <2>2. current[r] \in Task /\ Abstract!Finish(current[r])
    BY <2>1, WorkingTask, EndingFinishes
  <2> QED
    BY <2>2 DEF Abstract!Next
<1> QED
  BY <1>3, <1>4, <1>5, <1>6, <1>7, <1>8, <1>9, <1>10, <1>11, <1>12 DEF Step, Script

LEMMA OthersStutter ==
  ASSUME TypeOK, StartPool \/ Shutdown \/ UNCHANGED vars
  PROVE  parent' = parent /\ \A u \in Task : Status(u)' = Status(u)
<1> USE DEF poolVars, runnerVars, handleVars, contextVars
<1>1. /\ UNCHANGED <<current, ctx, parent, toFork>>
      /\ \A q \in Runner : pc'[q] = pc[q] \/ (pc[q] = "waiting" /\ pc'[q] = "getWork")
  BY DEF StartPool, Shutdown, vars, TypeOK
<1>2. \A u \in Task : /\ InTurn(u)' <=> InTurn(u)
                      /\ Completed(u)' <=> Completed(u)
                      /\ Published(u)' <=> Published(u)
  BY <1>1 DEF InTurn, Completed, Published
<1> QED
  BY <1>1, <1>2, SameStatus

\* Runners, queues and counters together take only steps of a tree of tasks
\* in which a parent is suspended from the hand-over of its children to their
\* last end.  (That every task ends is left to TLC.)
THEOREM ForkJoinImplemented == Spec => ImplementsForkJoinSteps
<1>1. Init => Abstract!Init
  <2> SUFFICES ASSUME Init PROVE Abstract!Init
    OBVIOUS
  <2>1. \A t \in Task : Status(t) = IF t = Root THEN "ready" ELSE "unborn"
    BY DEF Init, Status, Completed
  <2>2. parent = [t \in Task |-> NoTask]
    BY DEF Init
  <2> QED
    BY <2>1, <2>2 DEF Abstract!Init
<1>2. Init => HandsOver
  BY DEF Init, HandsOver
<1>3. ASSUME IndInv, HandsOver, [Next]_vars
      PROVE  HandsOver' /\ [Abstract!Next]_(Abstract!vars)
  <2>1. CASE StartPool \/ Shutdown \/ UNCHANGED vars
    <3>1. parent' = parent /\ \A u \in Task : Status(u)' = Status(u)
      BY <1>3, <2>1, OthersStutter DEF IndInv
    <3>2. HandsOver'
      BY <1>3, <2>1 DEF StartPool, Shutdown, vars, HandsOver, poolVars, runnerVars,
         handleVars, contextVars, IndInv, TypeOK
    <3> QED
      BY <3>1, <3>2 DEF Abstract!vars
  <2>2. ASSUME NEW r \in Runner, Step(r)
        PROVE  HandsOver' /\ [Abstract!Next]_(Abstract!vars)
    <3>1. HandsOver'
      BY <1>3, <2>2, HandsOverStep
    <3>2. \/ Abstract!Next
          \/ parent' = parent /\ \A u \in Task : Status(u)' = Status(u)
      BY <1>3, <2>2, StepRefines
    <3> QED
      BY <3>1, <3>2 DEF Abstract!vars
  <2> QED
    BY <1>3, <2>1, <2>2 DEF Next, Returned
<1> QED
  BY <1>1, <1>2, <1>3, Invariant, PTL DEF Spec, ImplementsForkJoinSteps, Abstract!SafeSpec
=============================================================================
