------------------------- MODULE NileParallelProofs -------------------------
(***************************************************************************)
(* Proofs about NileParallel: for any number of Parallels, tasks and       *)
(* workers, the workers are shared, every function runs once, and the      *)
(* counter and the callback of a join are exact.                           *)
(***************************************************************************)
EXTENDS NileParallel, SequenceLemmas

Held(t) == \E w \in Worker : job[w] = t
Queued(t) == \E c \in Ctx : t \in Range(children[c])
Answered(c) == {t \in answered : owner[t] = c}

\* A worker is idle exactly when it has no task.
Busy == \A w \in Worker : status[w] = "idle" <=> job[w] = None

\* No child is twice in a list or with two workers.
Distinct ==
  /\ \A c \in Ctx : IsInjective(children[c])
  /\ \A v, w \in Worker : job[v] = job[w] /\ job[v] # None => v = w

\* A child is in the list of the Parallel that forked it; what is with a
\* worker or answered was forked.
Owned ==
  /\ \A c \in Ctx : \A t \in Range(children[c]) : owner[t] = c
  /\ \A t \in Task : Held(t) \/ t \in answered => owner[t] # None

\* A child is queued, out, or answered, and in one of the three only.
Placed ==
  \A t \in Task :
    /\ owner[t] # None => Queued(t) \/ Held(t) \/ t \in answered
    /\ ~ (Queued(t) /\ Held(t)) /\ ~ (Queued(t) /\ t \in answered)
    /\ ~ (Held(t) /\ t \in answered)

\* The counter is below 0 by no more than the answers there were: fork and
\* execute in any order cannot make it smaller.
Counted == \A c \in Ctx : pending[c] >= 0 - Cardinality(Answered(c))

IndInv ==
  /\ TypeOK
  /\ WorkersShared /\ Busy
  /\ Distinct /\ Owned /\ Placed
  /\ Counted /\ PendingExact /\ CallbackOnce

-----------------------------------------------------------------------------
\* What _execute does when jobs are the tasks of the workers: the children H
\* leave the list of c for workers that had no task.
Hands(c, jobs, H) ==
  /\ IsFiniteSet(H) /\ H \subseteq Range(children[c])
  /\ pending'[c] = 0 => H = {}
  /\ workers' \in Seq(Worker) /\ IsInjective(workers')
  /\ \A w \in Worker : w \in Range(workers') <=> job'[w] = None
  /\ job' \in [Worker -> Task \cup {None}]
  /\ \A t \in Task : (\E w \in Worker : job'[w] = t)
                       <=> ((\E w \in Worker : jobs[w] = t) \/ t \in H)
  /\ \A v, w \in Worker : job'[v] = job'[w] /\ job'[v] # None => v = w
  /\ status' \in [Worker -> {"idle", "running", "replied", "lost"}]
  /\ \A w \in Worker : status'[w] = "idle" <=> job'[w] = None
  /\ children' \in [Ctx -> Seq(Task)] /\ IsInjective(children'[c])
  /\ Range(children'[c]) = Range(children[c]) \ H
  /\ Len(children'[c]) = Len(children[c]) - Cardinality(H)
  /\ \A d \in Ctx : d # c => children'[d] = children[d]
  /\ calls' \in [Ctx -> Nat]
  /\ \A d \in Ctx :
       calls'[d] = IF d = c /\ pending'[c] = 0 THEN calls[d] + 1 ELSE calls[d]

\* What it relies on: free are the workers without a task in jobs, and no
\* worker has a child that is still in the list.
Ready(c, free, jobs) ==
  /\ free \in Seq(Worker) /\ jobs \in [Worker -> Task \cup {None}]
  /\ children \in [Ctx -> Seq(Task)] /\ calls \in [Ctx -> Nat]
  /\ status \in [Worker -> {"idle", "running", "replied", "lost"}]
  /\ IsInjective(free) /\ \A w \in Worker : w \in Range(free) <=> jobs[w] = None
  /\ \A v, w \in Worker : jobs[v] = jobs[w] /\ jobs[v] # None => v = w
  /\ \A w \in Worker : jobs[w] # None => status[w] # "idle"
  /\ IsInjective(children[c]) /\ \A w \in Worker : jobs[w] \notin Range(children[c])

LEMMA ContinueHands ==
  ASSUME NEW c \in Ctx, NEW free, NEW jobs, Ready(c, free, jobs), Continue(c, free, jobs)
  PROVE  \E H \in SUBSET Task : Hands(c, jobs, H)
<1>1. PICK n \in 0..Len(free) :
        /\ IF pending'[c] = 0 THEN n = 0 ELSE EndsAfter(c, free, n)
        /\ Assign(c, free, jobs, n)
        /\ Shift(c, free, n)
        /\ CallIf(c, pending'[c] = 0)
  BY DEF Continue
<1> DEFINE s == children[c]
           D == Taken(free, n)
           H == Taken(s, n)
<1>2. /\ s \in Seq(Task) /\ Len(s) \in Nat /\ n \in Nat
      /\ free \in Seq(Worker) /\ Len(free) \in Nat
      /\ IsInjective(s) /\ IsInjective(free)
      /\ children \in [Ctx -> Seq(Task)] /\ jobs \in [Worker -> Task \cup {None}]
  BY DEF Ready
<1>2a. /\ \A w \in Worker : w \in Range(free) <=> jobs[w] = None
       /\ \A v, w \in Worker : jobs[v] = jobs[w] /\ jobs[v] # None => v = w
       /\ \A w \in Worker : jobs[w] \notin Range(children[c])
  BY DEF Ready
<1>2b. /\ \A w : w \in D <=> \E i \in 1..n : w = free[i]
       /\ \A t : t \in H <=> \E i \in 1..n : t = s[i]
  BY DEF Taken
<1>3. n <= Len(s) /\ n \in 0..Len(s)
  <2>1. CASE pending'[c] = 0
    BY <1>1, <1>2, <2>1
  <2>2. CASE pending'[c] # 0
    BY <1>1, <1>2, <2>2 DEF EndsAfter
  <2> QED
    BY <2>1, <2>2
<1>4. /\ job' \in [Worker -> Task \cup {None}]
      /\ \A i \in 1..n : free[i] \in Worker /\ job'[free[i]] = s[i] /\ s[i] \in Task
      /\ \A w \in Worker : w \notin D => job'[w] = jobs[w]
  <2>1. /\ DOMAIN free = 1..Len(free)
        /\ \A i \in 1..n : i \in 1..Len(free) /\ free[i] \in Worker /\ free[i] \in D
        /\ \A i, j \in 1..n : free[i] = free[j] => i = j
    BY <1>2 DEF IsInjective, Taken
  <2>2. \A i \in 1..n : s[i] \in Task
    BY <1>2, <1>3
  <2> HIDE DEF s
  <2>3. ASSUME NEW i \in 1..n
        PROVE  (CHOOSE j \in 1..n : free[j] = free[i]) = i
    BY <2>1
  <2>4. DOMAIN Posted(c, free, n) = D
    BY <1>2b DEF Posted
  <2>5. \A i \in 1..n : Posted(c, free, n)[free[i]] = s[i]
    BY <2>3 DEF Posted, s
  <2>6. job' = [w \in Worker |-> IF w \in D THEN Posted(c, free, n)[w] ELSE jobs[w]]
    BY <1>1, <2>4 DEF Assign
  <2>7. \A i \in 1..n : job'[free[i]] = s[i]
    BY <2>1, <2>5, <2>6
  <2>8. \A w \in Worker : w \notin D => job'[w] = jobs[w]
    BY <2>6
  <2>9. ASSUME NEW w \in Worker PROVE job'[w] \in Task \cup {None}
    <3>1. CASE w \in D
      BY <2>2, <2>7, <3>1 DEF Taken
    <3>2. CASE w \notin D
      BY <1>2, <2>8, <3>2
    <3> QED
      BY <3>1, <3>2
  <2>10. job' = [w \in Worker |-> job'[w]]
    BY <2>6
  <2>11. job' \in [Worker -> Task \cup {None}]
    BY <2>9, <2>10
  <2> QED
    BY <2>1, <2>2, <2>7, <2>8, <2>11
<1>5. /\ workers' = Rest(free, n)
      /\ children' = [children EXCEPT ![c] = Rest(s, n)]
  BY <1>1, <1>2 DEF Shift, Rest
<1>6. /\ workers' \in Seq(Worker) /\ IsInjective(workers')
      /\ Range(workers') = Range(free) \ D /\ D \subseteq Range(free)
  BY <1>2, <1>5, RestRange
<1>7. children'[c] = Rest(s, n) /\ \A d \in Ctx : d # c => children'[d] = children[d]
  BY <1>2, <1>5
<1>8. /\ children'[c] \in Seq(Task) /\ IsInjective(children'[c])
      /\ Range(children'[c]) = Range(s) \ H /\ H \subseteq Range(s)
      /\ Len(children'[c]) = Len(s) - Cardinality(H)
      /\ IsFiniteSet(H) /\ Cardinality(H) = n
  <2>1. IsInjective(s)
    BY <1>2
  <2>2. children'[c] = Rest(s, n)
    BY <1>7
  <2> HIDE DEF s
  <2>3. /\ Rest(s, n) \in Seq(Task)
        /\ Len(Rest(s, n)) = Len(s) - n
        /\ Range(Rest(s, n)) = Range(s) \ H
        /\ IsInjective(Rest(s, n))
        /\ H \subseteq Range(s) /\ IsFiniteSet(H) /\ Cardinality(H) = n
    BY <1>2, <1>3, <2>1, RestRange
  <2> HIDE DEF H
  <2> QED
    BY <2>2, <2>3
<1>9. children' \in [Ctx -> Seq(Task)]
  BY <1>2, <1>5, <1>7, <1>8
<1>10. /\ calls' \in [Ctx -> Nat]
       /\ \A d \in Ctx :
            calls'[d] = IF d = c /\ pending'[c] = 0 THEN calls[d] + 1 ELSE calls[d]
  BY <1>1 DEF CallIf, Ready
<1>11. pending'[c] = 0 => H = {}
  BY <1>1, <1>2b
<1>12. None \notin Task /\ H \subseteq Task
  <2>1. None \notin Task
    BY NileAssumption
  <2>2. \A i \in 1..n : s[i] \in Task
    BY <1>4
  <2> HIDE DEF s
  <2> QED
    BY <2>1, <2>2 DEF Taken
<1> HIDE DEF s
<1>13. \A w \in Worker : w \in Range(workers') <=> job'[w] = None
  <2> SUFFICES ASSUME NEW w \in Worker PROVE w \in Range(workers') <=> job'[w] = None
    OBVIOUS
  <2>1. CASE w \in D
    <3>1. job'[w] \in Task
      BY <1>4, <2>1, <1>2b
    <3> QED
      BY <1>6, <1>12, <2>1, <3>1
  <2>2. CASE w \notin D
    BY <1>4, <1>6, <1>2a, <2>2
  <2> QED
    BY <2>1, <2>2
<1>14. \A t \in Task : (\E w \in Worker : job'[w] = t)
                         <=> ((\E w \in Worker : jobs[w] = t) \/ t \in H)
  <2>1. ASSUME NEW t \in Task, NEW w \in Worker, job'[w] = t
        PROVE  (\E v \in Worker : jobs[v] = t) \/ t \in H
    BY <1>4, <2>1, <1>2b
  <2>2. ASSUME NEW t \in Task, NEW w \in Worker, jobs[w] = t
        PROVE  \E v \in Worker : job'[v] = t
    <3>1. w \notin D
      BY <1>6, <1>12, <1>2a, <2>2
    <3> QED
      BY <1>4, <2>2, <3>1
  <2>3. ASSUME NEW t \in H PROVE \E v \in Worker : job'[v] = t
    BY <1>4, <1>2b
  <2> QED
    BY <2>1, <2>2, <2>3
<1>15. \A v, w \in Worker : job'[v] = job'[w] /\ job'[v] # None => v = w
  <2> SUFFICES ASSUME NEW v \in Worker, NEW w \in Worker, job'[v] = job'[w], job'[v] # None
               PROVE  v = w
    OBVIOUS
  <2>1. \A i, j \in 1..n : s[i] = s[j] => i = j
    BY <1>2, <1>3 DEF IsInjective, s
  <2>2. \A i \in 1..n : s[i] \in Range(children[c])
    BY <1>8, <1>2b DEF s
  <2>3. CASE v \in D /\ w \in D
    BY <1>4, <2>1, <2>3, <1>2b
  <2>4. CASE v \in D /\ w \notin D
    BY <1>4, <1>2a, <2>2, <2>4, <1>2b
  <2>5. CASE v \notin D /\ w \in D
    BY <1>4, <1>2a, <2>2, <2>5, <1>2b
  <2>6. CASE v \notin D /\ w \notin D
    BY <1>4, <1>2a, <2>6
  <2> QED
    BY <2>3, <2>4, <2>5, <2>6
<1>16. ASSUME NEW w \in Worker
       PROVE  /\ status'[w] \in {"idle", "running", "replied", "lost"}
              /\ status'[w] = "idle" <=> job'[w] = None
  <2>1. DOMAIN Posted(c, free, n) = D
    BY <1>2b DEF Posted
  <2>2. status'[w] = CASE w \in D /\ job'[w] \in Unsendable -> "lost"
                       [] w \in D /\ job'[w] \notin Unsendable -> "running"
                       [] w \notin D /\ jobs[w] = None -> "idle"
                       [] OTHER -> status[w]
    BY <1>1, <2>1 DEF Assign
  <2>3. CASE w \in D
    <3>1. job'[w] \in Task
      BY <1>4, <2>3, <1>2b
    <3>2. job'[w] # None
      BY <1>12, <3>1
    <3> QED
      BY <2>2, <2>3, <3>2
  <2>4. CASE w \notin D /\ jobs[w] = None
    BY <1>4, <2>2, <2>4
  <2>5. CASE w \notin D /\ jobs[w] # None
    <3>1. status'[w] = status[w]
      BY <2>2, <2>5
    <3>2. status[w] \in {"idle", "running", "replied", "lost"} /\ status[w] # "idle"
      BY <2>5 DEF Ready
    <3> QED
      BY <1>4, <2>5, <3>1, <3>2
  <2> QED
    BY <2>3, <2>4, <2>5
<1>17. status' \in [Worker -> {"idle", "running", "replied", "lost"}]
  <2>1. status' = [w \in Worker |-> status'[w]]
    BY <1>1 DEF Assign
  <2> QED
    BY <1>16, <2>1
<1>18. Hands(c, jobs, H)
  BY <1>4, <1>6, <1>7, <1>8, <1>9, <1>10, <1>11, <1>13, <1>14, <1>15, <1>16, <1>17 DEF Hands, s
<1> QED
  BY <1>12, <1>18

LEMMA ReadyAtExecute ==
  ASSUME IndInv, NEW c \in Ctx
  PROVE  Ready(c, workers, job)
<1>1. /\ workers \in Seq(Worker) /\ job \in [Worker -> Task \cup {None}]
      /\ children \in [Ctx -> Seq(Task)] /\ calls \in [Ctx -> Nat]
      /\ status \in [Worker -> {"idle", "running", "replied", "lost"}]
  BY DEF IndInv, TypeOK
<1>2. /\ IsInjective(workers) /\ \A w \in Worker : w \in Range(workers) <=> job[w] = None
      /\ \A v, w \in Worker : job[v] = job[w] /\ job[v] # None => v = w
      /\ \A w \in Worker : job[w] # None => status[w] # "idle"
      /\ IsInjective(children[c])
  BY DEF IndInv, WorkersShared, Distinct, Busy
<1>3. ASSUME NEW w \in Worker, job[w] \in Range(children[c]) PROVE FALSE
  <2>1. children[c] \in Seq(Task)
    BY <1>1
  <2>2. job[w] \in Task
    BY <1>3, <2>1, SeqRange
  <2>3. Held(job[w]) /\ Queued(job[w])
    BY <1>3 DEF Held, Queued
  <2> QED
    BY <2>2, <2>3 DEF IndInv, Placed
<1> QED
  BY <1>1, <1>2, <1>3 DEF Ready

\* A worker that has answered, and the child that it had.
LEMMA AnswerFacts ==
  ASSUME IndInv, NEW w \in Worker, status[w] = "replied"
  PROVE  /\ job[w] \in Task /\ job[w] # None /\ Held(job[w])
         /\ owner[job[w]] \in Ctx /\ job[w] \notin answered
         /\ \A t \in Task : (\E v \in Worker : [job EXCEPT ![w] = None][v] = t)
                              <=> (Held(t) /\ t # job[w])
<1>1. job[w] \in Task \cup {None} /\ job[w] # None /\ None \notin Task
  BY NileAssumption DEF IndInv, TypeOK, Busy
<1>2. job[w] \in Task /\ Held(job[w])
  BY <1>1 DEF Held
<1>3. owner[job[w]] \in Ctx
  BY <1>2 DEF IndInv, Owned, TypeOK
<1>4. job[w] \notin answered
  BY <1>2 DEF IndInv, Placed
<1>5. \A v \in Worker : [job EXCEPT ![w] = None][v] = IF v = w THEN None ELSE job[v]
  BY DEF IndInv, TypeOK
<1>6. ASSUME NEW t \in Task
      PROVE  (\E v \in Worker : [job EXCEPT ![w] = None][v] = t)
               <=> (Held(t) /\ t # job[w])
  <2>1. \A v \in Worker : job[v] = job[w] => v = w
    BY <1>1 DEF IndInv, Distinct
  <2> QED
    BY <1>1, <1>5, <2>1 DEF Held
<1> QED
  BY <1>1, <1>2, <1>3, <1>4, <1>6

LEMMA ReadyAtAnswer ==
  ASSUME IndInv, NEW w \in Worker, status[w] = "replied"
  PROVE  Ready(owner[job[w]], Append(workers, w), [job EXCEPT ![w] = None])
<1> DEFINE c == owner[job[w]]
           jobs == [job EXCEPT ![w] = None]
           free == Append(workers, w)
<1>1. job[w] # None /\ c \in Ctx
  BY AnswerFacts
<1>2. Ready(c, workers, job)
  BY <1>1, ReadyAtExecute
<1> HIDE DEF c
<1>3. /\ workers \in Seq(Worker) /\ job \in [Worker -> Task \cup {None}]
      /\ IsInjective(workers) /\ \A v \in Worker : v \in Range(workers) <=> job[v] = None
  BY <1>2 DEF Ready
<1>4. jobs \in [Worker -> Task \cup {None}]
      /\ \A v \in Worker : jobs[v] = IF v = w THEN None ELSE job[v]
  BY <1>3
<1>5. w \notin Range(workers)
  BY <1>1, <1>3
<1>6. /\ free \in Seq(Worker) /\ IsInjective(free)
      /\ Range(free) = Range(workers) \cup {w}
  BY <1>3, <1>5, AppendRange
<1> HIDE DEF free, jobs
<1>7. \A v \in Worker : v \in Range(free) <=> jobs[v] = None
  BY <1>3, <1>4, <1>6
<1>8. \A u, v \in Worker : jobs[u] = jobs[v] /\ jobs[u] # None => u = v
  BY <1>2, <1>4 DEF Ready
<1>9. \A v \in Worker : jobs[v] # None => status[v] # "idle"
  BY <1>2, <1>4 DEF Ready
<1>10. \A v \in Worker : jobs[v] \notin Range(children[c])
  <2>1. None \notin Task /\ children[c] \in Seq(Task)
    BY <1>1, <1>2, NileAssumption DEF Ready
  <2>2. None \notin Range(children[c])
    BY <2>1, SeqRange
  <2> QED
    BY <1>2, <1>4, <2>2 DEF Ready
<1>11. Ready(c, free, jobs)
  BY <1>2, <1>4, <1>6, <1>7, <1>8, <1>9, <1>10 DEF Ready
<1> QED
  BY <1>11 DEF c, free, jobs

-----------------------------------------------------------------------------
\* A step that calls _execute for c: A are the children it has the answers
\* of, and H those it hands out.
Moves(c, jobs, H, A) ==
  /\ H \in SUBSET Task /\ Hands(c, jobs, H)
  /\ A \in SUBSET Task /\ \A t \in A : Held(t) /\ owner[t] = c
  /\ \A t \in Task : (\E w \in Worker : jobs[w] = t) <=> (Held(t) /\ t \notin A)
  /\ answered' = answered \cup A /\ owner' = owner

\* Where the children are after such a step.
LEMMA HandsPlaces ==
  ASSUME IndInv, NEW c \in Ctx, NEW jobs, NEW H, NEW A, Moves(c, jobs, H, A)
  PROVE  /\ WorkersShared' /\ Busy' /\ Distinct' /\ Owned' /\ Placed'
         /\ \A t \in Task : Held(t)' <=> ((Held(t) /\ t \notin A) \/ t \in H)
<1> USE DEF Moves
<1>1. WorkersShared' /\ Busy'
  BY DEF Hands, WorkersShared, Busy
<1>2. Distinct'
  <2>1. \A d \in Ctx : IsInjective(children'[d])
    BY DEF Hands, IndInv, Distinct
  <2> QED
    BY <2>1 DEF Hands, Distinct
<1>3. \A t \in Task : Held(t)' <=> ((Held(t) /\ t \notin A) \/ t \in H)
  BY DEF Hands, Held
<1>4. /\ H \subseteq Range(children[c]) /\ Range(children'[c]) = Range(children[c]) \ H
      /\ \A d \in Ctx : d # c => children'[d] = children[d]
  BY DEF Hands
<1>5. /\ \A d \in Ctx : \A t \in Range(children[d]) : owner[t] = d
      /\ \A t \in Task : Held(t) \/ t \in answered => owner[t] # None
  BY DEF IndInv, Owned
<1>6. \A t \in Task : Queued(t)' <=> (Queued(t) /\ t \notin H)
  <2> SUFFICES ASSUME NEW t \in Task PROVE Queued(t)' <=> (Queued(t) /\ t \notin H)
    OBVIOUS
  <2>1. ASSUME NEW d \in Ctx, t \in Range(children'[d]) PROVE Queued(t) /\ t \notin H
    <3>1. CASE d = c
      BY <1>4, <2>1, <3>1 DEF Queued
    <3>2. CASE d # c
      <4>1. t \in Range(children[d]) /\ owner[t] = d
        BY <1>4, <1>5, <2>1, <3>2
      <4>2. t \notin H
        BY <1>4, <1>5, <3>2, <4>1
      <4> QED
        BY <4>1, <4>2 DEF Queued
    <3> QED
      BY <3>1, <3>2
  <2>2. ASSUME NEW d \in Ctx, t \in Range(children[d]), t \notin H PROVE Queued(t)'
    <3>1. t \in Range(children'[d])
      BY <1>4, <2>2
    <3> QED
      BY <3>1 DEF Queued
  <2> QED
    BY <2>1, <2>2 DEF Queued
<1>7. \A t \in H : Queued(t) /\ owner[t] = c
  BY <1>4, <1>5 DEF Queued
<1>8. Owned'
  <2>1. ASSUME NEW d \in Ctx, NEW t \in Range(children'[d]) PROVE owner'[t] = d
    <3>1. t \in Range(children[d])
      BY <1>4, <2>1
    <3> QED
      BY <1>5, <3>1
  <2>2. ASSUME NEW t \in Task, Held(t)' \/ t \in answered' PROVE owner'[t] # None
    <3>1. Held(t) \/ t \in answered \/ t \in H
      BY <1>3, <2>2
    <3>2. c # None
      BY NileAssumption
    <3> QED
      BY <1>5, <1>7, <3>1, <3>2
  <2> QED
    BY <2>1, <2>2 DEF Owned
<1>9. Placed'
  <2> SUFFICES ASSUME NEW t \in Task
               PROVE  /\ owner'[t] # None => Queued(t)' \/ Held(t)' \/ t \in answered'
                      /\ ~ (Queued(t)' /\ Held(t)') /\ ~ (Queued(t)' /\ t \in answered')
                      /\ ~ (Held(t)' /\ t \in answered')
    BY DEF Placed
  <2>1. /\ owner[t] # None => Queued(t) \/ Held(t) \/ t \in answered
        /\ ~ (Queued(t) /\ Held(t)) /\ ~ (Queued(t) /\ t \in answered)
        /\ ~ (Held(t) /\ t \in answered)
    BY DEF IndInv, Placed
  <2>2. /\ Held(t)' <=> ((Held(t) /\ t \notin A) \/ t \in H)
        /\ Queued(t)' <=> (Queued(t) /\ t \notin H)
        /\ t \in A => Held(t)
        /\ t \in H => Queued(t)
    BY <1>3, <1>6, <1>7
  <2> QED
    BY <2>1, <2>2
<1> QED
  BY <1>1, <1>2, <1>3, <1>8, <1>9

-----------------------------------------------------------------------------
LEMMA OutFacts ==
  ASSUME NEW c \in Ctx
  PROVE  /\ IsFiniteSet(Out(c)) /\ Cardinality(Out(c)) \in Nat
         /\ \A t : t \in Out(c) <=> t \in Task /\ owner[t] = c /\ Held(t)
         /\ Cardinality(Out(c)) = 0 <=> Out(c) = {}
<1>1. Out(c) \subseteq Task
  BY DEF Out
<1>2. IsFiniteSet(Out(c))
  BY <1>1, NileAssumption, FS_Subset
<1>3. \A t : t \in Out(c) <=> t \in Task /\ owner[t] = c /\ Held(t)
  BY DEF Out, Held
<1> QED
  BY <1>2, <1>3, FS_CardinalityType, FS_EmptySet

LEMMA AnsweredFacts ==
  ASSUME TypeOK, NEW c \in Ctx
  PROVE  /\ IsFiniteSet(Answered(c)) /\ Cardinality(Answered(c)) \in Nat
         /\ Answered(c) \subseteq Task /\ Cardinality(Answered(c)) <= Cardinality(Task)
<1>1. Answered(c) \subseteq Task
  BY DEF Answered, TypeOK
<1>2. IsFiniteSet(Answered(c)) /\ Cardinality(Answered(c)) <= Cardinality(Task)
  BY <1>1, NileAssumption, FS_Subset
<1> QED
  BY <1>1, <1>2, FS_CardinalityType

\* The children of a Parallel are tasks, each at most once.
LEMMA ChildrenBounded ==
  ASSUME IndInv, NEW c \in Ctx
  PROVE  Len(children[c]) \in 0..Cardinality(Task)
<1>1. children[c] \in Seq(Task) /\ IsInjective(children[c])
  BY DEF IndInv, TypeOK, Distinct
<1>2. Range(children[c]) \subseteq Task
  BY <1>1, SeqRange
<1>3. Cardinality(Range(children[c])) = Len(children[c])
  BY <1>1, InjectiveCardinality
<1>4. Cardinality(Range(children[c])) <= Cardinality(Task)
  BY <1>2, NileAssumption, FS_Subset
<1>5. Cardinality(Task) \in Nat /\ Len(children[c]) \in Nat
  BY <1>1, NileAssumption, FS_CardinalityType
<1> QED
  BY <1>3, <1>4, <1>5

\* The children that are out after _execute.
LEMMA HandsOut ==
  ASSUME IndInv, NEW c \in Ctx, NEW jobs, NEW H, NEW A, Moves(c, jobs, H, A)
  PROVE  /\ Out(c)' = (Out(c) \ A) \cup H
         /\ Cardinality(Out(c)') = Cardinality(Out(c) \ A) + Cardinality(H)
         /\ \A d \in Ctx : d # c => Out(d)' = Out(d)
<1>1. \A t \in Task : Held(t)' <=> ((Held(t) /\ t \notin A) \/ t \in H)
  BY HandsPlaces
<1> USE DEF Moves
<1>2. /\ \A d \in Ctx : \A t \in Range(children[d]) : owner[t] = d
      /\ \A t \in Task : ~ (Queued(t) /\ Held(t))
  BY DEF IndInv, Owned, Placed
<1>3. \A t \in H : owner[t] = c /\ ~ Held(t)
  BY <1>2 DEF Hands, Queued
<1>4. \A d \in Ctx : \A t : t \in Out(d) <=> t \in Task /\ owner[t] = d /\ Held(t)
  BY OutFacts
<1>5. \A d \in Ctx : \A t : t \in Out(d)' <=> t \in Task /\ owner'[t] = d /\ Held(t)'
  BY DEF Out, Held
<1>6. Out(c)' = (Out(c) \ A) \cup H
  BY <1>1, <1>3, <1>4, <1>5
<1>7. ASSUME NEW d \in Ctx, d # c PROVE Out(d)' = Out(d)
  BY <1>1, <1>3, <1>4, <1>5, <1>7
<1>8. (Out(c) \ A) \cap H = {}
  BY <1>3, <1>4
<1>9. IsFiniteSet(Out(c) \ A) /\ IsFiniteSet(H)
  <2>1. Out(c) \ A \subseteq Task
    BY <1>4
  <2> QED
    BY <2>1, NileAssumption, FS_Subset
<1>10. Cardinality((Out(c) \ A) \cup H) = Cardinality(Out(c) \ A) + Cardinality(H)
  <2>1. Cardinality((Out(c) \ A) \cup H)
          = Cardinality(Out(c) \ A) + Cardinality(H) - Cardinality((Out(c) \ A) \cap H)
    BY <1>9, FS_Union, Zenon
  <2>2. Cardinality((Out(c) \ A) \cap H) = 0
    BY <1>8, FS_EmptySet
  <2>3. Cardinality(Out(c) \ A) \in Nat /\ Cardinality(H) \in Nat
    BY <1>9, FS_CardinalityType
  <2> QED
    BY <2>1, <2>2, <2>3
<1> QED
  BY <1>6, <1>7, <1>10

\* Fork makes one more child of a Parallel.
LEMMA ForkStep ==
  ASSUME IndInv, NEW c \in Ctx, NEW t \in Task, Fork(c, t)
  PROVE  IndInv'
<1>1. /\ owner[t] = None /\ owner' = [owner EXCEPT ![t] = c]
      /\ children' = [children EXCEPT ![c] = Append(@, t)]
      /\ misused' = [misused EXCEPT ![c] = @ \/ pending[c] # 0]
      /\ workers' = workers /\ pending' = pending /\ answered' = answered
      /\ job' = job /\ status' = status /\ executes' = executes /\ calls' = calls
  BY DEF Fork
<1>2. /\ TypeOK /\ WorkersShared /\ Busy /\ Distinct /\ Owned /\ Placed
      /\ Counted /\ PendingExact /\ CallbackOnce
  BY DEF IndInv
<1>3. c # None /\ None \notin Task
  BY NileAssumption
<1>4. /\ children[c] \in Seq(Task) /\ IsInjective(children[c])
      /\ children \in [Ctx -> Seq(Task)] /\ owner \in [Task -> Ctx \cup {None}]
  BY <1>2 DEF TypeOK, Distinct
<1>5. ~ Queued(t) /\ ~ Held(t) /\ t \notin answered
  <2>1. ASSUME Queued(t) PROVE FALSE
    <3>1. PICK d \in Ctx : t \in Range(children[d])
      BY <2>1 DEF Queued
    <3>2. owner[t] = d /\ d # None
      BY <1>2, <3>1, NileAssumption DEF Owned
    <3> QED
      BY <1>1, <3>2
  <2>2. ~ Held(t) /\ t \notin answered
    BY <1>1, <1>2 DEF Owned
  <2> QED
    BY <2>1, <2>2
<1>6. t \notin Range(children[c])
  BY <1>5 DEF Queued
<1>7. /\ Append(children[c], t) \in Seq(Task)
      /\ Range(Append(children[c], t)) = Range(children[c]) \cup {t}
      /\ IsInjective(Append(children[c], t))
  BY <1>4, <1>6, AppendRange
<1>8. /\ children'[c] = Append(children[c], t)
      /\ \A d \in Ctx : d # c => children'[d] = children[d]
      /\ children' \in [Ctx -> Seq(Task)]
  BY <1>1, <1>4, <1>7
<1>9. /\ owner'[t] = c /\ \A u \in Task : u # t => owner'[u] = owner[u]
      /\ owner' \in [Task -> Ctx \cup {None}]
  BY <1>1, <1>4
<1>10. /\ misused' \in [Ctx -> BOOLEAN]
       /\ \A d \in Ctx : ~ misused'[d] => ~ misused[d]
       /\ ~ misused'[c] => pending[c] = 0
  BY <1>1, <1>2 DEF TypeOK
<1>11. TypeOK'
  BY <1>1, <1>2, <1>8, <1>9, <1>10 DEF TypeOK
<1>12. WorkersShared' /\ Busy'
  BY <1>1, <1>2 DEF WorkersShared, Busy
<1>13. Distinct'
  <2>1. \A d \in Ctx : IsInjective(children'[d])
    BY <1>2, <1>7, <1>8 DEF Distinct
  <2> QED
    BY <1>1, <1>2, <2>1 DEF Distinct
<1>14. \A u \in Task : /\ Held(u)' <=> Held(u)
                       /\ Queued(u)' <=> (Queued(u) \/ u = t)
  <2>1. \A u \in Task : Held(u)' <=> Held(u)
    BY <1>1 DEF Held
  <2>2. ASSUME NEW u \in Task, Queued(u)' PROVE Queued(u) \/ u = t
    <3>1. PICK d \in Ctx : u \in Range(children'[d])
      BY <2>2 DEF Queued
    <3> QED
      BY <1>7, <1>8, <3>1 DEF Queued
  <2>3. ASSUME NEW u \in Task, Queued(u) \/ u = t PROVE Queued(u)'
    <3>1. CASE u = t
      BY <1>7, <1>8, <3>1 DEF Queued
    <3>2. CASE Queued(u)
      <4>1. PICK d \in Ctx : u \in Range(children[d])
        BY <3>2 DEF Queued
      <4>2. u \in Range(children'[d])
        BY <1>7, <1>8, <4>1
      <4> QED
        BY <4>2 DEF Queued
    <3> QED
      BY <2>3, <3>1, <3>2
  <2> QED
    BY <2>1, <2>2, <2>3
<1>15. Owned'
  <2>1. ASSUME NEW d \in Ctx, NEW u \in Range(children'[d]) PROVE owner'[u] = d
    <3>1. CASE u = t
      <4>1. d = c
        BY <1>5, <1>8, <2>1, <3>1 DEF Queued
      <4> QED
        BY <1>9, <3>1, <4>1
    <3>2. CASE u # t
      <4>1. u \in Range(children[d])
        BY <1>7, <1>8, <2>1, <3>2
      <4>2. owner[u] = d /\ u \in Task
        BY <1>2, <1>4, <4>1, SeqRange DEF Owned
      <4> QED
        BY <1>9, <3>2, <4>2
    <3> QED
      BY <3>1, <3>2
  <2>2. ASSUME NEW u \in Task, Held(u)' \/ u \in answered' PROVE owner'[u] # None
    BY <1>1, <1>2, <1>3, <1>9, <1>14, <2>2 DEF Owned
  <2> QED
    BY <2>1, <2>2 DEF Owned
<1>16. Placed'
  <2> SUFFICES ASSUME NEW u \in Task
               PROVE  /\ owner'[u] # None => Queued(u)' \/ Held(u)' \/ u \in answered'
                      /\ ~ (Queued(u)' /\ Held(u)') /\ ~ (Queued(u)' /\ u \in answered')
                      /\ ~ (Held(u)' /\ u \in answered')
    BY DEF Placed
  <2>1. /\ owner[u] # None => Queued(u) \/ Held(u) \/ u \in answered
        /\ ~ (Queued(u) /\ Held(u)) /\ ~ (Queued(u) /\ u \in answered)
        /\ ~ (Held(u) /\ u \in answered)
    BY <1>2 DEF Placed
  <2> QED
    BY <1>1, <1>5, <1>9, <1>14, <2>1
<1>17. \A d \in Ctx : Out(d)' = Out(d) /\ Answered(d)' = Answered(d)
  <2> SUFFICES ASSUME NEW d \in Ctx PROVE Out(d)' = Out(d) /\ Answered(d)' = Answered(d)
    OBVIOUS
  <2>1. \A u \in Task : Held(u) => (owner'[u] = d <=> owner[u] = d)
    BY <1>5, <1>9
  <2>2. Out(d)' = Out(d)
    BY <1>1, <2>1 DEF Out, Held
  <2>3. \A u \in answered : u \in Task /\ owner'[u] = owner[u]
    BY <1>2, <1>5, <1>9 DEF TypeOK
  <2> QED
    BY <1>1, <2>2, <2>3 DEF Answered
<1>18. Counted'
  BY <1>1, <1>2, <1>17 DEF Counted
<1>19. PendingExact'
  <2> SUFFICES ASSUME NEW d \in Ctx, ~ misused'[d]
               PROVE  \/ pending'[d] = Len(children'[d]) + Cardinality(Out(d)')
                      \/ pending'[d] = 0 /\ Out(d)' = {}
    BY DEF PendingExact
  <2>1. ~ misused[d]
    BY <1>10
  <2>2. \/ pending[d] = Len(children[d]) + Cardinality(Out(d))
        \/ pending[d] = 0 /\ Out(d) = {}
    BY <1>2, <2>1 DEF PendingExact
  <2>3. CASE d = c
    <3>1. pending[c] = 0
      BY <1>10, <2>3
    <3>2. /\ Len(children[c]) \in Nat /\ Cardinality(Out(c)) \in Nat
          /\ Cardinality(Out(c)) = 0 <=> Out(c) = {}
      BY <1>4, OutFacts
    <3>3. Out(c) = {}
      BY <2>2, <2>3, <3>1, <3>2
    <3> QED
      BY <1>1, <1>17, <2>3, <3>1, <3>3
  <2>4. CASE d # c
    BY <1>1, <1>8, <1>17, <2>2, <2>4
  <2> QED
    BY <2>3, <2>4
<1>20. CallbackOnce'
  BY <1>1, <1>2, <1>10 DEF CallbackOnce
<1> QED
  BY <1>11, <1>12, <1>13, <1>15, <1>16, <1>18, <1>19, <1>20 DEF IndInv

\* The functions of the children return or throw.
LEMMA RunStep ==
  ASSUME IndInv, NEW w \in Worker, Reply(w) \/ Throw(w)
  PROVE  IndInv'
<1>1. PICK x \in {"replied", "lost"} :
        /\ status[w] = "running" /\ status' = [status EXCEPT ![w] = x]
  BY DEF Reply, Throw
<1>2. /\ workers' = workers /\ children' = children /\ pending' = pending
      /\ owner' = owner /\ answered' = answered /\ job' = job
      /\ executes' = executes /\ calls' = calls /\ misused' = misused
  BY DEF Reply, Throw
<1>3. /\ TypeOK /\ WorkersShared /\ Busy /\ Distinct /\ Owned /\ Placed
      /\ Counted /\ PendingExact /\ CallbackOnce
  BY DEF IndInv
<1>4. /\ status' \in [Worker -> {"idle", "running", "replied", "lost"}]
      /\ \A v \in Worker : status'[v] = "idle" <=> status[v] = "idle"
  BY <1>1, <1>3 DEF TypeOK
<1>5. TypeOK' /\ Busy'
  BY <1>2, <1>3, <1>4 DEF TypeOK, Busy
<1>6. WorkersShared' /\ Distinct'
  BY <1>2, <1>3 DEF WorkersShared, Distinct
<1>7. Owned' /\ Placed'
  BY <1>2, <1>3 DEF Owned, Placed, Held, Queued
<1>8. Counted' /\ PendingExact' /\ CallbackOnce'
  BY <1>2, <1>3 DEF Counted, Answered, PendingExact, Out, CallbackOnce
<1> QED
  BY <1>5, <1>6, <1>7, <1>8 DEF IndInv

-----------------------------------------------------------------------------
\* The joins of the other Parallels are where they were.
LEMMA OtherJoins ==
  ASSUME IndInv, NEW c \in Ctx, NEW d \in Ctx, d # c,
         pending'[d] = pending[d], children'[d] = children[d], Out(d)' = Out(d),
         calls'[d] = calls[d], executes'[d] = executes[d], misused'[d] = misused[d],
         ~ misused'[d]
  PROVE  /\ \/ pending'[d] = Len(children'[d]) + Cardinality(Out(d)')
            \/ pending'[d] = 0 /\ Out(d)' = {}
         /\ calls'[d] + (IF pending'[d] = 0 THEN 0 ELSE 1) = executes'[d]
<1>1. /\ \/ pending[d] = Len(children[d]) + Cardinality(Out(d))
         \/ pending[d] = 0 /\ Out(d) = {}
      /\ calls[d] + (IF pending[d] = 0 THEN 0 ELSE 1) = executes[d]
  BY DEF IndInv, PendingExact, CallbackOnce
<1> QED
  BY <1>1

\* The callback is called when the counter is 0 because nothing is queued
\* or out, not because execute is to come.
CallsAfterAll ==
  \A c \in Ctx : calls'[c] > calls[c] /\ ~ misused'[c]
                 => /\ pending'[c] = 0
                    /\ pending'[c] = Len(children'[c]) + Cardinality(Out(c)')

LEMMA ExecuteStep ==
  ASSUME IndInv, NEW c \in Ctx, Execute(c)
  PROVE  IndInv' /\ CallsAfterAll
<1>1. /\ executes[c] < MaxExecutes
      /\ executes' = [executes EXCEPT ![c] = @ + 1]
      /\ misused' = [misused EXCEPT ![c] = @ \/ pending[c] # 0]
      /\ pending' = [pending EXCEPT ![c] = Len(children[c])]
      /\ Continue(c, workers, job)
      /\ owner' = owner /\ answered' = answered
  BY DEF Execute
<1>0. PICK jobs, A : jobs = job /\ A = {}
  OBVIOUS
<1>2. PICK H \in SUBSET Task : Hands(c, jobs, H)
  BY <1>1, <1>0, ReadyAtExecute, ContinueHands
<1>3. TypeOK /\ Counted /\ PendingExact /\ CallbackOnce
  BY DEF IndInv
<1>4. \A t \in Task : (\E w \in Worker : jobs[w] = t) <=> (Held(t) /\ t \notin A)
  BY <1>0 DEF Held
<1>5. Moves(c, jobs, H, A)
  BY <1>1, <1>2, <1>4, <1>0 DEF Moves
<1>6. WorkersShared' /\ Busy' /\ Distinct' /\ Owned' /\ Placed'
  BY <1>5, HandsPlaces
<1>7. /\ Out(c)' = (Out(c) \ A) \cup H
      /\ Cardinality(Out(c)') = Cardinality(Out(c) \ A) + Cardinality(H)
      /\ \A d \in Ctx : d # c => Out(d)' = Out(d)
  BY <1>5, HandsOut
<1>8. /\ Len(children[c]) \in 0..Cardinality(Task) /\ Cardinality(Task) \in Nat
      /\ pending'[c] = Len(children[c])
      /\ \A d \in Ctx : d # c => pending'[d] = pending[d]
      /\ pending' \in [Ctx -> -Cardinality(Task)..Cardinality(Task)]
  <2>1. Len(children[c]) \in 0..Cardinality(Task) /\ Cardinality(Task) \in Nat
    BY ChildrenBounded, NileAssumption, FS_CardinalityType
  <2>2. Len(children[c]) \in -Cardinality(Task)..Cardinality(Task)
    BY <2>1
  <2> QED
    BY <1>1, <1>3, <2>1, <2>2 DEF TypeOK
<1>9. /\ executes' \in [Ctx -> 0..MaxExecutes] /\ executes'[c] = executes[c] + 1
      /\ \A d \in Ctx : d # c => executes'[d] = executes[d]
  BY <1>1, <1>3, NileAssumption DEF TypeOK
<1>10. /\ misused' \in [Ctx -> BOOLEAN]
       /\ \A d \in Ctx : d # c => misused'[d] = misused[d]
       /\ ~ misused'[c] => ~ misused[c] /\ pending[c] = 0
  BY <1>1, <1>3 DEF TypeOK
<1>11. TypeOK'
  BY <1>1, <1>2, <1>3, <1>8, <1>9, <1>10 DEF TypeOK, Hands
<1>12. Counted'
  <2> SUFFICES ASSUME NEW d \in Ctx PROVE pending'[d] >= 0 - Cardinality(Answered(d)')
    BY DEF Counted
  <2>1. Answered(d)' = Answered(d) /\ Cardinality(Answered(d)) \in Nat
    BY <1>1, <1>3, AnsweredFacts DEF Answered
  <2>2. CASE d = c
    BY <1>8, <2>1, <2>2
  <2>3. CASE d # c
    BY <1>3, <1>8, <2>1, <2>3 DEF Counted
  <2> QED
    BY <2>2, <2>3
<1>13. ASSUME NEW d \in Ctx, ~ misused'[d]
       PROVE  /\ \/ pending'[d] = Len(children'[d]) + Cardinality(Out(d)')
                 \/ pending'[d] = 0 /\ Out(d)' = {}
              /\ calls'[d] + (IF pending'[d] = 0 THEN 0 ELSE 1) = executes'[d]
              /\ calls'[d] > calls[d]
                   => /\ pending'[d] = 0
                      /\ pending'[d] = Len(children'[d]) + Cardinality(Out(d)')
  <2>1. CASE d = c
    <3>1. pending[c] = 0 /\ ~ misused[c]
      BY <1>10, <1>13, <2>1
    <3>2. /\ Len(children[c]) \in Nat /\ Cardinality(Out(c)) \in Nat
          /\ Cardinality(Out(c)) = 0 <=> Out(c) = {}
      BY <1>8, OutFacts
    <3>3. Out(c) = {} /\ calls[c] = executes[c]
      <4>1. /\ \/ pending[c] = Len(children[c]) + Cardinality(Out(c))
               \/ pending[c] = 0 /\ Out(c) = {}
            /\ calls[c] + (IF pending[c] = 0 THEN 0 ELSE 1) = executes[c]
        BY <1>3, <3>1 DEF PendingExact, CallbackOnce
      <4>2. calls[c] \in Nat
        BY <1>3 DEF TypeOK
      <4> QED
        BY <3>1, <3>2, <4>1, <4>2
    <3>4. Cardinality(Out(c)') = Cardinality(H) /\ Cardinality(H) \in Nat
      <4>1. Cardinality(Out(c) \ A) = 0
        BY <1>0, <3>3, FS_EmptySet
      <4>2. Cardinality(H) \in Nat
        BY <1>2, FS_CardinalityType DEF Hands
      <4> QED
        BY <1>7, <4>1, <4>2
    <3>5. pending'[c] = Len(children'[c]) + Cardinality(Out(c)')
      BY <1>2, <1>8, <3>2, <3>4 DEF Hands
    <3>6. calls'[c] = IF pending'[c] = 0 THEN calls[c] + 1 ELSE calls[c]
      BY <1>2 DEF Hands
    <3>7. calls[c] \in Nat
      BY <1>3 DEF TypeOK
    <3>8. calls'[c] + (IF pending'[c] = 0 THEN 0 ELSE 1) = executes'[c]
      BY <1>9, <3>3, <3>6, <3>7
    <3>9. calls'[c] > calls[c] => pending'[c] = 0
      BY <3>6, <3>7
    <3> QED
      BY <2>1, <3>5, <3>8, <3>9
  <2>2. CASE d # c
    <3>1. children'[d] = children[d] /\ calls'[d] = calls[d]
      BY <1>2, <2>2 DEF Hands
    <3>2. calls[d] \in Nat
      BY <1>3 DEF TypeOK
    <3>3. ~ (calls'[d] > calls[d])
      BY <3>1, <3>2
    <3> QED
      BY <1>7, <1>8, <1>9, <1>10, <1>13, <2>2, <3>1, <3>3, OtherJoins
  <2> QED
    BY <2>1, <2>2
<1>14. PendingExact' /\ CallbackOnce' /\ CallsAfterAll
  BY <1>13 DEF PendingExact, CallbackOnce, CallsAfterAll
<1> QED
  BY <1>6, <1>11, <1>12, <1>14 DEF IndInv

LEMMA OnMessageStep ==
  ASSUME IndInv, NEW w \in Worker, OnMessage(w)
  PROVE  IndInv' /\ CallsAfterAll
<1> PICK c, t, jobs : c = owner[job[w]] /\ t = job[w] /\ jobs = [job EXCEPT ![w] = None]
  OBVIOUS
<1>1. /\ status[w] = "replied"
      /\ pending' = [pending EXCEPT ![c] = @ - 1]
      /\ answered' = answered \cup {t}
      /\ Continue(c, Append(workers, w), jobs)
      /\ owner' = owner /\ executes' = executes /\ misused' = misused
  BY DEF OnMessage, Countdown
<1>2. /\ t \in Task /\ Held(t) /\ owner[t] = c /\ c \in Ctx /\ t \notin answered
      /\ \A u \in Task : (\E v \in Worker : jobs[v] = u) <=> (Held(u) /\ u # t)
  BY <1>1, AnswerFacts
<1>3. Ready(c, Append(workers, w), jobs)
  BY <1>1, ReadyAtAnswer
<1>4. PICK H \in SUBSET Task : Hands(c, jobs, H)
  BY <1>1, <1>2, <1>3, ContinueHands
<1>5. TypeOK /\ Counted /\ PendingExact /\ CallbackOnce
  BY DEF IndInv
<1>6. Moves(c, jobs, H, {t})
  BY <1>1, <1>2, <1>4 DEF Moves
<1>7. WorkersShared' /\ Busy' /\ Distinct' /\ Owned' /\ Placed'
  BY <1>2, <1>6, HandsPlaces
<1>8. /\ Out(c)' = (Out(c) \ {t}) \cup H
      /\ Cardinality(Out(c)') = Cardinality(Out(c) \ {t}) + Cardinality(H)
      /\ \A d \in Ctx : d # c => Out(d)' = Out(d)
  BY <1>2, <1>6, HandsOut
<1>9. /\ Cardinality(Task) \in Nat /\ \A d \in Ctx : pending[d] \in Int
      /\ pending'[c] = pending[c] - 1
      /\ \A d \in Ctx : d # c => pending'[d] = pending[d]
  <2>1. Cardinality(Task) \in Nat
    BY NileAssumption, FS_CardinalityType
  <2> QED
    BY <1>1, <1>2, <1>5, <2>1 DEF TypeOK
<1>10. /\ Answered(c)' = Answered(c) \cup {t} /\ t \notin Answered(c)
       /\ \A d \in Ctx : d # c => Answered(d)' = Answered(d)
  BY <1>1, <1>2 DEF Answered
<1>11. /\ Cardinality(Answered(c)') = Cardinality(Answered(c)) + 1
       /\ Cardinality(Answered(c)) \in Nat /\ Cardinality(Answered(c)) + 1 <= Cardinality(Task)
  <2>1. /\ IsFiniteSet(Answered(c)) /\ Cardinality(Answered(c)) \in Nat
        /\ Answered(c) \subseteq Task
    BY <1>2, <1>5, AnsweredFacts
  <2>2. Cardinality(Answered(c) \cup {t}) = Cardinality(Answered(c)) + 1
    BY <1>10, <2>1, FS_AddElement
  <2>3. Answered(c) \cup {t} \subseteq Task
    BY <1>2, <2>1
  <2>4. Cardinality(Answered(c) \cup {t}) <= Cardinality(Task)
    BY <2>3, NileAssumption, FS_Subset
  <2> QED
    BY <1>10, <2>1, <2>2, <2>4
<1>12. pending'[c] >= 0 - Cardinality(Answered(c)')
  <2>1. pending[c] >= 0 - Cardinality(Answered(c))
    BY <1>2, <1>5 DEF Counted
  <2> QED
    BY <1>2, <1>9, <1>11, <2>1
<1>13. pending' \in [Ctx -> -Cardinality(Task)..Cardinality(Task)]
  <2>1. pending[c] \in -Cardinality(Task)..Cardinality(Task)
    BY <1>2, <1>5 DEF TypeOK
  <2>2. pending[c] - 1 \in -Cardinality(Task)..Cardinality(Task)
    BY <1>9, <1>11, <1>12, <2>1
  <2> QED
    BY <1>1, <1>5, <2>2 DEF TypeOK
<1>14. TypeOK'
  <2>1. answered' \subseteq Task
    BY <1>1, <1>2, <1>5 DEF TypeOK
  <2> QED
    BY <1>1, <1>4, <1>5, <1>13, <2>1 DEF TypeOK, Hands
<1>15. Counted'
  BY <1>5, <1>9, <1>10, <1>12 DEF Counted
<1>16. ASSUME NEW d \in Ctx, ~ misused'[d]
       PROVE  /\ \/ pending'[d] = Len(children'[d]) + Cardinality(Out(d)')
                 \/ pending'[d] = 0 /\ Out(d)' = {}
              /\ calls'[d] + (IF pending'[d] = 0 THEN 0 ELSE 1) = executes'[d]
              /\ calls'[d] > calls[d]
                   => /\ pending'[d] = 0
                      /\ pending'[d] = Len(children'[d]) + Cardinality(Out(d)')
  <2>1. CASE d = c
    <3>1. /\ IsFiniteSet(Out(c)) /\ Cardinality(Out(c)) \in Nat
          /\ t \in Out(c) /\ Cardinality(Out(c)) # 0
      BY <1>2, OutFacts
    <3>2. Len(children[c]) \in Nat /\ calls[c] \in Nat
      BY <1>2, <1>5 DEF TypeOK
    <3>3. /\ pending[c] = Len(children[c]) + Cardinality(Out(c))
          /\ calls[c] + (IF pending[c] = 0 THEN 0 ELSE 1) = executes[c]
      BY <1>1, <1>2, <1>5, <1>16, <2>1, <3>1 DEF PendingExact, CallbackOnce
    <3>4. Cardinality(Out(c) \ {t}) = Cardinality(Out(c)) - 1
      BY <3>1, FS_RemoveElement
    <3>5. Cardinality(H) \in Nat
      BY <1>4, FS_CardinalityType DEF Hands
    <3>6. Len(children'[c]) = Len(children[c]) - Cardinality(H)
      BY <1>4 DEF Hands
    <3>7. pending'[c] = Len(children'[c]) + Cardinality(Out(c)')
      BY <1>8, <1>9, <3>1, <3>2, <3>3, <3>4, <3>5, <3>6
    <3>8. calls'[c] = IF pending'[c] = 0 THEN calls[c] + 1 ELSE calls[c]
      BY <1>2, <1>4 DEF Hands
    <3>9. calls'[c] + (IF pending'[c] = 0 THEN 0 ELSE 1) = executes'[c]
      BY <1>1, <3>1, <3>2, <3>3, <3>8
    <3>10. calls'[c] > calls[c] => pending'[c] = 0
      BY <3>2, <3>8
    <3> QED
      BY <2>1, <3>7, <3>9, <3>10
  <2>2. CASE d # c
    <3>1. children'[d] = children[d] /\ calls'[d] = calls[d]
      BY <1>4, <2>2 DEF Hands
    <3>2. calls[d] \in Nat
      BY <1>5 DEF TypeOK
    <3>3. ~ (calls'[d] > calls[d])
      BY <3>1, <3>2
    <3> QED
      BY <1>1, <1>2, <1>8, <1>9, <1>16, <2>2, <3>1, <3>3, OtherJoins
  <2> QED
    BY <2>1, <2>2
<1>17. PendingExact' /\ CallbackOnce' /\ CallsAfterAll
  BY <1>16 DEF PendingExact, CallbackOnce, CallsAfterAll
<1> QED
  BY <1>7, <1>14, <1>15, <1>17 DEF IndInv

-----------------------------------------------------------------------------
LEMMA Initially == Init => IndInv
<1> SUFFICES ASSUME Init PROVE IndInv
  OBVIOUS
<1>1. workers \in Seq(Worker) /\ IsInjective(workers) /\ Range(workers) = Worker
  <2>1. Cardinality(Worker) \in Nat
    BY NileAssumption, FS_CardinalityType
  <2>2. /\ workers \in [1..Cardinality(Worker) -> Worker]
        /\ \A i, j \in 1..Cardinality(Worker) : i # j => workers[i] # workers[j]
    BY DEF Init, SetToSeqs
  <2>3. workers \in Seq(Worker) /\ Len(workers) = Cardinality(Worker)
    BY <2>1, <2>2
  <2>4. IsInjective(workers)
    BY <2>2 DEF IsInjective
  <2>5. Cardinality(Range(workers)) = Cardinality(Worker) /\ Range(workers) \subseteq Worker
    BY <2>3, <2>4, InjectiveCardinality, SeqRange
  <2>6. Range(workers) = Worker
    BY <2>5, NileAssumption, FS_Subset
  <2> QED
    BY <2>3, <2>4, <2>6
<1>2. /\ children = [c \in Ctx |-> <<>>] /\ pending = [c \in Ctx |-> 0]
      /\ owner = [t \in Task |-> None] /\ answered = {}
      /\ job = [w \in Worker |-> None] /\ status = [w \in Worker |-> "idle"]
      /\ executes = [c \in Ctx |-> 0] /\ calls = [c \in Ctx |-> 0]
      /\ misused = [c \in Ctx |-> FALSE]
  BY DEF Init
<1>3. None \notin Task /\ Cardinality(Task) \in Nat /\ MaxExecutes \in Nat
  BY NileAssumption, FS_CardinalityType
<1>4. \A c \in Ctx : children[c] = <<>> /\ IsInjective(children[c]) /\ Range(children[c]) = {}
  BY <1>2, EmptyRange
<1>5. TypeOK
  <2>1. 0 \in -Cardinality(Task)..Cardinality(Task) /\ 0 \in 0..MaxExecutes
    BY <1>3
  <2>2. <<>> \in Seq(Task)
    OBVIOUS
  <2> QED
    BY <1>1, <1>2, <2>1, <2>2 DEF TypeOK
<1>6. WorkersShared /\ Busy
  BY <1>1, <1>2 DEF WorkersShared, Busy
<1>7. Distinct
  BY <1>2, <1>4 DEF Distinct
<1>8. \A t \in Task : ~ Held(t) /\ ~ Queued(t) /\ t \notin answered /\ owner[t] = None
  BY <1>2, <1>3, <1>4 DEF Held, Queued
<1>9. Owned /\ Placed
  BY <1>4, <1>8 DEF Owned, Placed
<1>10. ASSUME NEW c \in Ctx
       PROVE  /\ Answered(c) = {} /\ Out(c) = {}
              /\ Cardinality(Answered(c)) = 0
  <2>1. Answered(c) = {}
    BY <1>2 DEF Answered
  <2>2. Out(c) = {}
    BY <1>2, <1>3 DEF Out
  <2> QED
    BY <2>1, <2>2, FS_EmptySet
<1>11. Counted /\ PendingExact /\ CallbackOnce
  BY <1>2, <1>10 DEF Counted, PendingExact, CallbackOnce
<1> QED
  BY <1>5, <1>6, <1>7, <1>9, <1>11 DEF IndInv

LEMMA Inductive == IndInv /\ [Next]_vars => IndInv'
<1> SUFFICES ASSUME IndInv, [Next]_vars PROVE IndInv'
  OBVIOUS
<1>1. ASSUME NEW c \in Ctx, Execute(c) PROVE IndInv'
  BY <1>1, ExecuteStep
<1>2. ASSUME NEW c \in Ctx, NEW t \in Task, Fork(c, t) PROVE IndInv'
  BY <1>2, ForkStep
<1>3. ASSUME NEW w \in Worker, Reply(w) \/ Throw(w) PROVE IndInv'
  BY <1>3, RunStep
<1>4. ASSUME NEW w \in Worker, OnMessage(w) PROVE IndInv'
  BY <1>4, OnMessageStep
<1>5. CASE UNCHANGED vars
  <2>1. /\ TypeOK /\ WorkersShared /\ Busy /\ Distinct /\ Owned /\ Placed
        /\ Counted /\ PendingExact /\ CallbackOnce
    BY DEF IndInv
  <2>2. /\ workers' = workers /\ children' = children /\ pending' = pending
        /\ owner' = owner /\ answered' = answered /\ job' = job /\ status' = status
        /\ executes' = executes /\ calls' = calls /\ misused' = misused
    BY <1>5 DEF vars
  <2>3. TypeOK' /\ Busy'
    BY <2>1, <2>2 DEF TypeOK, Busy
  <2>4. WorkersShared' /\ Distinct'
    BY <2>1, <2>2 DEF WorkersShared, Distinct
  <2>5. Owned' /\ Placed'
    BY <2>1, <2>2 DEF Owned, Placed, Held, Queued
  <2>6. Counted' /\ PendingExact' /\ CallbackOnce'
    BY <2>1, <2>2 DEF Counted, Answered, PendingExact, Out, CallbackOnce
  <2> QED
    BY <2>3, <2>4, <2>5, <2>6 DEF IndInv
<1> QED
  BY <1>1, <1>2, <1>3, <1>4, <1>5 DEF Next

LEMMA Invariant == Spec => []IndInv
  BY Initially, Inductive, PTL DEF Spec

-----------------------------------------------------------------------------
\* Type correctness; in particular, the counter of _execute stays within the
\* number of tasks, on either side of 0, although fork and execute may be
\* called in any order.
THEOREM TypeCorrect == Spec => []TypeOK
<1>1. IndInv => TypeOK
  BY DEF IndInv
<1> QED
  BY <1>1, Invariant, PTL

\* A worker is in global_workers exactly when it has no task, and once,
\* however many Parallels share the list.
THEOREM SharesWorkers == Spec => []WorkersShared
<1>1. IndInv => WorkersShared
  BY DEF IndInv
<1> QED
  BY <1>1, Invariant, PTL

\* A function that was forked is queued, with one worker, or answered: it
\* runs once, for any number of Parallels, whatever the order of the answers
\* and of fork and execute.
THEOREM RunOnce == Spec => []TasksRunOnce
<1>1. ASSUME IndInv PROVE TasksRunOnce
  <2> SUFFICES ASSUME NEW t \in Task, owner[t] # None
               PROVE  Cardinality({i \in DOMAIN children[owner[t]] :
                                     children[owner[t]][i] = t})
                        + Cardinality({w \in Worker : job[w] = t})
                        + (IF t \in answered THEN 1 ELSE 0) = 1
    BY DEF TasksRunOnce
  <2> DEFINE c == owner[t]
             I == {i \in DOMAIN children[c] : children[c][i] = t}
             W == {w \in Worker : job[w] = t}
  <2>1. c \in Ctx /\ None \notin Task /\ IsInjective(children[c])
    BY <1>1, NileAssumption DEF IndInv, TypeOK, Distinct
  <2>2. Queued(t) <=> t \in Range(children[c])
    BY <1>1, <2>1 DEF IndInv, Owned, Queued
  <2>3. Cardinality(I) = IF Queued(t) THEN 1 ELSE 0
    <3>1. CASE Queued(t)
      <4>1. PICK i \in DOMAIN children[c] : children[c][i] = t
        BY <2>2, <3>1 DEF Range
      <4>2. I = {i}
        BY <2>1, <4>1 DEF IsInjective
      <4> QED
        BY <3>1, <4>2, FS_Singleton
    <3>2. CASE ~ Queued(t)
      <4>1. I = {}
        BY <2>2, <3>2 DEF Range
      <4> QED
        BY <3>2, <4>1, FS_EmptySet
    <3> QED
      BY <3>1, <3>2
  <2>4. Cardinality(W) = IF Held(t) THEN 1 ELSE 0
    <3>1. CASE Held(t)
      <4>1. PICK w \in Worker : job[w] = t
        BY <3>1 DEF Held
      <4>2. W = {w}
        BY <1>1, <2>1, <4>1 DEF IndInv, Distinct
      <4> QED
        BY <3>1, <4>2, FS_Singleton
    <3>2. CASE ~ Held(t)
      <4>1. W = {}
        BY <3>2 DEF Held
      <4> QED
        BY <3>2, <4>1, FS_EmptySet
    <3> QED
      BY <3>1, <3>2
  <2>5. /\ Queued(t) \/ Held(t) \/ t \in answered
        /\ ~ (Queued(t) /\ Held(t)) /\ ~ (Queued(t) /\ t \in answered)
        /\ ~ (Held(t) /\ t \in answered)
    BY <1>1 DEF IndInv, Placed
  <2> HIDE DEF I, W
  <2>6. Cardinality(I) + Cardinality(W) + (IF t \in answered THEN 1 ELSE 0) = 1
    BY <2>3, <2>4, <2>5
  <2> QED
    BY <2>6 DEF I, W
<1> QED
  BY <1>1, Invariant, PTL

\* While fork and execute keep away from a join, its counter is the number
\* of children that have not answered; the answers of other Parallels, which
\* use the same workers, leave it alone.
THEOREM PendingIsExact == Spec => []PendingExact
<1>1. IndInv => PendingExact
  BY DEF IndInv
<1> QED
  BY <1>1, Invariant, PTL

\* The callback is called once per execute, after the last answer.
THEOREM CallsBackOnce == Spec => []CallbackOnce
<1>1. IndInv => CallbackOnce
  BY DEF IndInv
<1> QED
  BY <1>1, Invariant, PTL

\* When the callback is called, every Result that fork of this Parallel has
\* returned can be read: get was installed before _execute was called.
THEOREM CallsBackReadable == Spec => CallbackReadsAll
<1>1. ASSUME IndInv, Next PROVE CallsAfterAll
  <2>1. ASSUME NEW c \in Ctx, Execute(c) PROVE CallsAfterAll
    BY <1>1, <2>1, ExecuteStep
  <2>2. ASSUME NEW w \in Worker, OnMessage(w) PROVE CallsAfterAll
    BY <1>1, <2>2, OnMessageStep
  <2>3. ASSUME calls' = calls PROVE CallsAfterAll
    <3>1. \A c \in Ctx : calls[c] \in Nat
      BY <1>1 DEF IndInv, TypeOK
    <3> QED
      BY <2>3, <3>1 DEF CallsAfterAll
  <2>4. ASSUME NEW c \in Ctx, NEW t \in Task, Fork(c, t) PROVE calls' = calls
    BY <2>4 DEF Fork
  <2>5. ASSUME NEW w \in Worker, Reply(w) \/ Throw(w) PROVE calls' = calls
    BY <2>5 DEF Reply, Throw
  <2> QED
    BY <1>1, <2>1, <2>2, <2>3, <2>4, <2>5 DEF Next
<1>2. ASSUME IndInv', NEW c \in Ctx, pending'[c] = 0,
             pending'[c] = Len(children'[c]) + Cardinality(Out(c)'),
             NEW t \in Task, owner'[t] = c
      PROVE  Readable(t)'
  <2>1. children'[c] \in Seq(Task) /\ Len(children'[c]) \in Nat
    BY <1>2 DEF IndInv, TypeOK
  <2>2. /\ IsFiniteSet(Out(c)') /\ Cardinality(Out(c)') \in Nat
        /\ Cardinality(Out(c)') = 0 <=> Out(c)' = {}
    <3>1. Out(c)' \subseteq Task
      BY DEF Out
    <3>2. IsFiniteSet(Out(c)')
      BY <3>1, NileAssumption, FS_Subset
    <3> QED
      BY <3>2, FS_CardinalityType, FS_EmptySet
  <2>3. children'[c] = <<>> /\ Out(c)' = {}
    BY <1>2, <2>1, <2>2
  <2>4. ~ Held(t)'
    BY <1>2, <2>3 DEF Out, Held
  <2>5. ASSUME Queued(t)' PROVE FALSE
    <3>1. PICK d \in Ctx : t \in Range(children'[d])
      BY <2>5 DEF Queued
    <3>2. d = c
      BY <1>2, <3>1 DEF IndInv, Owned
    <3> QED
      BY <2>3, <3>1, <3>2, EmptyRange
  <2>6. owner'[t] # None
    BY <1>2, NileAssumption
  <2>7. t \in answered'
    BY <1>2, <2>4, <2>5, <2>6 DEF IndInv, Placed
  <2> QED
    BY <1>2, <2>7 DEF Readable
<1>3. ASSUME IndInv, IndInv', Next
      PROVE  \A c \in Ctx : calls'[c] > calls[c] /\ ~ misused'[c] =>
               \A t \in Task : owner'[t] = c => Readable(t)'
  BY <1>1, <1>2, <1>3 DEF CallsAfterAll
<1>4. IndInv /\ IndInv' /\ [Next]_vars
        => [\A c \in Ctx : calls'[c] > calls[c] /\ ~ misused'[c] =>
              \A t \in Task : owner'[t] = c => Readable(t)']_vars
  BY <1>3
<1> QED
  BY <1>4, Invariant, PTL DEF Spec, CallbackReadsAll
=============================================================================
