--------------------------- MODULE WatchdogProofs ---------------------------
(***************************************************************************)
(* Proofs about Watchdog for every range of the clock, every delay below a *)
(* quarter of it, and every set of callers and intervals.                  *)
(***************************************************************************)
EXTENDS Watchdog, TLAPS

-----------------------------------------------------------------------------
(***************************************************************************)
(* The wrapping clock.                                                     *)
(***************************************************************************)
\* The range is even, and the delay is below a quarter of it.
LEMMA Sizes ==
  Half \in Nat /\ Wrap \in Nat /\ Wrap > 0 /\ Wrap = 2 * Half /\ Late \in Nat /\ 2 * Late < Half
<1>1. Half \in Int
  BY WatchdogAssumption DEF Half
<1> QED
  BY <1>1, WatchdogAssumption

\* Only one time is a given number modulo Wrap.
LEMMA ModUnique ==
  ASSUME NEW k \in Int, NEW r \in 0..(Wrap - 1)
  PROVE  (r + k * Wrap) % Wrap = r
BY Sizes

\* A number and its remainder differ by a multiple of Wrap.
LEMMA ModQuotient ==
  ASSUME NEW a \in Int
  PROVE  \E k \in Int : a = (a % Wrap) + k * Wrap
<1>1. a \div Wrap \in Int /\ a = (a % Wrap) + (a \div Wrap) * Wrap
  BY Sizes
<1> QED
  BY <1>1

\* A remainder is a time.
LEMMA ModInTime ==
  ASSUME NEW a \in Int
  PROVE  a % Wrap \in Time
BY Sizes DEF Time

\* Numbers that differ by a multiple of Wrap have one remainder.
LEMMA ModCongruent ==
  ASSUME NEW a \in Int, NEW b \in Int, NEW k \in Int, a = b + k * Wrap
  PROVE  a % Wrap = b % Wrap
<1>1. PICK j \in Int : b = (b % Wrap) + j * Wrap
  BY ModQuotient
<1>2. a = (b % Wrap) + (k + j) * Wrap
  BY <1>1, Sizes, ModInTime DEF Time
<1> QED
  BY <1>2, ModUnique, ModInTime DEF Time

\* The clock may be reduced at any point.
LEMMA ModAdd ==
  ASSUME NEW a \in Int, NEW b \in Int
  PROVE  ((a % Wrap) + b) % Wrap = (a + b) % Wrap
<1>1. PICK k \in Int : a = (a % Wrap) + k * Wrap
  BY ModQuotient
<1> DEFINE r == a % Wrap
<1>2. r \in Int
  BY ModInTime, Sizes DEF Time
<1>3. a + b = (r + b) + k * Wrap
  BY <1>1, <1>2, Sizes
<1> HIDE DEF r
<1>4. (a + b) % Wrap = (r + b) % Wrap
  BY <1>2, <1>3, ModCongruent
<1> QED
  BY <1>4 DEF r

\* The difference of two times is that of the numbers of ticks left.
LEMMA ModDifference ==
  ASSUME NEW a \in Int, NEW b \in Int
  PROVE  ((a % Wrap) - (b % Wrap)) % Wrap = (a - b) % Wrap
<1>1. PICK k \in Int : a = (a % Wrap) + k * Wrap
  BY ModQuotient
<1>2. PICK j \in Int : b = (b % Wrap) + j * Wrap
  BY ModQuotient
<1> DEFINE r == a % Wrap
           s == b % Wrap
<1>3. r \in Int /\ s \in Int
  BY ModInTime, Sizes DEF Time
<1>4. a - b = (r - s) + (k - j) * Wrap
  BY <1>1, <1>2, <1>3, Sizes
<1> HIDE DEF r, s
<1>5. (a - b) % Wrap = (r - s) % Wrap
  BY <1>3, <1>4, ModCongruent
<1> QED
  BY <1>5 DEF r, s

\* IsBefore is right about times that are at most half the range apart.
LEMMA SignOfDifference ==
  ASSUME NEW d \in Int, -Half <= d, d <= Half
  PROVE  /\ d < 0 => d % Wrap >= Half
         /\ 0 <= d /\ d < Half => d % Wrap = d
         /\ d = Half => d % Wrap = Half
<1>1. CASE d < 0
  <2>1. d + Wrap \in 0..(Wrap - 1) /\ d + Wrap >= Half /\ d = (d + Wrap) + (-1) * Wrap
    BY <1>1, Sizes
  <2>2. d % Wrap = d + Wrap
    BY <2>1, ModUnique
  <2> QED
    BY <1>1, <2>1, <2>2, Sizes
<1>2. CASE d >= 0
  <2>1. d \in 0..(Wrap - 1) /\ d = d + 0 * Wrap
    BY <1>2, Sizes
  <2>2. d % Wrap = d
    BY <2>1, ModUnique
  <2> QED
    BY <1>2, <2>2, Sizes
<1> QED
  BY <1>1, <1>2
-----------------------------------------------------------------------------
(***************************************************************************)
(* The comparisons of the code, when the clock and the histories agree.    *)
(***************************************************************************)
\* The watchdog sees a timeout expire exactly when it is due.
LEMMA ExpiredIsDue ==
  ASSUME TypeOK, hasTimeout, Watched
  PROVE  /\ IsBefore(clock, timeout) <=> due > 0
         /\ due > 0 => (timeout - clock) % Wrap = due
<1>1. clock \in 0..(Wrap - 1) /\ due \in Int /\ -Late <= due /\ due + Late <= Half
  BY Sizes DEF TypeOK, Time, Watched
<1>2. clock \in Int /\ clock + due \in Int
  BY <1>1, Sizes
<1>3. clock % Wrap = clock
  BY <1>1, Sizes
<1>4. (clock - timeout) % Wrap = (-due) % Wrap
  <2>1. ((clock % Wrap) - ((clock + due) % Wrap)) % Wrap = (clock - (clock + due)) % Wrap
    BY <1>2, ModDifference, Zenon
  <2>2. clock - (clock + due) = -due
    BY <1>1, Sizes
  <2> QED
    BY <1>3, <2>1, <2>2, Zenon DEF Watched
<1>5. (timeout - clock) % Wrap = due % Wrap
  <2>1. (((clock + due) % Wrap) - (clock % Wrap)) % Wrap = ((clock + due) - clock) % Wrap
    BY <1>2, ModDifference, Zenon
  <2>2. (clock + due) - clock = due
    BY <1>1, Sizes
  <2> QED
    BY <1>3, <2>1, <2>2, Zenon DEF Watched
<1>6. due > 0 => due % Wrap = due
  BY <1>1, Sizes, SignOfDifference
<1>7. (-due) % Wrap >= Half <=> due > 0
  BY <1>1, Sizes, SignOfDifference
<1> QED
  BY <1>4, <1>5, <1>6, <1>7 DEF IsBefore

\* A caller that does not notify the watchdog sets no earlier timeout.
LEMMA NotBeforeIsLater ==
  ASSUME TypeOK, hasTimeout, Watched, short,
         NEW c \in Caller, Computed(c), ~IsBefore(target[c], timeout)
  PROVE  due <= left[c]
<1> DEFINE l == left[c]
<1>1. /\ clock \in 0..(Wrap - 1)
      /\ due \in Int /\ -Late <= due /\ due + Late <= Half
      /\ l \in Int /\ -Late <= l /\ l + Late <= Half
  BY Sizes DEF TypeOK, Time, Watched, Computed
<1>2. target[c] = (clock + l) % Wrap
  BY DEF Computed
<1> HIDE DEF l
<1>3. clock + l \in Int /\ clock + due \in Int
  BY <1>1, Sizes
<1>4. (target[c] - timeout) % Wrap = (l - due) % Wrap
  <2>1. (((clock + l) % Wrap) - ((clock + due) % Wrap)) % Wrap
          = ((clock + l) - (clock + due)) % Wrap
    BY <1>3, ModDifference, Zenon
  <2>2. (clock + l) - (clock + due) = l - due
    BY <1>1, Sizes
  <2> QED
    BY <1>2, <2>1, <2>2, Zenon DEF Watched
<1>5. l - due < 0 => (l - due) % Wrap >= Half
  BY <1>1, Sizes, SignOfDifference
<1> QED
  BY <1>1, <1>4, <1>5 DEF IsBefore, l

\* A tick brings the clock nearer to a timeout that is t ticks away.
LEMMA TickKeepsTime ==
  ASSUME TypeOK, NEW t \in Int
  PROVE  (((clock + 1) % Wrap) + (t - 1)) % Wrap = (clock + t) % Wrap
<1>1. clock + 1 \in Int /\ t - 1 \in Int
  BY Sizes DEF TypeOK, Time
<1>2. (((clock + 1) % Wrap) + (t - 1)) % Wrap = ((clock + 1) + (t - 1)) % Wrap
  BY <1>1, ModAdd
<1>3. (clock + 1) + (t - 1) = clock + t
  BY <1>1, Sizes DEF TypeOK, Time
<1> QED
  BY <1>2, <1>3
-----------------------------------------------------------------------------
(***************************************************************************)
(* The inductive invariant.                                                *)
(***************************************************************************)
LEMMA ZeroInRange == 0 \in Time /\ 0 \in -Late..(Wrap - 1) /\ 0 \in 0..Forever
BY Sizes DEF Time, Forever

LEMMA InitEstablishes == Init => IndInv
<1> SUFFICES ASSUME Init PROVE IndInv
  OBVIOUS
<1>1. calls \in 0..MaxCalls
  BY WatchdogAssumption DEF Init
<1>2. TypeOK
  BY <1>1, ZeroInRange, Zenon DEF Init, TypeOK
<1> QED
  BY <1>2 DEF Init, IndInv

\* Every step keeps the types; it needs that no caller outlives KillWatchdog.
LEMMA TypesKept ==
  ASSUME IndInv, [Next]_vars
  PROVE  TypeOK'
<1> USE DEF TypeOK
<1>0. TypeOK /\ \A c \in Caller : stage[c] = "computed" => kill = "no"
  BY DEF IndInv, Computed
<1>1. CASE Tick
  <2>1. clock' \in Time
    BY <1>0, <1>1, Sizes, ModInTime DEF Tick, Time
  <2>2. sleep' \in 0..Forever
    BY <1>0, <1>1, Sizes DEF Tick, Forever
  <2>3. due' \in -Late..(Wrap - 1)
    BY <1>0, <1>1, Sizes DEF Tick
  <2>4. left' \in [Caller -> -Late..(Wrap - 1)]
    BY <1>0, <1>1, Sizes DEF Tick
  <2> QED
    BY <1>0, <1>1, <2>1, <2>2, <2>3, <2>4, Zenon DEF Tick
<1>2. CASE Exit
  BY <1>0, <1>2 DEF Exit, clientVars, timeoutVars
<1>3. CASE Expire
  BY <1>0, <1>3, ZeroInRange, Zenon DEF Expire, clientVars
<1>4. CASE GoToSleep
  <2>1. sleep' \in 0..Forever
    <3>1. timeout - clock \in Int
      BY <1>0, Sizes DEF Time
    <3>2. (timeout - clock) % Wrap \in Time
      BY <3>1, ModInTime
    <3> QED
      BY <1>4, <3>2, Sizes DEF GoToSleep, Time, Forever
  <2> QED
    BY <1>0, <1>4, <2>1 DEF GoToSleep, clientVars, timeoutVars
<1>5. CASE WakeUp
  BY <1>0, <1>5 DEF WakeUp, clientVars, timeoutVars
<1>6. CASE CancelExecution
  BY <1>0, <1>6 DEF CancelExecution, clientVars, timeoutVars
<1>7. CASE Disable
  BY <1>0, <1>7, ZeroInRange, Zenon DEF Disable, clientVars
<1>8. CASE KillWatchdog
  BY <1>0, <1>8 DEF KillWatchdog, Notified, clientVars, timeoutVars
<1>9. CASE Joined
  BY <1>0, <1>9 DEF Joined, clientVars, timeoutVars
<1>10. ASSUME NEW c \in Caller, NEW i \in Interval, Compute(c, i)
       PROVE  TypeOK'
  <2>1. i \in 1..(Wrap - 1)
    BY WatchdogAssumption
  <2>2. (clock + i) % Wrap \in Time
    BY <1>0, <2>1, Sizes, ModInTime DEF Time
  <2>3. calls' \in 0..MaxCalls
    BY <1>0, <1>10, WatchdogAssumption DEF Compute
  <2>4. left' \in [Caller -> -Late..(Wrap - 1)]
    BY <1>0, <1>10, <2>1, Sizes DEF Compute
  <2>5. short' \in BOOLEAN
    BY <1>0, <1>10, Zenon DEF Compute
  <2> QED
    BY <1>0, <1>10, <2>2, <2>3, <2>4, <2>5, Zenon DEF Compute, timeoutVars
<1>11. ASSUME NEW c \in Caller, Install(c)
       PROVE  TypeOK'
  BY <1>0, <1>11, ZeroInRange DEF Install, SetTimeout, Returns, Notified
<1>12. ASSUME NEW c \in Caller, InstallFails(c)
       PROVE  TypeOK'
  BY <1>0, <1>12, ZeroInRange DEF InstallFails, Returns, timeoutVars
<1>13. CASE UNCHANGED vars
  BY <1>0, <1>13, Zenon DEF vars, clientVars, timeoutVars
<1> QED
  BY <1>1, <1>2, <1>3, <1>4, <1>5, <1>6, <1>7, <1>8, <1>9, <1>10, <1>11,
     <1>12, <1>13, Zenon DEF Next, WatchdogStep, CallerStep

\* Only a thread that runs sleeps: KillWatchdog notifies it.
LEMMA SleeperRuns ==
  ASSUME IndInv, [Next]_vars
  PROVE  pc' = "asleep" => running'
BY DEF IndInv, TypeOK, Next, WatchdogStep, CallerStep, Tick, Exit, Expire,
       GoToSleep, WakeUp, CancelExecution, Disable, KillWatchdog, Joined,
       Compute, Install, InstallFails, Notified, vars

\* A timeout that was computed stays right until it is set.
LEMMA ComputedKept ==
  ASSUME IndInv, [Next]_vars, NEW c \in Caller, stage'[c] = "computed"
  PROVE  Computed(c)'
<1>0. TypeOK /\ (stage[c] = "computed" => Computed(c))
  BY DEF IndInv
<1>1. CASE Tick
  <2>1. stage[c] = "computed" /\ Computed(c)
    BY <1>0, <1>1 DEF Tick
  <2>2. left[c] \in Int /\ left'[c] = left[c] - 1
    BY <1>0, <1>1, <2>1, Sizes DEF Tick, TypeOK
  <2>3. (((clock + 1) % Wrap) + (left[c] - 1)) % Wrap = (clock + left[c]) % Wrap
    BY <1>0, <2>2, TickKeepsTime
  <2>4. target'[c] = (clock' + left'[c]) % Wrap
    BY <1>1, <2>1, <2>2, <2>3, Zenon DEF Tick, Computed
  <2>5. short' => left'[c] + Late <= Half
    BY <1>1, <2>1, <2>2, Sizes DEF Tick, Computed
  <2> QED
    BY <1>1, <2>1, <2>4, <2>5, Zenon DEF Tick, Computed
<1>2. CASE WatchdogStep \/ Disable \/ UNCHANGED vars
  <2>1. UNCHANGED <<clock, stage, target, left, kill, short>>
    BY <1>2, Zenon DEF WatchdogStep, Exit, Expire, GoToSleep, WakeUp, CancelExecution,
                Disable, vars, clientVars
  <2> QED
    BY <1>0, <2>1, Zenon DEF Computed
<1>3. CASE KillWatchdog
  BY <1>3, Zenon DEF KillWatchdog, clientVars
<1>4. CASE Joined
  BY <1>0, <1>4, Zenon DEF Joined, clientVars, Computed
<1>5. ASSUME NEW d \in Caller, NEW i \in Interval, Compute(d, i)
      PROVE  Computed(c)'
  <2>1. CASE d = c
    BY <1>0, <1>5, <2>1, Zenon DEF Compute, Computed, TypeOK
  <2>2. CASE d # c
    BY <1>0, <1>5, <2>2, Zenon DEF Compute, Computed, TypeOK
  <2> QED
    BY <2>1, <2>2
<1>6. ASSUME NEW d \in Caller, CallerStep(d)
      PROVE  Computed(c)'
  <2>1. d # c
    BY <1>0, <1>6, Zenon DEF CallerStep, Install, InstallFails, Returns, TypeOK
  <2>2. UNCHANGED <<clock, kill, short>> /\ stage'[c] = stage[c]
        /\ target'[c] = target[c] /\ left'[c] = left[c]
    BY <1>0, <1>6, <2>1, Zenon DEF CallerStep, Install, InstallFails, Returns, TypeOK
  <2> QED
    BY <1>0, <2>2, Zenon DEF Computed
<1> QED
  BY <1>1, <1>2, <1>3, <1>4, <1>5, <1>6, Zenon DEF Next

\* The timeout that is set stays right, and nothing lets the watchdog sleep
\* past it: a new timeout is either announced to it or not earlier.
LEMMA WatchedKept ==
  ASSUME IndInv, [Next]_vars, short', running', hasTimeout'
  PROVE  Watched'
<1>1. TypeOK /\ (short /\ running /\ hasTimeout => Watched)
  BY DEF IndInv
<1>2. due \in Int /\ -Late <= due
  BY <1>1, Sizes DEF TypeOK
<1>3. CASE Tick
  <2>1. short /\ running /\ hasTimeout /\ Watched
    BY <1>1, <1>3, Zenon DEF Tick
  <2>2. due # -Late
    <3> SUFFICES ASSUME due = -Late PROVE FALSE
      OBVIOUS
    <3>1. pc = "asleep" /\ sleep > 0
      BY <1>3, <2>1, Zenon DEF Tick
    <3>2. sleep = 0 \/ sleep <= due
      BY <2>1, <3>1 DEF Watched
    <3>3. sleep \in Nat
      BY <1>1, Sizes DEF TypeOK, Forever
    <3> QED
      BY <1>2, <3>1, <3>2, <3>3, Sizes
  <2>3. due' = due - 1
    BY <1>2, <1>3, <2>1, <2>2, Sizes DEF Tick
  <2>4. (((clock + 1) % Wrap) + (due - 1)) % Wrap = (clock + due) % Wrap
    BY <1>1, <1>2, TickKeepsTime
  <2>5. timeout' = (clock' + due') % Wrap
    BY <1>3, <2>1, <2>3, <2>4, Zenon DEF Tick, Watched
  <2>6. pc' = "asleep" => sleep' = 0 \/ sleep' <= due'
    <3>1. pc' = pc /\ (pc = "asleep" => sleep = 0 \/ sleep <= due)
      BY <1>3, <2>1 DEF Tick, Watched
    <3>2. sleep \in 0..Forever /\ due < Forever
      BY <1>1, <1>2, Sizes DEF TypeOK, Forever
    <3>3. sleep' = IF sleep \in {0, Forever} THEN sleep ELSE sleep - 1
      BY <1>3 DEF Tick
    <3> QED
      BY <1>2, <2>3, <3>1, <3>2, <3>3, Sizes DEF Forever
  <2>7. due' + Late <= Half
    BY <1>2, <2>1, <2>3, Sizes DEF Watched
  <2> QED
    BY <2>5, <2>6, <2>7, Zenon DEF Watched
<1>4. CASE Exit \/ Expire
  BY <1>4, Zenon DEF Exit, Expire
<1>5. CASE GoToSleep
  <2>1. short /\ running /\ hasTimeout /\ Watched
    BY <1>1, <1>5, Zenon DEF GoToSleep, timeoutVars
  <2>2. sleep' = due
    BY <1>1, <1>5, <2>1, ExpiredIsDue, Zenon DEF GoToSleep, Expired
  <2>3. UNCHANGED <<clock, timeout, due>>
    BY <1>5, Zenon DEF GoToSleep, timeoutVars
  <2>4. sleep' <= due'
    BY <1>2, <2>2, <2>3
  <2> QED
    BY <2>1, <2>3, <2>4, Zenon DEF Watched
<1>6. CASE WakeUp \/ CancelExecution \/ Joined \/ UNCHANGED vars
  <2>1. UNCHANGED <<clock, running, sleep, hasTimeout, timeout, due, short>>
        /\ pc' \in {pc, "loop"}
    BY <1>6, Zenon DEF WakeUp, CancelExecution, Joined, vars, timeoutVars
  <2>2. Watched
    BY <1>1, <2>1, Zenon
  <2>3. pc' = "asleep" => sleep = 0 \/ sleep <= due
    BY <2>1, <2>2 DEF Watched
  <2> QED
    BY <2>1, <2>2, <2>3, Zenon DEF Watched
<1>7. CASE Disable \/ KillWatchdog
  BY <1>7, Zenon DEF Disable, KillWatchdog
<1>8. ASSUME NEW c \in Caller, NEW i \in Interval, Compute(c, i)
      PROVE  Watched'
  <2>1. short /\ UNCHANGED <<clock, running, pc, sleep, hasTimeout, timeout, due>>
    BY <1>8, Zenon DEF Compute, timeoutVars
  <2> QED
    BY <1>1, <2>1, Zenon DEF Watched
<1>9. ASSUME NEW c \in Caller, Install(c)
      PROVE  Watched'
  <2>1. short /\ Computed(c)
    BY <1>9, Zenon DEF Install, IndInv
  <2>2. UNCHANGED <<clock, sleep>> /\ timeout' = target[c] /\ due' = left[c]
    BY <1>9 DEF Install, SetTimeout
  <2>3. pc' = "asleep" => sleep = 0 \/ sleep <= left[c]
    <3> SUFFICES ASSUME pc' = "asleep" PROVE sleep = 0 \/ sleep <= left[c]
      OBVIOUS
    <3>1. running /\ hasTimeout /\ ~IsBefore(target[c], timeout) /\ pc = "asleep"
      BY <1>9 DEF Install, Notified
    <3>2. Watched
      BY <1>1, <2>1, <3>1, Zenon
    <3>3. due <= left[c]
      BY <1>1, <2>1, <3>1, <3>2, NotBeforeIsLater, Zenon
    <3>4. sleep \in Int /\ left[c] \in Int
      BY <1>1, Sizes DEF TypeOK, Forever
    <3> QED
      BY <1>2, <3>1, <3>2, <3>3, <3>4 DEF Watched
  <2> QED
    BY <2>1, <2>2, <2>3, Zenon DEF Watched, Computed
<1>10. ASSUME NEW c \in Caller, InstallFails(c)
       PROVE  Watched'
  BY <1>10, Zenon DEF InstallFails
<1> QED
  BY <1>3, <1>4, <1>5, <1>6, <1>7, <1>8, <1>9, <1>10, Zenon
     DEF Next, WatchdogStep, CallerStep

\* One step of anyone keeps the whole invariant.
LEMMA InvariantKept == IndInv /\ [Next]_vars => IndInv'
BY TypesKept, SleeperRuns, ComputedKept, WatchedKept, Zenon DEF IndInv

\* The clock and the histories agree in every state, and the watchdog never
\* sleeps past the timeout that is set.
THEOREM Invariance == Spec => []IndInv
BY InitEstablishes, InvariantKept, PTL DEF Spec
-----------------------------------------------------------------------------
(***************************************************************************)
(* What it gives.                                                          *)
(***************************************************************************)
\* The types, and what the code asserts: a timeout is set only while the
\* thread runs, until KillWatchdog.
THEOREM TypeCorrect == Spec => []TypeOK
<1>1. IndInv => TypeOK
  BY DEF IndInv
<1> QED
  BY <1>1, Invariance, PTL

\* The watchdog cancels no script before its time is up and does not sleep
\* beyond it, however the clock wraps.
THEOREM Punctual == Spec => OnTime
<1> DEFINE NotEarly == pc # "cancel" /\ pc' = "cancel" => due <= 0
           NotLate == pc' = "asleep" /\ hasTimeout' => sleep' = 0 \/ sleep' <= due'
<1>1. ASSUME IndInv, [Next]_vars, short'
      PROVE  NotEarly
  <2> SUFFICES ASSUME pc # "cancel", pc' = "cancel" PROVE due <= 0
    OBVIOUS
  <2>1. Expire
    BY <1>1 DEF Next, WatchdogStep, CallerStep, Tick, Exit, GoToSleep, WakeUp,
       CancelExecution, Disable, KillWatchdog, Joined, Compute, Install,
       InstallFails, Notified, vars
  <2>2. TypeOK /\ hasTimeout /\ Watched /\ ~IsBefore(clock, timeout)
    BY <1>1, <2>1, Zenon DEF Expire, Expired, IndInv
  <2>3. ~(due > 0) /\ due \in Int
    BY <2>2, ExpiredIsDue, Sizes DEF TypeOK
  <2> QED
    BY <2>3
<1>2. ASSUME IndInv, [Next]_vars, short'
      PROVE  NotLate
  <2>1. pc' = "asleep" => running'
    BY <1>2, SleeperRuns
  <2>2. pc' = "asleep" /\ hasTimeout' => Watched'
    BY <1>2, <2>1, WatchedKept
  <2> QED
    BY <2>2 DEF Watched
<1>3. IndInv /\ [Next]_vars => [short' => NotEarly /\ NotLate]_vars
  BY <1>1, <1>2
<1>4. IndInv /\ [Next]_vars =>
        [short' => /\ pc # "cancel" /\ pc' = "cancel" => due <= 0
                   /\ pc' = "asleep" /\ hasTimeout' => sleep' = 0 \/ sleep' <= due']_vars
  BY <1>3
<1> QED
  BY <1>4, Invariance, PTL DEF Spec, OnTime
=============================================================================
