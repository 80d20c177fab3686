------------------------------ MODULE Watchdog ------------------------------
(***************************************************************************)
(* The watchdog of c/main.cpp: a thread that cancels the running scripts   *)
(* when a timeout expires.  Nothing in the repository calls it; Callers    *)
(* are the threads of a shell that does, as the js shell it comes from.    *)
(*                                                                         *)
(* Time is a counter of ticks that wraps at Wrap (2^32 in the code).      *)
(* Every section of code that holds the lock is one action.  A thread that *)
(* can run is at most Late ticks late: the clock does not overtake it.     *)
(***************************************************************************)
EXTENDS Integers, FiniteSets

CONSTANTS
  Caller,    \* threads that call ScheduleWatchdog
  Wrap,      \* the range of PRIntervalTime
  Interval,  \* the intervals of the calls, in ticks
  Late,      \* see above
  MaxCalls   \* bounds the timeouts that are scheduled

Half    == Wrap \div 2
Time    == 0..(Wrap - 1)
Forever == Wrap          \* PR_INTERVAL_NO_TIMEOUT

ASSUME WatchdogAssumption ==
  /\ IsFiniteSet(Caller)
  /\ Wrap \in Nat /\ Wrap = 2 * Half
  /\ Late \in Nat /\ 2 * Late < Half
  /\ Interval \subseteq 1..(Wrap - 1)
  /\ MaxCalls \in Nat

VARIABLES
  clock,       \* PR_IntervalNow()
  running,     \* gWatchdogThread is not null
  pc,          \* where the watchdog thread is, see TypeOK
  sleep,       \* ticks until PR_WaitCondVar times out
  hasTimeout,  \* gWatchdogHasTimeout
  timeout,     \* gWatchdogTimeout
  canceled,    \* gCanceled
  stage,       \* what each caller does: "idle", or "computed" its timeout
  target,      \* the local variable timeout of ScheduleWatchdog
  kill,        \* KillWatchdog: "no", "joining" or "done"
  calls,       \* calls so far with t > 0
  due,         \* history: real ticks left of the timeout that is set
  left,        \* history: the same for the timeout a caller has computed
  short        \* history: no interval was too long for the comparisons

clientVars  == <<stage, target, left, calls>>
timeoutVars == <<hasTimeout, timeout, due>>
vars == <<clock, running, pc, sleep, timeoutVars, canceled, clientVars,
          kill, short>>

TypeOK ==
  /\ clock \in Time
  /\ running \in BOOLEAN
  /\ pc \in {"unborn", "loop", "cancel", "asleep", "exited"}
  /\ sleep \in 0..Forever
  /\ hasTimeout \in BOOLEAN
  /\ timeout \in Time
  /\ canceled \in BOOLEAN
  /\ stage \in [Caller -> {"idle", "computed"}]
  /\ target \in [Caller -> Time]
  /\ kill \in {"no", "joining", "done"}
  /\ calls \in 0..MaxCalls
  /\ due \in -Late..(Wrap - 1)
  /\ left \in [Caller -> -Late..(Wrap - 1)]
  /\ short \in BOOLEAN
  /\ running => pc \notin {"unborn", "exited"}
  /\ ~running /\ hasTimeout => kill # "no"  \* asserted by ScheduleWatchdog

Init ==
  /\ clock = 0
  /\ running = FALSE /\ pc = "unborn" /\ sleep = 0
  /\ hasTimeout = FALSE /\ timeout = 0 /\ canceled = FALSE
  /\ stage = [c \in Caller |-> "idle"]
  /\ target = [c \in Caller |-> 0]
  /\ kill = "no" /\ calls = 0
  /\ due = 0 /\ left = [c \in Caller |-> 0] /\ short = TRUE
-----------------------------------------------------------------------------
IsBeforeUnsigned(t1, t2) == t1 < t2  \* mutant: no difference

\* int32_t(t1 - t2) < 0
IsBefore(t1, t2) == (t1 - t2) % Wrap >= Half

\* The clock ticks unless a thread that can run is too late already.
Tick ==
  /\ running /\ hasTimeout /\ due = -Late => pc = "asleep" /\ sleep > 0
  /\ \A c \in Caller : stage[c] = "computed" => left[c] > -Late
  /\ clock' = (clock + 1) % Wrap
  /\ sleep' = IF sleep \in {0, Forever} THEN sleep ELSE sleep - 1
  /\ due' = IF hasTimeout /\ due > -Late THEN due - 1 ELSE due
  /\ left' = [c \in Caller |-> IF stage[c] = "computed" THEN left[c] - 1 ELSE 0]
  /\ UNCHANGED <<running, pc, hasTimeout, timeout, canceled, stage, target,
                 kill, calls, short>>
-----------------------------------------------------------------------------
(***************************************************************************)
(* WatchdogMain.                                                           *)
(***************************************************************************)
Expired == hasTimeout /\ ~IsBefore(clock, timeout)

Exit ==
  /\ pc = "loop" /\ ~running
  /\ pc' = "exited"
  /\ UNCHANGED <<clock, running, sleep, timeoutVars, canceled, clientVars,
                 kill, short>>

Expire ==
  /\ pc = "loop" /\ running
  /\ Expired
  /\ hasTimeout' = FALSE /\ due' = 0
  /\ pc' = "cancel"
  /\ UNCHANGED <<clock, running, sleep, timeout, canceled, clientVars,
                 kill, short>>

\* PR_WaitCondVar with the time left, or without a limit.
GoToSleep ==
  /\ pc = "loop" /\ running
  /\ ~Expired
  /\ sleep' = IF hasTimeout THEN (timeout - clock) % Wrap ELSE Forever
  /\ pc' = "asleep"
  /\ UNCHANGED <<clock, running, timeoutVars, canceled, clientVars, kill, short>>

\* The wait times out.
WakeUp ==
  /\ pc = "asleep" /\ sleep = 0
  /\ pc' = "loop"
  /\ UNCHANGED <<clock, running, sleep, timeoutVars, canceled, clientVars,
                 kill, short>>

\* CancelExecution, outside the lock; its terminateAll is WorkerPool's.
CancelExecution ==
  /\ pc = "cancel"
  /\ canceled' = TRUE
  /\ pc' = "loop"
  /\ UNCHANGED <<clock, running, sleep, timeoutVars, clientVars, kill, short>>

WatchdogStep == Exit \/ Expire \/ GoToSleep \/ WakeUp \/ CancelExecution
-----------------------------------------------------------------------------
(***************************************************************************)
(* ScheduleWatchdog and KillWatchdog.                                      *)
(***************************************************************************)
\* Where PR_NotifyCondVar leaves the watchdog.
Notified == IF pc = "asleep" THEN "loop" ELSE pc

\* ScheduleWatchdog(rt, t) with t <= 0.
Disable ==
  /\ kill = "no"
  /\ hasTimeout' = FALSE /\ due' = 0
  /\ UNCHANGED <<clock, running, pc, sleep, timeout, canceled, clientVars,
                 kill, short>>

\* The time is read, and the timeout computed, before the lock is taken.
\* Intervals are in ticks: how seconds become ticks, and what becomes of more
\* seconds than 32 bits of ticks can hold, is left out.
Compute(c, interval) ==
  /\ kill = "no" /\ stage[c] = "idle" /\ calls < MaxCalls
  /\ stage' = [stage EXCEPT ![c] = "computed"]
  /\ target' = [target EXCEPT ![c] = (clock + interval) % Wrap]
  /\ calls' = calls + 1
  /\ left' = [left EXCEPT ![c] = interval]
  /\ short' = (short /\ interval + Late <= Half)
  /\ UNCHANGED <<clock, running, pc, sleep, timeoutVars, canceled, kill>>

Returns(c) ==
  /\ stage' = [stage EXCEPT ![c] = "idle"]
  /\ target' = [target EXCEPT ![c] = 0]
  /\ left' = [left EXCEPT ![c] = 0]

SetTimeout(c) ==
  /\ hasTimeout' = TRUE
  /\ timeout' = target[c]
  /\ due' = left[c]

InstallQuietly(c) ==  \* mutant: a watchdog that sleeps is not notified
  /\ stage[c] = "computed"
  /\ running' = TRUE
  /\ pc' = IF running THEN pc ELSE "loop"
  /\ SetTimeout(c)
  /\ Returns(c)
  /\ UNCHANGED <<clock, sleep, canceled, kill, calls, short>>

\* The thread is created with the first timeout, and notified of one that is
\* earlier than the one it waits for.
Install(c) ==
  /\ stage[c] = "computed"
  /\ running' = TRUE
  /\ pc' = IF ~running THEN "loop"
           ELSE IF ~hasTimeout \/ IsBefore(target[c], timeout) THEN Notified
           ELSE pc
  /\ SetTimeout(c)
  /\ Returns(c)
  /\ UNCHANGED <<clock, sleep, canceled, kill, calls, short>>

InstallFailsLate(c) ==  \* mutant: the timeout is set before the thread is
  /\ stage[c] = "computed" /\ ~running
  /\ SetTimeout(c)
  /\ Returns(c)
  /\ UNCHANGED <<clock, running, pc, sleep, canceled, kill, calls, short>>

\* PR_CreateThread fails.
InstallFails(c) ==
  /\ stage[c] = "computed" /\ ~running
  /\ Returns(c)
  /\ UNCHANGED <<clock, running, pc, sleep, timeoutVars, canceled, kill,
                 calls, short>>

\* The lock is destroyed in the end, so that no caller may be under way.
KillWatchdog ==
  /\ kill = "no" /\ \A c \in Caller : stage[c] = "idle"
  /\ running' = FALSE
  /\ pc' = IF running THEN Notified ELSE pc
  /\ kill' = IF running THEN "joining" ELSE "done"
  /\ UNCHANGED <<clock, sleep, timeoutVars, canceled, clientVars, short>>

\* PR_JoinThread returns.
Joined ==
  /\ kill = "joining" /\ pc = "exited"
  /\ kill' = "done"
  /\ UNCHANGED <<clock, running, pc, sleep, timeoutVars, canceled, clientVars,
                 short>>
-----------------------------------------------------------------------------
CallerStep(c) == Install(c) \/ InstallFails(c)

Next ==
  \/ Tick \/ WatchdogStep \/ Disable \/ KillWatchdog \/ Joined
  \/ \E c \in Caller : CallerStep(c) \/ \E i \in Interval : Compute(c, i)

\* Time passes, and native threads run.
Fairness ==
  /\ WF_vars(Tick) /\ WF_vars(WatchdogStep) /\ WF_vars(Joined)
  /\ \A c \in Caller : WF_vars(CallerStep(c))

Spec == Init /\ [][Next]_vars /\ Fairness
-----------------------------------------------------------------------------
(***************************************************************************)
(* Properties.                                                             *)
(***************************************************************************)
\* However the clock wraps, and whoever replaces whose timeout in which order,
\* the watchdog neither cancels before the timeout that is set is due, nor
\* sleeps beyond it; if no interval comes near half the range of the clock.
OnTime ==
  [][short' =>
       /\ pc # "cancel" /\ pc' = "cancel" => due <= 0
       /\ pc' = "asleep" /\ hasTimeout' => sleep' = 0 \/ sleep' <= due']_vars

\* Why it is on time: the clock and the histories agree, as long as the clock
\* never leaves anyone behind, and the watchdog does not sleep past due.
Computed(c) ==
  /\ kill = "no"
  /\ target[c] = (clock + left[c]) % Wrap
  /\ short => left[c] + Late <= Half
Watched ==
  /\ timeout = (clock + due) % Wrap
  /\ due + Late <= Half
  /\ pc = "asleep" => sleep = 0 \/ sleep <= due
IndInv ==
  /\ TypeOK
  /\ pc = "asleep" => running
  /\ \A c \in Caller : stage[c] = "computed" => Computed(c)
  /\ short /\ running /\ hasTimeout => Watched

\* No wakeup is lost: a timeout does not stay set for ever, however long its
\* interval, and KillWatchdog returns, whatever the watchdog is doing.
Responds ==
  /\ []<>(hasTimeout => ~running)
  /\ kill = "joining" ~> kill = "done"
=============================================================================
