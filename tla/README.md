# Verification of the parallel JavaScript prototypes

The repository holds four implementations of one idea, fork/join parallelism
for JavaScript ("Preliminary exploration of a parallelism for JS API"): a task
pool on native threads (`ndm/`), a shell with workers and a sequential
`Parallel` object (`c/`), and two pages (`js/`). This directory specifies them
in TLA+. TLC checks the specifications on small instances; TLAPS proves every
safety property that the passing runs check, and two more, for every instance.

## 1. Inventory

| Part | State | Operations | Interacts through |
|---|---|---|---|
| Task pool, `ndm/src/pjs.cpp` | `_toCreate`, `_terminating`, per runner `_toReawaken`, per context `_outstandingChildren`, `_toFork`, generation and callback slots, per handle the result and the root | `start`, `getWork`, `createTaskContext`, `resume`, `fork`, `oncompletion`, `get`, `onCompleted`, `onChildCompleted`, `reawaken`, `enqueueTasks`, `terminate`, `shutdown` | one lock with a condition variable; an atomic counter outside it; pointers between contexts and handles |
| Membrane, `ndm/src/membrane.cpp` | `_map` from the parent's values to wrappers | `wrap`, `enter` | called by `Closure::execute` for each argument |
| Shell workers, `c/jsworkers.cpp` | `WorkerQueue`, `MainQueue`, per worker its events, `current`, `terminated`, `terminateFlag` | `new Worker`, `postMessage` both ways, `terminate`, `processOneEvent`, `finish`, `terminateAll` | nested locks of queues and workers; events that change owner |
| `Queue<T>`, `c/jsworkers.cpp` | two vectors | `push`, `pop`, `clear` | inside the two queues above |
| Shell `Parallel`, `c/main.cpp:294-304` | `q`, `p`, the `get` of each Result | `fork`, `execute`, `get` | callbacks on the caller's stack |
| Page `Parallel`, `js/nile-webworker.js`, `webworker-child.js` | `global_workers`, per object `children`, `pending`, `cb` | `fork`, `execute`, `_execute`, `onmessage` | messages between the page and the workers |
| Watchdog, `c/main.cpp:64-214` | timeout, thread, lock, a clock that wraps | `ScheduleWatchdog`, `WatchdogMain`, `CancelExecution`, `KillWatchdog` | calls `terminateAll`; called by nothing in the repository |

What is hard in this code:

* **Task pool.** A counter that every runner updates without the lock, just
  before children are published; a parent that is reawakened by whichever child
  ends last, on its own runner, possibly before that runner has cleared
  `_toFork`; contexts that delete themselves while children point to them; four
  conditions for sleep; a termination test that ignores the queue; roots added
  in one runtime and removed in another.
* **Shell workers.** Who puts a worker into the queue, and only once;
  notifications only for the first item of a queue; a test for idleness under
  nested locks; termination that races with everything; ownership of events
  that are forwarded or refused; a collector that walks over workers while
  they run.
* **Watchdog.** Deadlines compared across the wrap of the clock, computed
  outside the lock and installed in any order; a thread that is notified only
  of earlier ones.
* **Parallels.** One counter for the join, with functions that fork, throw or
  answer late; workers shared by several joins.
* **Membrane.** A recursion that may fail half way, with a cache; a field
  nobody initialises.

`PROJECT.json` lists every hazard at its line, with the properties that cover
it or the reason why none does.

## 2. Modules

| Module | Models | Composition |
|---|---|---|
| `ForkJoin` | what the architecture comment of `pjs.cpp` promises: a tree of tasks; a parent is suspended until its children are done | abstract specification |
| `TaskPool` | `pjs.cpp` | implements `ForkJoin` (`ImplementsForkJoin`) |
| `TaskPoolProofs` | theorems about `TaskPool` | extends `TaskPool`, `SequenceLemmas` |
| `Mailboxes` | what the comments of `jsworkers.cpp` and `jsworkers.h` promise to scripts: a mailbox each, events handled one by one and in order, termination, `finish` | abstract specification |
| `WorkerPool` | `jsworkers.cpp` and the calls of `main` | implements `Mailboxes` (`ImplementsMailboxes`) |
| `Collector` | a collection on the main thread, in the lock sections of `jsTraceThreadPool` and `jsTraceWorker` | extends `WorkerPool`, whose threads run meanwhile |
| `WorkerPoolProofs` | theorems about `WorkerPool` and `Collector` | extends `Collector`, `SequenceLemmas` |
| `Fifo`, `TwoStackQueue` | a queue; `Queue<T>` | the second implements the first, by proof alone; `WorkerPool` uses sequences in its place |
| `TwoStackQueueProofs`, `SequenceLemmas` | the refinement, proved; lemmas on sequences | |
| `Membrane` | `membrane.cpp` and `Closure::execute` | |
| `NileParallel` | `nile-webworker.js`, `webworker-child.js` | |
| `SporkParallel` | the script in `Parallel_construct` | |
| `MembraneProofs`, `NileParallelProofs`, `SporkParallelProofs` | theorems about each of them | extend it and `SequenceLemmas` |
| `Watchdog` | the watchdog of `c/main.cpp` and threads that call it | its `CancelExecution` is where `TerminateAll` of `WorkerPool` comes from |
| `WatchdogProofs` | theorems about `Watchdog` | extends `Watchdog`, `TLAPS` |
| `MC*` | symmetry sets for TLC, one module per model; the `.cfg` files give the constants | |

### TaskPool

One action per section of code that holds the lock or runs between two accesses
to shared state. `pc[r]` names the place where runner `r` is and `current[r]`
the task it works on:

| Actions | Code |
|---|---|
| `TakeReawakened`, `Quit`, `TakeToCreate`, `Wait` | one pass of the loop of `Runner::getWork`, in its order |
| `CreateTaskContext` | `Runner::createTaskContext` |
| `BeginTurn` | the head of the loop of `resume`: `newGeneration`, the reset of the callback slot |
| `Fork`, `SetOncompletion`, `Get` | the calls of a script |
| `TurnFails`, `TurnSuspends`, `TurnLoops`, `TurnCompletes` | the ways a turn ends; `TurnSuspends` is the `JS_ATOMIC_ADD` |
| `EnqueueTasks`, `ClearForked` | the two statements after it |
| `CompleteRoot`; `PackResult`, `NotifyParent`, `Reawaken` | the two `onCompleted`, the atomic decrement, `Runner::reawaken` |
| `FreeContext` | `delRoot`, `delete this` |

Tasks are identities; a task that nobody has forked has no parent. Turns are
numbered, and `ready[t]` is the set of the generations of `t` marked ready. A
value a script returns is `"data"`, `"unclonable"` or `"null"`: the code tells
no more apart (`ClonedObj::pack`). `getReady` has no return statement; that
`get` may therefore fail on a ready generation is part of `TurnFails`. Running
out of memory is left out.

### WorkerPool

Workers and events are numbered in the order they are created. A critical
section with those nested in it is one action; so is every call of a script.
`Call(a)` is what the script of `a`, the main thread or a pool thread, may do to
its children. An event that fails, is forwarded, or finds no handler takes the
branches of `processOneEvent` one by one, because other threads act between
them. `TerminateAll` belongs to the environment and is possible until
`shutdown` has ended.

Under the mapping to `Mailboxes`, a box is `MainQueue::queue` or
`Worker::events`, the event being handled is `current`, and `finish()` has
returned once the `WorkerQueue` is closed. Threads, the `WorkerQueue`, flags and
locks disappear: their steps are stutters.

`new Worker` inside a Worker has two actions. `createContext` means to store the
parent in the constructor it makes, as the comment `jsworkers.cpp:839-841` says,
but sets the slot of `postMessage` twice (lines 668 and 679): the process crashes
on a void slot (`CreateNested`). `Create` by a pool thread is the same call with
the slot set. It is kept because the rest of the file (`terminateSelf`,
`forwardToParent`, `notifyTerminating`) is written for a tree of Workers, and
its behaviours include all those of the tree of one level.

`Create` is one step, although the code publishes the Worker to its parent
(`addChild`, line 612) before it has a lock and events; what a termination from
another thread may do in between is left out.

### Collector

A collection of the main runtime marks what the `ThreadPool` object, which
`main` roots, leads to. `jsTraceThreadPool` does that in two sections: the queue
and busy list of the `MainQueue` under its lock (`TraceMainQueue`), then those of
the `WorkerQueue` under another (`TraceWorkerQueue`). `jsTraceWorker` runs for
each marked Worker at some time after that and takes no lock (`TraceWorker`): it
marks the Worker's parent and the children of its events, `current` included.
The main thread does nothing else meanwhile, but the threads of the pool take
any steps between these actions; their Workers have runtimes of their own, so
that they do not stop for it. When every marked Worker has been
scanned (`MarkingEnds`) the rest would be finalized.

References from scripts are left out: `marked` is what the `ThreadPool` alone
keeps alive, which the lifetime rules (b) and (c) of the comment
`jsworkers.cpp:66-70` are about. So are the sweep and the collections of the
Workers' runtimes.

### Membrane

`Closure::execute` passes its arguments to `wrap` one by one (`Argument`,
`EndArgument`, `CallFunction`). `wrap` calls itself for the prototype before it
creates the wrapper. `calls` holds the objects of the calls that wait for their
prototype's, `value` is what the innermost call is about or has returned, and
each exit of `wrap` is an action:

| Actions | Code of `membrane.cpp` |
|---|---|
| `Fail` | `JS_CHECK_RECURSION` (90), at any depth; the characters or the copy of a string (159, 162) |
| `Pass`, `Found` | nothing to wrap (92-132); a wrapper in the map (135-152) |
| `Copy` | strings (154-166) |
| `Recurse` | `wrap(&proto)` (168-181), which returns at once for a null pointer (78) |
| `Wrap`, `NoWrapper` | `New` and `_map.put` (184-190); `New` that returns null, which is not tested |
| `Raise` | `return false` (182), and that of `Closure::execute` |

`Create` holds what `Copy` and `Wrap` share: the wrapper is made first, and the
`put` after it may fail, so that a wrapper without an entry remains
(`Unlisted`). A failure undoes nothing: the entries which inner calls have made
stay in the map. That JavaScript's prototype chains are finite is `ChainsEnd`, a
condition on `proto` in `Init`: no set of objects holds the prototypes of all its
members. `field` is the value of the uninitialised `_childCompartment`, chosen
once.

### NileParallel, SporkParallel

A page runs one handler at a time, so each handler and each call is an action,
with the recursion of `_execute` unfolded into the pairs of children and workers
it posts: `EndsAfter` says where it ends. A page may call `fork` and `execute` in any order; `misused` records
the orders for which `pending` has no meaning, and the properties are about the
others. In `SporkParallel`, `stack` has a frame for each `execute` that has not
returned, because functions and callbacks can call it again or throw.

### Watchdog

`clock` wraps at `Wrap`; `IsBefore` is the sign of the wrapping difference. Each
lock section is an action: the three outcomes of the loop of `WatchdogMain`
(`Exit`, `Expire`, `GoToSleep`), the end of a wait (`WakeUp`), and the two halves
of `ScheduleWatchdog`, `Compute` outside the lock and `Install` inside it.
`due` and `left` are history: the real number of ticks left, which never wraps;
`short` records that all intervals were shorter than half the range, as NSPR
asks. Intervals are in ticks; the conversion from seconds (`main.cpp:191`),
which may overflow, is left out. A thread that can run is at most `Late` ticks late, else the comparisons
mean nothing. Callers do not overlap with `KillWatchdog`, which destroys the
lock.

## 3. Runs

Each run is one question; `PROJECT.json` names its properties and, for each
property, a mutation of the model, a plausible bug, that TLC catches.

| Run | Bounds | Shows |
|---|---|---|
| `pool` | 2 runners; root and 3 tasks with 2 turns, or root and 2 tasks with 3 turns (`LongOrLarge`) | type correctness; joins complete; exact counter; no use after `delete this`; affinity; handles stay rooted; no lost wakeup; nothing left at termination; `get` returns what the task returned; `IndInv`, the invariant of the proofs |
| `pool_live` | 2 runners, root and 2 tasks, 2 turns, fairness | `init` returns; `ForkJoin` is implemented |
| `pool_roots` | 2 runners, root and 2 tasks, 2 turns | violation: a handle stays rooted after its task has completed |
| `membrane` | every forest of 4 objects, 2 strings, 4 arguments; failures of the stack or of memory at every call, string, wrapper and entry | one wrapper each, identity; prototype chains; failures leave whole chains only |
| `membrane_field` | 2 objects | violation: an object that is not wrapped |
| `workers` | 2 threads, 2 workers, 3 events, fairness | one thread per worker; no worker or wakeup lost; ownership; routing; termination spreads and leaves no mail; `Mailboxes` is implemented; `finish` returns |
| `workers_trace` | as above, with collections, no fairness | violation: the collector follows `current` to a destroyed event |
| `workers_lost` | the same | violation: a Worker with an event that is pending in the `MainQueue` is not marked |
| `nile` | 2 Parallels, 4 tasks, 2 workers, 2 executes each, one task that throws, one that cannot be sent, fairness | workers and tasks neither lost nor doubled; exact joins; callbacks once, with readable results; a join that got a worker ends, unless it loses one |
| `spork` | 5 tasks, 4 nested executes | exact counter; no task lost or run twice; callback after all |
| `watchdog` | 2 callers, 3 schedules of 1, 2, 3 or 6 ticks, wrap at 8, 1 tick late, fairness | no timeout fires early or is slept through; none stays set; `KillWatchdog` returns |
| `spork_get` | 3 nested executes | violation: the last `get` throws in the callback |

**Why the bounds are enough.** Every race of the pool is between a parent and
two children (the last and the one before), on at most two runners; the third
task adds grandchildren, and the third turn reuses the counter and `_toFork`.
In `WorkerPool` two workers are a parent and a child or two siblings, two
threads are enough to run both, and three events let each worker be started
and one more be posted, created as an error, or forwarded twice. The clock of
the watchdog wraps several times during three schedules, two of which can
overlap; 3 ticks is the longest interval its comparisons allow for, 6 is beyond. Two workers and three or
four tasks make Parallels queue, share and starve. Four objects give chains,
shared prototypes and chains that join one already wrapped.

**Deadlock** is checked except in the runs of `Membrane` and `NileParallel`: when
the function has been called or `wrap` has failed, and when a page makes no
further call, nothing has to happen.
The pools have explicit steps for a process that has ended.

**Fairness.** Runners and pool threads are native threads, so weak fairness of
each thread's next step is what the scheduler gives; scripts are taken to end
their turns, which the bounds on tasks, turns and events express. No strong
fairness is assumed: locks are taken within an action. In `Watchdog` time passes
as well. In `NileParallel` only
the end of functions and the delivery of messages are fair; nobody
has to call `fork` or `execute`.

## 4. Violations

The runs that expect a violation show what the code does against a comment, a
header or a page of the repository; `findings` in `PROJECT.json` quotes it.

1. A handle is rooted in the runtime of its parent's runner and removed from
   that of the runner that ran the task (`pjs.cpp:795`).
2. `Membrane::_childCompartment` is read but never assigned (`membrane.h:68`).
3. The collector goes through Workers without their locks, and `current` of a
   busy Worker points to an event that has been destroyed or has moved to the
   parent, until the Worker is released (`jsworkers.cpp:697`).
4. A collection traces the `MainQueue` and releases its lock before it traces the
   `WorkerQueue` (`jsworkers.cpp:560-561`). A Worker that posts to the main
   thread in between, and leaves the busy list, is in neither when it is looked
   at, and is not marked, against rule (c) of `jsworkers.cpp:66-70`; its event in
   the `MainQueue` still points to it. With the two calls in the other order the
   Worker would be found, in the one queue before it posts, or its event in the
   other after that; TLC finds no such marking with them exchanged.
5. The shell's `execute` calls the callback before the last `get` is installed
   (`main.cpp:300`). (The same script passes the function as its own first
   argument, as the loop that copies the arguments starts at 0 and not at 1.)

Noted while reading, and part of the models, without a run of their own: the
event of a `postMessage` to a terminated worker is never freed
(`jsworkers.cpp:1234`); a worker that is terminated while its script runs is in
none of the four states of the comment at `jsworkers.cpp:579`; running out of
memory in `createTaskContext` leads to the use of a deleted or null context
(`pjs.cpp:926`, `pjs.cpp:1105`); the shell returns an uninitialised exit code
(`main.cpp:402`), and skips `finish()` when its script fails (`main.cpp:393`); it
defines `Worker` in `glob` but runs the script with `global`, another object, so
that the script finds no `Worker` (`main.cpp:388` and `392`); `self.cb` is shared
by nested calls of `execute` (`main.cpp:300`); `KillWatchdog` leaves
`gWatchdogHasTimeout` set, so that a second `InitWatchdog` would run into the
assertion at `main.cpp:195`; `gWorkerThreadPool` is not reset after `finish()`
(`main.cpp:133`); a script can be canceled after its timeout was disabled
(`main.cpp:163`); `getReady` has no return statement (`pjs.cpp:697`), so that
`get` may fail without an exception.

## 5. Proofs

Every invariant and every action property of the runs that pass is stated by a
theorem, for every value of the constants that the module's assumption allows.
Two more safety properties are proved without a run of their own: `ImplementsFifo`
of `TwoStackQueue` and `IncomingMarked` of `Collector`.
The assumptions say no more than that tasks, objects, threads and workers are
finitely many, that null pointers and the main thread are told apart from
them, and that bounds are numbers (`TaskPoolAssumption` also that the root is a
task, `WatchdogAssumption` see below).

Each specification has an inductive invariant, a conjunction of named parts
(`IndInv`, where there is more than one), a lemma for each action, and one that
collects them. That of `TaskPool` is an invariant of the run `pool`; the others
were checked with TLC too, on the instances of section 3.

**`Queue<T>`** (`TwoStackQueueProofs`): `QueueIsFifo` shows that each step of the
two vectors is a step of `Fifo`, or none, under the mapping that appends the
reversed back to the front. It rests on lemmas of `SequenceLemmas` about
`Reverse`, `Append` and `Last`.

**Task pool** (`TaskPoolProofs`): for every finite set of tasks, every set of
runners and every number of turns,

| Theorem | Property |
|---|---|
| `Invariant` | `IndInv` |
| `TypeCorrect` | `TypeOK` |
| `CountersAreExact` | `CounterExact` |
| `JoinsAreComplete` | `JoinComplete` |
| `ContextsOutliveTheirUse` | `NoUseAfterFree` |
| `TasksHaveOneHome` | `OneHome` |
| `TasksNeverMove` | `RunnerAffinity` |
| `CallbacksArePresent` | `CallbackPresent` |
| `NobodySleepsOnWork` | `NoSleepOnWork` |
| `HandlesSurviveCollection` | `HandlesStayRooted` |
| `GetsAreFaithful` | `GetFaithful` |
| `TerminationDrains` | `DrainedAtTermination` |
| `ForkJoinImplemented` | `ImplementsForkJoinSteps`: `ForkJoin` without its fairness |

(`CallbackPresent`, that `resume` has a callback to call whenever a later turn
begins, is checked as part of `IndInv`.) None of the
properties is inductive alone. That the counter is exact after a decrement needs
that the child was pending, so that a child is in one place (`Placed`); that a
parent is freed only without pending children needs that whoever has pending
children is suspended with a callback, and that at most one runner is about to
reawaken it (`Awaited`); that a context is created once needs that a task the
pool has not seen is in no queue (`Born`); that a join is complete needs that
the counter is 0 when a turn begins, which is what being reawakened means
(`Woken` in `Awaited`, and `Turns`). Each action has a lemma `...Step` that it
preserves `IndInv`, with one step per conjunct. Actions in which a runner only
changes its own task share `PlainStepPending`, `PlainStepPlaced` and
`PlainStepBorn`: no counter, queue or parenthood changes there. `NextInv`
collects them.

The last three theorems add a little to `IndInv`:

* `GetsAreFaithful`: `Answers`, where the value of a child is between its
  completion and the first `get`, for children that have reported and for those
  that have not.
* `TerminationDrains`: the termination test of the code looks at no queue, so
  that the reason is a global one. Whoever is unfinished is awaited by a parent
  that is unfinished itself (`UnfinishedAwaited`), and parents form a tree:
  `Tree` says that no set of tasks holds the parents of all its members, which
  spares the induction along the path to the root. When the root completes, the
  unfinished tasks would be such a set, and are none; `Drained` then stays.
* `ForkJoinImplemented`: `HandsOver`, that a runner goes to `enqueueTasks` only
  with children, and a lemma for each step of the pool that is a step of
  `ForkJoin`; the rest are stutters.

**Shell workers** (`WorkerPoolProofs`):

| Theorem | Property |
|---|---|
| `TypeCorrect` | `TypeOK` |
| `EachRunsAlone` | `RunsAlone` |
| `NobodyForgotten` | `NoLostWakeup` |
| `EventsOwnedOnce` | `OwnedOnce` |
| `EventsRouted` | `RoutedToParent` |
| `TerminationReaches` | `TerminationSpreads` |
| `IncomingSurvives` | `IncomingMarked`, with collections |
| `MailboxesImplemented` | `ImplementsMailboxes` |

| Part of `IndInv` | Says | Needed because |
|---|---|---|
| `Exclusive` | a Worker is in the `WorkerQueue` once, or with one thread | `enqueueWorker` has no test for it: the callers enqueue a Worker only when its first event arrives or is left |
| `Scheduled` | it is in one of the two exactly when it has events, and `current` is set exactly between the two locks of `processOneEvent` | this is what makes the tests of the callers right |
| `Born` | a Worker that is not created has no events, no thread and no children | `new Worker` must not find any of them |
| `Quiet`, `Awake` | when the main thread has found nothing to do there is nothing to do; who sleeps has nothing to do or will be woken | `notify` is called for the first item of a queue only |
| `Spread` | `TerminationSpreads` | a child that is created, or an event that is posted, after the termination would escape it |
| `Owned`, `Alive` | an event is in one mailbox, or with the thread that handles it, until it is given away, and is not destroyed | `current` outlives the event (section 4), so that ownership follows the local variable of `processOneEvent` instead |
| `Routed` | `RoutedToParent`, and that an error which is being handled is its Worker's own or a child's | `forwardToParent` passes an error up that `RoutedToParent` says nothing of while a thread has it |

`TerminationSpreads` says something of the children of Workers, who exist only
where a nested constructor succeeds (`Create` by a pool thread), and of the events
and scripts of all Workers, nested or not.

`IncomingSurvives` is about `Collector`: rule (b), that a Worker of the main
thread with events that are pending or running is marked when the marking ends.
(Rule (c) is refuted by the run `workers_lost`.) That the actions of a
collection are stutters of `WorkerPool` is `CollectionsInvisible`, so that
`IndInv` holds here, too. What threads do between the sections is met by an
invariant over sets of Workers: a `Family` has with each Worker all its children
and, up to the main thread, all its ancestors. Once the `WorkerQueue` has been
traced, a family without a marked member has no events (`Quiescent`), as
`Scheduled` puts whoever has events into the queue or busy list then; and it gets
none later, as only a member could post to it (`Reaches`), and one that does has
an event itself; that the main thread posts nothing is what the collection
excludes. When the marking has ended, marked Workers have marked parents, so
that the family of an unmarked Worker of the main thread, its
descendants, has no marked member (`MarkingFinds`).

`MailboxesImplemented` has a lemma for each kind
of step of `Mailboxes` (`Sends`, `HandlesNext`, `Dies`, `IsDone`) in terms of the
mapped state, and one (`Stutters`) for the steps that scripts do not see.

**Membrane** (`MembraneProofs`):

| Theorem | Property |
|---|---|
| `TypeCorrect` | `TypeOK` |
| `WrappedOnce` | `OneWrapperEach` |
| `PrototypesMirrored` | `ChainsMirrored` |
| `NoBadEntries` | `NoBadEntry` |
| `RecursionEnds` | `RecursionBounded`: calls that wait are for different objects |
| `ProxiesWhenInitialised` | `ObjectsBecomeProxies`, if `field # "parent"` |

`IndInv` has `Matched` (`map` and `cells` are inverse, but for a wrapper whose
`put` has failed), `PrototypesFirst` (the prototypes of what has an entry have
one), `ChainsMirrored`, `ArgumentsWrapped` (an argument was replaced by the wrapper
it still has) and `Waiting`, about the recursion in progress: the calls follow the
prototypes of the argument, none of their objects has an entry yet, and what has been
returned is the wrapper of the prototype. `WaitsOnce` is behind the case of `Wrap`:
no object waits twice, else those between its two calls would hold their
prototypes, against `ChainsEnd`; so the entry that an inner call makes is never
for an object an outer call still waits to wrap. `RecursionEnds` follows from it
without an induction. `NoBadEntries` follows from `PrototypesFirst` and
`ChainsMirrored`, wherever in a chain a failure leaves the map.

Today nothing uses a membrane after a failure: `Closure::execute` returns, and its
task ends. `NoBadEntry` is about `wrap` and
the comment `membrane.cpp:174-178` ("helps avoid leaving a bad entry in the cache
on OOM"), for any caller that would go on. `ProxiesWhenInitialised` complements
the run `membrane_field`: its violation is due to the uninitialised field and to
nothing else.

**Page `Parallel`** (`NileParallelProofs`):

| Theorem | Property |
|---|---|
| `TypeCorrect` | `TypeOK` |
| `SharesWorkers` | `WorkersShared` |
| `RunOnce` | `TasksRunOnce` |
| `PendingIsExact` | `PendingExact` |
| `CallsBackOnce` | `CallbackOnce` |
| `CallsBackReadable` | `CallbackReadsAll` |

`IndInv` has these, `Distinct`, `Owned` and `Placed` (a child is queued, with one
worker, or answered, and in the list of the Parallel that forked it), and
`Counted`: whatever misuse `fork` and `execute` are put to, `pending` is below 0
by no more than there were answers, which is what `TypeOK` says of it. `Execute`
and `OnMessage` end in the same recursion, over different lists: `Ready` says
what it relies on, `Hands` what it does, for an unknown set of children that are
handed out. `ReadyAtExecute` and `ReadyAtAnswer` establish the first,
`ContinueHands` the second, `HandsPlaces` and `HandsOut` what follows for the
invariant. The action property needs `CallsAfterAll`, that the step that calls
the callback has emptied the join.

**Shell `Parallel`** (`SporkParallelProofs`):

| Theorem | Property |
|---|---|
| `TypeCorrect` | `TypeOK` |
| `CountsExactly` | `CounterExact` |
| `RunOnce` | `TasksRunOnce` |
| `CallsBackAfterAll` | `CallbackAfterAll` |

`IndInv` splits `TasksRunOnce` into what it says of `q` (`QueuedOnce`), of the
frames (`FramesOnce`), of tasks that are not done (`NoneLost`) and of results
that cannot be read yet (`Readied`), and adds that what a frame holds was forked
and has left `q` (`Held`). Only the top frame changes (`NewTop`, `TopGone`), so
that frames below it keep their tasks by `FramesOnce`.

**Watchdog** (`WatchdogProofs`): `TypeCorrect` for `TypeOK` and `Punctual` for
`OnTime`, from `WatchdogAssumption`: the range of the clock is even, and the
delay `Late` below a quarter of it; callers and intervals are arbitrary. `OnTime`
speaks of steps, and the comparisons in them are of wrapped times, so that it
needs an invariant that ties these to the real distances: `timeout` is
`clock + due` modulo `Wrap`, a caller's `target` is `clock + left`, both
distances are at most half the range less `Late`, and a watchdog that sleeps
does not sleep beyond `due` (`Watched`, `Computed`). A tick keeps the sums
(`TickKeepsTime`); that the clock never runs past `due = -Late` follows from the
sleep being short enough. `IsBefore` is then the sign of the real difference
(`ModDifference`, `SignOfDifference`), for the expiry (`ExpiredIsDue`) and for
the choice not to notify (`NotBeforeIsLater`).

**Lemmas on data** (`SequenceLemmas`): what `Append`, `\o`, `Tail`, `Front`,
`SubSeq` and `Reverse` do to the range, the length and the injectivity of a
sequence; that an injective sequence is as long as its range is large.

**Only model-checked**: liveness. `Termination` and the fairness of `ForkJoin` in
`ImplementsForkJoin` (run `pool_live`), `FinishReturns` (`workers`), `Responds`
(`watchdog`) and `StartedJoinsEnd` (`nile`) hold under fairness, which needs
`ENABLED`, beyond this prover. The properties of the runs that expect a
violation are refuted by TLC, not by a proof.

## 6. Not modelled

* Memory exhaustion, and with it the paths that free half made objects, except
  in `wrap` and in the creation of events of `WorkerPool`.
* The garbage collectors, except for the root set of task handles and what a
  collection on the main thread marks among the shell workers; that an unmarked
  Worker is deleted is not an action, nor are references from scripts and the
  collections of the Workers' own runtimes.
* The steps within the creation of a shell Worker (`jsworkers.cpp:605-622`).
* How the watchdog converts seconds to ticks (`main.cpp:191`).
* What `Closure::execute` does before its first argument, and what scripts do
  with wrappers.
* `Membrane::enter` and the disabled code in `membrane.cpp`; the functions'
  texts and the structured clone algorithm.
* Reading and resolving worker scripts; printing; error messages.
* `nile-single-thread.js`: a loop.

## 7. Plan

Written so far, in this order: `ForkJoin`, `TaskPool`, `WorkerPool`, `Fifo`,
`TwoStackQueue`, `Membrane`, `NileParallel`, `SporkParallel`, the proofs of
`TaskPool` and `TwoStackQueue`; `Mailboxes`, and `Watchdog` with its proofs; the
proofs of `WorkerPool`, `SporkParallel`, `Membrane` and `NileParallel` and the
refinements; then `Collector`, and `Membrane` call by call with its failures,
each with their proofs. Next:

1. The safety part of the liveness arguments, without `ENABLED`: that a pool
   with unfinished tasks has a runner that can move, and that each step brings
   some measure down.
2. Collection of wrappers in `Membrane`.
