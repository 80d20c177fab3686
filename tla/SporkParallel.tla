--------------------------- MODULE SporkParallel ---------------------------
(***************************************************************************)
(* Parallel of the shell in c/main.cpp: the script in Parallel_construct,  *)
(* which runs the forked functions one after the other inside execute, on  *)
(* the caller's stack.  The functions and the callback are scripts, which  *)
(* may call fork and execute of the same object again, return or throw; so *)
(* the state has a stack with one frame per unfinished call of execute.    *)
(* Enclosing scripts may catch an exception or be ended by it as well.     *)
(***************************************************************************)
EXTENDS Integers, SequencesExt

CONSTANTS
  Task,     \* the [func, a, r] triples
  MaxDepth  \* bounds the nesting of execute

ASSUME SporkAssumption == IsFiniteSet(Task) /\ MaxDepth \in Nat \ {0}

VARIABLES
  q,        \* var q: forked and not yet taken by an execute
  p,        \* var p: the counter
  stack,    \* the frames of execute: the rest of x, and where it is
  forked,   \* the tasks fork has returned a Result for
  done,     \* r.r is assigned
  opened,   \* r.get is replaced
  aborted   \* left behind in x by an exception

vars == <<q, p, stack, forked, done, opened, aborted>>

\* "loop": at the head of the loop; "call": in the function of the first
\* task of x; "callback": in the callback, with that task's get to be
\* replaced afterwards.
Frame == [x : Seq(Task), at : {"loop", "call", "callback"}]

TypeOK ==
  /\ q \in Seq(Task)
  /\ p \in Nat
  /\ stack \in Seq(Frame)
  /\ forked \subseteq Task
  /\ opened \subseteq done /\ done \subseteq forked
  /\ aborted \subseteq forked

Init ==
  /\ q = <<>> /\ p = 0 /\ stack = <<>>
  /\ forked = {} /\ done = {} /\ opened = {} /\ aborted = {}
-----------------------------------------------------------------------------
Top == Last(stack)

\* A script has control: the shell's, a function's or the callback.
InScript == stack # <<>> => Top.at # "loop"

SetTop(frame) == stack' = Append(Front(stack), frame)

\* Mutant: a Result that is not counted.
ForkUncounted(t) ==
  /\ InScript
  /\ t \notin forked
  /\ forked' = forked \cup {t}
  /\ q' = Append(q, t)
  /\ UNCHANGED <<p, stack, done, opened, aborted>>

\* self.fork
Fork(t) ==
  /\ InScript
  /\ t \notin forked
  /\ forked' = forked \cup {t}
  /\ q' = Append(q, t)
  /\ p' = p + 1
  /\ UNCHANGED <<stack, done, opened, aborted>>

\* var x = q; q = [].  Mutant: q is left alone.
TakeQueueShared ==
  /\ stack' = Append(stack, [x |-> q, at |-> "loop"])
  /\ UNCHANGED q
TakeQueue ==
  /\ stack' = Append(stack, [x |-> q, at |-> "loop"])
  /\ q' = <<>>

\* self.execute, up to its loop.
Execute ==
  /\ InScript
  /\ Len(stack) < MaxDepth
  /\ TakeQueue
  /\ UNCHANGED <<p, forked, done, opened, aborted>>

\* f.apply(null, a)
Call ==
  /\ stack # <<>> /\ Top.at = "loop" /\ Top.x # <<>>
  /\ SetTop([Top EXCEPT !.at = "call"])
  /\ UNCHANGED <<q, p, forked, done, opened, aborted>>

\* The rest of the round of the loop: r.get = ...
Install(t) ==
  /\ opened' = opened \cup {t}
  /\ SetTop([x |-> Tail(Top.x), at |-> "loop"])

\* Mutants: p starts from nothing again for the rest of x; the last task
\* of x calls the callback.
CountRest == p' = Len(Tail(Top.x))
LastOfX == Len(Top.x) = 1

\* p--, and if (!p) after it.
CountDown == p' = p - 1
Joined == p' = 0

\* The function returns: r.r = ..., then the callback or the rest of the round.
FunctionReturns ==
  LET t == Head(Top.x) IN
  /\ stack # <<>> /\ Top.at = "call"
  /\ done' = done \cup {t}
  /\ CountDown
  /\ \/ Joined /\ SetTop([Top EXCEPT !.at = "callback"]) /\ UNCHANGED opened
     \/ ~Joined /\ Install(t)
  /\ UNCHANGED <<q, forked, aborted>>

CallbackReturns ==
  /\ stack # <<>> /\ Top.at = "callback"
  /\ Install(Head(Top.x))
  /\ UNCHANGED <<q, p, forked, done, aborted>>

\* Mutant: q is emptied when the loop is over.
LeaveEmptying ==
  /\ stack # <<>> /\ Top.at = "loop" /\ Top.x = <<>>
  /\ stack' = Front(stack)
  /\ q' = <<>>
  /\ UNCHANGED <<p, forked, done, opened, aborted>>

\* The end of the loop: execute returns to the script that called it.
Leave ==
  /\ stack # <<>> /\ Top.at = "loop" /\ Top.x = <<>>
  /\ stack' = Front(stack)
  /\ UNCHANGED <<q, p, forked, done, opened, aborted>>

\* The function or the callback throws: execute is over, what is left of x
\* is lost, and the exception reaches the script that called execute.
Throw ==
  /\ stack # <<>> /\ Top.at # "loop"
  /\ stack' = Front(stack)
  /\ aborted' = aborted \cup Range(Top.x)
  /\ UNCHANGED <<q, p, forked, done, opened>>

Next ==
  \/ \E t \in Task : Fork(t)
  \/ Execute \/ Call \/ FunctionReturns \/ CallbackReturns \/ Leave \/ Throw

Spec == Init /\ [][Next]_vars
-----------------------------------------------------------------------------
\* r.get() returns the value instead of throwing.
Readable(t) == t \in opened /\ p = 0

\* The tasks a frame has still to run.
ToRun(frame) ==
  IF frame.at = "callback" THEN Range(Tail(frame.x)) ELSE Range(frame.x)

\* The counter is the number of forked functions that have not returned,
\* through nested forks, nested executes and exceptions: a get that succeeds
\* (p = 0) never shows a half finished join.
CounterExact == p = Cardinality(forked \ done)

\* No function is called twice and no task is lost, whatever functions and
\* callbacks fork and execute: a task is in q, or in one frame, or done, or an
\* exception left it behind; and the Result of one that is done can be read
\* unless its callback is still under way or threw.
TasksRunOnce ==
  /\ IsInjective(q)
  /\ Range(q) \cap done = {}
  /\ \A i \in DOMAIN stack :
       /\ IsInjective(stack[i].x)
       /\ ToRun(stack[i]) \cap (Range(q) \cup done) = {}
       /\ \A j \in DOMAIN stack \ {i} : Range(stack[i].x) \cap Range(stack[j].x) = {}
  /\ forked \ (done \cup aborted \cup Range(q))
       \subseteq UNION {ToRun(stack[i]) : i \in DOMAIN stack}
  /\ done \ (opened \cup aborted)
       \subseteq {Head(stack[i].x) : i \in {j \in DOMAIN stack : stack[j].at = "callback"}}

CallbackStarts ==
  /\ stack # <<>> /\ Top.at = "call"
  /\ Len(stack') = Len(stack) /\ Last(stack').at = "callback"

\* The callback is called only when every function forked so far has
\* returned, those forked by other functions and by other callbacks included.
CallbackAfterAll == [][CallbackStarts => forked' \subseteq done']_vars

\* What the pages that use the same interface rely on, and the error text
\* says: when the callback of execute runs, get() of every Result works.
\* The code violates it: it replaces the last get only after the callback.
CallbackReadsAll ==
  [][CallbackStarts => \A t \in forked' : Readable(t)']_vars
=============================================================================
