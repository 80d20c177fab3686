----------------------------- MODULE Mailboxes -----------------------------
(***************************************************************************)
(* What the shell workers of c/jsworkers.cpp promise to scripts, without   *)
(* threads, queues of Workers, locks or flags: the main thread and every   *)
(* Worker have a mailbox; they handle the events in it one at a time and   *)
(* in the order in which they were posted; a Worker may be terminated, and *)
(* handles nothing more then; finish() returns when there is nothing left  *)
(* to handle anywhere.  The text is the comments jsworkers.cpp:59-95 and   *)
(* jsworkers.h:66-83; the code that must live up to it is WorkerPool.      *)
(***************************************************************************)
EXTENDS Sequences

CONSTANTS
  Actor,     \* the Workers, and Main
  Main,      \* the main thread, which cannot be terminated
  Event,     \* what is posted
  None       \* no event

VARIABLES
  box,       \* box[a]: the events posted to a that it has still to handle
  handling,  \* handling[a]: the event a is handling, or None
  dead,      \* the Workers that have been terminated
  phase      \* "open"; "finished" by finish(); "aborted" with the process

vars == <<box, handling, dead, phase>>

Init ==
  /\ box = [a \in Actor |-> <<>>]
  /\ handling = [a \in Actor |-> None]
  /\ dead = {}
  /\ phase = "open"
-----------------------------------------------------------------------------
\* An event that is in no mailbox is posted to an actor that lives.
Send(a, e) ==
  /\ phase = "open"
  /\ a \notin dead
  /\ box' = [box EXCEPT ![a] = Append(@, e)]
  /\ \A b \in Actor : \A i \in DOMAIN box[b] : box[b][i] # e
  /\ UNCHANGED <<handling, dead, phase>>

Handle(a) ==
  /\ phase = "open"
  /\ a \notin dead
  /\ handling[a] = None /\ box[a] # <<>>
  /\ handling' = [handling EXCEPT ![a] = Head(box[a])]
  /\ box' = [box EXCEPT ![a] = Tail(@)]
  /\ UNCHANGED <<dead, phase>>

Perish(a) ==
  /\ dead' = dead \cup {a}
  /\ box' = [box EXCEPT ![a] = <<>>]

\* The handler ends; a Worker may be found to be terminated by then.
Done(a) ==
  /\ phase = "open"
  /\ handling[a] # None
  /\ handling' = [handling EXCEPT ![a] = None]
  /\ \/ a # Main /\ Perish(a)
     \/ UNCHANGED <<box, dead>>
  /\ UNCHANGED phase

\* A Worker finds that it is terminated, while it handles an event or not.
Die(a) ==
  /\ phase = "open"
  /\ a # Main
  /\ Perish(a)
  /\ UNCHANGED <<handling, phase>>

Finish ==
  /\ phase = "open"
  /\ \A a \in Actor : box[a] = <<>> /\ handling[a] = None
  /\ phase' = "finished"
  /\ UNCHANGED <<box, handling, dead>>

\* main() returns early, or the process crashes.
Abort ==
  /\ phase = "open"
  /\ phase' = "aborted"
  /\ UNCHANGED <<box, handling, dead>>

Next ==
  \/ \E a \in Actor :
       \/ \E e \in Event : Send(a, e)
       \/ Handle(a) \/ Done(a) \/ Die(a)
  \/ Finish \/ Abort

\* That every event is handled in the end needs no fairness here: finish()
\* returns (WorkerPool's FinishReturns), and only when every mailbox is empty.
Spec == Init /\ [][Next]_vars
=============================================================================
