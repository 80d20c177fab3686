-------------------------------- MODULE Fifo --------------------------------
(***************************************************************************)
(* What Queue<T> of c/jsworkers.cpp promises its users: items leave in the *)
(* order in which they came.                                               *)
(***************************************************************************)
EXTENDS Naturals, Sequences

CONSTANTS Item, MaxItems

VARIABLES
  items,  \* the queue, the oldest item first
  taken   \* the items that pop has returned so far, the oldest first

Init == items = <<>> /\ taken = <<>>

Push(x) ==
  /\ Len(items) + Len(taken) < MaxItems
  /\ items' = Append(items, x)
  /\ UNCHANGED taken

Pop ==
  /\ items # <<>>
  /\ items' = Tail(items)
  /\ taken' = Append(taken, Head(items))

Clear == items' = <<>> /\ UNCHANGED taken

Next == (\E x \in Item : Push(x)) \/ Pop \/ Clear
Spec == Init /\ [][Next]_<<items, taken>>
=============================================================================
