--------------------------- MODULE TwoStackQueue ---------------------------
(***************************************************************************)
(* Queue<T> of c/jsworkers.cpp: two vectors that are pushed and popped at  *)
(* their ends only.  Items are pushed onto back and popped off front; when *)
(* front is empty, back is reversed in place and the two are swapped.      *)
(***************************************************************************)
EXTENDS Naturals, SequencesExt

CONSTANTS
  Item,     \* what is queued: pointers to Events or to Workers
  MaxItems  \* bounds the items in the queue and those taken from it

VARIABLES
  front,  \* *front: the next item to pop is the last one
  back,   \* *back: the item pushed last is the last one
  taken   \* the items that pop has returned, for the specification

vars == <<front, back, taken>>

TypeOK == front \in Seq(Item) /\ back \in Seq(Item) /\ taken \in Seq(Item)

Init == front = <<>> /\ back = <<>> /\ taken = <<>>

\* empty()
Empty == front = <<>> /\ back = <<>>

Push(x) ==
  /\ Len(front) + Len(back) + Len(taken) < MaxItems
  /\ back' = Append(back, x)
  /\ UNCHANGED <<front, taken>>

\* Reverse and swap, when front has run out.
Swapped ==
  IF front = <<>> THEN [front |-> Reverse(back), back |-> front]
                  ELSE [front |-> front, back |-> back]

\* pop(), which every caller guards by empty().
Pop ==
  /\ ~Empty
  /\ taken' = Append(taken, Last(Swapped.front))
  /\ front' = Front(Swapped.front)
  /\ back' = Swapped.back

Clear == front' = <<>> /\ back' = <<>> /\ UNCHANGED taken

Next == (\E x \in Item : Push(x)) \/ Pop \/ Clear
Spec == Init /\ [][Next]_vars
-----------------------------------------------------------------------------
\* The items in the order in which they will leave.
Contents == Reverse(front) \o back

F == INSTANCE Fifo WITH items <- Contents

\* Messages are delivered, and Workers served, in the order of their posting,
\* whenever front runs out between pushes.
ImplementsFifo == F!Spec
=============================================================================
