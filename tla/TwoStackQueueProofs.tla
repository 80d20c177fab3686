------------------------ MODULE TwoStackQueueProofs ------------------------
(* The two-vector queue of c/jsworkers.cpp is a FIFO queue: proofs. *)
EXTENDS TwoStackQueue, TLAPS, SequenceTheorems

\* js::Reverse keeps the items and their number, and turns positions round.
LEMMA ReverseProperties ==
  ASSUME NEW S, NEW s \in Seq(S)
  PROVE  /\ Reverse(s) \in Seq(S)
         /\ Len(Reverse(s)) = Len(s)
         /\ \A i \in 1..Len(s) : Reverse(s)[i] = s[Len(s) - i + 1]
<1>1. Reverse(s) = [i \in 1..Len(s) |-> s[(Len(s) - i) + 1]]
  BY DEF Reverse
<1>2. Len(s) \in Nat /\ \A i \in 1..Len(s) : (Len(s) - i) + 1 \in 1..Len(s)
  BY LenProperties
<1>3. \A i \in 1..Len(s) : s[(Len(s) - i) + 1] \in S
  BY <1>2, ElementOfSeq
<1>4. Reverse(s) \in Seq(S) /\ Len(Reverse(s)) = Len(s)
  BY <1>1, <1>2, <1>3, IsASeq
<1> QED
  BY <1>1, <1>4

\* The last item of a vector is the first one of its reversal; popping it
\* takes that item off.
LEMMA ReverseLast ==
  ASSUME NEW S, NEW s \in Seq(S), s # <<>>
  PROVE  Last(s) = Head(Reverse(s)) /\ Reverse(Front(s)) = Tail(Reverse(s))
<1>1. Len(s) \in Nat \ {0}
  BY LenProperties, EmptySeq
<1>2. /\ Reverse(s) \in Seq(S) /\ Len(Reverse(s)) = Len(s)
      /\ \A i \in 1..Len(s) : Reverse(s)[i] = s[Len(s) - i + 1]
  BY ReverseProperties
<1>3. /\ Front(s) \in Seq(S) /\ Len(Front(s)) = Len(s) - 1
      /\ \A i \in 1..(Len(s) - 1) : Front(s)[i] = s[i]
  <2> DEFINE n == Len(s) - 1
  <2>1. n \in Nat /\ \A i \in 1..n : s[i] \in S
    BY <1>1, ElementOfSeq
  <2> HIDE DEF n
  <2>2. SubSeq(s, 1, n) \in Seq(S)
    BY <2>1
  <2>3. Len(SubSeq(s, 1, n)) = n
    BY <2>1
  <2>4. \A i \in 1..n : SubSeq(s, 1, n)[i] = s[i]
    BY <2>1
  <2> QED
    BY <2>2, <2>3, <2>4 DEF Front, n
<1>4. /\ Reverse(Front(s)) \in Seq(S) /\ Len(Reverse(Front(s))) = Len(s) - 1
      /\ \A i \in 1..(Len(s) - 1) : Reverse(Front(s))[i] = Front(s)[Len(s) - 1 - i + 1]
  BY <1>3, ReverseProperties
<1>5. Last(s) = Head(Reverse(s))
  BY <1>1, <1>2 DEF Last
<1>6. /\ Tail(Reverse(s)) \in Seq(S) /\ Len(Tail(Reverse(s))) = Len(s) - 1
      /\ \A i \in 1..(Len(s) - 1) : Tail(Reverse(s))[i] = s[Len(s) - i]
  <2>1. Reverse(s) # <<>>
    BY <1>1, <1>2
  <2>2. /\ Tail(Reverse(s)) \in Seq(S) /\ Len(Tail(Reverse(s))) = Len(s) - 1
        /\ \A i \in 1..(Len(s) - 1) : Tail(Reverse(s))[i] = Reverse(s)[i + 1]
    BY <1>2, <2>1, HeadTailProperties
  <2>3. \A i \in 1..(Len(s) - 1) : i + 1 \in 1..Len(s) /\ Len(s) - (i + 1) + 1 = Len(s) - i
    BY <1>1
  <2> QED
    BY <1>2, <2>2, <2>3
<1>7. \A i \in 1..(Len(s) - 1) : Reverse(Front(s))[i] = Tail(Reverse(s))[i]
  <2> TAKE i \in 1..(Len(s) - 1)
  <2>1. Len(s) - 1 - i + 1 = Len(s) - i /\ Len(s) - i \in 1..(Len(s) - 1)
    BY <1>1
  <2> QED
    BY <1>3, <1>4, <1>6, <2>1
<1>8. Reverse(Front(s)) = Tail(Reverse(s))
  BY <1>4, <1>6, <1>7, SeqEqual
<1> QED
  BY <1>5, <1>8

LEMMA ReverseEmpty == Reverse(<<>>) = <<>>
<1>1. <<>> \in Seq({}) /\ Len(<<>>) = 0
  BY EmptySeq
<1>2. Reverse(<<>>) \in Seq({}) /\ Len(Reverse(<<>>)) = 0
  BY <1>1, ReverseProperties
<1> QED
  BY <1>2, EmptySeq

\* What precedes a queue is what leaves it first.
LEMMA HeadTailOfConcat ==
  ASSUME NEW S, NEW s \in Seq(S), NEW t \in Seq(S), s # <<>>
  PROVE  s \o t # <<>> /\ Head(s \o t) = Head(s) /\ Tail(s \o t) = Tail(s) \o t
<1>1. Len(s) \in Nat \ {0} /\ Len(t) \in Nat
  BY LenProperties, EmptySeq
<1>2. /\ s \o t \in Seq(S) /\ Len(s \o t) = Len(s) + Len(t)
      /\ \A i \in 1..(Len(s) + Len(t)) :
           (s \o t)[i] = IF i <= Len(s) THEN s[i] ELSE t[i - Len(s)]
  BY ConcatProperties
<1>3. s \o t # <<>>
  BY <1>1, <1>2, EmptySeq
<1>4. /\ Tail(s \o t) \in Seq(S) /\ Len(Tail(s \o t)) = Len(s) + Len(t) - 1
      /\ \A i \in 1..(Len(s) + Len(t) - 1) : Tail(s \o t)[i] = (s \o t)[i + 1]
  BY <1>2, <1>3, HeadTailProperties
<1>5. /\ Tail(s) \in Seq(S) /\ Len(Tail(s)) = Len(s) - 1
      /\ \A i \in 1..(Len(s) - 1) : Tail(s)[i] = s[i + 1]
  BY HeadTailProperties
<1>6. /\ Tail(s) \o t \in Seq(S) /\ Len(Tail(s) \o t) = Len(s) - 1 + Len(t)
      /\ \A i \in 1..(Len(s) - 1 + Len(t)) :
           (Tail(s) \o t)[i] = IF i <= Len(s) - 1 THEN Tail(s)[i] ELSE t[i - (Len(s) - 1)]
  BY <1>5, ConcatProperties
<1>7. \A i \in 1..(Len(s) + Len(t) - 1) : Tail(s \o t)[i] = (Tail(s) \o t)[i]
  <2> TAKE i \in 1..(Len(s) + Len(t) - 1)
  <2>1. CASE i <= Len(s) - 1
    BY <1>1, <1>2, <1>4, <1>5, <1>6, <2>1
  <2>2. CASE i > Len(s) - 1
    <3>1. i + 1 \in 1..(Len(s) + Len(t)) /\ i + 1 > Len(s) /\ (i + 1) - Len(s) = i - (Len(s) - 1)
      BY <1>1, <2>2
    <3> QED
      BY <1>1, <1>2, <1>4, <1>6, <2>2, <3>1
  <2> QED
    BY <1>1, <2>1, <2>2
<1>8. Tail(s \o t) = Tail(s) \o t
  BY <1>1, <1>4, <1>6, <1>7, SeqEqual
<1> QED
  BY <1>1, <1>2, <1>3, <1>8

\* The vectors hold items only.
LEMMA Typing == Spec => []TypeOK
<1>1. Init => TypeOK
  BY EmptySeq DEF Init, TypeOK
<1>2. TypeOK /\ [Next]_vars => TypeOK'
  <2> SUFFICES ASSUME TypeOK, [Next]_vars PROVE TypeOK'
    OBVIOUS
  <2>1. CASE \E x \in Item : Push(x)
    BY <2>1, AppendProperties DEF TypeOK, Push
  <2>2. CASE Pop
    <3>1. Swapped.front \in Seq(Item) /\ Swapped.back \in Seq(Item)
      BY ReverseProperties DEF TypeOK, Swapped
    <3>2. Swapped.front # <<>>
      BY <2>2, ReverseProperties, EmptySeq DEF TypeOK, Swapped, Pop, Empty
    <3>3. Len(Swapped.front) \in Nat \ {0}
      BY <3>1, <3>2, LenProperties, EmptySeq
    <3>4. Last(Swapped.front) \in Item /\ Front(Swapped.front) \in Seq(Item)
      BY <3>1, <3>3, ElementOfSeq DEF Last, Front
    <3> QED
      BY <2>2, <3>1, <3>4, AppendProperties DEF TypeOK, Pop
  <2>3. CASE Clear
    BY <2>3, EmptySeq DEF TypeOK, Clear
  <2>4. CASE UNCHANGED vars
    BY <2>4 DEF TypeOK, vars
  <2> QED
    BY <2>1, <2>2, <2>3, <2>4 DEF Next
<1> QED
  BY <1>1, <1>2, PTL DEF Spec

\* Reversing and swapping the vectors changes nothing for the users.
LEMMA SwapKeepsContents ==
  ASSUME TypeOK
  PROVE  Reverse(Swapped.front) \o Swapped.back = Contents
<1>1. CASE front # <<>>
  BY <1>1 DEF Swapped, Contents
<1>2. CASE front = <<>>
  <2>1. Reverse(back) \in Seq(Item) /\ Reverse(Reverse(back)) = back
    <3>1. /\ Reverse(back) \in Seq(Item) /\ Len(Reverse(back)) = Len(back)
          /\ \A i \in 1..Len(back) : Reverse(back)[i] = back[Len(back) - i + 1]
      BY ReverseProperties DEF TypeOK
    <3>2. /\ Reverse(Reverse(back)) \in Seq(Item)
          /\ Len(Reverse(Reverse(back))) = Len(back)
          /\ \A i \in 1..Len(back) :
               Reverse(Reverse(back))[i] = Reverse(back)[Len(back) - i + 1]
      BY <3>1, ReverseProperties
    <3>3. \A i \in 1..Len(back) :
            /\ Len(back) - i + 1 \in 1..Len(back)
            /\ Len(back) - (Len(back) - i + 1) + 1 = i
      BY LenProperties DEF TypeOK
    <3>4. \A i \in 1..Len(back) : Reverse(Reverse(back))[i] = back[i]
      BY <3>1, <3>2, <3>3
    <3> QED
      BY <3>1, <3>2, <3>4, SeqEqual DEF TypeOK
  <2>2. Contents = back
    BY <1>2, ReverseEmpty, ConcatEmptySeq DEF Contents, TypeOK
  <2> QED
    BY <1>2, <2>1, <2>2, ConcatEmptySeq DEF Swapped, TypeOK
<1> QED
  BY <1>1, <1>2

\* Every step of the two vectors is the step of a FIFO queue.
LEMMA StepRefines ==
  ASSUME TypeOK, [Next]_vars
  PROVE  [F!Next]_<<Contents, taken>>
<1>1. ASSUME NEW x \in Item, Push(x) PROVE F!Push(x)
  <2>1. Reverse(front) \in Seq(Item) /\ Len(Reverse(front)) = Len(front)
    BY ReverseProperties DEF TypeOK
  <2>2. Len(Contents) = Len(front) + Len(back)
    <3>1. Len(Reverse(front) \o back) = Len(Reverse(front)) + Len(back)
      BY <2>1, ConcatProperties DEF TypeOK
    <3> QED
      BY <2>1, <3>1 DEF Contents
  <2>3. Contents' = Append(Contents, x)
    <3>1. Contents' = Reverse(front) \o Append(back, x)
      BY <1>1 DEF Push, Contents
    <3> QED
      BY <3>1, <2>1 DEF Contents, TypeOK
  <2> QED
    BY <1>1, <2>2, <2>3 DEF Push, F!Push
<1>2. ASSUME Pop PROVE F!Pop
  <2> DEFINE s == Swapped
  <2>1. s.front \in Seq(Item) /\ s.back \in Seq(Item) /\ s.front # <<>>
    BY <1>2, ReverseProperties, EmptySeq DEF TypeOK, Swapped, Pop, Empty
  <2>2. /\ Last(s.front) = Head(Reverse(s.front))
        /\ Reverse(Front(s.front)) = Tail(Reverse(s.front))
    BY <2>1, ReverseLast
  <2>3. Reverse(s.front) \in Seq(Item) /\ Reverse(s.front) # <<>>
    BY <2>1, ReverseProperties, EmptySeq
  <2>4. /\ Contents # <<>>
        /\ Head(Contents) = Head(Reverse(s.front))
        /\ Tail(Contents) = Tail(Reverse(s.front)) \o s.back
    <3>1. Contents = Reverse(s.front) \o s.back
      BY SwapKeepsContents
    <3> QED
      BY <2>1, <2>3, <3>1, HeadTailOfConcat
  <2>5. Contents' = Tail(Contents)
    BY <1>2, <2>2, <2>4 DEF Contents, Pop
  <2> QED
    BY <1>2, <2>2, <2>4, <2>5 DEF Pop, F!Pop
<1>3. ASSUME Clear PROVE F!Clear
  <2>1. <<>> \o <<>> = <<>>
    BY EmptySeq, ConcatEmptySeq
  <2> QED
    BY <1>3, <2>1, ReverseEmpty DEF Clear, F!Clear, Contents
<1>4. CASE UNCHANGED vars
  BY <1>4 DEF vars, Contents
<1> QED
  BY <1>1, <1>2, <1>3, <1>4 DEF Next, F!Next

\* Messages and Workers leave a Queue in the order in which they entered it.
THEOREM QueueIsFifo == Spec => ImplementsFifo
<1>1. Init => F!Init
  BY ReverseEmpty, EmptySeq, ConcatEmptySeq DEF Init, F!Init, Contents
<1>2. TypeOK /\ [Next]_vars => [F!Next]_<<Contents, taken>>
  BY StepRefines
<1> QED
  BY <1>1, <1>2, Typing, PTL DEF Spec, ImplementsFifo, F!Spec
=============================================================================
