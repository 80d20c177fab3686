--------------------------- MODULE SequenceLemmas ---------------------------
(***************************************************************************)
(* What the vectors of pjs.cpp hold before and after an operation: the     *)
(* members of a sequence (Range) and the absence of duplicates.            *)
(***************************************************************************)
EXTENDS Integers, SequencesExt, TLAPS, FiniteSetTheorems

LEMMA EmptyRange == Range(<<>>) = {} /\ IsInjective(<<>>)
  BY DEF Range, IsInjective

LEMMA SeqRange ==
  ASSUME NEW S, NEW s \in Seq(S)
  PROVE  Range(s) \subseteq S
  BY DEF Range

\* append() of one item that is not in the vector.
LEMMA AppendRange ==
  ASSUME NEW S, NEW s \in Seq(S), NEW e \in S
  PROVE  /\ Append(s, e) \in Seq(S)
         /\ Range(Append(s, e)) = Range(s) \cup {e}
         /\ IsInjective(s) /\ e \notin Range(s) => IsInjective(Append(s, e))
<1>1. /\ Append(s, e) \in Seq(S) /\ Len(s) \in Nat /\ Len(Append(s, e)) = Len(s) + 1
      /\ \A i \in 1..Len(s) : Append(s, e)[i] = s[i]
      /\ Append(s, e)[Len(s) + 1] = e
      /\ DOMAIN s = 1..Len(s) /\ DOMAIN Append(s, e) = 1..(Len(s) + 1)
  OBVIOUS
<1>2. Range(Append(s, e)) = Range(s) \cup {e}
  <2>1. \A i \in 1..(Len(s) + 1) : i \in 1..Len(s) \/ i = Len(s) + 1
    BY <1>1
  <2>2. 1..Len(s) \subseteq 1..(Len(s) + 1) /\ Len(s) + 1 \in 1..(Len(s) + 1)
    BY <1>1
  <2> QED
    BY <1>1, <2>1, <2>2 DEF Range
<1>3. ASSUME IsInjective(s), e \notin Range(s) PROVE IsInjective(Append(s, e))
  <2> SUFFICES ASSUME NEW i \in 1..(Len(s) + 1), NEW j \in 1..(Len(s) + 1),
                      Append(s, e)[i] = Append(s, e)[j]
               PROVE  i = j
    BY <1>1 DEF IsInjective
  <2>1. \A k \in 1..Len(s) : s[k] # e
    BY <1>1, <1>3 DEF Range
  <2>2. CASE i \in 1..Len(s) /\ j \in 1..Len(s)
    BY <1>1, <1>3, <2>2 DEF IsInjective
  <2>3. CASE i = Len(s) + 1 \/ j = Len(s) + 1
    BY <1>1, <2>1, <2>3
  <2> QED
    BY <1>1, <2>2, <2>3
<1> QED
  BY <1>1, <1>2, <1>3

\* append() of the items of another vector.
LEMMA ConcatRange ==
  ASSUME NEW S, NEW s \in Seq(S), NEW t \in Seq(S)
  PROVE  /\ s \o t \in Seq(S)
         /\ Range(s \o t) = Range(s) \cup Range(t)
         /\ IsInjective(s) /\ IsInjective(t) /\ Range(s) \cap Range(t) = {}
              => IsInjective(s \o t)
<1>1. /\ s \o t \in Seq(S) /\ Len(s) \in Nat /\ Len(t) \in Nat
      /\ Len(s \o t) = Len(s) + Len(t)
      /\ DOMAIN s = 1..Len(s) /\ DOMAIN t = 1..Len(t)
      /\ DOMAIN (s \o t) = 1..(Len(s) + Len(t))
  OBVIOUS
<1>2. \A i \in 1..Len(s) : i \in 1..(Len(s) + Len(t)) /\ (s \o t)[i] = s[i]
  BY <1>1
<1>3. \A i \in 1..Len(t) :
        Len(s) + i \in 1..(Len(s) + Len(t)) /\ (s \o t)[Len(s) + i] = t[i]
  BY <1>1
<1>4. \A i \in 1..(Len(s) + Len(t)) :
        i \in 1..Len(s) \/ (i - Len(s) \in 1..Len(t) /\ i = Len(s) + (i - Len(s)))
  BY <1>1
<1>5. Range(s \o t) = Range(s) \cup Range(t)
  <2>1. ASSUME NEW x \in Range(s \o t) PROVE x \in Range(s) \cup Range(t)
    <3>1. PICK i \in 1..(Len(s) + Len(t)) : x = (s \o t)[i]
      BY <1>1 DEF Range
    <3>2. CASE i \in 1..Len(s)
      BY <1>1, <1>2, <3>1, <3>2 DEF Range
    <3>3. CASE i - Len(s) \in 1..Len(t) /\ i = Len(s) + (i - Len(s))
      <4>1. x = t[i - Len(s)]
        BY <1>3, <3>1, <3>3
      <4> QED
        BY <1>1, <3>3, <4>1 DEF Range
    <3> QED
      BY <1>4, <3>2, <3>3
  <2>2. Range(s) \subseteq Range(s \o t)
    BY <1>1, <1>2 DEF Range
  <2>3. Range(t) \subseteq Range(s \o t)
    BY <1>1, <1>3 DEF Range
  <2> QED
    BY <2>1, <2>2, <2>3
<1>6. ASSUME IsInjective(s), IsInjective(t), Range(s) \cap Range(t) = {}
      PROVE  IsInjective(s \o t)
  <2>1. \A i \in 1..Len(s), j \in 1..Len(t) : s[i] # t[j]
    BY <1>1, <1>6 DEF Range
  <2> SUFFICES ASSUME NEW i \in 1..(Len(s) + Len(t)), NEW j \in 1..(Len(s) + Len(t)),
                      (s \o t)[i] = (s \o t)[j]
               PROVE  i = j
    BY <1>1 DEF IsInjective
  <2>2. CASE i \in 1..Len(s) /\ j \in 1..Len(s)
    BY <1>1, <1>2, <1>6, <2>2 DEF IsInjective
  <2>3. CASE i \in 1..Len(s) /\ j \notin 1..Len(s)
    BY <1>2, <1>3, <1>4, <2>1, <2>3
  <2>4. CASE i \notin 1..Len(s) /\ j \in 1..Len(s)
    BY <1>2, <1>3, <1>4, <2>1, <2>4
  <2>5. CASE i \notin 1..Len(s) /\ j \notin 1..Len(s)
    <3>1. i - Len(s) \in 1..Len(t) /\ j - Len(s) \in 1..Len(t)
      BY <1>4, <2>5
    <3>2. t[i - Len(s)] = t[j - Len(s)]
      BY <1>3, <1>4, <2>5, <3>1
    <3>3. i - Len(s) = j - Len(s)
      BY <1>1, <1>6, <3>1, <3>2 DEF IsInjective
    <3> QED
      BY <1>1, <3>3
  <2> QED
    BY <2>2, <2>3, <2>4, <2>5
<1> QED
  BY <1>1, <1>5, <1>6

\* popCopy() of a vector that is not empty.
LEMMA PopRange ==
  ASSUME NEW S, NEW s \in Seq(S), s # <<>>
  PROVE  /\ Last(s) \in S /\ Last(s) \in Range(s)
         /\ Front(s) \in Seq(S)
         /\ Range(Front(s)) \subseteq Range(s)
         /\ IsInjective(s) => IsInjective(Front(s)) /\ Last(s) \notin Range(Front(s))
<1> DEFINE n == Len(s) - 1
<1>1. n \in Nat /\ Len(s) = n + 1 /\ DOMAIN s = 1..(n + 1) /\ \A i \in 1..(n + 1) : s[i] \in S
  OBVIOUS
<1> HIDE DEF n
<1>2. SubSeq(s, 1, n) \in Seq(S)
  BY <1>1
<1>3. Len(SubSeq(s, 1, n)) = n /\ DOMAIN SubSeq(s, 1, n) = 1..n
  BY <1>1, <1>2
<1>4. \A i \in 1..n : SubSeq(s, 1, n)[i] = s[i]
  BY <1>1
<1>5. Front(s) = SubSeq(s, 1, n)
  BY DEF Front, n
<1>6. n + 1 \in 1..(n + 1) /\ \A i \in 1..n : i \in 1..(n + 1) /\ i # n + 1
  BY <1>1
<1>7. Last(s) = s[n + 1]
  BY <1>1 DEF Last
<1>8. Last(s) \in S /\ Last(s) \in Range(s)
  BY <1>1, <1>6, <1>7 DEF Range
<1>9. Range(Front(s)) \subseteq Range(s)
  BY <1>1, <1>3, <1>4, <1>5, <1>6 DEF Range
<1>10. ASSUME IsInjective(s)
       PROVE  IsInjective(Front(s)) /\ Last(s) \notin Range(Front(s))
  BY <1>1, <1>3, <1>4, <1>5, <1>6, <1>7, <1>10 DEF Range, IsInjective
<1> QED
  BY <1>2, <1>5, <1>8, <1>9, <1>10

\* A vector without duplicates has as many members as it is long.
LEMMA InjectiveCardinality ==
  ASSUME NEW S, NEW s \in Seq(S), IsInjective(s)
  PROVE  IsFiniteSet(Range(s)) /\ Cardinality(Range(s)) = Len(s)
<1>1. Len(s) \in Nat /\ DOMAIN s = 1..Len(s) /\ s = [i \in 1..Len(s) |-> s[i]]
  OBVIOUS
<1>2. s \in Bijection(1..Len(s), Range(s))
  BY <1>1 DEF Bijection, Injection, Surjection, Range, IsInjective
<1>3. IsFiniteSet(1..Len(s)) /\ Cardinality(1..Len(s)) = Len(s)
  <2>1. 1 \in Int /\ Len(s) \in Int
    BY <1>1
  <2>2. IsFiniteSet(1..Len(s))
    BY <2>1, FS_Interval, Zenon
  <2>3. Cardinality(1..Len(s)) = IF 1 > Len(s) THEN 0 ELSE Len(s) - 1 + 1
    BY <2>1, FS_Interval, Zenon
  <2> QED
    BY <1>1, <2>2, <2>3
<1>4. ExistsBijection(1..Len(s), Range(s))
  BY <1>2 DEF ExistsBijection
<1>5. Cardinality(Range(s)) = Cardinality(1..Len(s)) /\ IsFiniteSet(Range(s))
  BY <1>3, <1>4, FS_Bijection, Zenon
<1> QED
  BY <1>3, <1>5

\* push_back() and the removal of the first item.
LEMMA HeadRange ==
  ASSUME NEW S, NEW s \in Seq(S), s # <<>>
  PROVE  /\ Head(s) \in S /\ Tail(s) \in Seq(S)
         /\ Range(s) = {Head(s)} \cup Range(Tail(s))
         /\ IsInjective(s) => IsInjective(Tail(s)) /\ Head(s) \notin Range(Tail(s))
<1> DEFINE n == Len(s)
<1>1. /\ n \in Nat /\ n > 0 /\ DOMAIN s = 1..n
      /\ Head(s) = s[1] /\ Head(s) \in S
      /\ Tail(s) \in Seq(S) /\ Len(Tail(s)) = n - 1 /\ DOMAIN Tail(s) = 1..(n - 1)
      /\ \A i \in 1..(n - 1) : Tail(s)[i] = s[i + 1]
  OBVIOUS
<1> HIDE DEF n
<1>2. \A i \in 1..n : i = 1 \/ (i - 1 \in 1..(n - 1) /\ (i - 1) + 1 = i)
  BY <1>1
<1>3. 1 \in 1..n /\ \A i \in 1..(n - 1) : i + 1 \in 1..n /\ i + 1 # 1
  BY <1>1
<1>4. Range(s) \subseteq {Head(s)} \cup Range(Tail(s))
  <2> SUFFICES ASSUME NEW i \in 1..n
               PROVE  s[i] \in {Head(s)} \cup Range(Tail(s))
    BY <1>1 DEF Range
  <2>1. CASE i = 1
    BY <1>1, <2>1
  <2>2. CASE i # 1
    <3>1. i - 1 \in 1..(n - 1) /\ (i - 1) + 1 = i
      BY <1>2, <2>2
    <3>2. Tail(s)[i - 1] = s[i]
      BY <1>1, <3>1
    <3> QED
      BY <1>1, <3>1, <3>2 DEF Range
  <2> QED
    BY <2>1, <2>2
<1>5. {Head(s)} \cup Range(Tail(s)) \subseteq Range(s)
  BY <1>1, <1>3 DEF Range
<1>6. ASSUME IsInjective(s)
      PROVE  IsInjective(Tail(s)) /\ Head(s) \notin Range(Tail(s))
  <2>1. \A i, j \in 1..n : s[i] = s[j] => i = j
    BY <1>1, <1>6 DEF IsInjective
  <2>2. IsInjective(Tail(s))
    <3> SUFFICES ASSUME NEW i \in 1..(n - 1), NEW j \in 1..(n - 1), Tail(s)[i] = Tail(s)[j]
                 PROVE  i = j
      BY <1>1 DEF IsInjective
    <3>1. i + 1 = j + 1
      BY <1>1, <1>3, <2>1
    <3> QED
      BY <1>1, <3>1
  <2>3. Head(s) \notin Range(Tail(s))
    BY <1>1, <1>3, <2>1 DEF Range
  <2> QED
    BY <2>2, <2>3
<1> QED
  BY <1>1, <1>4, <1>5, <1>6

LEMMA NonemptyRange ==
  ASSUME NEW S, NEW s \in Seq(S)
  PROVE  s # <<>> <=> Range(s) # {}
<1>1. CASE s = <<>>
  BY <1>1, EmptyRange
<1>2. CASE s # <<>>
  BY <1>2, HeadRange
<1> QED
  BY <1>1, <1>2

LEMMA NonemptyAppend ==
  ASSUME NEW S, NEW s \in Seq(S), NEW e \in S
  PROVE  Append(s, e) # <<>>
BY AppendRange, EmptyRange

\* The frames of a call stack: below the top one, and when it is replaced.
LEMMA StackFront ==
  ASSUME NEW S, NEW s \in Seq(S), s # <<>>
  PROVE  /\ Len(s) \in Nat /\ Len(s) > 0 /\ DOMAIN s = 1..Len(s)
         /\ Last(s) = s[Len(s)] /\ Last(s) \in S
         /\ Front(s) \in Seq(S) /\ Len(Front(s)) = Len(s) - 1
         /\ DOMAIN Front(s) = 1..(Len(s) - 1)
         /\ \A i \in 1..(Len(s) - 1) : Front(s)[i] = s[i]
<1> DEFINE n == Len(s) - 1
<1>1. n \in Nat /\ Len(s) = n + 1 /\ DOMAIN s = 1..(n + 1) /\ \A i \in 1..(n + 1) : s[i] \in S
  OBVIOUS
<1>2. n + 1 \in 1..(n + 1)
  BY <1>1
<1> HIDE DEF n
<1>3. /\ SubSeq(s, 1, n) \in Seq(S) /\ Len(SubSeq(s, 1, n)) = n
      /\ DOMAIN SubSeq(s, 1, n) = 1..n
      /\ \A i \in 1..n : SubSeq(s, 1, n)[i] = s[i]
  BY <1>1
<1>4. Front(s) = SubSeq(s, 1, n) /\ n = Len(s) - 1
  BY DEF Front, n
<1>5. Last(s) = s[Len(s)]
  BY DEF Last
<1> QED
  BY <1>1, <1>2, <1>3, <1>4, <1>5

LEMMA StackReplace ==
  ASSUME NEW S, NEW s \in Seq(S), s # <<>>, NEW e \in S
  PROVE  /\ Append(Front(s), e) \in Seq(S) /\ Append(Front(s), e) # <<>>
         /\ Len(Append(Front(s), e)) = Len(s)
         /\ DOMAIN Append(Front(s), e) = 1..Len(s)
         /\ \A i \in 1..(Len(s) - 1) : Append(Front(s), e)[i] = s[i]
         /\ Append(Front(s), e)[Len(s)] = e
         /\ Last(Append(Front(s), e)) = e
<1> DEFINE f == Front(s)
<1>1. f \in Seq(S) /\ Len(s) \in Nat /\ Len(f) = Len(s) - 1 /\ \A i \in 1..(Len(s) - 1) : f[i] = s[i]
  BY StackFront
<1> HIDE DEF f
<1>2. /\ Append(f, e) \in Seq(S) /\ Append(f, e) # <<>>
      /\ Len(Append(f, e)) = Len(s) /\ DOMAIN Append(f, e) = 1..Len(s)
      /\ \A i \in 1..(Len(s) - 1) : Append(f, e)[i] = f[i]
      /\ Append(f, e)[Len(s)] = e
  BY SMTT(30), <1>1
<1>3. Last(Append(f, e)) = Append(f, e)[Len(Append(f, e))]
  BY DEF Last
<1> QED
  BY <1>1, <1>2, <1>3 DEF f

\* SubSeq from the item after the first n.
LEMMA RestItems ==
  ASSUME NEW S, NEW s \in Seq(S), NEW n \in 0..Len(s)
  PROVE  LET rest == SubSeq(s, n + 1, Len(s))
         IN /\ rest \in Seq(S) /\ Len(rest) = Len(s) - n
            /\ DOMAIN rest = 1..(Len(s) - n)
            /\ \A i \in 1..(Len(s) - n) : rest[i] = s[n + i]
<1> DEFINE m == Len(s)
           k == n + 1
           rest == SubSeq(s, k, m)
<1>1. m \in Nat /\ n \in Nat /\ k \in Nat /\ k >= 1 /\ k <= m + 1 /\ m - k + 1 = m - n
  OBVIOUS
<1> HIDE DEF k
<1>2. rest \in Seq(S)
  BY <1>1
<1>3. Len(rest) = m - k + 1
  BY <1>1
<1>4. \A i \in 1..(m - k + 1) : rest[i] = s[i + k - 1]
  BY <1>1
<1>5. \A i \in 1..(m - n) : i + k - 1 = n + i
  BY <1>1 DEF k
<1> HIDE DEF rest
<1>6. DOMAIN rest = 1..(m - n)
  BY SMTT(30), <1>1, <1>2, <1>3
<1> QED
  BY <1>1, <1>2, <1>3, <1>4, <1>5, <1>6 DEF rest, k

\* The first n items of a vector without duplicates, and the others.
Taken(s, n) == {s[i] : i \in 1..n}
Rest(s, n) == SubSeq(s, n + 1, Len(s))

LEMMA RestRange ==
  ASSUME NEW S, NEW s \in Seq(S), IsInjective(s), NEW n, n \in 0..Len(s)
  PROVE  /\ Rest(s, n) \in Seq(S) /\ Len(Rest(s, n)) = Len(s) - n
         /\ Range(Rest(s, n)) = Range(s) \ Taken(s, n) /\ IsInjective(Rest(s, n))
         /\ Taken(s, n) \subseteq Range(s)
         /\ IsFiniteSet(Taken(s, n)) /\ Cardinality(Taken(s, n)) = n
<1> DEFINE m == Len(s)
           rest == SubSeq(s, n + 1, m)
           front == SubSeq(s, 1, n)
           taken == {s[i] : i \in 1..n}
<1>1. /\ m \in Nat /\ n \in Nat /\ n <= m /\ DOMAIN s = 1..m
      /\ \A i \in 1..m : s[i] \in S
      /\ \A i, j \in 1..m : s[i] = s[j] => i = j
  BY DEF IsInjective
<1>2. /\ rest \in Seq(S) /\ Len(rest) = m - n /\ DOMAIN rest = 1..(m - n)
      /\ \A i \in 1..(m - n) : rest[i] = s[n + i]
  BY RestItems
<1>3. /\ front \in Seq(S) /\ Len(front) = n /\ DOMAIN front = 1..n
      /\ \A i \in 1..n : front[i] = s[i]
  BY <1>1
<1> HIDE DEF m, rest, front
<1>4. \A i \in 1..(m - n) : n + i \in 1..m /\ n + i \notin 1..n
  BY <1>1
<1>5. \A i \in 1..m : i \in 1..n \/ (i - n \in 1..(m - n) /\ n + (i - n) = i)
  BY <1>1
<1>6. \A i \in 1..n : i \in 1..m
  BY <1>1
<1>7. Range(rest) \subseteq Range(s) \ taken
  <2> SUFFICES ASSUME NEW i \in 1..(m - n) PROVE rest[i] \in Range(s) \ taken
    BY <1>2 DEF Range
  <2>1. rest[i] = s[n + i] /\ n + i \in 1..m /\ n + i \notin 1..n
    BY <1>2, <1>4
  <2>2. s[n + i] \in Range(s)
    BY <1>1, <2>1 DEF Range
  <2>3. ASSUME NEW j \in 1..n, s[j] = s[n + i] PROVE FALSE
    BY <1>1, <1>6, <2>1, <2>3
  <2> QED
    BY <2>1, <2>2, <2>3
<1>8. Range(s) \ taken \subseteq Range(rest)
  <2> SUFFICES ASSUME NEW i \in 1..m, s[i] \notin taken PROVE s[i] \in Range(rest)
    BY <1>1 DEF Range
  <2>1. i - n \in 1..(m - n) /\ n + (i - n) = i
    BY <1>5
  <2>2. rest[i - n] = s[i]
    BY <1>2, <2>1
  <2> QED
    BY <1>2, <2>1, <2>2 DEF Range
<1>9. IsInjective(rest)
  <2> SUFFICES ASSUME NEW i \in 1..(m - n), NEW j \in 1..(m - n), rest[i] = rest[j]
               PROVE  i = j
    BY <1>2 DEF IsInjective
  <2>1. n + i = n + j
    BY <1>1, <1>2, <1>4
  <2> QED
    BY <1>1, <2>1
<1>10. taken = Range(front) /\ IsInjective(front)
  BY <1>1, <1>3, <1>6 DEF Range, IsInjective
<1>11. IsFiniteSet(taken) /\ Cardinality(taken) = n
  BY <1>3, <1>10, InjectiveCardinality
<1>12. taken \subseteq Range(s)
  BY <1>1, <1>6 DEF Range
<1> QED
  BY <1>1, <1>2, <1>7, <1>8, <1>9, <1>11, <1>12 DEF m, rest, Rest, Taken
=============================================================================
