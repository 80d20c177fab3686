--------------------------- MODULE MembraneProofs ---------------------------
(***************************************************************************)
(* Proofs about Membrane: for any objects, prototypes, strings and         *)
(* arguments, and wherever wrap fails, a value has one wrapper and the     *)
(* wrappers mirror the prototype chains of what they stand for.            *)
(***************************************************************************)
EXTENDS Membrane, SequenceLemmas

\* The map and the wrappers are each other's inverse, but for a wrapper that
\* could not be put.
Matched ==
  /\ \A i \in DOMAIN cells : map[cells[i].of] = i \/ Unlisted(i)
  /\ \A v \in Object \cup String : map[v] # Null => cells[map[v]].of = v

\* The prototypes of what has a wrapper have one.
PrototypesFirst ==
  \A o \in Object : map[o] # Null /\ proto[o] # Null => map[proto[o]] # Null

\* What v was replaced by: itself, or the wrapper it still has.
Stands(v, x) == IF Passes(v) THEN x = v ELSE map[v] # Null /\ x = map[v]

ArgumentsWrapped == \A i \in DOMAIN argv : Stands(args[i], argv[i])

Argued == args[Len(args)]

\* The calls that wait: each for the next, along the prototypes of the
\* argument, and none of their objects has a wrapper; and what the innermost
\* call is about, or has returned.
Waiting ==
  /\ \A i \in DOMAIN calls : map[calls[i]] = Null
  /\ \A i \in DOMAIN calls : i > 1 => calls[i] = proto[calls[i - 1]]
  /\ calls # <<>> => field # "parent" /\ calls[1] = Argued
  /\ pc = "call" =>
       value = IF calls = <<>> THEN Argued ELSE proto[calls[Len(calls)]]
  /\ pc = "return" =>
       IF calls = <<>> THEN Stands(Argued, value)
       ELSE IF proto[calls[Len(calls)]] = Null THEN value = Null
       ELSE Stands(proto[calls[Len(calls)]], value)

IndInv ==
  /\ TypeOK /\ ChainsEnd
  /\ Matched /\ PrototypesFirst /\ ChainsMirrored /\ ArgumentsWrapped
  /\ Waiting
-----------------------------------------------------------------------------
\* Objects, null pointers and cells are told apart.
LEMMA Distinct ==
  /\ Null \notin Value /\ Null \notin Nat
  /\ \A v \in Value : v \notin Nat
  /\ \A o \in Object : o \notin Other /\ o \notin String /\ o \in Value
  /\ \A v \in String : v \notin Other /\ v \notin Object
BY MembraneAssumption DEF Value

LEMMA InitInv ==
  ASSUME Init PROVE IndInv
<1>1. /\ cells = <<>> /\ args = <<>> /\ argv = <<>> /\ calls = <<>>
      /\ pc = "loop" /\ value = Null
      /\ map = [v \in Object \cup String |-> Null]
  BY DEF Init
<1>2. TypeOK
  BY <1>1 DEF Init, TypeOK, Location
<1> QED
  BY <1>1, <1>2 DEF Init, IndInv, Matched, PrototypesFirst, ChainsMirrored,
                    ArgumentsWrapped, Waiting, Unlisted

\* No object waits in two calls: those between would hold their prototypes.
LEMMA WaitsOnce ==
  ASSUME IndInv, NEW i \in DOMAIN calls, NEW j \in DOMAIN calls, calls[i] = calls[j]
  PROVE  i = j
<1>1. /\ calls \in Seq(Object) /\ DOMAIN calls = 1..Len(calls) /\ Len(calls) \in Nat
      /\ \A k \in 1..Len(calls) : calls[k] \in Object
  BY DEF IndInv, TypeOK
<1>2. \A k \in 1..Len(calls) : k > 1 => calls[k] = proto[calls[k - 1]]
  BY <1>1 DEF IndInv, Waiting
<1>3. ASSUME NEW k \in 1..Len(calls), NEW n \in 1..Len(calls), k < n, calls[k] = calls[n]
      PROVE  FALSE
  <2> DEFINE S == {calls[m] : m \in k..(n - 1)}
  <2>1. S \in SUBSET Object /\ calls[k] \in S
    BY <1>1, <1>3
  <2>2. ASSUME NEW o \in S PROVE proto[o] \in S
    <3>1. PICK m \in k..(n - 1) : o = calls[m]
      OBVIOUS
    <3>2. m + 1 \in 1..Len(calls) /\ m + 1 > 1 /\ (m + 1) - 1 = m
      BY <1>1, <1>3
    <3>3. proto[o] = calls[m + 1]
      BY <1>2, <3>1, <3>2
    <3>4. CASE m + 1 = n
      BY <1>3, <2>1, <3>3, <3>4
    <3>5. CASE m + 1 # n
      <4>1. m + 1 \in k..(n - 1)
        BY <1>1, <1>3, <3>5
      <4> QED
        BY <3>3, <4>1
    <3> QED
      BY <3>4, <3>5
  <2> HIDE DEF S
  <2> QED
    BY <2>1, <2>2 DEF IndInv, ChainsEnd
<1> QED
  BY <1>1, <1>3

\* What wrap has returned, as the prototype of the wrapper that follows.
ProtoOf(v) == IF v \in Object /\ proto[v] # Null THEN map[proto[v]] ELSE Null

\* A cell is created for v: nothing that has a wrapper gets another one.
LEMMA CreateFacts ==
  ASSUME IndInv, pc \in {"call", "return"}, NEW v \in Object \cup String, map[v] = Null,
         v \in Object /\ proto[v] # Null => map[proto[v]] # Null,
         NEW p, p = ProtoOf(v), Create(v, p), UNCHANGED <<proto, field>>
  PROVE  /\ pc' \in {"return", "raise"}
         /\ map' \in [Object \cup String -> DOMAIN cells' \cup {Null}]
         /\ cells' \in Seq(Cell) /\ DOMAIN cells \subseteq DOMAIN cells'
         /\ value' \in DOMAIN cells' \cup {Null}
         /\ \A u \in Object \cup String : u # v => map'[u] = map[u]
         /\ pc' = "return" => map'[v] # Null /\ value' = map'[v]
         /\ Matched' /\ PrototypesFirst' /\ ChainsMirrored'
<1> DEFINE n == Len(cells)
           c == [of |-> v, proto |-> ProtoOf(v)]
<1>1. /\ map \in [Object \cup String -> DOMAIN cells \cup {Null}]
      /\ proto \in [Object -> Object \cup {Null}]
      /\ cells \in Seq(Cell) /\ n \in Nat /\ DOMAIN cells = 1..n
  BY DEF IndInv, TypeOK
<1>2. ProtoOf(v) \in Nat \cup {Null}
  BY <1>1 DEF ProtoOf
<1>3. c \in Cell
  BY <1>2 DEF Cell
<1>4. cells' = Append(cells, c)
  BY DEF Create, n
<1>5. /\ cells' \in Seq(Cell) /\ Len(cells') = n + 1 /\ DOMAIN cells' = 1..(n + 1)
      /\ \A i \in 1..n : cells'[i] = cells[i]
      /\ cells'[n + 1] = c
  BY <1>1, <1>3, <1>4
<1>6. c.of = v /\ c.proto = ProtoOf(v)
  OBVIOUS
<1> HIDE DEF n, c
<1>7. /\ \A i \in 1..n : map[cells[i].of] = i
      /\ \A i \in 1..n : cells[i].of \in Object \cup String
      /\ \A u \in Object \cup String : map[u] # Null => map[u] \in 1..n /\ cells[map[u]].of = u
  <2>1. \A i \in 1..n : ~Unlisted(i)
    BY DEF Unlisted
  <2>2. \A i \in 1..n : cells[i] \in Cell
    BY <1>1
  <2>3. \A i \in 1..n : cells[i].of \in Object \cup String
    BY <2>2 DEF Cell
  <2>4. \A u \in Object \cup String : map[u] # Null => map[u] \in 1..n
    BY <1>1
  <2>5. Matched
    BY DEF IndInv
  <2> QED
    BY <1>1, <2>1, <2>3, <2>4, <2>5 DEF Matched
<1>8. n + 1 # Null /\ \A i \in 1..n : i # Null
  BY <1>1, Distinct
<1>9. ASSUME NEW i \in 1..n PROVE cells[i].of # v
  BY <1>7, <1>8, <1>9
<1>10. \/ map' = [map EXCEPT ![v] = n + 1] /\ value' = n + 1 /\ pc' = "return"
       \/ map' = map /\ value' = Null /\ pc' = "raise"
  BY DEF Create, n
<1>11. /\ \A u \in Object \cup String : u # v => map'[u] = map[u]
       /\ map' \in [Object \cup String -> DOMAIN cells' \cup {Null}]
       /\ pc' = "return" => map'[v] = n + 1
       /\ pc' = "raise" => map'[v] = Null
  BY <1>1, <1>5, <1>10
<1>12. Matched'
  <2>1. \A i \in 1..n : map'[cells'[i].of] = i
    BY <1>5, <1>7, <1>9, <1>11
  <2>2. \/ map'[cells'[n + 1].of] = n + 1
        \/ pc' \in {"raise", "failed"} /\ n + 1 = Len(cells')
    BY <1>5, <1>6, <1>10, <1>11
  <2>3. \A u \in Object \cup String : map'[u] # Null => cells'[map'[u]].of = u
    BY <1>5, <1>6, <1>7, <1>10, <1>11
  <2>4. \A i \in 1..(n + 1) : i \in 1..n \/ i = n + 1
    BY <1>1
  <2>5. \A i \in DOMAIN cells' : map'[cells'[i].of] = i \/ Unlisted(i)'
    BY <1>5, <2>1, <2>2, <2>4 DEF Unlisted
  <2> QED
    BY <2>3, <2>5 DEF Matched
<1>13. PrototypesFirst'
  <2> SUFFICES ASSUME NEW o \in Object, map'[o] # Null, proto[o] # Null
               PROVE  map'[proto[o]] # Null
    BY DEF PrototypesFirst
  <2>1. proto[o] \in Object
    BY <1>1
  <2>2. map[proto[o]] # Null
    <3>1. CASE o = v
      BY <3>1
    <3>2. CASE o # v
      BY <1>11, <3>2 DEF IndInv, PrototypesFirst
    <3> QED
      BY <3>1, <3>2
  <2> QED
    BY <1>11, <2>1, <2>2
<1>14. ChainsMirrored'
  <2> DEFINE up(i) == IF cells'[i].of \in Object THEN proto[cells'[i].of] ELSE Null
  <2>1. ASSUME NEW i \in 1..n
        PROVE  cells'[i].proto = IF up(i) = Null THEN Null ELSE map'[up(i)]
    <3>1. cells[i].proto = IF up(i) = Null THEN Null ELSE map[up(i)]
      BY <1>1, <1>5 DEF IndInv, ChainsMirrored
    <3>2. CASE up(i) # Null
      <4>1. cells[i].of \in Object /\ up(i) = proto[cells[i].of] /\ up(i) \in Object
        BY <1>1, <1>5, <3>2
      <4>2. map[up(i)] # Null
        BY <1>7, <1>8, <3>2, <4>1 DEF IndInv, PrototypesFirst
      <4>3. map'[up(i)] = map[up(i)]
        BY <1>11, <4>1, <4>2
      <4> QED
        BY <1>5, <3>1, <4>3
    <3> QED
      BY <1>5, <3>1, <3>2
  <2>2. cells'[n + 1].proto = IF up(n + 1) = Null THEN Null ELSE map'[up(n + 1)]
    <3>1. up(n + 1) = IF v \in Object THEN proto[v] ELSE Null
      BY <1>5, <1>6
    <3>2. CASE up(n + 1) = Null
      BY <1>5, <1>6, <3>1, <3>2 DEF ProtoOf
    <3>3. CASE up(n + 1) # Null
      <4>1. v \in Object /\ proto[v] \in Object /\ up(n + 1) = proto[v]
        BY <1>1, <3>1, <3>3
      <4>2. map[proto[v]] # Null /\ proto[v] # v
        BY <3>3, <4>1
      <4>3. map'[proto[v]] = map[proto[v]]
        BY <1>11, <4>1, <4>2
      <4> QED
        BY <1>5, <1>6, <3>3, <4>1, <4>3 DEF ProtoOf
    <3> QED
      BY <3>2, <3>3
  <2>3. \A i \in 1..(n + 1) : i \in 1..n \/ i = n + 1
    BY <1>1
  <2>4. \A i \in 1..(n + 1) : cells'[i].proto = IF up(i) = Null THEN Null ELSE map'[up(i)]
    BY <2>1, <2>2, <2>3
  <2> QED
    BY <1>5, <2>4 DEF ChainsMirrored
<1> QED
  BY <1>1, <1>5, <1>8, <1>10, <1>11, <1>12, <1>13, <1>14
-----------------------------------------------------------------------------
(***************************************************************************)
(* Every step preserves the invariant.                                     *)
(***************************************************************************)
\* Steps that create nothing.
LEMMA NothingCreated ==
  ASSUME IndInv, UNCHANGED <<proto, field, map, cells>>,
         pc \in {"raise", "failed"} => pc' \in {"raise", "failed"}
  PROVE  ChainsEnd' /\ Matched' /\ PrototypesFirst' /\ ChainsMirrored'
<1>1. Matched'
  BY DEF IndInv, Matched, Unlisted
<1> QED
  BY <1>1 DEF IndInv, ChainsEnd, PrototypesFirst, ChainsMirrored

LEMMA ArgumentsKept ==
  ASSUME IndInv, UNCHANGED <<field, args, argv>>,
         \A v \in Object \cup String : map[v] # Null => map'[v] = map[v]
  PROVE  ArgumentsWrapped'
<1>1. \A i \in DOMAIN argv : args[i] \in Value
  BY DEF IndInv, TypeOK
<1>2. ASSUME NEW v \in Value, NEW x, Stands(v, x) PROVE Stands(v, x)'
  <2>1. Passes(v)' <=> Passes(v)
    BY DEF Passes
  <2>2. ~Passes(v) => v \in Object \cup String
    BY DEF Passes, Value
  <2> QED
    BY <1>2, <2>1, <2>2 DEF Stands
<1>3. \A i \in DOMAIN argv : Stands(args[i], argv[i])
  BY DEF IndInv, ArgumentsWrapped
<1>4. \A i \in DOMAIN argv : Stands(args[i], argv[i])'
  BY <1>1, <1>2, <1>3 DEF Stands, Passes, Value
<1> QED
  BY <1>4 DEF ArgumentsWrapped

\* What a call of wrap is about: the argument, or an object, the prototype of
\* another one.
LEMMA CallFacts ==
  ASSUME IndInv, pc = "call"
  PROVE  /\ value \in Value
         /\ Argued \in Value /\ Len(args) = Len(argv) + 1
         /\ calls = <<>> => value = Argued
         /\ calls # <<>> => /\ value \in Object /\ ~Passes(value)
                            /\ value = proto[calls[Len(calls)]]
<1>1. value \in Value /\ calls \in Seq(Object) /\ Len(args) = Len(argv) + 1
      /\ args \in Seq(Value) /\ Len(argv) \in Nat
  BY DEF IndInv, TypeOK
<1>2. Argued \in Value
  BY <1>1 DEF Argued
<1>3. value = IF calls = <<>> THEN Argued ELSE proto[calls[Len(calls)]]
  BY DEF IndInv, Waiting
<1>4. ASSUME calls # <<>> PROVE value \in Object /\ field # "parent"
  <2>1. calls[Len(calls)] \in Object
    BY <1>1, <1>4
  <2>2. value \in Object \cup {Null}
    BY <1>3, <1>4, <2>1 DEF IndInv, TypeOK
  <2> QED
    BY <1>1, <1>4, <2>2, Distinct DEF IndInv, Waiting
<1> QED
  BY <1>1, <1>2, <1>3, <1>4, Distinct DEF Passes

LEMMA ArgumentStep ==
  ASSUME IndInv, Argument PROVE IndInv'
<1>1. PICK v \in Value : args' = Append(args, v) /\ value' = v
  BY DEF Argument
<1>2. /\ pc = "loop" /\ pc' = "call" /\ UNCHANGED <<proto, field, map, cells, argv, calls>>
  BY DEF Argument
<1>3. /\ args \in Seq(Value) /\ Len(args) = Len(argv) /\ calls = <<>>
      /\ argv \in Seq(Value \cup DOMAIN cells)
  BY <1>2 DEF IndInv, TypeOK
<1>4. /\ args' \in Seq(Value) /\ Len(args') = Len(args) + 1 /\ args'[Len(args')] = v
      /\ \A i \in 1..Len(args) : args'[i] = args[i]
  BY <1>1, <1>3
<1>5. TypeOK'
  BY <1>1, <1>2, <1>3, <1>4 DEF IndInv, TypeOK, Location
<1>6. ChainsEnd' /\ Matched' /\ PrototypesFirst' /\ ChainsMirrored'
  BY <1>2, NothingCreated
<1>7. ArgumentsWrapped'
  <2>1. DOMAIN argv = 1..Len(args)
    BY <1>3
  <2> QED
    BY <1>2, <1>4, <2>1 DEF IndInv, ArgumentsWrapped, Stands, Passes
<1>8. Waiting'
  BY <1>1, <1>2, <1>3, <1>4 DEF Waiting, Argued
<1> QED
  BY <1>5, <1>6, <1>7, <1>8 DEF IndInv

LEMMA EndArgumentStep ==
  ASSUME IndInv, EndArgument PROVE IndInv'
<1>1. /\ pc = "return" /\ calls = <<>> /\ argv' = Append(argv, value)
      /\ value' = Null /\ pc' = "loop"
      /\ UNCHANGED <<proto, field, map, cells, args, calls>>
  BY DEF EndArgument
<1>2. /\ Len(args) = Len(argv) + 1 /\ argv \in Seq(Value \cup DOMAIN cells)
      /\ args \in Seq(Value) /\ value \in Value \cup DOMAIN cells \cup {Null}
      /\ map \in [Object \cup String -> DOMAIN cells \cup {Null}]
  BY <1>1 DEF IndInv, TypeOK
<1>3. Stands(Argued, value) /\ Argued \in Value
  BY <1>1, <1>2 DEF IndInv, Waiting, Argued
<1>4. value \in Value \cup DOMAIN cells
  <2>1. ~Passes(Argued) => Argued \in Object \cup String
    BY <1>3 DEF Passes, Value
  <2> QED
    BY <1>2, <1>3, <2>1 DEF Stands
<1>5. /\ argv' \in Seq(Value \cup DOMAIN cells) /\ Len(argv') = Len(args)
      /\ DOMAIN argv' = 1..Len(args) /\ argv'[Len(args)] = value
      /\ DOMAIN argv = 1..(Len(args) - 1)
      /\ \A i \in 1..(Len(args) - 1) : argv'[i] = argv[i]
  BY <1>1, <1>2, <1>4
<1>6. TypeOK'
  BY <1>1, <1>2, <1>5 DEF IndInv, TypeOK, Location
<1>7. ChainsEnd' /\ Matched' /\ PrototypesFirst' /\ ChainsMirrored'
  BY <1>1, NothingCreated
<1>8. ArgumentsWrapped'
  <2>1. \A i \in 1..(Len(args) - 1) : Stands(args[i], argv'[i])
    BY <1>5 DEF IndInv, ArgumentsWrapped
  <2>2. Stands(args[Len(args)], argv'[Len(args)])
    BY <1>3, <1>5 DEF Argued
  <2>3. \A i \in 1..Len(args) : i \in 1..(Len(args) - 1) \/ i = Len(args)
    BY <1>2
  <2>4. \A i \in 1..Len(args) : Stands(args[i], argv'[i])
    BY <2>1, <2>2, <2>3
  <2> QED
    BY <1>1, <1>5, <2>4 DEF ArgumentsWrapped, Stands, Passes
<1>9. Waiting'
  BY <1>1 DEF IndInv, Waiting
<1> QED
  BY <1>6, <1>7, <1>8, <1>9 DEF IndInv

LEMMA ReturnStep ==
  ASSUME IndInv, Pass \/ Found PROVE IndInv'
<1>1. /\ pc = "call" /\ pc' = "return"
      /\ UNCHANGED <<proto, field, map, cells, args, argv, calls>>
      /\ \/ Passes(value) /\ value' = value
         \/ ~Passes(value) /\ map[value] # Null /\ value' = map[value]
  BY DEF Pass, Found
<1>2. Stands(value, value')
  BY <1>1 DEF Stands
<1>3. value' \in Value \cup DOMAIN cells
  <2>1. ~Passes(value) => value \in Object \cup String
    BY <1>1, CallFacts DEF Passes, Value
  <2> QED
    BY <1>1, <2>1, CallFacts DEF IndInv, TypeOK
<1>4. TypeOK'
  BY <1>1, <1>3 DEF IndInv, TypeOK, Location
<1>5. ChainsEnd' /\ Matched' /\ PrototypesFirst' /\ ChainsMirrored' /\ ArgumentsWrapped'
  BY <1>1, NothingCreated, ArgumentsKept
<1>6. Waiting'
  <2>1. IF calls = <<>> THEN Stands(Argued, value')
        ELSE IF proto[calls[Len(calls)]] = Null THEN value' = Null
        ELSE Stands(proto[calls[Len(calls)]], value')
    BY <1>1, <1>2, CallFacts, Distinct
  <2> QED
    BY <1>1, <2>1 DEF IndInv, Waiting, Argued, Stands, Passes
<1> QED
  BY <1>4, <1>5, <1>6 DEF IndInv

LEMMA CopyStep ==
  ASSUME IndInv, Copy PROVE IndInv'
<1>1. /\ pc = "call" /\ value \in String /\ ~Passes(value) /\ map[value] = Null
      /\ Create(value, Null) /\ UNCHANGED <<proto, field, args, argv, calls>>
  BY DEF Copy
<1>2. calls = <<>> /\ value = Argued /\ value \notin Object
  BY <1>1, CallFacts, Distinct
<1>3. ProtoOf(value) = Null
  BY <1>2 DEF ProtoOf
<1>4. /\ pc' \in {"return", "raise"}
      /\ map' \in [Object \cup String -> DOMAIN cells' \cup {Null}]
      /\ cells' \in Seq(Cell) /\ DOMAIN cells \subseteq DOMAIN cells'
      /\ value' \in DOMAIN cells' \cup {Null}
      /\ \A u \in Object \cup String : u # value => map'[u] = map[u]
      /\ pc' = "return" => map'[value] # Null /\ value' = map'[value]
      /\ Matched' /\ PrototypesFirst' /\ ChainsMirrored'
  <2>1. value \in Object \cup String /\ (value \in Object /\ proto[value] # Null => map[proto[value]] # Null)
    BY <1>1, <1>2
  <2> QED
    BY <1>1, <1>3, <2>1, CreateFacts
<1>5. argv' \in Seq(Value \cup DOMAIN cells')
  BY <1>1, <1>4 DEF IndInv, TypeOK
<1>6. TypeOK'
  BY <1>1, <1>2, <1>4, <1>5 DEF IndInv, TypeOK, Location
<1>7. ChainsEnd' /\ ArgumentsWrapped'
  BY <1>1, <1>4, ArgumentsKept DEF IndInv, ChainsEnd
<1>8. Waiting'
  BY <1>1, <1>2, <1>4 DEF Waiting, Argued, Stands, Passes
<1> QED
  BY <1>4, <1>6, <1>7, <1>8 DEF IndInv

LEMMA RecurseStep ==
  ASSUME IndInv, Recurse PROVE IndInv'
<1> DEFINE n == Len(calls)
<1>1. /\ pc = "call" /\ value \in Object /\ ~Passes(value) /\ map[value] = Null
      /\ calls' = Append(calls, value) /\ value' = proto[value]
      /\ pc' = IF proto[value] = Null THEN "return" ELSE "call"
      /\ UNCHANGED <<proto, field, map, cells, args, argv>>
  BY DEF Recurse
<1>2. /\ calls \in Seq(Object) /\ n \in Nat /\ DOMAIN calls = 1..n
      /\ value' \in Object \cup {Null}
  BY <1>1 DEF IndInv, TypeOK
<1>3. /\ calls' \in Seq(Object) /\ Len(calls') = n + 1 /\ DOMAIN calls' = 1..(n + 1)
      /\ calls'[n + 1] = value /\ calls' # <<>>
      /\ \A i \in 1..n : calls'[i] = calls[i]
  BY <1>1, <1>2
<1>4. calls = <<>> <=> n = 0
  BY <1>2
<1> HIDE DEF n
<1>5. TypeOK'
  BY <1>1, <1>2, <1>3, Distinct DEF IndInv, TypeOK, Location
<1>6. ChainsEnd' /\ Matched' /\ PrototypesFirst' /\ ChainsMirrored' /\ ArgumentsWrapped'
  BY <1>1, NothingCreated, ArgumentsKept
<1>7. Waiting'
  <2>1. \A i \in 1..(n + 1) : i \in 1..n \/ i = n + 1
    BY <1>2
  <2>2. \A i \in 1..(n + 1) : map[calls'[i]] = Null
    BY <1>1, <1>2, <1>3, <2>1 DEF IndInv, Waiting
  <2>3. ASSUME NEW i \in 1..(n + 1), i > 1 PROVE calls'[i] = proto[calls'[i - 1]]
    <3>1. i - 1 \in 1..n
      BY <1>2, <2>3
    <3>2. CASE i \in 1..n
      BY <1>2, <1>3, <2>3, <3>1, <3>2 DEF IndInv, Waiting
    <3>3. CASE i = n + 1
      <4>1. value = proto[calls[n]] /\ i - 1 = n
        BY <1>1, <1>2, <1>4, <2>3, <3>3, CallFacts DEF n
      <4> QED
        BY <1>3, <3>1, <3>3, <4>1
    <3> QED
      BY <2>1, <3>2, <3>3
  <2>4. field # "parent" /\ calls'[1] = Argued
    <3>1. CASE n = 0
      BY <1>1, <1>3, <1>4, <3>1, CallFacts DEF Passes
    <3>2. CASE n # 0
      <4>1. 1 \in 1..n
        BY <1>2, <3>2
      <4> QED
        BY <1>1, <1>3, <1>4, <3>2, <4>1 DEF IndInv, Waiting, Passes
    <3> QED
      BY <3>1, <3>2
  <2>5. value' = proto[calls'[Len(calls')]] /\ (pc' = "return" => value' = Null)
    BY <1>1, <1>3
  <2> QED
    BY <1>1, <1>3, <2>2, <2>3, <2>4, <2>5 DEF Waiting, Argued
<1> QED
  BY <1>5, <1>6, <1>7 DEF IndInv

\* The innermost call returns: those that wait, wait as before.
LEMMA CallsLeft ==
  ASSUME IndInv, calls # <<>>, calls' = Front(calls), UNCHANGED <<proto, field, args>>
  PROVE  /\ calls' \in Seq(Object) /\ DOMAIN calls' \subseteq DOMAIN calls
         /\ Last(calls) = calls[Len(calls)] /\ Last(calls) \in Object
         /\ map[Last(calls)] = Null
         /\ \A i \in DOMAIN calls' : /\ calls'[i] = calls[i] /\ calls'[i] # Last(calls)
                                     /\ map[calls'[i]] = Null
                                     /\ i > 1 => calls'[i] = proto[calls'[i - 1]]
         /\ calls' # <<>> => /\ calls'[1] = Argued'
                             /\ proto[calls'[Len(calls')]] = Last(calls)
         /\ calls' = <<>> => Last(calls) = Argued'
         /\ field # "parent"
<1> DEFINE n == Len(calls)
<1>1. calls \in Seq(Object)
  BY DEF IndInv, TypeOK
<1>2. /\ n \in Nat /\ n > 0 /\ DOMAIN calls = 1..n
      /\ Last(calls) = calls[n] /\ Last(calls) \in Object
      /\ calls' \in Seq(Object) /\ Len(calls') = n - 1 /\ DOMAIN calls' = 1..(n - 1)
      /\ \A i \in 1..(n - 1) : calls'[i] = calls[i]
  BY <1>1, StackFront
<1>3. \A i \in 1..n : map[calls[i]] = Null /\ (i > 1 => calls[i] = proto[calls[i - 1]])
  BY <1>2 DEF IndInv, Waiting
<1>4. field # "parent" /\ calls[1] = Argued /\ Argued' = Argued
  BY DEF IndInv, Waiting, Argued
<1> HIDE DEF n
<1>5. ASSUME NEW i \in 1..(n - 1)
      PROVE  calls[i] # calls[n] /\ (i > 1 => calls'[i] = proto[calls'[i - 1]])
  <2>1. i \in 1..n /\ n \in 1..n /\ i # n /\ (i > 1 => i - 1 \in 1..(n - 1))
    BY <1>2
  <2> QED
    BY <1>2, <1>3, <2>1, WaitsOnce
<1>6. calls' # <<>> => /\ calls'[1] = calls[1]
                       /\ proto[calls'[Len(calls')]] = calls[n]
  <2> SUFFICES ASSUME calls' # <<>>
               PROVE  calls'[1] = calls[1] /\ proto[calls'[Len(calls')]] = calls[n]
    OBVIOUS
  <2>1. 1 \in 1..(n - 1) /\ n - 1 \in 1..(n - 1) /\ n \in 1..n /\ n > 1
    BY <1>2
  <2> QED
    BY <1>2, <1>3, <2>1
<1>7. calls' = <<>> => n = 1
  BY <1>2
<1>8. n \in 1..n /\ 1..(n - 1) \subseteq 1..n
  BY <1>2
<1>9. \A i \in DOMAIN calls' : /\ calls'[i] = calls[i] /\ calls'[i] # Last(calls)
                               /\ map[calls'[i]] = Null
                               /\ i > 1 => calls'[i] = proto[calls'[i - 1]]
  BY <1>2, <1>3, <1>5, <1>8
<1> QED
  BY <1>2, <1>3, <1>4, <1>6, <1>7, <1>8, <1>9 DEF n

LEMMA WrapStep ==
  ASSUME IndInv, Wrap PROVE IndInv'
<1> DEFINE o == Last(calls)
<1>1. /\ pc = "return" /\ calls # <<>> /\ Create(o, value) /\ calls' = Front(calls)
      /\ UNCHANGED <<proto, field, args, argv>>
  BY DEF Wrap
<1>2. /\ calls' \in Seq(Object)
      /\ o = calls[Len(calls)] /\ o \in Object /\ map[o] = Null
      /\ \A i \in DOMAIN calls' : /\ calls'[i] \in Object /\ calls'[i] # o
                                  /\ map[calls'[i]] = Null
                                  /\ i > 1 => calls'[i] = proto[calls'[i - 1]]
      /\ calls' # <<>> => /\ calls'[1] = Argued'
                          /\ proto[calls'[Len(calls')]] = o
      /\ calls' = <<>> => o = Argued'
      /\ field # "parent"
  BY <1>1, CallsLeft
<1> HIDE DEF o
<1>3. value = ProtoOf(o) /\ (proto[o] # Null => map[proto[o]] # Null)
  <2>1. IF proto[o] = Null THEN value = Null ELSE Stands(proto[o], value)
    BY <1>1, <1>2 DEF IndInv, Waiting
  <2>2. proto[o] # Null => ~Passes(proto[o])
    BY <1>2, Distinct DEF IndInv, TypeOK, Passes
  <2> QED
    BY <1>2, <2>1, <2>2 DEF Stands, ProtoOf
<1>4. /\ pc' \in {"return", "raise"}
      /\ map' \in [Object \cup String -> DOMAIN cells' \cup {Null}]
      /\ cells' \in Seq(Cell) /\ DOMAIN cells \subseteq DOMAIN cells'
      /\ value' \in DOMAIN cells' \cup {Null}
      /\ \A u \in Object \cup String : u # o => map'[u] = map[u]
      /\ pc' = "return" => map'[o] # Null /\ value' = map'[o]
      /\ Matched' /\ PrototypesFirst' /\ ChainsMirrored'
  <2>1. o \in Object \cup String
    BY <1>2
  <2> QED
    BY <1>1, <1>2, <1>3, <2>1, CreateFacts
<1>5. argv' \in Seq(Value \cup DOMAIN cells')
  BY <1>1, <1>4 DEF IndInv, TypeOK
<1>6. TypeOK'
  BY <1>1, <1>2, <1>4, <1>5 DEF IndInv, TypeOK, Location
<1>7. ChainsEnd' /\ ArgumentsWrapped'
  BY <1>1, <1>2, <1>4, ArgumentsKept DEF IndInv, ChainsEnd
<1>8. Waiting'
  <2>1. \A i \in DOMAIN calls' : map'[calls'[i]] = Null
    BY <1>2, <1>4
  <2>3. o # Null /\ proto' = proto /\ field' = field
    BY <1>1, <1>2, Distinct
  <2>4. pc' = "return" =>
          IF calls' = <<>> THEN Stands(Argued, value)'
          ELSE IF proto'[calls'[Len(calls')]] = Null THEN value' = Null
          ELSE Stands(proto[calls[Len(calls)]], value)'
    BY <1>2, <1>4, <2>3, Distinct DEF Stands, Passes
  <2> QED
    BY <1>2, <1>4, <2>1, <2>3, <2>4 DEF Waiting
<1> QED
  BY <1>4, <1>6, <1>7, <1>8 DEF IndInv

LEMMA RaiseStep ==
  ASSUME IndInv, Raise PROVE IndInv'
<1>1. /\ pc = "raise" /\ UNCHANGED <<proto, field, map, cells, args, argv, value>>
      /\ \/ calls = <<>> /\ pc' = "failed" /\ calls' = calls
         \/ calls # <<>> /\ pc' = "raise" /\ calls' = Front(calls)
  BY DEF Raise
<1>2. ChainsEnd' /\ Matched' /\ PrototypesFirst' /\ ChainsMirrored' /\ ArgumentsWrapped'
  BY <1>1, NothingCreated, ArgumentsKept
<1>3. CASE calls = <<>>
  <2>1. pc' = "failed" /\ calls' = <<>>
    BY <1>1, <1>3
  <2>2. TypeOK'
    BY <1>1, <2>1 DEF IndInv, TypeOK, Location
  <2> QED
    BY <1>2, <2>1, <2>2 DEF IndInv, Waiting
<1>4. CASE calls # <<>>
  <2>1. pc' = "raise" /\ calls' = Front(calls)
    BY <1>1, <1>4
  <2>2. /\ calls' \in Seq(Object) /\ field # "parent"
        /\ \A i \in DOMAIN calls' : /\ map[calls'[i]] = Null
                                    /\ i > 1 => calls'[i] = proto[calls'[i - 1]]
        /\ calls' # <<>> => calls'[1] = Argued'
    BY <1>1, <1>4, <2>1, CallsLeft
  <2>3. TypeOK'
    BY <1>1, <2>1, <2>2 DEF IndInv, TypeOK, Location
  <2> QED
    BY <1>1, <1>2, <2>1, <2>2, <2>3 DEF IndInv, Waiting
<1> QED
  BY <1>3, <1>4

\* Steps that end something and leave the rest.
LEMMA OtherSteps ==
  ASSUME IndInv, CallFunction \/ Fail \/ NoWrapper \/ UNCHANGED vars PROVE IndInv'
<1>1. UNCHANGED <<proto, field, map, cells, args, argv, calls>>
  BY DEF CallFunction, Fail, NoWrapper, vars
<1>2. /\ pc' \in {"called", "raise", "crashed"} \/ pc' = pc
      /\ pc \in {"raise", "failed"} => pc' = pc
      /\ value' \in {value, Null}
      /\ pc' = pc => value' = value
  BY DEF CallFunction, Fail, NoWrapper, vars
<1>3. TypeOK'
  BY <1>1 DEF CallFunction, Fail, NoWrapper, vars, IndInv, TypeOK, Location
<1>4. ChainsEnd' /\ Matched' /\ PrototypesFirst' /\ ChainsMirrored' /\ ArgumentsWrapped'
  BY <1>1, <1>2, NothingCreated, ArgumentsKept
<1>5. Waiting'
  BY <1>1, <1>2 DEF IndInv, Waiting, Argued, Stands, Passes
<1> QED
  BY <1>3, <1>4, <1>5 DEF IndInv

LEMMA NextInv ==
  ASSUME IndInv, [Next]_vars PROVE IndInv'
BY ArgumentStep, EndArgumentStep, ReturnStep, CopyStep, RecurseStep, WrapStep, RaiseStep,
   OtherSteps DEF Next

LEMMA Invariant == Spec => []IndInv
  BY InitInv, NextInv, PTL DEF Spec
-----------------------------------------------------------------------------
\* Type correctness: every entry of the map is a wrapper there is.
THEOREM TypeCorrect == Spec => []TypeOK
<1>1. IndInv => TypeOK
  BY DEF IndInv
<1> QED
  BY <1>1, Invariant, PTL

\* A value has one wrapper, which is the one the map has for it, and two
\* arguments are the same for the child exactly when they are the same for
\* the parent: wrap (membrane.cpp) wraps no value twice.
THEOREM WrappedOnce == Spec => []OneWrapperEach
<1>1. ASSUME IndInv PROVE OneWrapperEach
  <2>1. /\ map \in [Object \cup String -> DOMAIN cells \cup {Null}]
        /\ DOMAIN cells \subseteq Nat
        /\ \A i \in DOMAIN argv : args[i] \in Value
    BY <1>1 DEF IndInv, TypeOK
  <2>2. ASSUME NEW i \in DOMAIN argv, ~Passes(args[i])
        PROVE  argv[i] = map[args[i]] /\ argv[i] \in Nat /\ cells[argv[i]].of = args[i]
    <3>1. args[i] \in Object \cup String
      BY <2>1, <2>2 DEF Passes, Value
    <3>2. map[args[i]] # Null /\ argv[i] = map[args[i]]
      BY <1>1, <2>2 DEF IndInv, ArgumentsWrapped, Stands
    <3> QED
      BY <1>1, <2>1, <3>1, <3>2 DEF IndInv, Matched
  <2>3. ASSUME NEW i \in DOMAIN argv, Passes(args[i])
        PROVE  argv[i] = args[i] /\ argv[i] \notin Nat
    BY <1>1, <2>1, <2>3, Distinct DEF IndInv, ArgumentsWrapped, Stands
  <2>4. ASSUME NEW i \in DOMAIN argv, NEW j \in DOMAIN argv
        PROVE  args[i] = args[j] <=> argv[i] = argv[j]
    <3>1. args[i] = args[j] => (Passes(args[i]) <=> Passes(args[j]))
      BY DEF Passes
    <3>2. CASE Passes(args[i]) /\ Passes(args[j])
      BY <2>3, <3>2
    <3>3. CASE ~Passes(args[i]) /\ ~Passes(args[j])
      BY <2>2, <3>3
    <3>4. CASE Passes(args[i]) # Passes(args[j])
      BY <2>2, <2>3, <3>1, <3>4
    <3> QED
      BY <3>2, <3>3, <3>4
  <2> QED
    BY <1>1, <2>1, <2>4 DEF IndInv, Matched, OneWrapperEach
<1> QED
  BY <1>1, Invariant, PTL

\* The prototype of a wrapper is the wrapper of the prototype, for chains of
\* any length that meet anywhere, in whatever order their members are
\* wrapped.
THEOREM PrototypesMirrored == Spec => []ChainsMirrored
<1>1. IndInv => ChainsMirrored
  BY DEF IndInv
<1> QED
  BY <1>1, Invariant, PTL

\* Wherever wrap fails, of the stack or of memory, in a chain of any length,
\* what its calls have put into the map until then is whole.
THEOREM NoBadEntries == Spec => []NoBadEntry
<1>1. ASSUME IndInv PROVE NoBadEntry
  <2> SUFFICES ASSUME NEW o \in Object, map[o] # Null
               PROVE  /\ cells[map[o]].of = o
                      /\ proto[o] # Null => /\ map[proto[o]] # Null
                                            /\ cells[map[o]].proto = map[proto[o]]
    BY DEF NoBadEntry
  <2>1. map[o] \in DOMAIN cells /\ cells[map[o]].of = o
    BY <1>1 DEF IndInv, TypeOK, Matched
  <2>2. proto[o] # Null => map[proto[o]] # Null
    BY <1>1 DEF IndInv, PrototypesFirst
  <2>3. cells[map[o]].proto = IF proto[o] = Null THEN Null ELSE map[proto[o]]
    BY <1>1, <2>1 DEF IndInv, ChainsMirrored
  <2> QED
    BY <2>1, <2>2, <2>3
<1> QED
  BY <1>1, Invariant, PTL

\* What the comment of wrap promises does hold when the field is not the
\* compartment of the parent: the run that violates it needs the
\* indeterminate value that the constructor leaves there.
THEOREM ProxiesWhenInitialised == Spec /\ field # "parent" => []ObjectsBecomeProxies
<1>1. IndInv /\ field # "parent" /\ [Next]_vars => (field # "parent")'
  BY DEF Next, vars, Argument, EndArgument, CallFunction, Fail, Pass, Found, Copy, Recurse,
         Wrap, NoWrapper, Raise
<1>2. ASSUME IndInv, field # "parent" PROVE ObjectsBecomeProxies
  <2> SUFFICES ASSUME NEW i \in DOMAIN argv, args[i] \in Object
               PROVE  argv[i] \in DOMAIN cells
    BY DEF ObjectsBecomeProxies
  <2>1. ~Passes(args[i])
    BY <1>2, Distinct DEF Passes
  <2>2. map[args[i]] # Null /\ argv[i] = map[args[i]]
    BY <1>2, <2>1 DEF IndInv, ArgumentsWrapped, Stands
  <2> QED
    BY <1>2, <2>2 DEF IndInv, TypeOK
<1> QED
  BY <1>1, <1>2, Invariant, PTL DEF Spec

\* The calls of wrap that wait for one another are for different objects.
RecursionBounded == IsInjective(calls) /\ Len(calls) <= Cardinality(Object)

\* The recursion of wrap along a prototype chain of any length ends: it never
\* comes back to an object, and is never deeper than there are objects.
THEOREM RecursionEnds == Spec => []RecursionBounded
<1>1. ASSUME IndInv PROVE RecursionBounded
  <2>1. calls \in Seq(Object)
    BY <1>1 DEF IndInv, TypeOK
  <2>2. IsInjective(calls)
    BY <1>1, WaitsOnce DEF IsInjective
  <2>3. Cardinality(Range(calls)) = Len(calls)
    BY <2>1, <2>2, InjectiveCardinality
  <2>4. Range(calls) \subseteq Object
    BY <2>1, SeqRange
  <2>5. Cardinality(Range(calls)) <= Cardinality(Object)
    BY <2>4, MembraneAssumption, FS_Subset
  <2> QED
    BY <2>2, <2>3, <2>5 DEF RecursionBounded
<1> QED
  BY <1>1, Invariant, PTL
=============================================================================
