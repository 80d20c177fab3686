------------------------ MODULE SporkParallelProofs ------------------------
(***************************************************************************)
(* The Parallel of the shell counts exactly, runs every forked function    *)
(* once and calls its callback after all of them, for every set of tasks   *)
(* and every nesting of execute.  A proof has one step per action of       *)
(* SporkParallel; the frames below the top of the stack are untouched by   *)
(* each of them.                                                           *)
(***************************************************************************)
EXTENDS SporkParallel, SequenceLemmas

\* What a frame of execute holds was forked, and is not in q any more; only
\* a frame that has left the loop is sure to have a first task, and that of a
\* frame in the callback has its result.
Held ==
  /\ Range(q) \subseteq forked
  /\ \A i \in DOMAIN stack :
       /\ Range(stack[i].x) \subseteq forked
       /\ Range(stack[i].x) \cap Range(q) = {}
       /\ stack[i].at # "loop" => stack[i].x # <<>>
       /\ stack[i].at = "callback" => Head(stack[i].x) \in done

\* The parts of TasksRunOnce: about q,
QueuedOnce == IsInjective(q) /\ Range(q) \cap done = {}

\* about the frames,
FramesOnce ==
  \A i \in DOMAIN stack :
    /\ IsInjective(stack[i].x)
    /\ ToRun(stack[i]) \cap (Range(q) \cup done) = {}
    /\ \A j \in DOMAIN stack \ {i} : Range(stack[i].x) \cap Range(stack[j].x) = {}

\* about the tasks that are not done, each of which is somewhere,
NoneLost ==
  \A t \in forked \ (done \cup aborted \cup Range(q)) :
    \E i \in DOMAIN stack : t \in ToRun(stack[i])

\* and about the results that cannot be read.
Readied ==
  \A t \in done \ (opened \cup aborted) :
    \E i \in DOMAIN stack : stack[i].at = "callback" /\ t = Head(stack[i].x)

IndInv ==
  TypeOK /\ CounterExact /\ Held /\ QueuedOnce /\ FramesOnce /\ NoneLost /\ Readied
-----------------------------------------------------------------------------
LEMMA InitInd == Init => IndInv
<1> SUFFICES ASSUME Init PROVE IndInv
  OBVIOUS
<1>1. DOMAIN stack = {} /\ Range(q) = {} /\ IsInjective(q)
  BY EmptyRange DEF Init
<1>2. CounterExact
  <2>1. forked \ done = {}
    BY DEF Init
  <2> QED
    BY <2>1, FS_EmptySet DEF Init, CounterExact
<1>3. TypeOK
  BY DEF Init, TypeOK
<1> QED
  BY <1>1, <1>2, <1>3 DEF Init, IndInv, Held, QueuedOnce, FramesOnce, NoneLost, Readied

\* The top frame, and the types of the others.
LEMMA FrameTypes ==
  ASSUME TypeOK
  PROVE  /\ Len(stack) \in Nat /\ DOMAIN stack = 1..Len(stack)
         /\ \A i \in DOMAIN stack : /\ stack[i] \in Frame
                                    /\ stack[i].x \in Seq(Task)
                                    /\ stack[i].at \in {"loop", "call", "callback"}
                                    /\ stack[i] = [x |-> stack[i].x, at |-> stack[i].at]
         /\ stack # <<>> => /\ Len(stack) \in DOMAIN stack
                            /\ Top = stack[Len(stack)]
<1>1. /\ Len(stack) \in Nat /\ DOMAIN stack = 1..Len(stack)
      /\ \A i \in DOMAIN stack : stack[i] \in Frame
  BY DEF TypeOK
<1>2. stack # <<>> => Top = stack[Len(stack)] /\ Len(stack) > 0
  BY StackFront DEF TypeOK, Top
<1> QED
  BY <1>1, <1>2 DEF Frame

\* A frame that replaces the top one.
LEMMA NewTop ==
  ASSUME TypeOK, stack # <<>>, NEW frame \in Frame, SetTop(frame)
  PROVE  /\ stack' \in Seq(Frame) /\ DOMAIN stack' = DOMAIN stack /\ stack' # <<>>
         /\ Len(stack') = Len(stack)
         /\ \A i \in DOMAIN stack : i # Len(stack) => stack'[i] = stack[i]
         /\ stack'[Len(stack)] = frame /\ Last(stack') = frame
<1>1. stack \in Seq(Frame)
  BY DEF TypeOK
<1>2. stack' = Append(Front(stack), frame)
  BY DEF SetTop
<1>3. Len(stack) \in Nat /\ DOMAIN stack = 1..Len(stack)
  BY <1>1
<1>4. \A i \in DOMAIN stack : i # Len(stack) => i \in 1..(Len(stack) - 1)
  BY <1>3
<1>5. /\ stack' \in Seq(Frame) /\ stack' # <<>>
      /\ Len(stack') = Len(stack)
      /\ DOMAIN stack' = 1..Len(stack)
      /\ \A i \in 1..(Len(stack) - 1) : stack'[i] = stack[i]
      /\ stack'[Len(stack)] = frame
      /\ Last(stack') = frame
  BY <1>1, <1>2, StackReplace
<1> QED
  BY <1>3, <1>4, <1>5

\* execute ends, and the script below has control.
LEMMA TopGone ==
  ASSUME TypeOK, stack # <<>>, stack' = Front(stack)
  PROVE  /\ stack' \in Seq(Frame) /\ DOMAIN stack' = DOMAIN stack \ {Len(stack)}
         /\ Len(stack') # Len(stack)
         /\ \A i \in DOMAIN stack' : stack'[i] = stack[i]
<1>1. stack \in Seq(Frame)
  BY DEF TypeOK
<1>2. /\ stack' \in Seq(Frame) /\ Len(stack') = Len(stack) - 1
      /\ DOMAIN stack' = 1..(Len(stack) - 1)
      /\ \A i \in 1..(Len(stack) - 1) : stack'[i] = stack[i]
      /\ Len(stack) \in Nat /\ DOMAIN stack = 1..Len(stack)
  BY <1>1, StackFront
<1> QED
  BY <1>2

LEMMA ForkStep ==
  ASSUME IndInv, NEW t \in Task, Fork(t)
  PROVE  IndInv'
<1>1. /\ q \in Seq(Task) /\ t \notin Range(q) /\ t \notin done
      /\ q' = Append(q, t) /\ forked' = forked \cup {t}
      /\ UNCHANGED <<stack, done, opened, aborted>>
  BY DEF IndInv, TypeOK, Held, Fork
<1>2. /\ q' \in Seq(Task) /\ Range(q') = Range(q) \cup {t}
      /\ IsInjective(q) => IsInjective(q')
  BY <1>1, AppendRange
<1>3. TypeOK'
  BY <1>1, <1>2 DEF IndInv, TypeOK, Fork
<1>4. CounterExact'
  <2>1. IsFiniteSet(forked \ done) /\ t \notin forked \ done
    <3>1. IsFiniteSet(Task) /\ forked \ done \subseteq Task
      BY SporkAssumption DEF IndInv, TypeOK
    <3> QED
      BY <3>1, FS_Subset DEF Fork
  <2>2. Cardinality((forked \ done) \cup {t}) = Cardinality(forked \ done) + 1
    BY <2>1, FS_AddElement
  <2>3. (forked \ done)' = (forked \ done) \cup {t}
    BY <1>1
  <2> QED
    BY <2>2, <2>3 DEF IndInv, CounterExact, Fork
<1>5. \A i \in DOMAIN stack : t \notin Range(stack[i].x) /\ t \notin ToRun(stack[i])
  <2> SUFFICES ASSUME NEW i \in DOMAIN stack
               PROVE  t \notin Range(stack[i].x) /\ t \notin ToRun(stack[i])
    OBVIOUS
  <2>1. t \notin Range(stack[i].x)
    BY DEF IndInv, Held, Fork
  <2>2. stack[i].x \in Seq(Task)
    BY FrameTypes DEF IndInv
  <2>3. ToRun(stack[i]) \subseteq Range(stack[i].x)
    BY <2>2, HeadRange DEF IndInv, Held, ToRun
  <2> QED
    BY <2>1, <2>3
<1>6. Held' /\ QueuedOnce'
  BY <1>1, <1>2, <1>5 DEF IndInv, Held, QueuedOnce
<1>7. FramesOnce'
  <2>1. \A i \in DOMAIN stack' : ToRun(stack'[i]) \cap (Range(q') \cup done') = {}
    <3>1. \A i \in DOMAIN stack : ToRun(stack[i]) \cap (Range(q) \cup done) = {}
      BY DEF IndInv, FramesOnce
    <3> QED
      BY <1>1, <1>2, <1>5, <3>1
  <2>2. \A i \in DOMAIN stack' :
          /\ IsInjective(stack'[i].x)
          /\ \A j \in DOMAIN stack' \ {i} : Range(stack'[i].x) \cap Range(stack'[j].x) = {}
    BY <1>1 DEF IndInv, FramesOnce
  <2> QED
    BY <2>1, <2>2 DEF FramesOnce, ToRun
<1>8. NoneLost' /\ Readied'
  BY <1>1, <1>2 DEF IndInv, NoneLost, Readied, ToRun
<1> QED
  BY <1>3, <1>4, <1>6, <1>7, <1>8 DEF IndInv

\* The tasks of q move to a frame of their own.
LEMMA ExecuteStep ==
  ASSUME IndInv, Execute
  PROVE  IndInv'
<1> DEFINE frame == [x |-> q, at |-> "loop"]
           n == Len(stack) + 1
<1>1. /\ q \in Seq(Task) /\ stack \in Seq(Frame) /\ q' = <<>>
      /\ stack' = Append(stack, frame)
      /\ UNCHANGED <<p, forked, done, opened, aborted>>
  BY DEF IndInv, TypeOK, Execute, TakeQueue
<1>2. frame \in Frame
  BY <1>1 DEF Frame
<1>3. /\ stack' \in Seq(Frame) /\ DOMAIN stack' = DOMAIN stack \cup {n} /\ n \notin DOMAIN stack
      /\ \A i \in DOMAIN stack : stack'[i] = stack[i]
      /\ stack'[n] = frame
  <2> HIDE DEF frame
  <2> QED
    BY <1>1, <1>2
<1>4. /\ frame.x = q /\ frame.at = "loop" /\ ToRun(frame) = Range(q)
  BY DEF ToRun
<1>5. Range(q') = {} /\ IsInjective(q')
  BY <1>1, EmptyRange
<1> HIDE DEF frame, n
<1>6. TypeOK' /\ CounterExact'
  BY <1>1, <1>3 DEF IndInv, TypeOK, CounterExact
<1>7. Held' /\ QueuedOnce'
  BY <1>1, <1>3, <1>4, <1>5 DEF IndInv, Held, QueuedOnce
<1>8. FramesOnce'
  <2>1. \A i \in DOMAIN stack :
          Range(stack[i].x) \cap Range(q) = {} /\ ToRun(stack[i]) \cap done = {}
    BY DEF IndInv, Held, FramesOnce
  <2>2. \A i \in DOMAIN stack' :
          /\ IsInjective(stack'[i].x)
          /\ ToRun(stack'[i]) \cap done = {}
    BY <1>3, <1>4, <2>1 DEF IndInv, FramesOnce, QueuedOnce
  <2>3. \A i \in DOMAIN stack', j \in DOMAIN stack' :
          i # j => Range(stack'[i].x) \cap Range(stack'[j].x) = {}
    BY <1>3, <1>4, <2>1 DEF IndInv, FramesOnce
  <2> QED
    BY <1>1, <1>5, <2>2, <2>3 DEF FramesOnce, ToRun
<1>9. NoneLost'
  <2> SUFFICES ASSUME NEW t \in forked \ (done \cup aborted)
               PROVE  \E i \in DOMAIN stack' : t \in ToRun(stack'[i])
    BY <1>1, <1>5 DEF NoneLost, ToRun
  <2>1. CASE t \in Range(q)
    BY <1>3, <1>4, <2>1
  <2>2. CASE t \notin Range(q)
    <3>1. PICK i \in DOMAIN stack : t \in ToRun(stack[i])
      BY <2>2 DEF IndInv, NoneLost
    <3> QED
      BY <1>3, <3>1
  <2> QED
    BY <2>1, <2>2
<1>10. Readied'
  BY <1>1, <1>3, <1>4 DEF IndInv, Readied
<1> QED
  BY <1>6, <1>7, <1>8, <1>9, <1>10 DEF IndInv

LEMMA CallStep ==
  ASSUME IndInv, Call
  PROVE  IndInv'
<1> DEFINE n == Len(stack)
           frame == [Top EXCEPT !.at = "call"]
<1>1. /\ TypeOK /\ stack # <<>> /\ n \in DOMAIN stack /\ Top = stack[n] /\ Top \in Frame
      /\ Top.at = "loop" /\ Top.x # <<>> /\ SetTop(frame)
      /\ UNCHANGED <<q, p, forked, done, opened, aborted>>
  BY FrameTypes DEF IndInv, Call
<1>2. frame \in Frame /\ frame.x = stack[n].x /\ frame.at = "call"
  BY <1>1 DEF Frame
<1>3. ToRun(frame) = ToRun(stack[n])
  BY <1>1, <1>2 DEF ToRun
<1> HIDE DEF frame
<1>4. /\ stack' \in Seq(Frame) /\ DOMAIN stack' = DOMAIN stack
      /\ \A i \in DOMAIN stack : i # n => stack'[i] = stack[i]
      /\ stack'[n] = frame
  BY <1>1, <1>2, NewTop
<1> HIDE DEF n
<1>5. \A i \in DOMAIN stack : stack'[i].x = stack[i].x /\ ToRun(stack'[i]) = ToRun(stack[i])
  BY <1>2, <1>3, <1>4
<1>6. TypeOK' /\ CounterExact'
  BY <1>1, <1>4 DEF IndInv, TypeOK, CounterExact
<1>7. Held' /\ QueuedOnce'
  BY <1>1, <1>2, <1>4 DEF IndInv, Held, QueuedOnce
<1>8. FramesOnce'
  BY <1>1, <1>4, <1>5 DEF IndInv, FramesOnce, ToRun
<1>9. NoneLost'
  BY <1>1, <1>4, <1>5 DEF IndInv, NoneLost, ToRun
<1>10. Readied'
  BY <1>1, <1>2, <1>4 DEF IndInv, Readied
<1> QED
  BY <1>6, <1>7, <1>8, <1>9, <1>10 DEF IndInv

\* The counter after the function of a task that is not done has returned.
LEMMA CountedDown ==
  ASSUME IndInv, NEW t \in forked \ done, done' = done \cup {t},
         UNCHANGED forked, CountDown
  PROVE  p' \in Nat /\ CounterExact'
<1>1. IsFiniteSet(forked \ done)
  <2>1. IsFiniteSet(Task) /\ forked \ done \subseteq Task
    BY SporkAssumption DEF IndInv, TypeOK
  <2> QED
    BY <2>1, FS_Subset
<1>2. /\ Cardinality((forked \ done) \ {t}) = Cardinality(forked \ done) - 1
      /\ IsFiniteSet((forked \ done) \ {t})
  BY <1>1, FS_RemoveElement
<1>3. (forked \ done)' = (forked \ done) \ {t}
  OBVIOUS
<1>4. Cardinality((forked \ done) \ {t}) \in Nat
  BY <1>2, FS_CardinalityType
<1> QED
  BY <1>2, <1>3, <1>4 DEF IndInv, CounterExact, CountDown

\* The facts about the top frame's first task that all steps out of a
\* function or a callback use.
LEMMA TopTask ==
  ASSUME IndInv, stack # <<>>, Top.at # "loop"
  PROVE  /\ Head(Top.x) \in Task /\ Head(Top.x) \in forked
         /\ Head(Top.x) \in Range(Top.x)
         /\ Head(Top.x) \notin Range(Tail(Top.x)) /\ Head(Top.x) \notin Range(q)
         /\ Tail(Top.x) \in Seq(Task) /\ IsInjective(Tail(Top.x))
         /\ Range(Top.x) = {Head(Top.x)} \cup Range(Tail(Top.x))
         /\ \A i \in DOMAIN stack : i # Len(stack) =>
              /\ Head(Top.x) \notin Range(stack[i].x)
              /\ Head(Top.x) \notin ToRun(stack[i])
              /\ stack[i].at = "callback" => Head(Top.x) # Head(stack[i].x)
<1> DEFINE n == Len(stack)
<1>1. /\ n \in DOMAIN stack /\ Top = stack[n]
      /\ \A i \in DOMAIN stack : stack[i].x \in Seq(Task)
  BY FrameTypes DEF IndInv
<1> HIDE DEF n
<1>2. Top.x \in Seq(Task) /\ Top.x # <<>> /\ IsInjective(Top.x)
  BY <1>1 DEF IndInv, Held, FramesOnce
<1>3. /\ Head(Top.x) \in Task
      /\ Head(Top.x) \notin Range(Tail(Top.x))
      /\ Tail(Top.x) \in Seq(Task) /\ IsInjective(Tail(Top.x))
      /\ Range(Top.x) = {Head(Top.x)} \cup Range(Tail(Top.x))
  BY <1>2, HeadRange
<1>4. Head(Top.x) \in forked /\ Head(Top.x) \notin Range(q)
  BY <1>1, <1>3 DEF IndInv, Held
<1>5. ASSUME NEW i \in DOMAIN stack, i # n
      PROVE  /\ Head(Top.x) \notin Range(stack[i].x)
             /\ Head(Top.x) \notin ToRun(stack[i])
             /\ stack[i].at = "callback" => Head(Top.x) # Head(stack[i].x)
  <2>1. Head(Top.x) \notin Range(stack[i].x)
    BY <1>1, <1>3, <1>5 DEF IndInv, FramesOnce
  <2>2. stack[i].at = "callback" =>
          Range(stack[i].x) = {Head(stack[i].x)} \cup Range(Tail(stack[i].x))
    BY <1>1, <1>5, HeadRange DEF IndInv, Held
  <2> QED
    BY <2>1, <2>2 DEF ToRun
<1> QED
  BY <1>3, <1>4, <1>5 DEF n

\* The rest of a round, r.get = ..., of a function or a callback that has
\* returned: the first task of the top frame is done and leaves it.
LEMMA Installed ==
  ASSUME IndInv, stack # <<>>, Top.at # "loop", Install(Head(Top.x)),
         done' = done \cup {Head(Top.x)}, UNCHANGED <<q, forked, aborted>>
  PROVE  stack' \in Seq(Frame) /\ Held' /\ QueuedOnce' /\ FramesOnce' /\ NoneLost' /\ Readied'
<1> DEFINE n == Len(stack)
           t == Head(Top.x)
           rest == Tail(Top.x)
           frame == [x |-> rest, at |-> "loop"]
<1>1. /\ TypeOK /\ n \in DOMAIN stack /\ Top = stack[n]
      /\ SetTop(frame) /\ opened' = opened \cup {t} /\ done' = done \cup {t}
      /\ UNCHANGED <<q, forked, aborted>>
  BY FrameTypes DEF IndInv, Install
<1>2. /\ t \in forked /\ t \notin Range(rest) /\ t \notin Range(q)
      /\ rest \in Seq(Task) /\ IsInjective(rest) /\ Range(Top.x) = {t} \cup Range(rest)
      /\ \A i \in DOMAIN stack : i # n =>
           /\ t \notin Range(stack[i].x) /\ t \notin ToRun(stack[i])
           /\ stack[i].at = "callback" => t # Head(stack[i].x)
  BY TopTask
<1>3. frame \in Frame /\ frame.x = rest /\ frame.at = "loop" /\ ToRun(frame) = Range(rest)
  BY <1>2 DEF Frame, ToRun
<1>4. /\ ToRun(stack[n]) \subseteq {t} \cup Range(rest)
      /\ Range(rest) \subseteq ToRun(stack[n])
      /\ stack[n].at = "callback" => Head(stack[n].x) = t
  BY <1>1, <1>2 DEF ToRun
<1> HIDE DEF frame, rest, t
<1>5. /\ stack' \in Seq(Frame) /\ DOMAIN stack' = DOMAIN stack
      /\ \A i \in DOMAIN stack : i # n => stack'[i] = stack[i]
      /\ stack'[n] = frame
  BY <1>1, <1>3, NewTop
<1> HIDE DEF n
<1>6. Held'
  BY <1>1, <1>2, <1>3, <1>5 DEF IndInv, Held
<1>7. QueuedOnce'
  BY <1>1, <1>2 DEF IndInv, QueuedOnce
<1>8. FramesOnce'
  <2>1. \A i \in DOMAIN stack' :
          /\ IsInjective(stack'[i].x)
          /\ ToRun(stack'[i]) \cap Range(q) = {}
          /\ ToRun(stack'[i]) \cap done = {}
    BY <1>2, <1>3, <1>4, <1>5 DEF IndInv, FramesOnce
  <2>2. \A i \in DOMAIN stack' : t \notin ToRun(stack'[i])
    BY <1>2, <1>3, <1>5
  <2>3. \A i \in DOMAIN stack', j \in DOMAIN stack' :
          i # j => Range(stack'[i].x) \cap Range(stack'[j].x) = {}
    <3>1. \A i \in DOMAIN stack : Range(stack'[i].x) \subseteq Range(stack[i].x)
      BY <1>1, <1>2, <1>3, <1>5
    <3> QED
      BY <1>5, <3>1 DEF IndInv, FramesOnce
  <2> QED
    BY <1>1, <2>1, <2>2, <2>3 DEF FramesOnce, ToRun
<1>9. NoneLost'
  <2> SUFFICES ASSUME NEW u \in forked \ (done \cup aborted \cup Range(q)), u # t
               PROVE  \E i \in DOMAIN stack' : u \in ToRun(stack'[i])
    BY <1>1 DEF NoneLost, ToRun
  <2>1. PICK i \in DOMAIN stack : u \in ToRun(stack[i])
    BY DEF IndInv, NoneLost
  <2> QED
    BY <1>3, <1>4, <1>5, <2>1
<1>10. Readied'
  <2> SUFFICES ASSUME NEW u \in done \ (opened \cup aborted), u # t
               PROVE  \E i \in DOMAIN stack' : stack'[i].at = "callback" /\ u = Head(stack'[i].x)
    BY <1>1 DEF Readied
  <2>1. PICK i \in DOMAIN stack : stack[i].at = "callback" /\ u = Head(stack[i].x)
    BY DEF IndInv, Readied
  <2> QED
    BY <1>4, <1>5, <2>1
<1> QED
  BY <1>5, <1>6, <1>7, <1>8, <1>9, <1>10

\* The callback is called: the first task is done, but stays with the frame.
LEMMA CalledBack ==
  ASSUME IndInv, stack # <<>>, Top.at = "call", SetTop([Top EXCEPT !.at = "callback"]),
         done' = done \cup {Head(Top.x)}, UNCHANGED <<q, forked, opened, aborted>>
  PROVE  stack' \in Seq(Frame) /\ Held' /\ QueuedOnce' /\ FramesOnce' /\ NoneLost' /\ Readied'
<1> DEFINE n == Len(stack)
           t == Head(Top.x)
           rest == Tail(Top.x)
           frame == [Top EXCEPT !.at = "callback"]
<1>1. /\ TypeOK /\ n \in DOMAIN stack /\ Top = stack[n] /\ Top \in Frame /\ Top.x # <<>>
      /\ SetTop(frame) /\ done' = done \cup {t}
      /\ UNCHANGED <<q, forked, opened, aborted>>
  BY FrameTypes DEF IndInv, Held
<1>2. /\ t \in forked /\ t \notin Range(rest) /\ t \notin Range(q)
      /\ Range(Top.x) = {t} \cup Range(rest)
      /\ \A i \in DOMAIN stack : i # n =>
           /\ t \notin Range(stack[i].x) /\ t \notin ToRun(stack[i])
           /\ stack[i].at = "callback" => t # Head(stack[i].x)
  BY TopTask
<1>3. /\ frame \in Frame /\ frame.x = stack[n].x /\ frame.at = "callback"
      /\ Head(frame.x) = t
      /\ ToRun(frame) = Range(rest)
  BY <1>1 DEF Frame, ToRun
<1>4. ToRun(stack[n]) = {t} \cup Range(rest) /\ stack[n].at # "callback"
  BY <1>1, <1>2 DEF ToRun
<1> HIDE DEF frame, rest, t
<1>5. /\ stack' \in Seq(Frame) /\ DOMAIN stack' = DOMAIN stack
      /\ \A i \in DOMAIN stack : i # n => stack'[i] = stack[i]
      /\ stack'[n] = frame
  BY <1>1, <1>3, NewTop
<1> HIDE DEF n
<1>6. Held'
  BY <1>1, <1>2, <1>3, <1>5 DEF IndInv, Held
<1>7. QueuedOnce'
  BY <1>1, <1>2 DEF IndInv, QueuedOnce
<1>8. FramesOnce'
  <2>1. \A i \in DOMAIN stack' :
          /\ IsInjective(stack'[i].x)
          /\ ToRun(stack'[i]) \cap Range(q) = {}
          /\ ToRun(stack'[i]) \cap done = {}
    BY <1>1, <1>2, <1>3, <1>4, <1>5 DEF IndInv, FramesOnce
  <2>2. \A i \in DOMAIN stack' : t \notin ToRun(stack'[i])
    BY <1>2, <1>3, <1>5
  <2>3. \A i \in DOMAIN stack', j \in DOMAIN stack' :
          i # j => Range(stack'[i].x) \cap Range(stack'[j].x) = {}
    BY ZenonT(60), <1>1, <1>3, <1>5 DEF IndInv, FramesOnce
  <2> QED
    BY <1>1, <2>1, <2>2, <2>3 DEF FramesOnce, ToRun
<1>9. NoneLost'
  <2> SUFFICES ASSUME NEW u \in forked \ (done \cup aborted \cup Range(q)), u # t
               PROVE  \E i \in DOMAIN stack' : u \in ToRun(stack'[i])
    BY <1>1 DEF NoneLost, ToRun
  <2>1. PICK i \in DOMAIN stack : u \in ToRun(stack[i])
    BY DEF IndInv, NoneLost
  <2> QED
    BY <1>3, <1>4, <1>5, <2>1
<1>10. Readied'
  <2> SUFFICES ASSUME NEW u \in (done \cup {t}) \ (opened \cup aborted)
               PROVE  \E i \in DOMAIN stack' : stack'[i].at = "callback" /\ u = Head(stack'[i].x)
    BY <1>1 DEF Readied
  <2>1. CASE u = t
    BY <1>1, <1>3, <1>5, <2>1
  <2>2. CASE u # t
    <3>1. PICK i \in DOMAIN stack : stack[i].at = "callback" /\ u = Head(stack[i].x)
      BY <2>2 DEF IndInv, Readied
    <3> QED
      BY <1>4, <1>5, <3>1
  <2> QED
    BY <2>1, <2>2
<1> QED
  BY <1>5, <1>6, <1>7, <1>8, <1>9, <1>10

LEMMA FunctionReturnsStep ==
  ASSUME IndInv, FunctionReturns
  PROVE  IndInv'
<1> DEFINE t == Head(Top.x)
<1>1. /\ stack # <<>> /\ Top.at = "call" /\ Top.at # "loop"
      /\ done' = done \cup {t} /\ CountDown
      /\ UNCHANGED <<q, forked, aborted>>
      /\ \/ SetTop([Top EXCEPT !.at = "callback"]) /\ UNCHANGED opened
         \/ Install(t)
  BY DEF FunctionReturns
<1>2. t \in forked \ done
  <2>1. Len(stack) \in DOMAIN stack /\ Top = stack[Len(stack)]
    BY <1>1, FrameTypes DEF IndInv
  <2>2. ToRun(Top) = Range(Top.x)
    BY <1>1 DEF ToRun
  <2> QED
    BY <1>1, <2>1, <2>2, TopTask DEF IndInv, FramesOnce
<1>3. p' \in Nat /\ CounterExact'
  BY <1>1, <1>2, CountedDown
<1>4. stack' \in Seq(Frame) /\ Held' /\ QueuedOnce' /\ FramesOnce' /\ NoneLost' /\ Readied'
  BY <1>1, CalledBack, Installed
<1>5. opened' \subseteq done'
  BY <1>1 DEF IndInv, TypeOK, Install
<1>6. TypeOK'
  BY <1>1, <1>2, <1>3, <1>4, <1>5 DEF IndInv, TypeOK
<1> QED
  BY <1>3, <1>4, <1>6 DEF IndInv

LEMMA CallbackReturnsStep ==
  ASSUME IndInv, CallbackReturns
  PROVE  IndInv'
<1>1. /\ stack # <<>> /\ Top.at = "callback" /\ Top.at # "loop" /\ Install(Head(Top.x))
      /\ UNCHANGED <<q, p, forked, done, aborted>>
      /\ opened' = opened \cup {Head(Top.x)}
  BY DEF CallbackReturns, Install
<1>2. Head(Top.x) \in done
  <2>1. Len(stack) \in DOMAIN stack /\ Top = stack[Len(stack)]
    BY <1>1, FrameTypes DEF IndInv
  <2> QED
    BY <1>1, <2>1 DEF IndInv, Held
<1>3. done' = done \cup {Head(Top.x)}
  BY <1>1, <1>2
<1>4. stack' \in Seq(Frame) /\ Held' /\ QueuedOnce' /\ FramesOnce' /\ NoneLost' /\ Readied'
  BY <1>1, <1>3, Installed
<1>5. TypeOK' /\ CounterExact'
  BY <1>1, <1>2, <1>4 DEF IndInv, TypeOK, CounterExact
<1> QED
  BY <1>4, <1>5 DEF IndInv

\* The frames that stay keep their tasks.
LEMMA FramesStay ==
  ASSUME FramesOnce, UNCHANGED <<q, done>>, DOMAIN stack' \subseteq DOMAIN stack,
         \A i \in DOMAIN stack' : stack'[i] = stack[i]
  PROVE  FramesOnce'
<1>1. \A i \in DOMAIN stack' :
        /\ IsInjective(stack'[i].x)
        /\ ToRun(stack'[i]) \cap (Range(q) \cup done) = {}
        /\ \A j \in DOMAIN stack' \ {i} : Range(stack'[i].x) \cap Range(stack'[j].x) = {}
  BY DEF FramesOnce
<1> QED
  BY <1>1 DEF FramesOnce, ToRun

LEMMA LeaveStep ==
  ASSUME IndInv, Leave
  PROVE  IndInv'
<1> DEFINE n == Len(stack)
<1>1. /\ TypeOK /\ stack # <<>> /\ n \in DOMAIN stack /\ Top = stack[n]
      /\ stack' = Front(stack) /\ Top.at = "loop" /\ Top.x = <<>>
      /\ UNCHANGED <<q, p, forked, done, opened, aborted>>
  BY FrameTypes DEF IndInv, Leave
<1>2. /\ stack' \in Seq(Frame) /\ DOMAIN stack' = DOMAIN stack \ {n}
      /\ \A i \in DOMAIN stack' : stack'[i] = stack[i]
  BY <1>1, TopGone
<1>3. ToRun(stack[n]) = {} /\ stack[n].at # "callback"
  BY <1>1, EmptyRange DEF ToRun
<1> HIDE DEF n
<1>4. TypeOK' /\ CounterExact'
  BY <1>1, <1>2 DEF IndInv, TypeOK, CounterExact
<1>5. Held' /\ QueuedOnce'
  BY <1>1, <1>2 DEF IndInv, Held, QueuedOnce
<1>6. FramesOnce'
  BY <1>1, <1>2, FramesStay DEF IndInv
<1>7. NoneLost'
  <2> SUFFICES ASSUME NEW u \in forked \ (done \cup aborted \cup Range(q))
               PROVE  \E i \in DOMAIN stack' : u \in ToRun(stack'[i])
    BY <1>1 DEF NoneLost, ToRun
  <2>1. PICK i \in DOMAIN stack : u \in ToRun(stack[i])
    BY DEF IndInv, NoneLost
  <2> QED
    BY <1>2, <1>3, <2>1
<1>8. Readied'
  <2> SUFFICES ASSUME NEW u \in done \ (opened \cup aborted)
               PROVE  \E i \in DOMAIN stack' : stack'[i].at = "callback" /\ u = Head(stack'[i].x)
    BY <1>1 DEF Readied
  <2>1. PICK i \in DOMAIN stack : stack[i].at = "callback" /\ u = Head(stack[i].x)
    BY DEF IndInv, Readied
  <2> QED
    BY <1>2, <1>3, <2>1
<1> QED
  BY <1>4, <1>5, <1>6, <1>7, <1>8 DEF IndInv

\* What an exception leaves behind is what the lost frame held.
LEMMA ThrowStep ==
  ASSUME IndInv, Throw
  PROVE  IndInv'
<1> DEFINE n == Len(stack)
<1>1. /\ TypeOK /\ stack # <<>> /\ n \in DOMAIN stack /\ Top = stack[n] /\ Top.at # "loop"
      /\ stack' = Front(stack)
      /\ aborted' = aborted \cup Range(stack[n].x)
      /\ UNCHANGED <<q, p, forked, done, opened>>
  BY FrameTypes DEF IndInv, Throw
<1>2. /\ stack' \in Seq(Frame) /\ DOMAIN stack' = DOMAIN stack \ {n}
      /\ \A i \in DOMAIN stack' : stack'[i] = stack[i]
  BY <1>1, TopGone
<1>3. /\ ToRun(stack[n]) \subseteq Range(stack[n].x)
      /\ Head(stack[n].x) \in Range(stack[n].x)
      /\ Range(stack[n].x) \subseteq forked
  BY <1>1, TopTask DEF ToRun, IndInv, Held
<1> HIDE DEF n
<1>4. TypeOK' /\ CounterExact'
  BY <1>1, <1>2, <1>3 DEF IndInv, TypeOK, CounterExact
<1>5. Held' /\ QueuedOnce'
  BY <1>1, <1>2 DEF IndInv, Held, QueuedOnce
<1>6. FramesOnce'
  BY <1>1, <1>2, FramesStay DEF IndInv
<1>7. NoneLost'
  <2> SUFFICES ASSUME NEW u \in forked \ (done \cup aborted \cup Range(q)),
                      u \notin Range(stack[n].x)
               PROVE  \E i \in DOMAIN stack' : u \in ToRun(stack'[i])
    BY <1>1 DEF NoneLost, ToRun
  <2>1. PICK i \in DOMAIN stack : u \in ToRun(stack[i])
    BY DEF IndInv, NoneLost
  <2> QED
    BY <1>2, <1>3, <2>1
<1>8. Readied'
  <2> SUFFICES ASSUME NEW u \in done \ (opened \cup aborted), u \notin Range(stack[n].x)
               PROVE  \E i \in DOMAIN stack' : stack'[i].at = "callback" /\ u = Head(stack'[i].x)
    BY <1>1 DEF Readied
  <2>1. PICK i \in DOMAIN stack : stack[i].at = "callback" /\ u = Head(stack[i].x)
    BY DEF IndInv, Readied
  <2> QED
    BY <1>2, <1>3, <2>1
<1> QED
  BY <1>4, <1>5, <1>6, <1>7, <1>8 DEF IndInv

LEMMA StepInd == IndInv /\ [Next]_vars => IndInv'
<1> SUFFICES ASSUME IndInv, [Next]_vars PROVE IndInv'
  OBVIOUS
<1>1. ASSUME NEW t \in Task, Fork(t) PROVE IndInv'
  BY <1>1, ForkStep
<1>2. CASE Execute
  BY <1>2, ExecuteStep
<1>3. CASE Call
  BY <1>3, CallStep
<1>4. CASE FunctionReturns
  BY <1>4, FunctionReturnsStep
<1>5. CASE CallbackReturns
  BY <1>5, CallbackReturnsStep
<1>6. CASE Leave
  BY <1>6, LeaveStep
<1>7. CASE Throw
  BY <1>7, ThrowStep
<1>8. CASE UNCHANGED vars
  BY <1>8 DEF vars, IndInv, TypeOK, CounterExact, Held, QueuedOnce, FramesOnce, NoneLost,
              Readied, ToRun
<1> QED
  BY <1>1, <1>2, <1>3, <1>4, <1>5, <1>6, <1>7, <1>8 DEF Next

\* The inductive invariant holds in every state of the interpreter.
THEOREM Invariant == Spec => []IndInv
  BY InitInd, StepInd, PTL DEF Spec
-----------------------------------------------------------------------------
\* The counter never goes below 0, and what is done or left behind was forked.
THEOREM TypeCorrect == Spec => []TypeOK
<1>1. IndInv => TypeOK
  BY DEF IndInv
<1> QED
  BY <1>1, Invariant, PTL

\* The counter is the number of forked functions that have not returned,
\* whatever they, the callback and the shell's script do.
THEOREM CountsExactly == Spec => []CounterExact
<1>1. IndInv => CounterExact
  BY DEF IndInv
<1> QED
  BY <1>1, Invariant, PTL

\* No task runs twice and none is lost other than by an exception.
THEOREM RunOnce == Spec => []TasksRunOnce
<1>1. IndInv => TasksRunOnce
  <2> SUFFICES ASSUME IndInv PROVE TasksRunOnce
    OBVIOUS
  <2>1. forked \ (done \cup aborted \cup Range(q))
          \subseteq UNION {ToRun(stack[i]) : i \in DOMAIN stack}
    BY DEF IndInv, NoneLost
  <2>2. done \ (opened \cup aborted)
          \subseteq {Head(stack[i].x) : i \in {j \in DOMAIN stack : stack[j].at = "callback"}}
    BY DEF IndInv, Readied
  <2> QED
    BY <2>1, <2>2 DEF IndInv, TasksRunOnce, QueuedOnce, FramesOnce
<1> QED
  BY <1>1, Invariant, PTL

\* When the callback is called, the counter has reached 0, and it is exact.
THEOREM CallsBackAfterAll == Spec => CallbackAfterAll
<1>1. IndInv /\ IndInv' /\ [Next]_vars
        => [CallbackStarts => forked' \subseteq done']_vars
  <2> SUFFICES ASSUME IndInv, IndInv', Next, CallbackStarts
               PROVE  forked' \subseteq done'
    BY DEF vars, CallbackStarts
  <2>1. /\ stack # <<>> /\ Top.at = "call" /\ Len(stack') = Len(stack)
        /\ Last(stack').at = "callback"
    BY DEF CallbackStarts
  <2>2. ASSUME NEW t \in Task, Fork(t) PROVE FALSE
    BY <2>1, <2>2 DEF Fork, Top
  <2>3. ASSUME Execute PROVE FALSE
    BY <2>1, <2>3 DEF Execute, TakeQueue, IndInv, TypeOK
  <2>4. ASSUME Leave \/ Throw PROVE FALSE
    BY <2>1, <2>4, TopGone DEF Leave, Throw, IndInv
  <2>5. FunctionReturns
    BY <2>1, <2>2, <2>3, <2>4 DEF Next, Call, CallbackReturns
  <2>6. ~Install(Head(Top.x))
    <3> SUFFICES ASSUME Install(Head(Top.x)) PROVE FALSE
      OBVIOUS
    <3>1. [x |-> Tail(Top.x), at |-> "loop"] \in Frame
      BY <2>1, TopTask DEF Frame
    <3>2. Last(stack').at = "loop"
      BY <2>1, <3>1, NewTop DEF Install, IndInv
    <3> QED
      BY <2>1, <3>2
  <2>7. p' = 0
    BY <2>5, <2>6 DEF FunctionReturns, Joined
  <2>8. IsFiniteSet((forked \ done)')
    <3>1. IsFiniteSet(Task) /\ (forked \ done)' \subseteq Task
      BY SporkAssumption DEF IndInv, TypeOK
    <3> QED
      BY <3>1, FS_Subset
  <2>9. Cardinality((forked \ done)') = 0
    BY <2>7 DEF IndInv, CounterExact
  <2>10. (forked \ done)' = {}
    BY <2>8, <2>9, FS_EmptySet
  <2> QED
    BY <2>10
<1> QED
  BY <1>1, Invariant, PTL DEF Spec, CallbackAfterAll
=============================================================================
