------------------------------ MODULE Membrane ------------------------------
(***************************************************************************)
(* The membrane of ndm/src/membrane.cpp: before a child task is called,    *)
(* Closure::execute (pjs.cpp) passes each argument through wrap, which     *)
(* replaces objects of the parent by proxies in the child's compartment,   *)
(* one proxy per object, with the prototype chain mirrored, and strings by *)
(* copies.  wrap calls itself for the prototype before it creates the      *)
(* wrapper: every call, every return and every failure, of the stack or of *)
(* memory, is an action.  The garbage collector is left out: wrappers live *)
(* as long as the map.  So is what comes before the first argument.        *)
(***************************************************************************)
EXTENDS Naturals, SequencesExt

CONSTANTS
  Object,   \* the objects of the parent that can be reached
  String,   \* its strings that are not atoms
  Other,    \* atoms and values that are not garbage collected
  MaxArgs,  \* bounds the arguments of a closure
  Null      \* a null pointer; no entry

ASSUME MembraneAssumption ==
  /\ IsFiniteSet(Object)
  /\ Object \cap String = {} /\ (Object \cup String) \cap Other = {}
  /\ Null \notin Object \cup String \cup Other
  /\ \A v \in Object \cup String \cup Other \cup {Null} : v \notin Nat
  /\ MaxArgs \in Nat

Value == Object \cup String \cup Other

VARIABLES
  proto,  \* proto[o]: the prototype of an object of the parent
  field,  \* what _childCompartment, which no one assigns, contains
  map,    \* _map: the cell for a value, or Null
  cells,  \* what wrap has created, in order: cells are known by position
  args,   \* the arguments taken so far, with the one that is being wrapped
  argv,   \* what they were replaced by
  pc,     \* where Closure::execute is: see Location
  calls,  \* the calls of wrap that wait for their prototype's: obj of each
  value   \* *vp of the innermost call, or what it has returned there

vars == <<proto, field, map, cells, args, argv, pc, calls, value>>

Location ==
  { "loop",     \* between two arguments
    "call",     \* wrap is called
    "return",   \* it returns true
    "raise",    \* it returns false
    "called",   \* the function has been called
    "failed",   \* Closure::execute has returned JS_FALSE
    "crashed" } \* a null pointer was dereferenced

Cell == [of : Object \cup String, proto : Nat \cup {Null}]

TypeOK ==
  /\ proto \in [Object -> Object \cup {Null}]
  /\ field \in {"parent", "child", "neither"}
  /\ map \in [Object \cup String -> DOMAIN cells \cup {Null}]
  /\ cells \in Seq(Cell)
  /\ args \in Seq(Value)
  /\ argv \in Seq(Value \cup DOMAIN cells)
  /\ pc \in Location
  /\ Len(args) = Len(argv) + (IF pc \in {"loop", "called"} THEN 0 ELSE 1)
  /\ calls \in Seq(Object)
  /\ calls # <<>> => pc \in {"call", "return", "raise", "crashed"}
  /\ value \in Value \cup DOMAIN cells \cup {Null}
  /\ pc = "call" => value \in Value

\* Prototype chains end: no set of objects holds all its members' prototypes.
ChainsEnd ==
  \A S \in SUBSET Object : (\A o \in S : proto[o] \in S) => S = {}

\* field is indeterminate: the constructor does not initialise
\* _childCompartment.
Init ==
  /\ proto \in [Object -> Object \cup {Null}] /\ ChainsEnd
  /\ field \in {"parent", "child", "neither"}
  /\ map = [v \in Object \cup String |-> Null]
  /\ cells = <<>> /\ args = <<>> /\ argv = <<>>
  /\ pc = "loop" /\ calls = <<>> /\ value = Null
-----------------------------------------------------------------------------
(***************************************************************************)
(* The loop of Closure::execute.                                           *)
(***************************************************************************)
Argument ==
  /\ pc = "loop" /\ Len(args) < MaxArgs
  /\ \E v \in Value :
       /\ args' = Append(args, v)
       /\ value' = v
  /\ pc' = "call"
  /\ UNCHANGED <<proto, field, map, cells, argv, calls>>

EndArgument ==
  /\ pc = "return" /\ calls = <<>>
  /\ argv' = Append(argv, value)
  /\ value' = Null
  /\ pc' = "loop"
  /\ UNCHANGED <<proto, field, map, cells, args, calls>>

\* JS_CallFunctionValue with the wrapped arguments.
CallFunction ==
  /\ pc = "loop"
  /\ pc' = "called"
  /\ UNCHANGED <<proto, field, map, cells, args, argv, calls, value>>
-----------------------------------------------------------------------------
(***************************************************************************)
(* wrap, of a value.                                                       *)
(***************************************************************************)
\* JS_CHECK_RECURSION fails, at any depth; or the characters of a string
\* cannot be had or copied.
Fail ==
  /\ pc = "call"
  /\ pc' = "raise"
  /\ value' = Null
  /\ UNCHANGED <<proto, field, map, cells, args, argv, calls>>

\* There is nothing to wrap: the value is no object or uncopied string, or its
\* compartment is the one in the field.
Passes(v) == v \in Other \/ field = "parent"

Pass ==
  /\ pc = "call"
  /\ Passes(value)
  /\ pc' = "return"
  /\ UNCHANGED <<proto, field, map, cells, args, argv, calls, value>>

\* The value has a wrapper already, whose parent is _childGlobal.
Found ==
  /\ pc = "call"
  /\ ~Passes(value) /\ map[value] # Null
  /\ value' = map[value]
  /\ pc' = "return"
  /\ UNCHANGED <<proto, field, map, cells, args, argv, calls>>

CreateUncached(v, p) ==  \* mutant: the wrapper is not put into the map
  /\ cells' = Append(cells, [of |-> v, proto |-> p])
  /\ value' = Len(cells) + 1 /\ pc' = "return"
  /\ UNCHANGED map

CreateReserves(v, p) ==  \* mutant: the entry is made first, and creation fails
  /\ map' = [map EXCEPT ![v] = Len(cells) + 1]
  /\ \/ /\ cells' = Append(cells, [of |-> v, proto |-> p])
        /\ value' = Len(cells) + 1 /\ pc' = "return"
     \/ /\ value' = Null /\ pc' = "raise"
        /\ UNCHANGED cells

\* The wrapper, or copy, of v is created, and put into _map; put may fail.
Create(v, p) ==
  /\ cells' = Append(cells, [of |-> v, proto |-> p])
  /\ \/ /\ map' = [map EXCEPT ![v] = Len(cells) + 1]
        /\ value' = Len(cells) + 1 /\ pc' = "return"
     \/ /\ value' = Null /\ pc' = "raise"
        /\ UNCHANGED map

Copy ==
  /\ pc = "call"
  /\ value \in String /\ ~Passes(value) /\ map[value] = Null
  /\ Create(value, Null)
  /\ UNCHANGED <<proto, field, args, argv, calls>>

RecurseEarly ==  \* mutant: the entry is made before the recursion
  /\ pc = "call"
  /\ value \in Object /\ ~Passes(value) /\ map[value] = Null
  /\ cells' = Append(cells, [of |-> value, proto |-> Null])
  /\ map' = [map EXCEPT ![value] = Len(cells) + 1]
  /\ calls' = Append(calls, value)
  /\ value' = proto[value]
  /\ pc' = IF proto[value] = Null THEN "return" ELSE "call"
  /\ UNCHANGED <<proto, field, args, argv>>

\* wrap(&proto), which returns at once when there is no prototype.
Recurse ==
  /\ pc = "call"
  /\ value \in Object /\ ~Passes(value) /\ map[value] = Null
  /\ calls' = Append(calls, value)
  /\ value' = proto[value]
  /\ pc' = IF proto[value] = Null THEN "return" ELSE "call"
  /\ UNCHANGED <<proto, field, map, cells, args, argv>>

WrapWithoutProto ==  \* mutant: New is given no prototype
  /\ pc = "return" /\ calls # <<>>
  /\ Create(Last(calls), Null)
  /\ calls' = Front(calls)
  /\ UNCHANGED <<proto, field, args, argv>>

\* The prototype has been wrapped: the wrapper follows.
Wrap ==
  /\ pc = "return" /\ calls # <<>>
  /\ Create(Last(calls), value)
  /\ calls' = Front(calls)
  /\ UNCHANGED <<proto, field, args, argv>>

\* New returns null, which nobody tests.
NoWrapper ==
  /\ pc = "return" /\ calls # <<>>
  /\ pc' = "crashed"
  /\ UNCHANGED <<proto, field, map, cells, args, argv, calls, value>>

RaiseIgnored ==  \* mutant: the result of wrap(&proto) is not tested
  /\ pc = "raise"
  /\ IF calls = <<>> THEN pc' = "failed" ELSE pc' = "return"
  /\ UNCHANGED <<proto, field, map, cells, args, argv, calls, value>>

\* if (!wrap(&proto)) return false; and so does Closure::execute.
Raise ==
  /\ pc = "raise"
  /\ IF calls = <<>> THEN pc' = "failed" /\ UNCHANGED calls
     ELSE calls' = Front(calls) /\ UNCHANGED pc
  /\ UNCHANGED <<proto, field, map, cells, args, argv, value>>
-----------------------------------------------------------------------------
Next ==
  \/ Argument \/ EndArgument \/ CallFunction
  \/ Fail \/ Pass \/ Found \/ Copy \/ Recurse \/ Wrap \/ NoWrapper \/ Raise

Spec == Init /\ [][Next]_vars
-----------------------------------------------------------------------------
\* Whether a cell has been created that could not be put into the map.
Unlisted(i) == pc \in {"raise", "failed"} /\ i = Len(cells)

\* The map holds exactly what was created, under the value it stands for: a
\* value is never wrapped twice, whether it is an argument itself or is met
\* as a prototype of another one; so that two arguments are the same for the
\* child exactly when they are the same for the parent.
OneWrapperEach ==
  /\ \A i \in DOMAIN cells : map[cells[i].of] = i \/ Unlisted(i)
  /\ \A v \in DOMAIN map : map[v] # Null => cells[map[v]].of = v
  /\ \A i, j \in DOMAIN argv : args[i] = args[j] <=> argv[i] = argv[j]

\* The prototype of a wrapper is the wrapper of the prototype, all the way
\* up: `instanceof` answers the same on both sides, in whatever order
\* arguments that share prototypes are wrapped.
ChainsMirrored ==
  \A i \in DOMAIN cells :
    LET o == cells[i].of
        p == IF o \in Object THEN proto[o] ELSE Null
    IN cells[i].proto = IF p = Null THEN Null ELSE map[p]

\* "helps avoid leaving a bad entry in the cache on OOM": outside wrap, and
\* when it has failed at any depth, the map holds whole chains only, although
\* a failure undoes nothing of what the inner calls have put there.
NoBadEntry ==
  pc \notin {"call", "return"} =>
    \A o \in Object :
      map[o] # Null =>
        /\ cells[map[o]].of = o
        /\ proto[o] # Null => /\ map[proto[o]] # Null
                              /\ cells[map[o]].proto = map[proto[o]]

\* The comment of wrap in membrane.h: an object of the parent becomes a
\* proxy in the child's compartment.  The code violates it when the
\* indeterminate field happens to name the parent's compartment.
ObjectsBecomeProxies ==
  \A i \in DOMAIN argv : args[i] \in Object => argv[i] \in DOMAIN cells
=============================================================================
