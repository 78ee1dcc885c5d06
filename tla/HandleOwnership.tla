-------------------------- MODULE HandleOwnership --------------------------
(* What the headers promise of a handle of the C libraries: it lives from  *)
(* the moment an object obtains it until the one object that holds it      *)
(* releases it; in between it may move from object to object ("only one    *)
(* object may own the handle").  No handle is lost, none is released twice.*)
EXTENDS TLAPS

CONSTANTS
    Holders, \* the C++ objects
    Handles, \* what they hold
    None     \* the value of a member that holds nothing

VARIABLES
    holds,   \* Holders -> Handles or None
    live     \* the handles the library has allocated

vars == <<holds, live>>

Init ==
    /\ holds = [o \in Holders |-> None]
    /\ live = {}

(* An object without a handle obtains a new one.                           *)
Obtain(o, h) ==
    /\ holds[o] = None /\ h \notin live
    /\ holds' = [holds EXCEPT ![o] = h]
    /\ live' = live \union {h}

(* The holder frees its handle and forgets it.                             *)
Release(o) ==
    /\ holds[o] # None
    /\ live' = live \ {holds[o]}
    /\ holds' = [holds EXCEPT ![o] = None]

(* A copy or an assignment moves the handle and frees the target's.        *)
Move(src, o) ==
    /\ o # src
    /\ live' = live \ {holds[o]}
    /\ holds' = [holds EXCEPT ![o] = holds[src], ![src] = None]

Next ==
    \E o \in Holders :
        \/ \E h \in Handles : Obtain(o, h)
        \/ Release(o)
        \/ \E src \in Holders : Move(src, o)

Spec == Init /\ [][Next]_vars

-----------------------------------------------------------------------------
(* Exactly the handles that some object holds are live, and no handle has  *)
(* two holders.                                                            *)
Exclusive ==
    /\ holds \in [Holders -> Handles \union {None}]
    /\ live = {holds[o] : o \in Holders} \ {None}
    /\ \A o, p \in Holders : o # p /\ holds[o] # None => holds[o] # holds[p]

THEOREM InitExclusive == Init => Exclusive
BY DEF Init, Exclusive

(* Obtaining, releasing and moving keep the handles exclusive.             *)
THEOREM StepExclusive ==
    ASSUME None \notin Handles, Exclusive, [Next]_vars
    PROVE  Exclusive'
PROOF
<1> USE DEF Exclusive
<1>1. ASSUME NEW o \in Holders, NEW h \in Handles, Obtain(o, h)
      PROVE  Exclusive'
  BY <1>1 DEF Obtain
<1>2. ASSUME NEW o \in Holders, Release(o) PROVE Exclusive'
  BY <1>2 DEF Release
<1>3. ASSUME NEW o \in Holders, NEW src \in Holders, Move(src, o)
      PROVE  Exclusive'
  BY <1>3 DEF Move
<1>4. CASE UNCHANGED vars BY <1>4 DEF vars
<1> QED BY <1>1, <1>2, <1>3, <1>4 DEF Next

(* In every behaviour: no handle is lost, and none is released twice.      *)
THEOREM AlwaysExclusive ==
    ASSUME None \notin Handles
    PROVE  Spec => []Exclusive
PROOF
<1>1. Exclusive /\ [Next]_vars => Exclusive'
  BY StepExclusive
<1> QED BY <1>1, InitExclusive, PTL DEF Spec
=============================================================================
