---------------------------- MODULE UnitOfWork -----------------------------
(* What the transactions of a session promise to its program: of the       *)
(* updates between the start and the end of a unit of work, the database   *)
(* keeps all or none, and none before the end.  Nothing is said of the     *)
(* connection, the server or failures.  A program that breaks the rules    *)
(* abandons the promise.                                                   *)
EXTENDS Naturals

CONSTANT Sessions

VARIABLES
    phase, \* "idle", "working", or "abandoned"
    done,  \* updates that were carried out in the last unit of work
    kept   \* how many of them are in the database for good

vars == <<phase, done, kept>>

Init ==
    /\ phase = [s \in Sessions |-> "idle"]
    /\ done = [s \in Sessions |-> 0]
    /\ kept = [s \in Sessions |-> 0]

Set(s, p, d, k) ==
    /\ phase' = [phase EXCEPT ![s] = p]
    /\ done' = [done EXCEPT ![s] = d]
    /\ kept' = [kept EXCEPT ![s] = k]

Begin(s) ==
    /\ phase[s] = "idle"
    /\ Set(s, "working", 0, 0)

Update(s) ==
    /\ phase[s] = "working"
    /\ Set(s, "working", done[s] + 1, kept[s])

End(s) ==
    /\ phase[s] = "working"
    /\ \E k \in {0, done[s]} : Set(s, "idle", done[s], k)

Abandon(s) ==
    /\ phase[s] # "abandoned"
    /\ Set(s, "abandoned", 0, 0)

(* The session object goes out of scope, and another one takes its place.  *)
Renew(s) ==
    Set(s, "idle", 0, 0)

Next == \E s \in Sessions :
    Begin(s) \/ Update(s) \/ End(s) \/ Abandon(s) \/ Renew(s)

Spec == Init /\ [][Next]_vars

(* Nothing of a unit of work is in the database before its end, and then   *)
(* all or nothing.                                                         *)
Whole ==
    \A s \in Sessions :
        /\ kept[s] \in {0, done[s]}
        /\ phase[s] = "working" => kept[s] = 0
=============================================================================
