----------------------------- MODULE LeaseGrant -----------------------------
(***************************************************************************)
(* What a lease promises, with no row and no holder column: each process   *)
(* has a grant that counts down, a grant is given only while no other      *)
(* process has a live one, and only its owner extends it or gives it up.   *)
(***************************************************************************)
EXTENDS Integers

CONSTANTS Procs, TTL

VARIABLE grant      \* remaining time of each process's grant; -1 is none

Live(p) == grant[p] >= 0

Init == grant = [p \in Procs |-> -1]

Grant(p) ==
    /\ \A q \in Procs \ {p} : ~Live(q)
    /\ grant' = [grant EXCEPT ![p] = TTL]

GiveUp(p) == grant' = [grant EXCEPT ![p] = -1]

Pass == grant' = [p \in Procs |-> IF Live(p) THEN grant[p] - 1 ELSE -1]

Next == Pass \/ \E p \in Procs : Grant(p) \/ GiveUp(p)

Spec == Init /\ [][Next]_grant

\* Never two live grants.
Exclusive == \A p, q \in Procs : Live(p) /\ Live(q) => p = q
=============================================================================
