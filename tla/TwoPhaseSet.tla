---------------------------- MODULE TwoPhaseSet ----------------------------
(***************************************************************************)
(* What replication promises of memories that are written once and may be  *)
(* forgotten: on every device a memory is at first unknown, may become     *)
(* held, and once gone it stays gone; and nothing is learnt that no device *)
(* has done.                                                               *)
(***************************************************************************)
CONSTANTS Devices, Uids

VARIABLE member     \* device -> memory -> unknown, held or gone

Phase == {"unknown", "held", "gone"}

Somewhere(u, phases) == \E d \in Devices : member[d][u] \in phases

Init == member \in [Devices -> [Uids -> {"unknown", "held"}]]

Become(d, u, phase) == member' = [member EXCEPT ![d][u] = phase]

Write(d, u) == ~Somewhere(u, {"held", "gone"}) /\ Become(d, u, "held")

Learn(d, u) ==
    /\ member[d][u] = "unknown" /\ Somewhere(u, {"held", "gone"})
    /\ Become(d, u, "held")

Forget(d, u) == member[d][u] = "held" /\ Become(d, u, "gone")

Next == \E d \in Devices, u \in Uids :
    Write(d, u) \/ Learn(d, u) \/ Forget(d, u)

Spec == Init /\ [][Next]_member
=============================================================================
