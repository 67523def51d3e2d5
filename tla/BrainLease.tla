----------------------------- MODULE BrainLease -----------------------------
(***************************************************************************)
(* The one row of brain_lease named 'dream' (dream/lease.py), shared by    *)
(* every process that opens the same brain.db.                             *)
(*                                                                         *)
(* Every statement of lease.py is one UPDATE followed by a commit, and     *)
(* SQLite has a single writer, so each is one atomic step here.            *)
(*                                                                         *)
(* Time.  The code stores expires_at as a wall-clock instant and compares  *)
(* it with now; all it ever uses is the sign of the difference.  The row   *)
(* keeps that difference, left = expires_at - now, which Tick counts down. *)
(* `expires_at < now' is left < 0, where the count stops.  A free row      *)
(* (holder and expires_at NULL) has left = Expired.                        *)
(***************************************************************************)
EXTENDS Integers

CONSTANTS
    Procs,      \* processes that may dream: CLI, cron, provider worker
    NoProc,     \* holder IS NULL
    TTL         \* TTL_SECONDS, in ticks

ASSUME NoProcAssumption == NoProc \notin Procs
ASSUME TTLAssumption == TTL \in Nat

VARIABLES
    lease,      \* the row: [holder, left]
    mine        \* history: time left on the last expiry p itself wrote

leaseVars == <<lease, mine>>

Expired == -1
Free == [holder |-> NoProc, left |-> Expired]

LeaseTypeOK ==
    /\ lease \in [holder : Procs \cup {NoProc}, left : Expired..TTL]
    /\ mine \in [Procs -> Expired..TTL]

LeaseInit ==
    /\ lease = Free
    /\ mine = [p \in Procs |-> Expired]

-----------------------------------------------------------------------------
\* Mutant of Acquirable: no clause on expires_at.
AcquirableIfFree == lease.holder = NoProc

\* WHERE holder IS NULL OR expires_at < now
Acquirable == lease.holder = NoProc \/ lease.left < 0

\* acquire() answers True: the row was taken, or p held it already.
Acquires(p) == Acquirable \/ lease.holder = p

\* UPDATE ... SET holder = p, expires_at = now + TTL
Take(p) ==
    /\ lease' = [holder |-> p, left |-> TTL]
    /\ mine' = [mine EXCEPT ![p] = TTL]

\* A process that holds the row already gets True without a new expiry.
AcquireLease(p) ==
    /\ Acquires(p)
    /\ IF Acquirable THEN Take(p) ELSE UNCHANGED leaseVars

\* Mutant of Renews: no WHERE.
RenewsAnyones(p) == TRUE

\* renew() looks at the holder only, never at the expiry.
Renews(p) == lease.holder = p

RenewLease(p) == Renews(p) /\ Take(p)

\* Mutant of ReleaseLease: WHERE ... AND expires_at >= now.
ReleaseUnexpired(p) ==
    IF lease.holder = p /\ lease.left >= 0
    THEN /\ lease' = Free
         /\ mine' = [mine EXCEPT ![p] = Expired]
    ELSE UNCHANGED leaseVars

\* release(): UPDATE ... SET holder = NULL WHERE holder = p
ReleaseLease(p) ==
    IF lease.holder = p
    THEN /\ lease' = Free
         /\ mine' = [mine EXCEPT ![p] = Expired]
    ELSE UNCHANGED leaseVars

\* held_by(): an expired row reads as free.
HeldBy == IF lease.left < 0 THEN NoProc ELSE lease.holder

CountDown(t) == IF t < 0 THEN Expired ELSE t - 1

PassTime ==
    /\ lease' = [lease EXCEPT !.left = CountDown(@)]
    /\ mine' = [p \in Procs |-> CountDown(mine[p])]

LeaseNext ==
    \/ \E p \in Procs : AcquireLease(p) \/ RenewLease(p) \/ ReleaseLease(p)
    \/ PassTime

LeaseSpec == LeaseInit /\ [][LeaseNext]_leaseVars

-----------------------------------------------------------------------------
\* While the expiry a process last wrote has not passed, the row is still its
\* own and still carries that expiry: no other process can have taken or
\* extended it (lease.py: "two dream processes ... can never both hold it").
PromiseKept ==
    \A p \in Procs : mine[p] >= 0 => lease = [holder |-> p, left |-> mine[p]]

\* On every path of the program, the row gives out exclusive grants that
\* expire: what a process has left of its own expiry is its grant.
Grants == INSTANCE LeaseGrant WITH grant <- mine
GrantsSpec == Grants!Spec

=============================================================================
