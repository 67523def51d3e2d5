---------------------------- MODULE DreamProofs -----------------------------
(***************************************************************************)
(* The dream, for every set of processes, plan, TTL and bound: what the    *)
(* lease alone guarantees, the types of the shift machine, and its safety  *)
(* properties.                                                             *)
(***************************************************************************)
EXTENDS DreamShift, TLAPS

-----------------------------------------------------------------------------
\* The lease alone.

\* The row and the history together.
LeaseInv == LeaseTypeOK /\ PromiseKept

LEMMA LeaseInitInv == LeaseInit => LeaseInv
  BY NoProcAssumption, TTLAssumption
  DEF LeaseInit, LeaseInv, LeaseTypeOK, PromiseKept, Free, Expired

\* Taking the row, by acquire or by renew, while no other process has a live
\* promise of its own.
LEMMA TakeInv ==
  ASSUME NEW p \in Procs, LeaseInv, Acquirable \/ lease.holder = p, Take(p)
  PROVE  LeaseInv'
<1>1. LeaseTypeOK'
  BY TTLAssumption DEF LeaseInv, LeaseTypeOK, Take, Expired
<1>2. PromiseKept'
  <2> SUFFICES ASSUME NEW q \in Procs, mine'[q] >= 0
               PROVE  lease' = [holder |-> q, left |-> mine'[q]]
    BY DEF PromiseKept
  <2>1. CASE q = p
    BY <2>1, TTLAssumption DEF Take, LeaseInv, LeaseTypeOK
  <2>2. CASE q # p
    <3>1. mine[q] >= 0
      BY <2>2 DEF Take, LeaseInv, LeaseTypeOK
    <3>2. lease.holder = q /\ lease.left >= 0
      BY <3>1 DEF LeaseInv, PromiseKept
    <3> QED
      BY <3>2, <2>2, NoProcAssumption, TTLAssumption
      DEF Acquirable, LeaseInv, LeaseTypeOK, Expired
  <2> QED
    BY <2>1, <2>2
<1> QED
  BY <1>1, <1>2 DEF LeaseInv

LEMMA ReleaseInv ==
  ASSUME NEW p \in Procs, LeaseInv, ReleaseLease(p)
  PROVE  LeaseInv'
<1>1. CASE lease.holder = p
  <2>1. LeaseTypeOK'
    BY <1>1, TTLAssumption
    DEF LeaseInv, LeaseTypeOK, ReleaseLease, Free, Expired
  <2>2. PromiseKept'
    BY <1>1, NoProcAssumption
    DEF LeaseInv, LeaseTypeOK, PromiseKept, ReleaseLease, Free, Expired
  <2> QED
    BY <2>1, <2>2 DEF LeaseInv
<1>2. CASE lease.holder # p
  BY <1>2 DEF ReleaseLease, leaseVars, LeaseInv, LeaseTypeOK, PromiseKept
<1> QED
  BY <1>1, <1>2

LEMMA PassInv ==
  ASSUME LeaseInv, PassTime
  PROVE  LeaseInv'
<1>1. LeaseTypeOK'
  BY TTLAssumption
  DEF LeaseInv, LeaseTypeOK, PassTime, CountDown, Expired
<1>2. PromiseKept'
  <2> SUFFICES ASSUME NEW q \in Procs, mine'[q] >= 0
               PROVE  lease' = [holder |-> q, left |-> mine'[q]]
    BY DEF PromiseKept
  <2>1. mine[q] >= 0 /\ mine'[q] = mine[q] - 1
    BY DEF PassTime, CountDown, Expired, LeaseInv, LeaseTypeOK
  <2>2. lease = [holder |-> q, left |-> mine[q]]
    BY <2>1 DEF LeaseInv, PromiseKept
  <2> QED
    BY <2>1, <2>2 DEF PassTime, CountDown, Expired
<1> QED
  BY <1>1, <1>2 DEF LeaseInv

LEMMA LeaseNextInv == LeaseInv /\ [LeaseNext]_leaseVars => LeaseInv'
<1> SUFFICES ASSUME LeaseInv, [LeaseNext]_leaseVars
             PROVE  LeaseInv'
  OBVIOUS
<1>1. ASSUME NEW p \in Procs, AcquireLease(p)
      PROVE  LeaseInv'
  <2>1. CASE Acquirable
    BY <1>1, <2>1, TakeInv DEF AcquireLease
  <2>2. CASE ~Acquirable
    BY <1>1, <2>2
    DEF AcquireLease, leaseVars, LeaseInv, LeaseTypeOK, PromiseKept
  <2> QED
    BY <2>1, <2>2
<1>2. ASSUME NEW p \in Procs, RenewLease(p)
      PROVE  LeaseInv'
  BY <1>2, TakeInv DEF RenewLease, Renews
<1>3. ASSUME NEW p \in Procs, ReleaseLease(p)
      PROVE  LeaseInv'
  BY <1>3, ReleaseInv
<1>4. CASE PassTime
  BY <1>4, PassInv
<1>5. CASE UNCHANGED leaseVars
  BY <1>5 DEF leaseVars, LeaseInv, LeaseTypeOK, PromiseKept
<1> QED
  BY <1>1, <1>2, <1>3, <1>4, <1>5 DEF LeaseNext

\* A process whose own expiry has not passed still has the row (acquire and
\* renew in lease.py), whatever the others do.
THEOREM LeaseKeepsPromise == LeaseSpec => []PromiseKept
<1>1. LeaseInv => PromiseKept
  BY DEF LeaseInv
<1> QED
  BY <1>1, LeaseInitInv, LeaseNextInv, PTL DEF LeaseSpec

-----------------------------------------------------------------------------
\* The row implements the grants: each process's grant is what is left of the
\* expiry it wrote itself.
LEMMA LeaseStepIsGrantStep ==
  ASSUME LeaseInv, [LeaseNext]_leaseVars
  PROVE  [Grants!Next]_mine
<1>1. ASSUME NEW p \in Procs, Take(p), Acquirable \/ lease.holder = p
      PROVE  Grants!Grant(p)
  <2>1. ASSUME NEW q \in Procs \ {p}
        PROVE  ~ Grants!Live(q)
    BY <1>1, <2>1, NoProcAssumption, TTLAssumption
    DEF Grants!Live, LeaseInv, LeaseTypeOK, PromiseKept, Acquirable, Expired
  <2> QED
    BY <1>1, <2>1 DEF Take, Grants!Grant
<1>2. ASSUME NEW p \in Procs, AcquireLease(p)
      PROVE  [Grants!Next]_mine
  BY <1>1, <1>2 DEF AcquireLease, leaseVars, Grants!Next
<1>3. ASSUME NEW p \in Procs, RenewLease(p)
      PROVE  [Grants!Next]_mine
  BY <1>1, <1>3 DEF RenewLease, Renews, Grants!Next
<1>4. ASSUME NEW p \in Procs, ReleaseLease(p)
      PROVE  [Grants!Next]_mine
  BY <1>4 DEF ReleaseLease, leaseVars, Expired, Grants!Next, Grants!GiveUp
<1>5. CASE PassTime
  BY <1>5 DEF PassTime, CountDown, Expired, LeaseInv, LeaseTypeOK,
              Grants!Next, Grants!Pass, Grants!Live
<1>6. CASE UNCHANGED leaseVars
  BY <1>6 DEF leaseVars
<1> QED
  BY <1>2, <1>3, <1>4, <1>5, <1>6 DEF LeaseNext

\* lease.py's UPDATE statements on one row give each process an exclusive,
\* expiring grant.
THEOREM LeaseRefinesGrant == LeaseSpec => GrantsSpec
<1>1. LeaseInit => Grants!Init
  BY DEF LeaseInit, Expired, Grants!Init
<1>2. LeaseInv /\ [LeaseNext]_leaseVars => [Grants!Next]_mine
  BY LeaseStepIsGrantStep
<1> QED
  BY <1>1, <1>2, LeaseInitInv, LeaseNextInv, PTL DEF LeaseSpec, GrantsSpec, Grants!Spec

-----------------------------------------------------------------------------
\* Types of the shift machine.

\* Where p's current strategy is a member of its plan.
Working == {"enter", "scan", "ask", "llm", "write", "record", "renew"}

Placed(p) ==
    /\ run[p].resume \in 0..Len(rows)
    /\ pc[p] \in Working => run[p].at \in 1..Len(run[p].plan)
    /\ pc[p] = "record" => run[p].result # "none"

TypeInv == TypeOK /\ \A p \in Procs : Placed(p)

LEMMA CurrentType ==
  ASSUME TypeInv, NEW p \in Procs, pc[p] \in Working
  PROVE  Current(p) \in Strategies
<1>1. run[p].plan \in Seq(Strategies)
  BY PlansAssumption DEF TypeInv, TypeOK, RunState
<1>2. run[p].at \in 1..Len(run[p].plan)
  BY DEF TypeInv, Placed
<1> QED
  BY <1>1, <1>2 DEF Current

LEMMA NoRunType == NoRun \in RunState
  BY PlansAssumption DEF NoRun, RunState

\* Replacing p's record by another one of its type.
LEMMA SetType ==
  ASSUME TypeInv, NEW p \in Procs, NEW state \in RunState, Set(p, state)
  PROVE  /\ run' \in [Procs -> RunState]
         /\ run'[p] = state
         /\ \A q \in Procs : q # p => run'[q] = run[q]
  BY DEF TypeInv, TypeOK, Set

LEMMA GoType ==
  ASSUME TypeInv, NEW p \in Procs, NEW point \in Points, Go(p, point)
  PROVE  /\ pc' \in [Procs -> Points]
         /\ pc'[p] = point
         /\ \A q \in Procs : q # p => pc'[q] = pc[q]
  BY DEF TypeInv, TypeOK, Go

\* An update of one field of one row leaves a sequence of rows as long.
LEMMA RowsType ==
  ASSUME rows \in Seq(Row), NEW i,
         NEW d \in SUBSET Strategies, NEW o \in Outcomes
  PROVE  /\ [rows EXCEPT ![i].done = d] \in Seq(Row)
         /\ Len([rows EXCEPT ![i].done = d]) = Len(rows)
         /\ [rows EXCEPT ![i].outcome = o] \in Seq(Row)
         /\ Len([rows EXCEPT ![i].outcome = o]) = Len(rows)
<1>1. ASSUME NEW r \in Row
      PROVE  /\ [r EXCEPT !.done = d] \in Row
             /\ [r EXCEPT !.outcome = o] \in Row
  BY DEF Row
<1>2. \A x \in 1..Len(rows) : rows[x] \in Row
  OBVIOUS
<1>3. DOMAIN rows = 1..Len(rows) /\ Len(rows) \in Nat
  OBVIOUS
<1> DEFINE D == [rows EXCEPT ![i].done = d]
           O == [rows EXCEPT ![i].outcome = o]
<1>4. \A x \in 1..Len(rows) : D[x] \in Row /\ O[x] \in Row
  BY <1>1, <1>2, <1>3
<1>5. DOMAIN D = 1..Len(rows) /\ DOMAIN O = 1..Len(rows)
  BY <1>3
<1>6. /\ D = [x \in 1..Len(rows) |-> D[x]]
      /\ O = [x \in 1..Len(rows) |-> O[x]]
  BY <1>5
<1> HIDE DEF D, O
<1>7. D \in Seq(Row) /\ Len(D) = Len(rows)
  BY <1>3, <1>4, <1>5, <1>6
<1>8. O \in Seq(Row) /\ Len(O) = Len(rows)
  BY <1>3, <1>4, <1>5, <1>6
<1> QED
  BY <1>7, <1>8 DEF D, O

LEMMA PassType ==
  ASSUME LeaseTypeOK, PassTime
  PROVE  LeaseTypeOK'
  BY TTLAssumption DEF LeaseTypeOK, PassTime, CountDown, Expired

\* The lease row keeps its type in every lease operation of p.
LEMMA LeaseOpsType ==
  ASSUME LeaseTypeOK, NEW p \in Procs,
         \/ UNCHANGED leaseVars
         \/ AcquireLease(p) \/ RenewLease(p) \/ ReleaseLease(p)
  PROVE  LeaseTypeOK'
<1>1. CASE UNCHANGED leaseVars
  BY <1>1 DEF LeaseTypeOK, leaseVars
<1>2. CASE AcquireLease(p)
  BY <1>2, TTLAssumption
  DEF LeaseTypeOK, AcquireLease, Take, leaseVars, Expired
<1>3. CASE RenewLease(p)
  BY <1>3, TTLAssumption DEF LeaseTypeOK, RenewLease, Take, Expired
<1>4. CASE ReleaseLease(p)
  BY <1>4, TTLAssumption
  DEF LeaseTypeOK, ReleaseLease, Free, leaseVars, Expired
<1> QED
  BY <1>1, <1>2, <1>3, <1>4

-----------------------------------------------------------------------------
\* Everything but pc, run and rows.
RestTypeOK ==
    /\ LeaseTypeOK
    /\ age \in [Procs -> 0..RENEW]
    /\ yielded \in [Procs -> BOOLEAN]
    /\ returned \in [Procs -> BOOLEAN]
    /\ cool \in SUBSET Strategies
    /\ dueIn \in 0..Interval
    /\ stray \in [Procs -> Nat] /\ lag \in [Procs -> Nat]
    /\ starts \in 0..MaxStarts /\ faults \in 0..MaxFaults
    /\ sleeps \in 0..MaxSleeps

LEMMA RestOfType == TypeInv => RestTypeOK
  BY DEF TypeInv, TypeOK, RestTypeOK

\* One step of p: it goes to `point' and its record becomes `state'.
LEMMA StepType ==
  ASSUME TypeInv, NEW p \in Procs, NEW point \in Points, NEW state \in RunState,
         pc' = [pc EXCEPT ![p] = point],
         run' = [run EXCEPT ![p] = state],
         rows' \in Seq(Row), Len(rows') >= Len(rows),
         state.resume \in 0..Len(rows'),
         point \in Working => state.at \in 1..Len(state.plan),
         point = "record" => state.result # "none",
         RestTypeOK'
  PROVE  TypeInv'
<1>1. pc' \in [Procs -> Points] /\ run' \in [Procs -> RunState]
  BY DEF TypeInv, TypeOK
<1>2. TypeOK'
  BY <1>1 DEF RestTypeOK, TypeOK
<1>3. ASSUME NEW q \in Procs
      PROVE  Placed(q)'
  <2>1. CASE q = p
    BY <2>1 DEF Placed, TypeInv, TypeOK
  <2>2. CASE q # p
    <3>1. pc'[q] = pc[q] /\ run'[q] = run[q]
      BY <2>2 DEF TypeInv, TypeOK
    <3>2. Placed(q) /\ rows \in Seq(Row)
      BY DEF TypeInv, TypeOK
    <3> QED
      BY <3>1, <3>2 DEF Placed
  <2> QED
    BY <2>1, <2>2
<1> QED
  BY <1>2, <1>3 DEF TypeInv

\* The same when the record, or the point, stays as it is.
LEMMA SameRun ==
  ASSUME TypeInv, NEW p \in Procs, UNCHANGED run
  PROVE  run' = [run EXCEPT ![p] = run[p]] /\ run[p] \in RunState
  BY DEF TypeInv, TypeOK

LEMMA SamePoint ==
  ASSUME TypeInv, NEW p \in Procs, UNCHANGED pc
  PROVE  pc' = [pc EXCEPT ![p] = pc[p]] /\ pc[p] \in Points
  BY DEF TypeInv, TypeOK

\* What is known of p's record before its step.
LEMMA PlacedFacts ==
  ASSUME TypeInv, NEW p \in Procs
  PROVE  /\ run[p] \in RunState
         /\ rows \in Seq(Row) /\ Len(rows) \in Nat
         /\ run[p].resume \in 0..Len(rows)
         /\ pc[p] \in Working => run[p].at \in 1..Len(run[p].plan)
  BY DEF TypeInv, TypeOK, Placed

LEMMA LeaveType ==
  ASSUME TypeInv, NEW p \in Procs, NEW point \in {"idle", "down"},
         Leave(p, point), LeaseTypeOK', UNCHANGED <<rows, cool, dueIn>>,
         starts' \in 0..MaxStarts, faults' \in 0..MaxFaults,
         sleeps' \in 0..MaxSleeps
  PROVE  TypeInv'
<1>1. RestTypeOK'
  BY RenewAssumption DEF TypeInv, TypeOK, RestTypeOK, Leave
<1>2. NoRun.resume \in 0..Len(rows')
  BY PlacedFacts DEF NoRun
<1>3. point \in Points \ {"record"} /\ point \notin Working
  BY DEF Points, Working, Inside
<1>4. /\ pc' = [pc EXCEPT ![p] = point]
      /\ run' = [run EXCEPT ![p] = NoRun]
  BY DEF Leave, Go, Set
<1>5. rows' \in Seq(Row) /\ Len(rows') >= Len(rows)
  BY PlacedFacts
<1> QED
  BY <1>1, <1>2, <1>3, <1>4, <1>5, NoRunType, StepType

\* A step of p that returns an entry to run_dream.
LEMMA ReturnType ==
  ASSUME TypeInv, NEW p \in Procs, pc[p] \in Working,
         NEW result \in {"ok", "preempted", "error"},
         Return(p, result), UNCHANGED rows, RestTypeOK'
  PROVE  TypeInv'
<1> DEFINE state == [run[p] EXCEPT !.result = result]
<1>1. state \in RunState
  BY PlacedFacts DEF RunState
<1>2. /\ state.resume \in 0..Len(rows')
      /\ state.at \in 1..Len(state.plan)
      /\ state.result # "none"
  BY PlacedFacts DEF RunState
<1>3. "record" \in Points
  BY DEF Points, Inside
<1>4. /\ pc' = [pc EXCEPT ![p] = "record"]
      /\ run' = [run EXCEPT ![p] = state]
  BY DEF Return, Go, Set
<1>5. rows' \in Seq(Row) /\ Len(rows') >= Len(rows)
  BY PlacedFacts
<1> HIDE DEF state
<1> QED
  BY <1>1, <1>2, <1>3, <1>4, <1>5, StepType

\* A step of p that only moves on, inside the same strategy or out of it.
LEMMA GoOnType ==
  ASSUME TypeInv, NEW p \in Procs, NEW point \in Points, Go(p, point),
         UNCHANGED run, UNCHANGED rows, RestTypeOK', point # "record",
         point \in Working => pc[p] \in Working
  PROVE  TypeInv'
<1>1. run' = [run EXCEPT ![p] = run[p]] /\ run[p] \in RunState
  BY SameRun
<1>2. pc' = [pc EXCEPT ![p] = point]
  BY DEF Go
<1>3. rows' \in Seq(Row) /\ Len(rows') >= Len(rows)
  BY PlacedFacts
<1>4. /\ run[p].resume \in 0..Len(rows')
      /\ point \in Working => run[p].at \in 1..Len(run[p].plan)
  BY PlacedFacts
<1> QED
  BY <1>1, <1>2, <1>3, <1>4, StepType

-----------------------------------------------------------------------------
\* One lemma per action: it keeps TypeInv.

LEMMA TypeStart ==
  ASSUME TypeInv, NEW p \in Procs, Start(p)
  PROVE  TypeInv'
<1>1. PICK plan \in Plans, trigger \in Triggers, id \in 0..Len(rows) :
        Set(p, [NoRun EXCEPT !.plan = plan, !.resume = id])
  BY DEF Start
<1> DEFINE state == [NoRun EXCEPT !.plan = plan, !.resume = id]
<1>2. state \in RunState /\ state.resume = id
  <2>1. id \in Nat
    BY PlacedFacts
  <2>2. \A r \in RunState : [r EXCEPT !.plan = plan, !.resume = id]
                            \in RunState
    BY <2>1 DEF RunState
  <2>3. \A r \in RunState : [r EXCEPT !.plan = plan, !.resume = id].resume
                            = id
    BY DEF RunState
  <2> QED
    BY <2>2, <2>3, NoRunType
<1>3. /\ pc' = [pc EXCEPT ![p] = "due"]
      /\ run' = [run EXCEPT ![p] = state]
  BY <1>1 DEF Start, Go, Set
<1>4. "due" \in Points /\ "due" \notin Working
  BY DEF Points, Working
<1>5. /\ UNCHANGED <<lease, mine, age, yielded, returned, stray, lag, rows,
                      cool, dueIn, faults, sleeps>>
      /\ starts < MaxStarts /\ starts' = starts + 1
  BY DEF Start, shared
<1>6. RestTypeOK'
  BY <1>5, BoundsAssumption DEF TypeInv, TypeOK, RestTypeOK, LeaseTypeOK
<1>7. /\ rows' \in Seq(Row) /\ Len(rows') >= Len(rows)
      /\ state.resume \in 0..Len(rows')
  BY <1>2, <1>5, PlacedFacts
<1> HIDE DEF state
<1> QED
  BY <1>2, <1>3, <1>4, <1>6, <1>7, StepType

LEMMA TypeAcquire ==
  ASSUME TypeInv, NEW p \in Procs, Acquire(p)
  PROVE  TypeInv'
<1>1. LeaseTypeOK'
  BY LeaseOpsType DEF Acquire, TypeInv, TypeOK
<1>2. CASE Go(p, "lifecycle") /\ UNCHANGED <<age, yielded, returned, run,
                                             stray, lag>>
  <2>1. RestTypeOK'
    BY <1>1, <1>2 DEF Acquire, TypeInv, TypeOK, RestTypeOK, shared, used
  <2>2. "lifecycle" \in Points /\ "lifecycle" \notin Working
    BY DEF Points, Working
  <2> QED
    BY <1>2, <2>1, <2>2, GoOnType DEF Acquire, shared
<1>3. CASE Leave(p, "idle")
  <2>1. /\ UNCHANGED <<rows, cool, dueIn>> /\ starts' \in 0..MaxStarts
        /\ faults' \in 0..MaxFaults /\ sleeps' \in 0..MaxSleeps
    BY DEF Acquire, TypeInv, TypeOK, shared, used
  <2> QED
    BY <1>1, <1>3, <2>1, LeaveType
<1> QED
  BY <1>2, <1>3 DEF Acquire

LEMMA TypeLifecycle ==
  ASSUME TypeInv, NEW p \in Procs, Lifecycle(p)
  PROVE  TypeInv'
<1>1. RestTypeOK'
  BY DEF Lifecycle, TypeInv, TypeOK, RestTypeOK, LeaseTypeOK, leaseVars,
         shared, used
<1>2. "open" \in Points /\ "open" \notin Working
  BY DEF Points, Working
<1> QED
  BY <1>1, <1>2, GoOnType DEF Lifecycle, shared

LEMMA TypeOpen ==
  ASSUME TypeInv, NEW p \in Procs, Open(p)
  PROVE  TypeInv'
<1>1. RestTypeOK'
  BY DEF Open, TypeInv, TypeOK, RestTypeOK, LeaseTypeOK, leaseVars, used
<1>2. "loop" \in Points /\ "loop" \notin Working
  BY DEF Points, Inside, Working
<1>3. CASE run[p].resume # 0
  <2> DEFINE state == [run[p] EXCEPT !.id = run[p].resume,
                                     !.done = rows[run[p].resume].done]
  <2>1. rows[run[p].resume].done \in SUBSET Strategies
    <3>1. run[p].resume \in 1..Len(rows)
      BY <1>3, PlacedFacts
    <3>2. rows[run[p].resume] \in Row
      BY <3>1, PlacedFacts
    <3> QED
      BY <3>2 DEF Row
  <2>2. state \in RunState /\ state.resume = run[p].resume
    BY <2>1, PlacedFacts DEF RunState
  <2>3. /\ pc' = [pc EXCEPT ![p] = "loop"]
        /\ run' = [run EXCEPT ![p] = state]
        /\ rows' = rows
    BY <1>3 DEF Open, Go, Set
  <2>4. /\ rows' \in Seq(Row) /\ Len(rows') >= Len(rows)
        /\ state.resume \in 0..Len(rows')
    BY <2>2, <2>3, PlacedFacts
  <2> HIDE DEF state
  <2> QED
    BY <1>1, <1>2, <2>2, <2>3, <2>4, StepType
<1>4. CASE run[p].resume = 0
  <2> DEFINE state == [run[p] EXCEPT !.id = Len(rows) + 1]
             row == [done |-> {}, outcome |-> "running"]
  <2>1. state \in RunState /\ state.resume = 0
    BY <1>4, PlacedFacts DEF RunState
  <2>2. row \in Row
    BY DEF Row, Outcomes
  <2>3. /\ pc' = [pc EXCEPT ![p] = "loop"]
        /\ run' = [run EXCEPT ![p] = state]
        /\ rows' = Append(rows, row)
    BY <1>4 DEF Open, Go, Set
  <2> HIDE DEF row
  <2>4. rows' \in Seq(Row) /\ Len(rows') = Len(rows) + 1
    BY <2>2, <2>3, PlacedFacts
  <2>5. Len(rows') >= Len(rows) /\ state.resume \in 0..Len(rows')
    BY <2>1, <2>4, PlacedFacts
  <2> HIDE DEF state
  <2> QED
    BY <1>1, <1>2, <2>1, <2>3, <2>4, <2>5, StepType
<1> QED
  BY <1>3, <1>4

\* The ways out of the head of the loop.
LEMMA LoopCases ==
  ASSUME TypeInv, NEW p \in Procs, Loop(p)
  PROVE  \/ Go(p, "close") /\ UNCHANGED run
         \/ \E entry \in Entries : Skip(p, entry)
         \/ /\ run[p].at <= Len(run[p].plan)
            /\ Go(p, EntryPoint(Current(p)))
            /\ \E n \in 0..MaxUnits, staged \in BOOLEAN :
                 Set(p, [run[p] EXCEPT !.units = n, !.staged = staged])
<1>1. run[p].plan \in Seq(Strategies) /\ run[p].at \in Nat
  BY PlacedFacts, PlansAssumption DEF RunState
<1>2. CASE run[p].at > Len(run[p].plan)
  BY <1>2 DEF Loop
<1>3. CASE ~(run[p].at > Len(run[p].plan))
  <2>1. run[p].at <= Len(run[p].plan)
    BY <1>1, <1>3
  <2>2. /\ "already_done" \in Entries /\ "skipped_preempted" \in Entries
        /\ "off" \in Entries /\ "cooldown" \in Entries
    BY DEF Entries
  <2>3. (Current(p) \in PlainStrategies) \in BOOLEAN
    OBVIOUS
  <2> QED
    BY <1>3, <2>1, <2>2, <2>3 DEF Loop
<1> QED
  BY <1>2, <1>3

LEMMA TypeLoop ==
  ASSUME TypeInv, NEW p \in Procs, Loop(p)
  PROVE  TypeInv'
<1>0. UNCHANGED <<lease, mine, age, returned, stray, lag, rows, cool, dueIn,
                  starts, faults, sleeps>>
  BY DEF Loop, leaseVars, shared, used
<1>1. RestTypeOK'
  <2>1. yielded' = yielded \/ NotePreempted(p)
    BY DEF Loop
  <2> QED
    BY <1>0, <2>1
    DEF TypeInv, TypeOK, RestTypeOK, LeaseTypeOK, NotePreempted, Preempted
<1>2. /\ rows' = rows /\ rows' \in Seq(Row) /\ Len(rows') >= Len(rows)
      /\ run[p].resume \in 0..Len(rows')
  BY <1>0, PlacedFacts
<1>3. pc[p] = "loop" /\ "loop" \in Points /\ "loop" \notin Working
  BY DEF Loop, Points, Inside, Working
<1>4. ASSUME NEW entry \in Entries, Skip(p, entry)
      PROVE  TypeInv'
  <2> DEFINE state == [run[p] EXCEPT !.at = @ + 1,
                                     !.entries = @ \cup {entry}]
  <2>0. /\ run[p].entries \cup {entry} \in SUBSET Entries
        /\ run[p].at + 1 \in Nat \ {0}
        /\ run[p] \in RunState
    BY PlacedFacts DEF RunState
  <2>1. state \in RunState /\ state.resume = run[p].resume
    BY <2>0 DEF RunState
  <2>2. /\ pc' = [pc EXCEPT ![p] = "loop"]
        /\ run' = [run EXCEPT ![p] = state]
    BY <1>3, <1>4, SamePoint DEF Skip, Set
  <2> HIDE DEF state
  <2> QED
    BY <1>1, <1>2, <1>3, <2>1, <2>2, StepType
<1>5. CASE Go(p, "close") /\ UNCHANGED run
  <2>1. "close" \in Points /\ "close" \notin Working
    BY DEF Points, Inside, Working
  <2> QED
    BY <1>1, <1>2, <1>5, <2>1, GoOnType
<1>6. ASSUME run[p].at <= Len(run[p].plan),
             NEW n \in 0..MaxUnits, NEW staged \in BOOLEAN,
             Go(p, EntryPoint(Current(p))),
             Set(p, [run[p] EXCEPT !.units = n, !.staged = staged])
      PROVE  TypeInv'
  <2> DEFINE state == [run[p] EXCEPT !.units = n, !.staged = staged]
  <2>0. run[p] \in RunState /\ n \in Int
    BY <1>6, PlacedFacts, BoundsAssumption
  <2>1. /\ state \in RunState /\ state.resume = run[p].resume
        /\ state.at = run[p].at /\ state.plan = run[p].plan
    BY <2>0 DEF RunState
  <2>4. state.at \in 1..Len(state.plan)
    <3>1. /\ run[p].at \in Nat \ {0}
          /\ run[p].plan \in Seq(Strategies)
      BY <2>0, PlansAssumption DEF RunState
    <3> QED
      BY <1>6, <2>1, <3>1
  <2>2. EntryPoint(Current(p)) \in Points \ {"record"}
    BY DEF EntryPoint, Points, Inside
  <2>3. /\ pc' = [pc EXCEPT ![p] = EntryPoint(Current(p))]
        /\ run' = [run EXCEPT ![p] = state]
    BY <1>6 DEF Go, Set
  <2> HIDE DEF state
  <2> QED
    BY <1>1, <1>2, <2>1, <2>2, <2>3, <2>4, StepType
<1> QED
  BY <1>4, <1>5, <1>6, LoopCases

LEMMA TypeEnter ==
  ASSUME TypeInv, NEW p \in Procs, Enter(p)
  PROVE  TypeInv'
<1>0. /\ UNCHANGED <<lease, mine, age, returned, stray, lag, rows, cool,
                     dueIn, starts, faults, sleeps>>
      /\ NotePreempted(p) /\ pc[p] = "enter"
  BY DEF Enter, leaseVars, shared, used
<1>1. RestTypeOK'
  BY <1>0
  DEF TypeInv, TypeOK, RestTypeOK, LeaseTypeOK, NotePreempted, Preempted
<1>2. "enter" \in Working /\ "scan" \in Points
  BY DEF Working, Points, Inside
<1>3. CASE Return(p, "preempted")
  BY <1>0, <1>1, <1>2, <1>3, ReturnType
<1>4. CASE Go(p, "scan") /\ UNCHANGED run
  BY <1>0, <1>1, <1>2, <1>4, GoOnType
<1> QED
  BY <1>3, <1>4 DEF Enter

\* What keepalive() does to the lease and to p's clock.
LEMMA KeepaliveType ==
  ASSUME TypeInv, NEW p \in Procs, KeepaliveTrue(p) \/ KeepaliveFalse(p)
  PROVE  LeaseTypeOK' /\ age' \in [Procs -> 0..RENEW]
<1>1. CASE KeepaliveTrue(p)
  <2>1. LeaseTypeOK'
    BY <1>1, LeaseOpsType DEF KeepaliveTrue, TypeInv, TypeOK, leaseVars
  <2>2. age' = age \/ age' = [age EXCEPT ![p] = 0]
    BY <1>1 DEF KeepaliveTrue
  <2>3. age \in [Procs -> 0..RENEW] /\ 0 \in 0..RENEW
    BY RenewAssumption DEF TypeInv, TypeOK
  <2> QED
    BY <2>1, <2>2, <2>3
<1>2. CASE KeepaliveFalse(p)
  <2>1. LeaseTypeOK'
    BY <1>2, LeaseOpsType DEF KeepaliveFalse, TypeInv, TypeOK
  <2> QED
    BY <1>2, <2>1, RenewAssumption DEF KeepaliveFalse, TypeInv, TypeOK
<1> QED
  BY <1>1, <1>2

\* tick() answered False.
LEMMA YieldType ==
  ASSUME TypeInv, NEW p \in Procs, pc[p] = "scan", Yield(p),
         UNCHANGED rows, RestTypeOK'
  PROVE  TypeInv'
<1>1. "scan" \in Working /\ "write" \in Points
  BY DEF Working, Points, Inside
<1>2. CASE Go(p, "write") /\ UNCHANGED run
  BY <1>1, <1>2, GoOnType
<1>3. CASE Return(p, "preempted")
  BY <1>1, <1>3, ReturnType
<1> QED
  BY <1>2, <1>3 DEF Yield

LEMMA BeginUnitType ==
  ASSUME TypeInv, NEW p \in Procs, pc[p] = "scan", BeginUnit(p),
         UNCHANGED rows, RestTypeOK'
  PROVE  TypeInv'
<1> DEFINE batch == Current(p) \in BatchStrategies
           t == IF run[p].ticks + 1 >= CheckEvery THEN 0 ELSE run[p].ticks + 1
           u == IF batch THEN run[p].units - 1 ELSE run[p].units
           state == [run[p] EXCEPT !.ticks = t, !.units = u, !.staged = batch]
           point == IF batch THEN "scan" ELSE "ask"
<1>1. run[p] \in RunState /\ t \in Nat /\ u \in Int /\ batch \in BOOLEAN
  <2>1. run[p] \in RunState
    BY PlacedFacts
  <2>2. run[p].ticks \in Nat /\ run[p].units \in Int
    BY <2>1 DEF RunState
  <2> QED
    BY <2>1, <2>2
<1>2. /\ pc' = [pc EXCEPT ![p] = point]
      /\ run' = [run EXCEPT ![p] = state]
  BY DEF BeginUnit, Go, Set
<1> HIDE DEF t, u, batch
<1>3. /\ state \in RunState /\ state.resume = run[p].resume
      /\ state.at = run[p].at /\ state.plan = run[p].plan
  BY <1>1 DEF RunState
<1>4. point \in Points \ {"record"} /\ pc[p] \in Working
  BY DEF Points, Inside, Working
<1>5. /\ rows' \in Seq(Row) /\ Len(rows') >= Len(rows)
      /\ run[p].resume \in 0..Len(rows')
      /\ run[p].at \in 1..Len(run[p].plan)
  BY <1>4, PlacedFacts
<1> HIDE DEF state, point
<1> QED
  BY <1>2, <1>3, <1>4, <1>5, StepType

LEMMA TypeScan ==
  ASSUME TypeInv, NEW p \in Procs, Scan(p)
  PROVE  TypeInv'
<1>0. /\ UNCHANGED <<returned, stray, rows, cool, dueIn, starts, faults,
                     sleeps>>
      /\ pc[p] = "scan"
  BY DEF Scan, shared, used
<1>1. "scan" \in Working /\ "write" \in Points
  BY DEF Working, Points, Inside
<1>2. ASSUME LeaseTypeOK', age' \in [Procs -> 0..RENEW],
             yielded' \in [Procs -> BOOLEAN], lag' \in [Procs -> Nat]
      PROVE  RestTypeOK'
  BY <1>0, <1>2 DEF TypeInv, TypeOK, RestTypeOK
<1>3. CASE /\ \/ Go(p, "write") /\ UNCHANGED run
              \/ Return(p, "ok")
           /\ UNCHANGED <<leaseVars, age, yielded, lag>>
  <2>1. RestTypeOK'
    BY <1>2, <1>3 DEF leaseVars, TypeInv, TypeOK, LeaseTypeOK
  <2> QED
    BY <1>0, <1>1, <1>3, <2>1, GoOnType, ReturnType
<1>4. CASE KeepaliveFalse(p) /\ Yield(p) /\ UNCHANGED lag
  <2>1. yielded' \in [Procs -> BOOLEAN] /\ lag' \in [Procs -> Nat]
    BY <1>4 DEF KeepaliveFalse, TypeInv, TypeOK
  <2>2. RestTypeOK'
    BY <1>2, <1>4, <2>1, KeepaliveType
  <2> QED
    BY <1>0, <1>4, <2>2, YieldType
<1>5. CASE /\ KeepaliveTrue(p) /\ Yield(p) /\ UNCHANGED lag
           /\ yielded' = [yielded EXCEPT ![p] = TRUE]
  <2>1. yielded' \in [Procs -> BOOLEAN] /\ lag' \in [Procs -> Nat]
    BY <1>5 DEF TypeInv, TypeOK
  <2>2. RestTypeOK'
    BY <1>2, <1>5, <2>1, KeepaliveType
  <2> QED
    BY <1>0, <1>5, <2>2, YieldType
<1>6. CASE KeepaliveTrue(p) /\ BeginUnit(p) /\ UNCHANGED yielded
  <2>1. yielded' \in [Procs -> BOOLEAN] /\ lag' \in [Procs -> Nat]
    BY <1>6 DEF BeginUnit, TypeInv, TypeOK
  <2>2. RestTypeOK'
    BY <1>2, <1>6, <2>1, KeepaliveType
  <2> QED
    BY <1>0, <1>6, <2>2, BeginUnitType
<1> QED
  BY <1>3, <1>4, <1>5, <1>6 DEF Scan

LEMMA TypeAsk ==
  ASSUME TypeInv, NEW p \in Procs, Ask(p)
  PROVE  TypeInv'
<1>0. /\ UNCHANGED <<returned, stray, lag, rows, cool, dueIn, starts, faults,
                     sleeps>>
      /\ pc[p] = "ask"
  BY DEF Ask, shared, used
<1>1. "ask" \in Working /\ "llm" \in Points
  BY DEF Working, Points, Inside
<1>2. yielded' \in [Procs -> BOOLEAN]
  BY DEF Ask, KeepaliveFalse, TypeInv, TypeOK
<1>3. RestTypeOK'
  <2>1. KeepaliveTrue(p) \/ KeepaliveFalse(p)
    BY DEF Ask
  <2> QED
    BY <1>0, <1>2, <2>1, KeepaliveType DEF TypeInv, TypeOK, RestTypeOK
<1>4. CASE Go(p, "llm") /\ UNCHANGED run
  BY <1>0, <1>1, <1>3, <1>4, GoOnType
<1>5. CASE Return(p, "preempted")
  BY <1>0, <1>1, <1>3, <1>5, ReturnType
<1> QED
  BY <1>4, <1>5 DEF Ask

LEMMA TypeLlmReturns ==
  ASSUME TypeInv, NEW p \in Procs, LlmReturns(p)
  PROVE  TypeInv'
<1>0. /\ UNCHANGED <<lease, mine, age, yielded, returned, stray, lag, rows,
                     cool, dueIn, starts, faults, sleeps>>
      /\ pc[p] = "llm"
  BY DEF LlmReturns, leaseVars, shared, used
<1>1. RestTypeOK'
  BY <1>0 DEF TypeInv, TypeOK, RestTypeOK, LeaseTypeOK
<1>2. "llm" \in Working /\ "write" \in Points
  BY DEF Working, Points, Inside
<1>3. CASE Go(p, "write") /\ Set(p, [run[p] EXCEPT !.staged = TRUE])
  <2> DEFINE state == [run[p] EXCEPT !.staged = TRUE]
  <2>1. /\ state \in RunState /\ state.resume = run[p].resume
        /\ state.at = run[p].at /\ state.plan = run[p].plan
    BY PlacedFacts DEF RunState
  <2>2. /\ pc' = [pc EXCEPT ![p] = "write"]
        /\ run' = [run EXCEPT ![p] = state]
    BY <1>3 DEF Go, Set
  <2>3. /\ rows' \in Seq(Row) /\ Len(rows') >= Len(rows)
        /\ run[p].resume \in 0..Len(rows')
        /\ run[p].at \in 1..Len(run[p].plan)
    BY <1>0, <1>2, PlacedFacts
  <2> HIDE DEF state
  <2> QED
    BY <1>1, <1>2, <2>1, <2>2, <2>3, StepType
<1>4. CASE Return(p, "ok")
  BY <1>0, <1>1, <1>2, <1>4, ReturnType
<1> QED
  BY <1>3, <1>4 DEF LlmReturns

LEMMA TypeWrite ==
  ASSUME TypeInv, NEW p \in Procs, Write(p)
  PROVE  TypeInv'
<1>0. /\ UNCHANGED <<lease, mine, age, yielded, returned, lag, rows,
                     cool, dueIn, starts, faults, sleeps>>
      /\ pc[p] = "write"
      /\ stray' = [stray EXCEPT ![p] =
                     IF run[p].staged /\ lease.holder # p THEN @ + 1 ELSE @]
  BY DEF Write, leaseVars, shared, used
<1>1. RestTypeOK'
  <2>1. stray' \in [Procs -> Nat]
    <3>1. stray \in [Procs -> Nat]
      BY DEF TypeInv, TypeOK
    <3>2. stray[p] \in Nat /\ stray[p] + 1 \in Nat
      BY <3>1
    <3> QED
      BY <1>0, <3>1, <3>2
  <2> QED
    BY <1>0, <2>1 DEF TypeInv, TypeOK, RestTypeOK, LeaseTypeOK
<1>2. "write" \in Working /\ "scan" \in Points
  BY DEF Working, Points, Inside
<1>3. CASE Go(p, "scan") /\ Set(p, [run[p] EXCEPT !.units = @ - 1])
  <2> DEFINE state == [run[p] EXCEPT !.units = @ - 1]
  <2>0. run[p] \in RunState /\ run[p].units - 1 \in Int
    BY PlacedFacts DEF RunState
  <2>1. /\ state \in RunState /\ state.resume = run[p].resume
        /\ state.at = run[p].at /\ state.plan = run[p].plan
    BY <2>0 DEF RunState
  <2>2. /\ pc' = [pc EXCEPT ![p] = "scan"]
        /\ run' = [run EXCEPT ![p] = state]
    BY <1>3 DEF Go, Set
  <2>3. /\ rows' \in Seq(Row) /\ Len(rows') >= Len(rows)
        /\ run[p].resume \in 0..Len(rows')
        /\ run[p].at \in 1..Len(run[p].plan)
    BY <1>0, <1>2, PlacedFacts
  <2> HIDE DEF state
  <2> QED
    BY <1>1, <1>2, <2>1, <2>2, <2>3, StepType
<1>4. CASE Return(p, "ok")
  BY <1>0, <1>1, <1>2, <1>4, ReturnType
<1> QED
  BY <1>3, <1>4 DEF Write

LEMMA TypeRecord ==
  ASSUME TypeInv, NEW p \in Procs, Record(p)
  PROVE  TypeInv'
<1> DEFINE r == run[p].result
           done == IF r = "error" THEN run[p].done
                   ELSE run[p].done \cup {Current(p)}
           state == [run[p] EXCEPT !.entries = @ \cup {r}, !.done = done]
<1>0. UNCHANGED <<lease, mine, age, yielded, returned, stray, lag, cool,
                  dueIn, starts, faults, sleeps>>
  BY DEF Record, leaseVars, used
<1>1. RestTypeOK'
  BY <1>0 DEF TypeInv, TypeOK, RestTypeOK, LeaseTypeOK
<1>2. "record" \in Working /\ "renew" \in Points
  BY DEF Working, Points, Inside
<1>3. done \in SUBSET Strategies
  <2>1. run[p].done \in SUBSET Strategies
    BY PlacedFacts DEF RunState
  <2>2. Current(p) \in Strategies
    BY <1>2, CurrentType DEF Record
  <2> QED
    BY <2>1, <2>2
<1>4. rows' = rows \/ rows' = [rows EXCEPT ![run[p].id].done = done]
  BY DEF Record
<1>5. /\ pc' = [pc EXCEPT ![p] = "renew"]
      /\ run' = [run EXCEPT ![p] = state]
      /\ pc[p] = "record"
  BY DEF Record, Go, Set
<1> HIDE DEF done
<1>6. rows' \in Seq(Row) /\ Len(rows') = Len(rows)
  <2>1. "running" \in Outcomes
    BY DEF Outcomes
  <2> QED
    <3>1. CASE rows' = rows
      BY <3>1, PlacedFacts
    <3>2. CASE rows' = [rows EXCEPT ![run[p].id].done = done]
      BY <1>3, <2>1, <3>2, PlacedFacts, RowsType
    <3> QED
      BY <1>4, <3>1, <3>2
<1>7. run[p].entries \cup {r} \in SUBSET Entries
  <2>1. run[p].entries \in SUBSET Entries /\ run[p] \in RunState
    BY PlacedFacts DEF RunState
  <2>2. r # "none"
    BY <1>5 DEF TypeInv, Placed
  <2>3. r \in Entries
    BY <2>1, <2>2 DEF RunState, Entries
  <2> QED
    BY <2>1, <2>3
<1> HIDE DEF r
<1>8. /\ state \in RunState /\ state.resume = run[p].resume
      /\ state.at = run[p].at /\ state.plan = run[p].plan
  BY <1>3, <1>7, PlacedFacts DEF RunState
<1>9. /\ Len(rows') >= Len(rows)
      /\ run[p].resume \in 0..Len(rows')
      /\ run[p].at \in 1..Len(run[p].plan)
  BY <1>2, <1>5, <1>6, PlacedFacts
<1> HIDE DEF state
<1> QED
  BY <1>1, <1>2, <1>5, <1>6, <1>8, <1>9, StepType

LEMMA TypeRenew ==
  ASSUME TypeInv, NEW p \in Procs, Renew(p)
  PROVE  TypeInv'
<1>0. /\ UNCHANGED <<age, yielded, returned, stray, lag, rows, cool, dueIn,
                     starts, faults, sleeps>>
      /\ RenewLease(p) \/ UNCHANGED leaseVars
  BY DEF Renew, shared, used
<1>1. RestTypeOK'
  <2>1. LeaseTypeOK'
    BY <1>0, LeaseOpsType DEF TypeInv, TypeOK
  <2> QED
    BY <1>0, <2>1 DEF TypeInv, TypeOK, RestTypeOK
<1>2. /\ "loop" \in Points /\ "loop" \notin Working
      /\ "close" \in Points /\ "close" \notin Working
  BY DEF Working, Points, Inside
<1>3. /\ rows' \in Seq(Row) /\ Len(rows') >= Len(rows)
      /\ run[p].resume \in 0..Len(rows')
  BY <1>0, PlacedFacts
<1>4. /\ run[p] \in RunState /\ run[p].at + 1 \in Nat \ {0}
  BY PlacedFacts DEF RunState
<1>5. CASE /\ Go(p, "loop")
           /\ Set(p, [run[p] EXCEPT !.at = @ + 1, !.result = "none"])
  <2> DEFINE state == [run[p] EXCEPT !.at = @ + 1, !.result = "none"]
  <2>1. state \in RunState /\ state.resume = run[p].resume
    BY <1>4 DEF RunState
  <2>2. /\ pc' = [pc EXCEPT ![p] = "loop"]
        /\ run' = [run EXCEPT ![p] = state]
    BY <1>5 DEF Go, Set
  <2> HIDE DEF state
  <2> QED
    BY <1>1, <1>2, <1>3, <2>1, <2>2, StepType
<1>6. CASE Go(p, "close") /\ Set(p, [run[p] EXCEPT !.aborted = TRUE])
  <2> DEFINE state == [run[p] EXCEPT !.aborted = TRUE]
  <2>1. state \in RunState /\ state.resume = run[p].resume
    BY <1>4 DEF RunState
  <2>2. /\ pc' = [pc EXCEPT ![p] = "close"]
        /\ run' = [run EXCEPT ![p] = state]
    BY <1>6 DEF Go, Set
  <2> HIDE DEF state
  <2> QED
    BY <1>1, <1>2, <1>3, <2>1, <2>2, StepType
<1> QED
  BY <1>5, <1>6 DEF Renew

LEMMA TypeClose ==
  ASSUME TypeInv, NEW p \in Procs, Close(p)
  PROVE  TypeInv'
<1>0. /\ UNCHANGED <<lease, mine, age, yielded, returned, run, stray, lag,
                     cool, starts, faults, sleeps>>
      /\ dueIn' = Interval
      /\ pc' = [pc EXCEPT ![p] = "release"]
  BY DEF Close, Go, leaseVars, used
<1>1. RestTypeOK'
  BY <1>0, BoundsAssumption DEF TypeInv, TypeOK, RestTypeOK, LeaseTypeOK
<1>2. "release" \in Points /\ "release" \notin Working
  BY DEF Working, Points
<1>3. rows' \in Seq(Row) /\ Len(rows') = Len(rows)
  <2>1. Outcome(run[p]) \in Outcomes /\ {} \in SUBSET Strategies
    BY DEF Outcome, Outcomes
  <2>2. rows' = [rows EXCEPT ![run[p].id].outcome = Outcome(run[p])]
    BY DEF Close
  <2> QED
    BY <2>1, <2>2, PlacedFacts, RowsType
<1>4. run' = [run EXCEPT ![p] = run[p]] /\ run[p] \in RunState
  BY <1>0, SameRun
<1>5. Len(rows') >= Len(rows) /\ run[p].resume \in 0..Len(rows')
  BY <1>3, PlacedFacts
<1> QED
  BY <1>0, <1>1, <1>2, <1>3, <1>4, <1>5, StepType

LEMMA TypeRelease ==
  ASSUME TypeInv, NEW p \in Procs, Release(p)
  PROVE  TypeInv'
<1>1. LeaseTypeOK'
  BY LeaseOpsType DEF Release, TypeInv, TypeOK
<1>2. /\ UNCHANGED <<rows, cool, dueIn>> /\ starts' \in 0..MaxStarts
      /\ faults' \in 0..MaxFaults /\ sleeps' \in 0..MaxSleeps
  BY DEF Release, TypeInv, TypeOK, shared, used
<1> QED
  BY <1>1, <1>2, LeaveType DEF Release

LEMMA TypeFault ==
  ASSUME TypeInv, NEW p \in Procs, Fault(p)
  PROVE  TypeInv'
<1>0. /\ UNCHANGED <<lease, mine, rows, dueIn, starts, sleeps>>
      /\ faults < MaxFaults /\ faults' = faults + 1
  BY DEF Fault, leaseVars
<1>1. /\ LeaseTypeOK' /\ faults' \in 0..MaxFaults
      /\ starts' \in 0..MaxStarts /\ sleeps' \in 0..MaxSleeps
  BY <1>0, BoundsAssumption DEF TypeInv, TypeOK, LeaseTypeOK
<1>2. ASSUME age' \in [Procs -> 0..RENEW], cool' \in SUBSET Strategies,
             UNCHANGED <<yielded, returned, stray, lag>>
      PROVE  RestTypeOK'
  BY <1>0, <1>1, <1>2 DEF TypeInv, TypeOK, RestTypeOK
<1>3. ASSUME UNCHANGED <<age, cool, yielded, returned, stray, lag>>
      PROVE  RestTypeOK'
  BY <1>2, <1>3 DEF TypeInv, TypeOK
<1>4. CASE /\ pc[p] \in {"enter", "scan", "ask", "llm", "write"}
           /\ Return(p, "error")
           /\ cool' \in {cool, cool \cup {Current(p)}}
           /\ age' \in {age, [age EXCEPT ![p] = 0]}
           /\ UNCHANGED <<yielded, returned, stray, lag>>
  <2>1. pc[p] \in Working
    BY <1>4 DEF Working
  <2>2. Current(p) \in Strategies /\ cool \in SUBSET Strategies
    BY <2>1, CurrentType DEF TypeInv, TypeOK
  <2>3. age \in [Procs -> 0..RENEW] /\ 0 \in 0..RENEW
    BY RenewAssumption DEF TypeInv, TypeOK
  <2>4. cool' \in SUBSET Strategies /\ age' \in [Procs -> 0..RENEW]
    BY <1>4, <2>2, <2>3
  <2>5. RestTypeOK'
    BY <1>2, <1>4, <2>4
  <2> QED
    BY <1>0, <1>4, <2>1, <2>5, ReturnType
<1>5. CASE /\ Go(p, "release")
           /\ UNCHANGED <<run, cool, age, yielded, returned, stray, lag>>
  <2>1. "release" \in Points /\ "release" \notin Working
    BY DEF Points, Working
  <2> QED
    BY <1>0, <1>3, <1>5, <2>1, GoOnType
<1>6. CASE /\ Go(p, "close")
           /\ Set(p, [run[p] EXCEPT !.failed = TRUE])
           /\ UNCHANGED <<cool, age, yielded, returned, stray, lag>>
  <2> DEFINE state == [run[p] EXCEPT !.failed = TRUE]
  <2>1. "close" \in Points /\ "close" \notin Working
    BY DEF Points, Inside, Working
  <2>2. state \in RunState /\ state.resume = run[p].resume
    BY PlacedFacts DEF RunState
  <2>3. /\ pc' = [pc EXCEPT ![p] = "close"]
        /\ run' = [run EXCEPT ![p] = state]
    BY <1>6 DEF Go, Set
  <2>4. /\ rows' \in Seq(Row) /\ Len(rows') >= Len(rows)
        /\ run[p].resume \in 0..Len(rows')
    BY <1>0, PlacedFacts
  <2>5. RestTypeOK'
    BY <1>3, <1>6
  <2> HIDE DEF state
  <2> QED
    BY <2>1, <2>2, <2>3, <2>4, <2>5, StepType
<1>7. CASE Leave(p, "idle") /\ UNCHANGED cool
  BY <1>0, <1>1, <1>7, LeaveType
<1> QED
  BY <1>4, <1>5, <1>6, <1>7 DEF Fault

LEMMA TypeCrash ==
  ASSUME TypeInv, NEW p \in Procs, Crash(p)
  PROVE  TypeInv'
<1>1. /\ LeaseTypeOK' /\ UNCHANGED <<rows, cool, dueIn>>
      /\ starts' \in 0..MaxStarts
      /\ faults' \in 0..MaxFaults /\ sleeps' \in 0..MaxSleeps
  BY DEF Crash, TypeInv, TypeOK, LeaseTypeOK, leaseVars, shared, used
<1> QED
  BY <1>1, LeaveType DEF Crash

\* Steps of the environment change neither pc, nor run, nor rows.
LEMMA TypeEnvironment ==
  ASSUME TypeInv, UNCHANGED <<pc, run, rows>>, RestTypeOK'
  PROVE  TypeInv'
<1>1. TypeOK'
  BY DEF TypeInv, TypeOK, RestTypeOK
<1> QED
  BY <1>1 DEF TypeInv, Placed

LEMMA TypeInit == Init => TypeInv
<1> SUFFICES ASSUME Init PROVE TypeInv
  OBVIOUS
<1>1. LeaseTypeOK
  BY LeaseInitInv DEF Init, LeaseInv
<1>2. /\ age \in [Procs -> 0..RENEW] /\ dueIn \in 0..Interval
      /\ starts \in 0..MaxStarts /\ faults \in 0..MaxFaults
      /\ sleeps \in 0..MaxSleeps
  BY RenewAssumption, BoundsAssumption DEF Init
<1>3. /\ yielded \in [Procs -> BOOLEAN] /\ returned \in [Procs -> BOOLEAN]
      /\ cool \in SUBSET Strategies
      /\ stray \in [Procs -> Nat] /\ lag \in [Procs -> Nat]
  BY DEF Init
<1>4. pc \in [Procs -> Points]
  BY DEF Init, Points
<1>5. run \in [Procs -> RunState]
  BY NoRunType DEF Init
<1>6. rows \in Seq(Row) /\ Len(rows) = 0
  BY DEF Init
<1>7. \A p \in Procs : Placed(p)
  <2>1. NoRun.resume = 0
    BY DEF NoRun
  <2>2. "idle" \notin Working /\ "idle" # "record"
    BY DEF Working
  <2>3. ASSUME NEW p \in Procs PROVE Placed(p)
    <3>1. run[p] = NoRun /\ pc[p] = "idle"
      BY DEF Init
    <3>2. run[p].resume \in 0..Len(rows)
      BY <1>6, <2>1, <3>1
    <3> QED
      BY <2>2, <3>1, <3>2 DEF Placed
  <2> QED
    BY <2>3
<1> QED
  BY <1>1, <1>2, <1>3, <1>4, <1>5, <1>6, <1>7 DEF TypeInv, TypeOK

LEMMA TypeNext == TypeInv /\ [Next]_vars => TypeInv'
<1> SUFFICES ASSUME TypeInv, [Next]_vars PROVE TypeInv'
  OBVIOUS
<1>1. ASSUME NEW p \in Procs, Step(p) PROVE TypeInv'
  BY <1>1, TypeAcquire, TypeLifecycle, TypeOpen, TypeLoop, TypeEnter,
     TypeScan, TypeAsk, TypeLlmReturns, TypeWrite, TypeRecord, TypeRenew,
     TypeClose, TypeRelease DEF Step
<1>2. CASE Activity
  <2>1. returned' \in [Procs -> BOOLEAN]
    BY <1>2 DEF Activity
  <2> QED
    BY <1>2, <2>1, TypeEnvironment
    DEF Activity, TypeInv, TypeOK, RestTypeOK, LeaseTypeOK, leaseVars, shared,
        used
<1>3. CASE CooldownEnds
  <2>1. RestTypeOK'
    BY <1>3 DEF CooldownEnds, TypeInv, TypeOK, RestTypeOK, LeaseTypeOK,
                leaseVars, local, used
  <2> QED
    BY <1>3, <2>1, TypeEnvironment DEF CooldownEnds, local
<1>4. CASE Tick
  <2>1. LeaseTypeOK'
    BY <1>4, PassType DEF Tick, TypeInv, TypeOK
  <2>2. age' \in [Procs -> 0..RENEW] /\ dueIn' \in 0..Interval
    BY <1>4, RenewAssumption, BoundsAssumption DEF Tick, TypeInv, TypeOK
  <2>3. RestTypeOK'
    BY <1>4, <2>1, <2>2 DEF Tick, TypeInv, TypeOK, RestTypeOK, used
  <2> QED
    BY <1>4, <2>3, TypeEnvironment DEF Tick
<1>5. CASE Sleep
  <2>1. LeaseTypeOK'
    <3>1. LeaseTypeOK
      BY DEF TypeInv, TypeOK
    <3>2. /\ lease' = [lease EXCEPT !.left = Expired]
          /\ mine' = [p \in Procs |-> Expired]
      BY <1>5 DEF Sleep
    <3>3. Expired \in Expired..TTL
      BY TTLAssumption DEF Expired
    <3> QED
      BY <3>1, <3>2, <3>3 DEF LeaseTypeOK
  <2>2. sleeps' \in 0..MaxSleeps
    BY <1>5, BoundsAssumption DEF Sleep, TypeInv, TypeOK
  <2>3. RestTypeOK'
    BY <1>5, <2>1, <2>2
    DEF Sleep, TypeInv, TypeOK, RestTypeOK, local, shared
  <2> QED
    BY <1>5, <2>3, TypeEnvironment DEF Sleep, local, shared
<1>6. CASE UNCHANGED vars
  BY <1>6, TypeEnvironment
  DEF vars, local, shared, used, TypeInv, TypeOK, RestTypeOK, LeaseTypeOK
<1> QED
  BY <1>1, <1>2, <1>3, <1>4, <1>5, <1>6, TypeStart, TypeFault, TypeCrash
  DEF Next

\* Every variable of the shift machine stays in its type, whatever the
\* interleaving, the faults and the crashes.
THEOREM TypeCorrect == Spec => []TypeOK
<1>1. TypeInv => TypeOK
  BY DEF TypeInv
<1> QED
  BY <1>1, TypeInit, TypeNext, PTL DEF Spec

-----------------------------------------------------------------------------
\* Its safety properties.

\* The shift machine touches the lease row by lease.py's operations only;
\* a machine asleep lets it expire.
LEMMA LeaseStep ==
  ASSUME [Next]_vars
  PROVE  [LeaseNext]_leaseVars \/ Sleep
<1>1. ASSUME NEW p \in Procs, Step(p)
      PROVE  [LeaseNext]_leaseVars
  <2>1. ASSUME KeepaliveTrue(p) \/ KeepaliveFalse(p)
        PROVE  [LeaseNext]_leaseVars
    BY <2>1 DEF KeepaliveTrue, KeepaliveFalse, LeaseNext, leaseVars
  <2>2. CASE Acquire(p) \/ Renew(p) \/ Release(p)
    BY <2>2 DEF Acquire, Renew, Release, LeaseNext
  <2>3. CASE Scan(p) \/ Ask(p)
    BY <2>1, <2>3 DEF Scan, Ask
  <2>4. CASE \/ Lifecycle(p) \/ Open(p) \/ Loop(p) \/ Enter(p)
             \/ LlmReturns(p) \/ Write(p) \/ Record(p) \/ Close(p)
    BY <2>4 DEF Lifecycle, Open, Loop, Enter, LlmReturns, Write, Record, Close
  <2> QED
    BY <1>1, <2>2, <2>3, <2>4 DEF Step
<1>2. ASSUME NEW p \in Procs, Start(p) \/ Fault(p) \/ Crash(p)
      PROVE  UNCHANGED leaseVars
  BY <1>2 DEF Start, Fault, Crash, leaseVars
<1>3. CASE Activity \/ CooldownEnds \/ UNCHANGED vars
  BY <1>3 DEF Activity, CooldownEnds, vars, leaseVars
<1>4. CASE Tick
  BY <1>4 DEF Tick, LeaseNext
<1> QED
  BY <1>1, <1>2, <1>3, <1>4 DEF Next

LEMMA SleepInv ==
  ASSUME LeaseInv, Sleep
  PROVE  LeaseInv'
<1>1. LeaseTypeOK'
  BY TTLAssumption DEF Sleep, LeaseInv, LeaseTypeOK, Expired
<1>2. PromiseKept'
  BY DEF Sleep, PromiseKept, Expired
<1> QED
  BY <1>1, <1>2 DEF LeaseInv

LEMMA ShiftLeaseInv == LeaseInv /\ [Next]_vars => LeaseInv'
  BY LeaseStep, LeaseNextInv, SleepInv

\* No path of run_dream, no fault and no crash takes a live lease away.
THEOREM ShiftKeepsPromise == Spec => []PromiseKept
<1>1. Init => LeaseInv
  BY LeaseInitInv DEF Init
<1>2. LeaseInv => PromiseKept
  BY DEF LeaseInv
<1> QED
  BY <1>1, <1>2, ShiftLeaseInv, PTL DEF Spec

\* run_dream implements exclusive, expiring grants, on a machine that does
\* not sleep.
THEOREM ShiftRefinesGrant ==
  ASSUME MaxSleeps = 0
  PROVE  Spec => GrantsSpec
<1>1. Init => Grants!Init
  BY DEF Init, LeaseInit, Expired, Grants!Init
<1>2. Init => TypeInv /\ LeaseInv
  BY TypeInit, LeaseInitInv DEF Init
<1>3. TypeInv /\ LeaseInv /\ [Next]_vars => TypeInv' /\ LeaseInv'
  BY TypeNext, ShiftLeaseInv
<1>4. TypeInv /\ LeaseInv /\ [Next]_vars => [Grants!Next]_mine
  <2> SUFFICES ASSUME TypeInv, LeaseInv, [Next]_vars
               PROVE  [Grants!Next]_mine
    OBVIOUS
  <2>1. ~ Sleep
    BY DEF Sleep, TypeInv, TypeOK
  <2> QED
    BY <2>1, LeaseStep, LeaseStepIsGrantStep
<1> QED
  BY <1>1, <1>2, <1>3, <1>4, PTL DEF Spec, GrantsSpec, Grants!Spec

-----------------------------------------------------------------------------
\* FreedOnExit is inductive once nothing can raise in the finally clause.

LEMMA FreedStep ==
  ASSUME TypeInv, FreedOnExit, [Next]_vars,
         FaultPoints \cap {"close", "release"} = {}
  PROVE  FreedOnExit'
<1> SUFFICES ASSUME NEW q \in Procs, pc'[q] \in {"idle", "due"}
             PROVE  lease'.holder # q
  BY DEF FreedOnExit
<1>1. pc \in [Procs -> Points] /\ run \in [Procs -> RunState]
  BY DEF TypeInv, TypeOK
<1>2. q # NoProc
  BY NoProcAssumption
\* Nobody but q writes q's name into the row.
<1>3. ASSUME NEW p \in Procs, p # q,
             \/ UNCHANGED leaseVars \/ AcquireLease(p) \/ RenewLease(p)
             \/ ReleaseLease(p),
             pc'[q] = pc[q]
      PROVE  lease'.holder # q
  <2>1. lease.holder # q
    BY <1>3 DEF FreedOnExit
  <2> QED
    BY <1>2, <1>3, <2>1
    DEF AcquireLease, RenewLease, ReleaseLease, Take, Free, leaseVars
<1>4. ASSUME NEW p \in Procs, Start(p) PROVE lease'.holder # q
  <2>1. pc'[q] = pc[q] \/ pc[q] = "idle"
    BY <1>1, <1>4 DEF Start, Go
  <2>2. pc[q] \in {"idle", "due"}
    BY <2>1
  <2> QED
    BY <1>4, <2>2 DEF Start, FreedOnExit
<1>5. ASSUME NEW p \in Procs, Acquire(p) PROVE lease'.holder # q
  <2>1. CASE p # q
    <3>1. pc'[q] = pc[q]
      BY <1>1, <1>5, <2>1 DEF Acquire, Go, Leave
    <3> QED
      BY <1>3, <1>5, <2>1, <3>1 DEF Acquire
  <2>2. CASE p = q
    <3>1. ~ Go(q, "lifecycle")
      BY <1>1 DEF Go
    <3> QED
      BY <1>5, <2>2, <3>1 DEF Acquire, Acquires, leaseVars
  <2> QED
    BY <2>1, <2>2
<1>6. ASSUME NEW p \in Procs, Release(p) PROVE lease'.holder # q
  <2>1. CASE p # q
    <3>1. pc'[q] = pc[q]
      BY <1>1, <1>6, <2>1 DEF Release, Go, Leave
    <3> QED
      BY <1>3, <1>6, <2>1, <3>1 DEF Release
  <2>2. CASE p = q
    BY <1>2, <1>6, <2>2 DEF Release, ReleaseLease, Free, leaseVars
  <2> QED
    BY <2>1, <2>2
\* The other steps of a shift do not end it.
<1>7. ASSUME NEW p \in Procs, NEW point \in Points \ {"idle", "due"},
             \/ pc' = [pc EXCEPT ![p] = point] \/ UNCHANGED pc,
             \/ UNCHANGED leaseVars \/ RenewLease(p)
      PROVE  lease'.holder # q
  <2>1. pc'[q] = pc[q] /\ (p = q => UNCHANGED pc)
    BY <1>1, <1>7
  <2>2. lease.holder # q
    BY <2>1 DEF FreedOnExit
  <2> QED
    BY <1>2, <1>7, <2>2 DEF RenewLease, Renews, Take, leaseVars
<1>8. ASSUME NEW p \in Procs,
             \/ Lifecycle(p) \/ Open(p) \/ Loop(p) \/ Enter(p) \/ Scan(p)
             \/ Ask(p) \/ LlmReturns(p) \/ Write(p) \/ Record(p) \/ Renew(p)
             \/ Close(p)
      PROVE  lease'.holder # q
  <2>1. UNCHANGED leaseVars \/ RenewLease(p)
    BY <1>8 DEF Lifecycle, Open, Loop, Enter, Scan, Ask, LlmReturns, Write,
      Record, Renew, Close, KeepaliveTrue, KeepaliveFalse, leaseVars
  <2> DEFINE stays(point) ==
        point \in Points \ {"idle", "due"} /\ pc' = [pc EXCEPT ![p] = point]
  <2>2. CASE Lifecycle(p) \/ Open(p) \/ Close(p) \/ Record(p) \/ Write(p)
    <3>1. stays("open") \/ stays("loop") \/ stays("release")
          \/ stays("renew") \/ stays("scan") \/ stays("record")
      BY <2>2 DEF Lifecycle, Open, Close, Record, Write, Go, Return, Points,
        Inside
    <3> QED
      BY <1>7, <2>1, <3>1
  <2>3. CASE Loop(p)
    <3>1. UNCHANGED pc \/ stays("close") \/ stays("enter") \/ stays("scan")
          \/ stays("write")
      BY <2>3 DEF Loop, Go, Skip, EntryPoint, Points, Inside
    <3>2. "loop" \in Points \ {"idle", "due"}
      BY DEF Points, Inside
    <3> QED
      BY <1>7, <2>1, <3>1, <3>2
  <2>4. CASE Enter(p) \/ LlmReturns(p) \/ Ask(p)
    <3>1. stays("record") \/ stays("scan") \/ stays("write") \/ stays("llm")
      BY <2>4 DEF Enter, LlmReturns, Ask, Go, Return, Points, Inside
    <3> QED
      BY <1>7, <2>1, <3>1
  <2>5. CASE Scan(p)
    <3>1. stays("record") \/ stays("scan") \/ stays("write") \/ stays("ask")
      BY <2>5 DEF Scan, Yield, BeginUnit, Go, Return, Points, Inside
    <3> QED
      BY <1>7, <2>1, <3>1
  <2>6. CASE Renew(p)
    <3>1. stays("loop") \/ stays("close")
      BY <2>6 DEF Renew, Go, Points, Inside
    <3> QED
      BY <1>7, <2>1, <3>1
  <2> QED
    BY <1>8, <2>2, <2>3, <2>4, <2>5, <2>6
<1>9. ASSUME NEW p \in Procs, Fault(p) PROVE lease'.holder # q
  <2>1. UNCHANGED leaseVars
    BY <1>9 DEF Fault
  <2>2. \/ \E point \in Points \ {"idle", "due"} : pc' = [pc EXCEPT ![p] = point]
        \/ pc[p] = "due" /\ pc' = [pc EXCEPT ![p] = "idle"]
    BY <1>9 DEF Fault, Return, Go, Leave, Points, Inside
  <2>3. CASE pc[p] = "due" /\ pc' = [pc EXCEPT ![p] = "idle"]
    BY <1>1, <2>1, <2>3 DEF FreedOnExit, leaseVars
  <2> QED
    BY <1>7, <2>1, <2>2, <2>3
<1>10. ASSUME NEW p \in Procs, Crash(p) PROVE lease'.holder # q
  <2>1. UNCHANGED leaseVars /\ "down" \in Points \ {"idle", "due"}
    BY <1>10 DEF Crash, Points
  <2>2. pc' = [pc EXCEPT ![p] = "down"]
    BY <1>10 DEF Crash, Leave, Go
  <2> QED
    BY <1>7, <2>1, <2>2
<1>11. ASSUME UNCHANGED pc, lease'.holder = lease.holder
       PROVE  lease'.holder # q
  BY <1>11 DEF FreedOnExit
<1>12. CASE Activity \/ CooldownEnds \/ Tick \/ Sleep \/ UNCHANGED vars
  <2>1. UNCHANGED pc
    BY <1>12 DEF Activity, CooldownEnds, Tick, Sleep, vars, local
  <2>2. lease'.holder = lease.holder
    BY <1>12 DEF Activity, CooldownEnds, Tick, PassTime, Sleep, vars,
      leaseVars, TypeInv, TypeOK, LeaseTypeOK
  <2> QED
    BY <1>11, <2>1, <2>2
<1> QED
  BY <1>4, <1>5, <1>6, <1>8, <1>9, <1>10, <1>12 DEF Next, Step

\* However run_dream returns (lease held, every strategy run, lease lost, an
\* exception in the setup or between strategies), the row does not name the
\* process afterwards, unless the finally clause itself raises.
THEOREM ShiftFreesLease ==
  ASSUME FaultPoints \cap {"close", "release"} = {}
  PROVE  Spec => []FreedOnExit
<1>1. Init => FreedOnExit
  BY NoProcAssumption DEF Init, LeaseInit, Free, FreedOnExit
<1>2. TypeInv /\ FreedOnExit /\ [Next]_vars => FreedOnExit'
  BY FreedStep
<1> QED
  BY <1>1, <1>2, TypeInit, TypeNext, PTL DEF Spec

-----------------------------------------------------------------------------
\* What p does leaves what another process knows, and nobody writes another
\* one's name into the row.
Undisturbed(q) ==
    /\ pc'[q] = pc[q] /\ run'[q] = run[q]
    /\ age'[q] = age[q] /\ yielded'[q] = yielded[q] /\ returned'[q] = returned[q]
    /\ stray'[q] = stray[q] /\ lag'[q] = lag[q]
    /\ mine'[q] = mine[q]
    /\ lease.holder # q => lease'.holder # q

LEMMA OneAtATime ==
  ASSUME TypeInv, NEW p \in Procs, NEW q \in Procs, p # q,
         Start(p) \/ Step(p) \/ Fault(p) \/ Crash(p)
  PROVE  Undisturbed(q)
<1> DEFINE same ==
      /\ pc'[q] = pc[q] /\ run'[q] = run[q]
      /\ age'[q] = age[q] /\ yielded'[q] = yielded[q] /\ returned'[q] = returned[q]
      /\ stray'[q] = stray[q] /\ lag'[q] = lag[q]
<1>1. /\ pc \in [Procs -> Points] /\ run \in [Procs -> RunState]
      /\ age \in [Procs -> 0..RENEW] /\ yielded \in [Procs -> BOOLEAN]
      /\ returned \in [Procs -> BOOLEAN]
      /\ stray \in [Procs -> Nat] /\ lag \in [Procs -> Nat]
      /\ mine \in [Procs -> Expired..TTL]
  BY DEF TypeInv, TypeOK, LeaseTypeOK
<1>2. same
  <2>1. CASE Start(p) \/ Acquire(p) \/ Lifecycle(p) \/ Open(p)
    BY <1>1, <2>1 DEF Start, Acquire, Lifecycle, Open, Go, Set, Leave
  <2>2. CASE Loop(p)
    BY <1>1, <2>2 DEF Loop, NotePreempted, Skip, Go, Set
  <2>3. CASE Enter(p) \/ LlmReturns(p) \/ Write(p)
    BY <1>1, <2>3 DEF Enter, NotePreempted, LlmReturns, Write, Return, Go, Set
  <2>4. CASE Ask(p)
    BY <1>1, <2>4 DEF Ask, KeepaliveTrue, KeepaliveFalse, Return, Go, Set
  <2>5. CASE Scan(p)
    <3>1. /\ UNCHANGED <<stray, returned>>
          /\ age' = age \/ age' = [age EXCEPT ![p] = 0]
          /\ yielded' = yielded \/ yielded' = [yielded EXCEPT ![p] = TRUE]
      BY <2>5 DEF Scan, KeepaliveTrue, KeepaliveFalse
    <3>2. \E point : Go(p, point)
      BY <2>5 DEF Scan, Yield, Return, BeginUnit
    <3>3. run' = run \/ \E state : Set(p, state)
      BY <2>5 DEF Scan, Yield, Return, BeginUnit
    <3>4. lag' = lag \/ \E n : lag' = [lag EXCEPT ![p] = n]
      BY <2>5 DEF Scan, BeginUnit
    <3> QED
      BY <1>1, <3>1, <3>2, <3>3, <3>4 DEF Go, Set
  <2>6. CASE Record(p) \/ Renew(p) \/ Close(p)
    BY <1>1, <2>6 DEF Record, Renew, Close, Go, Set
  <2>7. CASE Release(p) \/ Crash(p)
    BY <1>1, <2>7 DEF Release, Crash, Go, Set, Leave
  <2>8. CASE Fault(p)
    BY <1>1, <2>8 DEF Fault, Return, Go, Set, Leave
  <2> QED
    BY <2>1, <2>2, <2>3, <2>4, <2>5, <2>6, <2>7, <2>8 DEF Step
<1>3. \/ UNCHANGED leaseVars \/ AcquireLease(p) \/ RenewLease(p) \/ ReleaseLease(p)
  <2>1. CASE Scan(p) \/ Ask(p)
    BY <2>1 DEF Scan, Ask, KeepaliveTrue, KeepaliveFalse, leaseVars
  <2>2. CASE ~ (Scan(p) \/ Ask(p))
    BY <2>2 DEF Step, Start, Acquire, Lifecycle, Open, Loop, Enter, LlmReturns, Write,
      Record, Renew, Close, Release, Fault, Crash, leaseVars
  <2> QED
    BY <2>1, <2>2
<1>4. mine'[q] = mine[q]
  BY <1>1, <1>3 DEF AcquireLease, RenewLease, ReleaseLease, Take, leaseVars
<1>5. lease.holder # q => lease'.holder # q
  <2>1. q # NoProc
    BY NoProcAssumption
  <2> QED
    BY <1>3, <2>1 DEF AcquireLease, RenewLease, ReleaseLease, Take, Free, leaseVars
<1> QED
  BY <1>2, <1>4, <1>5 DEF Undisturbed

-----------------------------------------------------------------------------
\* PromptYield is not inductive: the units begun since the user is back are
\* counted by the shift's own counter, which starts again only at a check, and
\* no check passes a user who is back.

Outside == {"idle", "due", "lifecycle", "open", "down"}
Counted(p) ==
    /\ lag[p] <= run[p].ticks /\ run[p].ticks < CheckEvery
    /\ lag[p] > 0 => pc[p] \notin Outside
    /\ lag[p] > 0 /\ pc[p] \in Inside => returned[p]
YieldInv == \A p \in Procs : Counted(p)

\* A step of p that begins no unit and ends no shift.
Keeps(p) ==
    /\ lag'[p] = lag[p] /\ returned'[p] = returned[p]
    /\ run'[p].ticks = run[p].ticks
    /\ pc'[p] \in Outside => pc[p] \in Outside
    /\ pc'[p] \in Inside => pc[p] \in Inside \cup Outside

LEMMA KeepsCounted ==
  ASSUME TypeInv, NEW p \in Procs, Counted(p), Keeps(p)
  PROVE  Counted(p)'
  BY DEF Counted, Keeps, Outside, Inside, TypeInv, TypeOK

\* run_dream's step after a strategy leaves the shift's row and its counter.
LEMMA RenewKeeps ==
  ASSUME TypeInv, NEW p \in Procs, Renew(p)
  PROVE  run'[p].ticks = run[p].ticks /\ run'[p].id = run[p].id
<1>1. run[p] \in RunState /\ run[p].at + 1 \in Nat \ {0}
  BY PlacedFacts DEF RunState
<1>2. ASSUME NEW state \in RunState, Set(p, state),
             state.ticks = run[p].ticks, state.id = run[p].id
      PROVE  run'[p].ticks = run[p].ticks /\ run'[p].id = run[p].id
  BY <1>2, SetType
<1>3. CASE Set(p, [run[p] EXCEPT !.at = @ + 1, !.result = "none"])
  <2>1. /\ [run[p] EXCEPT !.at = @ + 1, !.result = "none"] \in RunState
        /\ [run[p] EXCEPT !.at = @ + 1, !.result = "none"].ticks = run[p].ticks
        /\ [run[p] EXCEPT !.at = @ + 1, !.result = "none"].id = run[p].id
    BY <1>1 DEF RunState
  <2> QED
    BY <1>2, <1>3, <2>1
<1>4. CASE Set(p, [run[p] EXCEPT !.aborted = TRUE])
  <2>1. /\ [run[p] EXCEPT !.aborted = TRUE] \in RunState
        /\ [run[p] EXCEPT !.aborted = TRUE].ticks = run[p].ticks
        /\ [run[p] EXCEPT !.aborted = TRUE].id = run[p].id
    BY <1>1 DEF RunState
  <2> QED
    BY <1>2, <1>4, <2>1
<1> QED
  BY <1>3, <1>4 DEF Renew

LEMMA NoRunTicks == NoRun.ticks = 0
  BY DEF NoRun

LEMMA LeaveCounted ==
  ASSUME TypeInv, NEW p \in Procs, NEW point, Leave(p, point)
  PROVE  Counted(p)'
<1>1. lag'[p] = 0 /\ run'[p].ticks = 0
  BY NoRunTicks DEF Leave, Set, TypeInv, TypeOK
<1> QED
  BY <1>1, CheckAssumption DEF Counted

LEMMA OthersCounted ==
  ASSUME NEW q \in Procs, Counted(q), Undisturbed(q)
  PROVE  Counted(q)'
  BY DEF Counted, Undisturbed

\* The next unit: past a check only if nobody is back, else counted with the
\* ticks.
LEMMA ScanCounted ==
  ASSUME TypeInv, NEW p \in Procs, Counted(p), Scan(p)
  PROVE  Counted(p)'
<1>1. /\ pc \in [Procs -> Points] /\ run \in [Procs -> RunState]
      /\ lag \in [Procs -> Nat] /\ returned \in [Procs -> BOOLEAN]
  BY DEF TypeInv, TypeOK
<1>2. returned' = returned /\ pc[p] = "scan" /\ run[p].ticks \in Nat
  BY <1>1 DEF Scan, RunState
<1>3. CASE UNCHANGED lag /\ (\/ Yield(p) \/ Return(p, "ok")
                            \/ (Go(p, "write") /\ UNCHANGED run))
  <2>1. Keeps(p)
    <3>1. \/ Go(p, "write") /\ UNCHANGED run
          \/ \E result : Go(p, "record") /\ Set(p, [run[p] EXCEPT !.result = result])
      BY <1>3 DEF Yield, Return
    <3>2. run'[p].ticks = run[p].ticks
      BY <1>1, <3>1 DEF Set, RunState
    <3>3. pc'[p] \in {"write", "record"}
      BY <1>1, <3>1 DEF Go
    <3> QED
      BY <1>2, <1>3, <3>2, <3>3 DEF Keeps, Outside, Inside
  <2> QED
    BY <2>1, KeepsCounted
<1>4. CASE BeginUnit(p) /\ ~ (Checks(p) /\ returned[p])
  <2>1. /\ pc'[p] \in {"scan", "ask"}
        /\ run'[p].ticks = IF run[p].ticks + 1 >= CheckEvery THEN 0 ELSE run[p].ticks + 1
        /\ lag'[p] = IF returned[p] THEN lag[p] + 1 ELSE lag[p]
    BY <1>1, <1>4 DEF BeginUnit, Go, Set, RunState
  <2>2. returned[p] => run[p].ticks + 1 < CheckEvery
    BY <1>2, <1>4, CheckAssumption DEF Checks
  <2>3. lag[p] > 0 => returned[p]
    BY <1>2 DEF Counted, Inside
  <2>4. lag[p] \in Nat /\ lag[p] <= run[p].ticks /\ run[p].ticks < CheckEvery
    BY <1>1 DEF Counted
  <2>5. pc'[p] \notin Outside
    BY <2>1 DEF Outside
  <2> QED
    BY <1>2, <2>1, <2>2, <2>3, <2>4, <2>5, CheckAssumption DEF Counted
<1>5. \/ UNCHANGED lag /\ (\/ Yield(p) \/ Return(p, "ok")
                            \/ (Go(p, "write") /\ UNCHANGED run))
      \/ BeginUnit(p) /\ ~ (Checks(p) /\ returned[p])
  <2>1. CASE run[p].units = 0 /\ UNCHANGED lag
               /\ IF Current(p) \in BatchStrategies
                  THEN Go(p, "write") /\ UNCHANGED run ELSE Return(p, "ok")
    BY <2>1
  <2>2. CASE Yield(p) /\ UNCHANGED lag
    BY <2>2
  <2> QED
    BY <2>1, <2>2, Zenon DEF Scan
<1> QED
  BY <1>3, <1>4, <1>5

LEMMA StepCounted ==
  ASSUME TypeInv, NEW p \in Procs, Counted(p),
         Start(p) \/ Step(p) \/ Fault(p) \/ Crash(p)
  PROVE  Counted(p)'
<1>1. /\ pc \in [Procs -> Points] /\ run \in [Procs -> RunState]
      /\ lag \in [Procs -> Nat] /\ returned \in [Procs -> BOOLEAN]
  BY DEF TypeInv, TypeOK
<1>2. CASE Start(p)
  <2>1. pc[p] = "idle" /\ lag' = lag
    BY <1>2 DEF Start
  <2>2. lag'[p] = 0
    BY <1>1, <2>1 DEF Counted, Outside
  <2>3. PICK plan \in Plans, id \in 0..Len(rows) :
          Set(p, [NoRun EXCEPT !.plan = plan, !.resume = id])
    BY <1>2 DEF Start
  <2>4. [NoRun EXCEPT !.plan = plan, !.resume = id].ticks = 0
    BY NoRunTicks, NoRunType DEF RunState
  <2>5. run'[p].ticks = 0
    BY <1>1, <2>3, <2>4 DEF Set
  <2> QED
    BY <2>2, <2>5, CheckAssumption DEF Counted
<1>3. CASE Acquire(p)
  <2>1. CASE Go(p, "lifecycle") /\ UNCHANGED <<age, yielded, returned, run, stray, lag>>
    <3>1. Keeps(p)
      BY <1>1, <1>3, <2>1 DEF Acquire, Keeps, Go, Outside, Inside
    <3> QED
      BY <3>1, KeepsCounted
  <2> QED
    BY <1>3, <2>1, LeaveCounted DEF Acquire
<1>4. CASE Lifecycle(p) \/ Open(p)
  <2>1. lag' = lag /\ returned' = returned /\ pc[p] \in Outside
    BY <1>4 DEF Lifecycle, Open, Outside
  <2>2. run'[p].ticks = run[p].ticks
    <3>1. CASE Lifecycle(p)
      BY <3>1 DEF Lifecycle
    <3>2. CASE Open(p)
      <4>1. \/ Set(p, [run[p] EXCEPT !.id = run[p].resume,
                                     !.done = rows[run[p].resume].done])
            \/ Set(p, [run[p] EXCEPT !.id = Len(rows) + 1])
        BY <3>2 DEF Open
      <4> QED
        BY <1>1, <4>1 DEF Set, RunState
    <3> QED
      BY <1>4, <3>1, <3>2
  <2> QED
    BY <2>1, <2>2, KeepsCounted DEF Keeps
<1>5. CASE Loop(p)
  <2>1. lag' = lag /\ returned' = returned /\ pc[p] = "loop"
    BY <1>5 DEF Loop
  <2>2. run'[p].ticks = run[p].ticks
    <3>1. ASSUME NEW entry, Skip(p, entry)
          PROVE  run'[p].ticks = run[p].ticks
      BY <1>1, <3>1 DEF Skip, Set, RunState
    <3>2. ASSUME NEW n, NEW staged, Set(p, [run[p] EXCEPT !.units = n, !.staged = staged])
          PROVE  run'[p].ticks = run[p].ticks
      BY <1>1, <3>2 DEF Set, RunState
    <3> QED
      BY <1>5, <3>1, <3>2, LoopCases
  <2>3. pc'[p] \notin Outside
    BY <1>1, <1>5, <2>1, LoopCases DEF Skip, Go, EntryPoint, Outside
  <2> QED
    BY <2>1, <2>2, <2>3, KeepsCounted DEF Keeps, Inside
<1>6. CASE Enter(p) \/ Ask(p) \/ LlmReturns(p) \/ Write(p)
  <2>1. Keeps(p)
    BY <1>1, <1>6 DEF Enter, Ask, LlmReturns, Write, Keeps, Return, Go, Set, Outside,
      Inside, RunState
  <2> QED
    BY <2>1, KeepsCounted
<1>7. CASE Record(p) \/ Renew(p) \/ Close(p)
  <2>1. Keeps(p)
    <3>1. CASE Record(p)
      BY <1>1, <3>1 DEF Record, Keeps, Go, Set, Outside, Inside, RunState
    <3>2. CASE Renew(p)
      <4>1. \/ Set(p, [run[p] EXCEPT !.at = @ + 1, !.result = "none"])
            \/ Set(p, [run[p] EXCEPT !.aborted = TRUE])
        BY <3>2 DEF Renew
      <4>2. run'[p].ticks = run[p].ticks
        BY <3>2, RenewKeeps
      <4>3. /\ lag' = lag /\ returned' = returned /\ pc[p] = "renew"
            /\ Go(p, "loop") \/ Go(p, "close")
        BY <3>2 DEF Renew
      <4> QED
        BY <1>1, <4>2, <4>3 DEF Keeps, Go, Outside, Inside
    <3>3. CASE Close(p)
      BY <1>1, <3>3 DEF Close, Keeps, Go, Outside, Inside
    <3> QED
      BY <1>7, <3>1, <3>2, <3>3
  <2> QED
    BY <2>1, KeepsCounted
<1>8. CASE Fault(p)
  <2>1. CASE pc[p] \in {"due", "close", "release"}
    <3>1. Leave(p, "idle")
      BY <1>8, <2>1 DEF Fault
    <3> QED
      BY <3>1, LeaveCounted
  <2>2. CASE pc[p] \notin {"due", "close", "release"}
    <3>1. Keeps(p)
      BY <1>1, <1>8, <2>2 DEF Fault, Keeps, Return, Go, Set, Outside, Inside, RunState
    <3> QED
      BY <3>1, KeepsCounted
  <2> QED
    BY <2>1, <2>2
<1> QED
  BY <1>2, <1>3, <1>4, <1>5, <1>6, <1>7, <1>8, ScanCounted, LeaveCounted
  DEF Step, Release, Crash

LEMMA YieldStep ==
  ASSUME TypeInv, YieldInv, [Next]_vars
  PROVE  YieldInv'
<1> SUFFICES ASSUME NEW q \in Procs
             PROVE  Counted(q)'
  BY DEF YieldInv
<1>1. Counted(q)
  BY DEF YieldInv
<1>2. ASSUME NEW p \in Procs, Start(p) \/ Step(p) \/ Fault(p) \/ Crash(p)
      PROVE  Counted(q)'
  BY <1>1, <1>2, OneAtATime, OthersCounted, StepCounted
\* The user is back: every shift that works learns of it.
<1>3. CASE Activity
  BY <1>1, <1>3 DEF Activity, Counted
<1>4. CASE CooldownEnds \/ Tick \/ Sleep \/ UNCHANGED vars
  BY <1>1, <1>4 DEF CooldownEnds, Tick, Sleep, vars, local, Counted
<1> QED
  BY <1>2, <1>3, <1>4 DEF Next

\* Once the user is back a shift begins fewer than CheckEvery units, for any
\* interval, any strategies and any plan.
THEOREM ShiftYieldsPromptly == Spec => []PromptYield
<1>1. Init => YieldInv
  <2> SUFFICES ASSUME Init, NEW p \in Procs
               PROVE  Counted(p)
    BY DEF YieldInv
  <2>1. lag[p] = 0 /\ run[p] = NoRun
    BY DEF Init
  <2> QED
    BY <2>1, NoRunTicks, CheckAssumption DEF Counted
<1>2. TypeInv /\ YieldInv => PromptYield
  <2> SUFFICES ASSUME TypeInv, NEW p \in Procs, Counted(p)
               PROVE  lag[p] < CheckEvery
    BY DEF YieldInv, PromptYield
  <2>1. lag[p] \in Nat /\ run[p].ticks \in Nat
    BY DEF TypeInv, TypeOK, RunState
  <2> QED
    BY <2>1, CheckAssumption DEF Counted
<1>3. TypeInv /\ YieldInv /\ [Next]_vars => YieldInv'
  BY YieldStep
<1> QED
  BY <1>1, <1>2, <1>3, TypeInit, TypeNext, PTL DEF Spec

-----------------------------------------------------------------------------
\* OneStrayCommit.  As long as the machine does not sleep, a keepalive that
\* trusts the clock instead of the row is right: while it is recent, what is
\* left of the expiry p wrote and the age of that expiry make RENEW ticks at
\* least.  So a process whose row was taken learns of it at its next look, and
\* what is then in front of it is not another commit.

Trusting == {"loop", "enter", "scan", "ask", "llm", "write"}
Finishing == {"scan", "record", "renew", "close", "release"}
Fresh(p) ==
    /\ pc[p] \in Outside => age[p] = RENEW
    /\ pc[p] \in Trusting /\ ~yielded[p] /\ Recent(p) => mine[p] + age[p] >= RENEW
Once(p) ==
    /\ stray[p] <= 1
    /\ stray[p] = 1 => /\ lease.holder # p
                       /\ pc[p] \in Finishing
                       /\ pc[p] = "scan" => Current(p) \notin BatchStrategies
Noticed(p) == Fresh(p) /\ Once(p)
StrayInv == sleeps = 0 => \A p \in Procs : Noticed(p)

LEMMA OthersNoticed ==
  ASSUME NEW q \in Procs, Noticed(q), Undisturbed(q)
  PROVE  Noticed(q)'
<1>1. Fresh(q)'
  BY DEF Noticed, Fresh, Recent, Undisturbed
<1>2. Once(q)'
  <2>1. Current(q)' = Current(q)
    BY DEF Current, Undisturbed
  <2> QED
    BY <2>1 DEF Noticed, Once, Undisturbed
<1> QED
  BY <1>1, <1>2 DEF Noticed

LEMMA LeaveNoticed ==
  ASSUME TypeInv, NEW p \in Procs, NEW point \in {"idle", "down"}, Leave(p, point)
  PROVE  Noticed(p)'
<1>1. pc'[p] = point /\ age'[p] = RENEW /\ stray'[p] = 0
  BY DEF Leave, Go, TypeInv, TypeOK
<1> QED
  BY <1>1 DEF Noticed, Fresh, Once, Trusting

\* A step that neither commits nor touches the lease, after which p trusts its
\* clock only if it did.
LEMMA CalmNoticed ==
  ASSUME TypeInv, NEW p \in Procs, Noticed(p),
         UNCHANGED leaseVars, stray' = stray, age'[p] = age[p],
         yielded[p] => yielded'[p],
         pc'[p] \in Outside => pc[p] \in Outside,
         pc'[p] \in Trusting => pc[p] \in Trusting \/ pc[p] \in Outside,
         pc[p] \in Finishing => pc'[p] \in Finishing \ {"scan"}
  PROVE  Noticed(p)'
<1>1. Fresh(p)'
  <2>1. age[p] \in 0..RENEW /\ mine' = mine
    BY DEF TypeInv, TypeOK, leaseVars
  <2>2. pc[p] \in Outside => ~ Recent(p)'
    BY <2>1, RenewAssumption DEF Noticed, Fresh, Recent
  <2> QED
    BY <2>1, <2>2 DEF Noticed, Fresh, Recent
<1>2. Once(p)'
  BY DEF Noticed, Once, leaseVars
<1> QED
  BY <1>1, <1>2 DEF Noticed

\* What a keepalive that answers True has seen.
LEMMA KeepaliveSees ==
  ASSUME TypeInv, LeaseInv, NEW p \in Procs, Noticed(p), KeepaliveTrue(p),
         pc[p] \in Trusting
  PROVE  /\ lease.holder = p
         /\ mine'[p] + age'[p] >= RENEW
<1>1. age \in [Procs -> 0..RENEW] /\ mine \in [Procs -> Expired..TTL]
  BY DEF TypeInv, TypeOK, LeaseTypeOK
<1>2. CASE Recent(p)
  <2>1. mine' = mine /\ age' = age
    BY <1>2 DEF KeepaliveTrue, leaseVars
  <2>2. mine[p] + age[p] >= RENEW /\ age[p] < RENEW
    BY <1>2 DEF KeepaliveTrue, KeptAlive, Noticed, Fresh, Recent
  <2>3. mine[p] >= 0
    BY <1>1, <2>2, RenewAssumption DEF Expired
  <2>4. lease.holder = p
    BY <2>3 DEF LeaseInv, PromiseKept
  <2> QED
    BY <2>1, <2>2, <2>4
<1>3. CASE ~ Recent(p)
  <2>1. RenewLease(p) /\ age' = [age EXCEPT ![p] = 0]
    BY <1>3 DEF KeepaliveTrue
  <2>2. mine'[p] = TTL /\ age'[p] = 0 /\ lease.holder = p
    BY <1>1, <2>1 DEF RenewLease, Renews, Take
  <2> QED
    BY <2>2, RenewAssumption, TTLAssumption
<1> QED
  BY <1>2, <1>3

LEMMA ScanNoticed ==
  ASSUME TypeInv, LeaseInv, NEW p \in Procs, Noticed(p), Scan(p)
  PROVE  Noticed(p)'
<1>1. /\ pc \in [Procs -> Points] /\ yielded \in [Procs -> BOOLEAN]
      /\ age \in [Procs -> 0..RENEW] /\ pc[p] = "scan" /\ stray' = stray
      /\ stray[p] \in Nat
  BY DEF TypeInv, TypeOK, Scan
<1>2. ASSUME Yield(p) PROVE pc'[p] \in {"write", "record"}
  BY <1>1, <1>2 DEF Yield, Go, Return
<1>3. ASSUME stray[p] = 1, Yield(p) PROVE pc'[p] = "record"
  BY <1>1, <1>3 DEF Yield, Return, Go, Noticed, Once
<1>4. CASE UNCHANGED <<leaseVars, age, yielded>> /\
             IF Current(p) \in BatchStrategies
             THEN Go(p, "write") /\ UNCHANGED run ELSE Return(p, "ok")
  <2>1. pc'[p] \in {"write", "record"} /\ (stray[p] = 1 => pc'[p] = "record")
    BY <1>1, <1>4 DEF Return, Go, Noticed, Once
  <2>2. Fresh(p)'
    BY <1>1, <1>4, <2>1 DEF Noticed, Fresh, Recent, Trusting, Outside, leaseVars
  <2>3. Once(p)'
    BY <1>1, <1>4, <2>1 DEF Noticed, Once, Finishing, leaseVars
  <2> QED
    BY <2>2, <2>3 DEF Noticed
<1>5. CASE KeepaliveFalse(p) /\ Yield(p)
  <2>1. yielded'[p] = TRUE /\ UNCHANGED leaseVars
    BY <1>1, <1>5 DEF KeepaliveFalse
  <2>2. Fresh(p)'
    BY <1>2, <1>5, <2>1 DEF Fresh, Outside
  <2>3. Once(p)'
    BY <1>1, <1>3, <1>5, <2>1 DEF Noticed, Once, Finishing, leaseVars
  <2> QED
    BY <2>2, <2>3 DEF Noticed
<1>6. CASE KeepaliveTrue(p)
  <2>1. lease.holder = p /\ mine'[p] + age'[p] >= RENEW
    BY <1>1, <1>6, KeepaliveSees DEF Trusting
  <2>2. stray[p] = 0
    BY <1>1, <2>1 DEF Noticed, Once
  <2>3. pc'[p] \in {"write", "record", "scan", "ask"}
    <3>1. Yield(p) \/ BeginUnit(p) \/ Go(p, "write") \/ Return(p, "ok")
      BY DEF Scan
    <3> QED
      BY <1>1, <1>2, <3>1 DEF BeginUnit, Go, Return
  <2> QED
    BY <1>1, <2>1, <2>2, <2>3 DEF Noticed, Fresh, Once, Outside
<1>7. \/ UNCHANGED <<leaseVars, age, yielded>> /\
             IF Current(p) \in BatchStrategies
             THEN Go(p, "write") /\ UNCHANGED run ELSE Return(p, "ok")
      \/ KeepaliveFalse(p) /\ Yield(p)
      \/ KeepaliveTrue(p)
  BY Zenon DEF Scan
<1> QED
  BY <1>4, <1>5, <1>6, <1>7

LEMMA AskNoticed ==
  ASSUME TypeInv, LeaseInv, NEW p \in Procs, Noticed(p), Ask(p)
  PROVE  Noticed(p)'
<1>1. /\ pc \in [Procs -> Points] /\ yielded \in [Procs -> BOOLEAN]
      /\ pc[p] = "ask" /\ stray' = stray /\ stray[p] \in Nat
  BY DEF TypeInv, TypeOK, Ask
<1>2. stray[p] = 0
  BY <1>1 DEF Noticed, Once, Finishing
<1>3. CASE KeepaliveTrue(p) /\ Go(p, "llm")
  <2>1. mine'[p] + age'[p] >= RENEW
    BY <1>1, <1>3, KeepaliveSees DEF Trusting
  <2> QED
    BY <1>1, <1>2, <1>3, <2>1 DEF Noticed, Fresh, Once, Go, Outside
<1>4. CASE KeepaliveFalse(p) /\ Return(p, "preempted")
  BY <1>1, <1>2, <1>4 DEF Return, Go, Noticed, Fresh, Once, Outside, Trusting
<1> QED
  BY <1>3, <1>4 DEF Ask

\* A commit: the first one that strays is followed by a look at the row.
LEMMA WriteNoticed ==
  ASSUME TypeInv, NEW p \in Procs, Noticed(p), Write(p)
  PROVE  Noticed(p)'
<1>1. /\ pc \in [Procs -> Points] /\ run \in [Procs -> RunState]
      /\ stray \in [Procs -> Nat]
      /\ pc[p] = "write" /\ UNCHANGED <<leaseVars, age, yielded>>
  BY DEF TypeInv, TypeOK, Write
<1>2. stray[p] = 0
  BY <1>1 DEF Noticed, Once, Finishing
<1>3. stray'[p] = IF run[p].staged /\ lease.holder # p THEN 1 ELSE 0
  BY <1>1, <1>2 DEF Write
<1>4. \/ pc'[p] = "record"
      \/ pc'[p] = "scan" /\ Current(p) \in UnitStrategies /\ Current(p)' = Current(p)
  <2>1. CASE Current(p) \in UnitStrategies
    <3>1. Go(p, "scan") /\ Set(p, [run[p] EXCEPT !.units = @ - 1])
      BY <2>1 DEF Write
    <3>2. run'[p].plan = run[p].plan /\ run'[p].at = run[p].at
      BY <1>1, <3>1 DEF Set, RunState
    <3> QED
      BY <1>1, <2>1, <3>1, <3>2 DEF Go, Current
  <2>2. CASE Current(p) \notin UnitStrategies
    BY <1>1, <2>2 DEF Write, Return, Go
  <2> QED
    BY <2>1, <2>2
<1>5. Fresh(p)'
  BY <1>1, <1>4 DEF Noticed, Fresh, Recent, Outside, Trusting, leaseVars
<1>6. Once(p)'
  <2>1. lease' = lease
    BY <1>1 DEF leaseVars
  <2>2. pc'[p] = "scan" => Current(p)' \notin BatchStrategies
    BY <1>4, ShapesAssumption
  <2>3. pc'[p] \in Finishing
    BY <1>4 DEF Finishing
  <2> QED
    BY <1>3, <2>1, <2>2, <2>3 DEF Once
<1> QED
  BY <1>5, <1>6 DEF Noticed

LEMMA StepNoticed ==
  ASSUME TypeInv, LeaseInv, NEW p \in Procs, Noticed(p),
         Start(p) \/ Step(p) \/ Fault(p) \/ Crash(p)
  PROVE  Noticed(p)'
<1>1. /\ pc \in [Procs -> Points] /\ yielded \in [Procs -> BOOLEAN]
      /\ age \in [Procs -> 0..RENEW] /\ stray \in [Procs -> Nat]
      /\ mine \in [Procs -> Expired..TTL]
  BY DEF TypeInv, TypeOK, LeaseTypeOK
<1>2. CASE Start(p)
  BY <1>1, <1>2 DEF Start, Go, Noticed, Fresh, Once, Outside, Trusting, Finishing
<1>3. CASE Acquire(p)
  <2>1. CASE Go(p, "lifecycle") /\ UNCHANGED <<age, yielded, returned, run, stray, lag>>
    BY <1>1, <1>3, <2>1 DEF Acquire, Go, Noticed, Fresh, Once, Outside, Trusting, Finishing
  <2> QED
    BY <1>3, <2>1, LeaveNoticed DEF Acquire
<1>4. CASE Lifecycle(p) \/ Open(p)
  BY <1>1, <1>4, CalmNoticed DEF Lifecycle, Open, Go, Outside, Trusting, Finishing
<1>5. CASE Loop(p)
  <2>1. /\ UNCHANGED leaseVars /\ stray' = stray /\ age' = age /\ pc[p] = "loop"
        /\ yielded' = yielded \/ NotePreempted(p)
    BY <1>5 DEF Loop
  <2>2. yielded[p] => yielded'[p]
    BY <1>1, <2>1 DEF NotePreempted, Preempted
  <2>3. pc'[p] \notin Outside
    BY <1>1, <1>5, <2>1, LoopCases DEF Skip, Go, EntryPoint, Outside
  <2> QED
    BY <2>1, <2>2, <2>3, CalmNoticed DEF Trusting, Finishing
<1>6. CASE Enter(p) \/ LlmReturns(p)
  <2>1. /\ UNCHANGED leaseVars /\ stray' = stray /\ age' = age
        /\ pc[p] \in {"enter", "llm"}
        /\ yielded' = yielded \/ NotePreempted(p)
    BY <1>6 DEF Enter, LlmReturns
  <2>2. yielded[p] => yielded'[p]
    BY <1>1, <2>1 DEF NotePreempted, Preempted
  <2>3. pc'[p] \in {"record", "scan", "write"}
    BY <1>1, <1>6 DEF Enter, LlmReturns, Return, Go
  <2> QED
    BY <2>1, <2>2, <2>3, CalmNoticed DEF Trusting, Finishing, Outside
<1>7. CASE Record(p) \/ Close(p)
  BY <1>1, <1>7, CalmNoticed DEF Record, Close, Go, Outside, Trusting, Finishing
<1>8. CASE Renew(p)
  <2>1. /\ stray' = stray /\ age' = age /\ yielded' = yielded /\ pc[p] = "renew"
    BY <1>8 DEF Renew
  <2>2. CASE RenewLease(p) /\ Go(p, "loop")
    <3>1. stray[p] = 0
      BY <1>1, <2>2 DEF RenewLease, Renews, Noticed, Once
    <3>2. mine'[p] = TTL /\ pc'[p] = "loop"
      BY <1>1, <2>2 DEF RenewLease, Take, Go
    <3> QED
      BY <1>1, <2>1, <3>1, <3>2, RenewAssumption, TTLAssumption
      DEF Noticed, Fresh, Once, Outside
  <2>3. CASE UNCHANGED leaseVars /\ Go(p, "close")
    BY <1>1, <2>1, <2>3, CalmNoticed DEF Go, Outside, Trusting, Finishing
  <2> QED
    BY <1>8, <2>2, <2>3 DEF Renew
<1>9. CASE Fault(p)
  <2>1. UNCHANGED leaseVars
    BY <1>9 DEF Fault
  <2>2. CASE pc[p] \in {"enter", "scan", "ask", "llm", "write"}
    <3>1. pc'[p] = "record" /\ stray' = stray
      BY <1>1, <1>9, <2>2 DEF Fault, Return, Go
    <3> QED
      BY <2>1, <2>2, <3>1 DEF Noticed, Fresh, Once, Outside, Trusting, Finishing, leaseVars
  <2>3. CASE pc[p] \in {"lifecycle", "open"}
    <3>1. pc'[p] = "release" /\ stray' = stray
      BY <1>1, <1>9, <2>3 DEF Fault, Go
    <3> QED
      BY <2>1, <2>3, <3>1 DEF Noticed, Fresh, Once, Outside, Trusting, Finishing, leaseVars
  <2>4. CASE pc[p] \in {"loop", "record", "renew"}
    <3>1. pc'[p] = "close" /\ stray' = stray
      BY <1>1, <1>9, <2>4 DEF Fault, Go
    <3> QED
      BY <2>1, <2>4, <3>1 DEF Noticed, Fresh, Once, Outside, Trusting, Finishing, leaseVars
  <2>5. CASE pc[p] \in {"due", "close", "release"}
    <3>1. Leave(p, "idle")
      BY <1>9, <2>5 DEF Fault
    <3> QED
      BY <3>1, LeaveNoticed
  <2> QED
    BY <1>9, <2>2, <2>3, <2>4, <2>5 DEF Fault
<1> QED
  BY <1>2, <1>3, <1>4, <1>5, <1>6, <1>7, <1>8, <1>9, ScanNoticed, AskNoticed, WriteNoticed,
    LeaveNoticed
  DEF Step, Release, Crash

LEMMA StrayStep ==
  ASSUME TypeInv, LeaseInv, StrayInv, [Next]_vars
  PROVE  StrayInv'
<1> SUFFICES ASSUME sleeps' = 0, NEW q \in Procs
             PROVE  Noticed(q)'
  BY DEF StrayInv
<1>1. sleeps = 0 /\ ~ Sleep
  <2>1. sleeps \in Nat
    BY DEF TypeInv, TypeOK
  <2>2. sleeps' = sleeps \/ sleeps' = sleeps + 1
    <3>1. ASSUME NEW p \in Procs, Step(p) PROVE sleeps' = sleeps
      <4>1. CASE Acquire(p) \/ Lifecycle(p) \/ Open(p) \/ Loop(p) \/ Enter(p)
                 \/ Scan(p) \/ Ask(p)
        BY <4>1 DEF Acquire, Lifecycle, Open, Loop, Enter, Scan, Ask, used
      <4>2. CASE LlmReturns(p) \/ Write(p) \/ Record(p) \/ Renew(p) \/ Close(p)
                 \/ Release(p)
        BY <4>2 DEF LlmReturns, Write, Record, Renew, Close, Release, used
      <4> QED
        BY <3>1, <4>1, <4>2 DEF Step
    <3>2. ASSUME NEW p \in Procs, Start(p) \/ Fault(p) \/ Crash(p)
          PROVE  sleeps' = sleeps
      BY <3>2 DEF Start, Fault, Crash, used
    <3>3. CASE Activity \/ CooldownEnds \/ Tick \/ Sleep \/ UNCHANGED vars
      BY <3>3 DEF Activity, CooldownEnds, Tick, Sleep, used, vars
    <3> QED
      BY <3>1, <3>2, <3>3 DEF Next
  <2>3. Sleep => sleeps' = sleeps + 1
    BY DEF Sleep
  <2> QED
    BY <2>1, <2>2, <2>3
<1>2. Noticed(q)
  BY <1>1 DEF StrayInv
<1>3. ASSUME NEW p \in Procs, Start(p) \/ Step(p) \/ Fault(p) \/ Crash(p)
      PROVE  Noticed(q)'
  BY <1>2, <1>3, OneAtATime, OthersNoticed, StepNoticed
<1>4. CASE Activity \/ CooldownEnds \/ UNCHANGED vars
  <2>1. UNCHANGED <<leaseVars, pc, age, yielded, stray, run>>
    BY <1>4 DEF Activity, CooldownEnds, vars, local, leaseVars
  <2> QED
    BY <1>2, <2>1 DEF Noticed, Fresh, Once, Recent, Current, leaseVars
\* Both clocks advance together.
<1>5. CASE Tick
  <2>1. /\ UNCHANGED <<pc, yielded, stray, run>> /\ lease'.holder = lease.holder
        /\ mine'[q] = CountDown(mine[q])
        /\ age'[q] = IF age[q] < RENEW THEN age[q] + 1 ELSE RENEW
    BY <1>5 DEF Tick, PassTime, TypeInv, TypeOK, LeaseTypeOK
  <2>2. age[q] \in 0..RENEW /\ mine[q] \in Expired..TTL
    BY DEF TypeInv, TypeOK, LeaseTypeOK
  <2>3. Fresh(q)'
    BY <1>2, <2>1, <2>2, RenewAssumption, TTLAssumption
    DEF Noticed, Fresh, Recent, CountDown, Expired
  <2>4. Once(q)'
    BY <1>2, <2>1 DEF Noticed, Once, Current
  <2> QED
    BY <2>3, <2>4 DEF Noticed
<1> QED
  BY <1>1, <1>3, <1>4, <1>5 DEF Next

\* A process whose row another one took commits once more at most, for any
\* renewal period within the TTL, any strategies and any faults.
THEOREM ShiftStraysOnce == Spec => []OneStrayCommit
<1>1. Init => StrayInv
  <2> SUFFICES ASSUME Init, NEW p \in Procs
               PROVE  Noticed(p)
    BY DEF StrayInv
  <2>1. pc[p] = "idle" /\ age[p] = RENEW /\ stray[p] = 0
    BY DEF Init
  <2> QED
    BY <2>1 DEF Noticed, Fresh, Once, Trusting
<1>2. StrayInv => OneStrayCommit
  BY DEF StrayInv, Noticed, Once, OneStrayCommit
<1>3. Init => TypeInv /\ LeaseInv
  BY TypeInit, LeaseInitInv DEF Init
<1>4. TypeInv /\ LeaseInv /\ StrayInv /\ [Next]_vars
        => TypeInv' /\ LeaseInv' /\ StrayInv'
  BY TypeNext, ShiftLeaseInv, StrayStep
<1> QED
  BY <1>1, <1>2, <1>3, <1>4, PTL DEF Spec

-----------------------------------------------------------------------------
\* CompletedIsDone is about what a shift's row says at the end, so it needs to
\* be known along the way: everything before the current position is done or
\* leaves an entry that keeps the shift from counting, and the row says what
\* the process knows, which nobody else writes as long as no shift is resumed.

Misses == {"error", "skipped_preempted", "off", "cooldown"}
Spared(r) == r.entries \cap Misses = {}
Accounted(r) == Spared(r) => \A i \in 1..(r.at - 1) : r.plan[i] \in r.done

Recorded(p) ==
    /\ run[p].id \in 1..Len(rows)
    /\ rows[run[p].id].done = run[p].done
    /\ Accounted(run[p])
    /\ pc[p] = "renew" /\ Spared(run[p]) => Current(p) \in run[p].done
    /\ pc[p] = "close" => run[p].aborted \/ run[p].at > Len(run[p].plan)

Untouched(p) == run[p].done = {} /\ run[p].at = 1

Ledger(p) ==
    /\ run[p].resume = 0
    /\ pc[p] \in {"due", "lifecycle", "open"} => Untouched(p)
    /\ pc[p] \in Inside => Recorded(p)

OwnRows ==
    \A p, q \in Procs : p # q /\ pc[p] \in Inside /\ pc[q] \in Inside
                        => run[p].id # run[q].id

LedgerInv == (\A p \in Procs : Ledger(p)) /\ OwnRows

\* What has to hold for nothing between two strategies to raise, and for no
\* shift to be resumed.
Unbroken == "resume" \notin Triggers
            /\ FaultPoints \cap {"loop", "record", "renew"} = {}

\* p works on inside its shift, or ends it, and its record says the same of
\* what is done.
Works(p) ==
    /\ rows' = rows
    /\ run'[p].resume = run[p].resume /\ run'[p].id = run[p].id
    /\ run'[p].done = run[p].done /\ run'[p].plan = run[p].plan
    /\ run'[p].at = run[p].at /\ run'[p].entries = run[p].entries
    /\ pc[p] \in Inside \ {"record", "renew", "close"}
    /\ pc'[p] \in Inside \ {"renew", "close"}

LEMMA WorksLedger ==
  ASSUME NEW p \in Procs, Ledger(p), Works(p)
  PROVE  Ledger(p)'
  BY DEF Ledger, Recorded, Works, Accounted, Spared, Inside

\* Outside the shift nothing is said but that it is not a resumed one.
LEMMA AwayLedger ==
  ASSUME TypeInv, NEW p \in Procs, NEW point \in {"idle", "down"}, Leave(p, point)
  PROVE  Ledger(p)' /\ pc'[p] \notin Inside
<1>1. pc'[p] = point /\ run'[p] = NoRun
  BY DEF Leave, Go, Set, TypeInv, TypeOK
<1>2. NoRun.resume = 0
  BY DEF NoRun
<1> QED
  BY <1>1, <1>2 DEF Ledger, Inside

\* A step that returns from a strategy, or goes on in it.
LEMMA ReturnWorks ==
  ASSUME TypeInv, NEW p \in Procs, pc[p] \in Inside \ {"record", "renew", "close"},
         NEW result, Return(p, result), rows' = rows
  PROVE  Works(p) /\ pc'[p] = "record"
<1>1. /\ pc \in [Procs -> Points] /\ run \in [Procs -> RunState]
  BY DEF TypeInv, TypeOK
<1>2. pc'[p] = "record"
  BY <1>1 DEF Return, Go
<1>3. run'[p] = [run[p] EXCEPT !.result = result]
  BY <1>1 DEF Return, Set
<1> QED
  BY <1>1, <1>2, <1>3 DEF Works, RunState, Inside

LEMMA MoveWorks ==
  ASSUME TypeInv, NEW p \in Procs, pc[p] \in Inside \ {"record", "renew", "close"},
         NEW point \in Inside \ {"renew", "close"}, Go(p, point), UNCHANGED run, rows' = rows
  PROVE  Works(p) /\ pc'[p] \in Inside
  BY DEF Works, Go, TypeInv, TypeOK

\* The strategies themselves.
LEMMA StrategyWorks ==
  ASSUME TypeInv, NEW p \in Procs,
         Enter(p) \/ Scan(p) \/ Ask(p) \/ LlmReturns(p) \/ Write(p)
  PROVE  Works(p) /\ pc'[p] \in Inside
<1>1. /\ pc \in [Procs -> Points] /\ run \in [Procs -> RunState]
      /\ run[p] \in RunState
  BY DEF TypeInv, TypeOK
<1>2. /\ rows' = rows /\ pc[p] \in {"enter", "scan", "ask", "llm", "write"}
  BY DEF Enter, Scan, Ask, LlmReturns, Write, shared
<1>3. pc[p] \in Inside \ {"record", "renew", "close"}
  BY <1>2 DEF Inside
<1>4. ASSUME NEW point \in {"scan", "ask", "llm", "write"}, Go(p, point),
             UNCHANGED run
      PROVE  Works(p) /\ pc'[p] \in Inside
  BY <1>2, <1>3, <1>4, MoveWorks DEF Inside
<1>5. ASSUME NEW result, Return(p, result)
      PROVE  Works(p) /\ pc'[p] \in Inside
  BY <1>2, <1>3, <1>5, ReturnWorks DEF Inside
<1>6. CASE Enter(p)
  BY <1>4, <1>5, <1>6 DEF Enter
<1>7. CASE Ask(p)
  BY <1>4, <1>5, <1>7 DEF Ask
<1>8. CASE Scan(p)
  <2>1. CASE BeginUnit(p)
    <3>1. pc'[p] \in {"scan", "ask"}
      BY <1>1, <2>1 DEF BeginUnit, Go
    <3>2. /\ run'[p].resume = run[p].resume /\ run'[p].id = run[p].id
          /\ run'[p].done = run[p].done /\ run'[p].plan = run[p].plan
          /\ run'[p].at = run[p].at /\ run'[p].entries = run[p].entries
      BY <1>1, <2>1 DEF BeginUnit, Set, RunState
    <3> QED
      BY <1>2, <1>3, <3>1, <3>2 DEF Works, Inside
  <2>2. CASE Yield(p)
    BY <1>4, <1>5, <2>2 DEF Yield
  <2>3. CASE run[p].units = 0 /\ ~ Yield(p) /\ ~ BeginUnit(p)
    BY <1>4, <1>5, <1>8, <2>3 DEF Scan
  <2> QED
    BY <1>4, <1>5, <1>8, <2>1, <2>2, <2>3, Zenon DEF Scan
<1>9. CASE LlmReturns(p) \/ Write(p)
  <2>1. ASSUME NEW state, Set(p, state), Go(p, "write") \/ Go(p, "scan"),
               \/ state = [run[p] EXCEPT !.staged = TRUE]
               \/ state = [run[p] EXCEPT !.units = @ - 1]
        PROVE  Works(p) /\ pc'[p] \in Inside
    <3>1. pc'[p] \in {"scan", "write"} /\ run'[p] = state
      BY <1>1, <2>1 DEF Go, Set
    <3> QED
      BY <1>1, <1>2, <1>3, <2>1, <3>1 DEF Works, Inside, RunState
  <2> QED
    BY <1>5, <1>9, <2>1 DEF LlmReturns, Write
<1> QED
  BY <1>6, <1>7, <1>8, <1>9

\* What p knows of its own shift: the types the steps below need.
LEMMA LedgerTypes ==
  ASSUME TypeInv, NEW p \in Procs
  PROVE  /\ pc \in [Procs -> Points] /\ run \in [Procs -> RunState]
         /\ run[p] \in RunState /\ run[p].at \in Nat \ {0}
         /\ run[p].plan \in Seq(Strategies) /\ Len(run[p].plan) \in Nat
         /\ rows \in Seq(Row) /\ Len(rows) \in Nat
<1>1. run[p] \in RunState /\ rows \in Seq(Row) /\ Len(rows) \in Nat
  BY PlacedFacts
<1>2. run[p].plan \in Seq(Strategies) /\ run[p].at \in Nat \ {0}
  BY <1>1, PlansAssumption DEF RunState
<1> QED
  BY <1>1, <1>2 DEF TypeInv, TypeOK

\* The head of the loop: past the plan, past a strategy with an entry that
\* says why, or into the strategy.
LEMMA LoopLedger ==
  ASSUME TypeInv, NEW p \in Procs, Ledger(p), Loop(p)
  PROVE  Ledger(p)' /\ pc[p] \in Inside
<1>1. /\ pc \in [Procs -> Points] /\ run \in [Procs -> RunState]
      /\ run[p] \in RunState /\ run[p].at \in Nat \ {0}
      /\ run[p].plan \in Seq(Strategies) /\ Len(run[p].plan) \in Nat
  BY LedgerTypes
<1>2. rows' = rows /\ pc[p] = "loop" /\ pc[p] \in Inside
  BY DEF Loop, shared, Inside
<1>3. /\ run[p].resume = 0 /\ run[p].id \in 1..Len(rows)
      /\ rows[run[p].id].done = run[p].done /\ Accounted(run[p])
  BY <1>2 DEF Ledger, Recorded
<1>4. ASSUME NEW entry, Skip(p, entry), Current(p) \in run[p].done \/ entry \in Misses
      PROVE  Ledger(p)'
  <2>1. /\ run'[p].at = run[p].at + 1
        /\ run'[p].entries = run[p].entries \cup {entry}
        /\ run'[p].plan = run[p].plan /\ run'[p].done = run[p].done
        /\ run'[p].id = run[p].id /\ run'[p].resume = run[p].resume
    BY <1>1, <1>4 DEF Skip, Set, RunState
  <2>2. pc'[p] = "loop"
    BY <1>2, <1>4 DEF Skip
  <2>3. ASSUME Spared(run'[p]), NEW i \in 1..(run'[p].at - 1)
        PROVE  run'[p].plan[i] \in run'[p].done
    <3>1. Spared(run[p]) /\ entry \notin Misses
      BY <2>1, <2>3 DEF Spared
    <3>2. CASE i = run[p].at
      BY <1>4, <2>1, <3>1, <3>2 DEF Current
    <3>3. CASE i # run[p].at
      <4>1. i \in 1..(run[p].at - 1)
        BY <1>1, <2>1, <2>3, <3>3
      <4> QED
        BY <1>3, <2>1, <3>1, <4>1 DEF Accounted
    <3> QED
      BY <3>2, <3>3
  <2>4. Accounted(run'[p])
    BY <2>3 DEF Accounted
  <2> QED
    BY <1>2, <1>3, <2>1, <2>2, <2>4 DEF Ledger, Recorded, Accounted, Spared
<1>5. CASE run[p].at > Len(run[p].plan)
  <2>1. Go(p, "close") /\ UNCHANGED run
    BY <1>5 DEF Loop
  <2>2. pc'[p] = "close" /\ run'[p] = run[p]
    BY <1>1, <2>1 DEF Go
  <2> QED
    BY <1>2, <1>3, <1>5, <2>2 DEF Ledger, Recorded, Accounted, Spared
<1>6. CASE Current(p) \in run[p].done /\ Skip(p, "already_done")
  BY <1>2, <1>4, <1>6
<1>7. CASE \E entry \in Misses : Skip(p, entry)
  BY <1>2, <1>4, <1>7
<1>8. ASSUME Go(p, EntryPoint(Current(p))),
             NEW n \in 0..MaxUnits, NEW staged,
             Set(p, [run[p] EXCEPT !.units = n, !.staged = staged])
      PROVE  Ledger(p)'
  <2>1. pc'[p] \in {"enter", "scan", "write"}
    BY <1>1, <1>8 DEF Go, EntryPoint
  <2>2. /\ run'[p].resume = run[p].resume /\ run'[p].id = run[p].id
        /\ run'[p].done = run[p].done /\ run'[p].plan = run[p].plan
        /\ run'[p].at = run[p].at /\ run'[p].entries = run[p].entries
    BY <1>1, <1>8 DEF Set, RunState
  <2> QED
    BY <1>2, <2>1, <2>2, WorksLedger DEF Works, Inside
<1>9. CASE ~ (run[p].at > Len(run[p].plan)) /\ Current(p) \notin run[p].done
  <2>1. "skipped_preempted" \in Misses /\ "off" \in Misses /\ "cooldown" \in Misses
    BY DEF Misses
  <2>2. \/ Skip(p, "skipped_preempted") \/ Skip(p, "off") \/ Skip(p, "cooldown")
        \/ /\ Go(p, EntryPoint(Current(p)))
           /\ \E n \in 0..MaxUnits :
                Set(p, [run[p] EXCEPT !.units = n, !.staged = Current(p) \in PlainStrategies])
    BY <1>9 DEF Loop
  <2> QED
    BY <1>2, <1>7, <1>8, <2>1, <2>2
<1>10. CASE ~ (run[p].at > Len(run[p].plan)) /\ Current(p) \in run[p].done
  BY <1>6, <1>10 DEF Loop
<1> QED
  BY <1>2, <1>5, <1>9, <1>10

\* run_dream adds the strategy to what is done, or an error to the entries.
LEMMA RecordLedger ==
  ASSUME TypeInv, NEW p \in Procs, Ledger(p), Record(p)
  PROVE  Ledger(p)'
<1>1. /\ pc \in [Procs -> Points] /\ run \in [Procs -> RunState]
      /\ run[p] \in RunState /\ run[p].at \in Nat \ {0}
      /\ rows \in Seq(Row) /\ Len(rows) \in Nat
  BY LedgerTypes
<1>2. pc[p] = "record" /\ pc'[p] = "renew" /\ pc[p] \in Inside
  BY <1>1 DEF Record, Go, Inside
<1>3. /\ run[p].resume = 0 /\ run[p].id \in 1..Len(rows)
      /\ rows[run[p].id].done = run[p].done /\ Accounted(run[p])
  BY <1>2 DEF Ledger, Recorded
<1> DEFINE done == IF run[p].result = "error" THEN run[p].done
                   ELSE run[p].done \cup {Current(p)}
<1>4. /\ run'[p].entries = run[p].entries \cup {run[p].result}
      /\ run'[p].done = done /\ run'[p].at = run[p].at
      /\ run'[p].plan = run[p].plan
      /\ run'[p].id = run[p].id /\ run'[p].resume = run[p].resume
  <2>1. Set(p, [run[p] EXCEPT !.entries = @ \cup {run[p].result}, !.done = done])
    BY DEF Record
  <2> HIDE DEF done
  <2> QED
    BY <1>1, <2>1 DEF Set, RunState
<1>5. /\ DOMAIN rows' = DOMAIN rows /\ Len(rows') = Len(rows)
      /\ rows'[run[p].id].done = done
  <2>1. CASE run[p].result = "error"
    BY <1>3, <2>1 DEF Record
  <2>2. CASE run[p].result # "error"
    <3>1. rows' = [rows EXCEPT ![run[p].id].done = done]
      BY <2>2 DEF Record
    <3>2. rows[run[p].id] \in Row
      BY <1>1, <1>3
    <3>3. done \in SUBSET Strategies
      <4>1. pc[p] \in Working
        BY <1>2 DEF Working
      <4> QED
        BY <1>1, <4>1, CurrentType DEF RunState
    <3>4. "running" \in Outcomes
      BY DEF Outcomes
    <3> HIDE DEF done
    <3>5. rows' \in Seq(Row) /\ Len(rows') = Len(rows)
      BY <1>1, <3>1, <3>3, <3>4, RowsType
    <3>6. rows'[run[p].id].done = done
      BY <1>1, <1>3, <3>1, <3>2 DEF Row
    <3> QED
      BY <1>1, <3>5, <3>6
  <2> QED
    BY <2>1, <2>2
<1>6. ASSUME Spared(run'[p]) PROVE Current(p) \in done /\ Spared(run[p])
  BY <1>4, <1>6 DEF Spared, Misses
<1>7. run[p].done \subseteq done
  OBVIOUS
<1> HIDE DEF done
<1>8. Accounted(run'[p])
  BY <1>3, <1>4, <1>6, <1>7 DEF Accounted
<1>9. Spared(run'[p]) => Current(p)' \in run'[p].done
  BY <1>4, <1>6 DEF Current
<1> QED
  BY <1>2, <1>3, <1>4, <1>5, <1>8, <1>9 DEF Ledger, Recorded, Accounted, Spared, Current

\* The next position is reached over a strategy that was recorded.
LEMMA RenewLedger ==
  ASSUME TypeInv, NEW p \in Procs, Ledger(p), Renew(p)
  PROVE  Ledger(p)'
<1>1. /\ pc \in [Procs -> Points] /\ run \in [Procs -> RunState]
      /\ run[p] \in RunState /\ run[p].at \in Nat \ {0}
  BY LedgerTypes
<1>2. rows' = rows /\ pc[p] = "renew" /\ pc[p] \in Inside
  BY DEF Renew, shared, Inside
<1>3. /\ run[p].resume = 0 /\ run[p].id \in 1..Len(rows)
      /\ rows[run[p].id].done = run[p].done /\ Accounted(run[p])
      /\ Spared(run[p]) => Current(p) \in run[p].done
  BY <1>2 DEF Ledger, Recorded
<1>4. CASE Go(p, "loop") /\ Set(p, [run[p] EXCEPT !.at = @ + 1, !.result = "none"])
  <2>1. /\ pc'[p] = "loop" /\ run'[p].at = run[p].at + 1
        /\ run'[p].entries = run[p].entries
        /\ run'[p].plan = run[p].plan /\ run'[p].done = run[p].done
        /\ run'[p].id = run[p].id /\ run'[p].resume = run[p].resume
    BY <1>1, <1>4 DEF Go, Set, RunState
  <2>2. ASSUME Spared(run'[p]), NEW i \in 1..(run'[p].at - 1)
        PROVE  run'[p].plan[i] \in run'[p].done
    <3>1. Spared(run[p])
      BY <2>1, <2>2 DEF Spared
    <3>2. CASE i = run[p].at
      BY <1>3, <2>1, <3>1, <3>2 DEF Current
    <3>3. CASE i # run[p].at
      <4>1. i \in 1..(run[p].at - 1)
        BY <1>1, <2>1, <2>2, <3>3
      <4> QED
        BY <1>3, <2>1, <3>1, <4>1 DEF Accounted
    <3> QED
      BY <3>2, <3>3
  <2>3. Accounted(run'[p])
    BY <2>2 DEF Accounted
  <2> QED
    BY <1>2, <1>3, <2>1, <2>3 DEF Ledger, Recorded, Accounted, Spared
<1>5. CASE Go(p, "close") /\ Set(p, [run[p] EXCEPT !.aborted = TRUE])
  <2>1. /\ pc'[p] = "close" /\ run'[p].at = run[p].at /\ run'[p].aborted
        /\ run'[p].entries = run[p].entries
        /\ run'[p].plan = run[p].plan /\ run'[p].done = run[p].done
        /\ run'[p].id = run[p].id /\ run'[p].resume = run[p].resume
    BY <1>1, <1>5 DEF Go, Set, RunState
  <2>2. Accounted(run'[p])
    BY <1>3, <2>1 DEF Accounted, Spared
  <2> QED
    BY <1>2, <1>3, <2>1, <2>2 DEF Ledger, Recorded, Accounted, Spared
<1> QED
  BY <1>4, <1>5 DEF Renew

\* A shift that is not resumed opens a row of its own, with nothing done.
LEMMA OpenLedger ==
  ASSUME TypeInv, NEW p \in Procs, Ledger(p), Open(p)
  PROVE  /\ Ledger(p)' /\ pc[p] = "open"
         /\ run'[p].id = Len(rows) + 1
         /\ rows' = Append(rows, [done |-> {}, outcome |-> "running"])
<1>1. /\ pc \in [Procs -> Points] /\ run \in [Procs -> RunState]
      /\ run[p] \in RunState /\ run[p].at \in Nat \ {0}
      /\ rows \in Seq(Row) /\ Len(rows) \in Nat
  BY LedgerTypes
<1>2. run[p].resume = 0 /\ pc[p] = "open" /\ pc'[p] = "loop" /\ Untouched(p)
  BY <1>1 DEF Open, Go, Ledger
<1>3. /\ Set(p, [run[p] EXCEPT !.id = Len(rows) + 1])
      /\ rows' = Append(rows, [done |-> {}, outcome |-> "running"])
  BY <1>2 DEF Open
<1>4. /\ run'[p].id = Len(rows) + 1 /\ run'[p].resume = 0
      /\ run'[p].done = {} /\ run'[p].at = 1
  BY <1>1, <1>2, <1>3 DEF Set, RunState, Untouched
<1>5. Len(rows') = Len(rows) + 1 /\ rows'[Len(rows) + 1].done = {}
  BY <1>1, <1>3
<1>6. Accounted(run'[p])
  BY <1>4 DEF Accounted
<1> QED
  BY <1>1, <1>2, <1>3, <1>4, <1>5, <1>6 DEF Ledger, Recorded, Accounted, Spared

\* A trigger without a row to resume.
LEMMA StartLedger ==
  ASSUME TypeInv, Unbroken, NEW p \in Procs, Start(p)
  PROVE  Ledger(p)' /\ pc'[p] \notin Inside /\ rows' = rows
<1>1. /\ pc \in [Procs -> Points] /\ run \in [Procs -> RunState]
  BY DEF TypeInv, TypeOK
<1>2. PICK plan \in Plans :
        Set(p, [NoRun EXCEPT !.plan = plan, !.resume = 0])
  BY DEF Start, Unbroken
<1>3. pc'[p] = "due" /\ rows' = rows
  BY <1>1 DEF Start, Go, shared
<1>4. run'[p] = [NoRun EXCEPT !.plan = plan, !.resume = 0]
  BY <1>1, <1>2 DEF Set
<1>5. run'[p].resume = 0 /\ run'[p].done = {} /\ run'[p].at = 1
  <2>1. NoRun.done = {} /\ NoRun.at = 1 /\ NoRun \in RunState
    BY NoRunType DEF NoRun
  <2> QED
    BY <1>4, <2>1 DEF RunState
<1> QED
  BY <1>3, <1>5 DEF Ledger, Untouched, Inside

\* What another process relies on: p is where it was, or opens a new row, and
\* writes only the row it is at.
Sole(p) ==
    /\ Len(rows') >= Len(rows)
    /\ \A i \in 1..Len(rows) :
         rows'[i].done # rows[i].done => pc[p] \in Inside /\ i = run[p].id
    /\ pc'[p] \in Inside => \/ pc[p] \in Inside /\ run'[p].id = run[p].id
                            \/ run'[p].id = Len(rows) + 1

LEMMA SameRowsSole ==
  ASSUME TypeInv, NEW p \in Procs, rows' = rows,
         pc'[p] \in Inside => pc[p] \in Inside /\ run'[p].id = run[p].id
  PROVE  Sole(p)
  BY LedgerTypes DEF Sole

LEMMA RecordSole ==
  ASSUME TypeInv, NEW p \in Procs, Record(p)
  PROVE  Sole(p)
<1>1. /\ run \in [Procs -> RunState] /\ run[p] \in RunState
      /\ rows \in Seq(Row) /\ Len(rows) \in Nat
  BY LedgerTypes
<1>2. pc[p] \in Inside
  BY DEF Record, Inside
<1> DEFINE done == IF run[p].result = "error" THEN run[p].done
                   ELSE run[p].done \cup {Current(p)}
<1>3. rows' = rows \/ rows' = [rows EXCEPT ![run[p].id].done = done]
  BY DEF Record
<1>4. run'[p].id = run[p].id
  <2>1. Set(p, [run[p] EXCEPT !.entries = @ \cup {run[p].result}, !.done = done])
    BY DEF Record
  <2> HIDE DEF done
  <2> QED
    BY <1>1, <2>1 DEF Set, RunState
<1> HIDE DEF done
<1>5. Len(rows') >= Len(rows)
      /\ \A i \in 1..Len(rows) : i # run[p].id => rows'[i] = rows[i]
  <2>1. CASE rows' = rows
    BY <1>1, <2>1
  <2>2. CASE rows' = [rows EXCEPT ![run[p].id].done = done]
    <3>1. DOMAIN rows' = DOMAIN rows /\ DOMAIN rows = 1..Len(rows)
      BY <1>1, <2>2
    <3>2. \A i \in 1..Len(rows) : i # run[p].id => rows'[i] = rows[i]
      BY <1>1, <2>2, <3>1
    <3>3. TypeInv'
      BY TypeRecord
    <3>4. rows' \in Seq(Row)
      BY <3>3 DEF TypeInv, TypeOK
    <3>5. Len(rows') = Len(rows)
      BY <1>1, <3>1, <3>4
    <3> QED
      BY <1>1, <3>2, <3>5
  <2> QED
    BY <1>3, <2>1, <2>2
<1> QED
  BY <1>2, <1>4, <1>5 DEF Sole

LEMMA CloseSole ==
  ASSUME TypeInv, NEW p \in Procs, Close(p)
  PROVE  /\ Sole(p) /\ pc'[p] \notin Inside /\ run'[p] = run[p]
         /\ run[p].id \in 1..Len(rows) =>
              /\ rows'[run[p].id].done = rows[run[p].id].done
              /\ rows'[run[p].id].outcome = Outcome(run[p])
<1>1. /\ pc \in [Procs -> Points] /\ run \in [Procs -> RunState]
      /\ run[p] \in RunState
      /\ rows \in Seq(Row) /\ Len(rows) \in Nat
  BY LedgerTypes
<1>2. /\ rows' = [rows EXCEPT ![run[p].id].outcome = Outcome(run[p])]
      /\ pc'[p] = "release" /\ run'[p] = run[p]
  BY <1>1 DEF Close, Go
<1>3. DOMAIN rows' = DOMAIN rows /\ DOMAIN rows = 1..Len(rows)
  BY <1>1, <1>2
<1>4. TypeInv'
  BY TypeClose
<1>5. rows' \in Seq(Row)
  BY <1>4 DEF TypeInv, TypeOK
<1>6. Len(rows') = Len(rows)
  BY <1>1, <1>3, <1>5
<1> HIDE DEF Outcome
<1>7. \A i \in 1..Len(rows) : rows'[i].done = rows[i].done
  BY <1>1, <1>2 DEF Row
<1>8. run[p].id \in 1..Len(rows) => rows'[run[p].id].outcome = Outcome(run[p])
  BY <1>1, <1>2 DEF Row
<1> QED
  BY <1>1, <1>2, <1>6, <1>7, <1>8 DEF Sole, Inside

\* The steps of p that end its run, or do not belong to its shift yet.
LEMMA FaultLedger ==
  ASSUME TypeInv, Unbroken, NEW p \in Procs, Ledger(p), Fault(p)
  PROVE  Ledger(p)' /\ Sole(p)
<1>1. /\ pc \in [Procs -> Points] /\ run \in [Procs -> RunState]
      /\ rows' = rows
  BY DEF Fault, TypeInv, TypeOK
<1>2. pc[p] \notin {"loop", "record", "renew"}
  BY DEF Fault, Unbroken
<1>3. CASE pc[p] \in {"enter", "scan", "ask", "llm", "write"}
  <2>1. Return(p, "error")
    BY <1>3 DEF Fault
  <2>2. pc[p] \in Inside \ {"record", "renew", "close"}
    BY <1>3 DEF Inside
  <2>3. Works(p)
    BY <1>1, <2>1, <2>2, ReturnWorks
  <2> QED
    BY <1>1, <2>3, WorksLedger, SameRowsSole DEF Works
<1>4. CASE pc[p] \in {"lifecycle", "open"}
  <2>1. pc'[p] = "release" /\ run' = run
    BY <1>1, <1>4 DEF Fault, Go
  <2> QED
    BY <1>1, <2>1, SameRowsSole DEF Ledger, Inside
<1>5. CASE pc[p] \in {"due", "close", "release"}
  <2>1. Leave(p, "idle")
    BY <1>5 DEF Fault
  <2> QED
    BY <1>1, <2>1, AwayLedger, SameRowsSole
<1> QED
  BY <1>2, <1>3, <1>4, <1>5 DEF Fault

LEMMA StepLedger ==
  ASSUME TypeInv, Unbroken, NEW p \in Procs, Ledger(p),
         Start(p) \/ Step(p) \/ Fault(p) \/ Crash(p)
  PROVE  Ledger(p)' /\ Sole(p)
<1>1. /\ pc \in [Procs -> Points] /\ run \in [Procs -> RunState]
      /\ run[p] \in RunState
      /\ rows \in Seq(Row) /\ Len(rows) \in Nat
  BY LedgerTypes
<1>2. CASE Start(p)
  BY <1>2, StartLedger, SameRowsSole
<1>3. ASSUME NEW point \in {"idle", "down"}, Leave(p, point), rows' = rows
      PROVE  Ledger(p)' /\ Sole(p)
  BY <1>3, AwayLedger, SameRowsSole
<1>4. CASE Acquire(p)
  <2>1. CASE Go(p, "lifecycle") /\ UNCHANGED run
    <3>1. pc[p] = "due" /\ pc'[p] = "lifecycle" /\ run' = run /\ rows' = rows
      BY <1>1, <1>4, <2>1 DEF Acquire, Go, shared
    <3> QED
      BY <3>1, SameRowsSole DEF Ledger, Untouched, Inside
  <2> QED
    BY <1>3, <1>4, <2>1 DEF Acquire, shared
<1>5. CASE Lifecycle(p)
  <2>1. pc[p] = "lifecycle" /\ pc'[p] = "open" /\ run' = run /\ rows' = rows
    BY <1>1, <1>5 DEF Lifecycle, Go, shared
  <2> QED
    BY <2>1, SameRowsSole DEF Ledger, Untouched, Inside
<1>6. CASE Open(p)
  <2>1. /\ Ledger(p)' /\ pc[p] = "open" /\ run'[p].id = Len(rows) + 1
        /\ rows' = Append(rows, [done |-> {}, outcome |-> "running"])
    BY <1>6, OpenLedger
  <2>2. Len(rows') >= Len(rows) /\ \A i \in 1..Len(rows) : rows'[i] = rows[i]
    BY <1>1, <2>1
  <2> QED
    BY <2>1, <2>2 DEF Sole
<1>7. CASE Loop(p)
  <2>1. rows' = rows /\ run'[p].id = run[p].id
    <3>1. ASSUME NEW entry, Skip(p, entry) PROVE run'[p].id = run[p].id
      BY <1>1, <3>1 DEF Skip, Set, RunState
    <3>2. ASSUME NEW n, NEW staged, Set(p, [run[p] EXCEPT !.units = n, !.staged = staged])
          PROVE  run'[p].id = run[p].id
      BY <1>1, <3>2 DEF Set, RunState
    <3> QED
      BY <1>7, <3>1, <3>2, LoopCases DEF Loop, shared
  <2> QED
    BY <1>7, <2>1, LoopLedger, SameRowsSole
<1>8. CASE Enter(p) \/ Scan(p) \/ Ask(p) \/ LlmReturns(p) \/ Write(p)
  <2>1. Works(p)
    BY <1>8, StrategyWorks
  <2> QED
    BY <2>1, WorksLedger, SameRowsSole DEF Works
<1>9. CASE Record(p)
  BY <1>9, RecordLedger, RecordSole
<1>10. CASE Renew(p)
  <2>1. rows' = rows /\ pc[p] \in Inside /\ run'[p].id = run[p].id
    BY <1>10, RenewKeeps DEF Renew, shared, Inside
  <2> QED
    BY <1>10, <2>1, RenewLedger, SameRowsSole
<1>11. CASE Close(p)
  <2>1. pc'[p] = "release" /\ run' = run
    BY <1>1, <1>11 DEF Close, Go
  <2>2. Ledger(p)'
    BY <2>1 DEF Ledger, Inside
  <2> QED
    BY <1>11, <2>2, CloseSole
<1>12. CASE Release(p) \/ Crash(p)
  BY <1>3, <1>12 DEF Release, Crash, shared
<1> QED
  BY <1>2, <1>4, <1>5, <1>6, <1>7, <1>8, <1>9, <1>10, <1>11, <1>12, FaultLedger
  DEF Step

\* Another process keeps its row, for its id is not p's.
LEMMA OthersLedger ==
  ASSUME TypeInv, TypeInv', NEW p \in Procs, NEW q \in Procs, p # q, LedgerInv,
         Sole(p), Undisturbed(q)
  PROVE  Ledger(q)'
<1>1. Ledger(q) /\ pc'[q] = pc[q] /\ run'[q] = run[q]
  BY DEF LedgerInv, Undisturbed
<1>2. ASSUME pc[q] \in Inside
      PROVE  /\ run[q].id \in 1..Len(rows')
             /\ rows'[run[q].id].done = rows[run[q].id].done
  <2>1. run[q].id \in 1..Len(rows) /\ Len(rows) \in Nat
    BY <1>1, <1>2, LedgerTypes DEF Ledger, Recorded
  <2>2. pc[p] \in Inside => run[q].id # run[p].id
    BY <1>2 DEF LedgerInv, OwnRows
  <2>3. Len(rows') >= Len(rows) /\ Len(rows') \in Nat
    BY DEF Sole, TypeInv, TypeOK
  <2> QED
    BY <2>1, <2>2, <2>3 DEF Sole
<1> QED
  BY <1>1, <1>2 DEF Ledger, Recorded, Untouched, Accounted, Spared, Current

LEMMA LedgerStep ==
  ASSUME TypeInv, TypeInv', Unbroken, LedgerInv, [Next]_vars
  PROVE  LedgerInv'
<1>1. ASSUME NEW p \in Procs, Start(p) \/ Step(p) \/ Fault(p) \/ Crash(p)
      PROVE  LedgerInv'
  <2>1. Ledger(p)' /\ Sole(p)
    BY <1>1, StepLedger DEF LedgerInv
  <2>2. \A q \in Procs : q # p => Undisturbed(q)
    BY <1>1, OneAtATime
  <2>3. \A q \in Procs : q # p => Ledger(q)'
    BY <2>1, <2>2, OthersLedger
  <2>4. ASSUME NEW q \in Procs, q # p, pc'[p] \in Inside, pc'[q] \in Inside
        PROVE  run'[p].id # run'[q].id
    <3>1. pc[q] \in Inside /\ run'[q] = run[q]
      BY <2>2, <2>4 DEF Undisturbed
    <3>2. run[q].id \in 1..Len(rows) /\ Len(rows) \in Nat
      BY <3>1, LedgerTypes DEF LedgerInv, Ledger, Recorded
    <3>3. CASE pc[p] \in Inside /\ run'[p].id = run[p].id
      BY <2>4, <3>1, <3>3 DEF LedgerInv, OwnRows
    <3>4. CASE run'[p].id = Len(rows) + 1
      BY <3>1, <3>2, <3>4
    <3> QED
      BY <2>1, <2>4, <3>3, <3>4 DEF Sole
  <2>5. ASSUME NEW q \in Procs, NEW s \in Procs, q # p, s # p, q # s,
               pc'[q] \in Inside, pc'[s] \in Inside
        PROVE  run'[q].id # run'[s].id
    BY <2>2, <2>5 DEF Undisturbed, LedgerInv, OwnRows
  <2>6. OwnRows'
    BY <2>4, <2>5 DEF OwnRows
  <2> QED
    BY <2>1, <2>3, <2>6 DEF LedgerInv
<1>2. CASE Activity \/ CooldownEnds \/ Tick \/ Sleep \/ UNCHANGED vars
  <2>1. UNCHANGED <<pc, run, rows>>
    BY <1>2 DEF Activity, CooldownEnds, Tick, Sleep, vars, local, shared
  <2> QED
    BY <2>1 DEF LedgerInv, OwnRows, Ledger, Recorded, Untouched, Accounted, Spared, Current
<1> QED
  BY <1>1, <1>2 DEF Next

LEMMA LedgerInit == Init => LedgerInv
<1> SUFFICES ASSUME Init
             PROVE  LedgerInv
  OBVIOUS
<1>1. \A p \in Procs : pc[p] = "idle" /\ run[p].resume = 0
  BY DEF Init, NoRun
<1> QED
  BY <1>1 DEF LedgerInv, OwnRows, Ledger, Inside

\* A shift closed as completed, with no strategy off or cooling down, has
\* every strategy of its plan in phases_done, for any processes, plans and
\* strategies, any crashes and any faults inside the strategies and around the
\* lease.  Both premises are needed: an exception between two strategies ends
\* the loop without an entry, and a process that lost its lease writes its own
\* phases_done over those of the process that resumed its shift.
THEOREM ShiftCompletes == Unbroken => (Spec => CompletedIsDone)
<1> SUFFICES ASSUME Unbroken
             PROVE  Spec => CompletedIsDone
  OBVIOUS
<1>1. TypeInv /\ LedgerInv /\ [Next]_vars => LedgerInv'
  BY TypeNext, LedgerStep
<1> DEFINE Kept(p) ==
      /\ Close(p)
      /\ rows'[run[p].id].outcome = "completed"
      /\ run[p].entries \cap {"off", "cooldown"} = {}
      => {run[p].plan[i] : i \in 1..Len(run[p].plan)}
            \subseteq rows'[run[p].id].done
<1>2. ASSUME TypeInv, LedgerInv, NEW p \in Procs, Close(p),
             rows'[run[p].id].outcome = "completed",
             run[p].entries \cap {"off", "cooldown"} = {}
      PROVE  {run[p].plan[i] : i \in 1..Len(run[p].plan)} \subseteq rows'[run[p].id].done
  <2>1. pc[p] = "close" /\ pc[p] \in Inside
    BY <1>2 DEF Close, Inside
  <2>2. /\ run[p].id \in 1..Len(rows) /\ rows[run[p].id].done = run[p].done
        /\ Accounted(run[p])
        /\ run[p].aborted \/ run[p].at > Len(run[p].plan)
    BY <1>2, <2>1 DEF LedgerInv, Ledger, Recorded
  <2>3. /\ rows'[run[p].id].done = run[p].done
        /\ Outcome(run[p]) = "completed"
    BY <1>2, <2>2, CloseSole
  <2>4. /\ ~ run[p].aborted
        /\ "skipped_preempted" \notin run[p].entries /\ "error" \notin run[p].entries
    BY <2>3 DEF Outcome
  <2>5. Spared(run[p])
    BY <1>2, <2>4 DEF Spared, Misses
  <2>6. run[p].at \in Nat /\ Len(run[p].plan) \in Nat
    BY <1>2, LedgerTypes
  <2>7. \A i \in 1..Len(run[p].plan) : i \in 1..(run[p].at - 1)
    BY <2>2, <2>4, <2>6
  <2> QED
    BY <2>2, <2>3, <2>5, <2>7 DEF Accounted
<1>3. TypeInv /\ LedgerInv => [\A p \in Procs : Kept(p)]_vars
  BY <1>2
<1> QED
  BY <1>1, <1>3, LedgerInit, TypeInit, TypeNext, PTL DEF Spec, CompletedIsDone
=============================================================================
