----------------------------- MODULE SweepProofs -----------------------------
(***************************************************************************)
(* What holds of the extraction sweep for any set of sweepers and sessions *)
(* and any limits: the types, that nothing captured is lost, and how often *)
(* a row can be extracted.                                                 *)
(***************************************************************************)
EXTENDS Sweep, FiniteSetTheorems, TLAPS

-----------------------------------------------------------------------------
\* Types.

LEMMA BatchRows == \A s \in Sweepers : Batch(s) \subseteq work[s].rows
  BY DEF Batch

LEMMA DigestRows ==
  \A ids : \A d \in Digests(ids) : d \subseteq ids
  BY DEF Digests, Digestible

LEMMA UnclaimedType ==
  ASSUME TypeOK, NEW ids
  PROVE  Unclaimed(ids) \in [Ids -> Sweepers \cup {Free, Orphaned}]
  BY DEF TypeOK, Unclaimed

\* Counting a call and noting that the LLM is down.
LEMMA WorkCounters ==
  \A w \in WorkState : /\ [w EXCEPT !.calls = w.calls + 1] \in WorkState
                       /\ [w EXCEPT !.down = TRUE] \in WorkState
<1>1. \A w \in WorkState : [w EXCEPT !.calls = w.calls + 1] \in WorkState
  BY DEF WorkState
<1>2. \A w \in WorkState : [w EXCEPT !.down = TRUE] \in WorkState
  BY DEF WorkState
<1> QED
  BY <1>1, <1>2

\* s is left with these rows; the rest of its state keeps its type.
LEMMA BecomesType ==
  ASSUME TypeOK, NEW s \in Sweepers, NEW state \in WorkState,
         Becomes(s, state), UNCHANGED buffer,
         state.rows \subseteq 1..Len(buffer),
         state.at = "idle" => state.rows = {},
         state.digest \subseteq state.rows
  PROVE  /\ work' \in [Sweepers -> WorkState]
         /\ \A t \in Sweepers :
              /\ work'[t].rows \subseteq 1..Len(buffer')
              /\ work'[t].at = "idle" => work'[t].rows = {}
              /\ work'[t].digest \subseteq work'[t].rows
  BY DEF TypeOK, Becomes

\* What Proceed leaves of the work, whatever the counters are.
LEMMA ProceedType ==
  ASSUME TypeOK, NEW s \in Sweepers, NEW state \in WorkState,
         Proceed(s, state), UNCHANGED buffer
  PROVE  /\ work' \in [Sweepers -> WorkState]
         /\ \A t \in Sweepers :
              /\ work'[t].rows \subseteq 1..Len(buffer')
              /\ work'[t].at = "idle" => work'[t].rows = {}
              /\ work'[t].digest \subseteq work'[t].rows
         /\ work'[s].rows = work[s].rows \ Batch(s) /\ work'[s].digest = {}
         /\ \A t \in Sweepers : t # s => work'[t] = work[t]
<1> DEFINE rest == work[s].rows \ Batch(s)
           next == [state EXCEPT !.at = "batch", !.rows = rest, !.digest = {}]
           new == IF rest = {} THEN Idle ELSE next
<1>1. rest \in SUBSET Ids /\ rest \subseteq 1..Len(buffer)
  BY DEF TypeOK, WorkState
<1>2. /\ Idle \in WorkState /\ Idle.rows = {} /\ Idle.digest = {}
      /\ Idle.at = "idle"
  BY DEF Idle, WorkState
<1>3. /\ next \in WorkState /\ next.rows = rest /\ next.digest = {}
      /\ next.at = "batch"
  BY <1>1 DEF WorkState
<1>4. Becomes(s, new)
  BY DEF Proceed
<1>5. new \in WorkState /\ new.rows = rest /\ new.digest = {}
  BY <1>2, <1>3
<1>6. new.at = "idle" => new.rows = {}
  BY <1>2, <1>3
<1> HIDE DEF new, rest, next
<1>7. work'[s] = new /\ \A t \in Sweepers : t # s => work'[t] = work[t]
  BY <1>4 DEF Becomes, TypeOK
<1>8. work'[s].rows = work[s].rows \ Batch(s) /\ work'[s].digest = {}
  BY <1>5, <1>7 DEF rest
<1> QED
  BY <1>1, <1>4, <1>5, <1>6, <1>7, <1>8, BecomesType

\* The actions of one sweeper.
SweeperNext(s) ==
    \/ Claim(s) \/ LeaveOver(s) \/ Distil(s) \/ Extract(s)
    \/ Unavailable(s) \/ Rollback(s) \/ Crash(s) \/ Outlive(s)

LEMMA NextCases ==
  ASSUME Next
  PROVE  Capture \/ Age \/ Expire \/ \E s \in Sweepers : SweeperNext(s)
  BY DEF Next, Work, SweeperNext

LEMMA TypeInit == Init => TypeOK
  BY SweepBoundsAssumption, SweepersAssumption
  DEF Init, TypeOK, Ids, Idle, WorkState, Kinds

LEMMA TypeCapture ==
  ASSUME TypeOK, Capture
  PROVE  TypeOK'
<1>1. PICK sid \in Sessions, kind \in Kinds :
        buffer' = Append(buffer, [session |-> sid, kind |-> kind])
  BY DEF Capture
<1>2. /\ buffer' \in Seq([session : Sessions, kind : Kinds])
      /\ Len(buffer') = Len(buffer) + 1
      /\ Len(buffer) \in Nat
  BY <1>1 DEF TypeOK
<1>3. Len(buffer') <= MaxBuffer
  BY <1>2, SweepBoundsAssumption DEF Capture
<1>4. 1..Len(buffer) \subseteq 1..Len(buffer')
  BY <1>2
<1>5. aged' \in 0..Len(buffer')
  BY <1>2 DEF Capture, TypeOK
<1> QED
  BY <1>2, <1>3, <1>4, <1>5 DEF Capture, TypeOK, history

\* Steps that change one or two functions over the rows.
LEMMA TypeQuiet ==
  ASSUME TypeOK, Age \/ Expire \/ \E s \in Sweepers : Outlive(s)
  PROVE  TypeOK'
<1>1. CASE Age
  BY <1>1 DEF Age, TypeOK, history
<1>2. CASE Expire
  <2>1. claimed' \in [Ids -> Sweepers \cup {Free, Orphaned}]
    BY <1>2, UnclaimedType DEF Expire
  <2> QED
    BY <1>2, <2>1 DEF Expire, TypeOK, history, queue
<1>3. ASSUME NEW s \in Sweepers, Outlive(s)
      PROVE  TypeOK'
  <2>1. claimed' \in [Ids -> Sweepers \cup {Free, Orphaned}]
    BY <1>3 DEF Outlive, TypeOK
  <2>2. outlived' \in [Ids -> Nat]
    BY <1>3 DEF Outlive, TypeOK
  <2>3. faults' \in 0..MaxFaults
    BY <1>3, SweepBoundsAssumption DEF Outlive, Fails, TypeOK
  <2> QED
    BY <1>3, <2>1, <2>2, <2>3 DEF Outlive, Fails, TypeOK, queue
<1> QED
  BY <1>1, <1>2, <1>3

LEMMA TypeClaim ==
  ASSUME TypeOK, NEW s \in Sweepers, Claim(s)
  PROVE  TypeOK'
<1> DEFINE ids == Oldest(Claimable, MaxRows[s])
           state == [Idle EXCEPT !.at = "batch", !.rows = ids]
<1>1. ids \subseteq 1..Len(buffer) /\ 1..Len(buffer) \subseteq Ids
  BY SweepBoundsAssumption DEF Oldest, Claimable, TypeOK, Ids
<1>2. /\ state \in WorkState /\ state.rows = ids /\ state.at = "batch"
      /\ state.digest = {}
  BY <1>1 DEF Idle, WorkState
<1>3. claimed' = [i \in Ids |-> IF i \in ids THEN s ELSE claimed[i]]
  BY DEF Claim
<1>4. Becomes(s, state) /\ UNCHANGED <<queue, promoted, history, faults>>
  BY DEF Claim
<1> HIDE DEF ids, state
<1>5. claimed' \in [Ids -> Sweepers \cup {Free, Orphaned}]
  BY <1>3 DEF TypeOK
<1>6. UNCHANGED <<buffer, aged, promoted, reads, outlived, faults>>
  BY <1>4 DEF queue, history
<1>7. /\ work' \in [Sweepers -> WorkState]
      /\ \A t \in Sweepers :
           /\ work'[t].rows \subseteq 1..Len(buffer')
           /\ work'[t].at = "idle" => work'[t].rows = {}
           /\ work'[t].digest \subseteq work'[t].rows
  BY <1>1, <1>2, <1>4, <1>6, BecomesType
<1> QED
  BY <1>5, <1>6, <1>7 DEF TypeOK

\* The six ways a sweep goes on, gives up or ends.
LEMMA TypeProceeds ==
  ASSUME TypeOK, NEW s \in Sweepers,
         \/ LeaveOver(s) \/ Distil(s) \/ Extract(s)
         \/ Unavailable(s) \/ Rollback(s) \/ Crash(s)
  PROVE  TypeOK'
<1> DEFINE WorkOK == /\ work' \in [Sweepers -> WorkState]
                     /\ \A t \in Sweepers :
                          /\ work'[t].rows \subseteq 1..Len(buffer')
                          /\ work'[t].at = "idle" => work'[t].rows = {}
                          /\ work'[t].digest \subseteq work'[t].rows
           Rest == /\ claimed' \in [Ids -> Sweepers \cup {Free, Orphaned}]
                   /\ promoted' \in SUBSET (1..Len(buffer))
                   /\ reads' \in [Ids -> Nat]
                   /\ UNCHANGED <<buffer, aged, outlived>>
                   /\ faults' \in 0..MaxFaults
<1>1. work[s] \in WorkState /\ work[s].rows \subseteq 1..Len(buffer)
  BY DEF TypeOK
<1>2. Batch(s) \subseteq 1..Len(buffer)
  BY <1>1, BatchRows
<1>3. \A ids : Unclaimed(ids) \in [Ids -> Sweepers \cup {Free, Orphaned}]
  BY UnclaimedType
<1>4. /\ Answered(s) \in WorkState
      /\ [work[s] EXCEPT !.down = TRUE] \in WorkState
  BY <1>1, WorkCounters DEF Answered
<1>5. \A state \in WorkState :
        Proceed(s, state) /\ UNCHANGED buffer => WorkOK
  BY ProceedType
<1>6. CASE LeaveOver(s)
  <2>1. UNCHANGED <<queue, promoted, history, faults>>
    BY <1>6 DEF LeaveOver
  <2>2. Rest
    BY <1>3, <1>6, <2>1 DEF LeaveOver, TypeOK, queue, history
  <2>3. WorkOK
    BY <1>1, <1>5, <1>6, <2>2 DEF LeaveOver
  <2> QED
    BY <2>2, <2>3 DEF TypeOK
<1>7. CASE Distil(s)
  <2>1. UNCHANGED <<queue, history, faults>>
    BY <1>7 DEF Distil
  <2>2. CASE Digests(Batch(s)) = {} /\ claimed' = Unclaimed(Batch(s))
             /\ (promoted' = promoted \cup Batch(s) \/ promoted' = promoted)
             /\ Proceed(s, work[s])
    <3>1. Rest
      BY <1>2, <1>3, <2>1, <2>2 DEF TypeOK, queue, history
    <3>2. WorkOK
      BY <1>1, <1>5, <2>2, <3>1
    <3> QED
      BY <3>1, <3>2 DEF TypeOK
  <2>3. ASSUME NEW d \in Digests(Batch(s)),
               Becomes(s, [work[s] EXCEPT !.at = "llm", !.digest = d]),
               UNCHANGED <<claimed, promoted>>
        PROVE  TypeOK'
    <3> DEFINE state == [work[s] EXCEPT !.at = "llm", !.digest = d]
    <3>1. d \subseteq work[s].rows
      BY BatchRows, DigestRows
    <3>2. /\ state \in WorkState /\ state.rows = work[s].rows
          /\ state.digest = d /\ state.at = "llm"
      BY <1>1, <3>1 DEF WorkState
    <3>3. Rest
      BY <2>1, <2>3 DEF TypeOK, queue, history
    <3>4. Becomes(s, state)
      BY <2>3
    <3> HIDE DEF state
    <3>5. WorkOK
      BY <1>1, <3>1, <3>2, <3>3, <3>4, BecomesType
    <3> QED
      BY <3>3, <3>5 DEF TypeOK
  <2> QED
    BY <1>7, <2>2, <2>3 DEF Distil
<1>8. CASE Extract(s)
  <2>1. UNCHANGED <<queue, outlived, faults>>
    BY <1>8 DEF Extract
  <2>2. work[s].digest \subseteq 1..Len(buffer)
    BY <1>1 DEF TypeOK
  <2>3. Promotes(s) \subseteq 1..Len(buffer)
    BY <1>2, <2>2 DEF Promotes, LastMarker, Markers
  <2>4. promoted' \in SUBSET (1..Len(buffer))
    BY <1>8, <2>3 DEF Extract, TypeOK
  <2>5. claimed' \in [Ids -> Sweepers \cup {Free, Orphaned}]
    BY <1>8 DEF Extract, Dropped, TypeOK
  <2>6. reads' \in [Ids -> Nat]
    BY <1>8 DEF Extract, TypeOK
  <2>7. Rest
    BY <2>1, <2>4, <2>5, <2>6 DEF TypeOK, queue
  <2>8. WorkOK
    BY <1>4, <1>5, <1>8, <2>7 DEF Extract
  <2> QED
    BY <2>7, <2>8 DEF TypeOK
<1>9. ASSUME Unavailable(s) \/ Rollback(s)
      PROVE  TypeOK'
  <2>1. /\ UNCHANGED <<queue, promoted, reads, outlived>>
        /\ claimed' = Unclaimed(Batch(s))
        /\ faults < MaxFaults /\ faults' = faults + 1
        /\ \E state \in WorkState : Proceed(s, state)
    BY <1>4, <1>9 DEF Unavailable, Rollback, Fails
  <2>2. faults' \in 0..MaxFaults
    BY <2>1, SweepBoundsAssumption DEF TypeOK
  <2>3. Rest
    BY <1>3, <2>1, <2>2 DEF TypeOK, queue
  <2>4. WorkOK
    BY <1>5, <2>1, <2>3
  <2> QED
    BY <2>3, <2>4 DEF TypeOK
<1>10. CASE Crash(s)
  <2>1. /\ UNCHANGED <<queue, promoted, reads, outlived>>
        /\ faults < MaxFaults /\ faults' = faults + 1
        /\ Becomes(s, Idle)
    BY <1>10 DEF Crash, Fails
  <2>2. faults' \in 0..MaxFaults
    BY <2>1, SweepBoundsAssumption DEF TypeOK
  <2>3. claimed' \in [Ids -> Sweepers \cup {Free, Orphaned}]
    BY <1>10 DEF Crash, TypeOK
  <2>4. Rest
    BY <2>1, <2>2, <2>3 DEF TypeOK, queue
  <2>5. Idle \in WorkState /\ Idle.rows = {} /\ Idle.digest = {}
    BY DEF Idle, WorkState
  <2>6. WorkOK
    BY <2>1, <2>4, <2>5, BecomesType
  <2> QED
    BY <2>4, <2>6 DEF TypeOK
<1> QED
  BY <1>6, <1>7, <1>8, <1>9, <1>10

\* The state of every sweep and of every row keeps its type, a sweep works on
\* rows of the buffer and asks the LLM about rows of its own.
THEOREM SweepTypeCorrect == Spec => []TypeOK
<1>1. TypeOK /\ [Next]_sweepVars => TypeOK'
  <2> SUFFICES ASSUME TypeOK, [Next]_sweepVars
               PROVE  TypeOK'
    OBVIOUS
  <2>1. CASE UNCHANGED sweepVars
    BY <2>1 DEF sweepVars, queue, history, TypeOK
  <2>2. CASE Next
    BY <2>2, NextCases, TypeCapture, TypeQuiet, TypeClaim, TypeProceeds
    DEF SweeperNext
  <2> QED
    BY <2>1, <2>2
<1> QED
  BY <1>1, TypeInit, PTL DEF Spec

-----------------------------------------------------------------------------
\* Nothing captured is lost.

\* Without a digest there is nothing that one could contain.
LEMMA NoDigest ==
  \A ids : Digests(ids) = {} => Digestible(ids) = {}
<1> SUFFICES ASSUME NEW ids, Digestible(ids) # {}
             PROVE  Digests(ids) # {}
  OBVIOUS
<1>1. Digestible(ids) \in Digests(ids)
  BY DEF Digests
<1> QED
  BY <1>1

LEMMA LostDistil ==
  ASSUME TypeOK, NothingLost, NEW s \in Sweepers, Distil(s)
  PROVE  NothingLost'
<1>1. UNCHANGED <<buffer, reads>>
  BY DEF Distil, queue, history
<1>2. CASE promoted' = promoted
  BY <1>1, <1>2 DEF NothingLost, Kind
<1>3. CASE /\ Digests(Batch(s)) = {}
           /\ promoted' = promoted \cup Batch(s)
           /\ ReadAll(Batch(s)) \/ \A i \in Batch(s) : Kind(i) # "quiet"
  <2>1. Digestible(Batch(s)) = {}
    BY <1>3, NoDigest
  <2>2. \A i \in Batch(s) : Kind(i) \notin {"loud", "quiet"}
    BY <1>3, <2>1 DEF Digestible
  <2> QED
    BY <1>1, <1>3, <2>2 DEF NothingLost, Kind
<1> QED
  BY <1>2, <1>3 DEF Distil

LEMMA LostExtract ==
  ASSUME TypeOK, NothingLost, NEW s \in Sweepers, Extract(s)
  PROVE  NothingLost'
<1>1. /\ buffer' = buffer /\ promoted' = promoted \cup Promotes(s)
      /\ reads' = [i \in Ids |-> IF i \in work[s].digest THEN reads[i] + 1
                                ELSE reads[i]]
  BY DEF Extract, queue
<1>2. promoted \subseteq Ids /\ work[s].digest \subseteq Ids
  BY SweepBoundsAssumption DEF TypeOK, WorkState, Ids
<1>3. \A i \in Ids : reads[i] \in Nat
  BY DEF TypeOK
<1>4. \A i \in promoted : Kind(i) \in {"loud", "quiet"} => reads'[i] >= 1
  BY <1>1, <1>2, <1>3 DEF NothingLost
<1>5. \A i \in work[s].digest : reads'[i] >= 1
  BY <1>1, <1>2, <1>3
<1>6. \A i \in Promotes(s) \ work[s].digest : Kind(i) = "marker"
  BY DEF Promotes, LastMarker, Markers
<1> QED
  BY <1>1, <1>4, <1>5, <1>6 DEF NothingLost, Kind

LEMMA LostCapture ==
  ASSUME TypeOK, NothingLost, Capture
  PROVE  NothingLost'
<1>1. PICK sid \in Sessions, kind \in Kinds :
        buffer' = Append(buffer, [session |-> sid, kind |-> kind])
  BY DEF Capture
<1>2. \A i \in 1..Len(buffer) : buffer'[i] = buffer[i]
  BY <1>1 DEF TypeOK
<1>3. promoted \subseteq 1..Len(buffer) /\ UNCHANGED <<promoted, reads>>
  BY DEF TypeOK, Capture, history
<1> QED
  BY <1>2, <1>3 DEF NothingLost, Kind

\* A row that says something is promoted only when a committed digest contained
\* it: the rows a sweep promotes are those of the digest, a marker, or a batch
\* that has nothing to read.
THEOREM SweepLosesNothing == Spec => []NothingLost
<1>1. Init => NothingLost
  BY DEF Init, NothingLost
<1>2. TypeOK /\ NothingLost /\ [Next]_sweepVars => NothingLost'
  <2> SUFFICES ASSUME TypeOK, NothingLost, [Next]_sweepVars
               PROVE  NothingLost'
    OBVIOUS
  <2>1. CASE UNCHANGED <<buffer, promoted, reads>>
    BY <2>1 DEF NothingLost, Kind
  <2>2. CASE UNCHANGED sweepVars
    BY <2>1, <2>2 DEF sweepVars, queue, history
  <2>3. CASE Age \/ Expire
    BY <2>1, <2>3 DEF Age, Expire, queue, history
  <2>4. ASSUME NEW s \in Sweepers, SweeperNext(s)
        PROVE  NothingLost'
    <3>1. CASE Claim(s) \/ LeaveOver(s)
      BY <2>1, <3>1 DEF Claim, LeaveOver, queue, history
    <3>2. CASE Unavailable(s) \/ Rollback(s) \/ Crash(s) \/ Outlive(s)
      BY <2>1, <3>2 DEF Unavailable, Rollback, Crash, Outlive, Fails, queue
    <3> QED
      BY <2>4, <3>1, <3>2, LostDistil, LostExtract DEF SweeperNext
  <2>5. CASE Next
    BY <2>3, <2>4, <2>5, LostCapture, NextCases
  <2> QED
    BY <2>2, <2>5
<1> QED
  BY <1>1, <1>2, SweepTypeCorrect, PTL DEF Spec

-----------------------------------------------------------------------------
\* No row is extracted twice.

Holders(i) == {s \in Sweepers : i \in work[s].rows}

\* Each sweep that still works on a row may extract it once more, so the count
\* includes them; a row that can be claimed leaves room for one more.
OnceInv ==
    \A i \in Ids :
        /\ reads[i] + Cardinality(Holders(i)) <= 1 + outlived[i]
        /\ i \notin promoted /\ claimed[i] \notin Sweepers
              => Cardinality(Holders(i)) <= outlived[i]
        /\ claimed[i] \in Sweepers => i \in work[claimed[i]].rows
        /\ reads[i] > 0 => i \in promoted

\* The digest the LLM reads is of the batch at hand.
DigestInv == \A s \in Sweepers : work[s].digest \subseteq Batch(s)

LEMMA SameBatch ==
  ASSUME TypeOK, NEW s \in Sweepers, work'[s].rows = work[s].rows,
         \A i \in 1..Len(buffer) : buffer'[i] = buffer[i]
  PROVE  Batch(s)' = Batch(s)
<1>1. \A i \in work[s].rows : buffer'[i] = buffer[i]
  BY DEF TypeOK
<1> QED
  BY <1>1 DEF Batch, Session

\* A step of s that leaves the buffer alone.
LEMMA DigestStep ==
  ASSUME TypeOK, DigestInv, UNCHANGED buffer, NEW s \in Sweepers,
         \A t \in Sweepers : t # s => work'[t] = work[t],
         \/ work'[s].digest = {}
         \/ work'[s].rows = work[s].rows /\ work'[s].digest \subseteq Batch(s)
  PROVE  DigestInv'
<1>1. \A t \in Sweepers : work'[t].rows = work[t].rows => Batch(t)' = Batch(t)
  BY SameBatch
<1> SUFFICES ASSUME NEW t \in Sweepers
             PROVE  work'[t].digest \subseteq Batch(t)'
  BY DEF DigestInv
<1>2. CASE t = s
  BY <1>1, <1>2
<1>3. CASE t # s
  BY <1>1, <1>3 DEF DigestInv
<1> QED
  BY <1>2, <1>3

LEMMA DigestOfBatch == Spec => []DigestInv
<1>1. Init => DigestInv
  BY DEF Init, Idle, DigestInv
<1>2. TypeOK /\ DigestInv /\ [Next]_sweepVars => DigestInv'
  <2> SUFFICES ASSUME TypeOK, DigestInv, [Next]_sweepVars
               PROVE  DigestInv'
    OBVIOUS
  <2>1. ASSUME UNCHANGED work,
               \A i \in 1..Len(buffer) : buffer'[i] = buffer[i]
        PROVE  DigestInv'
    BY <2>1, SameBatch DEF DigestInv
  <2>2. CASE UNCHANGED sweepVars
    BY <2>1, <2>2 DEF sweepVars, queue
  <2>3. CASE Age \/ Expire
    BY <2>1, <2>3 DEF Age, Expire, queue
  <2>4. CASE Capture
    <3>1. PICK sid \in Sessions, kind \in Kinds :
            buffer' = Append(buffer, [session |-> sid, kind |-> kind])
      BY <2>4 DEF Capture
    <3>2. \A i \in 1..Len(buffer) : buffer'[i] = buffer[i]
      BY <3>1 DEF TypeOK
    <3> QED
      BY <2>1, <2>4, <3>2 DEF Capture
  <2>5. ASSUME NEW s \in Sweepers, SweeperNext(s)
        PROVE  DigestInv'
    <3>1. work[s] \in WorkState
      BY DEF TypeOK
    <3>2. \A state : Becomes(s, state) =>
            /\ work'[s] = state
            /\ \A t \in Sweepers : t # s => work'[t] = work[t]
      BY DEF Becomes, TypeOK
    <3>3. ASSUME NEW state \in WorkState, Proceed(s, state), UNCHANGED buffer
          PROVE  DigestInv'
      BY <3>3, ProceedType, DigestStep
    <3>4. /\ Answered(s) \in WorkState
          /\ [work[s] EXCEPT !.down = TRUE] \in WorkState
      BY <3>1, WorkCounters DEF Answered
    <3>5. CASE Claim(s)
      <4> DEFINE state == [Idle EXCEPT !.at = "batch",
                             !.rows = Oldest(Claimable, MaxRows[s])]
      <4>1. Becomes(s, state) /\ UNCHANGED buffer
        BY <3>5 DEF Claim, queue
      <4>2. state.digest = {}
        BY DEF Idle
      <4> HIDE DEF state
      <4> QED
        BY <3>2, <4>1, <4>2, DigestStep
    <3>6. CASE LeaveOver(s)
      BY <3>1, <3>3, <3>6 DEF LeaveOver, queue
    <3>7. CASE Distil(s)
      <4>1. UNCHANGED buffer
        BY <3>7 DEF Distil, queue
      <4>2. CASE Proceed(s, work[s])
        BY <3>1, <3>3, <4>1, <4>2
      <4>3. ASSUME NEW d \in Digests(Batch(s)),
                   Becomes(s, [work[s] EXCEPT !.at = "llm", !.digest = d])
            PROVE  DigestInv'
        <5> DEFINE state == [work[s] EXCEPT !.at = "llm", !.digest = d]
        <5>1. state.rows = work[s].rows /\ state.digest = d
          BY <3>1 DEF WorkState
        <5>2. Becomes(s, state) /\ d \subseteq Batch(s)
          BY <4>3, DigestRows
        <5> HIDE DEF state
        <5> QED
          BY <3>2, <4>1, <5>1, <5>2, DigestStep
      <4> QED
        BY <3>7, <4>2, <4>3 DEF Distil
    <3>8. CASE Extract(s)
      BY <3>3, <3>4, <3>8 DEF Extract, queue
    <3>9. CASE Unavailable(s) \/ Rollback(s)
      BY <3>3, <3>4, <3>9 DEF Unavailable, Rollback, Fails, queue
    <3>10. CASE Crash(s)
      <4>1. Becomes(s, Idle) /\ Idle.digest = {} /\ UNCHANGED buffer
        BY <3>10 DEF Crash, Idle, Fails, queue
      <4> QED
        BY <3>2, <4>1, DigestStep
    <3>11. CASE Outlive(s)
      BY <2>1, <3>11 DEF Outlive, Fails, queue
    <3> QED
      BY <2>5, <3>5, <3>6, <3>7, <3>8, <3>9, <3>10, <3>11 DEF SweeperNext
  <2>6. CASE Next
    BY <2>3, <2>4, <2>5, <2>6, NextCases
  <2> QED
    BY <2>2, <2>6
<1> QED
  BY <1>1, <1>2, SweepTypeCorrect, PTL DEF Spec

LEMMA HoldersFinite ==
  \A i : IsFiniteSet(Holders(i)) /\ Cardinality(Holders(i)) \in Nat
<1> TAKE i
<1>1. IsFiniteSet(Holders(i))
  BY SweepersAssumption, FS_Subset DEF Holders
<1> QED
  BY <1>1, FS_CardinalityType

\* s gives up the rows B, after it has read some of them, which are promoted, or
\* none; whoever s thought they belonged to, they are nobody's now or another's.
LEMMA Dismiss ==
  ASSUME TypeOK, OnceInv, NEW s \in Sweepers, NEW B \in SUBSET work[s].rows,
         work'[s].rows = work[s].rows \ B,
         \A t \in Sweepers : t # s => work'[t].rows = work[t].rows,
         outlived' = outlived, promoted \subseteq promoted',
         \A i \in Ids \ B : claimed'[i] = claimed[i] /\ reads'[i] = reads[i],
         \A i \in B :
            /\ \/ claimed'[i] \notin Sweepers
               \/ claimed'[i] = claimed[i] /\ claimed[i] # s
            /\ \/ reads'[i] = reads[i]
               \/ reads'[i] = reads[i] + 1 /\ i \in promoted'
  PROVE  OnceInv'
<1> SUFFICES ASSUME NEW i \in Ids
             PROVE  /\ reads'[i] + Cardinality(Holders(i)')
                         <= 1 + outlived'[i]
                    /\ i \notin promoted' /\ claimed'[i] \notin Sweepers
                          => Cardinality(Holders(i)') <= outlived'[i]
                    /\ claimed'[i] \in Sweepers
                          => i \in work'[claimed'[i]].rows
                    /\ reads'[i] > 0 => i \in promoted'
  BY DEF OnceInv
<1>1. reads[i] \in Nat /\ outlived[i] \in Nat /\ outlived'[i] = outlived[i]
  BY DEF TypeOK
<1>2. Cardinality(Holders(i)) \in Nat /\ IsFiniteSet(Holders(i))
  BY HoldersFinite
<1>3. /\ reads[i] + Cardinality(Holders(i)) <= 1 + outlived[i]
      /\ i \notin promoted /\ claimed[i] \notin Sweepers
            => Cardinality(Holders(i)) <= outlived[i]
      /\ claimed[i] \in Sweepers => i \in work[claimed[i]].rows
      /\ reads[i] > 0 => i \in promoted
  BY DEF OnceInv
<1>4. CASE i \notin B
  <2>1. Holders(i)' = Holders(i)
    BY <1>4 DEF Holders
  <2>2. claimed'[i] = claimed[i] /\ reads'[i] = reads[i]
    BY <1>4
  <2>3. claimed'[i] \in Sweepers => i \in work'[claimed'[i]].rows
    BY <1>3, <1>4, <2>2
  <2> QED
    BY <1>1, <1>2, <1>3, <2>1, <2>2, <2>3
<1>5. CASE i \in B
  <2>1. s \in Holders(i) /\ Holders(i)' = Holders(i) \ {s}
    BY <1>5 DEF Holders
  <2>2. Cardinality(Holders(i)') = Cardinality(Holders(i)) - 1
    BY <1>2, <2>1, FS_RemoveElement
  <2>3. \/ reads'[i] = reads[i]
        \/ reads'[i] = reads[i] + 1 /\ i \in promoted'
    BY <1>5
  <2>4. claimed'[i] \in Sweepers => i \in work'[claimed'[i]].rows
    BY <1>3, <1>5
  <2>5. reads'[i] > 0 => i \in promoted'
    BY <1>1, <1>3, <2>3
  <2>6. Cardinality(Holders(i)') <= outlived'[i]
    BY <1>1, <1>2, <1>3, <2>2
  <2>7. reads'[i] + Cardinality(Holders(i)') <= 1 + outlived'[i]
    BY <1>1, <1>2, <1>3, <2>2, <2>3
  <2> QED
    BY <2>4, <2>5, <2>6, <2>7
<1> QED
  BY <1>4, <1>5

\* Every way but an extraction frees the rows and reads nothing.
LEMMA OnceGivesUp ==
  ASSUME TypeOK, OnceInv, NEW s \in Sweepers, NEW state \in WorkState,
         Proceed(s, state), claimed' = Unclaimed(Batch(s)),
         promoted \subseteq promoted', UNCHANGED <<buffer, reads, outlived>>
  PROVE  OnceInv'
<1>1. /\ work'[s].rows = work[s].rows \ Batch(s)
      /\ \A t \in Sweepers : t # s => work'[t].rows = work[t].rows
  BY ProceedType
<1>2. Batch(s) \in SUBSET work[s].rows
  BY BatchRows
<1>3. Batch(s) \subseteq Ids
  BY <1>2 DEF TypeOK, WorkState
<1>4. \A i \in Ids \ Batch(s) : claimed'[i] = claimed[i]
  BY DEF Unclaimed
<1>5. \A i \in Batch(s) : claimed'[i] \notin Sweepers
  BY <1>3, SweepersAssumption DEF Unclaimed
<1> QED
  BY <1>1, <1>2, <1>3, <1>4, <1>5, Dismiss

LEMMA OnceExtract ==
  ASSUME TypeOK, OnceInv, DigestInv, NEW s \in Sweepers, Extract(s)
  PROVE  OnceInv'
<1>1. work[s] \in WorkState /\ work[s].digest \subseteq Batch(s)
  BY DEF TypeOK, DigestInv
<1>2. Answered(s) \in WorkState
  BY <1>1, WorkCounters DEF Answered
<1>3. UNCHANGED <<buffer, outlived>> /\ Proceed(s, Answered(s))
  BY DEF Extract, queue
<1>4. /\ work'[s].rows = work[s].rows \ Batch(s)
      /\ \A t \in Sweepers : t # s => work'[t].rows = work[t].rows
  BY <1>2, <1>3, ProceedType
<1>5. Batch(s) \in SUBSET work[s].rows /\ Batch(s) \subseteq Ids
  BY <1>1, BatchRows DEF WorkState
<1>6. /\ claimed' = Dropped(s) /\ promoted' = promoted \cup Promotes(s)
      /\ reads' = [i \in Ids |-> IF i \in work[s].digest THEN reads[i] + 1
                                ELSE reads[i]]
  BY DEF Extract
<1>7. \A i \in Ids \ Batch(s) : claimed'[i] = claimed[i] /\ reads'[i] = reads[i]
  BY <1>1, <1>6 DEF Dropped, Overlooked, Markers
<1>8. \A i \in Batch(s) : \/ reads'[i] = reads[i]
                          \/ reads'[i] = reads[i] + 1 /\ i \in promoted'
  <2> SUFFICES ASSUME NEW i \in Batch(s)
               PROVE  \/ reads'[i] = reads[i]
                      \/ reads'[i] = reads[i] + 1 /\ i \in promoted'
    OBVIOUS
  <2>1. CASE i \in work[s].digest
    BY <1>5, <1>6, <2>1 DEF Promotes
  <2>2. CASE i \notin work[s].digest
    BY <1>5, <1>6, <2>2
  <2> QED
    BY <2>1, <2>2
<1>9. \A i \in Batch(s) : \/ claimed'[i] \notin Sweepers
                          \/ claimed'[i] = claimed[i] /\ claimed[i] # s
  <2> SUFFICES ASSUME NEW i \in Batch(s)
               PROVE  \/ claimed'[i] \notin Sweepers
                      \/ claimed'[i] = claimed[i] /\ claimed[i] # s
    OBVIOUS
  <2>1. /\ i \in Ids
        /\ claimed'[i] = CASE i \in Overlooked(s) /\ claimed[i] = s -> Orphaned
                           [] i \in Batch(s) \ Overlooked(s) -> Free
                           [] OTHER -> claimed[i]
    BY <1>5, <1>6 DEF Dropped
  <2>2. CASE i \notin Overlooked(s)
    BY <2>1, <2>2, SweepersAssumption
  <2>3. CASE i \in Overlooked(s)
    BY <2>1, <2>3, SweepersAssumption
  <2> QED
    BY <2>2, <2>3
<1> QED
  BY <1>3, <1>4, <1>5, <1>6, <1>7, <1>8, <1>9, Dismiss

LEMMA OnceCrash ==
  ASSUME TypeOK, OnceInv, NEW s \in Sweepers, Crash(s)
  PROVE  OnceInv'
<1> DEFINE B == work[s].rows
<1>1. /\ Becomes(s, Idle) /\ UNCHANGED <<promoted, reads, outlived>>
      /\ claimed' = [i \in Ids |-> IF claimed[i] = s THEN Orphaned
                                  ELSE claimed[i]]
  BY DEF Crash, Fails
<1>2. /\ work'[s] = Idle
      /\ \A t \in Sweepers : t # s => work'[t] = work[t]
  BY <1>1 DEF Becomes, TypeOK
<1>3. work'[s].rows = work[s].rows \ B
  BY <1>2 DEF Idle
<1>4. B \subseteq Ids
  BY DEF TypeOK, WorkState
<1>5. \A i \in Ids \ B : claimed'[i] = claimed[i]
  BY <1>1 DEF OnceInv
<1>6. \A i \in B : \/ claimed'[i] \notin Sweepers
                   \/ claimed'[i] = claimed[i] /\ claimed[i] # s
  <2> SUFFICES ASSUME NEW i \in B
               PROVE  \/ claimed'[i] \notin Sweepers
                      \/ claimed'[i] = claimed[i] /\ claimed[i] # s
    OBVIOUS
  <2>1. /\ i \in Ids
        /\ claimed'[i] = IF claimed[i] = s THEN Orphaned ELSE claimed[i]
    BY <1>1, <1>4
  <2> QED
    BY <2>1, SweepersAssumption
<1> QED
  BY <1>1, <1>2, <1>3, <1>5, <1>6, Dismiss

\* What s claims was nobody's: no sweep that still has the row counts on it.
LEMMA OnceClaim ==
  ASSUME TypeOK, OnceInv, NEW s \in Sweepers, Claim(s)
  PROVE  OnceInv'
<1> DEFINE ids == Oldest(Claimable, MaxRows[s])
           state == [Idle EXCEPT !.at = "batch", !.rows = ids]
<1>1. /\ Becomes(s, state) /\ work[s].rows = {}
      /\ UNCHANGED <<promoted, reads, outlived>>
      /\ claimed' = [i \in Ids |-> IF i \in ids THEN s ELSE claimed[i]]
  BY DEF Claim, history, TypeOK
<1>2. state.rows = ids
  BY DEF Idle
<1>3. \A i \in ids : i \notin promoted /\ claimed[i] = Free
  BY DEF Oldest, Claimable
<1> HIDE DEF ids, state
<1>4. /\ work'[s].rows = ids
      /\ \A t \in Sweepers : t # s => work'[t].rows = work[t].rows
  BY <1>1, <1>2 DEF Becomes, TypeOK
<1> SUFFICES ASSUME NEW i \in Ids
             PROVE  /\ reads'[i] + Cardinality(Holders(i)')
                         <= 1 + outlived'[i]
                    /\ i \notin promoted' /\ claimed'[i] \notin Sweepers
                          => Cardinality(Holders(i)') <= outlived'[i]
                    /\ claimed'[i] \in Sweepers
                          => i \in work'[claimed'[i]].rows
                    /\ reads'[i] > 0 => i \in promoted'
  BY DEF OnceInv
<1>5. reads[i] \in Nat /\ outlived[i] \in Nat
  BY DEF TypeOK
<1>6. Cardinality(Holders(i)) \in Nat /\ IsFiniteSet(Holders(i))
  BY HoldersFinite
<1>7. /\ reads[i] + Cardinality(Holders(i)) <= 1 + outlived[i]
      /\ i \notin promoted /\ claimed[i] \notin Sweepers
            => Cardinality(Holders(i)) <= outlived[i]
      /\ claimed[i] \in Sweepers => i \in work[claimed[i]].rows
      /\ reads[i] > 0 => i \in promoted
  BY DEF OnceInv
<1>8. CASE i \notin ids
  <2>1. Holders(i)' = Holders(i) /\ claimed'[i] = claimed[i]
    BY <1>1, <1>4, <1>8 DEF Holders
  <2> QED
    BY <1>1, <1>4, <1>7, <2>1
<1>9. CASE i \in ids
  <2>1. claimed[i] \notin Sweepers /\ i \notin promoted
    BY <1>3, <1>9, SweepersAssumption
  <2>2. Holders(i)' = Holders(i) \cup {s} /\ claimed'[i] = s
    BY <1>1, <1>4, <1>9 DEF Holders
  <2>3. Cardinality(Holders(i)') <= Cardinality(Holders(i)) + 1
    <3>1. Cardinality(Holders(i) \cup {s})
            = IF s \in Holders(i) THEN Cardinality(Holders(i))
              ELSE Cardinality(Holders(i)) + 1
      BY <1>6, FS_AddElement
    <3>2. Cardinality(Holders(i) \cup {s}) <= Cardinality(Holders(i)) + 1
      BY <1>6, <3>1
    <3> QED
      BY <2>2, <3>2
  <2>4. Cardinality(Holders(i)') \in Nat
    BY <1>6, <2>2, FS_AddElement, FS_CardinalityType
  <2>5. reads'[i] + Cardinality(Holders(i)') <= 1 + outlived'[i]
    BY <1>1, <1>5, <1>6, <1>7, <2>1, <2>3, <2>4
  <2> QED
    BY <1>1, <1>4, <1>7, <1>9, <2>1, <2>2, <2>5
<1> QED
  BY <1>8, <1>9

\* A claim on rows that a sweep still has expires: room for one more.
LEMMA OnceOutlive ==
  ASSUME TypeOK, OnceInv, NEW s \in Sweepers, Outlive(s)
  PROVE  OnceInv'
<1>1. /\ UNCHANGED <<promoted, reads, work>>
      /\ claimed' = [i \in Ids |-> IF claimed[i] = s THEN Free ELSE claimed[i]]
      /\ outlived' = [i \in Ids |-> IF claimed[i] = s THEN outlived[i] + 1
                                   ELSE outlived[i]]
  BY DEF Outlive, Fails
<1>2. \A i : Holders(i)' = Holders(i)
  BY <1>1 DEF Holders
<1>3. \A i \in Ids : reads[i] \in Nat /\ outlived[i] \in Nat
  BY DEF TypeOK
<1>4. \A i \in Ids : Cardinality(Holders(i)) \in Nat
  BY HoldersFinite
<1> HIDE DEF Holders
<1> SUFFICES ASSUME NEW i \in Ids
             PROVE  /\ reads[i] + Cardinality(Holders(i)) <= 1 + outlived'[i]
                    /\ i \notin promoted /\ claimed'[i] \notin Sweepers
                          => Cardinality(Holders(i)) <= outlived'[i]
                    /\ claimed'[i] \in Sweepers
                          => i \in work[claimed'[i]].rows
                    /\ reads[i] > 0 => i \in promoted
  BY <1>1, <1>2 DEF OnceInv
<1>5. CASE claimed[i] = s
  <2>1. claimed'[i] = Free /\ outlived'[i] = outlived[i] + 1
    BY <1>1, <1>5
  <2> QED
    BY <1>3, <1>4, <2>1, SweepersAssumption DEF OnceInv
<1>6. CASE claimed[i] # s
  <2>1. claimed'[i] = claimed[i] /\ outlived'[i] = outlived[i]
    BY <1>1, <1>6
  <2> QED
    BY <2>1 DEF OnceInv
<1> QED
  BY <1>5, <1>6

\* What a row says is extracted at most once, and once more for each of its
\* claims that expired under a sweep still at work, whatever sweeps overlap,
\* fail or die: a claimed row belongs to a sweep that has it, and one that can
\* be claimed was given up by every sweep but those that outlived their claim.
THEOREM SweepExtractsOnce == Spec => []ExtractedOnce
<1>1. Init => OnceInv
  <2> SUFFICES ASSUME Init
               PROVE  OnceInv
    OBVIOUS
  <2>1. \A i : Cardinality(Holders(i)) = 0
    BY FS_EmptySet DEF Init, Idle, Holders
  <2>2. \A i \in Ids : reads[i] = 0 /\ outlived[i] = 0 /\ claimed[i] \notin Sweepers
    BY SweepersAssumption DEF Init
  <2> HIDE DEF Holders
  <2> QED
    BY <2>1, <2>2 DEF OnceInv
<1>2. TypeOK /\ DigestInv /\ OnceInv /\ [Next]_sweepVars => OnceInv'
  <2> SUFFICES ASSUME TypeOK, DigestInv, OnceInv, [Next]_sweepVars
               PROVE  OnceInv'
    OBVIOUS
  <2>1. CASE UNCHANGED <<promoted, claimed, reads, outlived, work>>
    BY <2>1 DEF OnceInv, Holders
  <2>2. CASE UNCHANGED sweepVars \/ Capture \/ Age
    BY <2>1, <2>2 DEF sweepVars, queue, history, Capture, Age
  <2>3. CASE Expire
    <3>1. UNCHANGED <<promoted, reads, outlived, work>>
      BY <2>3 DEF Expire, history
    <3>2. \A i \in Ids : \/ claimed'[i] = claimed[i]
                         \/ claimed'[i] = Free /\ claimed[i] \notin Sweepers
      <4> SUFFICES ASSUME NEW i \in Ids
                   PROVE  \/ claimed'[i] = claimed[i]
                          \/ claimed'[i] = Free /\ claimed[i] \notin Sweepers
        OBVIOUS
      <4>1. \/ claimed'[i] = claimed[i]
            \/ claimed'[i] = Free /\ claimed[i] = Orphaned
        BY <2>3 DEF Expire, Unclaimed
      <4> QED
        BY <4>1, SweepersAssumption
    <3>3. \A i : Holders(i)' = Holders(i)
      BY <3>1 DEF Holders
    <3> HIDE DEF Holders
    <3> QED
      BY <3>1, <3>2, <3>3, SweepersAssumption DEF OnceInv
  <2>4. ASSUME NEW s \in Sweepers, SweeperNext(s)
        PROVE  OnceInv'
    <3>1. work[s] \in WorkState
      BY DEF TypeOK
    <3>2. /\ Answered(s) \in WorkState
          /\ [work[s] EXCEPT !.down = TRUE] \in WorkState
      BY <3>1, WorkCounters DEF Answered
    <3>3. CASE LeaveOver(s)
      BY <3>1, <3>3, OnceGivesUp DEF LeaveOver, queue, history
    <3>4. CASE Distil(s)
      <4>1. UNCHANGED <<buffer, reads, outlived>>
        BY <3>4 DEF Distil, queue, history
      <4>2. CASE /\ Proceed(s, work[s]) /\ claimed' = Unclaimed(Batch(s))
                 /\ promoted \subseteq promoted'
        BY <3>1, <4>1, <4>2, OnceGivesUp
      <4>3. ASSUME NEW d \in Digests(Batch(s)),
                   Becomes(s, [work[s] EXCEPT !.at = "llm", !.digest = d]),
                   UNCHANGED <<claimed, promoted>>
            PROVE  OnceInv'
        <5>1. \A t \in Sweepers : work'[t].rows = work[t].rows
          BY <4>3 DEF Becomes, TypeOK, WorkState
        <5>2. \A i : Holders(i)' = Holders(i)
          BY <5>1 DEF Holders
        <5> HIDE DEF Holders
        <5> QED
          BY <4>1, <4>3, <5>1, <5>2 DEF OnceInv
      <4> QED
        BY <3>4, <4>2, <4>3 DEF Distil
    <3>5. CASE Unavailable(s) \/ Rollback(s)
      BY <3>2, <3>5, OnceGivesUp DEF Unavailable, Rollback, Fails, queue
    <3> QED
      BY <2>4, <3>3, <3>4, <3>5, OnceClaim, OnceExtract, OnceCrash, OnceOutlive
      DEF SweeperNext
  <2>5. CASE Next
    BY <2>2, <2>3, <2>4, <2>5, NextCases
  <2> QED
    BY <2>2, <2>5
<1>3. TypeOK /\ OnceInv => ExtractedOnce
  <2> SUFFICES ASSUME TypeOK, OnceInv, NEW i \in Ids
               PROVE  reads[i] <= 1 + outlived[i]
    BY DEF ExtractedOnce
  <2>1. Cardinality(Holders(i)) \in Nat
    BY HoldersFinite
  <2>2. reads[i] \in Nat /\ outlived[i] \in Nat
    BY DEF TypeOK
  <2> QED
    BY <2>1, <2>2 DEF OnceInv
<1> QED
  BY <1>1, <1>2, <1>3, SweepTypeCorrect, DigestOfBatch, PTL DEF Spec
=============================================================================
