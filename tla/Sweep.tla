------------------------------- MODULE Sweep -------------------------------
(***************************************************************************)
(* The extraction sweep (capture/extract.py): captured turns wait in       *)
(* ingest_buffer; a sweep claims the oldest, gives them to the LLM session *)
(* by session, and promotes what the LLM has read.  The worker thread of   *)
(* every provider, the dream's flush strategy and the command line sweep   *)
(* the same buffer.                                                        *)
(*                                                                         *)
(* A row is a number: the order of insertion.  Its text is left out; what  *)
(* counts is whether a digest contains it:                                 *)
(*   loud    a turn of some salience, a delegation or pre_compress         *)
(*           snapshot with text                                            *)
(*   quiet   a turn below _MIN_SALIENCE: in the digest only of a session   *)
(*           that is over                                                  *)
(*   blank   a snapshot without text                                       *)
(*   marker  session_end_marker                                            *)
(***************************************************************************)
EXTENDS Integers, Sequences, FiniteSets

CONSTANTS
    Sweepers, Sessions,
    MaxRows, MaxCalls,  \* sweeper -> max_rows, max_llm_calls
    Free, Orphaned,     \* claimed_by NULL or stale; a tag nobody works for
    Faults,             \* "down", "locked", "crash", "slow"
    MaxBuffer, MaxFaults    \* bounds: rows and faults

Ids == 1..MaxBuffer

ASSUME SweepersAssumption ==
    /\ IsFiniteSet(Sweepers)
    /\ Free \notin Sweepers /\ Orphaned \notin Sweepers /\ Free # Orphaned
ASSUME LimitsAssumption ==
    /\ MaxRows \in [Sweepers -> Nat \ {0}]
    /\ MaxCalls \in [Sweepers -> Nat \ {0}]
ASSUME SweepBoundsAssumption == MaxBuffer \in Nat /\ MaxFaults \in Nat

VARIABLES
    buffer,     \* ingest_buffer: session and kind of every row, by id
    aged,       \* the rows up to this one are older than _STALE_SESSION_HOURS
    claimed,    \* id -> whose tag is in claimed_by, until the row is promoted
    promoted,   \* rows with promoted_at
    reads,      \* history: id -> committed digests that contained the row
    work,       \* sweeper -> its sweep() in progress
    outlived,   \* history: id -> claims that expired while their sweep was on
    faults      \* history: faults so far, up to MaxFaults

queue == <<buffer, aged>>
history == <<reads, outlived>>
sweepVars == <<queue, claimed, promoted, work, history, faults>>

-----------------------------------------------------------------------------
Kinds == {"loud", "quiet", "blank", "marker"}

Idle == [at |-> "idle", rows |-> {}, digest |-> {}, calls |-> 0, down |-> FALSE]

Init ==
    /\ buffer = << >>
    /\ aged = 0
    /\ claimed = [i \in Ids |-> Free]
    /\ promoted = {}
    /\ reads = [i \in Ids |-> 0]
    /\ work = [s \in Sweepers |-> Idle]
    /\ outlived = [i \in Ids |-> 0]
    /\ faults = 0

Kind(i) == buffer[i].kind
Session(i) == buffer[i].session

Oldest(ids, n) == {i \in ids : Cardinality({j \in ids : j <= i}) <= n}

-----------------------------------------------------------------------------
\* capture_turn, capture_pre_compress, capture_delegation, capture_session_end
Capture ==
    /\ Len(buffer) < MaxBuffer
    /\ \E sid \in Sessions, kind \in Kinds :
         buffer' = Append(buffer, [session |-> sid, kind |-> kind])
    /\ UNCHANGED <<aged, claimed, promoted, work, history, faults>>

Age ==
    /\ aged < Len(buffer)
    /\ aged' = aged + 1
    /\ UNCHANGED <<buffer, claimed, promoted, work, history, faults>>

-----------------------------------------------------------------------------
\* Mutant of Claimable: the subquery looks at promoted_at alone.
ClaimableByAnyone == {i \in 1..Len(buffer) : i \notin promoted}

Claimable == {i \in 1..Len(buffer) : i \notin promoted /\ claimed[i] = Free}

Becomes(s, state) == work' = [work EXCEPT ![s] = state]

\* _claim: one UPDATE tags the oldest rows nobody holds.
Claim(s) ==
    /\ work[s].at = "idle" /\ Claimable # {}
    /\ LET ids == Oldest(Claimable, MaxRows[s]) IN
       /\ claimed' = [i \in Ids |-> IF i \in ids THEN s ELSE claimed[i]]
       /\ Becomes(s, [Idle EXCEPT !.at = "batch", !.rows = ids])
    /\ UNCHANGED <<queue, promoted, history, faults>>

\* The session whose row is oldest comes first.
Batch(s) ==
    {i \in work[s].rows : \E first \in work[s].rows :
        /\ Session(i) = Session(first)
        /\ \A j \in work[s].rows : first <= j}
Markers(ids) == {i \in ids : Kind(i) = "marker"}

\* Mutant of ReadAll: a session without a marker is never over.
ReadAllAtTheEnd(ids) == Markers(ids) # {}

\* The session has ended, or every row is old.
ReadAll(ids) == Markers(ids) # {} \/ \A i \in ids : i <= aged

Digestible(ids) ==
    {i \in ids : \/ Kind(i) = "loud"
                 \/ Kind(i) = "quiet" /\ ReadAll(ids)}

\* As many blocks as fit, from the first one on; the first one always fits.
Digests(ids) ==
    {d \in SUBSET Digestible(ids) :
        d # {} /\ \A i \in d, j \in Digestible(ids) : j < i => j \in d}

\* _unclaim, and the end of a claim by promotion, do not ask whose tag the rows
\* carry.
Unclaimed(ids) == [i \in Ids |-> IF i \in ids THEN Free ELSE claimed[i]]

\* s is done with a batch, in this state.
Proceed(s, state) ==
    LET rest == work[s].rows \ Batch(s) IN
    Becomes(s, IF rest = {} THEN Idle
               ELSE [state EXCEPT !.at = "batch", !.rows = rest, !.digest = {}])

\* The LLM is down or max_llm_calls are used up: the batch is left over.
LeaveOver(s) ==
    /\ work[s].at = "batch"
    /\ work[s].down \/ work[s].calls >= MaxCalls[s]
    /\ claimed' = Unclaimed(Batch(s))
    /\ Proceed(s, work[s])
    /\ UNCHANGED <<queue, promoted, history, faults>>

\* The digest of the batch; without one there is nothing to ask.
Distil(s) ==
    /\ work[s].at = "batch"
    /\ ~work[s].down /\ work[s].calls < MaxCalls[s]
    /\ LET batch == Batch(s)
           over == ReadAll(batch) \/ \A i \in batch : Kind(i) # "quiet" IN
       \/ /\ Digests(batch) = {}
          /\ promoted' = IF over THEN promoted \cup batch ELSE promoted
          /\ claimed' = Unclaimed(batch)
          /\ Proceed(s, work[s])
       \/ /\ \E d \in Digests(batch) :
                Becomes(s, [work[s] EXCEPT !.at = "llm", !.digest = d])
          /\ UNCHANGED <<claimed, promoted>>
    /\ UNCHANGED <<queue, history, faults>>

\* _partition_batch.  Of several markers it sees the last one only.
Deferred(s) == (Batch(s) \ Markers(Batch(s))) \ work[s].digest
LastMarker(s) ==
    {i \in Markers(Batch(s)) : \A j \in Markers(Batch(s)) : j <= i}

\* Mutant of Promotes: everything in the batch is promoted.
PromotesBatch(s) == Batch(s)

Promotes(s) == work[s].digest \cup (IF Deferred(s) = {} THEN LastMarker(s) ELSE {})

\* An overlooked marker keeps the tag it carries; the rest of the batch is free.
Overlooked(s) == Markers(Batch(s)) \ LastMarker(s)
Dropped(s) ==
    [i \in Ids |-> CASE i \in Overlooked(s) /\ claimed[i] = s -> Orphaned
                     [] i \in Batch(s) \ Overlooked(s) -> Free
                     [] OTHER -> claimed[i]]

Answered(s) == [work[s] EXCEPT !.calls = @ + 1]

\* The LLM has answered; one transaction writes the items and promotes the
\* rows they came from.
Extract(s) ==
    /\ work[s].at = "llm"
    /\ promoted' = promoted \cup Promotes(s)
    /\ claimed' = Dropped(s)
    /\ reads' = [i \in Ids |-> IF i \in work[s].digest THEN reads[i] + 1
                               ELSE reads[i]]
    /\ Proceed(s, Answered(s))
    /\ UNCHANGED <<queue, outlived, faults>>

-----------------------------------------------------------------------------
Fails(fault) ==
    /\ fault \in Faults /\ faults < MaxFaults
    /\ faults' = faults + 1
    /\ UNCHANGED <<queue, promoted, reads>>

\* LLMUnavailable: the sweep goes on without the LLM.
Unavailable(s) ==
    /\ work[s].at = "llm"
    /\ claimed' = Unclaimed(Batch(s))
    /\ Proceed(s, [work[s] EXCEPT !.down = TRUE])
    /\ Fails("down") /\ UNCHANGED outlived

\* sqlite3.Error while the items are written.
Rollback(s) ==
    /\ work[s].at = "llm"
    /\ claimed' = Unclaimed(Batch(s))
    /\ Proceed(s, Answered(s))
    /\ Fails("locked") /\ UNCHANGED outlived

\* The process dies; its tag stays.
Crash(s) ==
    /\ work[s].at # "idle"
    /\ claimed' = [i \in Ids |-> IF claimed[i] = s THEN Orphaned ELSE claimed[i]]
    /\ Becomes(s, Idle)
    /\ Fails("crash") /\ UNCHANGED outlived

\* Ten minutes after it was made, a claim counts for nothing.
Expire ==
    /\ \E ids \in SUBSET {i \in Ids : claimed[i] = Orphaned} :
         ids # {} /\ claimed' = Unclaimed(ids)
    /\ UNCHANGED <<queue, promoted, work, history, faults>>

\* That holds of a sweep that is still at work, too.
Outlive(s) ==
    /\ work[s].at # "idle"
    /\ claimed' = [i \in Ids |-> IF claimed[i] = s THEN Free ELSE claimed[i]]
    /\ outlived' = [i \in Ids |-> IF claimed[i] = s THEN outlived[i] + 1
                                  ELSE outlived[i]]
    /\ Fails("slow") /\ UNCHANGED work

Work(s) == LeaveOver(s) \/ Distil(s) \/ Extract(s)

Next ==
    \/ Capture \/ Age \/ Expire
    \/ \E s \in Sweepers :
        Claim(s) \/ Work(s) \/ Unavailable(s) \/ Rollback(s) \/ Crash(s)
        \/ Outlive(s)

Spec == Init /\ [][Next]_sweepVars

\* Sweeps are repeated (the idle worker, the nightly dream), LLM calls end, and
\* time goes on.
FairSpec ==
    /\ Spec
    /\ \A s \in Sweepers : WF_sweepVars(Claim(s) \/ Work(s))
    /\ WF_sweepVars(Age) /\ WF_sweepVars(Expire)

-----------------------------------------------------------------------------
WorkState == [at : {"idle", "batch", "llm"}, rows : SUBSET Ids,
              digest : SUBSET Ids, calls : Nat, down : BOOLEAN]

TypeOK ==
    /\ buffer \in Seq([session : Sessions, kind : Kinds])
    /\ Len(buffer) <= MaxBuffer
    /\ aged \in 0..Len(buffer)
    /\ claimed \in [Ids -> Sweepers \cup {Free, Orphaned}]
    /\ promoted \in SUBSET (1..Len(buffer))
    /\ reads \in [Ids -> Nat] /\ outlived \in [Ids -> Nat]
    /\ work \in [Sweepers -> WorkState]
    /\ \A s \in Sweepers : /\ work[s].rows \subseteq 1..Len(buffer)
                           /\ work[s].at = "idle" => work[s].rows = {}
                           /\ work[s].digest \subseteq work[s].rows
    /\ faults \in 0..MaxFaults

\* What a row says is extracted at most once, whatever sweeps overlap, fail or
\* die (extract.py: two sweepers "can never claim the same rows"), and once more
\* for each claim on it that expired under a sweep still at work.
ExtractedOnce == \A i \in Ids : reads[i] <= 1 + outlived[i]

\* No row that says something is promoted before a digest contained it
\* (extract.py: "nothing wedges the queue head or is silently lost").
NothingLost ==
    \A i \in promoted : Kind(i) \in {"loud", "quiet"} => reads[i] >= 1

\* Every captured row is promoted some day.
Drained == \A i \in Ids : i <= Len(buffer) ~> i \in promoted
=============================================================================
