----------------------------- MODULE SignalQueue -----------------------------
(***************************************************************************)
(* The observer plugin's signals (observer/__init__.py) and the durable    *)
(* queue they end in (store/work_queue.py).  Hooks of every host process   *)
(* hand a signal to the one writer thread of their process, which never    *)
(* makes them wait; brain processes drain the table, each in a read and a  *)
(* claim that others may overtake.                                         *)
(***************************************************************************)
EXTENDS Integers, Sequences, FiniteSets, SequencesExt, FiniteSetsExt

CONSTANTS
    Hosts,          \* processes with an observer
    Drainers,       \* brain processes that drain
    MaxPending,     \* _MAX_PENDING
    WriteBatch,     \* _DRAIN_BATCH of the observer
    DrainLimit,     \* limit of one drain
    MaxSignals, MaxDrains   \* bounds

ASSUME SignalsAssumption ==
    {MaxPending, WriteBatch, DrainLimit} \subseteq Nat \ {0}
ASSUME SignalBoundsAssumption == {MaxSignals, MaxDrains} \subseteq Nat

VARIABLES
    silenced,       \* BRAIN_OBSERVER_DISABLE is set
    inHand,         \* per host: its hand-off queue
    batch,          \* per host: what its writer thread has taken off it
    fired,          \* signals so far; a signal is its number
    workQueue,      \* rows by id: the signal and how often it was finished
    snapshot,       \* per drainer: ids it read and has not claimed yet
    audits,         \* history: rows the audit log says were claimed
    drains          \* history: drains begun

signalVars == <<silenced, inHand, batch, fired, workQueue, snapshot, audits, drains>>
observerVars == <<silenced, inHand, batch, fired>>
drainVars == <<snapshot, audits, drains>>

SignalInit ==
    /\ silenced = FALSE
    /\ inHand = [h \in Hosts |-> << >>] /\ batch = [h \in Hosts |-> << >>]
    /\ fired = 0 /\ workQueue = << >>
    /\ snapshot = [d \in Drainers |-> {}]
    /\ audits = 0 /\ drains = 0

\* submit: put_nowait, or drop when the queue is full.
Submitted(h, signal) == IF Len(inHand[h]) < MaxPending
                        THEN Append(inHand[h], signal) ELSE inHand[h]

\* _on_post_tool_call, _on_subagent_stop: never wait, never fail.
Hook(h) ==
    /\ fired < MaxSignals
    /\ fired' = fired + 1
    /\ inHand' = [inHand EXCEPT ![h] = Submitted(h, fired + 1)]
    /\ UNCHANGED <<silenced, batch, workQueue, drainVars>>

\* The kill switch, read again by every flush.
Silence ==
    /\ silenced' = ~silenced
    /\ UNCHANGED <<inHand, batch, fired, workQueue, drainVars>>

\* _run: one signal off the hand-off queue.
Take(h) ==
    /\ inHand[h] # << >> /\ Len(batch[h]) < WriteBatch
    /\ batch' = [batch EXCEPT ![h] = Append(@, Head(inHand[h]))]
    /\ inHand' = [inHand EXCEPT ![h] = Tail(@)]
    /\ UNCHANGED <<silenced, fired, workQueue, drainVars>>

\* _run: nothing more to take, or a full batch.
Flushing(h) ==
    batch[h] # << >> /\ (inHand[h] = << >> \/ Len(batch[h]) = WriteBatch)
NewRow(signal) == [signal |-> signal, done |-> 0]

\* _flush: one transaction for the batch, which is gone either way.
Flush(h) ==
    /\ Flushing(h)
    /\ batch' = [batch EXCEPT ![h] = << >>]
    /\ \/ /\ ~silenced
          /\ workQueue' = workQueue \o [i \in DOMAIN batch[h] |-> NewRow(batch[h][i])]
       \/ UNCHANGED workQueue    \* silenced, no brain.db yet, or locked
    /\ UNCHANGED <<silenced, inHand, fired, drainVars>>

Pending == { i \in DOMAIN workQueue : workQueue[i].done = 0 }
\* drain_observer_signals: ORDER BY id LIMIT.
Oldest(ids) == { i \in ids : Cardinality({ j \in ids : j < i }) < DrainLimit }

\* drain_observer_signals: the read, outside any transaction.
DrainRead(d) ==
    /\ snapshot[d] = {} /\ drains < MaxDrains /\ Pending # {}
    /\ snapshot' = [snapshot EXCEPT ![d] = Oldest(Pending)]
    /\ drains' = drains + 1
    /\ UNCHANGED <<observerVars, workQueue, audits>>

\* Mutant of Claimable: the claim trusts the read.
AllRead(d) == snapshot[d]
\* drain_observer_signals: WHERE done_at IS NULL.
Claimable(d) == snapshot[d] \cap Pending

\* drain_observer_signals: claim, audit and heartbeat in one transaction.
DrainClaim(d) ==
    /\ snapshot[d] # {}
    /\ workQueue' = [i \in DOMAIN workQueue |-> IF i \in Claimable(d)
            THEN [workQueue[i] EXCEPT !.done = @ + 1] ELSE workQueue[i]]
    /\ audits' = audits + Cardinality(Claimable(d))
    /\ snapshot' = [snapshot EXCEPT ![d] = {}]
    /\ UNCHANGED <<observerVars, drains>>

\* The claim fails, or its process dies.
DrainFails(d) ==
    /\ snapshot[d] # {}
    /\ snapshot' = [snapshot EXCEPT ![d] = {}]
    /\ UNCHANGED <<observerVars, workQueue, audits, drains>>

SignalNext ==
    \/ Silence
    \/ \E h \in Hosts : Hook(h) \/ Take(h) \/ Flush(h)
    \/ \E d \in Drainers : DrainRead(d) \/ DrainClaim(d) \/ DrainFails(d)

SignalTypeOK ==
    /\ \A h \in Hosts : Len(inHand[h]) <= MaxPending /\ Len(batch[h]) <= WriteBatch
    /\ \A i \in DOMAIN workQueue : workQueue[i].signal \in 1..fired
    /\ \A d \in Drainers : snapshot[d] \subseteq DOMAIN workQueue

\* "A concurrent drainer in another process cannot double-finish them": a
\* signal is finished once, whichever drainers read it, and the audit rows
\* claim together what is finished (drain_observer_signals).
FinishedOnce ==
    /\ \A i \in DOMAIN workQueue : workQueue[i].done <= 1
    /\ audits = Cardinality(DOMAIN workQueue \ Pending)
=============================================================================
