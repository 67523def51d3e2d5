--------------------------- MODULE ServiceProofs ----------------------------
(***************************************************************************)
(* What every part of the plugin leans on, for any processes and limits:   *)
(* whoever opens brain.db has every table of its release, a signal is      *)
(* finished once, and a day costs what its budget allows.                  *)
(***************************************************************************)
EXTENDS StoreSchema, SignalQueue, LlmBudget, AskLoop, SequenceTheorems,
        FiniteSetTheorems, WellFoundedInduction, TLAPS

-----------------------------------------------------------------------------
\* Opening the store.

StoreSpec == StoreInit /\ [][StoreNext]_storeVars

Steps == {"closed", "create", "seed", "migrate", "stamp", "reconcile",
          "rebuild", "caps", "open"}
Settled == {"seed", "reconcile", "rebuild", "caps", "open"}

\* What OpenedWhole reads, and the counter of the script in hand.
StoreTypes ==
    /\ tables \subseteq Nat
    /\ version \in Nat \cup {Absent}
    /\ opening \in [Openers -> Steps]
    /\ target \in [Openers -> Nat]

\* A version that is stamped has its tables, and every process has those of
\* the statements behind it.
Stamped == version \in Nat => 0..version \subseteq tables
Behind(p) ==
    /\ opening[p] = "create" => 0..(target[p] - 1) \subseteq tables
    /\ opening[p] \in {"migrate", "stamp"} =>
            target[p] <= Release[p] /\ 0..(target[p] - 1) \subseteq tables
    /\ opening[p] = "stamp" => target[p] \in tables
    /\ opening[p] \in Settled => 0..Release[p] \subseteq tables

WholeInv == StoreTypes /\ Stamped /\ \A p \in Openers : Behind(p)

-----------------------------------------------------------------------------
LEMMA InitWhole == StoreInit => WholeInv
<1> SUFFICES ASSUME StoreInit PROVE WholeInv
    OBVIOUS
<1>1. tables \subseteq Nat /\ version \in Nat \cup {Absent} /\ Stamped
  <2>1. CASE tables = {} /\ version = Absent
      BY <2>1, OpenersAssumption DEF Stamped
  <2>2. CASE version \in OldVersions /\ tables = 0..version
    <3>1. version \in Nat
        BY <2>2, OpenersAssumption
    <3>2. 0..version \subseteq Nat
        BY <3>1
    <3> QED
        BY <2>2, <3>1, <3>2 DEF Stamped
  <2> QED
      BY <2>1, <2>2 DEF StoreInit
<1>2. opening \in [Openers -> Steps] /\ target \in [Openers -> Nat]
    BY DEF StoreInit, Steps
<1>3. \A p \in Openers : Behind(p)
    BY DEF StoreInit, Behind, Settled
<1> QED
    BY <1>1, <1>2, <1>3 DEF WholeInv, StoreTypes

\* Tables are only ever added, so a process that does not move keeps what is
\* behind it.
LEMMA OthersStay ==
    ASSUME WholeInv, NEW p \in Openers, tables \subseteq tables',
           opening' = [opening EXCEPT ![p] = opening'[p]],
           target' = [target EXCEPT ![p] = target'[p]]
    PROVE  \A q \in Openers \ {p} : Behind(q)'
<1> TAKE q \in Openers \ {p}
<1>1. opening'[q] = opening[q] /\ target'[q] = target[q]
    BY DEF WholeInv, StoreTypes
<1>2. Behind(q)
    BY DEF WholeInv
<1> QED
    BY <1>1, <1>2 DEF Behind

\* What a process does as to tables, version and its own step, and that it
\* keeps WholeInv.
LEMMA StepWhole ==
    ASSUME WholeInv, NEW p \in Openers,
           tables \subseteq tables', tables' \subseteq Nat,
           version' \in Nat \cup {Absent}, Stamped',
           opening' = [opening EXCEPT ![p] = opening'[p]], opening'[p] \in Steps,
           target' = [target EXCEPT ![p] = target'[p]], target'[p] \in Nat,
           Behind(p)'
    PROVE  WholeInv'
<1>1. \A q \in Openers \ {p} : Behind(q)'
    BY OthersStay
<1>2. opening' \in [Openers -> Steps] /\ target' \in [Openers -> Nat]
    BY DEF WholeInv, StoreTypes
<1> QED
    BY <1>1, <1>2 DEF WholeInv, StoreTypes

\* A step of p that leaves tables and version alone and goes where nothing
\* more is asked of p than before.
LEMMA Advances ==
    ASSUME WholeInv, NEW p \in Openers, NEW where \in Steps,
           UNCHANGED <<tables, version, target>>, Goto(p, where),
           \/ where = "closed"
           \/ where \in Settled /\ opening[p] \in Settled
           \/ where \in Settled /\ 0..Release[p] \subseteq tables
    PROVE  WholeInv'
<1>1. opening'[p] = where /\ opening' = [opening EXCEPT ![p] = opening'[p]]
    BY DEF Goto, WholeInv, StoreTypes
<1>2. target' = [target EXCEPT ![p] = target'[p]] /\ target'[p] \in Nat
    BY DEF WholeInv, StoreTypes
<1>3. Behind(p)'
    BY <1>1 DEF Behind, WholeInv, Settled
<1>4. tables' = tables /\ version' = version
    OBVIOUS
<1>5. tables \subseteq Nat /\ version \in Nat \cup {Absent} /\ Stamped
    BY DEF WholeInv, StoreTypes
<1>6. Stamped'
    BY <1>4, <1>5 DEF Stamped
<1> QED
    BY <1>1, <1>2, <1>3, <1>4, <1>5, <1>6, StepWhole

-----------------------------------------------------------------------------
LEMMA ConnectWhole ==
    ASSUME WholeInv, NEW p \in Openers, Connect(p) PROVE WholeInv'
<1> DEFINE v == IF 0 \in tables THEN version ELSE Absent
<1>1. /\ opening' = [opening EXCEPT ![p] = Course(p, v)]
      /\ target' = [target EXCEPT ![p] = IF v = Absent THEN 0 ELSE v + 1]
      /\ UNCHANGED <<tables, version>>
    BY DEF Connect, Goto, schemaVars
<1>2. StoreTypes /\ Stamped /\ Release[p] \in Nat \ {0} /\ Absent \notin Nat
    BY OpenersAssumption DEF WholeInv
<1>3. opening'[p] = Course(p, v) /\ target'[p] = IF v = Absent THEN 0 ELSE v + 1
    BY <1>1, <1>2 DEF StoreTypes
<1>4. Course(p, v) \in Steps /\ target'[p] \in Nat /\ Behind(p)'
  <2>1. CASE v = Absent
    <3>1. Course(p, v) = "create" /\ target'[p] = 0
        BY <2>1, <1>3, <1>2 DEF Course
    <3> QED
        BY <3>1, <1>3 DEF Behind, Settled, Steps
  <2>2. CASE v # Absent
    <3>1. v = version /\ v \in Nat /\ 0..v \subseteq tables
        BY <2>2, <1>2 DEF StoreTypes, Stamped
    <3>2. target'[p] = v + 1 /\ tables' = tables
        BY <2>2, <1>3, <1>1
    <3> HIDE DEF v
    <3>3. CASE v > Release[p]
        BY <3>1, <3>2, <3>3, <1>2, <1>3 DEF Course, Behind, Settled, Steps
    <3>4. CASE v < Release[p]
      <4>1. Course(p, v) = "migrate"
          BY <3>1, <3>4, <1>2 DEF Course
      <4>2. v + 1 \in Nat /\ v + 1 <= Release[p] /\ 0..(v + 1 - 1) = 0..v
          BY <3>1, <3>4, <1>2
      <4> QED
          BY <4>1, <4>2, <3>1, <3>2, <1>3 DEF Behind, Settled, Steps
    <3>5. CASE v = Release[p]
      <4>1. Course(p, v) = "reconcile"
          BY <3>1, <3>5, <1>2 DEF Course
      <4> QED
          BY <4>1, <3>1, <3>2, <3>5, <1>3 DEF Behind, Settled, Steps
    <3> QED
        BY <3>1, <3>3, <3>4, <3>5, <1>2
  <2> QED
      BY <2>1, <2>2
<1>5. opening' = [opening EXCEPT ![p] = opening'[p]]
    BY <1>1, <1>3
<1>6. target' = [target EXCEPT ![p] = target'[p]]
    BY <1>1, <1>3
<1>7. Stamped' /\ tables' = tables /\ tables \subseteq Nat /\ version' \in Nat \cup {Absent}
    BY <1>1, <1>2 DEF Stamped, StoreTypes
<1> QED
    BY <1>3, <1>4, <1>5, <1>6, <1>7, StepWhole

LEMMA CreateTablesWhole ==
    ASSUME WholeInv, NEW p \in Openers, CreateTables(p) PROVE WholeInv'
<1>1. /\ opening[p] = "create" /\ opening' = opening /\ version' = version
      /\ tables' = tables \cup {target[p]}
      /\ target' = [target EXCEPT ![p] = @ + 1]
    BY DEF CreateTables
<1>2. StoreTypes /\ Stamped /\ Behind(p) /\ target[p] \in Nat
    BY DEF WholeInv, StoreTypes
<1>3. target'[p] = target[p] + 1 /\ opening'[p] = "create"
    BY <1>1, <1>2 DEF StoreTypes
<1>4. 0..target[p] \subseteq tables \cup {target[p]}
    BY <1>1, <1>2 DEF Behind
<1>5. Behind(p)'
  <2>1. target'[p] - 1 = target[p]
      BY <1>2, <1>3
  <2>2. 0..(target'[p] - 1) \subseteq tables'
      BY <1>1, <1>4, <2>1
  <2>3. opening'[p] \notin {"migrate", "stamp"} \cup Settled
      BY <1>3 DEF Settled
  <2> QED
      BY <2>2, <2>3 DEF Behind
<1>6. Stamped'
    BY <1>1, <1>2 DEF Stamped
<1>7. /\ tables' \subseteq Nat /\ version' \in Nat \cup {Absent}
      /\ opening' = [opening EXCEPT ![p] = opening'[p]] /\ opening'[p] \in Steps
      /\ target' = [target EXCEPT ![p] = target'[p]] /\ target'[p] \in Nat
  <2>1. tables' \subseteq Nat /\ version' \in Nat \cup {Absent}
      BY <1>1, <1>2 DEF StoreTypes
  <2>2. opening' = [opening EXCEPT ![p] = opening'[p]] /\ opening'[p] \in Steps
      BY <1>1, <1>2, <1>3 DEF StoreTypes, Steps
  <2>3. target' = [target EXCEPT ![p] = target'[p]]
      BY <1>1, <1>2 DEF StoreTypes
  <2>4. target'[p] \in Nat
      BY <1>2, <1>3
  <2> QED
      BY <2>1, <2>2, <2>3, <2>4
<1> QED
    BY <1>1, <1>5, <1>6, <1>7, StepWhole

LEMMA CreateIndexWhole ==
    ASSUME WholeInv, NEW p \in Openers, CreateIndex(p) PROVE WholeInv'
<1>1. /\ opening[p] = "create" /\ target[p] > Release[p] /\ Goto(p, "seed")
      /\ UNCHANGED <<tables, version, target>>
    BY DEF CreateIndex, schemaVars
<1>2. target[p] \in Nat /\ Release[p] \in Nat /\ 0..(target[p] - 1) \subseteq tables
    BY <1>1, OpenersAssumption DEF WholeInv, StoreTypes, Behind
<1>3. 0..Release[p] \subseteq 0..(target[p] - 1)
    BY <1>1, <1>2
<1> QED
    BY <1>1, <1>2, <1>3, Advances DEF Steps, Settled

LEMMA SeedWhole ==
    ASSUME WholeInv, NEW p \in Openers, Seed(p) PROVE WholeInv'
<1>1. /\ opening[p] = "seed" /\ version' = Release[p]
      /\ opening' = [opening EXCEPT ![p] = "open"] /\ UNCHANGED <<tables, target>>
    BY DEF Seed, Goto
<1>2. StoreTypes /\ Behind(p) /\ Release[p] \in Nat
    BY OpenersAssumption DEF WholeInv
<1>3. opening'[p] = "open" /\ 0..Release[p] \subseteq tables
    BY <1>1, <1>2 DEF StoreTypes, Behind, Settled
<1>4. Behind(p)' /\ Stamped'
    BY <1>1, <1>3 DEF Behind, Settled, Stamped
<1>5. /\ tables' = tables /\ tables \subseteq Nat /\ version' \in Nat \cup {Absent}
      /\ opening' = [opening EXCEPT ![p] = opening'[p]] /\ opening'[p] \in Steps
      /\ target' = [target EXCEPT ![p] = target'[p]] /\ target'[p] \in Nat
    BY <1>1, <1>2, <1>3 DEF StoreTypes, Steps
<1> QED
    BY <1>4, <1>5, StepWhole

LEMMA MigrateWhole ==
    ASSUME WholeInv, NEW p \in Openers, MigrateScript(p) \/ MigrateStamp(p)
    PROVE  WholeInv'
<1>1. StoreTypes /\ Stamped /\ Behind(p) /\ target[p] \in Nat /\ Release[p] \in Nat
    BY OpenersAssumption DEF WholeInv, StoreTypes
<1>2. CASE MigrateScript(p)
  <2>1. /\ opening[p] = "migrate" /\ UNCHANGED <<version, target>>
        /\ tables' = tables \cup {target[p]}
        /\ opening' = [opening EXCEPT ![p] = "stamp"]
      BY <1>2 DEF MigrateScript, Goto
  <2>2. opening'[p] = "stamp" /\ Behind(p)'
      BY <2>1, <1>1 DEF Behind, StoreTypes, Settled
  <2>3. Stamped'
      BY <2>1, <1>1 DEF Stamped
  <2>4. /\ tables \subseteq tables' /\ tables' \subseteq Nat
        /\ version' \in Nat \cup {Absent}
        /\ opening' = [opening EXCEPT ![p] = opening'[p]] /\ opening'[p] \in Steps
        /\ target' = [target EXCEPT ![p] = target'[p]] /\ target'[p] \in Nat
      BY <2>1, <2>2, <1>1 DEF StoreTypes, Steps
  <2> QED
      BY <2>2, <2>3, <2>4, StepWhole
<1>3. CASE MigrateStamp(p)
  <2> DEFINE next == IF target[p] = Release[p] THEN "reconcile" ELSE "migrate"
  <2>1. /\ opening[p] = "stamp" /\ version' = target[p] /\ tables' = tables
        /\ target' = [target EXCEPT ![p] = @ + 1]
        /\ opening' = [opening EXCEPT ![p] = next]
      BY <1>3 DEF MigrateStamp, Goto
  <2>2. opening'[p] = next /\ target'[p] = target[p] + 1
      BY <2>1, <1>1 DEF StoreTypes
  <2>3. target[p] <= Release[p] /\ 0..target[p] \subseteq tables
      BY <2>1, <1>1 DEF Behind
  <2>4. Behind(p)'
    <3>1. CASE target[p] = Release[p]
        BY <3>1, <2>1, <2>2, <2>3 DEF Behind, Settled
    <3>2. CASE target[p] # Release[p]
      <4>1. opening'[p] = "migrate"
          BY <3>2, <2>2
      <4>2. target'[p] <= Release[p] /\ target'[p] - 1 = target[p]
          BY <3>2, <2>2, <2>3, <1>1
      <4>3. 0..(target'[p] - 1) \subseteq tables'
          BY <4>2, <2>1, <2>3
      <4> QED
          BY <4>1, <4>2, <4>3 DEF Behind, Settled
    <3> QED
        BY <3>1, <3>2
  <2>5. Stamped'
      BY <2>1, <2>3 DEF Stamped
  <2>6. /\ tables \subseteq Nat /\ version' \in Nat \cup {Absent}
        /\ opening' = [opening EXCEPT ![p] = opening'[p]] /\ opening'[p] \in Steps
        /\ target' = [target EXCEPT ![p] = target'[p]] /\ target'[p] \in Nat
      BY <2>1, <2>2, <1>1 DEF StoreTypes, Steps
  <2> QED
      BY <2>1, <2>4, <2>5, <2>6, StepWhole
<1> QED
    BY <1>2, <1>3

\* The rest of _ensure_schema, and leaving.
LEMMA AfterwardsWhole ==
    ASSUME WholeInv, NEW p \in Openers,
           \/ Reconcile(p) \/ Rebuild(p) \/ Capabilities(p) \/ Deferred(p)
           \/ CloseStore(p) \/ Dies(p)
    PROVE  WholeInv'
<1>1. CASE Reconcile(p)
  <2>1. UNCHANGED <<tables, version, target>> /\ opening[p] \in Settled
      BY <1>1 DEF Reconcile, schemaVars, Settled
  <2>2. Goto(p, "rebuild") \/ Goto(p, "caps")
      BY <1>1 DEF Reconcile
  <2> QED
      BY <2>1, <2>2, Advances DEF Steps, Settled
<1>2. CASE Rebuild(p)
  <2>1. /\ UNCHANGED <<tables, version, target>> /\ opening[p] \in Settled
        /\ Goto(p, "caps")
      BY <1>2 DEF Rebuild, schemaVars, Settled
  <2> QED
      BY <2>1, Advances DEF Steps, Settled
<1>3. CASE Capabilities(p) \/ Deferred(p)
  <2>1. /\ UNCHANGED <<tables, version, target>> /\ opening[p] \in Settled
        /\ Goto(p, "open")
      BY <1>3 DEF Capabilities, Deferred, schemaVars, Settled
  <2> QED
      BY <2>1, Advances DEF Steps, Settled
<1>4. CASE CloseStore(p) \/ Dies(p)
  <2>1. UNCHANGED <<tables, version, target>> /\ Goto(p, "closed")
      BY <1>4 DEF CloseStore, Dies, Leave, schemaVars, Goto
  <2> QED
      BY <2>1, Advances DEF Steps
<1> QED
    BY <1>1, <1>2, <1>3, <1>4

LEMMA IdleWhole ==
    ASSUME WholeInv, UNCHANGED <<tables, version, opening, target>> PROVE WholeInv'
    BY DEF WholeInv, StoreTypes, Stamped, Behind

LEMMA NextWhole == WholeInv /\ [StoreNext]_storeVars => WholeInv'
<1> SUFFICES ASSUME WholeInv, [StoreNext]_storeVars PROVE WholeInv'
    OBVIOUS
<1>1. CASE UNCHANGED storeVars
    BY <1>1, IdleWhole DEF storeVars
<1>2. ASSUME NEW p \in Openers, Write(p) PROVE WholeInv'
  <2>1. UNCHANGED <<tables, version, opening, target>>
      BY <1>2 DEF Write, schemaVars
  <2> QED
      BY <2>1, IdleWhole
<1> QED
    BY <1>1, <1>2, ConnectWhole, CreateTablesWhole, CreateIndexWhole, SeedWhole,
       MigrateWhole, AfterwardsWhole DEF StoreNext

\* Whatever died or raced before, a process whose connect returned works on
\* every table of its release (store/db.py, _ensure_schema), for any number of
\* processes and releases.
THEOREM StoreOpenedWhole == StoreSpec => []OpenedWhole
<1>1. WholeInv => OpenedWhole
    BY DEF WholeInv, Behind, Settled, OpenedWhole
<1> QED
    BY <1>1, InitWhole, NextWhole, PTL DEF StoreSpec

-----------------------------------------------------------------------------
\* The work queue.

SignalSpec == SignalInit /\ [][SignalNext]_signalVars

QueueRow == [signal : Nat, done : {0, 1}]
QueueTypes ==
    /\ fired \in Nat /\ audits \in Nat
    /\ inHand \in [Hosts -> Seq(Nat)]
    /\ batch \in [Hosts -> Seq(Nat)]
    /\ workQueue \in Seq(QueueRow)

Finished == { i \in DOMAIN workQueue : workQueue[i].done = 1 }
Counted == audits = Cardinality(Finished)
QueueInv == QueueTypes /\ Counted

-----------------------------------------------------------------------------
LEMMA FinishedOrPending ==
    ASSUME QueueTypes
    PROVE  /\ Finished = DOMAIN workQueue \ Pending
           /\ IsFiniteSet(DOMAIN workQueue)
           /\ \A i \in DOMAIN workQueue : workQueue[i] \in QueueRow
<1>1. DOMAIN workQueue = 1..Len(workQueue) /\ Len(workQueue) \in Nat
    BY LenProperties DEF QueueTypes
<1>2. \A i \in DOMAIN workQueue : workQueue[i] \in QueueRow
    BY <1>1, ElementOfSeq DEF QueueTypes
<1>3. IsFiniteSet(DOMAIN workQueue)
    BY <1>1, FS_Interval
<1>4. \A i \in DOMAIN workQueue : workQueue[i].done \in {0, 1}
    BY <1>2 DEF QueueRow
<1>5. Finished = DOMAIN workQueue \ Pending
    BY <1>4 DEF Finished, Pending
<1> QED
    BY <1>2, <1>3, <1>5

LEMMA InitQueue == SignalInit => QueueInv
<1> SUFFICES ASSUME SignalInit PROVE QueueInv
    OBVIOUS
<1>1. << >> \in Seq(Nat) /\ << >> \in Seq(QueueRow)
    BY EmptySeq
<1>2. QueueTypes
    BY <1>1 DEF SignalInit, QueueTypes
<1>3. Finished = {}
    BY DEF Finished, SignalInit
<1>4. Counted
    BY <1>3, FS_EmptySet DEF Counted, SignalInit
<1> QED
    BY <1>2, <1>4 DEF QueueInv

\* Steps that leave the table and its audits alone.
LEMMA TableStays ==
    ASSUME QueueInv, UNCHANGED <<workQueue, audits>>,
           fired' \in Nat, inHand' \in [Hosts -> Seq(Nat)], batch' \in [Hosts -> Seq(Nat)]
    PROVE  QueueInv'
<1>1. QueueTypes'
    BY DEF QueueInv, QueueTypes
<1>2. Finished' = Finished
    BY DEF Finished
<1>3. Counted'
    BY <1>2 DEF QueueInv, Counted
<1> QED
    BY <1>1, <1>3 DEF QueueInv

-----------------------------------------------------------------------------
LEMMA HookQueue ==
    ASSUME QueueInv, NEW h \in Hosts, Hook(h) PROVE QueueInv'
<1>1. /\ fired' = fired + 1 /\ UNCHANGED <<batch, workQueue, audits>>
      /\ inHand' = [inHand EXCEPT ![h] = Submitted(h, fired + 1)]
    BY DEF Hook, drainVars
<1>2. QueueTypes /\ inHand[h] \in Seq(Nat)
    BY DEF QueueInv, QueueTypes
<1>3. fired + 1 \in Nat
    BY <1>2 DEF QueueTypes
<1>4. Submitted(h, fired + 1) \in Seq(Nat)
    BY <1>2, <1>3, AppendProperties DEF Submitted
<1>5. fired' \in Nat /\ inHand' \in [Hosts -> Seq(Nat)] /\ batch' \in [Hosts -> Seq(Nat)]
    BY <1>1, <1>2, <1>3, <1>4 DEF QueueTypes
<1> QED
    BY <1>1, <1>5, TableStays

LEMMA TakeQueue ==
    ASSUME QueueInv, NEW h \in Hosts, Take(h) PROVE QueueInv'
<1>1. /\ inHand[h] # << >> /\ UNCHANGED <<fired, workQueue, audits>>
      /\ batch' = [batch EXCEPT ![h] = Append(@, Head(inHand[h]))]
      /\ inHand' = [inHand EXCEPT ![h] = Tail(@)]
    BY DEF Take, drainVars
<1>2. QueueTypes /\ inHand[h] \in Seq(Nat) /\ batch[h] \in Seq(Nat)
    BY DEF QueueInv, QueueTypes
<1>3. Head(inHand[h]) \in Nat /\ Tail(inHand[h]) \in Seq(Nat)
    BY <1>1, <1>2, HeadTailProperties
<1>4. Append(batch[h], Head(inHand[h])) \in Seq(Nat)
    BY <1>2, <1>3, AppendProperties
<1>5. fired' \in Nat /\ inHand' \in [Hosts -> Seq(Nat)] /\ batch' \in [Hosts -> Seq(Nat)]
    BY <1>1, <1>2, <1>3, <1>4 DEF QueueTypes
<1> QED
    BY <1>1, <1>5, TableStays

\* A flush adds rows nobody has finished.
LEMMA FlushQueue ==
    ASSUME QueueInv, NEW h \in Hosts, Flush(h) PROVE QueueInv'
<1> DEFINE rows == [i \in DOMAIN batch[h] |-> NewRow(batch[h][i])]
<1>1. /\ batch' = [batch EXCEPT ![h] = << >>] /\ UNCHANGED <<inHand, fired, audits>>
      /\ workQueue' = workQueue \o rows \/ workQueue' = workQueue
    BY DEF Flush, drainVars
<1>2. QueueTypes /\ batch[h] \in Seq(Nat)
    BY DEF QueueInv, QueueTypes
<1>3. << >> \in Seq(Nat)
    BY EmptySeq
<1>4. fired' \in Nat /\ inHand' \in [Hosts -> Seq(Nat)] /\ batch' \in [Hosts -> Seq(Nat)]
    BY <1>1, <1>2, <1>3 DEF QueueTypes
<1>5. CASE workQueue' = workQueue
    BY <1>1, <1>4, <1>5, TableStays
<1>6. CASE workQueue' = workQueue \o rows
  <2>1. DOMAIN batch[h] = 1..Len(batch[h]) /\ Len(batch[h]) \in Nat
      BY <1>2, LenProperties
  <2>2. \A i \in DOMAIN batch[h] : batch[h][i] \in Nat
      BY <1>2, <2>1, ElementOfSeq
  <2>3. \A i \in DOMAIN batch[h] : NewRow(batch[h][i]) \in QueueRow
      BY <2>2 DEF NewRow, QueueRow
  <2>4. rows \in [1..Len(batch[h]) -> QueueRow]
      BY <2>1, <2>3
  <2>5. rows \in Seq(QueueRow)
      BY <2>1, <2>4, SeqDef
  <2>6. \A i \in DOMAIN rows : rows[i].done = 0
      BY DEF NewRow
  <2> HIDE DEF rows
  <2>7. /\ workQueue' \in Seq(QueueRow)
        /\ Len(workQueue') = Len(workQueue) + Len(rows)
        /\ \A i \in 1..Len(workQueue) + Len(rows) : workQueue'[i] =
               IF i <= Len(workQueue) THEN workQueue[i] ELSE rows[i - Len(workQueue)]
      BY <1>2, <1>6, <2>5, ConcatProperties DEF QueueTypes
  <2>8. /\ DOMAIN workQueue = 1..Len(workQueue) /\ Len(workQueue) \in Nat
        /\ DOMAIN rows = 1..Len(rows) /\ Len(rows) \in Nat
        /\ DOMAIN workQueue' = 1..Len(workQueue')
      BY <1>2, <2>5, <2>7, LenProperties DEF QueueTypes
  <2>9. \A i \in DOMAIN workQueue' : workQueue'[i].done = 1 <=>
            i \in DOMAIN workQueue /\ workQueue[i].done = 1
    <3> TAKE i \in DOMAIN workQueue'
    <3>1. i \in 1..Len(workQueue) + Len(rows) /\ i \in Nat
        BY <2>7, <2>8
    <3>2. CASE i <= Len(workQueue)
        BY <3>1, <3>2, <2>7, <2>8
    <3>3. CASE i > Len(workQueue)
      <4>1. i - Len(workQueue) \in DOMAIN rows /\ ~(i <= Len(workQueue))
          BY <3>1, <3>3, <2>8
      <4>2. workQueue'[i] = rows[i - Len(workQueue)]
          BY <3>1, <4>1, <2>7
      <4>3. workQueue'[i].done = 0 /\ i \notin DOMAIN workQueue
          BY <4>1, <4>2, <2>6, <2>8
      <4> QED
          BY <4>3
    <3> QED
        BY <3>1, <3>2, <3>3, <2>8
  <2>10. DOMAIN workQueue \subseteq DOMAIN workQueue'
      BY <2>7, <2>8
  <2>11. Finished' = Finished
      BY <2>9, <2>10 DEF Finished
  <2>12. Counted'
      BY <1>1, <2>11 DEF QueueInv, Counted
  <2>13. QueueTypes'
      BY <1>1, <1>2, <1>4, <2>7 DEF QueueTypes
  <2> QED
      BY <2>12, <2>13 DEF QueueInv
<1> QED
    BY <1>1, <1>5, <1>6

\* A claim finishes what is still pending, and as many are audited.
LEMMA ClaimQueue ==
    ASSUME QueueInv, NEW d \in Drainers, DrainClaim(d) PROVE QueueInv'
<1> DEFINE claimed == Claimable(d)
<1>1. /\ workQueue' = [i \in DOMAIN workQueue |-> IF i \in claimed
              THEN [workQueue[i] EXCEPT !.done = @ + 1] ELSE workQueue[i]]
      /\ audits' = audits + Cardinality(claimed)
      /\ UNCHANGED <<inHand, batch, fired>>
    BY DEF DrainClaim, observerVars
<1>2. claimed \subseteq Pending /\ Pending \subseteq DOMAIN workQueue
    BY DEF Claimable, Pending
<1>3. QueueTypes /\ Counted
    BY DEF QueueInv
<1>4. /\ Finished = DOMAIN workQueue \ Pending
      /\ IsFiniteSet(DOMAIN workQueue)
      /\ \A i \in DOMAIN workQueue : workQueue[i] \in QueueRow
    BY <1>3, FinishedOrPending
<1>5. \A i \in claimed : workQueue[i].done = 0 /\ i \in DOMAIN workQueue
    BY <1>2 DEF Pending
<1> HIDE DEF claimed
<1>6. \A i \in claimed : workQueue'[i] = [workQueue[i] EXCEPT !.done = 1]
    BY <1>1, <1>5
<1>7. \A i \in claimed : workQueue'[i] \in QueueRow /\ workQueue'[i].done = 1
    BY <1>4, <1>5, <1>6 DEF QueueRow
<1>8. \A i \in DOMAIN workQueue \ claimed : workQueue'[i] = workQueue[i]
    BY <1>1
<1>9. DOMAIN workQueue' = DOMAIN workQueue
    BY <1>1
<1>10. \A i \in DOMAIN workQueue : workQueue'[i] \in QueueRow
    BY <1>4, <1>7, <1>8
<1>11. workQueue' \in Seq(QueueRow)
  <2>1. DOMAIN workQueue = 1..Len(workQueue) /\ Len(workQueue) \in Nat
      BY <1>3, LenProperties DEF QueueTypes
  <2>2. workQueue' \in [1..Len(workQueue) -> QueueRow]
      BY <1>1, <1>10, <2>1
  <2> QED
      BY <2>1, <2>2, SeqDef
<1>12. Finished' = Finished \cup claimed
    BY <1>5, <1>7, <1>8, <1>9 DEF Finished
<1>13. Finished \cap claimed = {} /\ IsFiniteSet(Finished) /\ IsFiniteSet(claimed)
    BY <1>2, <1>4, FS_Subset
<1>14. Cardinality(claimed) \in Nat /\ Cardinality(Finished) \in Nat
    BY <1>13, FS_CardinalityType
<1>15. Cardinality(Finished') = Cardinality(Finished) + Cardinality(claimed)
  <2>1. Cardinality(Finished \cap claimed) = 0
      BY <1>13, FS_EmptySet
  <2> HIDE DEF Finished
  <2>2. Cardinality(Finished \cup claimed) =
            Cardinality(Finished) + Cardinality(claimed) - Cardinality(Finished \cap claimed)
      BY <1>13, FS_Union
  <2> QED
      BY <1>12, <1>14, <2>1, <2>2
<1>16. Counted'
    BY <1>1, <1>3, <1>15 DEF Counted
<1>17. QueueTypes'
    BY <1>1, <1>3, <1>11, <1>14 DEF QueueTypes
<1> QED
    BY <1>16, <1>17 DEF QueueInv

LEMMA RestQueue ==
    ASSUME QueueInv,
           \/ UNCHANGED signalVars
           \/ Silence
           \/ \E d \in Drainers : DrainRead(d) \/ DrainFails(d)
    PROVE  QueueInv'
<1>1. UNCHANGED <<workQueue, audits, fired, inHand, batch>>
    BY DEF signalVars, Silence, DrainRead, DrainFails, drainVars, observerVars
<1>2. fired \in Nat /\ inHand \in [Hosts -> Seq(Nat)] /\ batch \in [Hosts -> Seq(Nat)]
    BY DEF QueueInv, QueueTypes
<1> QED
    BY <1>1, <1>2, TableStays

LEMMA NextQueue == QueueInv /\ [SignalNext]_signalVars => QueueInv'
    BY HookQueue, TakeQueue, FlushQueue, ClaimQueue, RestQueue DEF SignalNext

\* A signal is finished once, and the audit log counts what is finished
\* (store/work_queue.py, drain_observer_signals), for any hosts, drainers and
\* limits.
THEOREM SignalsFinishedOnce == SignalSpec => []FinishedOnce
<1>1. QueueInv => FinishedOnce
  <2> SUFFICES ASSUME QueueInv PROVE FinishedOnce
      OBVIOUS
  <2>1. \A i \in DOMAIN workQueue : workQueue[i].done \in {0, 1}
      BY FinishedOrPending DEF QueueInv, QueueRow
  <2>2. audits = Cardinality(DOMAIN workQueue \ Pending)
      BY FinishedOrPending DEF QueueInv, Counted
  <2> QED
      BY <2>1, <2>2 DEF FinishedOnce
<1> QED
    BY <1>1, InitQueue, NextQueue, PTL DEF SignalSpec
-----------------------------------------------------------------------------
\* The budget of the LLM calls.

LlmSpec == LlmInit /\ [][LlmNext]_llmVars

\* What one call can cost, and where a caller may be.
Dear == Max(Costs)
Calling == [step : {"idle", "asking", "metering", "again"}, attempt : 1..2,
            cost : Costs \cup {0}, reply : {"none", "json", "junk", "failed"}]

\* The callers past the gate, and what of their calls no row has yet, in
\* units: the pairs are counted where a sum is meant.
Asking(k) == { c \in Callers : k[c].step = "asking" }
Metering(k) == { c \in Callers : k[c].step = "metering" }
PastGate(k) == Asking(k) \cup Metering(k)
Units(k) == { x \in Metering(k) \X (1..Dear) : x[2] <= k[x[1]].cost }

LlmTypes ==
    /\ ledger \in [Days -> Nat] /\ riding \in [Days -> Nat]
    /\ spent \in [Days -> Nat] /\ lost \in [Days -> Nat]
    /\ day \in Days
    /\ txOwner \in Callers \cup {NoCaller}
    /\ own \in Nat /\ kept \in Nat /\ owed \in Nat
    /\ calling \in [Callers -> Calling]
    /\ \A c \in Callers : calling[c].step = "metering" => calling[c].reply # "none"

\* What the day's rows add up to, those of an open transaction included.
DaysSum == ledger[day] + riding[day]

\* Tomorrow nothing is spent, and only a transaction has riding rows.
AheadOfTime ==
    /\ \A d \in Days : d > day => ledger[d] = 0 /\ riding[d] = 0 /\ spent[d] = 0
    /\ txOwner = NoCaller => riding = NoSpend

\* The owner of the transaction passed the gate with its own rows in sight;
\* nobody else can add to the ledger before it ends.
OwnerInSight ==
    txOwner \in Callers =>
        IF txOwner \in PastGate(calling) THEN DaysSum <= Budget
        ELSE riding[day] > 0 => DaysSum <= Budget + Dear

\* Every caller past the gate has one call left in the budget's allowance,
\* and what was spent is in a row, still to be metered, or lost.
Allowance == Budget + Cardinality(Callers) * Dear
Accounted ==
    /\ DaysSum + Dear * Cardinality(PastGate(calling)) <= Allowance
    /\ spent[day] <= DaysSum + lost[day] + Cardinality(Units(calling))
PastDays == \A d \in Days : d < day => spent[d] <= Allowance + lost[d]

LlmInv ==
    LlmTypes /\ AheadOfTime /\ OwnerInSight /\ Accounted /\ PastDays /\ OnlyCallerCommits

-----------------------------------------------------------------------------
\* A finite set of numbers that is not empty has a greatest member.
LEMMA MaxOfFinite ==
    ASSUME NEW S, S \subseteq Nat, IsFiniteSet(S), S # {}
    PROVE  Max(S) \in S /\ \A x \in S : x <= Max(S)
<1> DEFINE Topless == { T \in FiniteSubsetsOf(S) :
                            T # {} /\ ~ \E m \in T : \A x \in T : x <= m }
<1>1. Topless = {}
    <2> SUFFICES ASSUME Topless # {} PROVE FALSE
        OBVIOUS
    <2>1. IsWellFoundedOn(StrictSubsetOrdering(S), FiniteSubsetsOf(S))
        BY FS_StrictSubsetOrderingWellFounded
    <2>2. Topless \subseteq FiniteSubsetsOf(S)
        OBVIOUS
    <2> HIDE DEF Topless
    <2>3. PICK T \in Topless : \A U \in Topless : <<U, T>> \notin StrictSubsetOrdering(S)
        BY <2>1, <2>2, WFMin
    <2> USE DEF Topless
    <2>4. T \in FiniteSubsetsOf(S) /\ T # {} /\ ~ \E m \in T : \A x \in T : x <= m
        OBVIOUS
    <2>5. T \subseteq S /\ IsFiniteSet(T)
        BY <2>4 DEF FiniteSubsetsOf
    <2>6. PICK e \in T : TRUE
        BY <2>4
    <2>7. T \ {e} \subseteq S /\ IsFiniteSet(T \ {e})
        BY <2>5, FS_RemoveElement
    <2>8. T \ {e} \in FiniteSubsetsOf(S) /\ <<T \ {e}, T>> \in StrictSubsetOrdering(S)
        BY <2>5, <2>6, <2>7 DEF FiniteSubsetsOf, StrictSubsetOrdering
    <2>9. T \ {e} \notin Topless
        BY <2>3, <2>8
    <2>10. CASE T \ {e} = {}
        <3>1. T = {e} /\ e \in Nat
            BY <2>5, <2>6, <2>10
        <3> QED BY <2>4, <3>1
    <2>11. CASE T \ {e} # {}
        <3>1. PICK m \in T \ {e} : \A x \in T \ {e} : x <= m
            BY <2>8, <2>9, <2>11
        <3>2. m \in Nat /\ e \in Nat
            BY <2>5, <2>6, <3>1
        <3>3. CASE e <= m
            BY <2>4, <3>1, <3>3
        <3>4. CASE m <= e
            <4>1. \A x \in T : x \in Nat
                BY <2>5
            <4>2. \A x \in T : x <= e
                BY <3>1, <3>2, <3>4, <4>1
            <4> QED BY <2>4, <2>6, <4>2
        <3> QED BY <3>2, <3>3, <3>4
    <2> QED BY <2>10, <2>11
<1>2. S \in FiniteSubsetsOf(S)
    BY DEF FiniteSubsetsOf
<1>3. PICK m \in S : \A x \in S : x <= m
    BY <1>1, <1>2
<1>4. \A x \in S : m >= x
    BY <1>3
<1> QED BY <1>3, <1>4 DEF Max

LEMMA DearType ==
    /\ Dear \in Nat /\ Dear \in Costs /\ Budget \in Nat
    /\ \A x \in Costs \cup {0} : x \in Nat /\ x <= Dear
    /\ Cardinality(Callers) \in Nat
<1>1. Costs \subseteq Nat /\ Costs # {} /\ IsFiniteSet(Costs) /\ Budget \in Nat
    BY BudgetAssumption
<1>2. Dear \in Costs /\ \A x \in Costs : x <= Dear
    BY <1>1, MaxOfFinite DEF Dear
<1>3. Cardinality(Callers) \in Nat
    BY CallersAssumption, FS_CardinalityType
<1> QED BY <1>1, <1>2, <1>3

LEMMA CallSets ==
    ASSUME NEW k \in [Callers -> Calling]
    PROVE  /\ IsFiniteSet(PastGate(k)) /\ IsFiniteSet(Metering(k)) /\ IsFiniteSet(Asking(k))
           /\ IsFiniteSet(Units(k))
           /\ Cardinality(PastGate(k)) \in Nat /\ Cardinality(Units(k)) \in Nat
           /\ Cardinality(PastGate(k)) <= Cardinality(Callers)
           /\ Cardinality(Units(k)) <= Dear * Cardinality(PastGate(k))
<1>1. PastGate(k) \in SUBSET Callers /\ Metering(k) \in SUBSET PastGate(k)
      /\ Asking(k) \in SUBSET PastGate(k)
    BY DEF PastGate, Metering, Asking
<1>2. IsFiniteSet(Callers)
    BY CallersAssumption
<1>3. IsFiniteSet(PastGate(k)) /\ Cardinality(PastGate(k)) <= Cardinality(Callers)
    BY <1>1, <1>2, FS_Subset
<1>4. /\ IsFiniteSet(Metering(k)) /\ IsFiniteSet(Asking(k))
      /\ Cardinality(Metering(k)) <= Cardinality(PastGate(k))
    BY <1>1, <1>3, FS_Subset
<1>5. IsFiniteSet(1..Dear) /\ Cardinality(1..Dear) = Dear
    BY FS_Interval, DearType
<1>6. /\ IsFiniteSet(Metering(k) \X (1..Dear))
      /\ Cardinality(Metering(k) \X (1..Dear)) = Cardinality(Metering(k)) * Dear
    BY <1>4, <1>5, FS_Product
<1>7. Units(k) \in SUBSET (Metering(k) \X (1..Dear))
    BY DEF Units
<1>8. IsFiniteSet(Units(k)) /\ Cardinality(Units(k)) <= Cardinality(Metering(k)) * Dear
    BY <1>6, <1>7, FS_Subset
<1>9. /\ Cardinality(PastGate(k)) \in Nat /\ Cardinality(Metering(k)) \in Nat
      /\ Cardinality(Units(k)) \in Nat
    BY <1>3, <1>4, <1>8, FS_CardinalityType
<1>10. Cardinality(Metering(k)) * Dear <= Dear * Cardinality(PastGate(k))
    BY <1>4, <1>9, DearType
<1> QED BY <1>3, <1>4, <1>8, <1>9, <1>10, DearType

\* What is spent on the day is within the allowance.
LEMMA TodayHolds ==
    ASSUME LlmInv
    PROVE  spent[day] <= Allowance + lost[day]
<1>1. /\ spent[day] \in Nat /\ lost[day] \in Nat
      /\ ledger[day] \in Nat /\ riding[day] \in Nat
    BY DEF LlmInv, LlmTypes
<1>2. /\ Cardinality(PastGate(calling)) \in Nat /\ Cardinality(Units(calling)) \in Nat
      /\ Cardinality(Units(calling)) <= Dear * Cardinality(PastGate(calling))
    BY CallSets DEF LlmInv, LlmTypes
<1>3. Dear * Cardinality(PastGate(calling)) \in Nat /\ Cardinality(Callers) * Dear \in Nat
    BY <1>2, DearType
<1> QED BY <1>1, <1>2, <1>3, DearType DEF LlmInv, Accounted, DaysSum, Allowance

LEMMA InvHoldsBudget == ASSUME LlmInv PROVE BudgetHolds
<1> SUFFICES ASSUME NEW d \in Days
             PROVE  spent[d] <= Budget + Cardinality(Callers) * Dear + lost[d]
    BY DEF BudgetHolds, Dear
<1>1. /\ spent[d] \in Nat /\ lost[d] \in Nat /\ d \in Nat /\ day \in Nat
      /\ Cardinality(Callers) * Dear \in Nat
    BY DearType DEF LlmInv, LlmTypes, Days
<1>2. CASE d < day
    BY <1>2 DEF LlmInv, PastDays, Allowance
<1>3. CASE d = day
    BY <1>3, TodayHolds DEF Allowance
<1>4. CASE d > day
    BY <1>1, <1>4, DearType DEF LlmInv, AheadOfTime
<1> QED BY <1>1, <1>2, <1>3, <1>4
-----------------------------------------------------------------------------
\* A call that moves on: who is past the gate, and what is to be metered.
LEMMA OneTo ==
    ASSUME NEW n \in Nat
    PROVE  IsFiniteSet(1..n) /\ Cardinality(1..n) = n
<1>1. 1 \in Int /\ n \in Int
    OBVIOUS
<1>2. IsFiniteSet(1..n) /\ Cardinality(1..n) = IF 1 > n THEN 0 ELSE n - 1 + 1
    BY <1>1, FS_Interval
<1>3. CASE n = 0
    BY <1>2, <1>3
<1>4. CASE n > 0
    BY <1>2, <1>4
<1> QED BY <1>3, <1>4

LEMMA UnitsOfOne ==
    ASSUME NEW k \in [Callers -> Calling], NEW c \in Callers, k[c].step = "metering",
           NEW r \in Calling, r.step # "metering", NEW j, j = [k EXCEPT ![c] = r]
    PROVE  Cardinality(Units(k)) = Cardinality(Units(j)) + k[c].cost
<1> DEFINE his == {c} \X (1..k[c].cost)
<1>1. k[c].cost \in Nat /\ k[c].cost <= Dear /\ Dear \in Nat
    BY DearType DEF Calling
<1>2. j \in [Callers -> Calling]
    OBVIOUS
<1>3. IsFiniteSet(Units(k)) /\ IsFiniteSet(Units(j))
    BY <1>2, CallSets
<1>4. IsFiniteSet(his) /\ Cardinality(his) = k[c].cost
    <2>1. IsFiniteSet(1..k[c].cost) /\ Cardinality(1..k[c].cost) = k[c].cost
        BY <1>1, OneTo
    <2>2. IsFiniteSet({c}) /\ Cardinality({c}) = 1
        BY FS_Singleton
    <2>3. IsFiniteSet(his) /\ Cardinality(his) = Cardinality({c}) * Cardinality(1..k[c].cost)
        BY <2>1, <2>2, FS_Product
    <2> HIDE DEF his
    <2> QED BY <1>1, <2>1, <2>2, <2>3
<1>5. his \cap Units(j) = {}
    BY DEF Units, Metering
<1>6. Units(k) = Units(j) \cup his
    <2>1. Metering(j) = Metering(k) \ {c} /\ c \in Metering(k)
        BY DEF Metering
    <2>2. \A d \in Metering(j) : j[d].cost = k[d].cost
        BY DEF Metering
    <2>3. ASSUME NEW x \in Units(k) PROVE x \in Units(j) \cup his
        <3>1. x \in Metering(k) \X (1..Dear) /\ x[2] <= k[x[1]].cost
            BY <2>3 DEF Units
        <3>2. CASE x[1] = c
            BY <1>1, <3>1, <3>2
        <3>3. CASE x[1] # c
            BY <2>1, <2>2, <3>1, <3>3 DEF Units
        <3> QED BY <3>2, <3>3
    <2>4. ASSUME NEW x \in Units(j) PROVE x \in Units(k)
        BY <2>1, <2>2, <2>4 DEF Units
    <2>5. ASSUME NEW x \in his PROVE x \in Units(k)
        <3>1. x = <<c, x[2]>> /\ x[2] \in 1..k[c].cost
            OBVIOUS
        <3>2. x[2] \in 1..Dear /\ x[2] <= k[c].cost
            BY <1>1, <3>1
        <3> QED BY <2>1, <3>1, <3>2 DEF Units
    <2> QED BY <2>3, <2>4, <2>5
<1>7. Cardinality(Units(j)) \in Nat
    BY <1>3, FS_CardinalityType
<1> HIDE DEF his
<1>8. Cardinality(Units(j) \cup his) =
        Cardinality(Units(j)) + Cardinality(his) - Cardinality(Units(j) \cap his)
    BY <1>3, <1>4, FS_Union
<1>9. Cardinality(Units(j) \cap his) = 0
    BY <1>5, FS_EmptySet
<1> QED BY <1>1, <1>4, <1>6, <1>7, <1>8, <1>9

LEMMA UnitsOfOthers ==
    ASSUME NEW k \in [Callers -> Calling], NEW c \in Callers, k[c].step # "metering",
           NEW r \in Calling, r.step # "metering", NEW j, j = [k EXCEPT ![c] = r]
    PROVE  Units(j) = Units(k)
<1>1. Metering(j) = Metering(k) /\ \A d \in Metering(k) : j[d].cost = k[d].cost
    BY DEF Metering
<1> QED BY <1>1 DEF Units

Moves(k, c, r, j) ==
    /\ j \in [Callers -> Calling]
    /\ PastGate(j) = IF r.step \in {"asking", "metering"}
                     THEN PastGate(k) \cup {c} ELSE PastGate(k) \ {c}
    /\ k[c].step # "metering" /\ r.step # "metering" =>
         Cardinality(Units(j)) = Cardinality(Units(k))
    /\ k[c].step # "metering" /\ r.step = "metering" =>
         Cardinality(Units(j)) = Cardinality(Units(k)) + r.cost
    /\ k[c].step = "metering" /\ r.step # "metering" =>
         Cardinality(Units(k)) = Cardinality(Units(j)) + k[c].cost

LEMMA CallMoves ==
    ASSUME NEW k \in [Callers -> Calling], NEW c \in Callers,
           NEW r \in Calling, NEW j, j = [k EXCEPT ![c] = r]
    PROVE  Moves(k, c, r, j)
<1> DEFINE out == [r EXCEPT !.step = "idle"]
           i == [k EXCEPT ![c] = out]
<1>1. j \in [Callers -> Calling] /\ out \in Calling /\ i \in [Callers -> Calling]
    BY DEF Calling
<1>2. PastGate(j) = IF r.step \in {"asking", "metering"}
                    THEN PastGate(k) \cup {c} ELSE PastGate(k) \ {c}
    BY DEF PastGate, Asking, Metering
<1>3. r.cost \in Nat /\ k[c].cost \in Nat
    BY DearType DEF Calling
<1>4. /\ Cardinality(Units(i)) \in Nat /\ Cardinality(Units(j)) \in Nat
      /\ Cardinality(Units(k)) \in Nat
    BY <1>1, CallSets
<1>5. out.step # "metering" /\ i = [j EXCEPT ![c] = out]
    BY DEF Calling
<1>6. Cardinality(Units(k)) =
        Cardinality(Units(i)) + (IF k[c].step = "metering" THEN k[c].cost ELSE 0)
    <2>1. CASE k[c].step = "metering"
        <3>1. i = [k EXCEPT ![c] = out] /\ out.step # "metering"
            BY <1>5
        <3> HIDE DEF i, out
        <3>2. Cardinality(Units(k)) = Cardinality(Units(i)) + k[c].cost
            BY <1>1, <2>1, <3>1, UnitsOfOne
        <3> QED BY <2>1, <3>2
    <2>2. CASE k[c].step # "metering"
        <3>1. i = [k EXCEPT ![c] = out]
            OBVIOUS
        <3> HIDE DEF i, out
        <3>2. Metering(i) = Metering(k) /\ \A d \in Metering(k) : i[d].cost = k[d].cost
            BY <1>1, <1>5, <2>2, <3>1 DEF Metering
        <3>3. Units(i) = Units(k)
            BY <3>2 DEF Units
        <3> QED BY <1>4, <2>2, <3>3
    <2> QED BY <2>1, <2>2
<1>7. Cardinality(Units(j)) =
        Cardinality(Units(i)) + (IF r.step = "metering" THEN r.cost ELSE 0)
    <2>1. j[c] = r
        OBVIOUS
    <2>2. CASE r.step = "metering"
        <3>1. j[c].step = "metering"
            BY <2>1, <2>2
        <3> HIDE DEF i, out
        <3>2. Cardinality(Units(j)) = Cardinality(Units(i)) + j[c].cost
            BY <1>1, <1>5, <3>1, UnitsOfOne
        <3> QED BY <2>1, <2>2, <3>2
    <2>3. CASE r.step # "metering"
        <3>1. j[c].step # "metering"
            BY <2>1, <2>3
        <3> HIDE DEF i, out
        <3>2. Metering(i) = Metering(j) /\ \A d \in Metering(j) : i[d].cost = j[d].cost
            BY <1>1, <1>5, <3>1 DEF Metering
        <3>3. Units(i) = Units(j)
            BY <3>2 DEF Units
        <3> QED BY <1>4, <2>3, <3>3
    <2> QED BY <2>2, <2>3
<1> HIDE DEF i, out
<1> QED BY <1>1, <1>2, <1>3, <1>4, <1>6, <1>7 DEF Moves

LEMMA SumsType ==
    ASSUME NEW a \in [Days -> Nat], NEW b \in [Days -> Nat]
    PROVE  /\ NoSpend \in [Days -> Nat] /\ \A e \in Days : NoSpend[e] = 0
           /\ Both(a, b) \in [Days -> Nat]
           /\ \A e \in Days : Both(a, b)[e] = a[e] + b[e]
BY DEF NoSpend, Both

LEMMA PlusType ==
    ASSUME NEW a \in [Days -> Nat], NEW d \in Days, NEW n \in Nat
    PROVE  /\ Plus(a, d, n) \in [Days -> Nat]
           /\ \A e \in Days : Plus(a, d, n)[e] = IF e = d THEN a[e] + n ELSE a[e]
BY DEF Plus

LEMMA LlmInitInv == LlmInit => LlmInv
<1> SUFFICES ASSUME LlmInit PROVE LlmInv
    OBVIOUS
<1>1. NoSpend \in [Days -> Nat] /\ \A d \in Days : NoSpend[d] = 0
    BY DEF NoSpend
<1>2. 0 \in Days /\ \A d \in Days : d \in Nat
    BY LlmBoundsAssumption DEF Days
<1>3. Quiet \in Calling /\ Quiet.step = "idle"
    BY DEF Quiet, Calling
<1>4. LlmTypes
    BY <1>1, <1>2, <1>3 DEF LlmInit, LlmTypes
<1>5. PastGate(calling) = {} /\ Units(calling) = {}
    BY <1>3 DEF LlmInit, PastGate, Asking, Metering, Units
<1>6. Cardinality({}) = 0
    BY FS_EmptySet
<1>7. Cardinality(Callers) * Dear \in Nat /\ Dear * 0 = 0
    BY DearType
<1>8. Accounted
    <2>1. DaysSum = 0 /\ spent[day] = 0 /\ lost[day] = 0
        BY <1>1, <1>2 DEF LlmInit, DaysSum
    <2>2. Allowance \in Nat
        BY <1>7, DearType DEF Allowance
    <2> QED BY <1>5, <1>6, <1>7, <2>1, <2>2 DEF Accounted
<1>9. AheadOfTime /\ PastDays /\ OwnerInSight /\ OnlyCallerCommits
    BY <1>1, <1>2, CallersAssumption
    DEF LlmInit, AheadOfTime, PastDays, OwnerInSight, OnlyCallerCommits
<1> QED BY <1>4, <1>8, <1>9 DEF LlmInv
-----------------------------------------------------------------------------
\* One lemma per action.

Sums(l, r, s, o, d) ==
    /\ l[d] \in Nat /\ r[d] \in Nat /\ s[d] \in Nat /\ o[d] \in Nat

LEMMA LlmFacts ==
    ASSUME LlmInv
    PROVE  /\ day \in Days /\ day \in Nat /\ \A d \in Days : d \in Nat
           /\ \A d \in Days : Sums(ledger, riding, spent, lost, d)
           /\ DaysSum \in Nat /\ Allowance \in Nat
           /\ Cardinality(PastGate(calling)) \in Nat
           /\ Cardinality(Units(calling)) \in Nat
           /\ Dear * Cardinality(PastGate(calling)) \in Nat
<1>1. day \in Days /\ \A d \in Days : d \in Nat
    BY DEF LlmInv, LlmTypes, Days
<1>2. \A d \in Days : Sums(ledger, riding, spent, lost, d)
    BY DEF LlmInv, LlmTypes, Sums
<1>3. Cardinality(PastGate(calling)) \in Nat /\ Cardinality(Units(calling)) \in Nat
    BY CallSets DEF LlmInv, LlmTypes
<1>4. DaysSum \in Nat
    BY <1>1, <1>2 DEF DaysSum, Sums
<1>5. Allowance \in Nat
    BY DearType DEF Allowance
<1>6. Dear * Cardinality(PastGate(calling)) \in Nat
    BY <1>3, DearType
<1> QED BY <1>1, <1>2, <1>3, <1>4, <1>5, <1>6

\* Nothing but the calls moves: the sums, the transaction and the day stay.
LEMMA CallingOnly ==
    ASSUME LlmInv, UNCHANGED <<ledger, txVars, day, spent, lost>>,
           calling' \in [Callers -> Calling],
           \A c \in Callers : calling'[c].step = "metering" => calling'[c].reply # "none",
           OwnerInSight', Accounted'
    PROVE  LlmInv'
<1>1. LlmTypes'
    BY DEF LlmInv, LlmTypes, txVars
<1>2. AheadOfTime'
    BY DEF LlmInv, AheadOfTime, txVars
<1>3. PastDays'
    BY DEF LlmInv, PastDays, Allowance
<1>4. OnlyCallerCommits'
    BY DEF LlmInv, OnlyCallerCommits, txVars
<1> QED BY <1>1, <1>2, <1>3, <1>4 DEF LlmInv

LEMMA WorksInv == ASSUME LlmInv, NEW c \in Callers, Works(c) PROVE LlmInv'
<1>1. /\ UNCHANGED <<ledger, riding, kept, calling, day, spent, lost, owed>>
      /\ txOwner' = c /\ own' = 1 /\ txOwner \in {c, NoCaller} /\ calling[c].step = "idle"
    BY DEF Works
<1>2. LlmTypes'
    BY <1>1 DEF LlmInv, LlmTypes
<1>3. c # NoCaller
    BY CallersAssumption
<1>4. AheadOfTime'
    BY <1>1, <1>3 DEF LlmInv, AheadOfTime
<1>5. c \notin PastGate(calling)
    BY <1>1 DEF PastGate, Asking, Metering
<1>6. OwnerInSight'
    <2>1. SUFFICES ASSUME riding[day] > 0 PROVE DaysSum <= Budget + Dear
        BY <1>1, <1>5 DEF OwnerInSight, DaysSum
    <2>2. riding # NoSpend
        BY <2>1, LlmFacts DEF NoSpend
    <2>3. txOwner = c
        BY <1>1, <2>2 DEF LlmInv, AheadOfTime
    <2> QED BY <1>5, <2>1, <2>3 DEF LlmInv, OwnerInSight
<1>7. Accounted' /\ PastDays' /\ OnlyCallerCommits'
    BY <1>1 DEF LlmInv, Accounted, PastDays, OnlyCallerCommits, DaysSum, Allowance
<1> QED BY <1>2, <1>4, <1>6, <1>7 DEF LlmInv

LEMMA CallerCommitsInv == ASSUME LlmInv, NEW c \in Callers, CallerCommits(c) PROVE LlmInv'
<1>1. /\ UNCHANGED <<calling, day, spent, lost>>
      /\ ledger' = Both(ledger, riding) /\ riding' = NoSpend
      /\ kept' = kept + own /\ owed' = owed + own /\ own' = 0 /\ txOwner' = NoCaller
    BY DEF CallerCommits
<1>2. ledger \in [Days -> Nat] /\ riding \in [Days -> Nat] /\ day \in Days
    BY DEF LlmInv, LlmTypes
<1>3. /\ ledger' \in [Days -> Nat] /\ riding' \in [Days -> Nat]
      /\ \A d \in Days : ledger'[d] = ledger[d] + riding[d] /\ riding'[d] = 0
    BY <1>1, <1>2, SumsType
<1>4. LlmTypes'
    BY <1>1, <1>3 DEF LlmInv, LlmTypes
<1>5. AheadOfTime'
    BY <1>1, <1>3 DEF LlmInv, AheadOfTime
<1>6. OwnerInSight'
    BY <1>1, CallersAssumption DEF OwnerInSight
<1>7. DaysSum' = DaysSum
    BY <1>1, <1>2, <1>3 DEF DaysSum
<1>8. Accounted' /\ PastDays'
    BY <1>1, <1>7 DEF LlmInv, Accounted, PastDays, Allowance
<1>9. OnlyCallerCommits'
    BY <1>1 DEF LlmInv, OnlyCallerCommits
<1> QED BY <1>4, <1>5, <1>6, <1>8, <1>9 DEF LlmInv

\* What is undone was riding: it is lost, and the sums go down by as much.
LEMMA UndoInv ==
    ASSUME LlmInv, NEW gone \in [Days -> Nat], \A d \in Days : gone[d] >= lost[d],
           lost' = Both(gone, riding), riding' = NoSpend, own' = 0, txOwner' = NoCaller,
           UNCHANGED <<ledger, kept, day, spent, owed>>,
           calling' \in [Callers -> Calling],
           \A c \in Callers : calling'[c].step = "metering" => calling'[c].reply # "none",
           PastGate(calling') \subseteq PastGate(calling),
           Cardinality(Units(calling)) <= Cardinality(Units(calling')) + gone[day] - lost[day]
    PROVE  LlmInv'
<1>1. /\ riding \in [Days -> Nat] /\ ledger \in [Days -> Nat] /\ lost \in [Days -> Nat]
      /\ spent \in [Days -> Nat] /\ day \in Days
    BY DEF LlmInv, LlmTypes
<1>2. /\ riding' \in [Days -> Nat] /\ lost' \in [Days -> Nat]
      /\ \A d \in Days : riding'[d] = 0 /\ lost'[d] = gone[d] + riding[d]
    BY <1>1, SumsType
<1>3. LlmTypes'
    BY <1>2 DEF LlmInv, LlmTypes
<1>4. AheadOfTime'
    BY <1>2 DEF LlmInv, AheadOfTime
<1>5. OwnerInSight'
    BY CallersAssumption DEF OwnerInSight
<1>6. Accounted'
    <2>1. /\ Cardinality(PastGate(calling)) \in Nat /\ Cardinality(PastGate(calling')) \in Nat
          /\ Cardinality(PastGate(calling')) <= Cardinality(PastGate(calling))
          /\ Cardinality(Units(calling)) \in Nat /\ Cardinality(Units(calling')) \in Nat
        BY CallSets, FS_Subset DEF LlmInv, LlmTypes
    <2>2. Dear * Cardinality(PastGate(calling')) <= Dear * Cardinality(PastGate(calling))
        BY <2>1, DearType
    <2>3. /\ Dear * Cardinality(PastGate(calling')) \in Nat
          /\ Dear * Cardinality(PastGate(calling)) \in Nat
        BY <2>1, DearType
    <2>4. /\ DaysSum = ledger[day] + riding[day] /\ DaysSum' = ledger[day]
          /\ lost'[day] = gone[day] + riding[day] /\ spent'[day] = spent[day]
          /\ {ledger[day], riding[day], gone[day], lost[day], spent[day]} \subseteq Nat
        BY <1>1, <1>2 DEF DaysSum
    <2>5. /\ Accounted /\ Allowance \in Nat /\ Allowance' = Allowance /\ day' = day
        BY LlmFacts DEF LlmInv, Allowance
    <2>6. DaysSum' + Dear * Cardinality(PastGate(calling')) <= Allowance
        BY <2>2, <2>3, <2>4, <2>5 DEF Accounted
    <2>7. spent[day] <= DaysSum' + lost'[day] + Cardinality(Units(calling'))
        BY <2>1, <2>4, <2>5 DEF Accounted
    <2> QED BY <2>4, <2>5, <2>6, <2>7 DEF Accounted
<1>7. PastDays'
    <2> SUFFICES ASSUME NEW d \in Days, d < day PROVE spent[d] <= Allowance + lost'[d]
        BY DEF PastDays, Allowance
    <2>1. {riding[d], gone[d], lost[d], spent[d]} \subseteq Nat /\ gone[d] >= lost[d]
        BY <1>1
    <2>2. spent[d] <= Allowance + lost[d] /\ Allowance \in Nat
        BY LlmFacts DEF LlmInv, PastDays
    <2> QED BY <1>2, <2>1, <2>2
<1>8. OnlyCallerCommits'
    BY DEF LlmInv, OnlyCallerCommits
<1> QED BY <1>3, <1>4, <1>5, <1>6, <1>7, <1>8 DEF LlmInv

LEMMA CallerRollsBackInv == ASSUME LlmInv, NEW c \in Callers, CallerRollsBack(c) PROVE LlmInv'
<1>1. /\ lost' = Both(lost, riding) /\ riding' = NoSpend /\ own' = 0 /\ txOwner' = NoCaller
      /\ UNCHANGED <<ledger, kept, calling, day, spent, owed>>
    BY DEF CallerRollsBack, Undo
<1>2. /\ lost \in [Days -> Nat] /\ calling \in [Callers -> Calling] /\ day \in Days
      /\ \A d \in Callers : calling[d].step = "metering" => calling[d].reply # "none"
    BY DEF LlmInv, LlmTypes
<1>3. /\ \A d \in Days : lost[d] >= lost[d]
      /\ Cardinality(Units(calling)) <= Cardinality(Units(calling')) + lost[day] - lost[day]
    BY <1>1, <1>2, CallSets
<1> QED BY <1>1, <1>2, <1>3, UndoInv
LEMMA GateInv == ASSUME LlmInv, NEW c \in Callers, Gate(c) PROVE LlmInv'
<1> DEFINE r == [calling[c] EXCEPT !.step = "asking"]
<1>1. /\ UNCHANGED <<ledger, txVars, day, spent, lost>>
      /\ calling[c].step \in {"idle", "again"} /\ SpentToday(c) <= Budget
      /\ calling' = [calling EXCEPT ![c] = r]
    BY DEF Gate
<1>2. calling \in [Callers -> Calling] /\ calling[c] \in Calling /\ r \in Calling /\ r.step = "asking"
    BY DEF LlmInv, LlmTypes, Calling
<1>3. /\ PastGate(calling') = PastGate(calling) \cup {c}
      /\ Cardinality(Units(calling')) = Cardinality(Units(calling))
      /\ calling' \in [Callers -> Calling]
    <2> HIDE DEF r
    <2>1. calling[c].step # "metering" /\ r.step # "metering"
        BY <1>1, <1>2
    <2>2. Cardinality(Units(calling')) = Cardinality(Units(calling))
        BY <1>1, <1>2, <2>1, UnitsOfOthers
    <2>9. Moves(calling, c, r, calling')
        BY <1>1, <1>2, <2>2, CallMoves
    <2> QED BY <1>1, <1>2, <2>2, <2>9 DEF Moves
<1>4. c \notin PastGate(calling)
    BY <1>1 DEF PastGate, Asking, Metering
<1>5. \A d \in Callers : calling'[d].step = "metering" => calling'[d].reply # "none"
    BY <1>1, <1>2 DEF LlmInv, LlmTypes
<1>6. /\ ledger[day] \in Nat /\ riding[day] \in Nat /\ Allowance \in Nat
      /\ DaysSum = ledger[day] + riding[day]
    BY LlmFacts DEF Sums, DaysSum
<1>7. /\ txOwner = NoCaller => riding[day] = 0
      /\ txOwner # NoCaller => txOwner \in Callers
    <2>1. day \in Days /\ NoSpend[day] = 0
        BY LlmFacts DEF NoSpend
    <2> QED BY <2>1 DEF LlmInv, AheadOfTime, LlmTypes
<1>8. OwnerInSight'
    <2>1. CASE txOwner = c
        BY <1>1, <1>3, <1>6, <2>1 DEF SpentToday, InTx, OwnerInSight, txVars, DaysSum
    <2>2. CASE txOwner # c
        BY <1>1, <1>3, <2>2 DEF LlmInv, OwnerInSight, txVars, DaysSum
    <2> QED BY <2>1, <2>2
<1>9. /\ Cardinality(PastGate(calling')) \in Nat
      /\ Cardinality(PastGate(calling')) <= Cardinality(Callers)
    BY <1>3, CallSets
<1>10. DaysSum + Dear * Cardinality(PastGate(calling')) <= Allowance
    <2>1. /\ Dear * Cardinality(PastGate(calling')) <= Cardinality(Callers) * Dear
          /\ Dear * Cardinality(PastGate(calling')) \in Nat
          /\ Cardinality(Callers) * Dear \in Nat
        BY <1>9, DearType
    <2>2. CASE DaysSum <= Budget
        BY <1>6, <2>1, <2>2, DearType DEF Allowance
    <2>3. CASE DaysSum > Budget
        <3>1. txOwner # c /\ ledger[day] <= Budget /\ riding[day] > 0
            BY <1>1, <1>6, <2>3, DearType DEF SpentToday, InTx
        <3>2. txOwner \in Callers /\ txOwner \notin PastGate(calling')
            BY <1>3, <1>6, <1>7, <2>3, <3>1, DearType DEF LlmInv, OwnerInSight
        <3>3. DaysSum <= Budget + Dear
            BY <1>3, <3>1, <3>2 DEF LlmInv, OwnerInSight
        <3>4. Cardinality(PastGate(calling')) + 1 <= Cardinality(Callers)
            <4>1. IsFiniteSet(PastGate(calling'))
                BY <1>3, CallSets
            <4>2. Cardinality(PastGate(calling') \cup {txOwner}) = Cardinality(PastGate(calling')) + 1
                BY <3>2, <4>1, FS_AddElement
            <4>3. PastGate(calling') \cup {txOwner} \in SUBSET Callers
                BY <3>2 DEF PastGate, Asking, Metering
            <4> QED BY <4>2, <4>3, FS_Subset, CallersAssumption
        <3>5. Dear * Cardinality(PastGate(calling')) + Dear <= Cardinality(Callers) * Dear
            <4>1. \A m, p, q \in Nat : p + 1 <= q => m * p + m <= q * m
                OBVIOUS
            <4> QED BY <1>9, <3>4, <4>1, DearType
        <3> QED BY <1>6, <2>1, <3>3, <3>5, DearType DEF Allowance
    <2> QED BY <1>6, <2>2, <2>3, DearType
<1>11. Accounted'
    <2>1. spent[day] <= DaysSum + lost[day] + Cardinality(Units(calling'))
        BY <1>2, <1>3, CallSets DEF LlmInv, Accounted
    <2> QED BY <1>1, <1>10, <2>1 DEF Accounted, DaysSum, txVars, Allowance
<1> QED BY <1>1, <1>3, <1>5, <1>8, <1>11, CallingOnly

\* A caller that leaves the gate, its ledger row apart, changes no sum.
LEMMA OutOfGate ==
    ASSUME LlmInv, NEW c \in Callers, calling' \in [Callers -> Calling],
           PastGate(calling') = PastGate(calling) \ {c},
           UNCHANGED <<ledger, riding, txOwner, day>>
    PROVE  OwnerInSight' /\ DaysSum' + Dear * Cardinality(PastGate(calling')) <= Allowance
<1>1. DaysSum \in Nat /\ Allowance \in Nat
    BY LlmFacts
<1>2. OwnerInSight'
    <2>1. txOwner' = txOwner /\ DaysSum' = DaysSum /\ riding[day]' = riding[day]
        BY DEF DaysSum
    <2>2. CASE txOwner = c
        <3>1. riding[day] > 0 => DaysSum <= Budget + Dear
            BY <1>1, <2>2, DearType DEF LlmInv, OwnerInSight
        <3> QED BY <2>1, <2>2, <3>1 DEF OwnerInSight
    <2>3. CASE txOwner # c
        <3>1. txOwner \in PastGate(calling') <=> txOwner \in PastGate(calling)
            BY <2>3
        <3> QED BY <2>1, <3>1 DEF LlmInv, OwnerInSight
    <2> QED BY <2>2, <2>3
<1>3. /\ Cardinality(PastGate(calling)) \in Nat /\ Cardinality(PastGate(calling')) \in Nat
      /\ Cardinality(PastGate(calling')) <= Cardinality(PastGate(calling))
    <2>1. PastGate(calling') \in SUBSET PastGate(calling) /\ IsFiniteSet(PastGate(calling))
        BY CallSets DEF LlmInv, LlmTypes
    <2>2. Cardinality(PastGate(calling')) <= Cardinality(PastGate(calling))
        BY <2>1, FS_Subset
    <2> QED BY <2>2, CallSets DEF LlmInv, LlmTypes
<1>4. DaysSum + Dear * Cardinality(PastGate(calling')) <= Allowance
    <2>1. /\ Dear * Cardinality(PastGate(calling')) <= Dear * Cardinality(PastGate(calling))
          /\ Dear * Cardinality(PastGate(calling')) \in Nat
          /\ Dear * Cardinality(PastGate(calling)) \in Nat
        BY <1>3, DearType
    <2> QED BY <1>1, <2>1 DEF LlmInv, Accounted
<1> QED BY <1>2, <1>4 DEF DaysSum

LEMMA GivesUpInv == ASSUME LlmInv, NEW c \in Callers, GivesUp(c) PROVE LlmInv'
<1>1. /\ UNCHANGED <<ledger, txVars, day, spent, lost>>
      /\ calling[c].step \in {"asking", "again"}
      /\ calling' = [calling EXCEPT ![c] = Quiet]
    BY DEF GivesUp
<1>2. calling \in [Callers -> Calling] /\ Quiet \in Calling /\ Quiet.step = "idle"
    BY DEF LlmInv, LlmTypes, Calling, Quiet
<1>3. /\ PastGate(calling') = PastGate(calling) \ {c}
      /\ Cardinality(Units(calling')) = Cardinality(Units(calling))
      /\ calling' \in [Callers -> Calling]
    <2>1. calling[c].step # "metering" /\ Quiet.step # "metering"
        BY <1>1, <1>2
    <2>2. Cardinality(Units(calling')) = Cardinality(Units(calling))
        BY <1>1, <1>2, <2>1, UnitsOfOthers
    <2>3. PastGate(calling') = PastGate(calling) \ {c}
        <3>1. Moves(calling, c, Quiet, calling')
            BY <1>1, <1>2, CallMoves
        <3> QED BY <1>1, <1>2, <3>1 DEF Moves
    <2>9. Moves(calling, c, Quiet, calling')
        BY <1>1, <1>2, <2>2, <2>3, CallMoves
    <2> QED BY <1>1, <1>2, <2>2, <2>3, <2>9 DEF Moves
<1>4. \A d \in Callers : calling'[d].step = "metering" => calling'[d].reply # "none"
    BY <1>1, <1>2 DEF LlmInv, LlmTypes
<1>5. OwnerInSight' /\ DaysSum' + Dear * Cardinality(PastGate(calling')) <= Allowance
    BY <1>1, <1>3, OutOfGate DEF txVars
<1>6. Accounted'
    BY <1>1, <1>3, <1>5 DEF LlmInv, Accounted, DaysSum, txVars, Allowance
<1> QED BY <1>1, <1>3, <1>4, <1>5, <1>6, CallingOnly

\* The call is made: what it costs is to be metered.
LEMMA AsksInv ==
    ASSUME LlmInv, NEW c \in Callers, NEW cost \in Costs,
           NEW reply \in {"json", "junk", "failed"}, Asks(c, cost, reply)
    PROVE  LlmInv'
<1> DEFINE r == [calling[c] EXCEPT !.step = "metering", !.cost = cost, !.reply = reply]
<1>1. /\ UNCHANGED <<ledger, txVars, day, lost>> /\ calling[c].step = "asking"
      /\ calling' = [calling EXCEPT ![c] = r] /\ spent' = Plus(spent, day, cost)
    BY DEF Asks
<1>2. /\ calling \in [Callers -> Calling] /\ calling[c] \in Calling /\ r \in Calling
      /\ r.step = "metering" /\ r.cost = cost /\ r.reply # "none"
    BY DEF LlmInv, LlmTypes, Calling
<1>3. cost \in Nat /\ spent \in [Days -> Nat] /\ day \in Days
    BY DearType DEF LlmInv, LlmTypes
<1>4. /\ PastGate(calling') = PastGate(calling) \cup {c}
      /\ Cardinality(Units(calling')) = Cardinality(Units(calling)) + cost
      /\ calling' \in [Callers -> Calling]
    <2> HIDE DEF r
    <2>9. Moves(calling, c, r, calling')
        BY <1>1, <1>2, CallMoves
    <2> QED BY <1>1, <1>2, <2>9 DEF Moves
<1>5. PastGate(calling') = PastGate(calling)
    BY <1>1, <1>4 DEF PastGate, Asking
<1>6. \A d \in Callers : calling'[d].step = "metering" => calling'[d].reply # "none"
    <2> HIDE DEF r
    <2> QED BY <1>1, <1>2 DEF LlmInv, LlmTypes
<1>7. /\ spent' \in [Days -> Nat]
      /\ \A d \in Days : spent'[d] = IF d = day THEN spent[d] + cost ELSE spent[d]
    BY <1>1, <1>3, PlusType
<1>8. LlmTypes'
    BY <1>1, <1>4, <1>6, <1>7 DEF LlmInv, LlmTypes, txVars
<1>9. AheadOfTime' /\ PastDays'
    <2>1. \A d \in Days : d # day => spent'[d] = spent[d]
        BY <1>7
    <2>2. \A d \in Days : (d > day => d # day) /\ (d < day => d # day)
        BY LlmFacts
    <2> QED BY <1>1, <2>1, <2>2 DEF LlmInv, AheadOfTime, PastDays, txVars, Allowance
<1>10. OwnerInSight'
    BY <1>1, <1>5 DEF LlmInv, OwnerInSight, txVars, DaysSum
<1>11. Accounted'
    <2>1. spent'[day] = spent[day] + cost
        BY <1>3, <1>7
    <2>2. spent[day] + cost <= DaysSum + lost[day] + Cardinality(Units(calling'))
        <3>1. /\ spent[day] \in Nat /\ lost[day] \in Nat /\ DaysSum \in Nat
              /\ Cardinality(Units(calling)) \in Nat
            BY LlmFacts DEF Sums
        <3> QED BY <1>3, <1>4, <3>1 DEF LlmInv, Accounted
    <2> QED BY <1>1, <1>5, <2>1, <2>2 DEF LlmInv, Accounted, DaysSum, txVars, Allowance
<1>12. OnlyCallerCommits'
    BY <1>1 DEF LlmInv, OnlyCallerCommits, txVars
<1> QED BY <1>8, <1>9, <1>10, <1>11, <1>12 DEF LlmInv
LEMMA AfterMeterType ==
    ASSUME NEW c \in Callers
    PROVE  AfterMeter(c) \in Calling /\ AfterMeter(c).step \in {"idle", "again"}
<1>1. Quiet \in Calling /\ Quiet.step = "idle"
    BY DEF Quiet, Calling
<1> DEFINE q == [Quiet EXCEPT !.step = "again"]
<1>2. q \in Calling /\ q.step = "again"
    BY <1>1 DEF Calling
<1>3. [q EXCEPT !.attempt = 2] \in Calling /\ [q EXCEPT !.attempt = 2].step = "again"
    <2> HIDE DEF q
    <2> QED BY <1>2 DEF Calling
<1>4. [Quiet EXCEPT !.step = "again", !.attempt = 2] = [q EXCEPT !.attempt = 2]
    OBVIOUS
<1> QED BY <1>1, <1>3, <1>4 DEF AfterMeter

\* A call is metered: its cost goes from the units to the day's sum.
LEMMA MeterInv == ASSUME LlmInv, NEW c \in Callers, Meter(c) PROVE LlmInv'
<1> DEFINE r == AfterMeter(c)
           cost == calling[c].cost
<1>1. calling[c].step = "metering" /\ calling \in [Callers -> Calling] /\ calling[c] \in Calling
    BY DEF Meter, LlmInv, LlmTypes
<1>2. Metered(c)
    BY <1>1 DEF Metered, LlmInv, LlmTypes, Calling
<1>3. /\ \/ txOwner = c /\ riding' = Plus(riding, day, cost) /\ ledger' = ledger
         \/ txOwner = NoCaller /\ ledger' = Plus(ledger, day, cost) /\ riding' = riding
      /\ calling' = [calling EXCEPT ![c] = r]
      /\ UNCHANGED <<txOwner, own, kept, owed, day, spent, lost>>
    BY <1>2 DEF Meter, InTx
<1>4. r \in Calling /\ r.step \in {"idle", "again"}
    BY AfterMeterType
<1>5. /\ cost \in Nat /\ cost <= Dear /\ Dear \in Nat /\ day \in Days
      /\ ledger \in [Days -> Nat] /\ riding \in [Days -> Nat]
    BY <1>1, DearType DEF LlmInv, LlmTypes, Calling
<1>6. /\ calling' \in [Callers -> Calling]
      /\ PastGate(calling') = PastGate(calling) \ {c}
      /\ Cardinality(Units(calling)) = Cardinality(Units(calling')) + cost
    <2> HIDE DEF r
    <2>1. r.step # "metering" /\ r.step \notin {"asking", "metering"}
        BY <1>4
    <2>2. calling' = [calling EXCEPT ![c] = r]
        BY <1>3
    <2>3. Cardinality(Units(calling)) = Cardinality(Units(calling')) + cost
        BY <1>1, <1>4, <2>1, <2>2, UnitsOfOne
    <2>4. calling' \in [Callers -> Calling] /\ PastGate(calling') = PastGate(calling) \ {c}
        <3>1. Moves(calling, c, r, calling')
            BY <1>1, <1>4, <2>1, <2>2, CallMoves
        <3> QED BY <1>1, <1>4, <2>1, <2>2, <3>1 DEF Moves
    <2> QED BY <2>3, <2>4
<1>7. /\ ledger' \in [Days -> Nat] /\ riding' \in [Days -> Nat]
      /\ \A d \in Days : d # day => ledger'[d] = ledger[d] /\ riding'[d] = riding[d]
      /\ ledger'[day] + riding'[day] = ledger[day] + riding[day] + cost
    <2> HIDE DEF cost, r
    <2>1. CASE txOwner = c /\ riding' = Plus(riding, day, cost) /\ ledger' = ledger
        <3>1. riding' \in [Days -> Nat] /\ ledger' \in [Days -> Nat]
              /\ \A d \in Days : riding'[d] = IF d = day THEN riding[d] + cost ELSE riding[d]
            <4>1. /\ Plus(riding, day, cost) \in [Days -> Nat]
                  /\ \A d \in Days : Plus(riding, day, cost)[d]
                                     = IF d = day THEN riding[d] + cost ELSE riding[d]
                BY <1>5, PlusType
            <4>2. riding' = Plus(riding, day, cost) /\ ledger' = ledger
                BY <2>1
            <4> QED BY <1>5, <4>1, <4>2
        <3>2. riding'[day] = riding[day] + cost /\ ledger'[day] = ledger[day]
            BY <1>5, <2>1, <3>1
        <3>3. ledger[day] \in Nat /\ riding[day] \in Nat
            BY <1>5
        <3> QED BY <1>5, <2>1, <3>1, <3>2, <3>3
    <2>2. CASE txOwner = NoCaller /\ ledger' = Plus(ledger, day, cost) /\ riding' = riding
        <3>1. ledger' \in [Days -> Nat] /\ riding' \in [Days -> Nat]
              /\ \A d \in Days : ledger'[d] = IF d = day THEN ledger[d] + cost ELSE ledger[d]
            <4>1. /\ Plus(ledger, day, cost) \in [Days -> Nat]
                  /\ \A d \in Days : Plus(ledger, day, cost)[d]
                                     = IF d = day THEN ledger[d] + cost ELSE ledger[d]
                BY <1>5, PlusType
            <4> QED BY <1>5, <2>2, <4>1
        <3>2. ledger'[day] = ledger[day] + cost /\ riding'[day] = riding[day]
            BY <1>5, <2>2, <3>1
        <3>3. ledger[day] \in Nat /\ riding[day] \in Nat
            BY <1>5
        <3> QED BY <1>5, <2>2, <3>1, <3>2, <3>3
    <2> QED BY <1>3, <2>1, <2>2
<1> HIDE DEF r
<1>8. \A d \in Callers : calling'[d].step = "metering" => calling'[d].reply # "none"
    BY <1>1, <1>3, <1>4 DEF LlmInv, LlmTypes
<1>9. LlmTypes'
    BY <1>3, <1>6, <1>7, <1>8 DEF LlmInv, LlmTypes
<1>10. AheadOfTime' /\ PastDays' /\ OnlyCallerCommits'
    <2>1. \A d \in Days : d > day => d # day
        BY LlmFacts
    <2>2. c # NoCaller
        BY CallersAssumption
    <2> QED BY <1>3, <1>7, <2>1, <2>2
        DEF LlmInv, AheadOfTime, PastDays, OnlyCallerCommits, Allowance
<1>11. DaysSum' = DaysSum + cost /\ DaysSum \in Nat
    BY <1>3, <1>7, LlmFacts DEF DaysSum
<1>12. c \in PastGate(calling)
    BY <1>1 DEF PastGate, Metering
<1>13. OwnerInSight'
    <2>1. CASE txOwner = c
        <3>1. DaysSum <= Budget
            BY <1>12, <2>1 DEF LlmInv, OwnerInSight
        <3>2. DaysSum' <= Budget + Dear
            BY <1>5, <1>11, <3>1, DearType
        <3> QED BY <1>3, <1>6, <2>1, <3>2 DEF OwnerInSight
    <2>2. CASE txOwner = NoCaller
        BY <1>3, <2>2, CallersAssumption DEF OwnerInSight
    <2> QED BY <1>3, <2>1, <2>2
<1>14. Accounted'
    <2>1. /\ Cardinality(PastGate(calling)) \in Nat
          /\ Cardinality(PastGate(calling')) = Cardinality(PastGate(calling)) - 1
          /\ Cardinality(PastGate(calling')) \in Nat
        <3>1. IsFiniteSet(PastGate(calling)) /\ Cardinality(PastGate(calling)) \in Nat
              /\ Cardinality(PastGate(calling')) \in Nat
            BY <1>1, <1>6, CallSets
        <3>2. PastGate(calling') = PastGate(calling) \ {c}
            BY <1>6
        <3> QED BY <1>12, <3>1, <3>2, FS_RemoveElement
    <2>2. Dear * Cardinality(PastGate(calling)) = Dear * Cardinality(PastGate(calling')) + Dear
        <3>1. \A m, p, q \in Nat : p = q - 1 => m * q = m * p + m
            OBVIOUS
        <3> QED BY <2>1, <3>1, DearType
    <2>3. Dear * Cardinality(PastGate(calling')) \in Nat
        BY <2>1, DearType
    <2>4. DaysSum' + Dear * Cardinality(PastGate(calling')) <= Allowance
        BY <1>5, <1>11, <2>2, <2>3, LlmFacts DEF LlmInv, Accounted
    <2>5. spent[day] <= DaysSum' + lost[day] + Cardinality(Units(calling'))
        <3>1. Cardinality(Units(calling')) \in Nat /\ lost[day] \in Nat /\ spent[day] \in Nat
            BY <1>6, CallSets, LlmFacts DEF Sums
        <3> QED BY <1>5, <1>6, <1>11, <3>1 DEF LlmInv, Accounted
    <2> QED BY <1>3, <2>4, <2>5 DEF Accounted, Allowance
<1> QED BY <1>9, <1>10, <1>13, <1>14 DEF LlmInv

\* The row of a call is lost, with the lock or with the process.
LEMMA LossInv ==
    ASSUME LlmInv, NEW c \in Callers, NEW r \in Calling, r.step \in {"idle", "again"},
           lost' = Plus(lost, day, calling[c].cost), calling' = [calling EXCEPT ![c] = r],
           UNCHANGED <<ledger, txVars, day, spent>>
    PROVE  LlmInv'
<1> DEFINE cost == calling[c].cost
<1>1. calling \in [Callers -> Calling] /\ calling[c] \in Calling
    BY DEF LlmInv, LlmTypes
<1>2. cost \in Nat /\ lost \in [Days -> Nat] /\ spent \in [Days -> Nat] /\ day \in Days
    BY <1>1, DearType DEF LlmInv, LlmTypes, Calling
<1>3. /\ calling' \in [Callers -> Calling]
      /\ PastGate(calling') = PastGate(calling) \ {c}
      /\ Cardinality(Units(calling)) <= Cardinality(Units(calling')) + cost
    <2>1. r.step # "metering" /\ r.step \notin {"asking", "metering"}
        OBVIOUS
    <2>2. calling' \in [Callers -> Calling] /\ PastGate(calling') = PastGate(calling) \ {c}
        <3>1. Moves(calling, c, r, calling')
            BY <1>1, <2>1, CallMoves
        <3> QED BY <1>1, <2>1, <3>1 DEF Moves
    <2>3. Cardinality(Units(calling)) \in Nat /\ Cardinality(Units(calling')) \in Nat
        BY <1>1, <2>2, CallSets
    <2>4. \/ Cardinality(Units(calling)) = Cardinality(Units(calling')) + cost
          \/ Cardinality(Units(calling)) = Cardinality(Units(calling'))
        <3>1. CASE calling[c].step = "metering"
            <4>1. Moves(calling, c, r, calling')
                BY <1>1, CallMoves
            <4> QED BY <2>1, <3>1, <4>1 DEF Moves
        <3>2. CASE calling[c].step # "metering"
            BY <1>1, <2>1, <3>2, UnitsOfOthers
        <3> QED BY <3>1, <3>2
    <2>5. \A x, y, z \in Nat : (x = y + z \/ x = y) => x <= y + z
        OBVIOUS
    <2> QED BY <1>2, <2>2, <2>3, <2>4, <2>5
<1>4. /\ lost' \in [Days -> Nat]
      /\ \A d \in Days : lost'[d] = IF d = day THEN lost[d] + cost ELSE lost[d]
    <2>1. lost' = Plus(lost, day, cost)
        OBVIOUS
    <2> HIDE DEF cost
    <2>2. /\ Plus(lost, day, cost) \in [Days -> Nat]
          /\ \A d \in Days : Plus(lost, day, cost)[d] = IF d = day THEN lost[d] + cost ELSE lost[d]
        BY <1>2, PlusType
    <2> QED BY <2>1, <2>2
<1>5. \A d \in Callers : calling'[d].step = "metering" => calling'[d].reply # "none"
    BY <1>1 DEF LlmInv, LlmTypes
<1> HIDE DEF cost
<1>6. LlmTypes'
    BY <1>3, <1>4, <1>5 DEF LlmInv, LlmTypes, txVars
<1>7. AheadOfTime' /\ OnlyCallerCommits'
    BY DEF LlmInv, AheadOfTime, OnlyCallerCommits, txVars
<1>8. PastDays'
    <2>1. \A d \in Days : d < day => d # day
        BY LlmFacts
    <2> QED BY <1>4, <2>1 DEF LlmInv, PastDays, Allowance
<1>9. OwnerInSight' /\ DaysSum' + Dear * Cardinality(PastGate(calling')) <= Allowance
    BY <1>3, OutOfGate DEF txVars
<1>10. Accounted'
    <2>1. Cardinality(Units(calling')) \in Nat /\ Cardinality(Units(calling)) \in Nat
        BY <1>1, <1>3, CallSets
    <2>2. lost'[day] = lost[day] + cost /\ lost[day] \in Nat /\ spent[day] \in Nat /\ DaysSum \in Nat
        BY <1>2, <1>4, LlmFacts
    <2>3. spent[day] <= DaysSum + lost'[day] + Cardinality(Units(calling'))
        BY <1>2, <1>3, <2>1, <2>2 DEF LlmInv, Accounted
    <2> QED BY <1>9, <2>3 DEF Accounted, DaysSum, txVars, Allowance
<1> QED BY <1>6, <1>7, <1>8, <1>9, <1>10 DEF LlmInv

LEMMA StopsInv == ASSUME LlmInv, NEW c \in Callers, Stops(c) PROVE LlmInv'
<1> DEFINE gone == Plus(lost, day, calling[c].cost)
<1>1. /\ calling' = [calling EXCEPT ![c] = Quiet] /\ UNCHANGED <<ledger, kept, owed, day, spent>>
      /\ \/ lost' = Both(gone, riding) /\ riding' = NoSpend /\ own' = 0 /\ txOwner' = NoCaller
         \/ lost' = gone /\ UNCHANGED <<txOwner, riding, own>>
    BY DEF Stops
<1>2. Quiet \in Calling /\ Quiet.step = "idle" /\ Quiet.step # "metering"
    BY DEF Quiet, Calling
<1>3. CASE lost' = gone /\ UNCHANGED <<txOwner, riding, own>>
    BY <1>1, <1>2, <1>3, LossInv DEF txVars
<1>4. CASE lost' = Both(gone, riding) /\ riding' = NoSpend /\ own' = 0 /\ txOwner' = NoCaller
    <2>1. calling \in [Callers -> Calling] /\ calling[c] \in Calling
        BY DEF LlmInv, LlmTypes
    <2>2. /\ calling[c].cost \in Nat /\ lost \in [Days -> Nat] /\ spent \in [Days -> Nat]
          /\ day \in Days
        BY <2>1, DearType DEF LlmInv, LlmTypes, Calling
    <2>3. /\ gone \in [Days -> Nat]
          /\ \A d \in Days : gone[d] = IF d = day THEN lost[d] + calling[c].cost ELSE lost[d]
        BY <2>2, PlusType
    <2> HIDE DEF gone
    <2>4. \A d \in Days : gone[d] >= lost[d]
        BY <2>2, <2>3
    <2>5. calling' \in [Callers -> Calling] /\ PastGate(calling') = PastGate(calling) \ {c}
        <3>1. Quiet.step \notin {"asking", "metering"}
            BY <1>2
        <3>9. Moves(calling, c, Quiet, calling')
            BY <1>1, <1>2, <2>1, <3>1, CallMoves
        <3> QED BY <1>1, <1>2, <2>1, <3>1, <3>9 DEF Moves
    <2>6. Cardinality(Units(calling)) <= Cardinality(Units(calling')) + gone[day] - lost[day]
        <3>1. Cardinality(Units(calling)) \in Nat /\ Cardinality(Units(calling')) \in Nat
            BY <2>1, <2>5, CallSets
        <3>2. gone[day] = lost[day] + calling[c].cost /\ lost[day] \in Nat
            BY <2>2, <2>3
        <3>3. CASE calling[c].step = "metering"
            <4>1. Cardinality(Units(calling)) = Cardinality(Units(calling')) + calling[c].cost
                BY <1>1, <1>2, <2>1, <3>3, UnitsOfOne
            <4> QED BY <2>2, <3>1, <3>2, <4>1
        <3>4. CASE calling[c].step # "metering"
            <4>1. Cardinality(Units(calling')) = Cardinality(Units(calling))
                BY <1>1, <1>2, <2>1, <3>4, UnitsOfOthers
            <4> QED BY <2>2, <3>1, <3>2, <4>1
        <3> QED BY <3>3, <3>4
    <2>7. \A d \in Callers : calling'[d].step = "metering" => calling'[d].reply # "none"
        BY <1>1, <1>2, <2>1 DEF LlmInv, LlmTypes
    <2> QED BY <1>1, <1>4, <2>3, <2>4, <2>5, <2>6, <2>7, UndoInv
<1> QED BY <1>1, <1>3, <1>4

LEMMA MidnightInv == ASSUME LlmInv, Midnight PROVE LlmInv'
<1>1. /\ day < MaxDays /\ day' = day + 1
      /\ UNCHANGED <<ledger, txVars, calling, spent, lost>>
    BY DEF Midnight
<1>2. day \in Nat /\ day' \in Days /\ \A d \in Days : d \in Nat
    BY <1>1, LlmFacts, LlmBoundsAssumption DEF Days
<1>3. LlmTypes'
    BY <1>1, <1>2 DEF LlmInv, LlmTypes, txVars
<1>4. AheadOfTime' /\ OnlyCallerCommits'
    BY <1>1, <1>2 DEF LlmInv, AheadOfTime, OnlyCallerCommits, txVars
<1>5. ledger'[day'] = 0 /\ riding'[day'] = 0 /\ spent'[day'] = 0 /\ lost'[day'] \in Nat
    BY <1>1, <1>2 DEF LlmInv, LlmTypes, AheadOfTime, txVars
<1>6. DaysSum' = 0
    BY <1>5 DEF DaysSum
<1>7. OwnerInSight'
    BY <1>5, <1>6, DearType DEF OwnerInSight
<1>8. PastDays'
    <2> SUFFICES ASSUME NEW d \in Days, d < day' PROVE spent[d] <= Allowance + lost[d]
        BY <1>1 DEF PastDays, Allowance
    <2>1. CASE d < day
        BY <2>1 DEF LlmInv, PastDays
    <2>2. CASE d = day
        BY <2>2, TodayHolds
    <2> QED BY <1>1, <1>2, <2>1, <2>2
<1>9. Accounted'
    <2>1. /\ Cardinality(PastGate(calling)) \in Nat
          /\ Cardinality(PastGate(calling)) <= Cardinality(Callers)
          /\ Cardinality(Units(calling)) \in Nat
        BY CallSets DEF LlmInv, LlmTypes
    <2>2. /\ Dear * Cardinality(PastGate(calling)) <= Cardinality(Callers) * Dear
          /\ Dear * Cardinality(PastGate(calling)) \in Nat
          /\ Cardinality(Callers) * Dear \in Nat
        BY <2>1, DearType
    <2>3. DaysSum' + Dear * Cardinality(PastGate(calling)) <= Allowance
        BY <1>6, <2>2, DearType DEF Allowance
    <2> QED BY <1>1, <1>5, <1>6, <2>1, <2>3 DEF Accounted, Allowance
<1> QED BY <1>3, <1>4, <1>7, <1>8, <1>9 DEF LlmInv

LEMMA LlmStep == ASSUME LlmInv, [LlmNext]_llmVars PROVE LlmInv'
<1>1. CASE UNCHANGED llmVars
    BY <1>1 DEF llmVars, LlmInv, LlmTypes, AheadOfTime, OwnerInSight, Accounted, PastDays,
        OnlyCallerCommits, DaysSum, Allowance
<1>2. CASE Midnight
    BY <1>2, MidnightInv
<1>3. ASSUME NEW c \in Callers,
             \/ Works(c) \/ CallerCommits(c) \/ CallerRollsBack(c)
             \/ Gate(c) \/ GivesUp(c) \/ Meter(c) \/ MeterLost(c) \/ Stops(c)
      PROVE  LlmInv'
    <2>1. CASE MeterLost(c)
        <3>1. AfterMeter(c) \in Calling /\ AfterMeter(c).step \in {"idle", "again"}
            BY AfterMeterType
        <3> QED BY <2>1, <3>1, LossInv DEF MeterLost
    <2> QED BY <1>3, <2>1, WorksInv, CallerCommitsInv, CallerRollsBackInv, GateInv, GivesUpInv,
            MeterInv, StopsInv
<1>4. ASSUME NEW c \in Callers, NEW cost \in Costs, NEW reply \in {"json", "junk", "failed"},
             Asks(c, cost, reply)
      PROVE  LlmInv'
    BY <1>4, AsksInv
<1> QED BY <1>1, <1>2, <1>3, <1>4 DEF LlmNext

\* A day costs no more than its budget, one call of every process, and what
\* a rollback, the lock or a crash took from the ledger: for any callers,
\* costs, days and interleaving of llm.py's gate and its metering.
THEOREM LlmBudgetHolds == LlmSpec => []BudgetHolds
<1>1. LlmInv => BudgetHolds
    BY InvHoldsBudget
<1> QED BY <1>1, LlmInitInv, LlmStep, PTL DEF LlmSpec

\* Only a caller's own commit makes its writes durable: no call it makes in
\* the middle of a transaction does (store/db.py commit_isolated).
THEOREM LlmOnlyCallerCommits == LlmSpec => []OnlyCallerCommits
<1>1. LlmInv => OnlyCallerCommits
    BY DEF LlmInv
<1> QED BY <1>1, LlmInitInv, LlmStep, PTL DEF LlmSpec
-----------------------------------------------------------------------------
\* Asking the brain.

AskSpec == AskInit /\ [][AskNext]_askVars

\* What does not change, and a call going on.
AskTypes ==
    /\ before \in [Heads -> Tails \cup {NoRow}] /\ current \subseteq Heads
    /\ asking \in [on : BOOLEAN, caller : {Owner, Guest}, cap : Nat, done : Nat,
                   registry : [Shorts -> AskRows \cup {NoRow}], seeds : SUBSET AskRows,
                   shown : SUBSET AskRows, cites : SUBSET Shorts,
                   answered : BOOLEAN, degraded : BOOLEAN]

\* A short id names the row it is registered for, and the prefetch is shown.
Registered ==
    /\ \A s \in Shorts : asking.registry[s] # NoRow => ShortOf[asking.registry[s]] = s
    /\ asking.seeds \subseteq asking.shown

AskInv == AskTypes /\ Registered /\ AskInScope

\* What one tool may show a caller.
InReach(caller, rows) ==
    /\ rows \subseteq AskRows
    /\ \A m \in rows :
        \/ caller = Owner
        \/ m \in Turns /\ scopeOf[m] = caller
        \/ /\ m \notin Turns /\ scopeOf[m] \in {Everyone, caller}
           /\ kindOf[m] # "peer_card"

-----------------------------------------------------------------------------
\* The smaller of two.
LEMMA MinOfTwo == ASSUME NEW m \in Nat, NEW n \in Nat PROVE Min({m, n}) \in Nat
<1>1. \E x \in {m, n} : \A y \in {m, n} : x <= y
    OBVIOUS
<1> QED BY <1>1 DEF Min

\* What a search finds is in reach, and so are the turns a grep reads and
\* what is left of a chain once the scope was applied to every version.
LEMMA FindsInReach ==
    ASSUME AskInv, NEW caller \in {Owner, Guest}, NEW epistemics,
           NEW rows \in SUBSET Findable(caller, epistemics)
    PROVE  InReach(caller, rows)
BY AskAssumption DEF AskInv, AskTypes, Findable, Allowed, InReach, AskRows

LEMMA GrepsInReach ==
    ASSUME NEW caller, NEW rows \in SUBSET Greppable(caller)
    PROVE  InReach(caller, rows)
BY DEF Greppable, InReach, AskRows

LEMMA ChainInReach ==
    ASSUME AskInv, NEW caller \in {Owner, Guest}, NEW m \in current
    PROVE  InReach(caller, VisibleChain(caller, m))
<1>1. Chain(m) \subseteq Heads \cup Tails
    BY DEF Chain, AskInv, AskTypes
<1> QED BY <1>1, AskAssumption DEF VisibleChain, Allowed, InReach, AskRows

\* The registry of an observation holds rows it showed, or what it held.
LEMMA RegistersShown ==
    ASSUME AskInv, NEW rows \in SUBSET AskRows, NEW r \in Registers(rows)
    PROVE  /\ r \in [Shorts -> AskRows \cup {NoRow}]
           /\ \A s \in Shorts : r[s] # NoRow =>
                r[s] \in asking.shown \cup rows /\ ShortOf[r[s]] = s
<1>1. r \in [Shorts -> AskRows \cup {NoRow}]
    BY DEF Registers
<1>2. ASSUME NEW s \in Shorts, r[s] # NoRow
      PROVE  r[s] \in asking.shown \cup rows /\ ShortOf[r[s]] = s
    <2> DEFINE same == { m \in rows : ShortOf[m] = s }
    <2>1. IF same = {} THEN r[s] = asking.registry[s] ELSE r[s] \in same
        BY DEF Registers
    <2>2. CASE same = {}
        BY <1>2, <2>1, <2>2 DEF AskInv, AskInScope, Registered
    <2>3. CASE same # {}
        BY <2>1, <2>3
    <2> QED BY <2>2, <2>3
<1> QED BY <1>1, <1>2

\* An observation in reach keeps the call in scope.
LEMMA ShowsInv ==
    ASSUME AskInv, UNCHANGED askStore, NEW rows, InReach(asking.caller, rows),
           NEW r \in [Shorts -> AskRows \cup {NoRow}], Shows(rows, r),
           \A s \in Shorts : r[s] # NoRow =>
                r[s] \in asking.shown \cup rows /\ ShortOf[r[s]] = s
    PROVE  AskInv'
<1>1. rows \subseteq AskRows /\ asking.seeds \subseteq AskRows
    BY DEF InReach, AskInv, AskTypes
<1>2. { ShortOf[m] : m \in asking.seeds } \subseteq Shorts
    BY <1>1, AskAssumption
<1>3. /\ asking'.registry = r /\ asking'.shown = asking.shown \cup rows
      /\ asking'.caller = asking.caller /\ asking'.seeds = asking.seeds
      /\ asking'.cites = {} \/ asking'.cites = { ShortOf[m] : m \in asking.seeds }
    BY DEF AskInv, AskTypes, Shows
<1>4. AskTypes'
    <2> DEFINE on == asking.done + 1 < asking.cap
               cites == IF asking.done + 1 = asking.cap
                        THEN { ShortOf[m] : m \in asking.seeds } ELSE {}
               shown == asking.shown \cup rows
    <2>1. on \in BOOLEAN
        OBVIOUS
    <2>2. /\ asking.done + 1 \in Nat /\ cites \in SUBSET Shorts
          /\ shown \in SUBSET AskRows
        BY <1>1, <1>2 DEF AskInv, AskTypes
    <2>3. asking' = [asking EXCEPT !.done = asking.done + 1, !.registry = r,
                        !.shown = shown, !.on = on, !.cites = cites]
        BY Zenon DEF Shows
    <2> HIDE DEF on, cites, shown
    <2> QED BY <2>1, <2>2, <2>3 DEF AskInv, AskTypes, askStore
<1>5. Registered'
    BY <1>3 DEF AskInv, Registered
<1>6. AskInScope'
    BY <1>1, <1>3 DEF AskInv, AskInScope, Registered, InReach, askStore
<1> QED BY <1>4, <1>5, <1>6 DEF AskInv

\* A call that ends keeps what it showed.
LEMMA EndsInv ==
    ASSUME AskInv, AskTypes', UNCHANGED askStore,
           asking'.registry = asking.registry, asking'.shown = asking.shown,
           asking'.caller = asking.caller, asking'.seeds = asking.seeds,
           asking'.cites \subseteq { ShortOf[m] : m \in asking.shown }
    PROVE  AskInv'
BY DEF AskInv, Registered, AskInScope, askStore

LEMMA AskInitInv == AskInit => AskInv
BY AskAssumption DEF AskInit, AskInv, AskTypes, Registered, AskInScope, NotAsked

LEMMA AskStarts ==
    ASSUME AskInv, NEW caller \in {Owner, Guest}, NEW level, Ask(caller, level)
    PROVE  AskInv'
<1>1. PICK seeds \in SUBSET Findable(caller, Epistemics),
           registry \in [Shorts -> AskRows \cup {NoRow}] :
        /\ \A s \in Shorts :
            LET same == { m \in seeds : ShortOf[m] = s }
            IN IF same = {} THEN registry[s] = NoRow ELSE registry[s] \in same
        /\ asking' = [NotAsked EXCEPT !.on = TRUE, !.caller = caller,
                !.cap = IF level = "fast" THEN Min({2, MaxIterations})
                        ELSE MaxIterations,
                !.registry = registry, !.seeds = seeds, !.shown = seeds]
    BY DEF Ask
<1>2. InReach(caller, seeds) /\ seeds \subseteq AskRows
    BY FindsInReach DEF InReach
<1>3. /\ asking'.caller = caller /\ asking'.registry = registry
      /\ asking'.seeds = seeds /\ asking'.shown = seeds /\ asking'.cites = {}
    BY <1>1 DEF NotAsked
<1>4. \A s \in Shorts : registry[s] # NoRow =>
            registry[s] \in seeds /\ ShortOf[registry[s]] = s
    BY <1>1
<1>5. Min({2, MaxIterations}) \in Nat /\ MaxIterations \in Nat
    BY AskBoundsAssumption, MinOfTwo
<1>6. AskTypes'
    <2> DEFINE cap == IF level = "fast" THEN Min({2, MaxIterations}) ELSE MaxIterations
    <2>1. cap \in Nat
        BY <1>5
    <2>2. asking' = [NotAsked EXCEPT !.on = TRUE, !.caller = caller, !.cap = cap,
                        !.registry = registry, !.seeds = seeds, !.shown = seeds]
        BY <1>1
    <2> HIDE DEF cap
    <2>3. before \in [Heads -> Tails \cup {NoRow}] /\ current \subseteq Heads
          /\ UNCHANGED <<before, current>>
        BY DEF AskInv, AskTypes, Ask, askStore
    <2> QED BY <1>2, <2>1, <2>2, <2>3 DEF AskTypes, NotAsked
<1>7. Registered'
    BY <1>3, <1>4 DEF Registered
<1>8. AskInScope'
    BY <1>2, <1>3, <1>4 DEF AskInScope, InReach, Ask, askStore
<1> QED BY <1>6, <1>7, <1>8 DEF AskInv

LEMMA AskStep == ASSUME AskInv, [AskNext]_askVars PROVE AskInv'
<1>1. CASE UNCHANGED askVars
    BY <1>1 DEF askVars, AskInv, AskTypes, Registered, AskInScope
<1>2. ASSUME NEW caller \in {Owner, Guest}, NEW level \in {"fast", "deep"},
             Ask(caller, level)
      PROVE  AskInv'
    BY <1>2, AskStarts
<1>3. asking.caller \in {Owner, Guest} /\ asking.registry \in [Shorts -> AskRows \cup {NoRow}]
    BY DEF AskInv, AskTypes
<1>4. ASSUME NEW epistemics, Searches(epistemics) PROVE AskInv'
    <2>1. PICK rows \in SUBSET Findable(asking.caller, epistemics) :
            \E r \in Registers(rows) : Shows(rows, r)
        BY <1>4 DEF Searches
    <2>2. PICK r \in Registers(rows) : Shows(rows, r)
        BY <2>1
    <2>3. InReach(asking.caller, rows) /\ rows \subseteq AskRows
        BY <1>3, FindsInReach DEF InReach
    <2> QED BY <1>4, <2>2, <2>3, RegistersShown, ShowsInv DEF Searches
<1>5. CASE Greps
    <2>1. PICK rows \in SUBSET Greppable(asking.caller) :
            \E r \in Registers(rows) : Shows(rows, r)
        BY <1>5 DEF Greps
    <2>2. PICK r \in Registers(rows) : Shows(rows, r)
        BY <2>1
    <2>3. InReach(asking.caller, rows) /\ rows \subseteq AskRows
        BY <1>3, GrepsInReach DEF InReach
    <2> QED BY <1>5, <2>2, <2>3, RegistersShown, ShowsInv DEF Greps
<1>6. ASSUME UNCHANGED askStore, Shows({}, asking.registry) PROVE AskInv'
    <2>1. InReach(asking.caller, {})
        BY DEF InReach
    <2>2. \A s \in Shorts : asking.registry[s] # NoRow =>
            asking.registry[s] \in asking.shown \cup {} /\ ShortOf[asking.registry[s]] = s
        BY DEF AskInv, AskInScope, Registered
    <2> QED BY <1>3, <1>6, <2>1, <2>2, ShowsInv
<1>7. ASSUME NEW s \in Shorts, Walks(s) PROVE AskInv'
    <2>1. CASE Shows({}, asking.registry)
        BY <1>6, <1>7, <2>1 DEF Walks
    <2>2. ASSUME NEW m \in current,
                 NEW r \in Registers(VisibleChain(asking.caller, m)),
                 Shows(VisibleChain(asking.caller, m), r)
          PROVE  AskInv'
        <3>1. /\ InReach(asking.caller, VisibleChain(asking.caller, m))
              /\ VisibleChain(asking.caller, m) \subseteq AskRows
            BY <1>3, ChainInReach DEF InReach
        <3> QED BY <1>7, <2>2, <3>1, RegistersShown, ShowsInv DEF Walks
    <2> QED BY <1>7, <2>1, <2>2 DEF Walks
<1>8. ASSUME NEW named \in SUBSET Shorts, NEW abstain \in BOOLEAN, Answers(named, abstain)
      PROVE  AskInv'
    <2> DEFINE cites == IF Citable(named) # {} THEN Citable(named)
                        ELSE { ShortOf[m] : m \in asking.seeds }
    <2>1. Citable(named) \subseteq { ShortOf[m] : m \in asking.shown }
        BY DEF Citable, AskInv, AskInScope, Registered
    <2>2. cites \subseteq { ShortOf[m] : m \in asking.shown }
        BY <2>1 DEF AskInv, Registered
    <2>3. cites \in SUBSET Shorts
        BY <2>2, AskAssumption DEF AskInv, AskTypes
    <2> DEFINE answered == ~abstain
    <2>4. answered \in BOOLEAN
        OBVIOUS
    <2>5. asking' = [asking EXCEPT !.on = FALSE, !.done = asking.done + 1,
                        !.answered = answered, !.cites = cites]
        BY <1>8, Zenon DEF Answers
    <2> HIDE DEF cites, answered
    <2>6. UNCHANGED askStore
        BY <1>8 DEF Answers
    <2>8. AskTypes'
        <3>1. asking.done + 1 \in Nat
            BY DEF AskInv, AskTypes
        <3> QED BY <2>3, <2>4, <2>5, <2>6, <3>1 DEF AskInv, AskTypes, askStore
    <2>7. /\ asking'.registry = asking.registry /\ asking'.shown = asking.shown
          /\ asking'.caller = asking.caller /\ asking'.seeds = asking.seeds
          /\ asking'.cites = cites
        BY <2>5 DEF AskInv, AskTypes
    <2> QED BY <2>2, <2>6, <2>7, <2>8, EndsInv
<1>9. CASE Degrades
    <2> DEFINE cites == { ShortOf[m] : m \in asking.seeds }
    <2>1. cites \subseteq { ShortOf[m] : m \in asking.shown } /\ cites \in SUBSET Shorts
        BY AskAssumption DEF AskInv, AskTypes, Registered
    <2>2. asking' = [asking EXCEPT !.on = FALSE, !.degraded = TRUE, !.cites = cites]
        BY <1>9 DEF Degrades
    <2> HIDE DEF cites
    <2>3. AskTypes'
        BY <1>9, <2>1, <2>2 DEF Degrades, AskInv, AskTypes, askStore
    <2>4. /\ asking'.registry = asking.registry /\ asking'.shown = asking.shown
          /\ asking'.caller = asking.caller /\ asking'.seeds = asking.seeds
          /\ asking'.cites = cites
        BY <2>2 DEF AskInv, AskTypes
    <2> QED BY <1>9, <2>1, <2>3, <2>4, EndsInv DEF Degrades
<1>10. ASSUME NEW m \in Heads, Changes(m) PROVE AskInv'
    BY <1>10 DEF Changes, AskInv, AskTypes, Registered, AskInScope
<1>11. CASE Stumbles
    BY <1>6, <1>11 DEF Stumbles
<1> QED BY <1>1, <1>2, <1>4, <1>5, <1>7, <1>8, <1>9, <1>10, <1>11 DEF AskNext

\* Nothing out of the caller's reach is shown or cited by any action of an
\* ask, for any rows, scopes, chains and short ids that clash, and whatever
\* changes while the LLM thinks (recall/ask.py: the scope is applied by every
\* tool again, and to every version of a chain).
THEOREM AskStaysInScope == AskSpec => []AskInScope
<1>1. AskInv => AskInScope
    BY DEF AskInv
<1> QED BY <1>1, AskInitInv, AskStep, PTL DEF AskSpec
=============================================================================
