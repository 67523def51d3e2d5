----------------------------- MODULE SyncProofs -----------------------------
(***************************************************************************)
(* Of SyncEngine, for any devices, commands, memories and page sizes: its  *)
(* types, that its outbox loses nothing, that the caches are told, that    *)
(* the devices together are a two-phase set, that a pull loses nothing,    *)
(* and that two devices that edit once converge.                           *)
(***************************************************************************)
EXTENDS SyncEngine, FiniteSetTheorems, SequenceTheorems, TLAPS

-----------------------------------------------------------------------------
\* Types.

\* A memory that follows another references a row that is there.
Referenced ==
    \A d \in Devices, u \in Uids :
        rows[d][u].parent # NoUid => rows[d][rows[d][u].parent].status # "absent"

\* What a local program may change, and what a command may.
LocalTypes ==
    /\ rows \in [Devices -> [Uids -> Row]] /\ Referenced
    /\ events \in [Devices -> SUBSET Event]
    /\ clock \in [Devices -> 0..MaxTs] /\ stale \in [Devices -> BOOLEAN]
    /\ minted \in SUBSET Uids /\ ops \in [Devices -> 0..MaxOps]
CommandTypes ==
    /\ log \in Seq(Envelope)
    /\ outbox \in [Devices -> 0..MaxTs] /\ seen \in [Devices -> Nat]
    /\ run \in [Runs -> RunState]
    /\ faults \in 0..MaxFaults

LEMMA TypeParts == TypeOK <=> LocalTypes /\ CommandTypes
  BY DEF TypeOK, LocalTypes, CommandTypes, Referenced

LEMMA IdleType == Idle \in RunState
<1>1. << >> \in Seq(Envelope)
  OBVIOUS
<1> QED
  BY <1>1 DEF Idle, RunState, Plans, NoUid

LEMMA TypeInit == Init => TypeOK
<1> SUFFICES ASSUME Init PROVE LocalTypes /\ CommandTypes
  BY TypeParts
<1>1. Absent \in Row /\ [Absent EXCEPT !.status = "active", !.open = TRUE, !.public = TRUE] \in Row
  <2>1. Absent \in Row
    BY SyncBoundsAssumption DEF Absent, Row, NoUid
  <2>2. \A r \in Row : [r EXCEPT !.status = "active", !.open = TRUE, !.public = TRUE] \in Row
    BY Zenon DEF Row
  <2> QED
    BY <2>1, <2>2
<1>2. \A d \in Devices, u \in Uids : rows[d][u] \in Row /\ rows[d][u].parent = NoUid
  BY <1>1 DEF Init, Absent
<1>3. rows \in [Devices -> [Uids -> Row]] /\ Referenced
  BY <1>1, <1>2 DEF Init, Referenced
<1>4. LocalTypes
  BY <1>3, UidsAssumption, SyncBoundsAssumption DEF LocalTypes, Init
<1>5. CommandTypes
  BY IdleType, SyncBoundsAssumption DEF CommandTypes, Init, RelayInit
<1> QED
  BY <1>4, <1>5

\* One transaction of a local program, with a table and events of their types.
LEMMA CommitsType ==
  ASSUME LocalTypes, NEW d \in Devices, NEW ts \in 1..MaxTs,
         NEW table \in [Uids -> Row], NEW evs \in SUBSET Event, Commits(d, ts, table, evs),
         \A u \in Uids : table[u].parent # NoUid => table[table[u].parent].status # "absent",
         minted' \in SUBSET Uids
  PROVE  LocalTypes'
<1>1. rows' \in [Devices -> [Uids -> Row]] /\ Referenced'
  <2>1. rows' = [rows EXCEPT ![d] = table]
    BY DEF Commits
  <2>2. rows'[d] = table /\ \A c \in Devices : c # d => rows'[c] = rows[c]
    BY <2>1 DEF LocalTypes
  <2>3. ASSUME NEW c \in Devices, NEW u \in Uids, rows'[c][u].parent # NoUid
        PROVE  rows'[c][rows'[c][u].parent].status # "absent"
    <3>1. CASE c = d
      BY <2>2, <2>3, <3>1
    <3>2. CASE c # d
      BY <2>2, <2>3, <3>2 DEF LocalTypes, Referenced
    <3> QED
      BY <3>1, <3>2
  <2> QED
    BY <2>1, <2>3 DEF LocalTypes, Referenced
<1>2. /\ events' \in [Devices -> SUBSET Event]
      /\ clock' \in [Devices -> 0..MaxTs] /\ stale' \in [Devices -> BOOLEAN]
      /\ ops' \in [Devices -> 0..MaxOps]
  BY SyncBoundsAssumption DEF Commits, MayWrite, LocalTypes
<1> QED
  BY <1>1, <1>2 DEF LocalTypes

LEMMA VersionType ==
  ASSUME NEW parent \in Uids \cup {NoUid}, NEW ts \in 0..MaxTs, NEW public \in BOOLEAN
  PROVE  /\ Version(parent, ts, public) \in Row
         /\ Version(parent, ts, public).parent = parent
         /\ Version(parent, ts, public).status = "active"
  BY DEF Version, Row

LEMMA LocalType ==
  ASSUME LocalTypes, NEW d \in Devices, Local(d)
  PROVE  LocalTypes'
<1> USE DEF LocalTypes
<1>1. PICK u \in Uids, ts \in 1..MaxTs :
        \/ \E public \in BOOLEAN : Create(d, u, ts, public)
        \/ \E v \in Uids : Succeeds(d, u, v, ts)
        \/ Retire(d, u, ts) \/ Forget(d, u, ts) \/ Purge(d, u, ts)
  BY DEF Local
<1>2. rows[d] \in [Uids -> Row] /\ ts \in 0..MaxTs /\ NoUid \notin Uids
  BY SyncBoundsAssumption, UidsAssumption DEF NoUid
<1>3. \A v \in Uids : rows[d][v].parent # NoUid =>
        rows[d][v].parent \in Uids /\ rows[d][rows[d][v].parent].status # "absent"
  BY <1>2 DEF Referenced, Row
<1>4. \A op \in {"create", "tombstone"}, v \in Uids : Logged(op, v, ts) \in SUBSET Event
  BY DEF Logged, Event
<1>5. ASSUME NEW public \in BOOLEAN, Create(d, u, ts, public)
      PROVE  LocalTypes'
  <2> DEFINE table == [rows[d] EXCEPT ![u] = Version(NoUid, ts, public)]
  <2>1. table \in [Uids -> Row]
    BY <1>2, VersionType
  <2>2. \A v \in Uids : table[v].parent # NoUid => table[table[v].parent].status # "absent"
    BY <1>2, <1>3, VersionType
  <2>3. Commits(d, ts, table, Logged("create", u, ts)) /\ minted' \in SUBSET Uids
    BY <1>5 DEF Create
  <2> HIDE DEF table, LocalTypes
  <2> QED
    BY <1>4, <2>1, <2>2, <2>3, CommitsType
<1>6. ASSUME NEW v \in Uids, Succeeds(d, u, v, ts)
      PROVE  LocalTypes'
  <2> DEFINE table == [rows[d] EXCEPT ![u].open = FALSE,
                                      ![v] = Version(u, ts, rows[d][u].public)]
  <2>1. rows[d][u].public \in BOOLEAN /\ rows[d][u].status = "active"
    BY <1>2, <1>6 DEF Row, Succeeds, Current
  <2>2. /\ table \in [Uids -> Row]
        /\ table[v].parent = u /\ table[v].status = "active"
        /\ \A w \in Uids \ {v} : table[w].parent = rows[d][w].parent
                                 /\ table[w].status = rows[d][w].status
    <3>1. /\ Version(u, ts, rows[d][u].public) \in Row
          /\ Version(u, ts, rows[d][u].public).parent = u
          /\ Version(u, ts, rows[d][u].public).status = "active"
      BY <1>2, <2>1, VersionType
    <3> QED
      BY <1>2, <3>1 DEF Row
  <2>3. \A w \in Uids : table[w].parent # NoUid => table[table[w].parent].status # "absent"
    <3> SUFFICES ASSUME NEW w \in Uids, table[w].parent # NoUid
                 PROVE  table[table[w].parent].status # "absent"
      OBVIOUS
    <3> HIDE DEF table
    <3>1. CASE w = v
      <4>1. table[w].parent = u
        BY <2>2, <3>1
      <4> QED
        BY <2>1, <2>2, <4>1
    <3>2. CASE w # v
      <4>1. table[w].parent = rows[d][w].parent /\ table[w].parent \in Uids
        BY <1>3, <2>2, <3>2
      <4> QED
        BY <1>3, <2>2, <3>2, <4>1
    <3> QED
      BY <3>1, <3>2
  <2>4. /\ Commits(d, ts, table, Logged("create", v, ts)) \/ Commits(d, ts, table, {})
        /\ minted' \in SUBSET Uids
    BY <1>6 DEF Succeeds
  <2> HIDE DEF table, LocalTypes
  <2> QED
    BY <1>4, <2>2, <2>3, <2>4, CommitsType
<1>7. CASE Retire(d, u, ts)
  <2> DEFINE table == [rows[d] EXCEPT ![u].open = FALSE]
  <2>1. /\ table \in [Uids -> Row]
        /\ \A w \in Uids : table[w].parent = rows[d][w].parent
                           /\ table[w].status = rows[d][w].status
    <3>1. ASSUME NEW row \in Row
          PROVE  /\ [row EXCEPT !.open = FALSE] \in Row
                 /\ [row EXCEPT !.open = FALSE].parent = row.parent
                 /\ [row EXCEPT !.open = FALSE].status = row.status
      BY DEF Row
    <3> QED
      BY <1>2, <3>1
  <2>2. \A w \in Uids : table[w].parent # NoUid => table[table[w].parent].status # "absent"
    BY <1>3, <2>1
  <2>3. Commits(d, ts, table, {}) /\ minted' \in SUBSET Uids
    BY <1>7 DEF Retire
  <2> HIDE DEF table, LocalTypes
  <2> QED
    BY <2>1, <2>2, <2>3, CommitsType
<1>8. CASE Forget(d, u, ts)
  <2> DEFINE table == [rows[d] EXCEPT ![u].status = "tombstone", ![u].open = FALSE]
  <2>1. /\ table \in [Uids -> Row]
        /\ \A w \in Uids : table[w].parent = rows[d][w].parent
                           /\ table[w].status \in {rows[d][w].status, "tombstone"}
    <3> DEFINE gone(row) == [row EXCEPT !.status = "tombstone", !.open = FALSE]
    <3>1. ASSUME NEW row \in Row
          PROVE  /\ gone(row) \in Row
                 /\ gone(row).parent = row.parent /\ gone(row).status = "tombstone"
      BY DEF Row
    <3>2. table = [rows[d] EXCEPT ![u] = gone(rows[d][u])]
      OBVIOUS
    <3> HIDE DEF table, gone
    <3> QED
      BY <1>2, <3>1, <3>2
  <2>2. ASSUME NEW w \in Uids, table[w].parent # NoUid
        PROVE  table[table[w].parent].status # "absent"
    <3> HIDE DEF table
    <3>1. table[w].parent \in Uids /\ rows[d][table[w].parent].status # "absent"
      BY <1>3, <2>1, <2>2
    <3> QED
      BY <2>1, <3>1
  <2>3. Commits(d, ts, table, Logged("tombstone", u, ts)) /\ minted' \in SUBSET Uids
    BY <1>8 DEF Forget
  <2> HIDE DEF table, LocalTypes
  <2> QED
    BY <1>4, <2>1, <2>2, <2>3, CommitsType
<1>9. CASE Purge(d, u, ts)
  <2> DEFINE table == [v \in Uids |->
                         IF v = u THEN Absent
                         ELSE IF rows[d][v].parent = u
                              THEN [rows[d][v] EXCEPT !.parent = NoUid]
                              ELSE rows[d][v]]
  <2>1. Absent \in Row /\ Absent.parent = NoUid
    BY SyncBoundsAssumption DEF Absent, Row, NoUid
  <2>2. ASSUME NEW v \in Uids
        PROVE  /\ table[v] \in Row
               /\ table[v].parent \in {NoUid, rows[d][v].parent} \ {u}
               /\ v # u => table[v].status = rows[d][v].status
    <3>1. CASE v = u
      BY <1>2, <2>1, <3>1
    <3>2. CASE v # u /\ rows[d][v].parent = u
      <4>1. table[v] = [rows[d][v] EXCEPT !.parent = NoUid]
        BY <3>2
      <4> QED
        BY <1>2, <3>2, <4>1 DEF Row
    <3>3. CASE v # u /\ rows[d][v].parent # u
      BY <1>2, <3>3 DEF Row
    <3> QED
      BY <3>1, <3>2, <3>3
  <2>3. \A w \in Uids : table[w].parent # NoUid => table[table[w].parent].status # "absent"
    <3> SUFFICES ASSUME NEW w \in Uids, table[w].parent # NoUid
                 PROVE  table[table[w].parent].status # "absent"
      OBVIOUS
    <3>1. table[w].parent = rows[d][w].parent /\ table[w].parent # u
      BY <2>2
    <3> HIDE DEF table
    <3>2. table[w].parent \in Uids
      BY <1>3, <3>1
    <3> QED
      BY <1>3, <2>2, <3>1, <3>2
  <2>4. table \in [Uids -> Row]
    BY <2>2
  <2>5. Commits(d, ts, table, {}) /\ minted' \in SUBSET Uids
    BY <1>9 DEF Purge
  <2> HIDE DEF table, LocalTypes
  <2> QED
    BY <2>3, <2>4, <2>5, CommitsType
<1> QED
  BY <1>1, <1>5, <1>6, <1>7, <1>8, <1>9

-----------------------------------------------------------------------------
\* A device's log of events.  That any of them have a first and a last is an
\* invariant, too: every event is later than those before it.

HasLatest(evs) == \E e \in evs : \A f \in evs : e.ts >= f.ts
HasOldest(evs) == \E e \in evs : \A f \in evs : e.ts <= f.ts
Ordered(d) ==
    /\ outbox[d] <= clock[d]
    /\ \A e \in events[d] : e.ts <= clock[d] /\ (e.op = "create" => e.uid \in minted)
    /\ \A e, f \in events[d] : e.ts = f.ts => e = f
    /\ IsFiniteSet(events[d])
    /\ \A evs \in SUBSET events[d] : evs # {} => HasLatest(evs) /\ HasOldest(evs)

\* What a transaction of a local program adds to the log.
LEMMA LocalEvents ==
  ASSUME NEW d \in Devices, LocalTypes, Local(d)
  PROVE  /\ clock'[d] \in Nat /\ clock'[d] > clock[d]
         /\ minted \subseteq minted'
         /\ \/ events'[d] = events[d]
            \/ \E e \in Event : /\ events'[d] = events[d] \cup {e} /\ e.ts = clock'[d]
                                /\ e.op = "create" => e.uid \in minted'
         /\ \A c \in Devices : c # d => clock'[c] = clock[c] /\ events'[c] = events[c]
         /\ UNCHANGED <<log, cursors, run, faults>>
<1>1. /\ clock \in [Devices -> 0..MaxTs] /\ events \in [Devices -> SUBSET Event]
  BY DEF LocalTypes
<1>2. PICK u \in Uids, ts \in 1..MaxTs :
        \/ \E public \in BOOLEAN : Create(d, u, ts, public)
        \/ \E v \in Uids : Succeeds(d, u, v, ts)
        \/ Retire(d, u, ts) \/ Forget(d, u, ts) \/ Purge(d, u, ts)
  BY DEF Local
<1>3. /\ minted \subseteq minted'
      /\ \E table : \/ Commits(d, ts, table, {})
                    \/ \E op \in {"create", "tombstone"}, v \in Uids :
                         /\ Commits(d, ts, table, Logged(op, v, ts))
                         /\ op = "create" => v \in minted'
  BY <1>2 DEF Create, Succeeds, Retire, Forget, Purge
<1>4. PICK evs : /\ clock' = [clock EXCEPT ![d] = ts] /\ ts > clock[d]
                 /\ events' = [events EXCEPT ![d] = @ \cup evs]
                 /\ \/ evs = {}
                    \/ \E op \in {"create", "tombstone"}, v \in Uids :
                         evs = Logged(op, v, ts) /\ (op = "create" => v \in minted')
  BY <1>3 DEF Commits, Now
<1>5. /\ clock'[d] = ts /\ ts \in Nat /\ events'[d] = events[d] \cup evs
      /\ \A c \in Devices : c # d => clock'[c] = clock[c] /\ events'[c] = events[c]
  BY <1>1, <1>4, SyncBoundsAssumption
<1>6. \/ events'[d] = events[d]
      \/ \E e \in Event : /\ events'[d] = events[d] \cup {e} /\ e.ts = clock'[d]
                          /\ e.op = "create" => e.uid \in minted'
  <2>1. CASE evs = {}
    BY <1>5, <2>1
  <2>2. ASSUME NEW op \in {"create", "tombstone"}, NEW v \in Uids,
               evs = Logged(op, v, ts), op = "create" => v \in minted'
        PROVE  \E e \in Event : /\ events'[d] = events[d] \cup {e} /\ e.ts = clock'[d]
                                /\ e.op = "create" => e.uid \in minted'
    <3> DEFINE e == [op |-> op, uid |-> v, ts |-> ts]
    <3>1. e \in Event /\ e.ts = ts /\ e.op = op /\ e.uid = v /\ evs = {e}
      BY <2>2 DEF Event, Logged
    <3> HIDE DEF e
    <3> QED
      BY <1>5, <2>2, <3>1
  <2> QED
    BY <1>4, <2>1, <2>2
<1> QED
  BY <1>3, <1>4, <1>5, <1>6 DEF Local

LEMMA LocalOrdered ==
  ASSUME NEW d \in Devices, LocalTypes, CommandTypes, Local(d),
         NEW c \in Devices, Ordered(c)
  PROVE  Ordered(c)'
<1>1. /\ clock \in [Devices -> 0..MaxTs] /\ events \in [Devices -> SUBSET Event]
      /\ outbox \in [Devices -> 0..MaxTs]
      /\ minted \subseteq minted' /\ outbox' = outbox
  BY LocalEvents DEF LocalTypes, CommandTypes, cursors
<1>2. CASE events'[c] = events[c]
  <2>1. clock'[c] >= clock[c] /\ clock'[c] \in Nat
    BY <1>1, LocalEvents, SyncBoundsAssumption
  <2>2. \A e \in events[c] : e.ts \in Nat
    BY <1>1, SyncBoundsAssumption DEF Event
  <2>3. outbox'[c] <= clock'[c]
    BY <1>1, <2>1, SyncBoundsAssumption DEF Ordered
  <2>4. \A e \in events'[c] : e.ts <= clock'[c] /\ (e.op = "create" => e.uid \in minted')
    BY <1>1, <1>2, <2>1, <2>2, SyncBoundsAssumption DEF Ordered
  <2> QED
    BY <1>2, <2>3, <2>4 DEF Ordered, HasLatest, HasOldest
<1>3. CASE c = d /\ events'[c] # events[c]
  <2>1. PICK e \in Event : /\ events'[c] = events[c] \cup {e} /\ e.ts = clock'[c]
                           /\ e.op = "create" => e.uid \in minted'
    BY <1>3, LocalEvents
  <2>2. /\ clock'[c] > clock[c] /\ clock'[c] \in Nat /\ clock[c] \in Nat /\ outbox[c] \in Nat
    BY <1>1, <1>3, LocalEvents, SyncBoundsAssumption
  <2>3. \A f \in events[c] : f.ts \in Nat /\ f.ts < e.ts
    BY <1>1, <2>1, <2>2, SyncBoundsAssumption DEF Ordered, Event
  <2>4. outbox'[c] <= clock'[c]
    BY <1>1, <2>2 DEF Ordered
  <2>5. \A f \in events'[c] : f.ts <= clock'[c] /\ (f.op = "create" => f.uid \in minted')
    BY <1>1, <2>1, <2>2, <2>3 DEF Ordered
  <2>6. \A f, g \in events'[c] : f.ts = g.ts => f = g
    BY <2>1, <2>3 DEF Ordered
  <2>7. IsFiniteSet(events'[c])
    BY <2>1, FS_AddElement DEF Ordered
  <2>8. ASSUME NEW evs \in SUBSET events'[c], evs # {}
        PROVE  HasLatest(evs) /\ HasOldest(evs)
    <3>0. e.ts \in Nat
      BY <2>1, <2>2
    <3>1. CASE e \notin evs
      BY <2>1, <2>8, <3>1 DEF Ordered
    <3>2. CASE evs = {e}
      BY <3>0, <3>2 DEF HasLatest, HasOldest
    <3>3. CASE e \in evs /\ evs \ {e} # {}
      <4>1. evs \ {e} \in SUBSET events[c]
        BY <2>1
      <4>2. PICK f \in evs \ {e} : \A g \in evs \ {e} : f.ts <= g.ts
        BY <3>3, <4>1 DEF Ordered, HasOldest
      <4>3. f.ts <= e.ts
        BY <2>3, <3>0, <4>1, <4>2
      <4>4. HasOldest(evs)
        BY <4>2, <4>3 DEF HasOldest
      <4>5. \A g \in evs : e.ts >= g.ts
        BY <2>3, <3>0, <4>1
      <4> QED
        BY <3>3, <4>4, <4>5 DEF HasLatest
    <3> QED
      BY <2>8, <3>1, <3>2, <3>3
  <2> QED
    BY <2>4, <2>5, <2>6, <2>7, <2>8 DEF Ordered, HasLatest, HasOldest
<1> QED
  BY <1>2, <1>3, LocalEvents

\* A page holds every event up to the cursor it leads to.
LEMMA PageFacts ==
  ASSUME LocalTypes, CommandTypes, NEW d \in Devices, Ordered(d), After(d) # {}
  PROVE  /\ Page(d) # {} /\ Page(d) \subseteq events[d]
         /\ NextCursor(d) \in Nat /\ NextCursor(d) <= clock[d]
         /\ \A e \in After(d) : e.ts <= NextCursor(d) => e \in Page(d)
<1> DEFINE upto(e) == {f \in After(d) : f.ts <= e.ts}
<1>1. /\ After(d) \in SUBSET events[d] /\ IsFiniteSet(events[d])
      /\ \A e \in events[d] : e.ts \in Nat /\ e.ts <= clock[d]
  BY SyncBoundsAssumption DEF After, Ordered, LocalTypes, Event
<1>2. \A e : upto(e) \in SUBSET After(d)
  OBVIOUS
<1>3. IsFiniteSet(After(d)) /\ \A e : IsFiniteSet(upto(e)) /\ Cardinality(upto(e)) \in Nat
  BY <1>1, <1>2, FS_Subset, FS_CardinalityType
<1>4. Page(d) = {e \in After(d) : Cardinality(upto(e)) <= PageSize}
  BY DEF Page
<1>5. Page(d) # {}
  <2>1. PICK e \in After(d) : \A f \in After(d) : e.ts <= f.ts
    BY <1>1 DEF Ordered, HasOldest
  <2>2. upto(e) = {e}
    <3>1. \A f \in upto(e) : f.ts = e.ts
      BY <1>1, <2>1
    <3>2. \A f \in upto(e) : f = e
      BY <1>1, <3>1 DEF Ordered
    <3>3. e \in upto(e)
      BY <1>1
    <3> QED
      BY <3>2, <3>3
  <2>3. Cardinality(upto(e)) = 1
    BY <2>2, FS_Singleton
  <2> QED
    BY <1>4, <2>3, PageSizeAssumption
<1>6. Page(d) \in SUBSET events[d]
  BY <1>1, <1>4
<1>7. Latest(Page(d)) \in Page(d) /\ \A f \in Page(d) : Latest(Page(d)).ts >= f.ts
  BY <1>5, <1>6 DEF Ordered, HasLatest, Latest
<1>8. ASSUME NEW e \in After(d), e.ts <= NextCursor(d)
      PROVE  e \in Page(d)
  <2> DEFINE last == Latest(Page(d))
  <2>1. last \in After(d) /\ Cardinality(upto(last)) <= PageSize
    BY <1>4, <1>7
  <2>2. upto(e) \in SUBSET upto(last)
    BY <1>1, <1>8, <2>1 DEF NextCursor
  <2>3. Cardinality(upto(e)) <= Cardinality(upto(last))
    BY <1>3, <2>2, FS_Subset
  <2>4. Cardinality(upto(e)) <= PageSize
    BY <1>3, <2>1, <2>3, PageSizeAssumption
  <2> QED
    BY <1>4, <2>4
<1> QED
  BY <1>1, <1>5, <1>6, <1>7, <1>8 DEF NextCursor

-----------------------------------------------------------------------------
\* What a command holds in memory.

\* A command that is in state s on device d.
Progress(s, d) ==
    /\ s.page \subseteq events[d]
    /\ s.at = "fetch" => s.page # {}
    /\ s.at \in {"fetch", "send", "drain"} => s.next <= clock[d]
    /\ s.at \in {"decide", "apply"} => s.blobs # << >>
    /\ s.at = "apply" /\ s.plan # "retire" => Head(s.blobs).op = "create"

Working ==
    /\ TypeOK
    /\ \A d \in Devices : Ordered(d)
    /\ \A r \in Runs : Progress(run[r], Home[r])

LEMMA IdleProgress ==
  ASSUME NEW d \in Devices
  PROVE  Progress(Idle, d)
  BY DEF Progress, Idle

LEMMA WorkingInit == Init => Working
<1> SUFFICES ASSUME Init PROVE Working
  OBVIOUS
<1>1. ASSUME NEW d \in Devices
      PROVE  Ordered(d)
  <2>1. events[d] = {} /\ outbox[d] = 0 /\ clock[d] = 0
    BY DEF Init
  <2> QED
    BY <2>1, FS_EmptySet DEF Ordered
<1>2. ASSUME NEW r \in Runs
      PROVE  Progress(run[r], Home[r])
  BY IdleProgress, RunsAssumption DEF Init
<1> QED
  BY <1>1, <1>2, TypeInit DEF Working

LEMMA WorkingLocal ==
  ASSUME Working, NEW d \in Devices, Local(d)
  PROVE  Working'
<1>1. LocalTypes /\ CommandTypes
  BY TypeParts DEF Working
<1>2. UNCHANGED <<log, outbox, seen, run, faults>>
  BY <1>1, LocalEvents DEF cursors
<1>3. TypeOK'
  <2>1. LocalTypes'
    BY <1>1, LocalType
  <2>2. CommandTypes'
    BY <1>1, <1>2 DEF CommandTypes
  <2> QED
    BY <2>1, <2>2, TypeParts DEF TypeOK, LocalTypes, CommandTypes, Referenced
<1>4. \A c \in Devices : Ordered(c)'
  BY <1>1, LocalOrdered DEF Working
<1>5. ASSUME NEW r \in Runs
      PROVE  Progress(run[r], Home[r])'
  <2>1. Home[r] \in Devices /\ run[r] \in RunState /\ run'[r] = run[r]
    BY <1>1, <1>2, RunsAssumption DEF CommandTypes
  <2>2. clock[Home[r]] \in Nat /\ run[r].next \in Nat
    BY <1>1, <2>1, SyncBoundsAssumption DEF LocalTypes, RunState
  <2>3. /\ events[Home[r]] \subseteq events'[Home[r]]
        /\ clock'[Home[r]] \in Nat /\ clock'[Home[r]] >= clock[Home[r]]
    BY <1>1, <2>1, <2>2, LocalEvents
  <2>4. Progress(run[r], Home[r])
    BY DEF Working
  <2> QED
    BY <2>1, <2>2, <2>3, <2>4 DEF Progress
<1> QED
  BY <1>3, <1>4, <1>5 DEF Working

\* One step of a command: its state, and what it writes to the cursors, the
\* relay or the rows.
LEMMA Stepped ==
  ASSUME Working, NEW r \in Runs, NEW state \in RunState,
         Becomes(r, state), Progress(state, Home[r]),
         events' = events /\ clock' = clock /\ minted' = minted,
         LocalTypes', log' \in Seq(Envelope), faults' \in 0..MaxFaults,
         seen' \in [Devices -> Nat],
         \/ outbox' = outbox
         \/ outbox' = [outbox EXCEPT ![Home[r]] = run[r].next]
            /\ run[r].at = "drain"
  PROVE  Working'
<1>1. /\ run \in [Runs -> RunState] /\ outbox \in [Devices -> 0..MaxTs]
      /\ clock \in [Devices -> 0..MaxTs] /\ Home[r] \in Devices
  BY RunsAssumption DEF Working, TypeOK
<1>2. /\ run' \in [Runs -> RunState] /\ run'[r] = state
      /\ \A q \in Runs : q # r => run'[q] = run[q]
  BY <1>1 DEF Becomes
<1>3. outbox' \in [Devices -> 0..MaxTs] /\ \A d \in Devices : outbox'[d] <= clock[d]
  <2>1. \A d \in Devices : outbox[d] <= clock[d]
    BY DEF Working, Ordered
  <2>2. CASE outbox' = outbox
    BY <1>1, <2>1, <2>2
  <2>3. CASE outbox' = [outbox EXCEPT ![Home[r]] = run[r].next] /\ run[r].at = "drain"
    <3>1. run[r].next \in Nat /\ run[r].next <= clock[Home[r]]
      BY <1>1, <2>3 DEF Working, Progress, RunState
    <3>2. run[r].next \in 0..MaxTs
      BY <1>1, <3>1, SyncBoundsAssumption
    <3> QED
      BY <1>1, <2>1, <2>3, <3>1, <3>2
  <2> QED
    BY <2>2, <2>3
<1>4. TypeOK'
  <2>1. CommandTypes'
    BY <1>2, <1>3 DEF CommandTypes
  <2> QED
    BY <2>1, TypeParts DEF TypeOK, LocalTypes, CommandTypes, Referenced
<1>5. ASSUME NEW d \in Devices
      PROVE  Ordered(d)'
  BY <1>3 DEF Working, Ordered, HasLatest, HasOldest
<1>6. ASSUME NEW q \in Runs
      PROVE  Progress(run[q], Home[q])'
  <2>1. Progress(run'[q], Home[q])
    BY <1>2 DEF Working
  <2> QED
    BY <2>1 DEF Progress
<1> QED
  BY <1>4, <1>5, <1>6 DEF Working

\* What the relay answers.
LEMMA SinceType ==
  ASSUME log \in Seq(Envelope), NEW c \in Nat
  PROVE  /\ Since(c) \in Seq(Envelope) /\ SinceEnd(c) \in Nat
         /\ \A i \in 1..Len(Since(c)) : \E j \in 1..Len(log) : Since(c)[i] = log[j]
<1> DEFINE last == Lesser(c + PageSize, Len(log))
<1>1. last \in Nat /\ last <= Len(log) /\ SinceEnd(c) \in Nat
  BY PageSizeAssumption DEF Lesser, SinceEnd
<1>2. Since(c) = SubSeq(log, c + 1, last)
  BY DEF Since
<1> HIDE DEF last
<1>3. \A i \in (c + 1)..last : log[i] \in Envelope
  BY <1>1
<1>4. /\ SubSeq(log, c + 1, last) \in Seq(Envelope)
      /\ \A i \in 1..Len(SubSeq(log, c + 1, last)) :
           /\ i + c \in 1..Len(log)
           /\ SubSeq(log, c + 1, last)[i] = log[i + c]
  BY <1>1, <1>3
<1> QED
  BY <1>1, <1>2, <1>4

\* A command without its first blob.
LEMMA RestType ==
  ASSUME NEW r \in Runs, run[r] \in RunState, run[r].blobs # << >>
  PROVE  /\ Rest(r) \in RunState /\ Head(run[r].blobs) \in Envelope
         /\ Rest(r).blobs = Tail(run[r].blobs)
         /\ Rest(r).page = run[r].page /\ Rest(r).next = run[r].next
         /\ Rest(r).at \in {"decide", "finish"}
         /\ Rest(r).at = "decide" => Rest(r).blobs # << >>
<1> DEFINE blobs == run[r].blobs
           at == IF Len(blobs) = 1 THEN "finish" ELSE "decide"
<1>1. blobs \in Seq(Envelope) /\ Len(blobs) # 0
  BY DEF RunState
<1>2. Head(blobs) \in Envelope /\ Tail(blobs) \in Seq(Envelope) /\ Len(Tail(blobs)) = Len(blobs) - 1
  BY <1>1
<1>3. at = "decide" => Tail(blobs) # << >>
  <2>1. Len(blobs) # 1 => Len(Tail(blobs)) # 0
    BY <1>1, <1>2
  <2>2. Len(blobs) # 1 => Tail(blobs) # << >>
    BY <2>1
  <2>3. at = "decide" => Len(blobs) # 1
    OBVIOUS
  <2> QED
    BY <2>2, <2>3
<1>4. Rest(r) = [run[r] EXCEPT !.blobs = Tail(blobs), !.at = at]
  BY DEF Rest
<1> HIDE DEF blobs, at
<1>5. at \in {"decide", "finish"}
  BY DEF at
<1>6. /\ Rest(r) \in RunState /\ Rest(r).blobs = Tail(blobs) /\ Rest(r).at = at
      /\ Rest(r).page = run[r].page /\ Rest(r).next = run[r].next
  BY <1>2, <1>4, <1>5 DEF RunState
<1> QED
  BY <1>2, <1>3, <1>5, <1>6 DEF blobs

\* A row of a memory that may be synchronised.
Live(row) == row.status = "active" /\ row.open /\ row.public

\* What one envelope does to the rows of a device.
LEMMA ReplacedType ==
  ASSUME LocalTypes, NEW d \in Devices, NEW env \in Envelope,
         NEW plan \in Plans \ {"retire"}, NEW target \in Uids \cup {NoUid},
         Fits(d, env, plan), NEW table, table = Replaced(d, env, plan, target)
  PROVE  /\ table \in [Uids -> Row]
         /\ \A u \in Uids : table[u].parent # NoUid => table[table[u].parent].status # "absent"
         /\ \A u \in Uids : u # env.uid /\ Live(table[u]) => Live(rows[d][u])
<1> DEFINE anchor == Anchor(env, plan)
<1>1. /\ rows[d] \in [Uids -> Row] /\ env.uid \in Uids /\ env.ts \in 0..MaxTs
      /\ env.parent \in Uids \cup {NoUid}
      /\ \A u \in Uids : rows[d][u].parent # NoUid =>
           rows[d][u].parent \in Uids /\ rows[d][rows[d][u].parent].status # "absent"
  BY DEF LocalTypes, Envelope, Referenced, Row
<1>2. /\ anchor \in Uids \cup {NoUid}
      /\ anchor # NoUid => anchor \in Uids /\ rows[d][anchor].status # "absent"
  BY <1>1 DEF Anchor, Fits, Known
<1> HIDE DEF anchor
<1>3. /\ Version(anchor, env.ts, TRUE) \in Row
      /\ Version(anchor, env.ts, TRUE).parent = anchor
      /\ Version(anchor, env.ts, TRUE).status = "active"
  BY <1>1, <1>2, VersionType
<1>4. ASSUME NEW row \in Row
      PROVE  /\ [row EXCEPT !.open = FALSE] \in Row
             /\ [row EXCEPT !.open = FALSE].parent = row.parent
             /\ [row EXCEPT !.open = FALSE].status = row.status
             /\ [row EXCEPT !.open = FALSE].public = row.public
             /\ [row EXCEPT !.open = FALSE].open = FALSE
  BY DEF Row
<1>5. table = [u \in Uids |-> IF u = env.uid THEN Version(anchor, env.ts, TRUE)
                              ELSE IF u = target THEN [rows[d][u] EXCEPT !.open = FALSE]
                              ELSE rows[d][u]]
  BY DEF Replaced, anchor
<1>6. table \in [Uids -> Row]
  <2>1. ASSUME NEW u \in Uids PROVE table[u] \in Row
    <3>1. rows[d][u] \in Row
      BY <1>1
    <3>2. [rows[d][u] EXCEPT !.open = FALSE] \in Row
      BY <1>4, <3>1
    <3> QED
      BY <1>3, <1>5, <3>1, <3>2
  <2> QED
    BY <1>5, <2>1
<1>7. table[env.uid].parent = anchor /\ table[env.uid].status = "active"
  BY <1>1, <1>3, <1>5
<1>8. ASSUME NEW u \in Uids, u # env.uid
      PROVE  /\ table[u].status = rows[d][u].status /\ table[u].parent = rows[d][u].parent
             /\ table[u].public = rows[d][u].public /\ (table[u].open => rows[d][u].open)
  <2>1. rows[d][u] \in Row
    BY <1>1
  <2>2. table[u] = rows[d][u] \/ table[u] = [rows[d][u] EXCEPT !.open = FALSE]
    BY <1>5, <1>8
  <2> QED
    BY <1>4, <2>1, <2>2
<1>9. ASSUME NEW u \in Uids, table[u].parent # NoUid
      PROVE  table[table[u].parent].status # "absent"
  <2>1. table[u].parent \in Uids /\ rows[d][table[u].parent].status # "absent"
    BY <1>1, <1>2, <1>7, <1>8, <1>9
  <2> QED
    BY <1>7, <1>8, <2>1
<1>10. \A u \in Uids : u # env.uid /\ Live(table[u]) => Live(rows[d][u])
  BY <1>8 DEF Live
<1> QED
  BY <1>6, <1>9, <1>10

LEMMA RetiredType ==
  ASSUME LocalTypes, NEW d \in Devices, NEW u \in Uids,
         NEW table, table = Retired(d, u)
  PROVE  /\ table \in [Uids -> Row]
         /\ \A v \in Uids :
              /\ table[v].parent = rows[d][v].parent
              /\ rows[d][v].status # "absent" => table[v].status # "absent"
              /\ Live(table[v]) => Live(rows[d][v])
<1> DEFINE gone(row) == [row EXCEPT !.status = "tombstone", !.open = FALSE]
<1>1. rows[d] \in [Uids -> Row]
  BY DEF LocalTypes
<1>2. ASSUME NEW row \in Row
      PROVE  /\ gone(row) \in Row /\ gone(row).parent = row.parent
             /\ gone(row).status = "tombstone" /\ ~Live(gone(row))
  BY DEF Row, Live
<1>3. table \in {rows[d], [rows[d] EXCEPT ![u] = gone(rows[d][u])]}
  BY DEF Retired
<1> HIDE DEF gone
<1>4. CASE table = rows[d]
  BY <1>1, <1>4
<1>5. CASE table = [rows[d] EXCEPT ![u] = gone(rows[d][u])]
  <2>1. gone(rows[d][u]) \in Row
    BY <1>1, <1>2
  <2>2. ASSUME NEW v \in Uids
        PROVE  table[v] = IF v = u THEN gone(rows[d][u]) ELSE rows[d][v]
    BY <1>1, <1>5
  <2>3. table \in [Uids -> Row]
    BY <1>1, <1>5, <2>1
  <2>4. ASSUME NEW v \in Uids
        PROVE  /\ table[v].parent = rows[d][v].parent
               /\ rows[d][v].status # "absent" => table[v].status # "absent"
               /\ Live(table[v]) => Live(rows[d][v])
    <3>1. CASE v = u
      <4>1. table[v] = gone(rows[d][v]) /\ rows[d][v] \in Row
        BY <1>1, <2>2, <3>1
      <4> QED
        BY <1>2, <4>1
    <3>2. CASE v # u
      BY <2>2, <3>2
    <3> QED
      BY <3>1, <3>2
  <2> QED
    BY <2>3, <2>4
<1> QED
  BY <1>3, <1>4, <1>5

\* The rows of a device after PullApply, whatever the plan was.
LEMMA AppliedType ==
  ASSUME LocalTypes, NEW d \in Devices, NEW table \in [Uids -> Row],
         rows' = [rows EXCEPT ![d] = table], stale' = [stale EXCEPT ![d] = TRUE],
         \A u \in Uids : table[u].parent # NoUid => table[table[u].parent].status # "absent",
         UNCHANGED <<events, clock, minted, ops>>
  PROVE  LocalTypes'
<1>1. rows' \in [Devices -> [Uids -> Row]] /\ stale' \in [Devices -> BOOLEAN]
  BY DEF LocalTypes
<1>2. rows'[d] = table /\ \A c \in Devices : c # d => rows'[c] = rows[c]
  BY DEF LocalTypes
<1>3. ASSUME NEW c \in Devices, NEW u \in Uids, rows'[c][u].parent # NoUid
      PROVE  rows'[c][rows'[c][u].parent].status # "absent"
  BY <1>2, <1>3 DEF LocalTypes, Referenced
<1>4. Referenced'
  BY <1>3 DEF Referenced
<1> QED
  BY <1>1, <1>4 DEF LocalTypes

\* The type, and the place in its work, of a command after each of its steps.
LEMMA WorkingPushBegin ==
  ASSUME Working, NEW r \in Runs, PushBegin(r)
  PROVE  Working'
<1> DEFINE d == Home[r]
           state == [Idle EXCEPT !.at = "fetch", !.page = Page(d), !.next = NextCursor(d)]
<1>1. d \in Devices /\ After(d) # {} /\ Becomes(r, state)
  BY RunsAssumption DEF PushBegin
<1>2. LocalTypes /\ CommandTypes /\ Ordered(d)
  BY <1>1, TypeParts DEF Working
<1>3. /\ Page(d) # {} /\ Page(d) \subseteq events[d] /\ events[d] \in SUBSET Event
      /\ NextCursor(d) \in Nat /\ NextCursor(d) <= clock[d]
  BY <1>1, <1>2, PageFacts DEF LocalTypes
<1>4. /\ state \in RunState /\ state.at = "fetch"
      /\ state.page = Page(d) /\ state.next = NextCursor(d)
  BY <1>3, IdleType DEF RunState
<1> HIDE DEF state
<1>5. Progress(state, d)
  BY <1>3, <1>4 DEF Progress
<1>6. LocalTypes' /\ UNCHANGED <<log, outbox, seen, events, clock, minted, faults>>
  BY <1>2 DEF PushBegin, LocalTypes, Referenced, store, cursors
<1> QED
  BY <1>1, <1>2, <1>4, <1>5, <1>6, Stepped DEF CommandTypes

LEMMA SealedType ==
  ASSUME LocalTypes, NEW d \in Devices, NEW e \in Event
  PROVE  Sealed(d, e) \in Envelope
<1>1. /\ rows[d][e.uid] \in Row /\ NoUid \in Uids \cup {NoUid} /\ e.ts \in 0..MaxTs
      /\ e.uid \in Uids /\ e.op \in {"create", "tombstone"}
  BY SyncBoundsAssumption DEF LocalTypes, Event
<1>2. rows[d][e.uid].rec \in 0..MaxTs /\ rows[d][e.uid].parent \in Uids \cup {NoUid}
  BY <1>1 DEF Row
<1> QED
  BY <1>1, <1>2 DEF Sealed, Envelope

\* What PushFetch makes of the run: e is the event it takes off the page.
Fetched(r, e) ==
    LET d == Home[r]
        blobs == IF Ships(d, e) THEN Append(run[r].blobs, Sealed(d, e)) ELSE run[r].blobs
        rest == run[r].page \ {e} IN
    [run[r] EXCEPT !.page = rest, !.blobs = blobs,
                   !.at = IF rest # {} THEN "fetch"
                          ELSE IF blobs = << >> THEN "drain" ELSE "send"]

LEMMA FetchFacts ==
  ASSUME Working, NEW r \in Runs, PushFetch(r)
  PROVE  \E e \in run[r].page :
            /\ Becomes(r, Fetched(r, e)) /\ Fetched(r, e) \in RunState
            /\ Fetched(r, e).page = run[r].page \ {e}
            /\ Fetched(r, e).next = run[r].next
            /\ \/ Fetched(r, e).blobs = run[r].blobs /\ ~Ships(Home[r], e)
               \/ /\ Fetched(r, e).blobs = Append(run[r].blobs, Sealed(Home[r], e))
                  /\ Ships(Home[r], e)
            /\ Fetched(r, e).at \in {"fetch", "send", "drain"}
            /\ Fetched(r, e).at = "fetch" <=> run[r].page # {e}
            /\ Fetched(r, e).at = "drain" => Fetched(r, e).blobs = << >>
<1> DEFINE d == Home[r]
           e == Oldest(run[r].page)
           blobs == IF Ships(d, e) THEN Append(run[r].blobs, Sealed(d, e)) ELSE run[r].blobs
           rest == run[r].page \ {e}
           at == IF rest # {} THEN "fetch" ELSE IF blobs = << >> THEN "drain" ELSE "send"
<1>1. /\ d \in Devices /\ Ordered(d) /\ LocalTypes
      /\ run[r] \in RunState /\ run[r].page \subseteq events[d] /\ run[r].page # {}
  BY RunsAssumption, TypeParts DEF Working, CommandTypes, Progress, PushFetch
<1>2. e \in run[r].page /\ e \in Event
  <2>1. HasOldest(run[r].page)
    BY <1>1 DEF Ordered
  <2>2. e \in run[r].page
    BY <2>1 DEF HasOldest, Oldest
  <2> QED
    BY <1>1, <2>2 DEF LocalTypes
<1>3. blobs \in Seq(Envelope)
  <2>1. run[r].blobs \in Seq(Envelope)
    BY <1>1 DEF RunState
  <2>2. Sealed(d, e) \in Envelope
    BY <1>1, <1>2, SealedType
  <2> HIDE DEF e
  <2> QED
    BY <2>1, <2>2
<1>4. Fetched(r, e) = [run[r] EXCEPT !.page = rest, !.blobs = blobs, !.at = at]
  BY DEF Fetched
<1>5. Becomes(r, Fetched(r, e))
  BY <1>4 DEF PushFetch
<1>7. \/ blobs = run[r].blobs /\ ~Ships(d, e)
      \/ blobs = Append(run[r].blobs, Sealed(d, e)) /\ Ships(d, e)
  OBVIOUS
<1>8. rest \subseteq Event /\ (rest # {} <=> run[r].page # {e})
  BY <1>1, <1>2 DEF RunState
<1> HIDE DEF e, blobs, rest
<1>6. /\ at \in {"fetch", "send", "drain"} /\ (at = "fetch" <=> rest # {})
      /\ at = "drain" => blobs = << >>
  OBVIOUS
<1> HIDE DEF at
<1>9. /\ Fetched(r, e) \in RunState
      /\ Fetched(r, e).page = rest /\ Fetched(r, e).next = run[r].next
      /\ Fetched(r, e).blobs = blobs /\ Fetched(r, e).at = at
  <2> DEFINE become(s, p, b, a) == [s EXCEPT !.page = p, !.blobs = b, !.at = a]
  <2>1. ASSUME NEW s \in RunState, NEW p \in SUBSET Event, NEW b \in Seq(Envelope),
               NEW a \in {"fetch", "send", "drain"}
        PROVE  /\ become(s, p, b, a) \in RunState
               /\ become(s, p, b, a).page = p /\ become(s, p, b, a).next = s.next
               /\ become(s, p, b, a).blobs = b /\ become(s, p, b, a).at = a
    BY DEF RunState
  <2>2. Fetched(r, e) = become(run[r], rest, blobs, at)
    BY <1>4
  <2> HIDE DEF become
  <2> QED
    BY <1>1, <1>3, <1>6, <1>8, <2>1, <2>2
<1>10. rest = run[r].page \ {e}
  BY DEF rest
<1> HIDE DEF d
<1> QED
  BY <1>2, <1>5, <1>6, <1>7, <1>8, <1>9, <1>10 DEF d

LEMMA WorkingPushFetch ==
  ASSUME Working, NEW r \in Runs, PushFetch(r)
  PROVE  Working'
<1>1. PICK e \in run[r].page :
         /\ Becomes(r, Fetched(r, e)) /\ Fetched(r, e) \in RunState
         /\ Fetched(r, e).page = run[r].page \ {e}
         /\ Fetched(r, e).next = run[r].next
         /\ Fetched(r, e).at \in {"fetch", "send", "drain"}
         /\ Fetched(r, e).at = "fetch" <=> run[r].page # {e}
  BY FetchFacts
<1>2. LocalTypes /\ CommandTypes /\ Progress(run[r], Home[r])
  BY TypeParts DEF Working
<1>3. Progress(Fetched(r, e), Home[r])
  BY <1>1, <1>2 DEF Progress, PushFetch
<1>4. LocalTypes' /\ UNCHANGED <<log, outbox, seen, events, clock, minted, faults>>
  BY <1>2 DEF PushFetch, LocalTypes, Referenced, store, cursors
<1> QED
  BY <1>1, <1>2, <1>3, <1>4, Stepped DEF CommandTypes

\* A command that ends, in whatever way.
LEMMA WorkingStop ==
  ASSUME Working, NEW r \in Runs, Becomes(r, Idle),
         UNCHANGED <<events, clock, minted>>, LocalTypes',
         log' \in Seq(Envelope), faults' \in 0..MaxFaults,
         seen' \in [Devices -> Nat],
         \/ outbox' = outbox
         \/ outbox' = [outbox EXCEPT ![Home[r]] = run[r].next] /\ run[r].at = "drain"
  PROVE  Working'
<1>1. Idle \in RunState /\ Progress(Idle, Home[r])
  BY IdleType, IdleProgress, RunsAssumption
<1> QED
  BY <1>1, Stepped

LEMMA WorkingPushSend ==
  ASSUME Working, NEW r \in Runs, PushSend(r)
  PROVE  Working'
<1> DEFINE state == [run[r] EXCEPT !.at = "drain"]
<1>1. LocalTypes /\ CommandTypes /\ Progress(run[r], Home[r]) /\ run[r] \in RunState
  BY TypeParts DEF Working, CommandTypes
<1>2. LocalTypes' /\ UNCHANGED <<outbox, seen, events, clock, minted>>
  BY <1>1 DEF PushSend, LocalTypes, Referenced, store, cursors
<1>3. log' \in Seq(Envelope)
  BY <1>1 DEF PushSend, AppendBlobs, CommandTypes, RunState
<1>4. CASE Becomes(r, state) /\ UNCHANGED faults
  <2>1. state \in RunState /\ state.at = "drain" /\ state.page = run[r].page
        /\ state.next = run[r].next
    BY <1>1 DEF RunState
  <2> HIDE DEF state
  <2>2. Progress(state, Home[r])
    BY <1>1, <2>1 DEF Progress, PushSend
  <2> QED
    BY <1>1, <1>2, <1>3, <1>4, <2>1, <2>2, Stepped DEF CommandTypes
<1>5. CASE Becomes(r, Idle) /\ faults < MaxFaults /\ faults' = faults + 1
  BY <1>1, <1>2, <1>3, <1>5, SyncBoundsAssumption, WorkingStop DEF CommandTypes
<1> QED
  BY <1>4, <1>5 DEF PushSend

LEMMA WorkingPushDrain ==
  ASSUME Working, NEW r \in Runs, PushDrain(r)
  PROVE  Working'
<1>1. LocalTypes /\ CommandTypes
  BY TypeParts DEF Working
<1>2. LocalTypes' /\ UNCHANGED <<log, seen, events, clock, minted, faults>>
  BY <1>1 DEF PushDrain, LocalTypes, Referenced, store
<1> QED
  BY <1>1, <1>2, WorkingStop DEF PushDrain, CommandTypes

LEMMA WorkingPullBegin ==
  ASSUME Working, NEW r \in Runs, PullBegin(r)
  PROVE  Working'
<1> DEFINE c == seen[Home[r]]
           at == IF Since(c) = << >> THEN "finish" ELSE "decide"
           state == [Idle EXCEPT !.at = at, !.blobs = Since(c), !.next = SinceEnd(c)]
<1>1. LocalTypes /\ CommandTypes /\ Home[r] \in Devices
  BY RunsAssumption, TypeParts DEF Working
<1>2. Since(c) \in Seq(Envelope) /\ SinceEnd(c) \in Nat
  BY <1>1, SinceType DEF CommandTypes
<1>3. Becomes(r, state)
  BY DEF PullBegin
<1>4. at \in {"finish", "decide"} /\ (at = "decide" => Since(c) # << >>)
  OBVIOUS
<1> HIDE DEF at
<1>5. state \in RunState /\ state.at = at /\ state.blobs = Since(c) /\ state.page = {}
  BY <1>2, <1>4, IdleType DEF RunState, Idle
<1> HIDE DEF state
<1>6. Progress(state, Home[r])
  BY <1>4, <1>5 DEF Progress
<1>7. LocalTypes' /\ UNCHANGED <<log, outbox, seen, events, clock, minted, faults>>
  BY <1>1 DEF PullBegin, LocalTypes, Referenced, store, cursors
<1> QED
  BY <1>1, <1>3, <1>5, <1>6, <1>7, Stepped DEF CommandTypes

\* An envelope is passed over.
LEMMA RestProgress ==
  ASSUME Working, NEW r \in Runs, run[r].at \in {"decide", "apply"}
  PROVE  /\ Rest(r) \in RunState /\ Progress(Rest(r), Home[r])
         /\ Head(run[r].blobs) \in Envelope
<1>1. run[r] \in RunState /\ Progress(run[r], Home[r])
  BY TypeParts DEF Working, CommandTypes
<1>2. run[r].blobs # << >>
  BY <1>1 DEF Progress
<1> QED
  BY <1>1, <1>2, RestType DEF Progress

LEMMA WorkingPullDecide ==
  ASSUME Working, NEW r \in Runs, PullDecide(r)
  PROVE  Working'
<1>1. LocalTypes /\ CommandTypes /\ run[r] \in RunState /\ Progress(run[r], Home[r])
  BY TypeParts DEF Working, CommandTypes
<1>2. LocalTypes' /\ UNCHANGED <<log, outbox, seen, events, clock, minted, faults>>
  BY <1>1 DEF PullDecide, LocalTypes, Referenced, store, cursors
<1>3. CASE Becomes(r, Rest(r))
  BY <1>1, <1>2, <1>3, RestProgress, Stepped DEF CommandTypes, PullDecide
<1>4. ASSUME NEW plan \in Plans, NEW target \in Uids \cup {NoUid},
             Decision(Home[r], Head(run[r].blobs), plan, target),
             Becomes(r, [run[r] EXCEPT !.at = "apply", !.plan = plan, !.target = target])
      PROVE  Working'
  <2> DEFINE state == [run[r] EXCEPT !.at = "apply", !.plan = plan, !.target = target]
  <2>1. /\ state \in RunState /\ state.at = "apply" /\ state.plan = plan
        /\ state.blobs = run[r].blobs /\ state.page = run[r].page
    BY <1>1 DEF RunState
  <2>2. plan # "retire" => Head(run[r].blobs).op = "create"
    BY <1>4 DEF Decision, New
  <2>3. Becomes(r, state)
    BY <1>4
  <2> HIDE DEF state
  <2>4. Progress(state, Home[r])
    BY <1>1, <2>1, <2>2 DEF Progress, PullDecide
  <2> QED
    BY <1>1, <1>2, <2>1, <2>3, <2>4, Stepped DEF CommandTypes
<1> QED
  BY <1>3, <1>4 DEF PullDecide

\* The new rows of PullApply's device.
Applied(r) ==
    LET d == Home[r]
        env == Head(run[r].blobs) IN
    IF run[r].plan = "retire" THEN Retired(d, env.uid)
    ELSE Replaced(d, env, run[r].plan, run[r].target)

LEMMA WorkingPullApply ==
  ASSUME Working, NEW r \in Runs, PullApply(r)
  PROVE  Working'
<1> DEFINE d == Home[r]
           env == Head(run[r].blobs)
           state == [Rest(r) EXCEPT !.applied = TRUE]
<1>1. /\ LocalTypes /\ CommandTypes /\ run[r] \in RunState /\ d \in Devices
  BY RunsAssumption, TypeParts DEF Working, CommandTypes
<1>2. Rest(r) \in RunState /\ Progress(Rest(r), d) /\ env \in Envelope
  BY RestProgress DEF PullApply
<1>3. /\ Fits(d, env, run[r].plan) /\ Becomes(r, state)
      /\ rows' = [rows EXCEPT ![d] = Applied(r)]
      /\ stale' = [stale EXCEPT ![d] = TRUE]
      /\ UNCHANGED <<log, events, clock, minted, ops, outbox, seen, faults>>
  BY DEF PullApply, Applied, cursors
<1>4. /\ Applied(r) \in [Uids -> Row]
      /\ \A u \in Uids : Applied(r)[u].parent # NoUid =>
           Applied(r)[Applied(r)[u].parent].status # "absent"
  <2>1. CASE run[r].plan = "retire"
    <3>1. env.uid \in Uids /\ Applied(r) = Retired(d, env.uid)
      BY <1>2, <2>1 DEF Envelope, Applied
    <3>2. /\ Applied(r) \in [Uids -> Row]
          /\ \A v \in Uids :
               /\ Applied(r)[v].parent = rows[d][v].parent
               /\ rows[d][v].status # "absent" => Applied(r)[v].status # "absent"
      <4> HIDE DEF d, env
      <4> QED
        BY <1>1, <3>1, RetiredType
    <3>3. \A u \in Uids : rows[d][u].parent # NoUid =>
            rows[d][u].parent \in Uids /\ rows[d][rows[d][u].parent].status # "absent"
      BY <1>1 DEF LocalTypes, Referenced, Row
    <3>4. ASSUME NEW u \in Uids, Applied(r)[u].parent # NoUid
          PROVE  Applied(r)[Applied(r)[u].parent].status # "absent"
      <4> HIDE DEF d, env
      <4>1. /\ Applied(r)[u].parent \in Uids
            /\ rows[d][Applied(r)[u].parent].status # "absent"
        BY <3>2, <3>3, <3>4
      <4> QED
        BY <3>2, <4>1
    <3> QED
      BY <3>2, <3>4
  <2>2. CASE run[r].plan # "retire"
    <3>1. /\ run[r].plan \in Plans \ {"retire"} /\ run[r].target \in Uids \cup {NoUid}
          /\ Applied(r) = Replaced(d, env, run[r].plan, run[r].target)
      BY <1>1, <2>2 DEF RunState, Applied
    <3>2. LocalTypes /\ d \in Devices /\ env \in Envelope /\ Fits(d, env, run[r].plan)
      BY <1>1, <1>2, <1>3
    <3> HIDE DEF d, env
    <3> QED
      BY <3>1, <3>2, ReplacedType
  <2> QED
    BY <2>1, <2>2
<1>5. LocalTypes'
  BY <1>1, <1>3, <1>4, AppliedType
<1>6. /\ state \in RunState /\ state.at = Rest(r).at /\ state.page = Rest(r).page
      /\ state.next = Rest(r).next /\ state.blobs = Rest(r).blobs /\ state.plan = Rest(r).plan
  BY <1>2 DEF RunState
<1> HIDE DEF state
<1>7. Progress(state, d)
  BY <1>2, <1>6 DEF Progress
<1> QED
  BY <1>1, <1>3, <1>5, <1>6, <1>7, Stepped DEF CommandTypes

LEMMA WorkingPullSkip ==
  ASSUME Working, NEW r \in Runs, PullSkip(r)
  PROVE  Working'
<1>1. LocalTypes /\ CommandTypes
  BY TypeParts DEF Working
<1>2. LocalTypes' /\ UNCHANGED <<log, outbox, seen, events, clock, minted>>
  BY <1>1 DEF PullSkip, LocalTypes, Referenced, store, cursors
<1>3. Rest(r) \in RunState /\ Progress(Rest(r), Home[r]) /\ Becomes(r, Rest(r))
  BY RestProgress DEF PullSkip
<1>4. faults' \in 0..MaxFaults
  BY <1>1, SyncBoundsAssumption DEF PullSkip, CommandTypes
<1> QED
  BY <1>1, <1>2, <1>3, <1>4, Stepped DEF CommandTypes

LEMMA WorkingPullFinish ==
  ASSUME Working, NEW r \in Runs, PullFinish(r)
  PROVE  Working'
<1>1. LocalTypes /\ CommandTypes /\ Home[r] \in Devices /\ run[r].next \in Nat
  BY RunsAssumption, TypeParts DEF Working, CommandTypes, RunState
<1>2. /\ Becomes(r, Idle) /\ UNCHANGED <<log, rows, events, clock, minted, ops, outbox, faults>>
      /\ seen' = [seen EXCEPT ![Home[r]] = run[r].next]
      /\ stale' \in {stale, [stale EXCEPT ![Home[r]] = FALSE]}
  BY DEF PullFinish
<1>3. LocalTypes'
  BY <1>1, <1>2 DEF LocalTypes, Referenced
<1>4. seen' \in [Devices -> Nat]
  BY <1>1, <1>2 DEF CommandTypes
<1> QED
  BY <1>1, <1>2, <1>3, <1>4, WorkingStop DEF CommandTypes

LEMMA WorkingCrash ==
  ASSUME Working, NEW r \in Runs, Crash(r)
  PROVE  Working'
<1>1. LocalTypes /\ CommandTypes
  BY TypeParts DEF Working
<1>2. LocalTypes' /\ UNCHANGED <<log, outbox, seen, events, clock, minted>>
  BY <1>1 DEF Crash, LocalTypes, Referenced, store, cursors
<1>3. faults' \in 0..MaxFaults /\ Becomes(r, Idle)
  BY <1>1, SyncBoundsAssumption DEF Crash, CommandTypes
<1> QED
  BY <1>1, <1>2, <1>3, WorkingStop DEF CommandTypes

LEMMA WorkingStep == Working /\ [Next]_syncVars => Working'
<1> SUFFICES ASSUME Working, [Next]_syncVars PROVE Working'
  OBVIOUS
<1>1. ASSUME NEW d \in Devices, Local(d) PROVE Working'
  BY <1>1, WorkingLocal
<1>2. ASSUME NEW r \in Runs, Sync(r) PROVE Working'
  BY <1>2, WorkingPushBegin, WorkingPushFetch, WorkingPushSend, WorkingPushDrain,
     WorkingPullBegin, WorkingPullDecide, WorkingPullApply, WorkingPullSkip,
     WorkingPullFinish DEF Sync
<1>3. ASSUME NEW r \in Runs, Crash(r) PROVE Working'
  BY <1>3, WorkingCrash
<1>4. CASE UNCHANGED syncVars
  <2>1. UNCHANGED <<log, rows, events, outbox, seen, stale, clock, minted, run, ops, faults>>
    BY <1>4 DEF syncVars, store, cursors
  <2> QED
    BY <2>1 DEF Working, TypeOK, Ordered, HasLatest, HasOldest, Progress
<1> QED
  BY <1>1, <1>2, <1>3, <1>4 DEF Next

LEMMA SpecWorks == Spec => []Working
  BY WorkingInit, WorkingStep, PTL DEF Spec

\* Whatever the devices' programs and the commands do, every field keeps its
\* type, and supersedes_id references a row that is there: an envelope whose
\* parent was purged meanwhile is rolled back (apply_remote).
THEOREM SyncTypeCorrect == Spec => []TypeOK
<1>1. Working => TypeOK
  BY DEF Working
<1> QED
  BY <1>1, SpecWorks, PTL

-----------------------------------------------------------------------------
\* The outbox loses nothing.

OnLog(u) == \E i \in 1..Len(log) : log[i].uid = u /\ log[i].op = "create"

\* Nothing is left to do for event e of device d.
Settled(d, e) == e.op = "create" /\ Syncable(d, e.uid) => OnLog(e.uid)

Carries(s, u) == \E i \in 1..Len(s.blobs) : s.blobs[i].uid = u /\ s.blobs[i].op = "create"

\* Until the answer of the relay, a push holds every event up to the cursor it
\* will store that is not settled, as an event or as a blob.
Pushing(s, d) ==
    /\ s.at \in {"send", "drain"} => s.page = {}
    /\ s.at \in {"fetch", "send", "drain"} =>
         \A e \in events[d] : e.ts <= s.next =>
            \/ Settled(d, e)
            \/ e \in s.page
            \/ s.at # "drain" /\ e.op = "create" /\ Carries(s, e.uid)

\* What a pull inserts is on the relay.
Pulling(s) ==
    s.at \in {"decide", "apply"} =>
        \A i \in 1..Len(s.blobs) : s.blobs[i].op = "create" => OnLog(s.blobs[i].uid)

Lossless ==
    /\ Working /\ Published
    /\ \A r \in Runs : Pushing(run[r], Home[r]) /\ Pulling(run[r])

LEMMA PublishedSettles ==
  Published <=> \A d \in Devices : \A e \in events[d] : e.ts <= outbox[d] => Settled(d, e)
  BY DEF Published, Settled, OnLog

LEMMA IdleKeeps ==
  ASSUME NEW d
  PROVE  Pushing(Idle, d) /\ Pulling(Idle)
  BY DEF Pushing, Pulling, Idle

LEMMA LosslessInit == Init => Lossless
<1> SUFFICES ASSUME Init PROVE Lossless
  OBVIOUS
<1>1. Published
  BY DEF Init, Published
<1>2. \A r \in Runs : Pushing(run[r], Home[r]) /\ Pulling(run[r])
  BY IdleKeeps DEF Init
<1> QED
  BY <1>1, <1>2, WorkingInit DEF Lossless

\* A step takes nothing off the relay, it makes no event unsettled, and a new
\* event is later than the device's clock was.
LogGrows == \A u \in Uids : OnLog(u) => OnLog(u)'
StaysSettled == \A d \in Devices : \A e \in events[d] : Settled(d, e) => Settled(d, e)'
LaterEvents == \A d \in Devices : \A e \in events'[d] : e \in events[d] \/ e.ts > clock[d]
Steady == LogGrows /\ StaysSettled /\ LaterEvents

\* A memory that becomes synchronisable is a new one, or came from the relay.
Emerges == \A d \in Devices : \A u \in minted : Syncable(d, u)' => Syncable(d, u) \/ OnLog(u)

LEMMA SteadyIf ==
  ASSUME Working, LogGrows, LaterEvents, Emerges
  PROVE  Steady
<1>1. ASSUME NEW d \in Devices, NEW e \in events[d], Settled(d, e), e.op = "create",
             Syncable(d, e.uid)'
      PROVE  OnLog(e.uid)'
  <2>1. e.uid \in minted /\ e.uid \in Uids
    BY <1>1, TypeParts DEF Working, Ordered, LocalTypes, Event
  <2>2. OnLog(e.uid)
    BY <1>1, <2>1 DEF Emerges, Settled
  <2> QED
    BY <2>1, <2>2 DEF LogGrows
<1>2. StaysSettled
  BY <1>1 DEF StaysSettled, Settled
<1> QED
  BY <1>2 DEF Steady

LEMMA SteadyLocal ==
  ASSUME Working, NEW d \in Devices, Local(d)
  PROVE  Steady
<1>1. LocalTypes /\ CommandTypes /\ rows[d] \in [Uids -> Row]
  BY TypeParts DEF Working, LocalTypes
<1>2. LogGrows
  BY <1>1, LocalEvents DEF LogGrows, OnLog
<1>3. LaterEvents
  <2>1. ASSUME NEW c \in Devices, NEW e \in events'[c], e \notin events[c]
        PROVE  e.ts > clock[c]
    <3>1. c = d
      BY <1>1, <2>1, LocalEvents
    <3>2. PICK f \in Event : events'[d] = events[d] \cup {f} /\ f.ts = clock'[d]
      BY <1>1, <2>1, <3>1, LocalEvents
    <3> QED
      BY <1>1, <2>1, <3>1, <3>2, LocalEvents
  <2> QED
    BY <2>1 DEF LaterEvents
<1>4. PICK u \in Uids, ts \in 1..MaxTs :
        \/ \E public \in BOOLEAN : Create(d, u, ts, public)
        \/ \E v \in Uids : Succeeds(d, u, v, ts)
        \/ Retire(d, u, ts) \/ Forget(d, u, ts) \/ Purge(d, u, ts)
  BY DEF Local
\* A table in which no memory given out before is current that was not.
<1> DEFINE tame(table) ==
      \A w \in minted : Live(table[w]) => Live(rows[d][w])
<1>5. \E table : rows' = [rows EXCEPT ![d] = table] /\ tame(table)
  <2>0. minted \subseteq Uids /\ \A w \in Uids : rows[d][w] \in Row
    BY <1>1 DEF LocalTypes
  <2>1. ASSUME NEW public \in BOOLEAN, Create(d, u, ts, public)
        PROVE  \E table : rows' = [rows EXCEPT ![d] = table] /\ tame(table)
    <3>1. PICK table : rows' = [rows EXCEPT ![d] = table]
                       /\ table = [rows[d] EXCEPT ![u] = Version(NoUid, ts, public)]
      BY <2>1 DEF Create, Commits
    <3>2. \A w \in minted : table[w] = rows[d][w]
      BY <1>1, <2>0, <2>1, <3>1 DEF Create
    <3>3. tame(table)
      BY <3>2
    <3> HIDE DEF tame
    <3> QED
      BY <3>1, <3>3
  <2>2. ASSUME NEW v \in Uids, Succeeds(d, u, v, ts)
        PROVE  \E table : rows' = [rows EXCEPT ![d] = table] /\ tame(table)
    <3>1. PICK table : rows' = [rows EXCEPT ![d] = table]
                       /\ table = [rows[d] EXCEPT ![u].open = FALSE,
                                     ![v] = Version(u, ts, rows[d][u].public)]
      BY <2>2 DEF Succeeds, Commits
    <3>2. \A w \in minted : w # u => table[w] = rows[d][w]
      BY <1>1, <2>0, <2>2, <3>1 DEF Succeeds
    <3>3. u \in minted => table[u].open = FALSE
      BY <1>1, <2>0, <2>2, <3>1 DEF Succeeds, Row
    <3>4. tame(table)
      BY <3>2, <3>3 DEF Live
    <3> HIDE DEF tame
    <3> QED
      BY <3>1, <3>4
  <2>3. CASE Retire(d, u, ts) \/ Forget(d, u, ts)
    <3>1. PICK table : /\ rows' = [rows EXCEPT ![d] = table]
                       /\ \/ table = [rows[d] EXCEPT ![u].open = FALSE]
                          \/ table = [rows[d] EXCEPT ![u].status = "tombstone",
                                                     ![u].open = FALSE]
      BY <2>3 DEF Retire, Forget, Commits
    <3>2. \A w \in minted : w # u => table[w] = rows[d][w]
      BY <1>1, <2>0, <3>1
    <3>3. table[u].open = FALSE
      BY <1>1, <2>0, <3>1 DEF Row
    <3>4. tame(table)
      BY <3>2, <3>3 DEF Live
    <3> HIDE DEF tame
    <3> QED
      BY <3>1, <3>4
  <2>4. CASE Purge(d, u, ts)
    <3>1. PICK table : /\ rows' = [rows EXCEPT ![d] = table]
                       /\ table = [w \in Uids |->
                                     IF w = u THEN Absent
                                     ELSE IF rows[d][w].parent = u
                                          THEN [rows[d][w] EXCEPT !.parent = NoUid]
                                          ELSE rows[d][w]]
      BY <2>4 DEF Purge, Commits
    <3>2. ASSUME NEW w \in minted, w # u
          PROVE  /\ table[w].status = rows[d][w].status /\ table[w].open = rows[d][w].open
                 /\ table[w].public = rows[d][w].public
      <4>1. table[w] = rows[d][w] \/ table[w] = [rows[d][w] EXCEPT !.parent = NoUid]
        BY <2>0, <3>1, <3>2
      <4>2. rows[d][w] \in Row
        BY <2>0
      <4> QED
        BY <4>1, <4>2 DEF Row
    <3>3. table[u].open = FALSE
      BY <3>1 DEF Absent
    <3>4. tame(table)
      BY <3>2, <3>3 DEF Live
    <3> HIDE DEF tame
    <3> QED
      BY <3>1, <3>4
  <2> QED
    BY <1>4, <2>1, <2>2, <2>3, <2>4
<1>6. Emerges
  <2>1. PICK table : rows' = [rows EXCEPT ![d] = table] /\ tame(table)
    BY <1>5
  <2>2. rows'[d] = table /\ \A c \in Devices : c # d => rows'[c] = rows[c]
    BY <1>1, <2>1 DEF LocalTypes
  <2>3. ASSUME NEW c \in Devices, NEW w \in minted, Syncable(c, w)'
        PROVE  Syncable(c, w)
    <3>1. CASE c = d
      BY <2>1, <2>2, <2>3, <3>1 DEF Live, Syncable, Current
    <3>2. CASE c # d
      BY <2>2, <2>3, <3>2 DEF Live, Syncable, Current
    <3> QED
      BY <3>1, <3>2
  <2> QED
    BY <2>3 DEF Emerges
<1> QED
  BY <1>2, <1>3, <1>6, SteadyIf

LEMMA SteadyApply ==
  ASSUME Lossless, NEW r \in Runs, PullApply(r)
  PROVE  Steady
<1> DEFINE d == Home[r]
           env == Head(run[r].blobs)
<1>1. /\ Working /\ LocalTypes /\ CommandTypes /\ run[r] \in RunState /\ d \in Devices
  BY RunsAssumption, TypeParts DEF Lossless, Working, CommandTypes
<1>2. /\ env \in Envelope /\ env = run[r].blobs[1] /\ Len(run[r].blobs) # 0
      /\ run[r].plan # "retire" => env.op = "create"
  <2>1. /\ run[r].blobs \in Seq(Envelope) /\ run[r].blobs # << >>
        /\ run[r].plan # "retire" => env.op = "create"
    BY <1>1 DEF Working, Progress, PullApply, RunState
  <2> QED
    BY <2>1
<1>3. run[r].plan # "retire" => OnLog(env.uid)
  <2>1. Len(run[r].blobs) \in Nat
    BY <1>1 DEF RunState
  <2>2. 1 \in 1..Len(run[r].blobs)
    BY <1>2, <2>1
  <2> QED
    BY <1>2, <2>2 DEF Lossless, Pulling, PullApply
<1>4. /\ Fits(d, env, run[r].plan) /\ rows' = [rows EXCEPT ![d] = Applied(r)]
      /\ UNCHANGED <<log, events, clock, minted>>
  BY DEF PullApply, Applied
<1>5. ASSUME NEW u \in Uids, Live(Applied(r)[u])
      PROVE  Live(rows[d][u]) \/ OnLog(u)
  <2>1. LocalTypes /\ d \in Devices /\ env \in Envelope /\ Fits(d, env, run[r].plan)
    BY <1>1, <1>2, <1>4
  <2>2. CASE run[r].plan = "retire"
    <3>1. env.uid \in Uids /\ Applied(r) = Retired(d, env.uid)
      BY <1>2, <2>2 DEF Envelope, Applied
    <3> HIDE DEF d, env
    <3>2. \A w \in Uids : Live(Applied(r)[w]) => Live(rows[d][w])
      BY <2>1, <3>1, RetiredType
    <3> QED
      BY <1>5, <3>2
  <2>3. CASE run[r].plan # "retire" /\ u # env.uid
    <3>1. /\ run[r].plan \in Plans \ {"retire"} /\ run[r].target \in Uids \cup {NoUid}
          /\ Applied(r) = Replaced(d, env, run[r].plan, run[r].target)
      BY <1>1, <2>3 DEF RunState, Applied
    <3> HIDE DEF d, env
    <3>2. \A w \in Uids : w # env.uid /\ Live(Applied(r)[w]) => Live(rows[d][w])
      BY <2>1, <3>1, ReplacedType
    <3> QED
      BY <1>5, <2>3, <3>2
  <2> QED
    BY <1>3, <2>2, <2>3
<1>6. Emerges
  <2>0. minted \subseteq Uids
    BY <1>1 DEF LocalTypes
  <2>1. rows'[d] = Applied(r) /\ \A c \in Devices : c # d => rows'[c] = rows[c]
    BY <1>1, <1>4 DEF LocalTypes
  <2>2. ASSUME NEW c \in Devices, NEW w \in minted, Syncable(c, w)'
        PROVE  Syncable(c, w) \/ OnLog(w)
    <3>1. CASE c = d
      <4>1. Live(Applied(r)[w])
        BY <2>1, <2>2, <3>1 DEF Live, Syncable, Current
      <4>2. Live(rows[d][w]) \/ OnLog(w)
        BY <1>5, <2>0, <4>1
      <4> QED
        BY <3>1, <4>2 DEF Live, Syncable, Current
    <3>2. CASE c # d
      BY <2>1, <2>2, <3>2 DEF Syncable, Current
    <3> QED
      BY <3>1, <3>2
  <2> QED
    BY <2>2 DEF Emerges
<1>7. LogGrows /\ LaterEvents
  BY <1>4 DEF LogGrows, OnLog, LaterEvents
<1> QED
  BY <1>1, <1>6, <1>7, SteadyIf

\* Every other step of a command leaves the rows alone.
LEMMA SteadyCommand ==
  ASSUME Lossless, NEW r \in Runs, Sync(r) \/ Crash(r)
  PROVE  Steady
<1>1. CommandTypes /\ run[r] \in RunState /\ Working
  BY TypeParts DEF Lossless, Working, CommandTypes
<1>2. CASE PullApply(r)
  BY <1>2, SteadyApply
<1>3. CASE ~PullApply(r)
  <2>1. rows' = rows /\ events' = events /\ (log' = log \/ log' = log \o run[r].blobs)
    BY <1>3 DEF Sync, Crash, PushBegin, PushFetch, PushSend, PushDrain, PullBegin,
         PullDecide, PullSkip, PullFinish, AppendBlobs, store
  <2>2. log \in Seq(Envelope) /\ run[r].blobs \in Seq(Envelope)
    BY <1>1 DEF CommandTypes, RunState
  <2>3. ASSUME NEW u, NEW i \in 1..Len(log), log[i].uid = u, log[i].op = "create"
        PROVE  i \in 1..Len(log') /\ log'[i] = log[i]
    BY <2>1, <2>2, <2>3
  <2>4. LogGrows
    BY <2>3 DEF LogGrows, OnLog
  <2>5. LaterEvents /\ Emerges
    BY <2>1 DEF LaterEvents, Emerges, Syncable, Current
  <2> QED
    BY <1>1, <2>4, <2>5, SteadyIf
<1> QED
  BY <1>2, <1>3

LEMMA SteadyStep ==
  ASSUME Lossless, Next
  PROVE  Steady
  BY SteadyLocal, SteadyCommand DEF Next, Lossless

\* The events behind a cursor do not change.
LEMMA OldEvents ==
  ASSUME Working', Steady, NEW d \in Devices, NEW n \in Nat, clock[d] \in Nat,
         n <= clock[d], NEW e \in events'[d], e.ts <= n
  PROVE  e \in events[d]
<1>1. e.ts \in Nat
  BY SyncBoundsAssumption DEF Working, TypeOK, Event
<1> QED
  BY <1>1 DEF Steady, LaterEvents

LEMMA StaysPublished ==
  ASSUME Lossless, Working', Steady, outbox' = outbox
  PROVE  Published'
<1> SUFFICES ASSUME NEW d \in Devices, NEW e \in events'[d], e.ts <= outbox'[d]
             PROVE  Settled(d, e)'
  BY DEF Published, Settled, OnLog
<1>1. /\ outbox[d] \in Nat /\ clock[d] \in Nat /\ outbox[d] <= clock[d]
  BY SyncBoundsAssumption DEF Lossless, Working, TypeOK, Ordered
<1>2. e \in events[d]
  BY <1>1, OldEvents
<1>3. Settled(d, e)
  BY <1>2, PublishedSettles DEF Lossless
<1> QED
  BY <1>2, <1>3 DEF Steady, StaysSettled

\* A command that does not move keeps what it holds.
LEMMA StaysKept ==
  ASSUME Lossless, Working', Steady, NEW q \in Runs, run'[q] = run[q]
  PROVE  Pushing(run[q], Home[q])' /\ Pulling(run[q])'
<1> DEFINE d == Home[q]
           s == run[q]
<1>1. /\ d \in Devices /\ s \in RunState /\ Progress(s, d) /\ Pushing(s, d) /\ Pulling(s)
      /\ clock[d] \in Nat
  BY RunsAssumption, SyncBoundsAssumption DEF Lossless, Working, TypeOK
<1>2. ASSUME NEW e \in events'[d], s.at \in {"fetch", "send", "drain"}, e.ts <= s.next
      PROVE  e \in events[d] /\ (Settled(d, e) => Settled(d, e)')
  <2>1. s.next <= clock[d] /\ s.next \in Nat
    BY <1>1, <1>2 DEF Progress, RunState
  <2>2. e \in events[d]
    BY <1>1, <1>2, <2>1, OldEvents
  <2> QED
    BY <1>1, <2>2 DEF Steady, StaysSettled
<1>3. Pushing(run[q], Home[q])'
  BY <1>1, <1>2 DEF Pushing, Carries
<1>4. ASSUME NEW i \in 1..Len(s.blobs), s.blobs[i].op = "create", OnLog(s.blobs[i].uid)
      PROVE  OnLog(s.blobs[i].uid)'
  <2>0. s.blobs \in Seq(Envelope)
    BY <1>1 DEF RunState
  <2>1. s.blobs[i] \in Envelope
    BY <1>4, <2>0, ElementOfSeq
  <2>2. s.blobs[i].uid \in Uids
    BY <2>1 DEF Envelope
  <2> QED
    BY <1>4, <2>2 DEF Steady, LogGrows, OnLog
<1>5. Pulling(run[q])'
  BY <1>1, <1>4 DEF Pulling, OnLog
<1> QED
  BY <1>3, <1>5

\* It is enough to look at the command that moves.
LEMMA LosslessIf ==
  ASSUME Lossless, Working', Steady, Published', NEW r \in Runs, NEW state, Becomes(r, state),
         Pushing(run[r], Home[r])', Pulling(run[r])'
  PROVE  Lossless'
<1>1. \A q \in Runs : q # r => run'[q] = run[q]
  BY DEF Lossless, Working, TypeOK, Becomes
<1>2. \A q \in Runs : q # r => Pushing(run[q], Home[q])' /\ Pulling(run[q])'
  BY <1>1, StaysKept
<1> QED
  BY <1>2 DEF Lossless

LEMMA Moved ==
  ASSUME Lossless, NEW r \in Runs, NEW state, Becomes(r, state)
  PROVE  run'[r] = state /\ run[r] \in RunState /\ Home[r] \in Devices
  BY RunsAssumption DEF Becomes, Lossless, Working, TypeOK

\* A command that ends holds nothing.
LEMMA LosslessStop ==
  ASSUME Lossless, Working', Steady, Published', NEW r \in Runs, Becomes(r, Idle)
  PROVE  Lossless'
<1>1. run'[r] = Idle
  BY Moved
<1>2. Pushing(run[r], Home[r])' /\ Pulling(run[r])'
  BY <1>1 DEF Pushing, Pulling, Idle
<1> QED
  BY <1>2, LosslessIf

LEMMA LosslessPushBegin ==
  ASSUME Lossless, Working', Steady, NEW r \in Runs, PushBegin(r)
  PROVE  Lossless'
<1> DEFINE d == Home[r]
           state == [Idle EXCEPT !.at = "fetch", !.page = Page(d), !.next = NextCursor(d)]
<1>1. /\ Becomes(r, state) /\ After(d) # {}
      /\ UNCHANGED <<log, rows, events, outbox, minted>>
  BY DEF PushBegin, store, cursors
<1>2. run'[r] = state /\ d \in Devices /\ LocalTypes /\ CommandTypes /\ Ordered(d)
  BY <1>1, Moved, TypeParts DEF Lossless, Working
<1>3. /\ NextCursor(d) \in Nat
      /\ \A e \in After(d) : e.ts <= NextCursor(d) => e \in Page(d)
  BY <1>1, <1>2, PageFacts
<1>4. state.at = "fetch" /\ state.page = Page(d) /\ state.next = NextCursor(d)
  BY DEF Idle
<1> HIDE DEF state
<1>5. ASSUME NEW e \in events'[d], e.ts <= NextCursor(d)
      PROVE  Settled(d, e)' \/ e \in Page(d)
  <2>1. e \in events[d] /\ e.ts \in Nat /\ outbox[d] \in Nat
    BY <1>1, <1>2, SyncBoundsAssumption DEF LocalTypes, CommandTypes, Event
  <2>2. CASE e.ts > outbox[d]
    BY <1>3, <1>5, <2>1, <2>2 DEF After
  <2>3. CASE e.ts <= outbox[d]
    <3>1. Settled(d, e)
      BY <1>2, <2>1, <2>3, PublishedSettles DEF Lossless
    <3> QED
      BY <1>2, <2>1, <3>1 DEF Steady, StaysSettled
  <2> QED
    BY <2>1, <2>2, <2>3
<1>6. Pushing(run[r], Home[r])'
  BY <1>2, <1>4, <1>5 DEF Pushing
<1>7. Pulling(run[r])'
  BY <1>2, <1>4 DEF Pulling
<1> QED
  BY <1>1, <1>6, <1>7, LosslessIf, StaysPublished

LEMMA LosslessPushFetch ==
  ASSUME Lossless, Working', Steady, NEW r \in Runs, PushFetch(r)
  PROVE  Lossless'
<1> DEFINE d == Home[r]
<1>1. /\ UNCHANGED <<log, rows, events, outbox, minted>> /\ run[r].at = "fetch"
  BY DEF PushFetch, store, cursors
<1>2. PICK f \in run[r].page :
         /\ Becomes(r, Fetched(r, f))
         /\ Fetched(r, f).page = run[r].page \ {f}
         /\ Fetched(r, f).next = run[r].next
         /\ \/ Fetched(r, f).blobs = run[r].blobs /\ ~Ships(d, f)
            \/ /\ Fetched(r, f).blobs = Append(run[r].blobs, Sealed(d, f))
               /\ Ships(d, f)
         /\ Fetched(r, f).at \in {"fetch", "send", "drain"}
         /\ Fetched(r, f).at = "fetch" <=> run[r].page # {f}
         /\ Fetched(r, f).at = "drain" => Fetched(r, f).blobs = << >>
  BY FetchFacts DEF Lossless
<1>3. run'[r] = Fetched(r, f) /\ d \in Devices /\ run[r].blobs \in Seq(Envelope) /\ Working
  BY <1>2, Moved DEF RunState, Lossless
<1>4. f \in Event /\ Sealed(d, f) \in Envelope
  <2>1. f \in Event /\ LocalTypes
    BY <1>3, TypeParts, Moved DEF Working, Progress, LocalTypes
  <2> QED
    BY <1>3, <2>1, SealedType
\* The blobs held are still held.
<1>5. ASSUME NEW u, Carries(run[r], u)
      PROVE  Carries(Fetched(r, f), u) /\ Fetched(r, f).at # "drain"
  <2>1. PICK i \in 1..Len(run[r].blobs) : run[r].blobs[i].uid = u /\ run[r].blobs[i].op = "create"
    BY <1>5 DEF Carries
  <2>2. /\ i \in 1..Len(Fetched(r, f).blobs)
        /\ Fetched(r, f).blobs[i] = run[r].blobs[i]
    <3>1. CASE Fetched(r, f).blobs = run[r].blobs
      BY <2>1, <3>1
    <3>2. CASE Fetched(r, f).blobs = Append(run[r].blobs, Sealed(d, f))
      BY <1>3, <1>4, <2>1, <3>2
    <3> QED
      BY <1>2, <3>1, <3>2
  <2>3. Fetched(r, f).blobs # << >>
    BY <2>2
  <2> QED
    BY <1>2, <2>1, <2>2, <2>3 DEF Carries
\* The event taken off the page is settled, or it is a blob now.
<1>6. \/ Settled(d, f)
      \/ /\ Fetched(r, f).at # "drain" /\ f.op = "create"
         /\ Carries(Fetched(r, f), f.uid)
  <2>1. CASE f.op # "create"
    BY <2>1 DEF Settled
  <2>2. CASE f.op = "create" /\ ~Ships(d, f)
    BY <2>2 DEF Settled, Ships
  <2>3. CASE f.op = "create" /\ Ships(d, f)
    <3> DEFINE n == Len(run[r].blobs) + 1
    <3>1. Fetched(r, f).blobs = Append(run[r].blobs, Sealed(d, f))
      BY <1>2, <2>3
    <3>2. /\ n \in 1..Len(Fetched(r, f).blobs)
          /\ Fetched(r, f).blobs[n] = Sealed(d, f) /\ Fetched(r, f).blobs # << >>
      BY <1>3, <1>4, <3>1
    <3>3. Sealed(d, f).uid = f.uid /\ Sealed(d, f).op = "create"
      BY <2>3 DEF Sealed
    <3> QED
      BY <1>2, <2>3, <3>2, <3>3 DEF Carries
  <2> QED
    BY <2>1, <2>2, <2>3
<1>7. ASSUME NEW e \in events'[d], e.ts <= run[r].next
      PROVE  \/ Settled(d, e)'
             \/ e \in Fetched(r, f).page
             \/ /\ Fetched(r, f).at # "drain" /\ e.op = "create"
                /\ Carries(Fetched(r, f), e.uid)
  <2>1. e \in events[d] /\ (Settled(d, e) => Settled(d, e)')
    BY <1>1, <1>3, <1>7 DEF Steady, StaysSettled
  <2>2. \/ Settled(d, e) \/ e \in run[r].page
        \/ e.op = "create" /\ Carries(run[r], e.uid)
    BY <1>1, <1>7, <2>1 DEF Lossless, Pushing
  <2> QED
    BY <1>2, <1>5, <1>6, <2>1, <2>2
<1>8. Fetched(r, f).at \in {"send", "drain"} => Fetched(r, f).page = {}
  BY <1>2
<1>9. Pushing(run[r], Home[r])'
  BY <1>2, <1>3, <1>7, <1>8 DEF Pushing, Carries
<1>10. Pulling(run[r])'
  BY <1>2, <1>3 DEF Pulling
<1> QED
  BY <1>1, <1>2, <1>9, <1>10, LosslessIf, StaysPublished

LEMMA LosslessPushSend ==
  ASSUME Lossless, Working', Steady, NEW r \in Runs, PushSend(r)
  PROVE  Lossless'
<1> DEFINE d == Home[r]
           state == [run[r] EXCEPT !.at = "drain"]
<1>1. /\ UNCHANGED <<rows, events, outbox, minted>> /\ run[r].at = "send"
      /\ log' = log \o run[r].blobs
  BY DEF PushSend, AppendBlobs, store, cursors
<1>2. Published'
  BY <1>1, StaysPublished
<1>3. CASE Becomes(r, Idle)
  BY <1>2, <1>3, LosslessStop
<1>4. CASE Becomes(r, state)
  <2>1. /\ run'[r] = state /\ d \in Devices /\ run[r] \in RunState
        /\ log \in Seq(Envelope) /\ run[r].blobs \in Seq(Envelope)
    BY <1>4, Moved DEF RunState, Lossless, Working, TypeOK
  <2>2. state.at = "drain" /\ state.page = run[r].page /\ state.next = run[r].next
    BY <2>1 DEF RunState
  <2> HIDE DEF state
  <2>3. ASSUME NEW e \in events'[d], e.ts <= run[r].next
        PROVE  Settled(d, e)'
    <3>1. e \in events[d] /\ (Settled(d, e) => Settled(d, e)')
      BY <1>1, <2>1 DEF Steady, StaysSettled
    <3>2. Settled(d, e) \/ Carries(run[r], e.uid)
      BY <1>1, <2>3, <3>1 DEF Lossless, Pushing
    <3>3. ASSUME NEW i \in 1..Len(run[r].blobs), run[r].blobs[i].uid = e.uid,
                 run[r].blobs[i].op = "create"
          PROVE  OnLog(e.uid)'
      <4>1. /\ Len(log) + i \in 1..Len(log')
            /\ log'[Len(log) + i] = run[r].blobs[i]
        BY <1>1, <2>1, <3>3
      <4> QED
        BY <3>3, <4>1 DEF OnLog
    <3> QED
      BY <3>1, <3>2, <3>3 DEF Carries, Settled
  <2>4. run[r].page = {}
    BY <1>1 DEF Lossless, Pushing
  <2>5. Pushing(run[r], Home[r])'
    BY <2>1, <2>2, <2>3, <2>4 DEF Pushing
  <2>6. Pulling(run[r])'
    BY <2>1, <2>2 DEF Pulling
  <2> QED
    BY <1>2, <1>4, <2>5, <2>6, LosslessIf
<1> QED
  BY <1>3, <1>4 DEF PushSend

\* The cursor moves over settled events only.
LEMMA LosslessPushDrain ==
  ASSUME Lossless, Working', Steady, NEW r \in Runs, PushDrain(r)
  PROVE  Lossless'
<1> DEFINE d == Home[r]
<1>1. /\ UNCHANGED <<rows, events, log>> /\ run[r].at = "drain" /\ Becomes(r, Idle)
      /\ outbox' = [outbox EXCEPT ![d] = run[r].next]
  BY DEF PushDrain, store
<1>2. /\ d \in Devices /\ outbox'[d] = run[r].next
      /\ \A c \in Devices : c # d => outbox'[c] = outbox[c]
  BY <1>1, RunsAssumption DEF Lossless, Working, TypeOK
<1>3. ASSUME NEW c \in Devices, NEW e \in events'[c], e.ts <= outbox'[c]
      PROVE  Settled(c, e)'
  <2>1. e \in events[c]
    BY <1>1
  <2>2. Settled(c, e)
    <3>1. CASE c = d
      BY <1>1, <1>2, <1>3, <2>1, <3>1 DEF Lossless, Pushing
    <3>2. CASE c # d
      BY <1>2, <1>3, <2>1, <3>2, PublishedSettles DEF Lossless
    <3> QED
      BY <3>1, <3>2
  <2> QED
    BY <2>1, <2>2 DEF Steady, StaysSettled
<1>4. Published'
  BY <1>3 DEF Published, Settled, OnLog
<1> QED
  BY <1>1, <1>4, LosslessStop

LEMMA LosslessPullBegin ==
  ASSUME Lossless, Working', Steady, NEW r \in Runs, PullBegin(r)
  PROVE  Lossless'
<1> DEFINE c == seen[Home[r]]
           at == IF Since(c) = << >> THEN "finish" ELSE "decide"
           state == [Idle EXCEPT !.at = at, !.blobs = Since(c), !.next = SinceEnd(c)]
<1>1. Becomes(r, state) /\ UNCHANGED <<log, outbox>>
  BY DEF PullBegin, cursors
<1>2. run'[r] = state /\ log \in Seq(Envelope) /\ c \in Nat
  BY <1>1, Moved DEF Lossless, Working, TypeOK
<1>3. at \in {"finish", "decide"}
  OBVIOUS
<1> HIDE DEF at
<1>4. state.at = at /\ state.blobs = Since(c)
  BY DEF Idle
<1> HIDE DEF state
<1>5. ASSUME NEW i \in 1..Len(Since(c)), NEW u, u = Since(c)[i].uid,
             Since(c)[i].op = "create"
      PROVE  OnLog(u)'
  <2>1. PICK j \in 1..Len(log) : Since(c)[i] = log[j]
    BY <1>2, SinceType
  <2> QED
    BY <1>1, <1>5, <2>1 DEF OnLog
<1>6. Pushing(run[r], Home[r])'
  BY <1>2, <1>3, <1>4 DEF Pushing
<1>7. run'[r].blobs = Since(c)
  BY <1>2, <1>4
<1> HIDE DEF c
<1>8. Pulling(run[r])'
  BY <1>5, <1>7 DEF Pulling, OnLog
<1> QED
  BY <1>1, <1>6, <1>8, LosslessIf, StaysPublished

\* A pull that holds the blobs it had, or all but the first.
LEMMA LosslessPull ==
  ASSUME Lossless, Working', Steady, NEW r \in Runs, NEW state, Becomes(r, state),
         run[r].at \in {"decide", "apply"}, outbox' = outbox,
         state.at \in {"decide", "apply", "finish"},
         state.blobs \in {run[r].blobs, Tail(run[r].blobs)}
  PROVE  Lossless'
<1>1. run'[r] = state /\ run[r].blobs \in Seq(Envelope) /\ run[r].blobs # << >>
  BY Moved DEF RunState, Lossless, Working, Progress
<1>2. ASSUME NEW i \in 1..Len(state.blobs)
      PROVE  \E j \in 1..Len(run[r].blobs) : state.blobs[i] = run[r].blobs[j]
  <2>1. CASE state.blobs = run[r].blobs
    BY <1>2, <2>1
  <2>2. CASE state.blobs = Tail(run[r].blobs)
    <3>1. /\ i + 1 \in 1..Len(run[r].blobs)
          /\ state.blobs[i] = run[r].blobs[i + 1]
      BY <1>1, <1>2, <2>2, HeadTailProperties
    <3> QED
      BY <3>1
  <2> QED
    BY <2>1, <2>2
<1>3. ASSUME NEW i \in 1..Len(state.blobs), NEW u, u = state.blobs[i].uid,
             state.blobs[i].op = "create"
      PROVE  OnLog(u)'
  <2>1. PICK j \in 1..Len(run[r].blobs) : state.blobs[i] = run[r].blobs[j]
    BY <1>2
  <2>2. run[r].blobs[j] \in Envelope
    BY <1>1, <2>1, ElementOfSeq
  <2>3. u \in Uids
    BY <1>3, <2>1, <2>2 DEF Envelope
  <2>4. OnLog(u)
    BY <1>3, <2>1 DEF Lossless, Pulling
  <2> QED
    BY <2>3, <2>4 DEF Steady, LogGrows
<1>4. Pushing(run[r], Home[r])'
  BY <1>1 DEF Pushing
<1>5. Pulling(run[r])'
  BY <1>1, <1>3 DEF Pulling, OnLog
<1> QED
  BY <1>4, <1>5, LosslessIf, StaysPublished

LEMMA LosslessPullWork ==
  ASSUME Lossless, Working', Steady, NEW r \in Runs,
         PullDecide(r) \/ PullApply(r) \/ PullSkip(r)
  PROVE  Lossless'
<1>1. run[r].at \in {"decide", "apply"} /\ outbox' = outbox /\ run[r] \in RunState
  BY DEF PullDecide, PullApply, PullSkip, cursors, Lossless, Working, TypeOK
<1>2. /\ Rest(r) \in RunState /\ Rest(r).at \in {"decide", "finish"}
      /\ Rest(r).blobs = Tail(run[r].blobs)
  BY <1>1, RestType DEF Lossless, Working, Progress
<1>3. CASE Becomes(r, Rest(r))
  BY <1>1, <1>2, <1>3, LosslessPull
<1>4. CASE Becomes(r, [Rest(r) EXCEPT !.applied = TRUE])
  <2> DEFINE state == [Rest(r) EXCEPT !.applied = TRUE]
  <2>1. state.at = Rest(r).at /\ state.blobs = Rest(r).blobs /\ Becomes(r, state)
    BY <1>2, <1>4 DEF RunState
  <2> HIDE DEF state
  <2> QED
    BY <1>1, <1>2, <2>1, LosslessPull
<1>5. ASSUME NEW plan, NEW target,
             Becomes(r, [run[r] EXCEPT !.at = "apply", !.plan = plan, !.target = target])
      PROVE  Lossless'
  <2> DEFINE state == [run[r] EXCEPT !.at = "apply", !.plan = plan, !.target = target]
  <2>1. state.at = "apply" /\ state.blobs = run[r].blobs /\ Becomes(r, state)
    BY <1>1, <1>5 DEF RunState
  <2> HIDE DEF state
  <2> QED
    BY <1>1, <2>1, LosslessPull
<1> QED
  BY <1>3, <1>4, <1>5 DEF PullDecide, PullApply, PullSkip

LEMMA LosslessStep == Lossless /\ [Next]_syncVars => Lossless'
<1> SUFFICES ASSUME Lossless, [Next]_syncVars PROVE Lossless'
  OBVIOUS
<1>1. Working'
  BY WorkingStep DEF Lossless
<1>2. CASE UNCHANGED syncVars
  <2>1. UNCHANGED <<log, rows, events, outbox, run>>
    BY <1>2 DEF syncVars, store, cursors
  <2>2. Published'
    BY <2>1 DEF Lossless, Published, Syncable, Current
  <2>3. ASSUME NEW r \in Runs
        PROVE  Pushing(run[r], Home[r])' /\ Pulling(run[r])'
    <3>1. Pushing(run[r], Home[r]) /\ Pulling(run[r])
      BY DEF Lossless
    <3>2. Pushing(run[r], Home[r])'
      BY <2>1, <3>1 DEF Pushing, Settled, Syncable, Current, OnLog, Carries
    <3>3. Pulling(run[r])'
      BY <2>1, <3>1 DEF Pulling, OnLog
    <3> QED
      BY <3>2, <3>3
  <2> QED
    BY <1>1, <2>2, <2>3 DEF Lossless
<1>3. CASE Next
  <2>1. Steady
    BY <1>3, SteadyStep
  <2>2. ASSUME NEW d \in Devices, Local(d) PROVE Lossless'
    <3>1. UNCHANGED <<run, outbox>>
      BY <2>2 DEF Local, cursors
    <3>2. Published'
      BY <1>1, <2>1, <3>1, StaysPublished
    <3>3. \A r \in Runs : Pushing(run[r], Home[r])' /\ Pulling(run[r])'
      BY <1>1, <2>1, <3>1, StaysKept
    <3> QED
      BY <1>1, <3>2, <3>3 DEF Lossless
  <2>3. ASSUME NEW r \in Runs, PullFinish(r) \/ Crash(r) PROVE Lossless'
    <3>1. Becomes(r, Idle) /\ outbox' = outbox
      BY <2>3 DEF PullFinish, Crash, cursors
    <3> QED
      BY <1>1, <2>1, <3>1, LosslessStop, StaysPublished
  <2>4. ASSUME NEW r \in Runs, Sync(r) PROVE Lossless'
    BY <1>1, <2>1, <2>3, <2>4, LosslessPushBegin, LosslessPushFetch, LosslessPushSend,
       LosslessPushDrain, LosslessPullBegin, LosslessPullWork DEF Sync
  <2> QED
    BY <1>3, <2>2, <2>3, <2>4 DEF Next
<1> QED
  BY <1>2, <1>3

\* Whatever pushes and pulls overlap, die, lose their answer or wait for a
\* locked database, whatever the devices' clocks say, and whatever is written
\* meanwhile: an event that the outbox cursor has passed is of a memory that
\* is on the relay or may not be synchronised (push, store/events.py).
THEOREM SyncPublishes == Spec => []Published
<1>1. Spec => []Lossless
  BY LosslessInit, LosslessStep, PTL DEF Spec
<1>2. Lossless => Published
  BY DEF Lossless
<1> QED
  BY <1>1, <1>2, PTL

-----------------------------------------------------------------------------
\* The caches are told.

\* A pull that has applied something has not finished, and only pulls have.
Telling ==
    /\ CacheTold
    /\ \A r \in Runs :
        /\ run[r].at \in {"decide", "apply", "finish"} => r \in Pullers
        /\ run[r].at \in {"idle", "fetch", "send", "drain"} => ~run[r].applied

\* What one command does to its own state: unless it ends, it stays a pull or
\* a push and forgets nothing it has applied.
LEMMA RunGoes ==
  ASSUME Working, Telling, NEW r \in Runs, Sync(r)
  PROVE  \E s \in RunState :
           /\ Becomes(r, s)
           /\ s.at \in {"decide", "apply", "finish"} => r \in Pullers
           /\ s.at \in {"idle", "fetch", "send", "drain"} => ~s.applied
           /\ run[r].applied => s.applied \/ PullFinish(r)
           /\ PullApply(r) => s.applied
<1>1. /\ run[r] \in RunState
      /\ run[r].at \in {"decide", "apply", "finish"} => r \in Pullers
      /\ run[r].at \in {"idle", "fetch", "send", "drain"} => ~run[r].applied
  BY DEF Working, TypeOK, Telling
<1>2. Idle \in RunState /\ Idle.at = "idle" /\ Idle.applied = FALSE
  BY IdleType DEF Idle
<1>3. CASE PushBegin(r)
  <2>1. LocalTypes /\ CommandTypes /\ Home[r] \in Devices /\ Ordered(Home[r])
    BY RunsAssumption, TypeParts DEF Working
  <2>2. /\ Page(Home[r]) \subseteq events[Home[r]] /\ NextCursor(Home[r]) \in Nat
        /\ events[Home[r]] \in SUBSET Event
    BY <1>3, <2>1, PageFacts DEF PushBegin, LocalTypes
  <2> DEFINE s == [Idle EXCEPT !.at = "fetch", !.page = Page(Home[r]),
                               !.next = NextCursor(Home[r])]
  <2>3. s \in RunState /\ s.at = "fetch" /\ s.applied = FALSE
    BY <1>2, <2>2 DEF RunState
  <2>4. Becomes(r, s) /\ ~PullApply(r) /\ ~run[r].applied
    BY <1>1, <1>3 DEF PushBegin, PullApply
  <2> HIDE DEF s
  <2> QED
    BY <2>3, <2>4
<1>4. CASE PushFetch(r)
  <2>1. PICK e \in run[r].page :
           /\ Becomes(r, Fetched(r, e)) /\ Fetched(r, e) \in RunState
           /\ Fetched(r, e).at \in {"fetch", "send", "drain"}
    BY <1>4, FetchFacts
  <2>2. Fetched(r, e).applied = run[r].applied
    BY <1>1 DEF Fetched, RunState
  <2>3. ~run[r].applied /\ ~PullApply(r)
    BY <1>1, <1>4 DEF PushFetch, PullApply
  <2> QED
    BY <2>1, <2>2, <2>3
<1>5. ASSUME Becomes(r, Idle), ~run[r].applied \/ PullFinish(r), ~PullApply(r)
      PROVE  \E s \in RunState :
               /\ Becomes(r, s)
               /\ s.at \in {"decide", "apply", "finish"} => r \in Pullers
               /\ s.at \in {"idle", "fetch", "send", "drain"} => ~s.applied
               /\ run[r].applied => s.applied \/ PullFinish(r)
               /\ PullApply(r) => s.applied
  <2> HIDE DEF Idle
  <2> QED
    BY <1>2, <1>5
<1>6. CASE PushSend(r)
  <2> DEFINE s == [run[r] EXCEPT !.at = "drain"]
  <2>1. s \in RunState /\ s.at = "drain" /\ s.applied = run[r].applied
    BY <1>1 DEF RunState
  <2>2. (Becomes(r, s) \/ Becomes(r, Idle)) /\ ~run[r].applied /\ ~PullApply(r)
    BY <1>1, <1>6 DEF PushSend, PullApply
  <2> HIDE DEF s
  <2> QED
    BY <1>5, <2>1, <2>2
<1>7. CASE PushDrain(r)
  BY <1>1, <1>5, <1>7 DEF PushDrain, PullApply
<1>8. CASE PullBegin(r)
  <2> DEFINE c == seen[Home[r]]
             at == IF Since(c) = << >> THEN "finish" ELSE "decide"
             s == [Idle EXCEPT !.at = at, !.blobs = Since(c), !.next = SinceEnd(c)]
  <2>1. Since(c) \in Seq(Envelope) /\ SinceEnd(c) \in Nat
    BY SinceType, RunsAssumption DEF Working, TypeOK
  <2>2. at \in {"finish", "decide"} /\ Becomes(r, s) /\ r \in Pullers
    BY <1>8 DEF PullBegin
  <2> HIDE DEF at, c
  <2>3. s \in RunState /\ s.at = at
    BY <1>2, <2>1, <2>2 DEF RunState
  <2>4. ~run[r].applied /\ ~PullApply(r)
    BY <1>1, <1>8 DEF PullBegin, PullApply
  <2> HIDE DEF s
  <2> QED
    BY <2>2, <2>3, <2>4
<1>9. ASSUME run[r].at \in {"decide", "apply"}
      PROVE  Rest(r) \in RunState /\ Rest(r).applied = run[r].applied
             /\ Rest(r).at \in {"decide", "finish"}
  <2>1. run[r].blobs # << >>
    BY <1>9 DEF Working, Progress
  <2>2. Rest(r) \in RunState /\ Rest(r).at \in {"decide", "finish"}
    BY <1>1, <2>1, RestType
  <2> QED
    BY <1>1, <2>2 DEF Rest, RunState
<1>10. CASE PullDecide(r) \/ PullSkip(r)
  <2>1. run[r].at \in {"decide", "apply"}
    BY <1>10 DEF PullDecide, PullSkip
  <2>2. CASE Becomes(r, Rest(r)) /\ ~PullApply(r)
    BY <1>1, <1>9, <2>1, <2>2
  <2>3. ASSUME NEW plan \in Plans, NEW target \in Uids \cup {NoUid}, ~PullApply(r),
               Becomes(r, [run[r] EXCEPT !.at = "apply", !.plan = plan, !.target = target])
        PROVE  \E s \in RunState :
                 /\ Becomes(r, s)
                 /\ s.at \in {"decide", "apply", "finish"} => r \in Pullers
                 /\ s.at \in {"idle", "fetch", "send", "drain"} => ~s.applied
                 /\ run[r].applied => s.applied \/ PullFinish(r)
                 /\ PullApply(r) => s.applied
    <3> DEFINE s == [run[r] EXCEPT !.at = "apply", !.plan = plan, !.target = target]
    <3>1. s \in RunState /\ s.at = "apply" /\ s.applied = run[r].applied
      BY <1>1 DEF RunState
    <3>2. Becomes(r, s)
      BY <2>3
    <3> HIDE DEF s
    <3> QED
      BY <1>1, <2>1, <2>3, <3>1, <3>2
  <2>4. CASE PullDecide(r)
    <3>1. ~PullApply(r)
      BY <2>4 DEF PullDecide, PullApply
    <3> QED
      BY <2>2, <2>3, <2>4, <3>1 DEF PullDecide
  <2>5. CASE PullSkip(r) /\ ~PullApply(r)
    BY <2>2, <2>5 DEF PullSkip
  <2>6. CASE PullApply(r) /\ PullSkip(r)
    <3>1. Becomes(r, [Rest(r) EXCEPT !.applied = TRUE]) /\ Becomes(r, Rest(r))
      BY <2>6 DEF PullApply, PullSkip
    <3> DEFINE s == [Rest(r) EXCEPT !.applied = TRUE]
    <3>2. s \in RunState /\ s.at = Rest(r).at /\ s.applied
      BY <1>9, <2>1 DEF RunState
    <3> HIDE DEF s
    <3> QED
      BY <1>1, <1>9, <2>1, <3>1, <3>2 DEF s
  <2> QED
    BY <1>10, <2>4, <2>5, <2>6
<1>11. CASE PullApply(r)
  <2> DEFINE s == [Rest(r) EXCEPT !.applied = TRUE]
  <2>1. run[r].at = "apply" /\ Becomes(r, s)
    BY <1>11 DEF PullApply
  <2>2. s \in RunState /\ s.at = Rest(r).at /\ s.applied
    BY <1>9, <2>1 DEF RunState
  <2> HIDE DEF s
  <2> QED
    BY <1>1, <1>9, <2>1, <2>2
<1>12. CASE PullFinish(r)
  BY <1>5, <1>12 DEF PullFinish, PullApply
<1> QED
  BY <1>3, <1>4, <1>6, <1>7, <1>8, <1>10, <1>11, <1>12 DEF Sync

LEMMA TellingStep ==
  ASSUME "crash" \notin Faults, Working, Telling, [Next]_syncVars
  PROVE  Telling'
<1>1. /\ run \in [Runs -> RunState] /\ stale \in [Devices -> BOOLEAN]
      /\ \A r \in Runs : Home[r] \in Devices
  BY RunsAssumption DEF Working, TypeOK
<1>2. ASSUME UNCHANGED run, \A d \in Devices : stale'[d] => stale[d] PROVE Telling'
  BY <1>2 DEF Telling, CacheTold
<1>3. ASSUME NEW d \in Devices, Local(d) PROVE Telling'
  <2>1. UNCHANGED run
    BY <1>3 DEF Local
  <2>2. \E c : stale' = [stale EXCEPT ![c] = FALSE]
    BY <1>3 DEF Local, Create, Succeeds, Retire, Forget, Purge, Commits
  <2> QED
    BY <1>1, <1>2, <2>1, <2>2
<1>4. CASE UNCHANGED syncVars
  BY <1>2, <1>4 DEF syncVars, store
<1>5. ASSUME NEW r \in Runs, Sync(r) PROVE Telling'
  <2>1. PICK s \in RunState :
           /\ Becomes(r, s)
           /\ s.at \in {"decide", "apply", "finish"} => r \in Pullers
           /\ s.at \in {"idle", "fetch", "send", "drain"} => ~s.applied
           /\ run[r].applied => s.applied \/ PullFinish(r)
           /\ PullApply(r) => s.applied
    BY <1>5, RunGoes
  <2>2. run'[r] = s /\ \A q \in Runs \ {r} : run'[q] = run[q]
    BY <1>1, <2>1 DEF Becomes
  <2>3. ASSUME NEW d \in Devices, stale'[d]
        PROVE  \E q \in Pullers : Home[q] = d /\ run'[q].applied
    <3>1. CASE stale'[d] = stale[d] /\ ~(PullFinish(r) /\ Home[r] = d)
      <4>1. PICK q \in Pullers : Home[q] = d /\ run[q].applied
        BY <2>3, <3>1 DEF Telling, CacheTold
      <4>2. q # r => run'[q] = run[q]
        BY <2>2 DEF Runs
      <4> QED
        BY <2>1, <2>2, <3>1, <4>1, <4>2
    <3>2. CASE PullFinish(r) /\ Home[r] = d
      <4>1. ~run[r].applied /\ stale' = stale
        BY <1>1, <2>3, <3>2 DEF PullFinish
      <4>2. PICK q \in Pullers : Home[q] = d /\ run[q].applied
        BY <2>3, <4>1 DEF Telling, CacheTold
      <4> QED
        BY <2>2, <4>1, <4>2 DEF Runs
    <3>3. CASE PullApply(r) /\ Home[r] = d
      <4>1. r \in Pullers
        BY <3>3 DEF PullApply, Telling
      <4> QED
        BY <2>1, <2>2, <3>3, <4>1
    <3>4. \/ stale' = stale
          \/ PullApply(r) /\ stale' = [stale EXCEPT ![Home[r]] = TRUE]
          \/ PullFinish(r) /\ stale' = [stale EXCEPT ![Home[r]] = FALSE]
      BY <1>5 DEF Sync, PushBegin, PushFetch, PushSend, PushDrain, PullBegin, PullDecide,
                  PullApply, PullSkip, PullFinish, store
    <3> QED
      BY <1>1, <2>3, <3>1, <3>2, <3>3, <3>4
  <2> QED
    BY <2>1, <2>2, <2>3 DEF Telling, CacheTold
<1> QED
  BY <1>3, <1>4, <1>5 DEF Next, Crash

LEMMA TellingInit == Init => Telling
<1> SUFFICES ASSUME Init PROVE Telling
  OBVIOUS
<1>1. \A r \in Runs : run[r].at = "idle" /\ run[r].applied = FALSE
  BY DEF Init, Idle
<1> QED
  BY <1>1 DEF Telling, CacheTold, Init

\* As long as no command dies, the rows a pull changed are followed by a bump
\* of mem_generation: until then a pull is under way that will tell the caches,
\* or a write of the device's own told them (sync/engine.py, pull; a pull that
\* is killed between its envelopes and the bump does not).
THEOREM SyncTellsCaches == "crash" \notin Faults => (Spec => []CacheTold)
<1> SUFFICES ASSUME "crash" \notin Faults PROVE Spec => []CacheTold
  OBVIOUS
<1>1. Working /\ Telling /\ [Next]_syncVars => Telling'
  BY TellingStep
<1>2. Telling => CacheTold
  BY DEF Telling
<1> QED
  BY <1>1, <1>2, TellingInit, SpecWorks, PTL DEF Spec

-----------------------------------------------------------------------------
\* What becomes of the rows.

NoPurge == "purge" \notin LocalOps

\* A row is not ended, and stays what it was.
Stays(d, u) ==
    /\ rows'[d][u].status = rows[d][u].status /\ rows'[d][u].rec = rows[d][u].rec
    /\ rows'[d][u].parent = rows[d][u].parent
    /\ rows'[d][u].status = "active" /\ rows'[d][u].open
       => rows[d][u].status = "active" /\ rows[d][u].open

\* A program of the device has made it.
Fresh(d, u) ==
    /\ u \in Uids \ minted /\ u \in minted'
    /\ rows'[d][u].status = "active" /\ rows'[d][u].rec = clock'[d]
    /\ rows'[d][u].parent = NoUid \/ {"edit", "amend"} \cap LocalOps # {}
    /\ (\E e \in events'[d] : e.op = "create" /\ e.uid = u) \/ "amend" \in LocalOps

\* A pull has brought it.
Arrives(d, u) ==
    \E r \in Runs :
        /\ Home[r] = d /\ run[r].at = "apply" /\ run[r].plan # "retire"
        /\ Head(run[r].blobs).uid = u /\ rows[d][u].status = "absent"
        /\ rows'[d][u].status = "active" /\ rows'[d][u].rec = Head(run[r].blobs).ts
        /\ rows'[d][u].parent = Anchor(Head(run[r].blobs), run[r].plan)

\* A program of the device, or a pull, has made a tombstone of it.
Ends(d, u) ==
    /\ rows[d][u].status # "absent" /\ rows'[d][u].status = "tombstone"
    /\ rows'[d][u].rec = rows[d][u].rec /\ rows'[d][u].parent = rows[d][u].parent

\* One row at a time.
RowsGo ==
    \/ \A d \in Devices, u \in Uids : Stays(d, u)
    \/ \E d \in Devices, u \in Uids :
        /\ \A c \in Devices, v \in Uids : c # d \/ v # u => Stays(c, v)
        /\ Fresh(d, u) \/ Arrives(d, u) \/ Ends(d, u)

LEMMA RowsStay == ASSUME UNCHANGED rows PROVE RowsGo
  BY DEF RowsGo, Stays

\* A table of one device replaced by another.
LEMMA TableGoes ==
  ASSUME LocalTypes, NEW d \in Devices, NEW table, rows' = [rows EXCEPT ![d] = table]
  PROVE  /\ rows'[d] = table
         /\ \A c \in Devices \ {d}, v \in Uids : rows'[c][v] = rows[c][v] /\ Stays(c, v)
<1>1. rows \in [Devices -> [Uids -> Row]]
  BY DEF LocalTypes
<1>2. rows'[d] = table /\ \A c \in Devices \ {d} : rows'[c] = rows[c]
  BY <1>1
<1> QED
  BY <1>2 DEF Stays

\* A row that is closed, and one that is ended.
LEMMA RowEnds ==
  ASSUME NEW row \in Row
  PROVE  /\ [row EXCEPT !.open = FALSE].status = row.status
         /\ [row EXCEPT !.open = FALSE].rec = row.rec
         /\ [row EXCEPT !.open = FALSE].parent = row.parent
         /\ [row EXCEPT !.open = FALSE].open = FALSE
         /\ [row EXCEPT !.status = "tombstone", !.open = FALSE].status = "tombstone"
         /\ [row EXCEPT !.status = "tombstone", !.open = FALSE].rec = row.rec
         /\ [row EXCEPT !.status = "tombstone", !.open = FALSE].parent = row.parent
  BY DEF Row

LEMMA RowsLocal ==
  ASSUME NoPurge, LocalTypes, NEW d \in Devices, Local(d) PROVE RowsGo
<1>1. PICK u \in Uids, ts \in 1..MaxTs :
        \/ \E public \in BOOLEAN : Create(d, u, ts, public)
        \/ \E v \in Uids : Succeeds(d, u, v, ts)
        \/ Retire(d, u, ts) \/ Forget(d, u, ts) \/ Purge(d, u, ts)
  BY DEF Local
<1>2. /\ rows[d] \in [Uids -> Row] /\ clock \in [Devices -> 0..MaxTs]
      /\ events \in [Devices -> SUBSET Event] /\ minted \in SUBSET Uids
      /\ \A v \in Uids : rows[d][v] \in Row
  BY DEF LocalTypes
<1>3. ASSUME NEW table, NEW evs, Commits(d, ts, table, evs)
      PROVE  /\ rows'[d] = table /\ clock'[d] = ts /\ evs \subseteq events'[d]
             /\ \A c \in Devices \ {d}, v \in Uids : Stays(c, v)
  BY <1>2, <1>3, TableGoes DEF Commits
<1>4. ASSUME NEW v \in Uids, \A w \in Uids \ {v} : Stays(d, w),
             \A c \in Devices \ {d}, w \in Uids : Stays(c, w),
             Fresh(d, v) \/ Ends(d, v)
      PROVE  RowsGo
  BY <1>4 DEF RowsGo
<1>5. ASSUME NEW public \in BOOLEAN, Create(d, u, ts, public) PROVE RowsGo
  <2> DEFINE table == [rows[d] EXCEPT ![u] = Version(NoUid, ts, public)]
  <2>1. /\ Commits(d, ts, table, Logged("create", u, ts))
        /\ u \notin minted /\ minted' = minted \cup {u}
    BY <1>5 DEF Create
  <2>2. table[u] = Version(NoUid, ts, public) /\ \A w \in Uids \ {u} : table[w] = rows[d][w]
    BY <1>2
  <2> HIDE DEF table
  <2>3. /\ rows'[d] = table /\ clock'[d] = ts /\ Logged("create", u, ts) \subseteq events'[d]
        /\ \A c \in Devices \ {d}, v \in Uids : Stays(c, v)
    BY <1>3, <2>1
  <2>4. \A w \in Uids \ {u} : Stays(d, w)
    BY <2>2, <2>3 DEF Stays
  <2>5. Fresh(d, u)
    <3>1. \E e \in events'[d] : e.op = "create" /\ e.uid = u
      BY <2>3 DEF Logged
    <3>2. /\ rows'[d][u].status = "active" /\ rows'[d][u].rec = clock'[d]
          /\ rows'[d][u].parent = NoUid
      BY <2>2, <2>3 DEF Version
    <3> QED
      BY <2>1, <3>1, <3>2 DEF Fresh
  <2> QED
    BY <1>4, <2>3, <2>4, <2>5
<1>6. ASSUME NEW v \in Uids, Succeeds(d, u, v, ts) PROVE RowsGo
  <2> DEFINE old == [rows[d][u] EXCEPT !.open = FALSE]
             new == Version(u, ts, rows[d][u].public)
             table == [[rows[d] EXCEPT ![u] = old] EXCEPT ![v] = new]
  <2>1. [rows[d] EXCEPT ![u].open = FALSE, ![v] = new] = table
    OBVIOUS
  <2>2. /\ v \notin minted /\ minted' = minted \cup {v}
        /\ \/ Commits(d, ts, table, Logged("create", v, ts)) /\ "edit" \in LocalOps
           \/ Commits(d, ts, table, {}) /\ "amend" \in LocalOps
    BY <1>6, <2>1 DEF Succeeds
  <2>3. /\ table[v] = new
        /\ \A w \in Uids \ {v} : table[w] = rows[d][w] \/ (w = u /\ table[w] = old)
    BY <1>2
  <2>4. /\ new.status = "active" /\ new.rec = ts /\ old.status = rows[d][u].status
        /\ old.rec = rows[d][u].rec /\ old.parent = rows[d][u].parent /\ ~old.open
    BY <1>2, RowEnds DEF Version
  <2> HIDE DEF table, old, new
  <2>5. /\ rows'[d] = table /\ clock'[d] = ts
        /\ \A c \in Devices \ {d}, w \in Uids : Stays(c, w)
    BY <1>3, <2>2
  <2>6. \A w \in Uids \ {v} : Stays(d, w)
    BY <2>3, <2>4, <2>5 DEF Stays
  <2>7. Logged("create", v, ts) \subseteq events'[d] \/ "amend" \in LocalOps
    BY <1>3, <2>2
  <2>8. (\E e \in events'[d] : e.op = "create" /\ e.uid = v) \/ "amend" \in LocalOps
    BY <2>7 DEF Logged
  <2>9. {"edit", "amend"} \cap LocalOps # {}
    BY <2>2
  <2>10. Fresh(d, v)
    BY <2>2, <2>3, <2>4, <2>5, <2>8, <2>9 DEF Fresh
  <2> QED
    BY <1>4, <2>5, <2>6, <2>10
<1>7. CASE Retire(d, u, ts)
  <2> DEFINE old == [rows[d][u] EXCEPT !.open = FALSE]
             table == [rows[d] EXCEPT ![u] = old]
  <2>1. Commits(d, ts, table, {})
    BY <1>7 DEF Retire
  <2>2. \A w \in Uids : table[w] = rows[d][w] \/ (w = u /\ table[w] = old)
    BY <1>2
  <2>3. /\ old.status = rows[d][u].status
        /\ old.rec = rows[d][u].rec /\ old.parent = rows[d][u].parent /\ ~old.open
    BY <1>2, RowEnds
  <2> HIDE DEF table, old
  <2>4. rows'[d] = table /\ \A c \in Devices \ {d}, w \in Uids : Stays(c, w)
    BY <1>3, <2>1
  <2>5. \A w \in Uids : Stays(d, w)
    BY <2>2, <2>3, <2>4 DEF Stays
  <2> QED
    BY <2>4, <2>5 DEF RowsGo
<1>8. CASE Forget(d, u, ts)
  <2> DEFINE old == [rows[d][u] EXCEPT !.status = "tombstone", !.open = FALSE]
             table == [rows[d] EXCEPT ![u] = old]
  <2>1. [rows[d] EXCEPT ![u].status = "tombstone", ![u].open = FALSE] = table
    OBVIOUS
  <2>2. Commits(d, ts, table, Logged("tombstone", u, ts)) /\ rows[d][u].status # "absent"
    BY <1>8, <2>1 DEF Forget, Current
  <2>3. table[u] = old /\ \A w \in Uids \ {u} : table[w] = rows[d][w]
    BY <1>2
  <2>4. /\ old.status = "tombstone"
        /\ old.rec = rows[d][u].rec /\ old.parent = rows[d][u].parent
    BY <1>2, RowEnds
  <2> HIDE DEF table, old
  <2>5. rows'[d] = table /\ \A c \in Devices \ {d}, w \in Uids : Stays(c, w)
    BY <1>3, <2>2
  <2>6. \A w \in Uids \ {u} : Stays(d, w)
    BY <2>3, <2>5 DEF Stays
  <2>7. Ends(d, u)
    BY <2>2, <2>3, <2>4, <2>5 DEF Ends
  <2> QED
    BY <1>4, <2>5, <2>6, <2>7
<1> QED
  BY <1>1, <1>5, <1>6, <1>7, <1>8 DEF Purge, NoPurge

LEMMA RowsApply ==
  ASSUME Working, NEW r \in Runs, PullApply(r) PROVE RowsGo
<1> DEFINE d == Home[r]
           env == Head(run[r].blobs)
<1>1. /\ LocalTypes /\ d \in Devices /\ run[r] \in RunState
  BY RunsAssumption, TypeParts DEF Working, CommandTypes
<1>2. env \in Envelope /\ run[r].at = "apply"
  BY RestProgress DEF PullApply
<1>3. Fits(d, env, run[r].plan) /\ rows' = [rows EXCEPT ![d] = Applied(r)]
  BY DEF PullApply, Applied
<1>4. rows'[d] = Applied(r) /\ \A c \in Devices \ {d}, v \in Uids : Stays(c, v)
  BY <1>1, <1>3, TableGoes
<1>5. env.uid \in Uids /\ rows[d] \in [Uids -> Row] /\ NoUid \notin Uids
  BY <1>1, <1>2, UidsAssumption DEF Envelope, LocalTypes, NoUid
<1> HIDE DEF d, env
<1>6. CASE run[r].plan = "retire"
  <2> DEFINE old == [rows[d][env.uid] EXCEPT !.status = "tombstone", !.open = FALSE]
             table == [rows[d] EXCEPT ![env.uid] = old]
  <2>1. [rows[d] EXCEPT ![env.uid].status = "tombstone", ![env.uid].open = FALSE] = table
    OBVIOUS
  <2>2. /\ table[env.uid] = old /\ \A w \in Uids \ {env.uid} : table[w] = rows[d][w]
        /\ old.status = "tombstone" /\ old.rec = rows[d][env.uid].rec
        /\ old.parent = rows[d][env.uid].parent
    BY <1>5, RowEnds
  <2>3. \/ rows[d][env.uid].status = "absent" /\ Applied(r) = rows[d]
        \/ rows[d][env.uid].status # "absent" /\ Applied(r) = table
    BY <1>6, <2>1 DEF Applied, Retired, d, env
  <2> HIDE DEF table, old
  <2>4. CASE Applied(r) = rows[d]
    <3>1. \A v \in Uids : Stays(d, v)
      BY <1>4, <2>4 DEF Stays
    <3> QED
      BY <1>1, <1>4, <3>1 DEF RowsGo
  <2>5. CASE rows[d][env.uid].status # "absent" /\ Applied(r) = table
    <3>1. \A v \in Uids \ {env.uid} : Stays(d, v)
      BY <1>4, <2>2, <2>5 DEF Stays
    <3>2. Ends(d, env.uid)
      BY <1>4, <2>2, <2>5 DEF Ends
    <3> QED
      BY <1>1, <1>4, <1>5, <3>1, <3>2 DEF RowsGo
  <2> QED
    BY <2>3, <2>4, <2>5
<1>7. CASE run[r].plan # "retire"
  <2> DEFINE new == Version(Anchor(env, run[r].plan), env.ts, TRUE)
  <2>1. \A w \in Uids :
          \/ w = env.uid /\ Applied(r)[w] = new
          \/ w # env.uid /\ Applied(r)[w] \in {rows[d][w], [rows[d][w] EXCEPT !.open = FALSE]}
    BY <1>7 DEF Applied, Replaced, d, env
  <2>2. rows[d][env.uid].status = "absent"
    BY <1>3, <1>5, <1>7 DEF Fits, Known
  <2>3. ASSUME NEW v \in Uids \ {env.uid} PROVE Stays(d, v)
    <3>1. rows[d][v] \in Row
      BY <1>5
    <3>2. CASE Applied(r)[v] = rows[d][v]
      BY <1>4, <3>2 DEF Stays
    <3>3. CASE Applied(r)[v] = [rows[d][v] EXCEPT !.open = FALSE]
      <4> DEFINE old == [rows[d][v] EXCEPT !.open = FALSE]
      <4>1. /\ old.status = rows[d][v].status /\ ~old.open
            /\ old.rec = rows[d][v].rec /\ old.parent = rows[d][v].parent
        BY <3>1, RowEnds
      <4>2. rows'[d][v] = old
        BY <1>4, <3>3
      <4> HIDE DEF old
      <4> QED
        BY <4>1, <4>2 DEF Stays
    <3> QED
      BY <2>1, <3>2, <3>3
  <2>4. Arrives(d, env.uid)
    <3>1. rows'[d][env.uid] = new
      BY <1>4, <1>5, <2>1
    <3>2. new.status = "active" /\ new.rec = env.ts /\ new.parent = Anchor(env, run[r].plan)
      BY DEF Version
    <3> HIDE DEF new
    <3> QED
      BY <1>2, <1>7, <2>2, <3>1, <3>2 DEF Arrives, d, env
  <2> QED
    BY <1>1, <1>4, <1>5, <2>3, <2>4 DEF RowsGo
<1> QED
  BY <1>6, <1>7

LEMMA RowsNext ==
  ASSUME NoPurge, Working, [Next]_syncVars PROVE RowsGo
<1>1. LocalTypes
  BY TypeParts DEF Working
<1>2. UNCHANGED rows \/ (\E d \in Devices : Local(d)) \/ \E r \in Runs : PullApply(r)
  BY DEF Next, syncVars, store, Sync, Crash, PushBegin, PushFetch, PushSend, PushDrain,
         PullBegin, PullDecide, PullSkip, PullFinish
<1> QED
  BY <1>1, <1>2, RowsStay, RowsLocal, RowsApply

-----------------------------------------------------------------------------
\* What becomes of the envelopes.

\* An envelope a command has in hand after a step.
Comes(q, env) ==
    \/ \E k \in 1..Len(run[q].blobs) : env = run[q].blobs[k]
    \/ \E k \in 1..Len(log) : env = log[k]
    \/ \E e \in events[Home[q]] : Ships(Home[q], e) /\ env = Sealed(Home[q], e)

LEMMA LogGoes ==
  ASSUME Working, [Next]_syncVars
  PROVE  /\ Len(log) \in Nat /\ Len(log') \in Nat /\ Len(log) <= Len(log')
         /\ \A i \in 1..Len(log) : log'[i] = log[i]
         /\ \A i \in 1..Len(log') :
              i \in 1..Len(log) \/ \E r \in Runs : \E k \in 1..Len(run[r].blobs) : log'[i] = run[r].blobs[k]
<1>1. log \in Seq(Envelope) /\ \A r \in Runs : run[r].blobs \in Seq(Envelope)
  BY DEF Working, TypeOK, RunState
<1>2. UNCHANGED log \/ \E r \in Runs : log' = log \o run[r].blobs
  BY DEF Next, syncVars, Local, Sync, Crash, PushBegin, PushFetch, PushSend, PushDrain,
         PullBegin, PullDecide, PullApply, PullSkip, PullFinish, AppendBlobs
<1>3. CASE UNCHANGED log
  BY <1>1, <1>3
<1>4. ASSUME NEW r \in Runs, log' = log \o run[r].blobs
      PROVE  /\ Len(log') = Len(log) + Len(run[r].blobs)
             /\ \A i \in 1..Len(log) : log'[i] = log[i]
             /\ \A i \in 1..Len(log') : i \in 1..Len(log) \/
                  (i - Len(log) \in 1..Len(run[r].blobs) /\ log'[i] = run[r].blobs[i - Len(log)])
  <2> DEFINE b == run[r].blobs
  <2>1. b \in Seq(Envelope) /\ log' = log \o b
    BY <1>1, <1>4
  <2> HIDE DEF b
  <2>2. /\ Len(log') = Len(log) + Len(b)
        /\ \A i \in 1..Len(log) : log'[i] = log[i]
        /\ \A i \in 1..Len(log') : i \in 1..Len(log) \/
             (i - Len(log) \in 1..Len(b) /\ log'[i] = b[i - Len(log)])
    BY <1>1, <2>1
  <2> QED
    BY <2>2 DEF b
<1>5. \A r \in Runs : Len(run[r].blobs) \in Nat /\ Len(log) \in Nat
  BY <1>1
<1> QED
  BY <1>2, <1>3, <1>4, <1>5

LEMMA BlobsGo ==
  ASSUME Working, [Next]_syncVars, NEW q \in Runs, NEW j \in 1..Len(run'[q].blobs)
  PROVE  Comes(q, run'[q].blobs[j])
<1>1. /\ run \in [Runs -> RunState] /\ run[q] \in RunState /\ Home[q] \in Devices
      /\ run[q].blobs \in Seq(Envelope)
  BY RunsAssumption DEF Working, TypeOK, RunState
<1>2. CASE run'[q].blobs = run[q].blobs
  BY <1>2 DEF Comes
<1>3. CASE run'[q].blobs = << >>
  BY <1>3
<1>4. CASE run[q].blobs # << >> /\ run'[q].blobs = Tail(run[q].blobs)
  <2> DEFINE b == run[q].blobs
  <2>1. b \in Seq(Envelope) /\ b # << >> /\ run'[q].blobs = Tail(b)
    BY <1>1, <1>4
  <2> HIDE DEF b
  <2>2. j + 1 \in 1..Len(b) /\ run'[q].blobs[j] = b[j + 1]
    BY <2>1
  <2> QED
    BY <2>2 DEF Comes, b
<1>5. ASSUME NEW r \in Runs, NEW s, Becomes(r, s),
             r = q => s.blobs \in {run[q].blobs, << >>} \/
                      (run[q].blobs # << >> /\ s.blobs = Tail(run[q].blobs))
      PROVE  Comes(q, run'[q].blobs[j])
  <2>1. run'[r] = s /\ \A p \in Runs \ {r} : run'[p] = run[p]
    BY <1>1, <1>5 DEF Becomes
  <2> QED
    BY <1>2, <1>3, <1>4, <1>5, <2>1
<1>6. Idle \in RunState /\ Idle.blobs = << >>
  BY IdleType DEF Idle
<1>7. ASSUME NEW r \in Runs, PushBegin(r) PROVE Comes(q, run'[q].blobs[j])
  <2> DEFINE s == [Idle EXCEPT !.at = "fetch", !.page = Page(Home[r]),
                               !.next = NextCursor(Home[r])]
  <2>1. s.blobs = << >> /\ Becomes(r, s)
    BY <1>6, <1>7 DEF RunState, PushBegin
  <2> HIDE DEF s
  <2> QED
    BY <1>5, <2>1
<1>8. ASSUME NEW r \in Runs, PushFetch(r) PROVE Comes(q, run'[q].blobs[j])
  <2>1. PICK e \in run[r].page :
            /\ Becomes(r, Fetched(r, e))
            /\ \/ Fetched(r, e).blobs = run[r].blobs
               \/ /\ Fetched(r, e).blobs = Append(run[r].blobs, Sealed(Home[r], e))
                  /\ Ships(Home[r], e)
    BY <1>8, FetchFacts
  <2>2. CASE r = q /\ Fetched(r, e).blobs = Append(run[r].blobs, Sealed(Home[r], e))
             /\ Ships(Home[r], e)
    <3> DEFINE b == run[q].blobs
               x == Sealed(Home[q], e)
    <3>1. b \in Seq(Envelope) /\ run'[q].blobs = Append(b, x)
      BY <1>1, <2>1, <2>2 DEF Becomes
    <3>2. e \in events[Home[q]]
      BY <2>2 DEF Working, Progress
    <3>3. Ships(Home[q], e)
      BY <2>2
    <3> HIDE DEF b, x
    <3>4. (j \in 1..Len(b) /\ run'[q].blobs[j] = b[j]) \/ run'[q].blobs[j] = x
      BY <3>1
    <3> QED
      BY <3>2, <3>3, <3>4 DEF Comes, b, x
  <2>3. CASE r # q \/ Fetched(r, e).blobs = run[r].blobs
    <3> DEFINE s == Fetched(r, e)
    <3>1. Becomes(r, s) /\ (r = q => s.blobs = run[q].blobs)
      BY <2>1, <2>3
    <3> HIDE DEF s
    <3> QED
      BY <1>5, <3>1
  <2> QED
    BY <2>1, <2>2, <2>3
<1>9. ASSUME NEW r \in Runs, PushSend(r) \/ PushDrain(r) \/ PullFinish(r) \/ Crash(r)
      PROVE  Comes(q, run'[q].blobs[j])
  <2> DEFINE s == [run[r] EXCEPT !.at = "drain"]
  <2>1. s.blobs = run[r].blobs /\ (Becomes(r, s) \/ Becomes(r, Idle))
    BY <1>1, <1>9 DEF RunState, PushSend, PushDrain, PullFinish, Crash
  <2> HIDE DEF s, Idle
  <2> QED
    BY <1>5, <1>6, <2>1
<1>10. ASSUME NEW r \in Runs, PullBegin(r) PROVE Comes(q, run'[q].blobs[j])
  <2> DEFINE c == seen[Home[r]]
             at == IF Since(c) = << >> THEN "finish" ELSE "decide"
             s == [Idle EXCEPT !.at = at, !.blobs = Since(c), !.next = SinceEnd(c)]
  <2>1. \A i \in 1..Len(Since(c)) : \E k \in 1..Len(log) : Since(c)[i] = log[k]
    BY SinceType, RunsAssumption DEF Working, TypeOK
  <2>2. Becomes(r, s)
    BY <1>10 DEF PullBegin
  <2> HIDE DEF at, c
  <2>3. s.blobs = Since(c)
    BY <1>6 DEF RunState
  <2> HIDE DEF s
  <2>4. r = q => run'[q] = s
    BY <1>1, <2>2 DEF Becomes
  <2>5. r # q => Comes(q, run'[q].blobs[j])
    BY <1>5, <2>2
  <2> QED
    BY <2>1, <2>3, <2>4, <2>5 DEF Comes
<1>11. ASSUME NEW r \in Runs, PullDecide(r) \/ PullApply(r) \/ PullSkip(r)
       PROVE  Comes(q, run'[q].blobs[j])
  <2>1. run[r].at \in {"decide", "apply"} /\ run[r] \in RunState
    BY <1>1, <1>11 DEF PullDecide, PullApply, PullSkip
  <2>2. run[r].blobs # << >>
    BY <2>1 DEF Working, Progress
  <2>3. Rest(r) \in RunState /\ Rest(r).blobs = Tail(run[r].blobs)
    BY <2>1, <2>2, RestType
  <2>4. [Rest(r) EXCEPT !.applied = TRUE].blobs = Tail(run[r].blobs)
    BY <2>3 DEF RunState
  <2>5. \A p, t : [run[r] EXCEPT !.at = "apply", !.plan = p, !.target = t].blobs = run[r].blobs
    BY <2>1 DEF RunState
  <2>6. CASE Becomes(r, Rest(r))
    BY <1>5, <2>2, <2>3, <2>6
  <2>7. CASE Becomes(r, [Rest(r) EXCEPT !.applied = TRUE])
    BY <1>5, <2>2, <2>4, <2>7
  <2>8. ASSUME NEW p, NEW t, Becomes(r, [run[r] EXCEPT !.at = "apply", !.plan = p, !.target = t])
        PROVE  Comes(q, run'[q].blobs[j])
    BY <1>5, <2>5, <2>8
  <2> QED
    BY <1>11, <2>6, <2>7, <2>8 DEF PullDecide, PullApply, PullSkip
<1>12. UNCHANGED run \/ \E r \in Runs : Sync(r) \/ Crash(r)
  BY DEF Next, syncVars, Local
<1> QED
  BY <1>2, <1>7, <1>8, <1>9, <1>10, <1>11, <1>12 DEF Sync

-----------------------------------------------------------------------------
\* Nothing is on the way that nobody wrote.

\* An envelope that creates a memory is of a row its origin has.
SentFrom(table, env) ==
    env.op = "create" =>
        /\ table[env.origin][env.uid].status # "absent"
        /\ table[env.origin][env.uid].rec = env.ts

\* A row that is there has been minted, and what is sent is there.
Written ==
    /\ \A d \in Devices, u \in Uids : rows[d][u].status # "absent" => u \in minted
    /\ \A i \in 1..Len(log) : SentFrom(rows, log[i])
    /\ \A r \in Runs : \A k \in 1..Len(run[r].blobs) : SentFrom(rows, run[r].blobs[k])

\* A row never goes, and is what it was.
Lasting ==
    \A d \in Devices, u \in Uids :
        rows[d][u].status # "absent" =>
            rows'[d][u].status # "absent" /\ rows'[d][u].rec = rows[d][u].rec

LEMMA RowsLast ==
  ASSUME Written, RowsGo PROVE Lasting
<1> SUFFICES ASSUME NEW d \in Devices, NEW u \in Uids, rows[d][u].status # "absent"
             PROVE  rows'[d][u].status # "absent" /\ rows'[d][u].rec = rows[d][u].rec
  BY DEF Lasting
<1>1. CASE Stays(d, u)
  BY <1>1 DEF Stays
<1>2. CASE Fresh(d, u)
  BY <1>2 DEF Fresh, Written
<1>3. CASE Arrives(d, u)
  BY <1>3 DEF Arrives
<1>4. CASE Ends(d, u)
  BY <1>4 DEF Ends
<1> QED
  BY <1>1, <1>2, <1>3, <1>4 DEF RowsGo

LEMMA MintedGrows ==
  ASSUME [Next]_syncVars PROVE minted \subseteq minted'
<1>1. ASSUME NEW d \in Devices, Local(d) PROVE minted \subseteq minted'
  BY <1>1 DEF Local, Create, Succeeds, Retire, Forget, Purge
<1>2. ASSUME NEW r \in Runs, Sync(r) \/ Crash(r) PROVE UNCHANGED minted
  BY <1>2 DEF store, Sync, Crash, PushBegin, PushFetch, PushSend, PushDrain, PullBegin,
              PullDecide, PullApply, PullSkip, PullFinish
<1> QED
  BY <1>1, <1>2 DEF Next, syncVars, store

\* The origin of what a pull brings has written it.
LEMMA ArrivesFrom ==
  ASSUME Working, Written, NEW d \in Devices, NEW u \in Uids, Arrives(d, u)
  PROVE  \E c \in Devices :
           /\ rows[c][u].status # "absent" /\ rows'[d][u].rec = rows[c][u].rec
<1>1. PICK r \in Runs :
        /\ Home[r] = d /\ run[r].at = "apply" /\ run[r].plan # "retire"
        /\ Head(run[r].blobs).uid = u /\ rows'[d][u].rec = Head(run[r].blobs).ts
  BY DEF Arrives
<1>2. /\ run[r].blobs \in Seq(Envelope) /\ run[r].blobs # << >>
      /\ Head(run[r].blobs).op = "create"
  BY <1>1 DEF Working, TypeOK, RunState, Progress
<1> DEFINE b == run[r].blobs
<1>3. b \in Seq(Envelope) /\ b # << >> /\ \A k \in 1..Len(b) : SentFrom(rows, b[k])
  BY <1>2 DEF Written
<1>4. Head(b).op = "create" /\ Head(b).uid = u /\ rows'[d][u].rec = Head(b).ts
  BY <1>1, <1>2
<1> HIDE DEF b
<1>5. Head(b) \in Envelope /\ SentFrom(rows, Head(b))
  BY <1>3
<1> QED
  BY <1>4, <1>5 DEF SentFrom, Envelope

LEMMA SentLasts ==
  ASSUME Lasting, NEW env \in Envelope, SentFrom(rows, env) PROVE SentFrom(rows', env)
  BY DEF Lasting, SentFrom, Envelope

LEMMA WrittenStep ==
  ASSUME NoPurge, Working, Written, [Next]_syncVars PROVE Written'
<1>1. RowsGo /\ minted \subseteq minted'
  BY RowsNext, MintedGrows
<1>2. Lasting
  BY <1>1, RowsLast
<1>3. /\ log \in Seq(Envelope) /\ \A r \in Runs : run[r].blobs \in Seq(Envelope)
      /\ LocalTypes /\ \A r \in Runs : Home[r] \in Devices
  BY RunsAssumption, TypeParts DEF Working, TypeOK, RunState
<1>4. ASSUME NEW d \in Devices, NEW u \in Uids, rows'[d][u].status # "absent"
      PROVE  u \in minted'
  <2>1. CASE Stays(d, u)
    BY <1>1, <1>4, <2>1 DEF Stays, Written
  <2>2. CASE Fresh(d, u)
    BY <2>2 DEF Fresh
  <2>3. CASE Arrives(d, u)
    BY <1>1, <2>3, ArrivesFrom DEF Written
  <2>4. CASE Ends(d, u)
    BY <1>1, <2>4 DEF Ends, Written
  <2> QED
    BY <1>1, <2>1, <2>2, <2>3, <2>4 DEF RowsGo
<1>5. ASSUME NEW r \in Runs, NEW k \in 1..Len(run[r].blobs)
      PROVE  SentFrom(rows', run[r].blobs[k])
  <2>1. run[r].blobs[k] \in Envelope
    BY <1>3
  <2> QED
    BY <1>2, <2>1, SentLasts DEF Written
<1>6. ASSUME NEW k \in 1..Len(log) PROVE SentFrom(rows', log[k])
  <2>1. log[k] \in Envelope
    BY <1>3
  <2> QED
    BY <1>2, <2>1, SentLasts DEF Written
<1>7. ASSUME NEW i \in 1..Len(log') PROVE SentFrom(rows', log'[i])
  <2>1. \A j \in 1..Len(log) : log'[j] = log[j]
    BY LogGoes
  <2>2. i \in 1..Len(log) \/ \E r \in Runs : \E k \in 1..Len(run[r].blobs) : log'[i] = run[r].blobs[k]
    BY LogGoes
  <2> QED
    BY <1>5, <1>6, <2>1, <2>2
<1>8. ASSUME NEW r \in Runs, NEW k \in 1..Len(run'[r].blobs)
      PROVE  SentFrom(rows', run'[r].blobs[k])
  <2>1. ASSUME NEW e \in events[Home[r]], Ships(Home[r], e)
        PROVE  SentFrom(rows', Sealed(Home[r], e))
    <3>1. e \in Event /\ Sealed(Home[r], e) \in Envelope
      BY <1>3, SealedType DEF LocalTypes
    <3>2. SentFrom(rows, Sealed(Home[r], e))
      BY <2>1, <3>1 DEF SentFrom, Sealed, Ships, Syncable, Current, Event
    <3> QED
      BY <1>2, <3>1, <3>2, SentLasts
  <2>2. Comes(r, run'[r].blobs[k])
    BY <1>8, BlobsGo
  <2> QED
    BY <1>5, <1>6, <2>1, <2>2 DEF Comes
<1> QED
  BY <1>4, <1>7, <1>8 DEF Written

LEMMA WrittenInit == Init => Written
<1> SUFFICES ASSUME Init PROVE Written
  OBVIOUS
<1>1. \A d \in Devices, u \in Uids : rows[d][u].status # "absent" => u \in minted
  BY DEF Init, Absent
<1>2. log = << >> /\ \A r \in Runs : run[r].blobs = << >>
  BY DEF Init, RelayInit, Idle
<1> QED
  BY <1>1, <1>2 DEF Written

-----------------------------------------------------------------------------
\* The devices together are a two-phase set.

PhaseOf(row) ==
    CASE row.status = "absent" -> "unknown"
      [] row.status = "tombstone" -> "gone"
      [] OTHER -> "held"

Members(table) == [d \in Devices |-> [u \in Uids |-> PhaseOf(table[d][u])]]

LEMMA PhaseFacts ==
  ASSUME NEW row
  PROVE  /\ row.status = "absent" <=> PhaseOf(row) = "unknown"
         /\ row.status = "tombstone" <=> PhaseOf(row) = "gone"
         /\ row.status = "active" => PhaseOf(row) = "held"
         /\ PhaseOf(row) \in {"unknown", "held", "gone"}
  BY DEF PhaseOf

\* A step of the devices is a step of the set, or none.
LEMMA MembersStep ==
  ASSUME NoPurge, Working, Written, [Next]_syncVars
  PROVE  \/ Members(rows') = Members(rows)
         \/ \E d \in Devices, u \in Uids, phase \in {"held", "gone"} :
              /\ Members(rows') = [Members(rows) EXCEPT ![d][u] = phase]
              /\ \/ phase = "held" /\ \A c \in Devices : Members(rows)[c][u] = "unknown"
                 \/ /\ phase = "held" /\ Members(rows)[d][u] = "unknown"
                    /\ \E c \in Devices : Members(rows)[c][u] \in {"held", "gone"}
                 \/ phase = "gone" /\ Members(rows)[d][u] = "held"
<1>1. RowsGo
  BY RowsNext
<1>2. ASSUME NEW c \in Devices, NEW v \in Uids, Stays(c, v)
      PROVE  PhaseOf(rows'[c][v]) = PhaseOf(rows[c][v])
  BY <1>2 DEF Stays, PhaseOf
<1>3. CASE \A d \in Devices, u \in Uids : Stays(d, u)
  BY <1>2, <1>3 DEF Members
<1>4. ASSUME NEW d \in Devices, NEW u \in Uids,
             \A c \in Devices, v \in Uids : c # d \/ v # u => Stays(c, v)
      PROVE  Members(rows') = [Members(rows) EXCEPT ![d][u] = PhaseOf(rows'[d][u])]
  <2> DEFINE m == Members(rows)
             n == [m EXCEPT ![d][u] = PhaseOf(rows'[d][u])]
  <2>1. \A c \in Devices, v \in Uids :
           n[c][v] = IF c = d /\ v = u THEN PhaseOf(rows'[d][u]) ELSE PhaseOf(rows[c][v])
    BY DEF Members
  <2>2. n = [c \in Devices |-> [v \in Uids |-> n[c][v]]]
    BY DEF Members
  <2>3. \A c \in Devices, v \in Uids : n[c][v] = PhaseOf(rows'[c][v])
    BY <1>2, <1>4, <2>1
  <2> HIDE DEF n, m
  <2>4. Members(rows') = [c \in Devices |-> [v \in Uids |-> n[c][v]]]
    BY <2>3 DEF Members
  <2> QED
    BY <2>2, <2>4 DEF m, n
<1>5. ASSUME NEW d \in Devices, NEW u \in Uids
      PROVE  Members(rows)[d][u] = PhaseOf(rows[d][u])
  BY DEF Members
<1>6. ASSUME NEW d \in Devices, NEW u \in Uids,
             \A c \in Devices, v \in Uids : c # d \/ v # u => Stays(c, v),
             Fresh(d, u) \/ Arrives(d, u) \/ Ends(d, u)
      PROVE  \/ Members(rows') = Members(rows)
             \/ \E phase \in {"held", "gone"} :
                  /\ Members(rows') = [Members(rows) EXCEPT ![d][u] = phase]
                  /\ \/ phase = "held" /\ \A c \in Devices : Members(rows)[c][u] = "unknown"
                     \/ /\ phase = "held" /\ Members(rows)[d][u] = "unknown"
                        /\ \E c \in Devices : Members(rows)[c][u] \in {"held", "gone"}
                     \/ phase = "gone" /\ Members(rows)[d][u] = "held"
  <2>1. Members(rows') = [Members(rows) EXCEPT ![d][u] = PhaseOf(rows'[d][u])]
    BY <1>4, <1>6
  <2>2. CASE Fresh(d, u)
    <3>1. PhaseOf(rows'[d][u]) = "held"
      BY <2>2, PhaseFacts DEF Fresh
    <3>2. ASSUME NEW c \in Devices PROVE Members(rows)[c][u] = "unknown"
      <4>1. rows[c][u].status = "absent"
        BY <2>2 DEF Fresh, Written
      <4> QED
        BY <1>5, <4>1, PhaseFacts
    <3> QED
      BY <2>1, <3>1, <3>2
  <2>3. CASE Arrives(d, u)
    <3>1. PhaseOf(rows'[d][u]) = "held" /\ Members(rows)[d][u] = "unknown"
      BY <1>5, <2>3, PhaseFacts DEF Arrives
    <3>2. PICK c \in Devices : rows[c][u].status # "absent"
      BY <2>3, ArrivesFrom
    <3>3. Members(rows)[c][u] \in {"held", "gone"}
      BY <1>5, <3>2, PhaseFacts
    <3> QED
      BY <2>1, <3>1, <3>3
  <2>4. CASE Ends(d, u)
    <3>1. PhaseOf(rows'[d][u]) = "gone" /\ Members(rows)[d][u] \in {"held", "gone"}
      BY <1>5, <2>4, PhaseFacts DEF Ends
    <3>2. CASE Members(rows)[d][u] = "gone"
      <4> DEFINE m == Members(rows)
      <4>1. m \in [Devices -> [Uids -> {"unknown", "held", "gone"}]]
        BY PhaseFacts DEF Members
      <4>2. [m EXCEPT ![d][u] = m[d][u]] = m
        BY <4>1
      <4> QED
        BY <2>1, <3>1, <3>2, <4>2
    <3> QED
      BY <2>1, <3>1, <3>2
  <2> QED
    BY <1>6, <2>2, <2>3, <2>4
<1> QED
  BY <1>1, <1>3, <1>6 DEF RowsGo

\* Where no row is deleted for good, the devices together are a two-phase set:
\* a memory appears where a program of the device writes it, or where a pull
\* brings what another device has written, and what a device has made a
\* tombstone of never comes back to it (sync/engine.py, apply_remote; memories
\* are edited, corrected and expired meanwhile, commands overlap and die).
THEOREM SyncIsTwoPhase == NoPurge => (Spec => TwoPhase)
<1> SUFFICES ASSUME NoPurge PROVE Spec => TwoPhase
  OBVIOUS
<1>1. Init => Phases!Init
  <2> SUFFICES ASSUME Init PROVE Phases!Init
    OBVIOUS
  <2>1. \A d \in Devices, u \in Uids : rows[d][u].status \in {"absent", "active"}
    BY DEF Init, Absent
  <2>2. Members(rows) \in [Devices -> [Uids -> {"unknown", "held"}]]
    BY <2>1 DEF Members, PhaseOf
  <2> QED
    BY <2>2 DEF Phases!Init, Members, PhaseOf
<1>2. ASSUME Working, Written, [Next]_syncVars
      PROVE  \/ Members(rows') = Members(rows)
             \/ \E d \in Devices, u \in Uids :
                  \/ /\ ~\E c \in Devices : Members(rows)[c][u] \in {"held", "gone"}
                     /\ Members(rows') = [Members(rows) EXCEPT ![d][u] = "held"]
                  \/ /\ Members(rows)[d][u] = "unknown"
                     /\ \E c \in Devices : Members(rows)[c][u] \in {"held", "gone"}
                     /\ Members(rows') = [Members(rows) EXCEPT ![d][u] = "held"]
                  \/ /\ Members(rows)[d][u] = "held"
                     /\ Members(rows') = [Members(rows) EXCEPT ![d][u] = "gone"]
  BY <1>2, MembersStep
<1>3. Working /\ Written /\ [Next]_syncVars => [Phases!Next]_(Members(rows))
  <2> SUFFICES ASSUME Working, Written, [Next]_syncVars PROVE [Phases!Next]_(Members(rows))
    OBVIOUS
  <2> QED
    BY <1>2 DEF Phases!Next, Phases!Write, Phases!Learn, Phases!Forget, Phases!Become,
                Phases!Somewhere, Members, PhaseOf
<1>4. Working /\ Written /\ [Next]_syncVars => Written'
  BY WrittenStep
<1> QED
  BY <1>1, <1>3, <1>4, WrittenInit, SpecWorks, PTL DEF Spec, TwoPhase, Phases!Spec, Members, PhaseOf

-----------------------------------------------------------------------------
\* What a pull has passed is reflected.

\* Memories are created, expired and forgotten, but neither edited nor
\* corrected nor purged; the clocks agree, no write fails, and the pushes of
\* one device do not overlap.
Plain ==
    /\ LocalOps \cap {"edit", "amend", "purge"} = {}
    /\ ~Skewed /\ "locked" \notin Faults
    /\ \A p, q \in Pushers : Home[p] = Home[q] => p = q

There(d, u) == rows[d][u].status # "absent"
Made(d, u) == \E e \in events[d] : e.op = "create" /\ e.uid = u

\* A row has no parent and the recorded_at it was made with; it was made by one
\* device, and an event is of a row, a tombstone later than the row.
Dated ==
    /\ \A d \in Devices, u \in Uids : rows[d][u].parent = NoUid
    /\ \A d \in Devices, u \in Roots : There(d, u)
    /\ \A d \in Devices, u \in Uids :
         There(d, u) => /\ \E c \in Devices : rows[d][u].rec <= clock[c]
                        /\ \A c \in Devices : There(c, u) => rows[c][u].rec = rows[d][u].rec
                        /\ u \in Roots \/ Made(d, u) \/ OnLog(u)
    /\ \A d \in Devices : \A e \in events[d] :
         /\ There(d, e.uid)
         /\ e.op = "tombstone" => /\ rows[d][e.uid].status = "tombstone"
                                  /\ rows[d][e.uid].rec < e.ts
    /\ \A c, d \in Devices, u \in Uids : Made(c, u) /\ Made(d, u) => c = d

\* An envelope without a parent; a tombstone is later than the row it is of.
PlainEnvelope(table, env) ==
    /\ env.parent = NoUid
    /\ env.op = "tombstone" =>
         /\ table[env.origin][env.uid].status # "absent"
         /\ table[env.origin][env.uid].rec < env.ts

PlainEnvelopes ==
    /\ \A i \in 1..Len(log) : PlainEnvelope(rows, log[i])
    /\ \A r \in Runs : \A k \in 1..Len(run[r].blobs) : PlainEnvelope(rows, run[r].blobs[k])

\* A push carries what its device made; a pull has in hand the end of what it
\* has read of the log.
Pushed(s, d) ==
    /\ s.at \in {"idle", "fetch", "send", "drain"}
    /\ \A u \in Uids : Carries(s, u) => Made(d, u)
Pulled(s) ==
    /\ s.at \in {"idle", "decide", "apply", "finish"}
    /\ s.next <= Len(log) /\ Len(s.blobs) <= s.next
    /\ \A k \in 1..Len(s.blobs) : s.blobs[k] = log[s.next - Len(s.blobs) + k]
    /\ s.at = "finish" => Len(s.blobs) = 0
    /\ s.at = "apply" => \/ s.plan = "insert"
                         \/ s.plan = "retire" /\ Head(s.blobs).op = "tombstone"
Hands ==
    /\ \A r \in Pushers : Pushed(run[r], Home[r])
    /\ \A r \in Pullers : Pulled(run[r])
    /\ \A d \in Devices : seen[d] <= Len(log)

\* A memory that nobody will hold any more.
Dead(u) ==
    /\ u \in minted /\ ~OnLog(u)
    /\ \A r \in Pushers : ~Carries(run[r], u)
    /\ \A d \in Devices : ~Current(d, u)

\* A tombstone follows the creation of its memory on the log, unless every
\* device holds it from the start, or nobody will.
Ended(blobs, k, u) == blobs[k].uid = u /\ blobs[k].op = "tombstone"
Before(blobs, k, u) ==
    \E j \in 1..Len(blobs) : j < k /\ blobs[j].uid = u /\ blobs[j].op = "create"
InTurn(u) ==
    /\ \A i \in 1..Len(log) : Ended(log, i, u) => Before(log, i, u)
    /\ \A r \in Pushers : \A k \in 1..Len(run[r].blobs) :
         Ended(run[r].blobs, k, u) => OnLog(u) \/ Before(run[r].blobs, k, u)
Follow == \A u \in Uids \ Roots : Dead(u) \/ InTurn(u)

\* What a device shows of one envelope, and of the log up to k.
Shown(table, d, env) ==
    env.origin # d =>
        IF env.op = "create" THEN table[d][env.uid].status # "absent"
        ELSE ~(table[d][env.uid].status = "active" /\ table[d][env.uid].open)
Shows(d, k) == \A i \in 1..k : Shown(rows, d, log[i])

Reflecting ==
    /\ \A d \in Devices : Shows(d, seen[d])
    /\ \A r \in Pullers : Shows(Home[r], run[r].next - Len(run[r].blobs))


\* An event that a program of the device has just stored.
NewEvent(d, e) ==
    \/ /\ e.op = "create" /\ e.uid \in Uids \ minted /\ rows'[d][e.uid].status # "absent"
    \/ /\ e.op = "tombstone" /\ rows[d][e.uid].status # "absent"
       /\ rows'[d][e.uid].status = "tombstone"
       /\ \A c \in Devices : clock[c] < e.ts

\* One device at a time.
EventsGo ==
    \E d \in Devices :
        /\ \A c \in Devices \ {d} : events'[c] = events[c]
        /\ events[d] \subseteq events'[d]
        /\ \A e \in events'[d] : e \in events[d] \/ NewEvent(d, e)

LEMMA EventsNext ==
  ASSUME Plain, Working, [Next]_syncVars
  PROVE  (UNCHANGED events \/ EventsGo) /\ \A c \in Devices : clock[c] <= clock'[c]
<1>1. /\ LocalTypes /\ events \in [Devices -> SUBSET Event] /\ rows \in [Devices -> [Uids -> Row]]
      /\ clock \in [Devices -> 0..MaxTs] /\ \A c \in Devices : clock[c] \in Int
  BY TypeParts, SyncBoundsAssumption DEF Working, LocalTypes
<1>2. CASE UNCHANGED events /\ UNCHANGED clock
  BY <1>1, <1>2
<1>3. ASSUME NEW d \in Devices, Local(d)
      PROVE  EventsGo /\ \A c \in Devices : clock[c] <= clock'[c]
  <2>1. PICK u \in Uids, ts \in 1..MaxTs :
          \/ \E public \in BOOLEAN : Create(d, u, ts, public)
          \/ \E v \in Uids : Succeeds(d, u, v, ts)
          \/ Retire(d, u, ts) \/ Forget(d, u, ts) \/ Purge(d, u, ts)
    BY <1>3 DEF Local
  <2>2. ASSUME NEW table, NEW evs, Commits(d, ts, table, evs)
        PROVE  /\ rows'[d] = table /\ events'[d] = events[d] \cup evs
               /\ \A c \in Devices : clock[c] < ts
               /\ \A c \in Devices \ {d} : events'[c] = events[c]
    BY <1>1, <2>2 DEF Commits, Now, Plain
  <2>3. ~\E v \in Uids : Succeeds(d, u, v, ts)
    BY DEF Succeeds, Plain
  <2>4. ~Purge(d, u, ts)
    BY DEF Purge, Plain
  <2>5. ASSUME NEW public \in BOOLEAN, Create(d, u, ts, public) PROVE EventsGo
    <3> DEFINE table == [rows[d] EXCEPT ![u] = Version(NoUid, ts, public)]
               evs == Logged("create", u, ts)
    <3>1. Commits(d, ts, table, evs) /\ u \notin minted
      BY <2>5 DEF Create
    <3>2. table[u].status = "active"
      BY <1>1 DEF Version
    <3>3. \A e \in evs : e.op = "create" /\ e.uid = u
      BY DEF Logged
    <3> HIDE DEF table, evs
    <3> QED
      BY <2>2, <3>1, <3>2, <3>3 DEF EventsGo, NewEvent
  <2>6. ASSUME Retire(d, u, ts) PROVE EventsGo
    <3> DEFINE table == [rows[d] EXCEPT ![u].open = FALSE]
    <3>1. Commits(d, ts, table, {})
      BY <2>6 DEF Retire
    <3> HIDE DEF table
    <3>2. events'[d] = events[d] /\ \A c \in Devices \ {d} : events'[c] = events[c]
      BY <2>2, <3>1
    <3> QED
      BY <3>2 DEF EventsGo
  <2>7. ASSUME Forget(d, u, ts) PROVE EventsGo
    <3> DEFINE table == [rows[d] EXCEPT ![u].status = "tombstone", ![u].open = FALSE]
               evs == Logged("tombstone", u, ts)
    <3>1. Commits(d, ts, table, evs) /\ rows[d][u].status # "absent"
      BY <2>7 DEF Forget, Current
    <3>2. table[u].status = "tombstone"
      BY <1>1 DEF Row
    <3>3. \A e \in evs : e.op = "tombstone" /\ e.uid = u /\ e.ts = ts
      BY DEF Logged
    <3> HIDE DEF table, evs
    <3>4. /\ rows'[d] = table /\ events'[d] = events[d] \cup evs
          /\ \A c \in Devices : clock[c] < ts
          /\ \A c \in Devices \ {d} : events'[c] = events[c]
      BY <2>2, <3>1
    <3>5. \A e \in evs : NewEvent(d, e)
      BY <3>1, <3>2, <3>3, <3>4 DEF NewEvent
    <3> QED
      BY <3>4, <3>5 DEF EventsGo
  <2>8. EventsGo
    BY <2>1, <2>3, <2>4, <2>5, <2>6, <2>7
  <2>9. \A c \in Devices : clock[c] <= clock'[c]
    BY <1>1, <1>3, LocalEvents
  <2> QED
    BY <2>8, <2>9
<1>4. ASSUME NEW r \in Runs, Sync(r) \/ Crash(r) PROVE UNCHANGED events /\ UNCHANGED clock
  BY <1>4 DEF store, Sync, Crash, PushBegin, PushFetch, PushSend, PushDrain, PullBegin,
              PullDecide, PullApply, PullSkip, PullFinish
<1> QED
  BY <1>2, <1>3, <1>4 DEF Next, syncVars, store

\* What a pull is about to insert is on the log.
LEMMA ArrivesLogged ==
  ASSUME Working, Hands, PlainEnvelopes, NEW d \in Devices, NEW u \in Uids, Arrives(d, u)
  PROVE  OnLog(u) /\ rows'[d][u].parent = NoUid
<1>1. PICK r \in Runs :
        /\ Home[r] = d /\ run[r].at = "apply" /\ run[r].plan # "retire"
        /\ Head(run[r].blobs).uid = u
        /\ rows'[d][u].parent = Anchor(Head(run[r].blobs), run[r].plan)
  BY DEF Arrives
<1>2. r \in Pullers /\ Pulled(run[r])
  BY <1>1 DEF Hands, Pushed, Runs
<1>3. /\ run[r].blobs \in Seq(Envelope) /\ run[r].blobs # << >> /\ run[r].next \in Nat
      /\ log \in Seq(Envelope) /\ Head(run[r].blobs).op = "create"
  BY <1>1 DEF Working, TypeOK, RunState, Progress
<1> DEFINE b == run[r].blobs
           n == run[r].next
<1>4. /\ b \in Seq(Envelope) /\ b # << >> /\ n \in Nat /\ n <= Len(log) /\ Len(b) <= n
      /\ Head(b).op = "create" /\ Head(b).uid = u
      /\ \A k \in 1..Len(b) : b[k] = log[n - Len(b) + k]
      /\ \A k \in 1..Len(b) : PlainEnvelope(rows, b[k])
  BY <1>1, <1>2, <1>3 DEF Pulled, PlainEnvelopes
<1> HIDE DEF b, n
<1>5. 1 \in 1..Len(b) /\ Head(b) = b[1] /\ n - Len(b) + 1 \in 1..Len(log)
  BY <1>3, <1>4
<1>6. OnLog(u)
  BY <1>4, <1>5 DEF OnLog
<1>7. Head(b).parent = NoUid
  BY <1>4, <1>5 DEF PlainEnvelope
<1> QED
  BY <1>1, <1>6, <1>7 DEF Anchor, b

LEMMA OnLogStays ==
  ASSUME Working, [Next]_syncVars, NEW u, OnLog(u) PROVE OnLog(u)'
<1>1. PICK i \in 1..Len(log) : log[i].uid = u /\ log[i].op = "create"
  BY DEF OnLog
<1>2. log'[i] = log[i] /\ i \in 1..Len(log')
  BY LogGoes
<1> QED
  BY <1>1, <1>2 DEF OnLog

\* A tombstone stays one.
LEMMA EndedStays ==
  ASSUME Written, RowsGo, NEW d \in Devices, NEW u \in Uids, rows[d][u].status = "tombstone"
  PROVE  rows'[d][u].status = "tombstone"
  BY DEF RowsGo, Stays, Fresh, Arrives, Ends, Written

LEMMA MadeNext ==
  ASSUME Plain, Working, Written, Dated, [Next]_syncVars, NEW d \in Devices, NEW u \in Uids
  PROVE  /\ Made(d, u) => Made(d, u)'
         /\ Fresh(d, u) => Made(d, u)'
         /\ Made(d, u)' => Made(d, u) \/ (u \notin minted /\ EventsGo)
<1>1. UNCHANGED events \/ EventsGo
  BY EventsNext
<1>2. Made(d, u) => Made(d, u)'
  BY <1>1 DEF Made, EventsGo
<1>3. Fresh(d, u) => Made(d, u)'
  BY DEF Fresh, Made, Plain
<1>4. Made(d, u)' => Made(d, u) \/ (u \notin minted /\ EventsGo)
  BY <1>1 DEF Made, EventsGo, NewEvent
<1> QED
  BY <1>2, <1>3, <1>4

LEMMA DatedStep ==
  ASSUME Plain, Working, Written, Dated, PlainEnvelopes, Hands, [Next]_syncVars
  PROVE  Dated'
<1>1. RowsGo /\ Lasting
  BY RowsNext, RowsLast DEF Plain, NoPurge
<1>2. /\ UNCHANGED events \/ EventsGo
      /\ \A c \in Devices : clock[c] <= clock'[c] /\ clock[c] \in Int /\ clock'[c] \in Int
  <2>1. Working'
    BY WorkingStep
  <2>2. clock \in [Devices -> 0..MaxTs] /\ clock' \in [Devices -> 0..MaxTs]
    BY <2>1 DEF Working, TypeOK
  <2> QED
    BY <2>2, EventsNext, SyncBoundsAssumption
<1>3. /\ rows \in [Devices -> [Uids -> Row]]
      /\ \A d \in Devices, u \in Uids : rows[d][u].rec \in Int
      /\ events \in [Devices -> SUBSET Event]
      /\ \A d \in Devices : \A e \in events[d] : e.uid \in Uids /\ e.ts \in Int
      /\ events' \in [Devices -> SUBSET Event]
      /\ \A d \in Devices : \A e \in events'[d] : e.uid \in Uids /\ e.ts \in Int
  <2>1. Working'
    BY WorkingStep
  <2>2. /\ rows \in [Devices -> [Uids -> Row]] /\ events \in [Devices -> SUBSET Event]
        /\ events' \in [Devices -> SUBSET Event]
    BY <2>1 DEF Working, TypeOK
  <2>3. \A row \in Row : row.rec \in Int
    BY SyncBoundsAssumption DEF Row
  <2>4. \A e \in Event : e.uid \in Uids /\ e.ts \in Int
    BY SyncBoundsAssumption DEF Event
  <2>5. \A d \in Devices, u \in Uids : rows[d][u] \in Row
    BY <2>2
  <2>6. \A d \in Devices : events[d] \subseteq Event /\ events'[d] \subseteq Event
    BY <2>2
  <2> QED
    BY <2>2, <2>3, <2>4, <2>5, <2>6
<1>4. ASSUME NEW d \in Devices, NEW u \in Uids PROVE rows'[d][u].parent = NoUid
  <2>1. Stays(d, u) \/ Fresh(d, u) \/ Arrives(d, u) \/ Ends(d, u)
    BY <1>1 DEF RowsGo
  <2>2. rows[d][u].parent = NoUid
    BY DEF Dated
  <2>3. CASE Fresh(d, u)
    BY <2>3 DEF Fresh, Plain
  <2>4. CASE Arrives(d, u)
    BY <2>4, ArrivesLogged
  <2> QED
    BY <2>1, <2>2, <2>3, <2>4 DEF Stays, Ends
<1>5. \A d \in Devices, u \in Roots : rows'[d][u].status # "absent"
  BY <1>1, UidsAssumption DEF Dated, Lasting, There
<1>6. ASSUME NEW d \in Devices, NEW u \in Uids, NEW c \in Devices,
             rows[d][u].status # "absent", rows'[c][u].status # "absent"
      PROVE  rows'[c][u].rec = rows[d][u].rec
  <2>1. Stays(c, u) \/ Fresh(c, u) \/ Arrives(c, u) \/ Ends(c, u)
    BY <1>1 DEF RowsGo
  <2>2. CASE rows[c][u].status # "absent"
    BY <1>1, <1>6, <2>2 DEF Lasting, Dated, There
  <2>3. ~Fresh(c, u)
    BY <1>6 DEF Fresh, Written
  <2>4. CASE Arrives(c, u)
    <3>1. PICK b \in Devices : rows[b][u].status # "absent" /\ rows'[c][u].rec = rows[b][u].rec
      BY <2>4, ArrivesFrom
    <3> QED
      BY <1>6, <3>1 DEF Dated, There
  <2> QED
    BY <1>6, <2>1, <2>2, <2>3, <2>4 DEF Stays, Ends
<1>7. ASSUME NEW d \in Devices, NEW u \in Uids, rows'[d][u].status # "absent"
      PROVE  /\ \E c \in Devices : rows'[d][u].rec <= clock'[c]
             /\ \A c \in Devices : rows'[c][u].status # "absent" => rows'[c][u].rec = rows'[d][u].rec
             /\ u \in Roots \/ Made(d, u)' \/ OnLog(u)'
  <2>1. ASSUME NEW b \in Devices, rows[b][u].status # "absent"
        PROVE  /\ \E c \in Devices : rows'[d][u].rec <= clock'[c]
               /\ \A c \in Devices :
                    rows'[c][u].status # "absent" => rows'[c][u].rec = rows'[d][u].rec
    <3>1. PICK c \in Devices : rows[b][u].rec <= clock[c]
      BY <2>1 DEF Dated, There
    <3>2. rows'[d][u].rec = rows[b][u].rec
      BY <1>6, <1>7, <2>1
    <3>3. rows'[d][u].rec <= clock'[c]
      BY <1>2, <1>3, <3>1, <3>2
    <3> QED
      BY <1>6, <2>1, <3>2, <3>3
  <2>2. Stays(d, u) \/ Fresh(d, u) \/ Arrives(d, u) \/ Ends(d, u)
    BY <1>1 DEF RowsGo
  <2>3. CASE rows[d][u].status # "absent"
    <3>1. u \in Roots \/ Made(d, u) \/ OnLog(u)
      BY <2>3 DEF Dated, There
    <3>2. u \in Roots \/ Made(d, u)' \/ OnLog(u)'
      BY <3>1, MadeNext, OnLogStays
    <3> QED
      BY <2>1, <2>3, <3>2
  <2>4. CASE Fresh(d, u)
    <3>1. Made(d, u)'
      BY <2>4, MadeNext
    <3>2. rows'[d][u].rec <= clock'[d]
      BY <1>2, <2>4 DEF Fresh
    <3>3. ASSUME NEW c \in Devices, c # d PROVE rows'[c][u].status = "absent"
      <4>1. rows[c][u].status = "absent" /\ rows[d][u].status = "absent" /\ rows'[d][u].status = "active"
        BY <2>4 DEF Fresh, Written
      <4>2. ~Stays(d, u)
        BY <4>1 DEF Stays
      <4> QED
        BY <1>1, <3>3, <4>1, <4>2 DEF RowsGo, Stays
    <3> QED
      BY <3>1, <3>2, <3>3
  <2>5. CASE Arrives(d, u)
    <3>1. PICK b \in Devices : rows[b][u].status # "absent"
      BY <2>5, ArrivesFrom
    <3>2. OnLog(u)'
      BY <2>5, ArrivesLogged, OnLogStays
    <3> QED
      BY <2>1, <3>1, <3>2
  <2> QED
    BY <1>7, <2>2, <2>3, <2>4, <2>5 DEF Stays, Ends
<1>8. ASSUME NEW d \in Devices, NEW e \in events'[d]
      PROVE  /\ rows'[d][e.uid].status # "absent"
             /\ e.op = "tombstone" => /\ rows'[d][e.uid].status = "tombstone"
                                      /\ rows'[d][e.uid].rec < e.ts
  <2>1. e \in events[d] \/ NewEvent(d, e)
    BY <1>2 DEF EventsGo
  <2>2. e.uid \in Uids /\ e.ts \in Int
    BY <1>3
  <2>3. CASE e \in events[d]
    <3>1. /\ rows[d][e.uid].status # "absent"
          /\ e.op = "tombstone" => /\ rows[d][e.uid].status = "tombstone"
                                   /\ rows[d][e.uid].rec < e.ts
      BY <2>3 DEF Dated, There
    <3> QED
      BY <1>1, <2>2, <3>1, EndedStays DEF Lasting
  <2>4. CASE e.op = "create" /\ rows'[d][e.uid].status # "absent"
    BY <2>4
  <2>5. CASE /\ e.op = "tombstone" /\ rows[d][e.uid].status # "absent"
             /\ rows'[d][e.uid].status = "tombstone" /\ \A c \in Devices : clock[c] < e.ts
    <3>1. PICK c \in Devices : rows[d][e.uid].rec <= clock[c]
      BY <2>2, <2>5 DEF Dated, There
    <3>2. rows'[d][e.uid].rec = rows[d][e.uid].rec
      BY <1>1, <2>2, <2>5 DEF Lasting
    <3>3. rows[d][e.uid].rec < e.ts
      BY <1>2, <1>3, <2>2, <2>5, <3>1
    <3> QED
      BY <2>5, <3>2, <3>3
  <2> QED
    BY <2>1, <2>3, <2>4, <2>5 DEF NewEvent
<1>9. ASSUME NEW c \in Devices, NEW d \in Devices, NEW u \in Uids, Made(c, u)', Made(d, u)'
      PROVE  c = d
  <2>1. ASSUME NEW b \in Devices, Made(b, u) PROVE u \in minted
    BY <2>1 DEF Made, Dated, There, Written
  <2>2. CASE Made(c, u) /\ Made(d, u)
    BY <2>2 DEF Dated
  <2>3. CASE u \notin minted /\ EventsGo
    <3>1. ~Made(c, u) /\ ~Made(d, u)
      BY <2>1, <2>3
    <3>2. events'[c] # events[c] /\ events'[d] # events[d]
      BY <1>9, <3>1 DEF Made
    <3> QED
      BY <2>3, <3>2 DEF EventsGo
  <2>4. CASE u \in minted
    BY <1>9, <2>2, <2>4, MadeNext
  <2>5. CASE u \notin minted
    <3>1. EventsGo
      BY <1>9, <2>1, <2>5, MadeNext
    <3> QED
      BY <2>3, <2>5, <3>1
  <2> QED
    BY <2>4, <2>5
<1> QED
  BY <1>4, <1>5, <1>7, <1>8, <1>9 DEF Dated, There

LEMMA PlainEnvelopeLasts ==
  ASSUME Lasting, NEW env \in Envelope, PlainEnvelope(rows, env) PROVE PlainEnvelope(rows', env)
  BY DEF Lasting, PlainEnvelope, Envelope

LEMMA PlainEnvelopesStep ==
  ASSUME Plain, Working, Written, Dated, PlainEnvelopes, [Next]_syncVars
  PROVE  PlainEnvelopes'
<1>1. Lasting
  BY RowsNext, RowsLast DEF Plain, NoPurge
<1>2. /\ log \in Seq(Envelope) /\ \A r \in Runs : run[r].blobs \in Seq(Envelope)
      /\ LocalTypes /\ \A r \in Runs : Home[r] \in Devices
  BY RunsAssumption, TypeParts DEF Working, TypeOK, RunState
<1>3. ASSUME NEW r \in Runs, NEW k \in 1..Len(run[r].blobs) PROVE PlainEnvelope(rows', run[r].blobs[k])
  <2>1. run[r].blobs[k] \in Envelope
    BY <1>2
  <2> QED
    BY <1>1, <2>1, PlainEnvelopeLasts DEF PlainEnvelopes
<1>4. ASSUME NEW k \in 1..Len(log) PROVE PlainEnvelope(rows', log[k])
  <2>1. log[k] \in Envelope
    BY <1>2
  <2> QED
    BY <1>1, <2>1, PlainEnvelopeLasts DEF PlainEnvelopes
<1>5. ASSUME NEW i \in 1..Len(log') PROVE PlainEnvelope(rows', log'[i])
  <2>1. \A j \in 1..Len(log) : log'[j] = log[j]
    BY LogGoes
  <2>2. i \in 1..Len(log) \/ \E r \in Runs : \E k \in 1..Len(run[r].blobs) : log'[i] = run[r].blobs[k]
    BY LogGoes
  <2> QED
    BY <1>3, <1>4, <2>1, <2>2
<1>6. ASSUME NEW r \in Runs, NEW k \in 1..Len(run'[r].blobs) PROVE PlainEnvelope(rows', run'[r].blobs[k])
  <2>1. ASSUME NEW e \in events[Home[r]], Ships(Home[r], e)
        PROVE  PlainEnvelope(rows', Sealed(Home[r], e))
    <3>1. e \in Event /\ Sealed(Home[r], e) \in Envelope /\ Home[r] \in Devices /\ e.uid \in Uids
      BY <1>2, SealedType DEF LocalTypes, Event
    <3>2. PlainEnvelope(rows, Sealed(Home[r], e))
      BY <3>1 DEF PlainEnvelope, Sealed, Dated, There, Event
    <3> QED
      BY <1>1, <3>1, <3>2, PlainEnvelopeLasts
  <2>2. Comes(r, run'[r].blobs[k])
    BY <1>6, BlobsGo
  <2> QED
    BY <1>3, <1>4, <2>1, <2>2 DEF Comes
<1> QED
  BY <1>5, <1>6 DEF PlainEnvelopes

\* What becomes of a push, and of a pull.
Pushes(p) ==
    /\ run'[p].at \in {"idle", "fetch", "send", "drain"}
    /\ \/ run'[p].blobs = << >>
       \/ run'[p].blobs = run[p].blobs
       \/ /\ PushFetch(p)
          /\ \E e \in events[Home[p]] :
               /\ Ships(Home[p], e)
               /\ run'[p].blobs = Append(run[p].blobs, Sealed(Home[p], e))

Stops(q) == run'[q].at = "idle" /\ run'[q].next = 0 /\ run'[q].blobs = << >>
Begins(q) ==
    /\ UNCHANGED log /\ run'[q].at \in {"decide", "finish"}
    /\ run'[q].blobs = Since(seen[Home[q]]) /\ run'[q].next = SinceEnd(seen[Home[q]])
    /\ run'[q].at = "finish" => run'[q].blobs = << >>
Waits(q) ==
    /\ run'[q].blobs = run[q].blobs /\ run'[q].next = run[q].next
    /\ \/ run'[q].at = run[q].at /\ run'[q].plan = run[q].plan
       \/ /\ run[q].at = "decide" /\ run'[q].at = "apply"
          /\ \/ run'[q].plan = "insert"
             \/ run'[q].plan = "retire" /\ Head(run[q].blobs).op = "tombstone"
Passes(q) ==
    /\ run[q].at \in {"decide", "apply"}
    /\ run'[q].blobs = Tail(run[q].blobs) /\ run'[q].next = run[q].next
    /\ run'[q].at \in {"decide", "finish"}
    /\ run'[q].at = "finish" => Len(run[q].blobs) = 1
    /\ Shown(rows', Home[q], Head(run[q].blobs))
Pulls(q) == Stops(q) \/ Begins(q) \/ Waits(q) \/ Passes(q)

LEMMA PushGoes ==
  ASSUME Working, Hands, NEW r \in Pushers, Sync(r) \/ Crash(r)
  PROVE  Pushes(r)
<1>1. /\ r \in Runs /\ run \in [Runs -> RunState] /\ run[r] \in RunState
      /\ r \notin Pullers /\ run[r].at \in {"idle", "fetch", "send", "drain"}
      /\ run[r].page \subseteq events[Home[r]]
  BY RunsAssumption DEF Runs, Working, TypeOK, Hands, Pushed, Progress
<1>2. ASSUME NEW s, Becomes(r, s) PROVE run'[r] = s
  BY <1>1, <1>2 DEF Becomes
<1>3. Idle.at = "idle" /\ Idle.blobs = << >>
  BY DEF Idle
<1>4. CASE Becomes(r, Idle)
  BY <1>2, <1>3, <1>4 DEF Pushes
<1>5. CASE PushBegin(r)
  <2> DEFINE s == [Idle EXCEPT !.at = "fetch", !.page = Page(Home[r]),
                               !.next = NextCursor(Home[r])]
  <2>1. s.blobs = << >> /\ s.at = "fetch" /\ Becomes(r, s)
    BY <1>5, IdleType DEF RunState, PushBegin, Idle
  <2> HIDE DEF s
  <2> QED
    BY <1>2, <2>1 DEF Pushes
<1>6. CASE PushFetch(r)
  <2>1. PICK e \in run[r].page :
            /\ Becomes(r, Fetched(r, e))
            /\ Fetched(r, e).at \in {"fetch", "send", "drain"}
            /\ \/ Fetched(r, e).blobs = run[r].blobs
               \/ /\ Fetched(r, e).blobs = Append(run[r].blobs, Sealed(Home[r], e))
                  /\ Ships(Home[r], e)
    BY <1>1, <1>6, FetchFacts
  <2>2. run'[r] = Fetched(r, e) /\ e \in events[Home[r]]
    BY <1>1, <1>2, <2>1
  <2> HIDE DEF Fetched
  <2> QED
    BY <1>6, <2>1, <2>2 DEF Pushes
<1>7. CASE PushSend(r)
  <2> DEFINE s == [run[r] EXCEPT !.at = "drain"]
  <2>1. s.blobs = run[r].blobs /\ s.at = "drain" /\ (Becomes(r, s) \/ Becomes(r, Idle))
    BY <1>1, <1>7 DEF RunState, PushSend
  <2> HIDE DEF s
  <2> QED
    BY <1>2, <1>4, <2>1 DEF Pushes
<1>8. CASE PushDrain(r) \/ Crash(r)
  BY <1>4, <1>8 DEF PushDrain, Crash
<1> QED
  BY <1>1, <1>5, <1>6, <1>7, <1>8 DEF Sync, PullBegin, PullDecide, PullApply, PullSkip, PullFinish

\* Without edits an envelope is inserted, retires its memory, or is ignored.
LEMMA PlainDecisions ==
  ASSUME Dated, Working, NEW d \in Devices, NEW env \in Envelope, PlainEnvelope(rows, env)
  PROVE  /\ \A plan \in Plans : \A target : Decision(d, env, plan, target) =>
              plan = "insert" \/ (plan = "retire" /\ env.op = "tombstone")
         /\ Ignores(d, env) => Shown(rows, d, env)
<1>1. ~Known(d, env.parent) /\ env.uid \in Uids /\ env.op \in {"create", "tombstone"}
      /\ env.origin \in Devices /\ env.uid # NoUid /\ env.ts \in Int
  BY UidsAssumption, SyncBoundsAssumption DEF PlainEnvelope, Known, Envelope, NoUid
<1>2. ~Follows(d, env) /\ ~Rivals(d, env)
  BY <1>1 DEF Follows, Rivals
<1>3. ASSUME env.op = "tombstone", rows[d][env.uid].status = "active", ~(env.ts > rows[d][env.uid].rec)
      PROVE  FALSE
  <2>1. rows[env.origin][env.uid].status # "absent" /\ rows[env.origin][env.uid].rec < env.ts
    BY <1>3 DEF PlainEnvelope
  <2>2. rows[d][env.uid].rec = rows[env.origin][env.uid].rec
    BY <1>1, <1>3, <2>1 DEF Dated, There
  <2> QED
    BY <1>1, <1>3, <2>1, <2>2
<1>4. ~Retires(d, env) /\ ~New(d, env) => Shown(rows, d, env)
  BY <1>1, <1>3 DEF Retires, New, Shown, Known
<1> QED
  BY <1>2, <1>4 DEF Decision, Ignores, Retires, Plans

LEMMA PullGoes ==
  ASSUME Plain, Working, Dated, PlainEnvelopes, Hands, NEW r \in Pullers, Sync(r) \/ Crash(r)
  PROVE  Pulls(r)
<1>1. /\ r \in Runs /\ run \in [Runs -> RunState] /\ run[r] \in RunState
      /\ r \notin Pushers /\ run[r].at \in {"idle", "decide", "apply", "finish"}
      /\ Home[r] \in Devices /\ Pulled(run[r]) /\ LocalTypes /\ Progress(run[r], Home[r])
  BY RunsAssumption, TypeParts DEF Runs, Working, TypeOK, Hands, Pulled
<1>2. ASSUME NEW s, Becomes(r, s) PROVE run'[r] = s
  BY <1>1, <1>2 DEF Becomes
<1>3. Idle.at = "idle" /\ Idle.blobs = << >> /\ Idle.next = 0
  BY DEF Idle
<1>4. CASE Becomes(r, Idle)
  BY <1>2, <1>3, <1>4 DEF Pulls, Stops
<1>5. CASE PullBegin(r)
  <2> DEFINE c == seen[Home[r]]
             at == IF Since(c) = << >> THEN "finish" ELSE "decide"
             s == [Idle EXCEPT !.at = at, !.blobs = Since(c), !.next = SinceEnd(c)]
  <2>1. Becomes(r, s) /\ UNCHANGED log
    BY <1>5 DEF PullBegin
  <2>2. at \in {"decide", "finish"} /\ (at = "finish" => Since(c) = << >>)
    OBVIOUS
  <2> HIDE DEF at, c
  <2>3. s.blobs = Since(c) /\ s.at = at /\ s.next = SinceEnd(c)
    BY IdleType DEF RunState, Idle
  <2> HIDE DEF s
  <2> QED
    BY <1>2, <2>1, <2>2, <2>3 DEF Pulls, Begins, c
<1> DEFINE b == run[r].blobs
           env == Head(b)
<1>6. ASSUME run[r].at \in {"decide", "apply"}
      PROVE  /\ b \in Seq(Envelope) /\ b # << >> /\ env \in Envelope
             /\ Rest(r) \in RunState /\ Rest(r).blobs = Tail(b) /\ Rest(r).next = run[r].next
             /\ Rest(r).at \in {"decide", "finish"} /\ (Rest(r).at = "finish" => Len(b) = 1)
             /\ PlainEnvelope(rows, env)
  <2>1. b \in Seq(Envelope) /\ b # << >> /\ \A k \in 1..Len(b) : PlainEnvelope(rows, b[k])
    BY <1>1, <1>6 DEF RunState, Progress, PlainEnvelopes
  <2>2. 1 \in 1..Len(b) /\ b[1] = Head(b)
    BY <2>1
  <2>3. Rest(r).at = "finish" => Len(b) = 1
    BY <1>1 DEF Rest, RunState
  <2> QED
    BY <1>1, <2>1, <2>2, <2>3, RestType
<1>7. ASSUME run[r].at \in {"decide", "apply"}, Shown(rows', Home[r], env),
             Becomes(r, Rest(r)) \/ Becomes(r, [Rest(r) EXCEPT !.applied = TRUE])
      PROVE  Pulls(r)
  <2> DEFINE s == [Rest(r) EXCEPT !.applied = TRUE]
  <2>1. s.blobs = Rest(r).blobs /\ s.next = Rest(r).next /\ s.at = Rest(r).at
    BY <1>6, <1>7 DEF RunState
  <2>2. Becomes(r, Rest(r)) \/ Becomes(r, s)
    BY <1>7
  <2> HIDE DEF s, b, env
  <2>3. /\ run'[r].blobs = Tail(b) /\ run'[r].next = run[r].next
        /\ run'[r].at \in {"decide", "finish"} /\ (run'[r].at = "finish" => Len(b) = 1)
    BY <1>2, <1>6, <1>7, <2>1, <2>2
  <2> QED
    BY <1>7, <2>3 DEF Pulls, Passes, b, env
<1>8. CASE PullDecide(r)
  <2>1. run[r].at = "decide" /\ UNCHANGED rows
    BY <1>8 DEF PullDecide, store
  <2>2. CASE (env.origin = Home[r] \/ Ignores(Home[r], env)) /\ Becomes(r, Rest(r))
    <3>1. Shown(rows, Home[r], env)
      BY <1>1, <1>6, <2>1, <2>2, PlainDecisions DEF Shown
    <3> QED
      BY <1>7, <2>1, <2>2, <3>1
  <2>3. ASSUME NEW plan \in Plans, NEW target \in Uids \cup {NoUid},
               Decision(Home[r], env, plan, target),
               Becomes(r, [run[r] EXCEPT !.at = "apply", !.plan = plan, !.target = target])
        PROVE  Pulls(r)
    <3> DEFINE s == [run[r] EXCEPT !.at = "apply", !.plan = plan, !.target = target]
    <3>1. s.at = "apply" /\ s.plan = plan /\ s.blobs = b /\ s.next = run[r].next
      BY <1>1 DEF RunState
    <3>2. plan = "insert" \/ (plan = "retire" /\ env.op = "tombstone")
      BY <1>1, <1>6, <2>1, <2>3, PlainDecisions
    <3>3. run'[r] = s
      BY <1>2, <2>3
    <3> HIDE DEF s
    <3> QED
      BY <2>1, <3>1, <3>2, <3>3 DEF Pulls, Waits
  <2> QED
    BY <1>8, <2>2, <2>3 DEF PullDecide
<1>9. CASE PullSkip(r)
  <2>1. run[r].at = "apply" /\ UNCHANGED rows /\ ~Fits(Home[r], env, run[r].plan) /\ Becomes(r, Rest(r))
    BY <1>9 DEF PullSkip, store, Plain
  <2>2. run[r].plan = "insert" /\ env.op = "create"
    BY <1>1, <2>1 DEF Pulled, Fits, Progress
  <2>3. Shown(rows, Home[r], env)
    BY <2>1, <2>2 DEF Fits, Shown, Known
  <2> QED
    BY <1>7, <2>1, <2>3
<1>10. CASE PullApply(r)
  <2>1. /\ run[r].at = "apply" /\ rows' = [rows EXCEPT ![Home[r]] = Applied(r)]
        /\ Becomes(r, [Rest(r) EXCEPT !.applied = TRUE])
    BY <1>10 DEF PullApply, Applied
  <2>2. rows'[Home[r]] = Applied(r) /\ rows[Home[r]] \in [Uids -> Row] /\ env.uid \in Uids
    BY <1>1, <1>6, <2>1 DEF LocalTypes, Envelope
  <2>3. CASE run[r].plan = "insert"
    <3>1. env.op = "create"
      BY <1>1, <2>1, <2>3 DEF Progress
    <3>2. Applied(r)[env.uid] = Version(Anchor(env, run[r].plan), env.ts, TRUE)
      BY <2>2, <2>3 DEF Applied, Replaced
    <3>3. Applied(r)[env.uid].status = "active"
      BY <3>2 DEF Version
    <3> HIDE DEF env
    <3>4. Shown(rows', Home[r], env)
      BY <2>2, <3>1, <3>3 DEF Shown
    <3> QED
      BY <1>7, <2>1, <3>4 DEF env
  <2>4. CASE run[r].plan = "retire" /\ env.op = "tombstone"
    <3> DEFINE u == env.uid
               old == [rows[Home[r]][u] EXCEPT !.status = "tombstone", !.open = FALSE]
               table == [rows[Home[r]] EXCEPT ![u] = old]
    <3>1. [rows[Home[r]] EXCEPT ![u].status = "tombstone", ![u].open = FALSE] = table
      OBVIOUS
    <3>2. table[u] = old /\ old.status = "tombstone"
      BY <2>2, RowEnds
    <3>3. \/ rows[Home[r]][u].status = "absent" /\ Applied(r) = rows[Home[r]]
          \/ Applied(r) = table
      BY <2>4, <3>1 DEF Applied, Retired
    <3> HIDE DEF table, old
    <3>4. rows'[Home[r]][u].status # "active"
      BY <2>2, <3>2, <3>3
    <3>5. Shown(rows', Home[r], env)
      BY <2>4, <3>4 DEF Shown
    <3> QED
      BY <1>7, <2>1, <3>5
  <2> QED
    BY <1>1, <2>1, <2>3, <2>4 DEF Pulled
<1>11. CASE PullFinish(r) \/ Crash(r)
  BY <1>4, <1>11 DEF PullFinish, Crash
<1> QED
  BY <1>1, <1>5, <1>8, <1>9, <1>10, <1>11 DEF Sync, PushBegin, PushFetch, PushSend, PushDrain

\* The commands, the log and the cursors, in one step.
LEMMA HandsNext ==
  ASSUME Plain, Working, Dated, PlainEnvelopes, Hands, [Next]_syncVars
  PROVE  /\ \A p \in Pushers : Pushes(p)
         /\ \A q \in Pullers : Pulls(q)
         /\ UNCHANGED log \/ \E p \in Pushers : log' = log \o run[p].blobs
         /\ \A d \in Devices :
              \/ seen'[d] = seen[d]
              \/ \E q \in Pullers : /\ Home[q] = d /\ run[q].at = "finish"
                                    /\ seen'[d] = run[q].next
<1>1. /\ run \in [Runs -> RunState] /\ seen \in [Devices -> Nat]
      /\ \A r \in Runs : Home[r] \in Devices
      /\ Pushers \subseteq Runs /\ Pullers \subseteq Runs /\ Pushers \cap Pullers = {}
  BY RunsAssumption DEF Runs, Working, TypeOK
<1>2. ASSUME NEW r \in Runs, run'[r] = run[r]
      PROVE  (r \in Pushers => Pushes(r)) /\ (r \in Pullers => Pulls(r))
  BY <1>1, <1>2 DEF Hands, Pushed, Pushes, Pulls, Waits
<1>3. CASE UNCHANGED run /\ UNCHANGED log /\ UNCHANGED seen
  BY <1>1, <1>2, <1>3
<1>4. ASSUME NEW r \in Runs, Sync(r) \/ Crash(r)
      PROVE  /\ \A p \in Pushers : Pushes(p)
             /\ \A q \in Pullers : Pulls(q)
  <2>1. \E s : Becomes(r, s)
    BY <1>4 DEF Sync, Crash, PushBegin, PushFetch, PushSend, PushDrain, PullBegin, PullDecide,
                PullApply, PullSkip, PullFinish
  <2>2. \A q \in Runs \ {r} : run'[q] = run[q]
    BY <1>1, <2>1 DEF Becomes
  <2> QED
    BY <1>1, <1>2, <1>4, <2>2, PushGoes, PullGoes
<1>5. ASSUME NEW r \in Runs, Sync(r) \/ Crash(r)
      PROVE  UNCHANGED log \/ \E p \in Pushers : log' = log \o run[p].blobs
  <2>1. UNCHANGED log \/ (log' = log \o run[r].blobs /\ run[r].at = "send")
    BY <1>5 DEF Sync, Crash, PushBegin, PushFetch, PushSend, PushDrain, PullBegin, PullDecide,
                PullApply, PullSkip, PullFinish, AppendBlobs
  <2>2. run[r].at = "send" => r \in Pushers
    BY DEF Runs, Hands, Pulled
  <2> QED
    BY <2>1, <2>2
<1>6. ASSUME NEW r \in Runs, Sync(r) \/ Crash(r), NEW d \in Devices
      PROVE  \/ seen'[d] = seen[d]
             \/ \E q \in Pullers : /\ Home[q] = d /\ run[q].at = "finish"
                                   /\ seen'[d] = run[q].next
  <2>1. \/ UNCHANGED seen
        \/ run[r].at = "finish" /\ seen' = [seen EXCEPT ![Home[r]] = run[r].next]
    BY <1>6 DEF cursors, Sync, Crash, PushBegin, PushFetch, PushSend, PushDrain, PullBegin,
                PullDecide, PullApply, PullSkip, PullFinish
  <2>2. run[r].at = "finish" => r \in Pullers
    BY DEF Runs, Hands, Pushed
  <2> QED
    BY <1>1, <2>1, <2>2
<1> QED
  BY <1>3, <1>4, <1>5, <1>6 DEF Next, Local, syncVars, cursors

LEMMA SinceFacts ==
  ASSUME log \in Seq(Envelope), NEW c \in Nat, c <= Len(log)
  PROVE  /\ SinceEnd(c) \in Nat /\ SinceEnd(c) <= Len(log)
         /\ Since(c) \in Seq(Envelope) /\ Len(Since(c)) = SinceEnd(c) - c
         /\ \A k \in 1..Len(Since(c)) : Since(c)[k] = log[c + k]
<1> DEFINE last == Lesser(c + PageSize, Len(log))
<1>1. /\ last \in Nat /\ c <= last /\ last <= Len(log) /\ SinceEnd(c) = last
  BY PageSizeAssumption DEF Lesser, SinceEnd
<1>2. Since(c) = SubSeq(log, c + 1, last)
  BY DEF Since
<1> HIDE DEF last
<1>3. \A i \in (c + 1)..last : log[i] \in Envelope
  BY <1>1
<1>4. /\ SubSeq(log, c + 1, last) \in Seq(Envelope)
      /\ Len(SubSeq(log, c + 1, last)) = last - c
      /\ \A i \in 1..Len(SubSeq(log, c + 1, last)) : SubSeq(log, c + 1, last)[i] = log[i + c]
  BY <1>1, <1>3
<1> QED
  BY <1>1, <1>2, <1>4

LEMMA PushedStep ==
  ASSUME Plain, Working, Written, Dated, PlainEnvelopes, Hands, [Next]_syncVars, NEW p \in Pushers
  PROVE  Pushed(run[p], Home[p])'
<1>1. /\ Pushes(p) /\ Pushed(run[p], Home[p])
      /\ run[p].blobs \in Seq(Envelope) /\ Home[p] \in Devices
      /\ events \in [Devices -> SUBSET Event]
  BY HandsNext, RunsAssumption DEF Hands, Working, TypeOK, RunState, Runs
<1>2. ASSUME NEW u \in Uids, Carries(run'[p], u) PROVE Made(Home[p], u)'
  <2>1. Made(Home[p], u) => Made(Home[p], u)'
    BY <1>1, MadeNext
  <2>2. CASE run'[p].blobs = << >>
    BY <1>2, <2>2 DEF Carries
  <2>3. CASE run'[p].blobs = run[p].blobs
    BY <1>1, <1>2, <2>1, <2>3 DEF Carries, Pushed
  <2>4. ASSUME NEW e \in events[Home[p]],
               run'[p].blobs = Append(run[p].blobs, Sealed(Home[p], e))
        PROVE  Made(Home[p], u)'
    <3> DEFINE b == run[p].blobs
               x == Sealed(Home[p], e)
    <3>1. x.op = e.op /\ x.uid = e.uid
      BY DEF Sealed
    <3>2. b \in Seq(Envelope) /\ run'[p].blobs = Append(b, x)
      BY <1>1, <2>4
    <3> HIDE DEF b, x
    <3>3. \A k \in 1..Len(run'[p].blobs) :
            (k \in 1..Len(b) /\ run'[p].blobs[k] = b[k]) \/ run'[p].blobs[k] = x
      BY <3>2
    <3>4. (\E k \in 1..Len(b) : b[k].uid = u /\ b[k].op = "create") \/ (e.op = "create" /\ e.uid = u)
      BY <1>2, <3>1, <3>3 DEF Carries
    <3>5. Made(Home[p], u)
      BY <1>1, <3>4 DEF Made, Pushed, Carries, b
    <3> QED
      BY <2>1, <3>5
  <2> QED
    BY <1>1, <2>2, <2>3, <2>4 DEF Pushes
<1> QED
  BY <1>1, <1>2 DEF Pushed, Pushes, Carries

LEMMA PulledStep ==
  ASSUME Plain, Working, Dated, PlainEnvelopes, Hands, [Next]_syncVars, NEW q \in Pullers
  PROVE  Pulled(run[q])'
<1>1. /\ Pulls(q) /\ Pulled(run[q]) /\ run[q].blobs \in Seq(Envelope) /\ run[q].next \in Nat
      /\ log \in Seq(Envelope) /\ seen[Home[q]] \in Nat /\ seen[Home[q]] <= Len(log)
      /\ Progress(run[q], Home[q])
  BY HandsNext, RunsAssumption DEF Hands, Working, TypeOK, RunState, Runs
<1>2. /\ Len(log) \in Nat /\ Len(log') \in Nat /\ Len(log) <= Len(log')
      /\ \A i \in 1..Len(log) : log'[i] = log[i]
  BY LogGoes
<1> DEFINE b == run[q].blobs
           n == run[q].next
           t == run'[q]
<1>3. /\ b \in Seq(Envelope) /\ n \in Nat /\ n <= Len(log) /\ Len(b) <= n
      /\ \A k \in 1..Len(b) : b[k] = log[n - Len(b) + k]
  BY <1>1 DEF Pulled
<1> SUFFICES /\ t.at \in {"idle", "decide", "apply", "finish"}
             /\ t.next <= Len(log') /\ Len(t.blobs) <= t.next
             /\ \A k \in 1..Len(t.blobs) : t.blobs[k] = log'[t.next - Len(t.blobs) + k]
             /\ t.at = "finish" => Len(t.blobs) = 0
             /\ t.at = "apply" => \/ t.plan = "insert"
                                  \/ t.plan = "retire" /\ Head(t.blobs).op = "tombstone"
  BY DEF Pulled
<1>4. CASE Stops(q)
  BY <1>2, <1>4 DEF Stops
<1>5. CASE Begins(q)
  <2> DEFINE c == seen[Home[q]]
  <2>1. /\ c \in Nat /\ c <= Len(log) /\ UNCHANGED log
        /\ t.blobs = Since(c) /\ t.next = SinceEnd(c)
        /\ t.at \in {"decide", "finish"} /\ (t.at = "finish" => t.blobs = << >>)
    BY <1>1, <1>5 DEF Begins
  <2> HIDE DEF c, t
  <2>2. /\ t.next \in Nat /\ t.next <= Len(log) /\ Len(t.blobs) = t.next - c
        /\ \A k \in 1..Len(t.blobs) : t.blobs[k] = log[c + k]
    BY <1>1, <2>1, SinceFacts
  <2>3. t.next - Len(t.blobs) = c
    BY <2>1, <2>2
  <2> QED
    BY <2>1, <2>2, <2>3
<1>6. CASE Waits(q)
  <2>1. /\ t.blobs = b /\ t.next = n
        /\ \/ t.at = run[q].at /\ t.plan = run[q].plan
           \/ /\ t.at = "apply"
              /\ t.plan = "insert" \/ (t.plan = "retire" /\ Head(b).op = "tombstone")
    BY <1>6 DEF Waits
  <2>2. /\ run[q].at \in {"idle", "decide", "apply", "finish"}
        /\ run[q].at = "finish" => Len(b) = 0
        /\ run[q].at = "apply" => \/ run[q].plan = "insert"
                                  \/ run[q].plan = "retire" /\ Head(b).op = "tombstone"
    BY <1>1 DEF Pulled
  <2> HIDE DEF b, n, t
  <2>3. \A k \in 1..Len(b) : n - Len(b) + k \in 1..Len(log)
    BY <1>2, <1>3
  <2>4. n <= Len(log')
    BY <1>2, <1>3
  <2> QED
    BY <1>2, <1>3, <2>1, <2>2, <2>3, <2>4
<1>7. CASE Passes(q)
  <2>1. /\ t.blobs = Tail(b) /\ t.next = n /\ b # << >>
        /\ t.at \in {"decide", "finish"} /\ (t.at = "finish" => Len(b) = 1)
    BY <1>1, <1>7 DEF Passes, Progress
  <2> HIDE DEF b, n, t
  <2>2. /\ Len(t.blobs) = Len(b) - 1 /\ Len(b) \in Nat
        /\ \A k \in 1..Len(t.blobs) : k + 1 \in 1..Len(b) /\ t.blobs[k] = b[k + 1]
    BY <1>3, <2>1
  <2>3. \A k \in 1..Len(t.blobs) :
          /\ n - Len(t.blobs) + k = n - Len(b) + (k + 1)
          /\ n - Len(b) + (k + 1) \in 1..Len(log)
    BY <1>2, <1>3, <2>2
  <2>4. \A k \in 1..Len(t.blobs) : t.blobs[k] = log'[n - Len(t.blobs) + k]
    BY <1>2, <1>3, <2>2, <2>3
  <2>5. n <= Len(log') /\ Len(t.blobs) <= n
    BY <1>2, <1>3, <2>2
  <2> QED
    BY <2>1, <2>2, <2>4, <2>5
<1> QED
  BY <1>1, <1>4, <1>5, <1>6, <1>7 DEF Pulls

LEMMA HandsStep ==
  ASSUME Plain, Working, Written, Dated, PlainEnvelopes, Hands, [Next]_syncVars
  PROVE  Hands'
<1>1. Len(log) \in Nat /\ Len(log') \in Nat /\ Len(log) <= Len(log')
  BY LogGoes
<1>2. seen \in [Devices -> Nat] /\ \A r \in Runs : run[r].next \in Nat
  BY DEF Working, TypeOK, RunState
<1>3. ASSUME NEW d \in Devices PROVE seen'[d] <= Len(log')
  <2>1. \/ seen'[d] = seen[d]
        \/ \E q \in Pullers : seen'[d] = run[q].next
    BY HandsNext
  <2>2. seen[d] <= Len(log) /\ \A q \in Pullers : run[q].next <= Len(log)
    BY DEF Hands, Pulled
  <2> QED
    BY <1>1, <1>2, <2>1, <2>2 DEF Runs
<1> QED
  BY <1>3, PushedStep, PulledStep DEF Hands

LEMMA DeadStays ==
  ASSUME Plain, Working, Written, Dated, PlainEnvelopes, Hands, [Next]_syncVars,
         NEW u \in Uids, Dead(u)
  PROVE  Dead(u)'
<1>1. RowsGo /\ minted \subseteq minted'
  BY RowsNext, MintedGrows DEF Plain, NoPurge
<1>2. /\ UNCHANGED log \/ \E p \in Pushers : log' = log \o run[p].blobs
      /\ \A p \in Pushers : Pushes(p)
  BY HandsNext
<1>3. log \in Seq(Envelope) /\ \A p \in Pushers : run[p].blobs \in Seq(Envelope)
  BY DEF Working, TypeOK, RunState, Runs
<1>4. ~OnLog(u)'
  <2>1. CASE UNCHANGED log
    BY <2>1 DEF Dead, OnLog
  <2>2. ASSUME NEW p \in Pushers, log' = log \o run[p].blobs PROVE ~OnLog(u)'
    <3> DEFINE b == run[p].blobs
    <3>1. b \in Seq(Envelope) /\ log' = log \o b
      BY <1>3, <2>2
    <3>2. /\ ~\E i \in 1..Len(log) : log[i].uid = u /\ log[i].op = "create"
          /\ ~\E i \in 1..Len(b) : b[i].uid = u /\ b[i].op = "create"
      BY DEF Dead, OnLog, Carries
    <3> HIDE DEF b
    <3>3. \A i \in 1..Len(log') : (i \in 1..Len(log) /\ log'[i] = log[i]) \/
             (i - Len(log) \in 1..Len(b) /\ log'[i] = b[i - Len(log)])
      BY <1>3, <3>1
    <3> QED
      BY <3>2, <3>3 DEF OnLog
  <2> QED
    BY <1>2, <2>1, <2>2
<1>5. ASSUME NEW p \in Pushers PROVE ~Carries(run'[p], u)
  <2>1. ~Carries(run[p], u) /\ Pushes(p) /\ ~Current(Home[p], u)
    BY <1>2, RunsAssumption DEF Dead, Runs
  <2>2. CASE run'[p].blobs = << >> \/ run'[p].blobs = run[p].blobs
    BY <2>1, <2>2 DEF Carries
  <2>3. ASSUME NEW e \in events[Home[p]], Ships(Home[p], e),
               run'[p].blobs = Append(run[p].blobs, Sealed(Home[p], e))
        PROVE  ~Carries(run'[p], u)
    <3> DEFINE b == run[p].blobs
               x == Sealed(Home[p], e)
    <3>1. ~(x.op = "create" /\ x.uid = u)
      BY <2>1, <2>3 DEF Sealed, Ships, Syncable
    <3>2. b \in Seq(Envelope) /\ run'[p].blobs = Append(b, x)
      BY <1>3, <2>3
    <3>3. ~\E i \in 1..Len(b) : b[i].uid = u /\ b[i].op = "create"
      BY <2>1 DEF Carries
    <3> HIDE DEF b, x
    <3>4. \A k \in 1..Len(run'[p].blobs) :
            (k \in 1..Len(b) /\ run'[p].blobs[k] = b[k]) \/ run'[p].blobs[k] = x
      BY <3>2
    <3> QED
      BY <3>1, <3>3, <3>4 DEF Carries
  <2> QED
    BY <2>1, <2>2, <2>3 DEF Pushes
<1>6. ASSUME NEW d \in Devices
      PROVE  ~(rows'[d][u].status = "active" /\ rows'[d][u].open)
  <2>1. Stays(d, u) \/ Fresh(d, u) \/ Arrives(d, u) \/ Ends(d, u)
    BY <1>1 DEF RowsGo
  <2>2. ~Fresh(d, u)
    BY DEF Fresh, Dead
  <2>3. ~Arrives(d, u)
    BY ArrivesLogged DEF Dead
  <2> QED
    BY <2>1, <2>2, <2>3 DEF Stays, Ends, Dead, Current
<1> QED
  BY <1>1, <1>4, <1>5, <1>6 DEF Dead, Current, Carries
LEMMA TurnPush ==
  ASSUME Plain, Working, Written, Dated, PlainEnvelopes, Hands, [Next]_syncVars,
         NEW u \in Uids \ Roots, InTurn(u), ~Dead(u)',
         NEW p \in Pushers, NEW k \in 1..Len(run'[p].blobs), Ended(run'[p].blobs, k, u)
  PROVE  OnLog(u)' \/ Before(run'[p].blobs, k, u)
<1>1. /\ Pushes(p) /\ run[p].blobs \in Seq(Envelope) /\ Home[p] \in Devices
      /\ ~Dead(u)
  BY HandsNext, DeadStays, RunsAssumption DEF Working, TypeOK, RunState, Runs
<1>2. OnLog(u) => OnLog(u)'
  BY OnLogStays
<1> SUFFICES ASSUME ~OnLog(u) PROVE Before(run'[p].blobs, k, u)
  BY <1>2
<1>3. CASE run'[p].blobs = << >>
  BY <1>3
<1>4. CASE run'[p].blobs = run[p].blobs
  BY <1>4 DEF InTurn
<1>5. ASSUME PushFetch(p), NEW e \in events[Home[p]], Ships(Home[p], e),
             run'[p].blobs = Append(run[p].blobs, Sealed(Home[p], e))
      PROVE  Before(run'[p].blobs, k, u)
  <2> DEFINE b == run[p].blobs
             x == Sealed(Home[p], e)
             d == Home[p]
  <2>1. x.op = e.op /\ x.uid = e.uid
    BY DEF Sealed
  <2>2. b \in Seq(Envelope) /\ run'[p].blobs = Append(b, x)
    BY <1>1, <1>5
  <2>3. /\ \A i \in 1..Len(b) : Ended(b, i, u) => Before(b, i, u)
        /\ d \in Devices /\ e \in events[d] /\ PushFetch(p)
    BY <1>1, <1>5 DEF InTurn
  <2>4. ASSUME e.op = "tombstone", e.uid = u PROVE Carries(run[p], u)
    <3>1. There(d, u) /\ ~Current(d, u) /\ u \in minted
      BY <1>1, <2>4 DEF Dated, There, Current, Written
    <3>2. ASSUME NEW c \in Devices, There(c, u) PROVE Made(c, u)
      BY <3>2 DEF Dated
    <3>3. ASSUME NEW c \in Devices, Made(c, u) PROVE c = d
      BY <1>1, <3>1, <3>2, <3>3 DEF Dated
    <3>4. ASSUME NEW c \in Devices PROVE ~Current(c, u)
      <4>1. CASE There(c, u)
        BY <3>1, <3>2, <3>3, <4>1
      <4>2. CASE ~There(c, u)
        BY <4>2 DEF There, Current
      <4> QED
        BY <4>1, <4>2
    <3>5. ASSUME NEW q \in Pushers, Carries(run[q], u) PROVE q = p
      <4>1. Made(Home[q], u) /\ Home[q] \in Devices
        BY <3>5, RunsAssumption DEF Hands, Pushed, Runs
      <4> QED
        BY <3>3, <4>1 DEF Plain
    <3> QED
      BY <1>1, <3>1, <3>4, <3>5 DEF Dead
  <2> HIDE DEF b, x, d
  <2>5. /\ Len(run'[p].blobs) = Len(b) + 1 /\ Len(b) \in Nat
        /\ \A j \in 1..Len(b) : j \in 1..Len(run'[p].blobs) /\ run'[p].blobs[j] = b[j]
        /\ k \in 1..Len(b) \/ (k = Len(b) + 1 /\ run'[p].blobs[k] = x)
    BY <2>2
  <2>6. ASSUME NEW j \in 1..Len(b), j < k, b[j].uid = u, b[j].op = "create"
        PROVE  Before(run'[p].blobs, k, u)
    BY <2>5, <2>6 DEF Before
  <2>7. CASE k \in 1..Len(b)
    <3>1. Before(b, k, u)
      BY <2>3, <2>5, <2>7 DEF Ended
    <3> QED
      BY <2>6, <3>1 DEF Before
  <2>8. CASE k = Len(b) + 1 /\ run'[p].blobs[k] = x
    <3>1. Carries(run[p], u)
      BY <2>1, <2>4, <2>8 DEF Ended
    <3>2. PICK j \in 1..Len(b) : b[j].uid = u /\ b[j].op = "create"
      BY <3>1 DEF Carries, b
    <3>3. j < k
      BY <2>5, <2>8
    <3> QED
      BY <2>6, <3>2, <3>3
  <2> QED
    BY <2>5, <2>7, <2>8
<1> QED
  BY <1>1, <1>3, <1>4, <1>5 DEF Pushes

LEMMA TurnLog ==
  ASSUME Plain, Working, Written, Dated, PlainEnvelopes, Hands, [Next]_syncVars,
         NEW u \in Uids \ Roots, InTurn(u), ~Dead(u)',
         NEW i \in 1..Len(log'), Ended(log', i, u)
  PROVE  Before(log', i, u)
<1>1. log \in Seq(Envelope) /\ \A p \in Pushers : run[p].blobs \in Seq(Envelope)
  BY DEF Working, TypeOK, RunState, Runs
<1>2. CASE UNCHANGED log
  BY <1>2 DEF InTurn
<1>3. ASSUME NEW p \in Pushers, log' = log \o run[p].blobs PROVE Before(log', i, u)
  <2> DEFINE b == run[p].blobs
  <2>1. /\ b \in Seq(Envelope) /\ log' = log \o b
        /\ \A k \in 1..Len(log) : Ended(log, k, u) => Before(log, k, u)
        /\ \A k \in 1..Len(b) : Ended(b, k, u) => OnLog(u) \/ Before(b, k, u)
    BY <1>1, <1>3 DEF InTurn
  <2> HIDE DEF b
  <2>2. /\ Len(log) \in Nat /\ Len(b) \in Nat
        /\ \A j \in 1..Len(log) : j \in 1..Len(log') /\ log'[j] = log[j]
        /\ \A j \in 1..Len(b) : Len(log) + j \in 1..Len(log') /\ log'[Len(log) + j] = b[j]
        /\ i \in 1..Len(log) \/
             (i - Len(log) \in 1..Len(b) /\ log'[i] = b[i - Len(log)])
    BY <1>1, <2>1
  <2>3. ASSUME NEW j \in 1..Len(log'), j < i, log'[j].uid = u, log'[j].op = "create"
        PROVE  Before(log', i, u)
    BY <2>3 DEF Before
  <2>4. CASE i \in 1..Len(log)
    <3>1. Before(log, i, u)
      BY <2>1, <2>2, <2>4 DEF Ended
    <3> QED
      BY <2>2, <2>3, <3>1 DEF Before
  <2>5. CASE i - Len(log) \in 1..Len(b) /\ log'[i] = b[i - Len(log)]
    <3> DEFINE k == i - Len(log)
    <3>1. k \in 1..Len(b) /\ i = Len(log) + k /\ (OnLog(u) \/ Before(b, k, u))
      BY <2>1, <2>2, <2>5 DEF Ended
    <3>2. CASE OnLog(u)
      <4>1. PICK j \in 1..Len(log) : log[j].uid = u /\ log[j].op = "create"
        BY <3>2 DEF OnLog
      <4>2. j < i
        BY <2>2, <2>5
      <4> QED
        BY <2>2, <2>3, <4>1, <4>2
    <3>3. CASE Before(b, k, u)
      <4>1. PICK j \in 1..Len(b) : j < k /\ b[j].uid = u /\ b[j].op = "create"
        BY <3>3 DEF Before
      <4>2. Len(log) + j < i /\ Len(log) + j \in 1..Len(log') /\ log'[Len(log) + j] = b[j]
        BY <2>2, <2>5, <4>1
      <4> QED
        BY <2>3, <4>1, <4>2
    <3> QED
      BY <3>1, <3>2, <3>3
  <2> QED
    BY <2>2, <2>4, <2>5
<1> QED
  BY <1>2, <1>3, HandsNext

LEMMA FollowStep ==
  ASSUME Plain, Working, Written, Dated, PlainEnvelopes, Hands, Follow, [Next]_syncVars
  PROVE  Follow'
<1> SUFFICES ASSUME NEW u \in Uids \ Roots, ~Dead(u)' PROVE InTurn(u)'
  BY DEF Follow
<1>1. InTurn(u)
  BY DeadStays DEF Follow
<1>2. \A i \in 1..Len(log') : Ended(log', i, u) => Before(log', i, u)
  BY <1>1, TurnLog
<1>3. \A p \in Pushers : \A k \in 1..Len(run'[p].blobs) :
        Ended(run'[p].blobs, k, u) => OnLog(u)' \/ Before(run'[p].blobs, k, u)
  BY <1>1, TurnPush
<1> QED
  BY <1>2, <1>3 DEF InTurn, Ended, Before

\* What a device shows, it goes on showing.
LEMMA ShownStays ==
  ASSUME Plain, Working, Written, Dated, PlainEnvelopes, Hands, Follow, [Next]_syncVars,
         NEW d \in Devices, NEW k \in Nat, k <= Len(log), Shows(d, k)
  PROVE  \A i \in 1..k : Shown(rows', d, log[i])
<1> SUFFICES ASSUME NEW i \in 1..k, log[i].origin # d PROVE Shown(rows', d, log[i])
  BY DEF Shown
<1>1. RowsGo /\ Lasting
  BY RowsNext, RowsLast DEF Plain, NoPurge
<1>2. log \in Seq(Envelope) /\ Len(log) \in Nat
  BY DEF Working, TypeOK
<1>3. /\ i \in 1..Len(log) /\ log[i] \in Envelope /\ Shown(rows, d, log[i])
      /\ SentFrom(rows, log[i]) /\ PlainEnvelope(rows, log[i])
  <2>1. i \in 1..Len(log)
    BY <1>2
  <2> QED
    BY <1>2, <2>1 DEF Shows, Written, PlainEnvelopes
<1> DEFINE env == log[i]
           u == env.uid
<1>4. u \in Uids /\ env.op \in {"create", "tombstone"} /\ env.origin \in Devices
  BY <1>3 DEF Envelope
<1>5. CASE env.op = "create"
  BY <1>1, <1>3, <1>4, <1>5 DEF Shown, Lasting
<1>6. CASE env.op = "tombstone"
  <2>1. ~Current(d, u) /\ u \in minted
    BY <1>3, <1>4, <1>6 DEF Shown, Current, PlainEnvelope, Written
  <2>2. ~Fresh(d, u)
    BY <2>1 DEF Fresh
  <2>3. ASSUME Arrives(d, u) PROVE FALSE
    <3>1. rows[d][u].status = "absent" /\ OnLog(u)
      BY <1>4, <2>3, ArrivesLogged DEF Arrives
    <3>2. u \notin Roots
      BY <3>1 DEF Dated, There
    <3>3. InTurn(u)
      BY <1>4, <3>1, <3>2 DEF Follow, Dead
    <3>4. Before(log, i, u)
      BY <1>3, <1>6, <3>3 DEF InTurn, Ended
    <3>5. PICK j \in 1..Len(log) : j < i /\ log[j].uid = u /\ log[j].op = "create"
      BY <3>4 DEF Before
    <3>6. j \in 1..k /\ SentFrom(rows, log[j]) /\ Shown(rows, d, log[j])
      BY <1>2, <3>5 DEF Shows, Written
    <3> QED
      BY <3>1, <3>5, <3>6 DEF SentFrom, Shown
  <2>4. Stays(d, u) \/ Ends(d, u)
    BY <1>1, <1>4, <2>2, <2>3 DEF RowsGo
  <2>5. ~(rows'[d][u].status = "active" /\ rows'[d][u].open)
    BY <2>1, <2>4 DEF Stays, Ends, Current
  <2> QED
    BY <1>6, <2>5 DEF Shown
<1> QED
  BY <1>4, <1>5, <1>6

LEMMA ReflectingStep ==
  ASSUME Plain, Working, Written, Dated, PlainEnvelopes, Hands, Follow, Reflecting, [Next]_syncVars
  PROVE  Reflecting'
<1>1. /\ Len(log) \in Nat /\ log \in Seq(Envelope) /\ seen \in [Devices -> Nat]
      /\ \A i \in 1..Len(log) : log'[i] = log[i]
      /\ \A q \in Pullers : Home[q] \in Devices
      /\ \A d \in Devices : seen[d] \in Nat /\ seen[d] <= Len(log)
  BY LogGoes, RunsAssumption DEF Working, TypeOK, Hands, Runs
<1>2. ASSUME NEW d \in Devices, NEW k \in Nat, k <= Len(log), Shows(d, k)
      PROVE  \A i \in 1..k : Shown(rows', d, log'[i])
  BY <1>1, <1>2, ShownStays
<1>3. ASSUME NEW q \in Pullers
      PROVE  /\ run[q].blobs \in Seq(Envelope) /\ run[q].next \in Nat
             /\ run[q].next <= Len(log) /\ Len(run[q].blobs) <= run[q].next
             /\ \A k \in 1..Len(run[q].blobs) :
                  run[q].blobs[k] = log[run[q].next - Len(run[q].blobs) + k]
             /\ run[q].at = "finish" => Len(run[q].blobs) = 0
             /\ run[q].at \in {"decide", "apply"} => run[q].blobs # << >>
             /\ run[q].next - Len(run[q].blobs) \in Nat
             /\ run[q].next - Len(run[q].blobs) <= Len(log)
             /\ Shows(Home[q], run[q].next - Len(run[q].blobs))
  <2>1. /\ run[q].blobs \in Seq(Envelope) /\ run[q].next \in Nat /\ Pulled(run[q])
        /\ run[q].at \in {"decide", "apply"} => run[q].blobs # << >>
        /\ Shows(Home[q], run[q].next - Len(run[q].blobs))
    BY DEF Working, TypeOK, RunState, Progress, Hands, Runs, Reflecting
  <2>2. Len(run[q].blobs) \in Nat
    BY <2>1
  <2> QED
    BY <1>1, <2>1, <2>2 DEF Pulled
<1>4. ASSUME NEW d \in Devices
      PROVE  \A i \in 1..seen'[d] : Shown(rows', d, log'[i])
  <2>1. CASE seen'[d] = seen[d]
    BY <1>1, <1>2, <2>1 DEF Reflecting
  <2>2. ASSUME NEW q \in Pullers, Home[q] = d, run[q].at = "finish", seen'[d] = run[q].next
        PROVE  \A i \in 1..seen'[d] : Shown(rows', d, log'[i])
    <3>1. run[q].next - Len(run[q].blobs) = run[q].next
      BY <1>3, <2>2
    <3> QED
      BY <1>2, <1>3, <2>2, <3>1
  <2> QED
    BY <2>1, <2>2, HandsNext
<1>5. ASSUME NEW q \in Pullers
      PROVE  \A i \in 1..(run'[q].next - Len(run'[q].blobs)) : Shown(rows', Home[q], log'[i])
  <2> DEFINE b == run[q].blobs
             n == run[q].next
             t == run'[q]
             d == Home[q]
  <2>1. /\ b \in Seq(Envelope) /\ n \in Nat /\ n <= Len(log) /\ Len(b) <= n /\ d \in Devices
        /\ \A k \in 1..Len(b) : b[k] = log[n - Len(b) + k]
        /\ n - Len(b) \in Nat /\ n - Len(b) <= Len(log) /\ Shows(d, n - Len(b))
    BY <1>1, <1>3
  <2>2. CASE Stops(q)
    BY <2>2 DEF Stops
  <2>3. CASE Begins(q)
    <3>1. t.next - Len(t.blobs) = seen[d]
      <4> DEFINE c == seen[d]
      <4>1. c \in Nat /\ c <= Len(log) /\ t.blobs = Since(c) /\ t.next = SinceEnd(c)
        BY <1>1, <2>1, <2>3 DEF Begins
      <4> HIDE DEF c, t
      <4>2. Len(t.blobs) = t.next - c /\ t.next \in Nat
        BY <1>1, <4>1, SinceFacts
      <4>3. t.next - Len(t.blobs) = c
        BY <4>1, <4>2
      <4> QED
        BY <4>3 DEF c
    <3> QED
      BY <1>1, <1>2, <2>1, <3>1 DEF Reflecting
  <2>4. CASE Waits(q)
    BY <1>2, <2>1, <2>4 DEF Waits
  <2>5. CASE Passes(q)
    <3>1. /\ t.blobs = Tail(b) /\ t.next = n /\ b # << >> /\ Shown(rows', d, Head(b))
      BY <1>3, <2>5 DEF Passes
    <3> HIDE DEF b, n, t, d
    <3>2. Len(b) \in Nat \ {0} /\ Len(t.blobs) = Len(b) - 1 /\ Head(b) = b[1]
      BY <2>1, <3>1
    <3>3. t.next - Len(t.blobs) = n - Len(b) + 1 /\ Head(b) = log[n - Len(b) + 1]
          /\ n - Len(b) + 1 \in 1..Len(log)
      BY <2>1, <3>1, <3>2
    <3>4. ASSUME NEW i \in 1..(n - Len(b) + 1) PROVE Shown(rows', d, log'[i])
      <4>1. CASE i = n - Len(b) + 1
        BY <1>1, <3>1, <3>3, <4>1
      <4>2. CASE i # n - Len(b) + 1
        <5>1. i \in 1..(n - Len(b))
          BY <2>1, <4>2
        <5> QED
          BY <1>2, <2>1, <5>1
      <4> QED
        BY <4>1, <4>2
    <3> QED
      BY <3>3, <3>4 DEF t, d
  <2> QED
    BY <2>2, <2>3, <2>4, <2>5, HandsNext DEF Pulls
<1> QED
  BY <1>4, <1>5 DEF Reflecting, Shows

\* What the theorem about the pull cursor rests on.
Replayed == Written /\ Dated /\ PlainEnvelopes /\ Hands /\ Follow /\ Reflecting

LEMMA ReplayedInit == Init => Replayed
<1> SUFFICES ASSUME Init PROVE Replayed
  OBVIOUS
<1>1. /\ \A r \in Runs : run[r].at = "idle" /\ run[r].blobs = << >> /\ run[r].next = 0
      /\ log = << >>
  BY DEF Init, RelayInit, Idle
<1>2. ASSUME NEW d \in Devices
      PROVE  /\ seen[d] = 0 /\ clock[d] = 0 /\ events[d] = {}
             /\ \A u \in Uids : /\ rows[d][u].parent = NoUid
                                /\ u \in Roots => rows[d][u].status = "active" /\ rows[d][u].rec = 0
                                /\ u \notin Roots => rows[d][u].status = "absent"
  BY DEF Init, Absent
<1>3. Dated
  <2>1. \A d \in Devices, u \in Uids : There(d, u) => u \in Roots /\ rows[d][u].rec = 0
    BY <1>2 DEF There
  <2>2. \A d \in Devices, u \in Uids : ~Made(d, u)
    BY <1>2 DEF Made
  <2>3. \A d \in Devices, u \in Roots : There(d, u)
    BY <1>2, UidsAssumption DEF There
  <2>4. \A d \in Devices : 0 <= clock[d]
    BY <1>2
  <2> QED
    BY <1>2, <2>1, <2>2, <2>3, <2>4 DEF Dated
<1>4. PlainEnvelopes /\ Follow
  BY <1>1 DEF PlainEnvelopes, Follow, InTurn, Runs
<1>5. Hands
  <2>1. \A r \in Runs : Len(run[r].blobs) = 0 /\ Len(log) = 0
    BY <1>1
  <2> QED
    BY <1>1, <1>2, <2>1 DEF Hands, Pushed, Pulled, Carries, Runs
<1>6. Reflecting
  <2>1. \A r \in Runs : run[r].next - Len(run[r].blobs) = 0
    BY <1>1
  <2> QED
    BY <1>2, <2>1 DEF Reflecting, Shows, Runs
<1> QED
  BY <1>3, <1>4, <1>5, <1>6, WrittenInit DEF Replayed

LEMMA ReplayedStep ==
  ASSUME Plain, Working, Replayed, [Next]_syncVars PROVE Replayed'
  BY WrittenStep, DatedStep, PlainEnvelopesStep, HandsStep, FollowStep, ReflectingStep
  DEF Replayed, Plain, NoPurge

LEMMA ReflectingReflects == Working /\ Hands /\ Reflecting => Reflected
<1> SUFFICES ASSUME Working, Hands, Reflecting, NEW d \in Devices, NEW i \in 1..Len(log),
                    i <= seen[d], log[i].origin # d
             PROVE  IF log[i].op = "create" THEN Known(d, log[i].uid)
                    ELSE ~Current(d, log[i].uid)
  BY DEF Reflected
<1>1. log \in Seq(Envelope) /\ seen[d] \in Nat
  BY DEF Working, TypeOK
<1>2. log[i] \in Envelope /\ i \in 1..seen[d]
  BY <1>1
<1>3. Shown(rows, d, log[i]) /\ log[i].uid # NoUid
  BY <1>2, UidsAssumption DEF Reflecting, Shows, Envelope, NoUid
<1> QED
  BY <1>3 DEF Shown, Known, Current

\* As long as memories are created, expired and forgotten only, a pull loses
\* nothing: what lies behind the pull cursor of a device and was pushed by
\* another is known there, or is not current there when it is a tombstone, even
\* if commands overlap, die or lose their answer (sync/engine.py, push, pull and
\* apply_remote).  It needs clocks that agree, writes that do not fail, and
\* pushes of one device that do not overlap.
THEOREM SyncReflects == Plain => (Spec => []Reflected)
<1> SUFFICES ASSUME Plain PROVE Spec => []Reflected
  OBVIOUS
<1>1. Working /\ Replayed /\ [Next]_syncVars => Replayed'
  BY ReplayedStep
<1>2. Working /\ Replayed => Reflected
  BY ReflectingReflects DEF Replayed
<1> QED
  BY <1>1, <1>2, ReplayedInit, SpecWorks, PTL DEF Spec

-----------------------------------------------------------------------------
\* Two devices converge.

\* Two devices, each of which edits at most once, and not inside an
\* apply_remote; no write fails.
EditOnce ==
    /\ \E a, b \in Devices : Devices = {a, b}
    /\ LocalOps \subseteq {"edit"} /\ MaxOps <= 1
    /\ ~DuringPull /\ "locked" \notin Faults

\* Version v of time ts wins over version u of time rec (_resolve_lww).
Later(ts, v, rec, u) == ts > rec \/ (ts = rec /\ v > u)

\* On device d, v has taken the place of u: it follows it, or both follow one
\* memory and v wins.
Outdates(d, v, u) ==
    /\ There(d, v) /\ v # u
    /\ \/ rows[d][v].parent = u
       \/ /\ rows[d][v].parent = rows[d][u].parent /\ rows[d][u].parent # NoUid
          /\ Later(rows[d][v].rec, v, rows[d][u].rec, u)
Outdated(d, u) == \E v \in Uids : Outdates(d, v, u)

\* A device has made one version at most, and no two devices the same.
Editing ==
    /\ \A d \in Devices : \A e \in events[d] :
         e.op = "create" /\ e.uid \notin Roots /\ There(d, e.uid) /\ ops[d] # 0
    /\ \A d \in Devices, u, v \in Uids : Made(d, u) /\ Made(d, v) => u = v
    /\ \A c, d \in Devices, u \in Uids : Made(c, u) /\ Made(d, u) => c = d

\* A version that is there follows a memory, neither itself nor one that
\* follows it, and is the same on both devices.
Versions ==
    /\ \A d \in Devices, u \in Uids : There(d, u) =>
         /\ rows[d][u].status = "active" /\ rows[d][u].public
         /\ u \in Roots \/ \E c \in Devices : Made(c, u)
    /\ \A d \in Devices, u \in Roots : There(d, u) /\ rows[d][u].parent = NoUid
    /\ \A d \in Devices, u \in Uids \ Roots :
         There(d, u) => rows[d][u].parent # NoUid /\ rows[d][u].parent # u
    /\ \A d \in Devices, u, v \in Uids :
         There(d, u) /\ There(d, v) => rows[d][u].parent # v \/ rows[d][v].parent # u
    /\ \A c, d \in Devices, u \in Uids : There(c, u) /\ There(d, u) =>
         rows[c][u].parent = rows[d][u].parent /\ rows[c][u].rec = rows[d][u].rec

\* What is current is what nothing has taken the place of.
Newest ==
    \A d \in Devices, u \in Uids : There(d, u) => (rows[d][u].open <=> ~Outdated(d, u))

\* An envelope is of the version its origin has made.
Genuine(table, evs, env) ==
    /\ env.op = "create"
    /\ \E e \in evs[env.origin] : e.op = "create" /\ e.uid = env.uid
    /\ env.ts = table[env.origin][env.uid].rec
    /\ env.parent = table[env.origin][env.uid].parent
Envelopes ==
    /\ \A i \in 1..Len(log) : Genuine(rows, events, log[i])
    /\ \A r \in Runs : \A k \in 1..Len(run[r].blobs) :
         Genuine(rows, events, run[r].blobs[k])

\* What a pull has decided still holds when it writes, unless another pull has
\* written the version.
Poised(s, d) ==
    LET env == Head(s.blobs) IN
    s.at = "apply" =>
        /\ env.origin # d /\ s.plan \in {"supersede", "displace"}
        /\ \/ There(d, env.uid)
           \/ /\ s.plan = "supersede" /\ s.target = env.parent
              /\ Current(d, env.parent)
           \/ /\ s.plan = "displace" /\ ~Current(d, env.parent)
              /\ s.target \in Competitors(d, env) /\ RemoteWins(d, env, s.target)

\* A pull has in hand the end of what it has read of the log.
Reading(s) ==
    /\ s.at \in {"idle", "decide", "apply", "finish"}
    /\ s.next <= Len(log) /\ Len(s.blobs) <= s.next
    /\ \A k \in 1..Len(s.blobs) : s.blobs[k] = log[s.next - Len(s.blobs) + k]
    /\ s.at = "finish" => Len(s.blobs) = 0
Handling ==
    /\ \A r \in Pushers : run[r].at \in {"idle", "fetch", "send", "drain"}
    /\ \A r \in Pullers : Reading(run[r]) /\ Poised(run[r], Home[r])
    /\ \A d \in Devices : seen[d] <= Len(log)

\* A version of another device is there, or has lost to one that is.
Passed(table, d, env) ==
    env.origin # d =>
        \/ table[d][env.uid].status # "absent"
        \/ \E w \in Uids :
             /\ table[d][w].status # "absent" /\ w # env.uid
             /\ table[d][w].parent = env.parent
             /\ Later(table[d][w].rec, w, env.ts, env.uid)
PassedTo(d, k) == \A i \in 1..k : Passed(rows, d, log[i])
Passing ==
    /\ \A d \in Devices : PassedTo(d, seen[d])
    /\ \A r \in Pullers : PassedTo(Home[r], run[r].next - Len(run[r].blobs))

\* A row is the same version, whether it is still current or not.
Same(c, w) ==
    /\ rows'[c][w].status = rows[c][w].status /\ rows'[c][w].public = rows[c][w].public
    /\ rows'[c][w].parent = rows[c][w].parent /\ rows'[c][w].rec = rows[c][w].rec

\* Version v comes to device d and takes the place of x: of the memory it
\* follows, or of the version that has followed it there until now.
Takes(d, v, x) ==
    LET p == rows'[d][v].parent IN
    /\ ~There(d, v) /\ There(d, x) /\ x # v
    /\ rows'[d][v].status = "active" /\ rows'[d][v].open /\ rows'[d][v].public
    /\ p \in Uids /\ There(d, p)
    /\ \/ x = p /\ rows[d][p].open
       \/ /\ x # p /\ ~rows[d][p].open /\ rows[d][x].parent = p
          /\ Later(rows'[d][v].rec, v, rows[d][x].rec, x)
    /\ ~rows'[d][x].open
    /\ \A c \in Devices, w \in Uids : c # d \/ w # v => Same(c, w)
    /\ \A c \in Devices, w \in Uids :
         c # d \/ w \notin {v, x} => rows'[c][w].open = rows[c][w].open

\* Its device has made it now, or another has before.
Begun(d, v) ==
    /\ v \notin minted /\ rows[d][rows'[d][v].parent].open
    /\ \E e \in Event : /\ e.op = "create" /\ e.uid = v
                        /\ events'[d] = events[d] \cup {e}
    /\ \A c \in Devices \ {d} : events'[c] = events[c] /\ ops'[c] = ops[c]
    /\ events[d] = {} /\ ops'[d] # 0
Brought(d, v) ==
    /\ UNCHANGED <<events, ops>>
    /\ \E c \in Devices \ {d} :
         /\ Made(c, v) /\ rows'[d][v].parent = rows[c][v].parent
         /\ rows'[d][v].rec = rows[c][v].rec

\* A row that is replaced by one that is not current.
LEMMA ClosedRow ==
  ASSUME NEW row \in Row
  PROVE  /\ [row EXCEPT !.open = FALSE].status = row.status
         /\ [row EXCEPT !.open = FALSE].rec = row.rec
         /\ [row EXCEPT !.open = FALSE].parent = row.parent
         /\ [row EXCEPT !.open = FALSE].public = row.public
         /\ [row EXCEPT !.open = FALSE].open = FALSE
  BY DEF Row

\* An edit by a program of the device.
LEMMA EditTakes ==
  ASSUME EditOnce, Working, Written, Editing, Versions, NEW d \in Devices, Local(d)
  PROVE  /\ \E v, x \in Uids : Takes(d, v, x) /\ Begun(d, v)
         /\ \A r \in Runs : Home[r] = d => run[r].at # "apply"
         /\ UNCHANGED <<log, seen, run>>
<1>1. PICK u \in Uids, ts \in 1..MaxTs :
        \/ \E public \in BOOLEAN : Create(d, u, ts, public)
        \/ \E v \in Uids : Succeeds(d, u, v, ts)
        \/ Retire(d, u, ts) \/ Forget(d, u, ts) \/ Purge(d, u, ts)
  BY DEF Local
<1>2. PICK v \in Uids : Succeeds(d, u, v, ts)
  BY <1>1 DEF EditOnce, Create, Retire, Forget, Purge
<1>3. /\ rows \in [Devices -> [Uids -> Row]] /\ rows[d] \in [Uids -> Row]
      /\ rows[d][u] \in Row /\ events \in [Devices -> SUBSET Event]
      /\ ops \in [Devices -> 0..MaxOps] /\ LocalTypes /\ NoUid \notin Uids
  BY TypeParts, UidsAssumption DEF Working, LocalTypes, NoUid
<1> DEFINE old == [rows[d][u] EXCEPT !.open = FALSE]
           new == Version(u, ts, rows[d][u].public)
           table == [[rows[d] EXCEPT ![u] = old] EXCEPT ![v] = new]
           e == [op |-> "create", uid |-> v, ts |-> ts]
<1>4. [rows[d] EXCEPT ![u].open = FALSE, ![v] = new] = table
  OBVIOUS
<1>5. Commits(d, ts, table, {e}) /\ v \notin minted /\ Current(d, u)
  BY <1>2, <1>4 DEF Succeeds, EditOnce, Logged
<1>6. There(d, u) /\ rows[d][u].open /\ rows[d][u].public /\ ~There(d, v) /\ u # v
  BY <1>5 DEF Current, There, Versions, Written
<1>7. /\ table[v] = new /\ table[u] = old
      /\ \A w \in Uids \ {u, v} : table[w] = rows[d][w]
  BY <1>3, <1>6
<1>8. /\ new.status = "active" /\ new.open /\ new.public /\ new.parent = u
      /\ old.status = rows[d][u].status /\ old.rec = rows[d][u].rec
      /\ old.parent = rows[d][u].parent /\ old.public = rows[d][u].public /\ ~old.open
  BY <1>3, <1>6, ClosedRow DEF Version
<1>9. e \in Event /\ e.op = "create" /\ e.uid = v
  BY DEF Event
<1> HIDE DEF table, old, new, e
<1>10. /\ rows' = [rows EXCEPT ![d] = table] /\ MayWrite(d)
       /\ events' = [events EXCEPT ![d] = @ \cup {e}] /\ ops' = [ops EXCEPT ![d] = @ + 1]
  BY <1>5 DEF Commits
<1>11. rows'[d] = table /\ \A c \in Devices \ {d} : rows'[c] = rows[c]
  BY <1>3, <1>10
<1>12. Takes(d, v, u)
  <2>1. \A c \in Devices, w \in Uids : c # d \/ w # v => Same(c, w)
    BY <1>7, <1>8, <1>11 DEF Same
  <2>2. \A c \in Devices, w \in Uids : c # d \/ w \notin {v, u} => rows'[c][w].open = rows[c][w].open
    BY <1>7, <1>11
  <2> QED
    BY <1>6, <1>7, <1>8, <1>11, <2>1, <2>2 DEF Takes
<1>13. Begun(d, v)
  <2>1. ops[d] = 0 /\ ops'[d] = 1
    BY <1>3, <1>10, SyncBoundsAssumption DEF MayWrite, EditOnce
  <2>2. events[d] = {}
    BY <2>1 DEF Editing
  <2>3. /\ events'[d] = events[d] \cup {e}
        /\ \A c \in Devices \ {d} : events'[c] = events[c] /\ ops'[c] = ops[c]
    BY <1>3, <1>10
  <2> QED
    BY <1>5, <1>6, <1>7, <1>8, <1>9, <1>11, <2>1, <2>2, <2>3 DEF Begun
<1> QED
  BY <1>10, <1>12, <1>13 DEF MayWrite, EditOnce, Local, cursors

\* There is no third device.
LEMMA OnlyTwo ==
  ASSUME EditOnce, NEW b \in Devices, NEW c \in Devices, NEW d \in Devices, c # d
  PROVE  b = c \/ b = d
  BY DEF EditOnce

LEMMA MadeThere ==
  ASSUME Editing, NEW d \in Devices, NEW u \in Uids, Made(d, u)
  PROVE  There(d, u) /\ u \notin Roots /\ ops[d] # 0
  BY DEF Editing, Made

\* A version has a parent, which is there.
LEMMA ParentThere ==
  ASSUME Working, Versions, NEW d \in Devices, NEW u \in Uids \ Roots, There(d, u)
  PROVE  /\ rows[d][u].parent \in Uids /\ rows[d][u].parent # u /\ rows[d][u].parent # NoUid
         /\ There(d, rows[d][u].parent)
<1>1. rows[d][u] \in Row /\ Referenced
  BY TypeParts DEF Working, LocalTypes
<1>2. rows[d][u].parent # NoUid /\ rows[d][u].parent # u
  BY DEF Versions
<1> QED
  BY <1>1, <1>2 DEF Row, Referenced, There

\* What another device has made follows a memory that this one holds, and the
\* versions this device holds are its own until that one comes.
LEMMA ForeignVersion ==
  ASSUME EditOnce, Working, Editing, Versions, NEW c \in Devices, NEW d \in Devices, c # d,
         NEW u \in Uids, Made(c, u)
  PROVE  /\ There(c, u) /\ u \notin Roots
         /\ rows[c][u].parent \in Uids /\ rows[c][u].parent # u
         /\ There(d, rows[c][u].parent)
         /\ \A w \in Uids \ Roots : There(d, w) => Made(d, w) \/ w = u
         /\ \A w, z \in Uids \ Roots : There(d, w) /\ There(d, z) => w = z \/ w = u \/ z = u
<1>1. There(c, u) /\ u \notin Roots
  BY MadeThere
<1>2. rows[c][u].parent \in Uids /\ rows[c][u].parent # u /\ There(c, rows[c][u].parent)
  BY <1>1, ParentThere
<1>3. \A w \in Uids \ Roots : (\E b \in Devices : There(b, w)) => Made(d, w) \/ w = u
  BY OnlyTwo DEF Versions, Editing
<1>4. There(d, rows[c][u].parent)
  BY <1>2, <1>3, MadeThere DEF Versions
<1> QED
  BY <1>1, <1>2, <1>3, <1>4 DEF Editing

\* The envelope a pull is at.
LEMMA HeadGenuine ==
  ASSUME Working, Envelopes, NEW r \in Runs, run[r].at \in {"decide", "apply"}
  PROVE  /\ run[r].blobs \in Seq(Envelope) /\ run[r].blobs # << >>
         /\ Head(run[r].blobs) \in Envelope /\ Genuine(rows, events, Head(run[r].blobs))
<1> DEFINE b == run[r].blobs
<1>1. b \in Seq(Envelope) /\ b # << >> /\ \A k \in 1..Len(b) : Genuine(rows, events, b[k])
  BY DEF Working, TypeOK, RunState, Progress, Envelopes
<1> HIDE DEF b
<1>2. Head(b) \in Envelope /\ Genuine(rows, events, Head(b))
  <2>1. 1 \in 1..Len(b) /\ Head(b) = b[1]
    BY <1>1
  <2> QED
    BY <1>1, <2>1
<1> QED
  BY <1>1, <1>2 DEF b

\* What a pull writes.
LEMMA ApplyTakes ==
  ASSUME EditOnce, Working, Editing, Versions, Envelopes, NEW r \in Runs,
         Poised(run[r], Home[r]), PullApply(r)
  PROVE  /\ \E x \in Uids : Takes(Home[r], Head(run[r].blobs).uid, x)
         /\ Brought(Home[r], Head(run[r].blobs).uid)
<1> DEFINE d == Home[r]
           env == Head(run[r].blobs)
           c == env.origin
           v == env.uid
           x == run[r].target
           old == [rows[d][x] EXCEPT !.open = FALSE]
           new == Version(env.parent, env.ts, TRUE)
<1>1. /\ run[r].at = "apply" /\ d \in Devices /\ LocalTypes /\ NoUid \notin Uids
      /\ rows \in [Devices -> [Uids -> Row]]
      /\ run[r].plan \in {"supersede", "displace"}
  BY RunsAssumption, TypeParts, UidsAssumption DEF PullApply, Working, Poised, LocalTypes, NoUid
<1>2. env \in Envelope /\ Genuine(rows, events, env) /\ c # d /\ c \in Devices /\ v \in Uids
  BY <1>1, HeadGenuine DEF Poised, Envelope
<1>3. /\ Made(c, v) /\ env.ts = rows[c][v].rec /\ env.parent = rows[c][v].parent
      /\ env.parent \in Uids /\ There(d, env.parent) /\ v # env.parent /\ env.parent # NoUid
  <2>1. Made(c, v) /\ env.ts = rows[c][v].rec /\ env.parent = rows[c][v].parent
    BY <1>2 DEF Genuine, Made
  <2> HIDE DEF c, v, env, d
  <2> QED
    BY <1>1, <1>2, <2>1, ForeignVersion
<1>4. Fits(d, env, run[r].plan) /\ rows' = [rows EXCEPT ![d] = Applied(r)]
      /\ UNCHANGED <<events, ops>>
  BY DEF PullApply, Applied
<1>5. ~There(d, v)
  BY <1>1, <1>2, <1>4 DEF Fits, Known, There
<1>6. \/ run[r].plan = "supersede" /\ x = env.parent /\ Current(d, env.parent)
      \/ /\ run[r].plan = "displace" /\ ~Current(d, env.parent)
         /\ x \in Competitors(d, env) /\ RemoteWins(d, env, x)
  BY <1>1, <1>5 DEF Poised
<1>7. x \in Uids /\ There(d, x) /\ x # v
  BY <1>3, <1>5, <1>6 DEF Competitors, Current, There
<1>8. /\ rows'[d] = Applied(r) /\ \A b \in Devices \ {d} : rows'[b] = rows[b]
  BY <1>1, <1>4
<1>9. Applied(r) = Replaced(d, env, run[r].plan, x) /\ Anchor(env, run[r].plan) = env.parent
  BY <1>1 DEF Applied, Anchor
<1>10. /\ Applied(r)[v] = new /\ Applied(r)[x] = old
       /\ \A w \in Uids \ {v, x} : Applied(r)[w] = rows[d][w]
  BY <1>2, <1>7, <1>9 DEF Replaced
<1>11. /\ new.status = "active" /\ new.open /\ new.public /\ new.parent = env.parent
       /\ new.rec = env.ts
       /\ old.status = rows[d][x].status /\ old.rec = rows[d][x].rec
       /\ old.parent = rows[d][x].parent /\ old.public = rows[d][x].public /\ ~old.open
  BY <1>1, <1>7, ClosedRow DEF Version
<1> HIDE DEF old, new, d, env, x, c, v
<1>12. \/ x = env.parent /\ rows[d][env.parent].open
       \/ /\ x # env.parent /\ ~rows[d][env.parent].open /\ rows[d][x].parent = env.parent
          /\ Later(env.ts, v, rows[d][x].rec, x)
  <2>1. CASE x = env.parent /\ Current(d, env.parent)
    BY <2>1 DEF Current
  <2>2. CASE /\ ~Current(d, env.parent)
             /\ x \in Competitors(d, env) /\ RemoteWins(d, env, x)
    <3>1. rows[d][env.parent].status = "active"
      BY <1>1, <1>3 DEF Versions
    <3> QED
      BY <2>2, <3>1 DEF Current, Competitors, RemoteWins, Later, v
  <2> QED
    BY <1>6, <2>1, <2>2
<1>13. Takes(d, v, x)
  <2>1. \A b \in Devices, w \in Uids : b # d \/ w # v => Same(b, w)
    BY <1>1, <1>7, <1>8, <1>10, <1>11 DEF Same
  <2>2. \A b \in Devices, w \in Uids : b # d \/ w \notin {v, x} => rows'[b][w].open = rows[b][w].open
    BY <1>8, <1>10
  <2> QED
    BY <1>3, <1>5, <1>7, <1>8, <1>10, <1>11, <1>12, <2>1, <2>2 DEF Takes
<1>14. Brought(d, v)
  <2>1. rows'[d][v].parent = rows[c][v].parent /\ rows'[d][v].rec = rows[c][v].rec
    BY <1>3, <1>8, <1>10, <1>11
  <2> QED
    BY <1>2, <1>3, <1>4, <2>1 DEF Brought
<1> QED
  BY <1>7, <1>13, <1>14 DEF d, v, env

\* One version at a time comes to a device.
Gains(d, v, x) == Takes(d, v, x) /\ (Begun(d, v) \/ Brought(d, v))

LEMMA VersionsGo ==
  ASSUME EditOnce, Working, Written, Editing, Versions, Envelopes, Handling, [Next]_syncVars
  PROVE  \/ UNCHANGED <<rows, events, ops>>
         \/ \E d \in Devices, v, x \in Uids : Gains(d, v, x)
<1>1. ASSUME NEW d \in Devices, Local(d)
      PROVE  \E v, x \in Uids : Gains(d, v, x)
  BY <1>1, EditTakes DEF Gains
<1>2. ASSUME NEW r \in Runs, PullApply(r)
      PROVE  \E d \in Devices, v, x \in Uids : Gains(d, v, x)
  <2>1. run[r].at = "apply" /\ Poised(run[r], Home[r]) /\ Home[r] \in Devices
    BY <1>2, RunsAssumption DEF Handling, PullApply, Runs
  <2>2. Head(run[r].blobs).uid \in Uids
    BY <2>1, HeadGenuine DEF Envelope
  <2> QED
    BY <1>2, <2>1, <2>2, ApplyTakes DEF Gains
<1>3. \/ UNCHANGED <<rows, events, ops>> \/ (\E d \in Devices : Local(d))
      \/ \E r \in Runs : PullApply(r)
  BY DEF Next, syncVars, store, Sync, Crash, PushBegin, PushFetch, PushSend, PushDrain,
         PullBegin, PullDecide, PullSkip, PullFinish
<1> QED
  BY <1>1, <1>2, <1>3

\* What such a step makes of what is there, and of what has been made.
LEMMA GainsThere ==
  ASSUME Written, Editing, Versions, NEW d \in Devices, NEW v \in Uids, NEW x \in Uids,
         Gains(d, v, x)
  PROVE  /\ \A c \in Devices, w \in Uids : There(c, w)' <=> There(c, w) \/ (c = d /\ w = v)
         /\ \A c \in Devices, w \in Uids : Made(c, w) => Made(c, w)'
         /\ \A c \in Devices, w \in Uids :
              Made(c, w)' => Made(c, w) \/ (c = d /\ w = v /\ Begun(d, v))
         /\ v \notin Roots /\ \E c \in Devices : Made(c, v)'
         /\ Begun(d, v) => (\A c \in Devices : ~There(c, v)) /\ \A w \in Uids : ~Made(d, w)
<1>1. \A c \in Devices, w \in Uids : There(c, w)' <=> There(c, w) \/ (c = d /\ w = v)
  BY DEF Gains, Takes, Same, There
<1>2. CASE Begun(d, v)
  <2>1. \A c \in Devices : ~There(c, v)
    BY <1>2 DEF Begun, There, Written
  <2>2. v \notin Roots
    BY <2>1 DEF Versions
  <2>3. PICK e \in Event : e.op = "create" /\ e.uid = v /\ events'[d] = {e}
    BY <1>2 DEF Begun
  <2>4. \A c \in Devices \ {d} : events'[c] = events[c]
    BY <1>2 DEF Begun
  <2>5. \A w \in Uids : ~Made(d, w) /\ (Made(d, w)' <=> w = v)
    BY <1>2, <2>3 DEF Begun, Made
  <2>6. \A c \in Devices \ {d}, w \in Uids : Made(c, w)' <=> Made(c, w)
    BY <2>4 DEF Made
  <2> QED
    BY <1>1, <1>2, <2>1, <2>2, <2>5, <2>6
<1>3. CASE Brought(d, v)
  <2>1. \A c \in Devices, w \in Uids : Made(c, w)' <=> Made(c, w)
    BY <1>3 DEF Brought, Made
  <2>2. PICK c \in Devices : Made(c, v)
    BY <1>3 DEF Brought
  <2>3. v \notin Roots
    BY <2>2, MadeThere
  <2>4. ~Begun(d, v)
    <3>1. v \in minted
      BY <2>2, MadeThere DEF Written, There
    <3> QED
      BY <3>1 DEF Begun
  <2> QED
    BY <1>1, <2>1, <2>2, <2>3, <2>4
<1> QED
  BY <1>2, <1>3 DEF Gains

LEMMA EditingStep ==
  ASSUME Working, Written, Editing, Versions, NEW d \in Devices, NEW v \in Uids, NEW x \in Uids,
         Gains(d, v, x)
  PROVE  Editing'
<1>1. /\ \A c \in Devices, w \in Uids : There(c, w) => There(c, w)'
      /\ There(d, v)' /\ v \notin Roots
  BY GainsThere
<1>2. ASSUME NEW c \in Devices, NEW e \in events'[c]
      PROVE  e.op = "create" /\ e.uid \notin Roots /\ There(c, e.uid)' /\ ops'[c] # 0
  <2>1. CASE e \in events[c] /\ ops'[c] = ops[c]
    <3>1. /\ e.op = "create" /\ e.uid \notin Roots /\ There(c, e.uid) /\ ops[c] # 0
          /\ e.uid \in Uids
      BY <2>1 DEF Editing, Working, TypeOK, Event
    <3>2. There(c, e.uid)'
      BY <1>1, <3>1
    <3> QED
      BY <2>1, <3>1, <3>2
  <2>2. CASE c = d /\ Begun(d, v)
    <3>1. e.op = "create" /\ e.uid = v /\ ops'[d] # 0
      BY <1>2, <2>2 DEF Begun
    <3> QED
      BY <1>1, <2>2, <3>1
  <2> QED
    BY <1>2, <2>1, <2>2 DEF Gains, Begun, Brought
<1>3. ASSUME NEW c \in Devices, NEW u \in Uids, NEW w \in Uids, Made(c, u)', Made(c, w)'
      PROVE  u = w
  BY <1>3, GainsThere DEF Editing
<1>4. ASSUME NEW b \in Devices, NEW c \in Devices, NEW u \in Uids, Made(b, u)', Made(c, u)'
      PROVE  b = c
  BY <1>4, GainsThere, MadeThere DEF Editing
<1> QED
  BY <1>2, <1>3, <1>4 DEF Editing

LEMMA VersionsStep ==
  ASSUME Working, Written, Editing, Versions, NEW d \in Devices, NEW v \in Uids, NEW x \in Uids,
         Gains(d, v, x)
  PROVE  Versions'
<1>1. \A c \in Devices, w \in Uids : There(c, w)' <=> There(c, w) \/ (c = d /\ w = v)
  BY GainsThere
<1>2. /\ \A c \in Devices, w \in Uids : c # d \/ w # v => Same(c, w)
      /\ rows'[d][v].status = "active" /\ rows'[d][v].public
      /\ rows'[d][v].parent \in Uids /\ There(d, rows'[d][v].parent) /\ ~There(d, v)
      /\ v \notin Roots /\ NoUid \notin Uids
  <2>1. Takes(d, v, x)
    BY DEF Gains
  <2>2. v \notin Roots
    BY GainsThere
  <2>3. NoUid \notin Uids
    BY UidsAssumption DEF NoUid
  <2> QED
    BY <2>1, <2>2, <2>3 DEF Takes
<1>3. ASSUME NEW c \in Devices, NEW u \in Uids, There(c, u)'
      PROVE  /\ rows'[c][u].status = "active" /\ rows'[c][u].public
             /\ u \in Roots \/ \E b \in Devices : Made(b, u)'
  <2>1. CASE c = d /\ u = v
    BY <1>2, <2>1, GainsThere
  <2>2. CASE c # d \/ u # v
    <3>1. There(c, u) /\ Same(c, u)
      BY <1>1, <1>2, <1>3, <2>2
    <3> QED
      BY <3>1, GainsThere DEF Versions, Same
  <2> QED
    BY <2>1, <2>2
<1>4. ASSUME NEW c \in Devices, NEW u \in Roots
      PROVE  There(c, u)' /\ rows'[c][u].parent = NoUid
  BY <1>1, <1>2, UidsAssumption DEF Versions, Same
<1>5. ASSUME NEW c \in Devices, NEW u \in Uids \ Roots, There(c, u)'
      PROVE  rows'[c][u].parent # NoUid /\ rows'[c][u].parent # u
  BY <1>1, <1>2, <1>5 DEF Versions, Same
<1>6. ASSUME NEW c \in Devices, NEW u \in Uids, There(c, u)', There(c, v)', c = d, u # v
      PROVE  rows'[c][u].parent # v
  <2>1. There(d, u) /\ rows'[d][u].parent = rows[d][u].parent
    BY <1>1, <1>2, <1>6 DEF Same
  <2>2. ~There(d, v) /\ v # NoUid
    BY <1>2
  <2>3. rows[d][u].parent # v
    BY <2>1, <2>2, ParentThere, UidsAssumption DEF Versions
  <2> QED
    BY <1>6, <2>1, <2>3
<1>7. ASSUME NEW c \in Devices, NEW u \in Uids, NEW w \in Uids, There(c, u)', There(c, w)'
      PROVE  rows'[c][u].parent # w \/ rows'[c][w].parent # u
  <2>1. CASE c = d /\ v \in {u, w}
    BY <1>2, <1>5, <1>6, <1>7, <2>1
  <2>2. CASE c # d \/ v \notin {u, w}
    BY <1>1, <1>2, <1>7, <2>2 DEF Versions, Same
  <2> QED
    BY <2>1, <2>2
<1>8. ASSUME NEW c \in Devices, There(c, v), c # d
      PROVE  rows'[d][v].parent = rows'[c][v].parent /\ rows'[d][v].rec = rows'[c][v].rec
  <2>1. ~Begun(d, v)
    BY <1>8, GainsThere
  <2>2. PICK b \in Devices \ {d} : /\ Made(b, v) /\ rows'[d][v].parent = rows[b][v].parent
                                   /\ rows'[d][v].rec = rows[b][v].rec
    BY <2>1 DEF Gains, Brought
  <2>3. There(b, v)
    BY <2>2, MadeThere
  <2>4. rows[b][v].parent = rows[c][v].parent /\ rows[b][v].rec = rows[c][v].rec
    BY <1>8, <2>3 DEF Versions
  <2>5. Same(c, v)
    BY <1>2, <1>8
  <2> QED
    BY <2>2, <2>4, <2>5 DEF Same
<1>9. ASSUME NEW b \in Devices, NEW c \in Devices, NEW u \in Uids, There(b, u)', There(c, u)'
      PROVE  rows'[b][u].parent = rows'[c][u].parent /\ rows'[b][u].rec = rows'[c][u].rec
  <2>1. CASE u = v /\ d \in {b, c} /\ b # c
    BY <1>1, <1>8, <1>9, <2>1
  <2>2. CASE u # v \/ d \notin {b, c}
    <3>1. There(b, u) /\ There(c, u) /\ Same(b, u) /\ Same(c, u)
      BY <1>1, <1>2, <1>9, <2>2
    <3> QED
      BY <3>1 DEF Versions, Same
  <2> QED
    BY <2>1, <2>2
<1> QED
  BY <1>3, <1>4, <1>5, <1>7, <1>9 DEF Versions

\* Nothing but v takes a place, and of x, or of what x had already replaced.
LEMMA NewestStep ==
  ASSUME EditOnce, Working, Working', Written, Editing, Versions, Newest,
         NEW d \in Devices, NEW v \in Uids, NEW x \in Uids, Gains(d, v, x)
  PROVE  Newest'
<1> DEFINE p == rows'[d][v].parent
<1>1. /\ ~There(d, v) /\ There(d, x) /\ x # v /\ rows'[d][v].open
      /\ p \in Uids /\ There(d, p) /\ v \notin Roots /\ NoUid \notin Uids
      /\ \/ x = p /\ rows[d][p].open
         \/ /\ x # p /\ ~rows[d][p].open /\ rows[d][x].parent = p
            /\ Later(rows'[d][v].rec, v, rows[d][x].rec, x)
      /\ ~rows'[d][x].open
      /\ \A c \in Devices, w \in Uids : c # d \/ w # v => Same(c, w)
      /\ \A c \in Devices, w \in Uids :
           c # d \/ w \notin {v, x} => rows'[c][w].open = rows[c][w].open
  <2>1. Takes(d, v, x)
    BY DEF Gains
  <2>2. v \notin Roots
    BY GainsThere
  <2>3. NoUid \notin Uids
    BY UidsAssumption DEF NoUid
  <2> QED
    BY <2>1, <2>2, <2>3 DEF Takes
<1>2. /\ \A c \in Devices, w \in Uids : There(c, w)' <=> There(c, w) \/ (c = d /\ w = v)
      /\ Versions'
  BY GainsThere, VersionsStep
<1>3. \A w \in Uids : There(d, w) => rows[d][w].parent # v
  BY <1>1, ParentThere DEF Versions
<1>4. \A w \in Uids : There(d, w) /\ rows[d][w].parent = p => x # p /\ w = x
  <2> SUFFICES ASSUME NEW w \in Uids, There(d, w), rows[d][w].parent = p
               PROVE  x # p /\ w = x
    OBVIOUS
  <2>1. w \notin Roots /\ w # p /\ p # NoUid
    BY <1>1, ParentThere DEF Versions
  <2>2. x # p
    <3>1. Outdates(d, w, p)
      BY <2>1 DEF Outdates
    <3> QED
      BY <1>1, <3>1 DEF Newest, Outdated
  <2>3. x \notin Roots
    BY <1>1, <2>1, <2>2 DEF Versions
  <2>4. ~Begun(d, v)
    BY <1>1, <2>2 DEF Begun
  <2>5. CASE Brought(d, v)
    <3>1. PICK c \in Devices \ {d} : Made(c, v)
      BY <2>5 DEF Brought
    <3> QED
      BY <1>1, <2>1, <2>2, <2>3, <3>1, ForeignVersion
  <2> QED
    BY <2>2, <2>4, <2>5 DEF Gains
<1>5. /\ rows'[d][v].rec \in Int
      /\ \A c \in Devices, w \in Uids : w \in Int /\ rows[c][w].rec \in Int
  BY SMTT(30), UidsAssumption, SyncBoundsAssumption DEF Working, TypeOK, Row
<1>6. \A c \in Devices, w, u \in Uids : c # d \/ (w # v /\ u # v) =>
        (Outdates(c, w, u)' <=> Outdates(c, w, u))
  BY <1>1, <1>2 DEF Outdates, Same
<1>7. ASSUME NEW c \in Devices, NEW u \in Uids, There(c, u)', c # d
      PROVE  rows'[c][u].open <=> ~Outdated(c, u)'
  <2>1. There(c, u) /\ rows'[c][u].open = rows[c][u].open
    BY <1>1, <1>2, <1>7
  <2>2. Outdated(c, u)' <=> Outdated(c, u)
    BY <1>6, <1>7 DEF Outdated
  <2> QED
    BY <2>1, <2>2 DEF Newest
<1>8. ~Outdated(d, v)'
  <2> SUFFICES ASSUME NEW w \in Uids, Outdates(d, w, v)' PROVE FALSE
    BY DEF Outdated
  <2>1. /\ There(d, w) /\ w # v /\ Same(d, w)
        /\ \/ rows'[d][w].parent = v
           \/ /\ rows'[d][w].parent = p
              /\ Later(rows'[d][w].rec, w, rows'[d][v].rec, v)
    BY <1>1, <1>2 DEF Outdates
  <2>2. rows[d][w].parent = p /\ Later(rows[d][w].rec, w, rows'[d][v].rec, v)
    BY <1>3, <2>1 DEF Same
  <2>3. w = x /\ Later(rows'[d][v].rec, v, rows[d][x].rec, x)
    BY <1>1, <1>4, <2>1, <2>2
  <2> QED
    BY <1>5, <2>2, <2>3 DEF Later
<1>9. Outdates(d, v, x)'
  BY <1>1, <1>2 DEF Outdates, Same
<1>10. ASSUME NEW u \in Uids \ {v, x}, There(d, u)
       PROVE  Outdated(d, u)' <=> Outdated(d, u)
  <2>1. Outdated(d, u) => Outdated(d, u)'
    <3>1. \A w \in Uids : Outdates(d, w, u) => w # v
      BY <1>1 DEF Outdates
    <3> QED
      BY <1>6, <1>10, <3>1 DEF Outdated
  <2>2. Outdates(d, v, u)' => Outdated(d, u)
    <3> SUFFICES ASSUME Outdates(d, v, u)' PROVE Outdated(d, u)
      OBVIOUS
    <3>1. p = u \/ rows[d][u].parent = p
      BY <1>1, <1>10 DEF Outdates, Same
    <3>2. p = u
      BY <1>4, <1>10, <3>1
    <3> QED
      BY <1>1, <1>10, <3>2 DEF Newest
  <2> QED
    BY <1>6, <1>10, <2>1, <2>2 DEF Outdated
<1>11. ASSUME NEW u \in Uids, There(d, u)'
       PROVE  rows'[d][u].open <=> ~Outdated(d, u)'
  <2>1. CASE u = v
    BY <1>1, <1>8, <2>1
  <2>2. CASE u = x
    BY <1>1, <1>9, <2>2 DEF Outdated
  <2>3. CASE u \notin {v, x}
    BY <1>1, <1>2, <1>10, <1>11, <2>3 DEF Newest
  <2> QED
    BY <2>1, <2>2, <2>3
<1> QED
  BY <1>7, <1>11 DEF Newest

\* A version stays what it is.
VersionsLast ==
    /\ \A c \in Devices, w \in Uids : There(c, w) => Same(c, w)
    /\ \A c \in Devices, w \in Uids : Made(c, w) => Made(c, w)'

LEMMA GainsLast ==
  ASSUME EditOnce, Working, Written, Editing, Versions, Envelopes, Handling, [Next]_syncVars
  PROVE  VersionsLast
<1>1. CASE UNCHANGED <<rows, events, ops>>
  BY <1>1 DEF VersionsLast, Same, Made
<1>2. ASSUME NEW d \in Devices, NEW v \in Uids, NEW x \in Uids, Gains(d, v, x)
      PROVE  VersionsLast
  <2>1. \A c \in Devices, w \in Uids : There(c, w) => Same(c, w)
    BY <1>2 DEF Gains, Takes
  <2>2. \A c \in Devices, w \in Uids : Made(c, w) => Made(c, w)'
    BY <1>2, GainsThere
  <2> QED
    BY <2>1, <2>2 DEF VersionsLast
<1> QED
  BY <1>1, <1>2, VersionsGo

LEMMA GenuineLasts ==
  ASSUME VersionsLast, Editing, NEW env \in Envelope, Genuine(rows, events, env)
  PROVE  Genuine(rows', events', env)
<1>1. env.origin \in Devices /\ env.uid \in Uids /\ Made(env.origin, env.uid)
  BY DEF Envelope, Genuine, Made
<1>2. There(env.origin, env.uid)
  BY <1>1, MadeThere
<1>3. Same(env.origin, env.uid) /\ Made(env.origin, env.uid)'
  BY <1>1, <1>2 DEF VersionsLast
<1> QED
  BY <1>3 DEF Genuine, Same, Made

LEMMA EnvelopesStep ==
  ASSUME VersionsLast, Working, Editing, Envelopes, [Next]_syncVars
  PROVE  Envelopes'
<1>1. /\ log \in Seq(Envelope) /\ \A r \in Runs : run[r].blobs \in Seq(Envelope)
      /\ LocalTypes /\ \A r \in Runs : Home[r] \in Devices
  BY RunsAssumption, TypeParts DEF Working, TypeOK, RunState
<1>2. ASSUME NEW r \in Runs, NEW k \in 1..Len(run[r].blobs)
      PROVE  Genuine(rows', events', run[r].blobs[k])
  <2>1. run[r].blobs[k] \in Envelope
    BY <1>1
  <2> QED
    BY <2>1, GenuineLasts DEF Envelopes
<1>3. ASSUME NEW k \in 1..Len(log) PROVE Genuine(rows', events', log[k])
  <2>1. log[k] \in Envelope
    BY <1>1
  <2> QED
    BY <2>1, GenuineLasts DEF Envelopes
<1>4. ASSUME NEW i \in 1..Len(log') PROVE Genuine(rows', events', log'[i])
  <2>1. \A j \in 1..Len(log) : log'[j] = log[j]
    BY LogGoes
  <2>2. i \in 1..Len(log) \/ \E r \in Runs : \E k \in 1..Len(run[r].blobs) : log'[i] = run[r].blobs[k]
    BY LogGoes
  <2> QED
    BY <1>2, <1>3, <2>1, <2>2
<1>5. ASSUME NEW r \in Runs, NEW k \in 1..Len(run'[r].blobs)
      PROVE  Genuine(rows', events', run'[r].blobs[k])
  <2>1. ASSUME NEW e \in events[Home[r]]
        PROVE  Genuine(rows', events', Sealed(Home[r], e))
    <3>1. e \in Event /\ Sealed(Home[r], e) \in Envelope /\ e.op = "create"
      BY <1>1, SealedType DEF LocalTypes, Editing
    <3>2. Genuine(rows, events, Sealed(Home[r], e))
      BY <3>1 DEF Genuine, Sealed
    <3> QED
      BY <3>1, <3>2, GenuineLasts
  <2>2. Comes(r, run'[r].blobs[k])
    BY <1>5, BlobsGo
  <2> QED
    BY <1>2, <1>3, <2>1, <2>2 DEF Comes
<1> QED
  BY <1>4, <1>5 DEF Envelopes

\* A version that comes finds the memory it follows, current or followed by the
\* one version of this device; what is ignored has come or has lost.
LEMMA EditDecisions ==
  ASSUME EditOnce, Working, Editing, Versions, Newest, NEW d \in Devices,
         NEW env \in Envelope, Genuine(rows, events, env), env.origin # d
  PROVE  /\ \A plan \in Plans : \A target : Decision(d, env, plan, target) =>
              \/ plan = "supersede" /\ target = env.parent /\ Current(d, env.parent)
              \/ /\ plan = "displace" /\ ~Current(d, env.parent)
                 /\ target \in Competitors(d, env) /\ RemoteWins(d, env, target)
         /\ Ignores(d, env) => Passed(rows, d, env)
<1> DEFINE c == env.origin
           v == env.uid
           p == env.parent
<1>1. /\ c \in Devices /\ c # d /\ v \in Uids /\ Made(c, v) /\ env.op = "create"
      /\ p = rows[c][v].parent /\ NoUid \notin Uids /\ env.ts \in Int
  BY UidsAssumption, SyncBoundsAssumption DEF Envelope, Genuine, Made, NoUid
<1> HIDE DEF c, v, p
<1>2. /\ p \in Uids /\ p # v /\ There(d, p) /\ p # NoUid
      /\ \A w, z \in Uids \ Roots : There(d, w) /\ There(d, z) => w = z \/ w = v \/ z = v
  BY <1>1, ForeignVersion
<1>3. ~Retires(d, env) /\ (New(d, env) <=> ~There(d, v)) /\ Known(d, p)
  BY <1>1, <1>2 DEF Retires, New, Known, There, v
<1>4. ASSUME ~There(d, v), ~Current(d, p) PROVE Competitors(d, env) # {}
  <2>1. PICK w \in Uids : Outdates(d, w, p)
    BY <1>2, <1>4 DEF Newest, Outdated, Current, Versions
  <2>2. There(d, w) /\ w # p /\ w # v /\ w \notin Roots
    BY <1>2, <1>4, <2>1, UidsAssumption DEF Outdates, Versions
  <2>3. rows[d][w].parent = p
    <3>1. CASE rows[d][w].parent = rows[d][p].parent /\ rows[d][p].parent # NoUid
      <4>1. p \notin Roots
        BY <3>1 DEF Versions
      <4> QED
        BY <1>2, <2>2, <4>1
    <3> QED
      BY <2>1, <3>1 DEF Outdates
  <2>4. ~Outdated(d, w)
    <3> SUFFICES ASSUME NEW z \in Uids, Outdates(d, z, w) PROVE FALSE
      BY DEF Outdated
    <3>1. There(d, z) /\ z # w /\ z # v /\ z \notin Roots
      BY <1>2, <1>4, <2>2, <2>3, UidsAssumption DEF Outdates, Versions
    <3> QED
      BY <1>2, <2>2, <3>1
  <2>5. Current(d, w)
    BY <2>2, <2>4 DEF Newest, Versions, Current
  <2> QED
    BY <2>3, <2>5 DEF Competitors, p
<1>5. New(d, env) => Follows(d, env) \/ Rivals(d, env)
  BY <1>3, <1>4 DEF Follows, Rivals, p
<1>6. ASSUME Ignores(d, env) PROVE Passed(rows, d, env)
  <2>1. CASE There(d, v)
    BY <2>1 DEF Passed, There, v
  <2>2. CASE ~There(d, v)
    <3>1. PICK w \in Competitors(d, env) : ~RemoteWins(d, env, w)
      BY <1>3, <1>6, <2>2 DEF Ignores
    <3>2. w \in Uids /\ There(d, w) /\ rows[d][w].parent = p /\ w # v
      BY <2>2, <3>1 DEF Competitors, Current, There, p
    <3>3. rows[d][w].rec \in Int /\ w \in Int /\ v \in Int
      BY <1>1, <3>2, UidsAssumption, SyncBoundsAssumption DEF Working, TypeOK, Row
    <3>4. Later(rows[d][w].rec, w, env.ts, v)
      BY <1>1, <3>1, <3>2, <3>3 DEF RemoteWins, Later, v
    <3> QED
      BY <3>2, <3>4 DEF Passed, There, v, p
  <2> QED
    BY <2>1, <2>2
<1> QED
  BY <1>3, <1>5, <1>6 DEF Decision, Rivals, Follows, Plans, p

\* What becomes of a pull.
Keeps(q) ==
    /\ run'[q].blobs = run[q].blobs /\ run'[q].next = run[q].next
    /\ \/ /\ run'[q].at = run[q].at /\ run'[q].plan = run[q].plan
          /\ run'[q].target = run[q].target
       \/ /\ run[q].at = "decide" /\ run'[q].at = "apply"
          /\ Poised(run[q], Home[q])'
Advances(q) ==
    /\ run[q].at \in {"decide", "apply"}
    /\ run'[q].blobs = Tail(run[q].blobs) /\ run'[q].next = run[q].next
    /\ run'[q].at \in {"decide", "finish"}
    /\ run'[q].at = "finish" => Len(run[q].blobs) = 1
    /\ Passed(rows', Home[q], Head(run[q].blobs))
Moves(q) == Stops(q) \/ Begins(q) \/ Keeps(q) \/ Advances(q)

LEMMA PullMoves ==
  ASSUME EditOnce, Working, Written, Editing, Versions, Newest, Envelopes, Handling,
         NEW r \in Pullers, Sync(r) \/ Crash(r)
  PROVE  Moves(r)
<1>1. /\ r \in Runs /\ run \in [Runs -> RunState] /\ run[r] \in RunState
      /\ r \notin Pushers /\ run[r].at \in {"idle", "decide", "apply", "finish"}
      /\ Home[r] \in Devices /\ LocalTypes /\ Progress(run[r], Home[r])
      /\ Poised(run[r], Home[r])
  BY RunsAssumption, TypeParts DEF Runs, Working, TypeOK, Handling, Reading
<1>2. ASSUME NEW s, Becomes(r, s) PROVE run'[r] = s
  BY <1>1, <1>2 DEF Becomes
<1>3. Idle.at = "idle" /\ Idle.blobs = << >> /\ Idle.next = 0
  BY DEF Idle
<1>4. CASE Becomes(r, Idle)
  BY <1>2, <1>3, <1>4 DEF Moves, Stops
<1>5. CASE PullBegin(r)
  <2> DEFINE c == seen[Home[r]]
             at == IF Since(c) = << >> THEN "finish" ELSE "decide"
             s == [Idle EXCEPT !.at = at, !.blobs = Since(c), !.next = SinceEnd(c)]
  <2>1. Becomes(r, s) /\ UNCHANGED log
    BY <1>5 DEF PullBegin
  <2>2. at \in {"decide", "finish"} /\ (at = "finish" => Since(c) = << >>)
    OBVIOUS
  <2> HIDE DEF at, c
  <2>3. s.blobs = Since(c) /\ s.at = at /\ s.next = SinceEnd(c)
    BY IdleType DEF RunState, Idle
  <2> HIDE DEF s
  <2> QED
    BY <1>2, <2>1, <2>2, <2>3 DEF Moves, Begins, c
<1> DEFINE b == run[r].blobs
           env == Head(b)
<1>6. ASSUME run[r].at \in {"decide", "apply"}
      PROVE  /\ b \in Seq(Envelope) /\ b # << >> /\ env \in Envelope
             /\ Rest(r) \in RunState /\ Rest(r).blobs = Tail(b) /\ Rest(r).next = run[r].next
             /\ Rest(r).at \in {"decide", "finish"} /\ (Rest(r).at = "finish" => Len(b) = 1)
             /\ Genuine(rows, events, env)
  <2>1. b \in Seq(Envelope) /\ b # << >> /\ Genuine(rows, events, env)
    BY <1>1, <1>6, HeadGenuine
  <2>2. Rest(r).at = "finish" => Len(b) = 1
    BY <1>1 DEF Rest, RunState
  <2> QED
    BY <1>1, <2>1, <2>2, RestType
<1>7. ASSUME run[r].at \in {"decide", "apply"}, Passed(rows', Home[r], env),
             Becomes(r, Rest(r)) \/ Becomes(r, [Rest(r) EXCEPT !.applied = TRUE])
      PROVE  Moves(r)
  <2> DEFINE s == [Rest(r) EXCEPT !.applied = TRUE]
  <2>1. s.blobs = Rest(r).blobs /\ s.next = Rest(r).next /\ s.at = Rest(r).at
    BY <1>6, <1>7 DEF RunState
  <2>2. Becomes(r, Rest(r)) \/ Becomes(r, s)
    BY <1>7
  <2> HIDE DEF s, b, env
  <2>3. /\ run'[r].blobs = Tail(b) /\ run'[r].next = run[r].next
        /\ run'[r].at \in {"decide", "finish"} /\ (run'[r].at = "finish" => Len(b) = 1)
    BY <1>2, <1>6, <1>7, <2>1, <2>2
  <2> QED
    BY <1>7, <2>3 DEF Moves, Advances, b, env
<1>8. CASE PullDecide(r)
  <2>1. run[r].at = "decide" /\ UNCHANGED rows
    BY <1>8 DEF PullDecide, store
  <2>2. CASE (env.origin = Home[r] \/ Ignores(Home[r], env)) /\ Becomes(r, Rest(r))
    <3>1. Passed(rows, Home[r], env)
      BY <1>1, <1>6, <2>1, <2>2, EditDecisions DEF Passed
    <3> QED
      BY <1>7, <2>1, <2>2, <3>1
  <2>3. ASSUME NEW plan \in Plans, NEW target \in Uids \cup {NoUid},
               env.origin # Home[r], Decision(Home[r], env, plan, target),
               Becomes(r, [run[r] EXCEPT !.at = "apply", !.plan = plan, !.target = target])
        PROVE  Moves(r)
    <3> DEFINE s == [run[r] EXCEPT !.at = "apply", !.plan = plan, !.target = target]
               d == Home[r]
    <3>1. /\ s.at = "apply" /\ s.plan = plan /\ s.target = target
          /\ s.blobs = b /\ s.next = run[r].next
      BY <1>1 DEF RunState
    <3>2. \/ plan = "supersede" /\ target = env.parent /\ Current(d, env.parent)
          \/ /\ plan = "displace" /\ ~Current(d, env.parent)
             /\ target \in Competitors(d, env) /\ RemoteWins(d, env, target)
      BY <1>1, <1>6, <2>1, <2>3, EditDecisions
    <3>3. run'[r] = s
      BY <1>2, <2>3
    <3> HIDE DEF s
    <3>4. Poised(run[r], Home[r])'
      <4>1. /\ rows' = rows /\ run'[r].plan = plan /\ run'[r].target = target
            /\ run'[r].blobs = b
        BY <2>1, <3>1, <3>3
      <4> HIDE DEF b
      <4> QED
        BY <2>3, <3>2, <4>1 DEF Poised, There, Current, Competitors, RemoteWins, env
    <3> QED
      BY <2>1, <3>1, <3>3, <3>4 DEF Moves, Keeps
  <2> QED
    BY <1>8, <2>2, <2>3 DEF PullDecide
<1>9. CASE PullSkip(r)
  <2> DEFINE d == Home[r]
  <2>1. /\ run[r].at = "apply" /\ UNCHANGED rows /\ ~Fits(d, env, run[r].plan)
        /\ Becomes(r, Rest(r))
    BY <1>9 DEF PullSkip, store, EditOnce
  <2>2. /\ env.origin # d /\ env.origin \in Devices /\ env.uid \in Uids
        /\ Made(env.origin, env.uid) /\ env.parent = rows[env.origin][env.uid].parent
    BY <1>1, <1>6, <2>1 DEF Poised, Envelope, Genuine, Made
  <2> HIDE DEF env
  <2>3. Known(d, env.parent)
    <3>1. env.parent \in Uids /\ There(d, env.parent)
      BY <1>1, <2>2, ForeignVersion
    <3> QED
      BY <3>1, UidsAssumption DEF Known, There, NoUid
  <2>4. Known(d, env.uid)
    BY <2>1, <2>3 DEF Fits
  <2>5. Passed(rows, Home[r], env)
    BY <2>4 DEF Passed, Known
  <2> QED
    BY <1>7, <2>1, <2>5
<1>10. CASE PullApply(r)
  <2>1. run[r].at = "apply" /\ Becomes(r, [Rest(r) EXCEPT !.applied = TRUE])
    BY <1>10 DEF PullApply
  <2>2. PICK x \in Uids : Takes(Home[r], env.uid, x)
    BY <1>1, <1>10, ApplyTakes
  <2>3. rows'[Home[r]][env.uid].status # "absent"
    BY <2>2 DEF Takes
  <2>4. Passed(rows', Home[r], env)
    BY <2>3 DEF Passed
  <2> QED
    BY <1>7, <2>1, <2>4
<1>11. CASE PullFinish(r) \/ Crash(r)
  BY <1>4, <1>11 DEF PullFinish, Crash
<1> QED
  BY <1>1, <1>5, <1>8, <1>9, <1>10, <1>11 DEF Sync, PushBegin, PushFetch, PushSend, PushDrain

\* A push stays one.
LEMMA PushStays ==
  ASSUME Working, Handling, NEW r \in Pushers, Sync(r) \/ Crash(r)
  PROVE  run'[r].at \in {"idle", "fetch", "send", "drain"}
<1>1. /\ r \in Runs /\ run \in [Runs -> RunState] /\ run[r] \in RunState
      /\ r \notin Pullers /\ run[r].at \in {"idle", "fetch", "send", "drain"}
  BY RunsAssumption DEF Runs, Working, TypeOK, Handling
<1>2. ASSUME NEW s, Becomes(r, s) PROVE run'[r] = s
  BY <1>1, <1>2 DEF Becomes
<1>3. CASE Becomes(r, Idle)
  BY <1>2, <1>3 DEF Idle
<1>4. CASE PushBegin(r)
  <2> DEFINE s == [Idle EXCEPT !.at = "fetch", !.page = Page(Home[r]),
                               !.next = NextCursor(Home[r])]
  <2>1. s.at = "fetch" /\ Becomes(r, s)
    BY <1>4, IdleType DEF RunState, PushBegin, Idle
  <2> HIDE DEF s
  <2> QED
    BY <1>2, <2>1
<1>5. CASE PushFetch(r)
  BY <1>1, <1>2, <1>5, FetchFacts
<1>6. CASE PushSend(r)
  <2> DEFINE s == [run[r] EXCEPT !.at = "drain"]
  <2>1. s.at = "drain" /\ (Becomes(r, s) \/ Becomes(r, Idle))
    BY <1>1, <1>6 DEF RunState, PushSend
  <2> HIDE DEF s
  <2> QED
    BY <1>2, <1>3, <2>1
<1>7. CASE PushDrain(r) \/ Crash(r)
  BY <1>3, <1>7 DEF PushDrain, Crash
<1> QED
  BY <1>1, <1>4, <1>5, <1>6, <1>7 DEF Sync, PullBegin, PullDecide, PullApply, PullSkip, PullFinish

\* The commands and the cursors, in one step; a decision that waits still holds.
LEMMA HandlingNext ==
  ASSUME EditOnce, Working, Written, Editing, Versions, Newest, Envelopes, Handling, [Next]_syncVars
  PROVE  /\ \A p \in Pushers : run'[p].at \in {"idle", "fetch", "send", "drain"}
         /\ \A q \in Pullers : Moves(q)
         /\ \A d \in Devices :
              \/ seen'[d] = seen[d]
              \/ \E q \in Pullers : /\ Home[q] = d /\ run[q].at = "finish"
                                    /\ seen'[d] = run[q].next
<1>1. /\ run \in [Runs -> RunState] /\ seen \in [Devices -> Nat]
      /\ \A r \in Runs : Home[r] \in Devices
      /\ Pushers \subseteq Runs /\ Pullers \subseteq Runs /\ Pushers \cap Pullers = {}
  BY RunsAssumption DEF Runs, Working, TypeOK
<1>2. ASSUME NEW r \in Runs, run'[r] = run[r]
      PROVE  /\ r \in Pushers => run'[r].at \in {"idle", "fetch", "send", "drain"}
             /\ r \in Pullers => Moves(r)
  BY <1>1, <1>2 DEF Handling, Moves, Keeps
<1>3. CASE UNCHANGED run /\ UNCHANGED seen
  BY <1>1, <1>2, <1>3
<1>4. ASSUME NEW r \in Runs, Sync(r) \/ Crash(r)
      PROVE  /\ \A p \in Pushers : run'[p].at \in {"idle", "fetch", "send", "drain"}
             /\ \A q \in Pullers : Moves(q)
  <2>1. \E s : Becomes(r, s)
    BY <1>4 DEF Sync, Crash, PushBegin, PushFetch, PushSend, PushDrain, PullBegin, PullDecide,
                PullApply, PullSkip, PullFinish
  <2>2. \A q \in Runs \ {r} : run'[q] = run[q]
    BY <1>1, <2>1 DEF Becomes
  <2> QED
    BY <1>1, <1>2, <1>4, <2>2, PushStays, PullMoves
<1>5. ASSUME NEW r \in Runs, Sync(r) \/ Crash(r), NEW d \in Devices
      PROVE  \/ seen'[d] = seen[d]
             \/ \E q \in Pullers : /\ Home[q] = d /\ run[q].at = "finish"
                                   /\ seen'[d] = run[q].next
  <2>1. \/ UNCHANGED seen
        \/ run[r].at = "finish" /\ seen' = [seen EXCEPT ![Home[r]] = run[r].next]
    BY <1>5 DEF cursors, Sync, Crash, PushBegin, PushFetch, PushSend, PushDrain, PullBegin,
                PullDecide, PullApply, PullSkip, PullFinish
  <2>2. run[r].at = "finish" => r \in Pullers
    BY DEF Runs, Handling
  <2> QED
    BY <1>1, <2>1, <2>2
<1> QED
  BY <1>3, <1>4, <1>5 DEF Next, Local, syncVars, cursors

\* A decision that waits: the rows of its device change only by another pull,
\* which brings the same version.
LEMMA PoisedStays ==
  ASSUME EditOnce, Working, Written, Editing, Versions, Envelopes, Handling, [Next]_syncVars,
         NEW q \in Pullers, run[q].at = "apply", run'[q].blobs = run[q].blobs,
         run'[q].plan = run[q].plan, run'[q].target = run[q].target
  PROVE  Poised(run[q], Home[q])'
<1> DEFINE d == Home[q]
           env == Head(run[q].blobs)
<1>1. /\ q \in Runs /\ d \in Devices /\ Poised(run[q], d) /\ NoUid \notin Uids
  BY RunsAssumption, UidsAssumption DEF Runs, Handling, NoUid
<1>2. /\ env \in Envelope /\ Genuine(rows, events, env)
      /\ env.origin # d /\ run[q].plan \in {"supersede", "displace"}
  BY <1>1, HeadGenuine DEF Poised
<1>3. env.origin \in Devices /\ env.uid \in Uids /\ Made(env.origin, env.uid)
  BY <1>2 DEF Envelope, Genuine, Made
<1>4. CASE rows'[d] = rows[d]
  <2> HIDE DEF d, env
  <2>1. /\ There(d, env.uid)' <=> There(d, env.uid)
        /\ Current(d, env.parent)' <=> Current(d, env.parent)
        /\ Competitors(d, env)' = Competitors(d, env)
        /\ RemoteWins(d, env, run[q].target)' <=> RemoteWins(d, env, run[q].target)
    BY <1>4 DEF There, Current, Competitors, RemoteWins, d, env
  <2> QED
    BY <1>1, <2>1 DEF Poised, d, env
<1>5. CASE There(d, env.uid)'
  BY <1>2, <1>5 DEF Poised
<1>6. rows'[d] = rows[d] \/ There(d, env.uid)'
  <2>1. ASSUME NEW r \in Runs, PullApply(r), Home[r] = d
        PROVE  There(d, env.uid)'
    <3> DEFINE new == Head(run[r].blobs)
    <3>1. /\ run[r].at = "apply" /\ r \in Pullers
      BY <2>1 DEF PullApply, Handling, Runs
    <3>2. Poised(run[r], Home[r])
      BY <3>1 DEF Handling
    <3>3. /\ new \in Envelope /\ Genuine(rows, events, new) /\ new.origin # d
      BY <2>1, <3>1, <3>2, HeadGenuine DEF Poised
    <3>4. new.origin \in Devices /\ new.uid \in Uids /\ Made(new.origin, new.uid)
      BY <3>3 DEF Envelope, Genuine, Made
    <3>5. new.uid = env.uid
      <4> HIDE DEF new, env, d
      <4>1. new.origin = env.origin
        BY <1>1, <1>2, <1>3, <3>3, <3>4, OnlyTwo
      <4> QED
        BY <1>3, <3>4, <4>1 DEF Editing
    <3>6. PICK x \in Uids : Takes(Home[r], new.uid, x)
      BY <2>1, <3>2, ApplyTakes
    <3> QED
      BY <2>1, <3>5, <3>6 DEF Takes, There
  <2>2. ASSUME NEW r \in Runs, PullApply(r), Home[r] # d PROVE rows'[d] = rows[d]
    <3>1. \E table : rows' = [rows EXCEPT ![Home[r]] = table]
      BY <2>2 DEF PullApply
    <3> QED
      BY <1>1, <2>2, <3>1 DEF Working, TypeOK
  <2>3. ASSUME NEW c \in Devices, Local(c) PROVE rows'[d] = rows[d]
    <3>1. c # d
      BY <1>1, <2>3, EditTakes
    <3>2. \E table : rows' = [rows EXCEPT ![c] = table]
      BY <2>3 DEF Local, Create, Succeeds, Retire, Forget, Purge, Commits
    <3> QED
      BY <1>1, <3>1, <3>2 DEF Working, TypeOK
  <2>4. UNCHANGED rows \/ (\E c \in Devices : Local(c)) \/ \E r \in Runs : PullApply(r)
    BY DEF Next, syncVars, store, Sync, Crash, PushBegin, PushFetch, PushSend, PushDrain,
           PullBegin, PullDecide, PullSkip, PullFinish
  <2> QED
    BY <2>1, <2>2, <2>3, <2>4
<1> QED
  BY <1>4, <1>5, <1>6

LEMMA ReadingStep ==
  ASSUME Working, Handling, [Next]_syncVars, NEW q \in Pullers, Moves(q)
  PROVE  Reading(run[q])'
<1>1. /\ Reading(run[q]) /\ run[q].blobs \in Seq(Envelope) /\ run[q].next \in Nat
      /\ log \in Seq(Envelope) /\ seen[Home[q]] \in Nat /\ seen[Home[q]] <= Len(log)
      /\ Progress(run[q], Home[q])
  BY RunsAssumption DEF Handling, Working, TypeOK, RunState, Runs
<1>2. /\ Len(log) \in Nat /\ Len(log') \in Nat /\ Len(log) <= Len(log')
      /\ \A i \in 1..Len(log) : log'[i] = log[i]
  BY LogGoes
<1> DEFINE b == run[q].blobs
           n == run[q].next
           t == run'[q]
<1>3. /\ b \in Seq(Envelope) /\ n \in Nat /\ n <= Len(log) /\ Len(b) <= n
      /\ \A k \in 1..Len(b) : b[k] = log[n - Len(b) + k]
  BY <1>1 DEF Reading
<1> SUFFICES /\ t.at \in {"idle", "decide", "apply", "finish"}
             /\ t.next <= Len(log') /\ Len(t.blobs) <= t.next
             /\ \A k \in 1..Len(t.blobs) : t.blobs[k] = log'[t.next - Len(t.blobs) + k]
             /\ t.at = "finish" => Len(t.blobs) = 0
  BY DEF Reading
<1>4. CASE Stops(q)
  BY <1>2, <1>4 DEF Stops
<1>5. CASE Begins(q)
  <2> DEFINE c == seen[Home[q]]
  <2>1. /\ c \in Nat /\ c <= Len(log) /\ UNCHANGED log
        /\ t.blobs = Since(c) /\ t.next = SinceEnd(c)
        /\ t.at \in {"decide", "finish"} /\ (t.at = "finish" => t.blobs = << >>)
    BY <1>1, <1>5 DEF Begins
  <2> HIDE DEF c, t
  <2>2. /\ t.next \in Nat /\ t.next <= Len(log) /\ Len(t.blobs) = t.next - c
        /\ \A k \in 1..Len(t.blobs) : t.blobs[k] = log[c + k]
    BY <1>1, <2>1, SinceFacts
  <2>3. t.next - Len(t.blobs) = c
    BY <2>1, <2>2
  <2> QED
    BY <2>1, <2>2, <2>3
<1>6. CASE Keeps(q)
  <2>1. t.blobs = b /\ t.next = n /\ (t.at = run[q].at \/ t.at = "apply")
    BY <1>6 DEF Keeps
  <2>2. /\ run[q].at \in {"idle", "decide", "apply", "finish"}
        /\ run[q].at = "finish" => Len(b) = 0
    BY <1>1 DEF Reading
  <2> HIDE DEF b, n, t
  <2>3. \A k \in 1..Len(b) : n - Len(b) + k \in 1..Len(log)
    BY <1>2, <1>3
  <2>4. n <= Len(log')
    BY <1>2, <1>3
  <2> QED
    BY <1>2, <1>3, <2>1, <2>2, <2>3, <2>4
<1>7. CASE Advances(q)
  <2>1. /\ t.blobs = Tail(b) /\ t.next = n /\ b # << >>
        /\ t.at \in {"decide", "finish"} /\ (t.at = "finish" => Len(b) = 1)
    BY <1>1, <1>7 DEF Advances, Progress
  <2> HIDE DEF b, n, t
  <2>2. /\ Len(t.blobs) = Len(b) - 1 /\ Len(b) \in Nat
        /\ \A k \in 1..Len(t.blobs) : k + 1 \in 1..Len(b) /\ t.blobs[k] = b[k + 1]
    BY <1>3, <2>1
  <2>3. \A k \in 1..Len(t.blobs) :
          /\ n - Len(t.blobs) + k = n - Len(b) + (k + 1)
          /\ n - Len(b) + (k + 1) \in 1..Len(log)
    BY <1>2, <1>3, <2>2
  <2>4. \A k \in 1..Len(t.blobs) : t.blobs[k] = log'[n - Len(t.blobs) + k]
    BY <1>2, <1>3, <2>2, <2>3
  <2>5. n <= Len(log') /\ Len(t.blobs) <= n
    BY <1>2, <1>3, <2>2
  <2> QED
    BY <2>1, <2>2, <2>4, <2>5
<1> QED
  BY <1>4, <1>5, <1>6, <1>7 DEF Moves

LEMMA HandlingStep ==
  ASSUME EditOnce, Working, Written, Editing, Versions, Newest, Envelopes, Handling, [Next]_syncVars
  PROVE  Handling'
<1>1. Len(log) \in Nat /\ Len(log') \in Nat /\ Len(log) <= Len(log')
  BY LogGoes
<1>2. /\ seen \in [Devices -> Nat] /\ run \in [Runs -> RunState] /\ run' \in [Runs -> RunState]
      /\ \A r \in Runs : run[r].next \in Nat
  <2>1. Working'
    BY WorkingStep
  <2> QED
    BY <2>1 DEF Working, TypeOK, RunState
<1>3. ASSUME NEW d \in Devices PROVE seen'[d] <= Len(log')
  <2>1. \/ seen'[d] = seen[d]
        \/ \E q \in Pullers : seen'[d] = run[q].next
    BY HandlingNext
  <2>2. seen[d] <= Len(log) /\ \A q \in Pullers : run[q].next <= Len(log)
    BY DEF Handling, Reading
  <2> QED
    BY <1>1, <1>2, <2>1, <2>2 DEF Runs
<1>4. ASSUME NEW q \in Pullers PROVE Poised(run[q], Home[q])'
  <2>1. Moves(q) /\ q \in Runs
    BY HandlingNext DEF Runs
  <2>2. CASE run'[q].at # "apply"
    BY <2>2 DEF Poised
  <2>3. CASE run'[q].at = "apply" /\ run[q].at # "apply"
    BY <2>1, <2>3 DEF Moves, Stops, Begins, Keeps, Advances
  <2>4. CASE run'[q].at = "apply" /\ run[q].at = "apply"
    <3>1. /\ run'[q].blobs = run[q].blobs /\ run'[q].plan = run[q].plan
          /\ run'[q].target = run[q].target
      BY <2>1, <2>4 DEF Moves, Stops, Begins, Keeps, Advances
    <3> QED
      BY <2>4, <3>1, PoisedStays
  <2> QED
    BY <2>2, <2>3, <2>4
<1> QED
  BY <1>3, <1>4, HandlingNext, ReadingStep DEF Handling

\* What has been passed stays so, as versions stay what they are.
LEMMA PassedStays ==
  ASSUME VersionsLast, NEW d \in Devices, NEW env \in Envelope, Passed(rows, d, env)
  PROVE  Passed(rows', d, env)
<1>1. \A w \in Uids : There(d, w) => /\ rows'[d][w].status # "absent"
                                     /\ rows'[d][w].parent = rows[d][w].parent
                                     /\ rows'[d][w].rec = rows[d][w].rec
  BY DEF VersionsLast, Same, There
<1>2. env.uid \in Uids
  BY DEF Envelope
<1> QED
  BY <1>1, <1>2 DEF Passed, There

LEMMA PassingStep ==
  ASSUME VersionsLast, EditOnce, Working, Written, Editing, Versions, Newest, Envelopes,
         Handling, Passing, [Next]_syncVars
  PROVE  Passing'
<1>1. /\ Len(log) \in Nat /\ log \in Seq(Envelope) /\ seen \in [Devices -> Nat]
      /\ \A i \in 1..Len(log) : log'[i] = log[i]
      /\ \A q \in Pullers : Home[q] \in Devices
      /\ \A d \in Devices : seen[d] \in Nat /\ seen[d] <= Len(log)
  BY LogGoes, RunsAssumption DEF Working, TypeOK, Handling, Runs
<1>2. ASSUME NEW d \in Devices, NEW k \in Nat, k <= Len(log), PassedTo(d, k)
      PROVE  \A i \in 1..k : Passed(rows', d, log'[i])
  <2> SUFFICES ASSUME NEW i \in 1..k PROVE Passed(rows', d, log'[i])
    OBVIOUS
  <2>1. i \in 1..Len(log) /\ log[i] \in Envelope /\ log'[i] = log[i]
    BY <1>1, <1>2
  <2> QED
    BY <1>2, <2>1, PassedStays DEF PassedTo
<1>3. ASSUME NEW q \in Pullers
      PROVE  /\ run[q].blobs \in Seq(Envelope) /\ run[q].next \in Nat
             /\ run[q].next <= Len(log) /\ Len(run[q].blobs) <= run[q].next
             /\ \A k \in 1..Len(run[q].blobs) :
                  run[q].blobs[k] = log[run[q].next - Len(run[q].blobs) + k]
             /\ run[q].at = "finish" => Len(run[q].blobs) = 0
             /\ run[q].at \in {"decide", "apply"} => run[q].blobs # << >>
             /\ run[q].next - Len(run[q].blobs) \in Nat
             /\ run[q].next - Len(run[q].blobs) <= Len(log)
             /\ PassedTo(Home[q], run[q].next - Len(run[q].blobs))
  <2>1. /\ run[q].blobs \in Seq(Envelope) /\ run[q].next \in Nat /\ Reading(run[q])
        /\ run[q].at \in {"decide", "apply"} => run[q].blobs # << >>
        /\ PassedTo(Home[q], run[q].next - Len(run[q].blobs))
    BY DEF Working, TypeOK, RunState, Progress, Handling, Runs, Passing
  <2>2. Len(run[q].blobs) \in Nat
    BY <2>1
  <2> QED
    BY <1>1, <2>1, <2>2 DEF Reading
<1>4. ASSUME NEW d \in Devices
      PROVE  \A i \in 1..seen'[d] : Passed(rows', d, log'[i])
  <2>1. CASE seen'[d] = seen[d]
    BY <1>1, <1>2, <2>1 DEF Passing
  <2>2. ASSUME NEW q \in Pullers, Home[q] = d, run[q].at = "finish", seen'[d] = run[q].next
        PROVE  \A i \in 1..seen'[d] : Passed(rows', d, log'[i])
    <3>1. run[q].next - Len(run[q].blobs) = run[q].next
      BY <1>3, <2>2
    <3> QED
      BY <1>2, <1>3, <2>2, <3>1
  <2> QED
    BY <2>1, <2>2, HandlingNext
<1>5. ASSUME NEW q \in Pullers
      PROVE  \A i \in 1..(run'[q].next - Len(run'[q].blobs)) : Passed(rows', Home[q], log'[i])
  <2> DEFINE b == run[q].blobs
             n == run[q].next
             t == run'[q]
             d == Home[q]
  <2>1. /\ b \in Seq(Envelope) /\ n \in Nat /\ n <= Len(log) /\ Len(b) <= n /\ d \in Devices
        /\ \A k \in 1..Len(b) : b[k] = log[n - Len(b) + k]
        /\ n - Len(b) \in Nat /\ n - Len(b) <= Len(log) /\ PassedTo(d, n - Len(b))
    BY <1>1, <1>3
  <2>2. CASE Stops(q)
    BY <2>2 DEF Stops
  <2>3. CASE Begins(q)
    <3>1. t.next - Len(t.blobs) = seen[d]
      <4> DEFINE c == seen[d]
      <4>1. c \in Nat /\ c <= Len(log) /\ t.blobs = Since(c) /\ t.next = SinceEnd(c)
        BY <1>1, <2>1, <2>3 DEF Begins
      <4> HIDE DEF c, t
      <4>2. Len(t.blobs) = t.next - c /\ t.next \in Nat
        BY <1>1, <4>1, SinceFacts
      <4>3. t.next - Len(t.blobs) = c
        BY <4>1, <4>2
      <4> QED
        BY <4>3 DEF c
    <3> QED
      BY <1>1, <1>2, <2>1, <3>1 DEF Passing
  <2>4. CASE Keeps(q)
    BY <1>2, <2>1, <2>4 DEF Keeps
  <2>5. CASE Advances(q)
    <3>1. /\ t.blobs = Tail(b) /\ t.next = n /\ b # << >> /\ Passed(rows', d, Head(b))
      BY <1>3, <2>5 DEF Advances
    <3> HIDE DEF b, n, t, d
    <3>2. Len(b) \in Nat \ {0} /\ Len(t.blobs) = Len(b) - 1 /\ Head(b) = b[1]
      BY <2>1, <3>1
    <3>3. t.next - Len(t.blobs) = n - Len(b) + 1 /\ Head(b) = log[n - Len(b) + 1]
          /\ n - Len(b) + 1 \in 1..Len(log)
      BY <2>1, <3>1, <3>2
    <3>4. ASSUME NEW i \in 1..(n - Len(b) + 1) PROVE Passed(rows', d, log'[i])
      <4>1. CASE i = n - Len(b) + 1
        BY <1>1, <3>1, <3>3, <4>1
      <4>2. CASE i # n - Len(b) + 1
        <5>1. i \in 1..(n - Len(b))
          BY <2>1, <4>2
        <5> QED
          BY <1>2, <2>1, <5>1
      <4> QED
        BY <4>1, <4>2
    <3> QED
      BY <3>3, <3>4 DEF t, d
  <2> QED
    BY <2>2, <2>3, <2>4, <2>5, HandlingNext DEF Moves
<1> QED
  BY <1>4, <1>5 DEF Passing, PassedTo

\* What the theorem about convergence rests on.
Settling == Written /\ Editing /\ Versions /\ Newest /\ Envelopes /\ Handling /\ Passing

LEMMA SettlingStep ==
  ASSUME EditOnce, Working, Settling, [Next]_syncVars
  PROVE  Settling'
<1>1. Working' /\ Written'
  BY WorkingStep, WrittenStep DEF Settling, EditOnce, NoPurge
<1>2. VersionsLast
  BY GainsLast DEF Settling
<1>3. Editing' /\ Versions' /\ Newest'
  <2>1. CASE UNCHANGED <<rows, events, ops>>
    BY <2>1 DEF Settling, Editing, Versions, Newest, Made, There, Outdated, Outdates
  <2>2. ASSUME NEW d \in Devices, NEW v \in Uids, NEW x \in Uids, Gains(d, v, x)
        PROVE  Editing' /\ Versions' /\ Newest'
    BY <1>1, <2>2, EditingStep, VersionsStep, NewestStep DEF Settling
  <2> QED
    BY <2>1, <2>2, VersionsGo DEF Settling
<1> QED
  BY <1>1, <1>2, <1>3, EnvelopesStep, HandlingStep, PassingStep DEF Settling

LEMMA SettlingInit == Init => Settling
<1> SUFFICES ASSUME Init PROVE Settling
  OBVIOUS
<1>1. /\ \A r \in Runs : run[r].at = "idle" /\ run[r].blobs = << >> /\ run[r].next = 0
      /\ log = << >>
  BY DEF Init, RelayInit, Idle
<1>2. ASSUME NEW d \in Devices
      PROVE  /\ seen[d] = 0 /\ events[d] = {}
             /\ \A u \in Uids :
                  /\ rows[d][u].parent = NoUid /\ rows[d][u].rec = 0
                  /\ u \in Roots => /\ rows[d][u].status = "active" /\ rows[d][u].open
                                    /\ rows[d][u].public
                  /\ u \notin Roots => rows[d][u].status = "absent"
  BY DEF Init, Absent
<1>3. Editing /\ Versions
  BY <1>2, UidsAssumption DEF Editing, Versions, Made, There, NoUid
<1>4. Newest
  BY <1>2, UidsAssumption DEF Newest, Outdated, Outdates, There, NoUid
<1>5. Envelopes
  BY <1>1 DEF Envelopes
<1>6. Handling /\ Passing
  <2>1. \A r \in Runs : Len(run[r].blobs) = 0 /\ Len(log) = 0
    BY <1>1
  <2> QED
    BY <1>1, <1>2, <2>1 DEF Handling, Reading, Poised, Passing, PassedTo, Runs
<1> QED
  BY <1>3, <1>4, <1>5, <1>6, WrittenInit DEF Settling

LEMMA LaterOrder ==
  /\ \A r, s, t, u, v, w \in Int : Later(r, u, s, v) /\ Later(s, v, t, w) => Later(r, u, t, w)
  /\ \A r, s, u, v \in Int : ~(Later(r, u, s, v) /\ Later(s, v, r, u))
  BY DEF Later

\* When nothing is left to push or to pull, a version that is current where it
\* was made has come to the other device, or has lost there.
LEMMA QuietArrives ==
  ASSUME Working, Settling, Published, Quiet, NEW c \in Devices, NEW d \in Devices, c # d,
         NEW v \in Uids, Made(c, v), Current(c, v)
  PROVE  \/ There(d, v)
         \/ \E w \in Uids : /\ There(d, w) /\ w # v
                            /\ rows[d][w].parent = rows[c][v].parent
                            /\ Later(rows[d][w].rec, w, rows[c][v].rec, v)
<1>1. PICK e \in events[c] : e.op = "create" /\ e.uid = v
  BY DEF Made
<1>2. e.ts <= outbox[c]
  <2>1. e \notin After(c)
    BY DEF Quiet
  <2>2. e.ts \in Int /\ outbox[c] \in Int
    BY SyncBoundsAssumption DEF Working, TypeOK, Event
  <2> QED
    BY <2>1, <2>2 DEF After
<1>3. Syncable(c, v)
  BY DEF Settling, Versions, Syncable, Current, There
<1>4. PICK i \in 1..Len(log) : log[i].uid = v
  BY <1>1, <1>2, <1>3 DEF Published
<1>5. Passed(rows, d, log[i])
  BY DEF Quiet, Settling, Passing, PassedTo
<1>6. log[i] \in Envelope /\ Genuine(rows, events, log[i])
  BY DEF Working, TypeOK, Settling, Envelopes
<1>7. log[i].origin = c
  <2>1. log[i].origin \in Devices /\ Made(log[i].origin, v)
    BY <1>4, <1>6 DEF Envelope, Genuine, Made
  <2> QED
    BY <2>1 DEF Settling, Editing
<1>8. log[i].ts = rows[c][v].rec /\ log[i].parent = rows[c][v].parent
  BY <1>4, <1>6, <1>7 DEF Genuine
<1> QED
  BY <1>4, <1>5, <1>7, <1>8 DEF Passed, There

\* Then nothing on the other device has taken the place of what is current on
\* this one.
LEMMA NoneOutdates ==
  ASSUME EditOnce, Working, Settling, Published, Quiet,
         NEW d \in Devices, NEW e \in Devices, d # e, NEW u \in Uids, Current(d, u),
         NEW w \in Uids, There(e, w), w # u,
         \/ rows[e][w].parent = u
         \/ /\ rows[e][w].parent = rows[d][u].parent /\ rows[d][u].parent # NoUid
            /\ Later(rows[e][w].rec, w, rows[d][u].rec, u)
  PROVE  FALSE
<1>1. Editing /\ Versions /\ Newest /\ NoUid \notin Uids
  BY UidsAssumption DEF Settling, NoUid
<1>2. There(d, u) /\ \A z \in Uids : ~Outdates(d, z, u)
  BY <1>1 DEF Newest, Outdated, Current, There
<1>3. \A c \in Devices, z \in Uids : z \in Int /\ rows[c][z].rec \in Int
  BY UidsAssumption, SyncBoundsAssumption DEF Working, TypeOK, Row
<1>4. w \notin Roots
  BY <1>1 DEF Versions
<1>5. \A z \in Uids : There(d, z) /\ There(e, z) =>
         rows[d][z].parent = rows[e][z].parent /\ rows[d][z].rec = rows[e][z].rec
  BY <1>1 DEF Versions
<1>6. ~There(d, w)
  BY <1>2, <1>5 DEF Outdates
<1>7. Made(e, w)
  BY <1>1, <1>4, <1>6, OnlyTwo, MadeThere DEF Versions
<1>8. ASSUME NEW z \in Uids, There(d, z), z # w, rows[d][z].parent = rows[e][w].parent,
             Later(rows[d][z].rec, z, rows[e][w].rec, w)
      PROVE  FALSE
  <2>1. CASE rows[e][w].parent = u
    <3>1. z # u
      BY <1>1, <1>2, <1>8, <2>1 DEF Versions
    <3> QED
      BY <1>2, <1>8, <2>1, <3>1 DEF Outdates
  <2>2. CASE /\ rows[e][w].parent = rows[d][u].parent /\ rows[d][u].parent # NoUid
             /\ Later(rows[e][w].rec, w, rows[d][u].rec, u)
    <3>1. z # u
      BY <1>3, <1>8, <2>2, LaterOrder
    <3>2. Later(rows[d][z].rec, z, rows[d][u].rec, u)
      BY <1>3, <1>8, <2>2, LaterOrder
    <3> QED
      BY <1>2, <1>8, <2>2, <3>1, <3>2 DEF Outdates
  <2> QED
    BY <2>1, <2>2
<1>9. CASE Current(e, w)
  BY <1>6, <1>7, <1>8, <1>9, QuietArrives
<1>10. CASE ~Current(e, w)
  <2>1. PICK y \in Uids : Outdates(e, y, w)
    BY <1>1, <1>10 DEF Newest, Outdated, Current, Versions
  <2>2. There(e, y) /\ y # w /\ y \notin Roots
    BY <1>1, <2>1 DEF Outdates, Versions
  <2>3. Made(d, y)
    BY <1>1, <1>7, <2>2, OnlyTwo DEF Versions, Editing
  <2>4. There(d, y)
    BY <1>1, <2>3, MadeThere
  <2>5. rows[d][y].parent # w
    BY <1>1, <1>6, <2>2, <2>4, ParentThere
  <2> QED
    BY <1>5, <1>8, <2>1, <2>2, <2>4, <2>5 DEF Outdates
<1> QED
  BY <1>9, <1>10

LEMMA SettlingConverges ==
  ASSUME EditOnce, Working, Settling, Published
  PROVE  Converged
<1> SUFFICES ASSUME Quiet, NEW d \in Devices, NEW e \in Devices, NEW u \in Uids, Syncable(d, u)
             PROVE  Current(e, u)
  BY DEF Converged
<1>1. Editing /\ Versions /\ Newest /\ Current(d, u) /\ There(d, u) /\ NoUid \notin Uids
  BY UidsAssumption DEF Settling, Syncable, Current, There, NoUid
<1>2. CASE d = e
  BY <1>1, <1>2
<1>3. CASE d # e
  <2>1. There(e, u)
    <3>1. CASE u \in Roots \/ Made(e, u)
      BY <1>1, <3>1, MadeThere DEF Versions
    <3>2. CASE u \notin Roots /\ ~Made(e, u)
      <4>1. Made(d, u) /\ rows[d][u].parent # NoUid
        BY <1>1, <1>3, <3>2, OnlyTwo DEF Versions
      <4> QED
        BY <1>1, <1>3, <4>1, QuietArrives, NoneOutdates
    <3> QED
      BY <3>1, <3>2
  <2>2. ASSUME NEW w \in Uids, Outdates(e, w, u) PROVE FALSE
    <3>1. rows[d][u].parent = rows[e][u].parent /\ rows[d][u].rec = rows[e][u].rec
      BY <1>1, <2>1 DEF Versions
    <3> QED
      BY <1>1, <1>3, <2>2, <3>1, NoneOutdates DEF Outdates
  <2> QED
    BY <1>1, <2>1, <2>2 DEF Newest, Outdated, Versions, Current
<1> QED
  BY <1>2, <1>3

\* Two devices that each edit at most once converge: when nothing is left to
\* push or to pull, what is current on one is current on the other, whichever
\* memories they edited, whatever their clocks say, whatever pushes and pulls
\* overlap, die or lose their answer (sync/engine.py, "both devices converge on
\* the same winner").  It needs writes that do not fail, and no edit inside an
\* apply_remote.
THEOREM SyncConverges == EditOnce => (Spec => []Converged)
<1> SUFFICES ASSUME EditOnce PROVE Spec => []Converged
  OBVIOUS
<1>1. Working /\ Settling /\ [Next]_syncVars => Settling'
  BY SettlingStep
<1>2. Working /\ Settling /\ Published => Converged
  BY SettlingConverges
<1> QED
  BY <1>1, <1>2, SettlingInit, SpecWorks, SyncPublishes, PTL DEF Spec
=============================================================================
