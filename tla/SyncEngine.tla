----------------------------- MODULE SyncEngine -----------------------------
(***************************************************************************)
(* Devices that share an account synchronise their memories through a      *)
(* relay (sync/engine.py, store/events.py).                                *)
(*                                                                         *)
(* A device is one brain.db.  Its own programs write memories and, in the  *)
(* same transaction, an event; `sync push' and `sync pull' are commands    *)
(* that anyone may run at any time, two at once included.  A command is    *)
(* modelled statement by statement: what it reads before an HTTP call or a *)
(* write may be stale afterwards, and it may be killed between any two.    *)
(*                                                                         *)
(* A memory version is its uid, its supersedes_id, its recorded_at, and    *)
(* whether it is public and current; content, encryption and encoding are  *)
(* left out.  Clocks are arbitrary per device, in steps of 1 ms, and a     *)
(* device does not write two rows in one millisecond.                      *)
(***************************************************************************)
EXTENDS RelayStore, FiniteSets

CONSTANTS
    Devices,
    Pushers, Pullers, Home, \* commands, and the device each runs on
    Uids,           \* an ULID is a number: only its order matters
    Roots,          \* memories every device holds from the start
    LocalOps,       \* what the device's own programs do
    DuringPull,     \* whether they do it inside an apply_remote
    Skewed,         \* whether the devices' clocks differ
    Faults,         \* "crash", "lost", "locked"
    MaxTs, MaxOps, MaxFaults    \* bounds: clock, local writes per device

Runs == Pushers \cup Pullers

ASSUME RunsAssumption == Pushers \cap Pullers = {} /\ Home \in [Runs -> Devices]
ASSUME UidsAssumption == Uids \subseteq Nat \ {0} /\ Roots \subseteq Uids
ASSUME SyncBoundsAssumption ==
    MaxTs \in Nat /\ MaxOps \in Nat /\ MaxFaults \in Nat

VARIABLES
    rows,       \* device -> uid -> the row of memories
    events,     \* device -> memory_events
    outbox,     \* device -> sync_outbox_cursor: ts of the last event drained
    seen,       \* device -> sync_pull_cursor
    stale,      \* device -> rows changed since mem_generation was last bumped
    clock,      \* device -> its last timestamp
    minted,     \* uids given out
    run,        \* sync command -> what it holds in memory
    ops, faults \* history: local writes and faults so far

store == <<rows, events, stale, clock, minted, ops>>
cursors == <<outbox, seen>>
syncVars == <<log, store, cursors, run, faults>>

-----------------------------------------------------------------------------
NoUid == 0
Absent == [status |-> "absent", open |-> FALSE, public |-> FALSE,
           parent |-> NoUid, rec |-> 0]
Row == [status : {"absent", "active", "quarantined", "tombstone"},
        open : BOOLEAN,             \* valid_to IS NULL and ttl_at not past
        public : BOOLEAN,           \* _scope_public
        parent : Uids \cup {NoUid}, \* the uid behind supersedes_id
        rec : 0..MaxTs]             \* recorded_at
Event == [op : {"create", "tombstone"}, uid : Uids, ts : 1..MaxTs]
Envelope == [op : {"create", "tombstone"}, uid : Uids, ts : 0..MaxTs,
             parent : Uids \cup {NoUid}, origin : Devices]

\* What a pull decides to write for one envelope.
Plans == {"insert", "supersede", "displace", "retire"}

Idle == [at |-> "idle", page |-> {}, blobs |-> << >>, next |-> 0,
         plan |-> "insert", target |-> NoUid, applied |-> FALSE]

Init ==
    /\ RelayInit
    /\ rows = [d \in Devices |-> [u \in Uids |->
                 IF u \in Roots
                 THEN [Absent EXCEPT !.status = "active", !.open = TRUE,
                                     !.public = TRUE]
                 ELSE Absent]]
    /\ events = [d \in Devices |-> {}]
    /\ outbox = [d \in Devices |-> 0]
    /\ seen = [d \in Devices |-> 0]
    /\ stale = [d \in Devices |-> FALSE]
    /\ clock = [d \in Devices |-> 0]
    /\ minted = Roots
    /\ run = [r \in Runs |-> Idle]
    /\ ops = [d \in Devices |-> 0]
    /\ faults = 0

\* current_memory_predicate
Current(d, u) == rows[d][u].status = "active" /\ rows[d][u].open

\* is_syncable
Syncable(d, u) == Current(d, u) /\ rows[d][u].public

-----------------------------------------------------------------------------
\* The device's own programs.

MayWrite(d) ==
    /\ ops[d] < MaxOps
    /\ DuringPull \/ \A r \in Runs :
                        Home[r] = d => run[r].at # "apply"

\* iso_now() on d.
Now(d, ts) ==
    /\ ts > clock[d]
    /\ Skewed \/ \A e \in Devices : ts > clock[e]

\* One transaction at time ts: new rows, an event or none, a bump of the
\* generation.
Commits(d, ts, table, evs) ==
    /\ MayWrite(d) /\ Now(d, ts)
    /\ rows' = [rows EXCEPT ![d] = table]
    /\ events' = [events EXCEPT ![d] = @ \cup evs]
    /\ clock' = [clock EXCEPT ![d] = ts]
    /\ stale' = [stale EXCEPT ![d] = FALSE]
    /\ ops' = [ops EXCEPT ![d] = @ + 1]

Version(parent, ts, public) ==
    [status |-> "active", open |-> TRUE, public |-> public,
     parent |-> parent, rec |-> ts]

Logged(op, u, ts) == {[op |-> op, uid |-> u, ts |-> ts]}

\* brain_remember, an extracted item: a row and its create event.
Create(d, u, ts, public) ==
    /\ "create" \in LocalOps /\ u \notin minted
    /\ minted' = minted \cup {u}
    /\ Commits(d, ts, [rows[d] EXCEPT ![u] = Version(NoUid, ts, public)],
               Logged("create", u, ts))

\* A knowledge update found by extraction: v is created, with its event, and
\* linked as u's successor in the same transaction.
Succeeds(d, u, v, ts) ==
    /\ Current(d, u) /\ v \notin minted
    /\ minted' = minted \cup {v}
    /\ LET next == [rows[d] EXCEPT ![u].open = FALSE,
                                   ![v] = Version(u, ts, rows[d][u].public)] IN
       \/ "edit" \in LocalOps /\ Commits(d, ts, next, Logged("create", v, ts))
       \* create_successor, behind brain_manage and the memory mirror: no event
       \/ "amend" \in LocalOps /\ Commits(d, ts, next, {})

\* expire_due, a ttl that passes, a verdict of contradict: no event.
Retire(d, u, ts) ==
    /\ "retire" \in LocalOps /\ Current(d, u)
    /\ Commits(d, ts, [rows[d] EXCEPT ![u].open = FALSE], {})
    /\ UNCHANGED minted

\* `brain forget', the forget strategy.
Forget(d, u, ts) ==
    /\ "forget" \in LocalOps /\ Current(d, u)
    /\ Commits(d, ts, [rows[d] EXCEPT ![u].status = "tombstone",
                                      ![u].open = FALSE],
               Logged("tombstone", u, ts))
    /\ UNCHANGED minted

\* `brain forget --hard': the row is deleted, references to it are cleared.
Purge(d, u, ts) ==
    /\ "purge" \in LocalOps /\ rows[d][u].status # "absent"
    /\ Commits(d, ts,
               [v \in Uids |->
                  IF v = u THEN Absent
                  ELSE IF rows[d][v].parent = u
                       THEN [rows[d][v] EXCEPT !.parent = NoUid]
                       ELSE rows[d][v]], {})
    /\ UNCHANGED minted

Local(d) ==
    /\ \E u \in Uids, ts \in 1..MaxTs :
        \/ \E public \in BOOLEAN : Create(d, u, ts, public)
        \/ \E v \in Uids : Succeeds(d, u, v, ts)
        \/ Retire(d, u, ts) \/ Forget(d, u, ts) \/ Purge(d, u, ts)
    /\ UNCHANGED <<log, cursors, run, faults>>

-----------------------------------------------------------------------------
\* sync push.

\* events_since(): at most a page of events after the cursor, oldest first.
After(d) == {e \in events[d] : e.ts > outbox[d]}
Page(d) ==
    {e \in After(d) : Cardinality({f \in After(d) : f.ts <= e.ts}) <= PageSize}
Oldest(evs) == CHOOSE e \in evs : \A f \in evs : e.ts <= f.ts
Latest(evs) == CHOOSE e \in evs : \A f \in evs : e.ts >= f.ts

\* Mutant of NextCursor: the end of the log instead of the page's.
LastEvent(d) == Latest(events[d]).ts

NextCursor(d) == Latest(Page(d)).ts

Becomes(r, state) == run' = [run EXCEPT ![r] = state]

PushBegin(r) ==
    /\ r \in Pushers /\ run[r].at = "idle" /\ After(Home[r]) # {}
    /\ Becomes(r, [Idle EXCEPT !.at = "fetch", !.page = Page(Home[r]),
                               !.next = NextCursor(Home[r])])
    /\ UNCHANGED <<log, store, cursors, faults>>

\* A tombstone ships if the row is there and public, a create if the row is
\* syncable now; its supersedes_uid is read now, too.
Ships(d, e) ==
    IF e.op = "tombstone"
    THEN rows[d][e.uid].status # "absent" /\ rows[d][e.uid].public
    ELSE Syncable(d, e.uid)

Sealed(d, e) ==
    IF e.op = "tombstone"
    THEN [op |-> e.op, uid |-> e.uid, ts |-> e.ts, parent |-> NoUid,
          origin |-> d]
    ELSE [op |-> e.op, uid |-> e.uid, ts |-> rows[d][e.uid].rec,
          parent |-> rows[d][e.uid].parent, origin |-> d]

\* The row of one event is fetched and sealed into a blob, or skipped.
PushFetch(r) ==
    /\ run[r].at = "fetch"
    /\ LET d == Home[r]
           e == Oldest(run[r].page)
           blobs == IF Ships(d, e) THEN Append(run[r].blobs, Sealed(d, e))
                    ELSE run[r].blobs
           rest == run[r].page \ {e} IN
       Becomes(r, [run[r] EXCEPT
                     !.page = rest, !.blobs = blobs,
                     !.at = IF rest # {} THEN "fetch"
                            ELSE IF blobs = << >> THEN "drain" ELSE "send"])
    /\ UNCHANGED <<log, store, cursors, faults>>

\* client.push; the answer may get lost, which ends the command.
PushSend(r) ==
    /\ run[r].at = "send"
    /\ AppendBlobs(run[r].blobs)
    /\ \/ Becomes(r, [run[r] EXCEPT !.at = "drain"]) /\ UNCHANGED faults
       \/ /\ "lost" \in Faults /\ faults < MaxFaults
          /\ faults' = faults + 1
          /\ Becomes(r, Idle)
    /\ UNCHANGED <<store, cursors>>

PushDrain(r) ==
    /\ run[r].at = "drain"
    /\ outbox' = [outbox EXCEPT ![Home[r]] = run[r].next]
    /\ Becomes(r, Idle)
    /\ UNCHANGED <<log, store, seen, faults>>

-----------------------------------------------------------------------------
\* sync pull.

PullBegin(r) ==
    /\ r \in Pullers /\ run[r].at = "idle"
    /\ LET c == seen[Home[r]] IN
       /\ SinceEnd(c) # c
       /\ Becomes(r, [Idle EXCEPT
                        !.at = IF Since(c) = << >> THEN "finish" ELSE "decide",
                        !.blobs = Since(c), !.next = SinceEnd(c)])
    /\ UNCHANGED <<log, store, cursors, faults>>

\* The run without its first blob.
Rest(r) == [run[r] EXCEPT
              !.blobs = Tail(@),
              !.at = IF Len(run[r].blobs) = 1 THEN "finish" ELSE "decide"]

\* Mutant of RemoteWins: an exact tie goes to the version already here.
RemoteWinsLater(d, env, local) == env.ts > rows[d][local].rec

\* _resolve_lww: the later recorded_at wins, the greater uid in a tie.
RemoteWins(d, env, local) ==
    \/ env.ts > rows[d][local].rec
    \/ env.ts = rows[d][local].rec /\ env.uid > local

\* Current versions with the envelope's parent.
Competitors(d, env) == {u \in Uids : /\ rows[d][u].parent = env.parent
                                     /\ Current(d, u)}

\* _by_uid
Known(d, u) == u # NoUid /\ rows[d][u].status # "absent"

Retires(d, env) ==
    /\ env.op = "tombstone"
    /\ rows[d][env.uid].status = "active" /\ env.ts > rows[d][env.uid].rec
New(d, env) == env.op = "create" /\ ~Known(d, env.uid)
Follows(d, env) == Known(d, env.parent) /\ Current(d, env.parent)
Rivals(d, env) == /\ Known(d, env.parent) /\ ~Current(d, env.parent)
                  /\ Competitors(d, env) # {}

\* The decisions of apply_remote that write something, with the row each acts
\* on; every other envelope is ignored, or loses.
Decision(d, env, plan, target) ==
    \/ plan = "retire" /\ Retires(d, env) /\ target = env.uid
    \/ plan = "supersede" /\ New(d, env) /\ Follows(d, env)
       /\ target = env.parent
    \/ plan = "displace" /\ New(d, env) /\ Rivals(d, env)
       /\ target \in Competitors(d, env) /\ RemoteWins(d, env, target)
    \/ plan = "insert" /\ New(d, env) /\ ~Follows(d, env) /\ ~Rivals(d, env)
       /\ target = NoUid

\* Of several competitors, fetchone() takes any.
Ignores(d, env) ==
    \/ ~Retires(d, env) /\ ~New(d, env)
    \/ New(d, env) /\ ~Follows(d, env) /\ Rivals(d, env)
       /\ \E u \in Competitors(d, env) : ~RemoteWins(d, env, u)

\* The SELECTs of apply_remote: one envelope is skipped, or its write decided.
PullDecide(r) ==
    /\ run[r].at = "decide"
    /\ LET d == Home[r]
           env == Head(run[r].blobs) IN
       \/ (env.origin = d \/ Ignores(d, env)) /\ Becomes(r, Rest(r))
       \/ /\ env.origin # d
          /\ \E plan \in Plans, target \in Uids \cup {NoUid} :
               /\ Decision(d, env, plan, target)
               /\ Becomes(r, [run[r] EXCEPT !.at = "apply", !.plan = plan,
                                            !.target = target])
    /\ UNCHANGED <<log, store, cursors, faults>>

\* supersedes_id of the row inserted: a rival has the parent it has.
Anchor(env, plan) == IF plan = "insert" THEN NoUid ELSE env.parent

\* The new row is inserted, global and active; the one it replaces is closed.
Replaced(d, env, plan, target) ==
    [u \in Uids |->
       IF u = env.uid THEN Version(Anchor(env, plan), env.ts, TRUE)
       ELSE IF u = target THEN [rows[d][u] EXCEPT !.open = FALSE]
       ELSE rows[d][u]]

\* Mutant of Retired: the row is deleted.
RetiredForGood(d, u) == [rows[d] EXCEPT ![u] = Absent]

Retired(d, u) ==
    IF rows[d][u].status = "absent" THEN rows[d]
    ELSE [rows[d] EXCEPT ![u].status = "tombstone", ![u].open = FALSE]

\* An INSERT fails on a uid that arrived meanwhile, or on a parent that was
\* purged meanwhile.
Fits(d, env, plan) ==
    \/ plan = "retire"
    \/ /\ ~Known(d, env.uid)
       /\ plan # "insert" => Known(d, env.parent)

\* The writes of apply_remote and their commit.
PullApply(r) ==
    /\ run[r].at = "apply"
    /\ LET d == Home[r]
           env == Head(run[r].blobs)
           plan == run[r].plan IN
       /\ Fits(d, env, plan)
       /\ rows' = [rows EXCEPT ![d] =
                     IF plan = "retire" THEN Retired(d, env.uid)
                     ELSE Replaced(d, env, plan, run[r].target)]
       /\ stale' = [stale EXCEPT ![d] = TRUE]
       /\ Becomes(r, [Rest(r) EXCEPT !.applied = TRUE])
    /\ UNCHANGED <<log, events, clock, minted, ops, cursors, faults>>

\* apply_remote raises; the envelope is rolled back and passed over.
PullSkip(r) ==
    /\ run[r].at = "apply"
    /\ \/ /\ ~Fits(Home[r], Head(run[r].blobs), run[r].plan)
          /\ UNCHANGED faults
       \/ /\ "locked" \in Faults /\ faults < MaxFaults
          /\ faults' = faults + 1
    /\ Becomes(r, Rest(r))
    /\ UNCHANGED <<log, store, cursors>>

\* Mutant of PullFinish: the caches are not told.
PullFinishQuiet(r) ==
    /\ run[r].at = "finish"
    /\ seen' = [seen EXCEPT ![Home[r]] = run[r].next]
    /\ Becomes(r, Idle)
    /\ UNCHANGED <<log, store, outbox, faults>>

\* One bump for all that was applied, and the cursor.
PullFinish(r) ==
    /\ run[r].at = "finish"
    /\ seen' = [seen EXCEPT ![Home[r]] = run[r].next]
    /\ stale' = IF run[r].applied THEN [stale EXCEPT ![Home[r]] = FALSE]
                ELSE stale
    /\ Becomes(r, Idle)
    /\ UNCHANGED <<log, rows, events, clock, minted, ops, outbox, faults>>

-----------------------------------------------------------------------------
Crash(r) ==
    /\ "crash" \in Faults /\ faults < MaxFaults
    /\ run[r].at # "idle"
    /\ faults' = faults + 1
    /\ Becomes(r, Idle)
    /\ UNCHANGED <<log, store, cursors>>

Sync(r) ==
    \/ PushBegin(r) \/ PushFetch(r) \/ PushSend(r) \/ PushDrain(r)
    \/ PullBegin(r) \/ PullDecide(r) \/ PullApply(r) \/ PullSkip(r)
    \/ PullFinish(r)

Next ==
    \/ \E d \in Devices : Local(d)
    \/ \E r \in Runs : Sync(r) \/ Crash(r)

Spec == Init /\ [][Next]_syncVars

\* The user, or cron, runs push and pull again and again.
FairSpec ==
    /\ Spec
    /\ \A r \in Runs : WF_syncVars(Sync(r))

-----------------------------------------------------------------------------
RunState ==
    [at : {"idle", "fetch", "send", "drain", "decide", "apply", "finish"},
     page : SUBSET Event, blobs : Seq(Envelope), next : Nat,
     plan : Plans, target : Uids \cup {NoUid}, applied : BOOLEAN]

\* Types; supersedes_id references a row.
TypeOK ==
    /\ log \in Seq(Envelope)
    /\ rows \in [Devices -> [Uids -> Row]]
    /\ \A d \in Devices, u \in Uids :
         LET parent == rows[d][u].parent IN
         parent # NoUid => rows[d][parent].status # "absent"
    /\ events \in [Devices -> SUBSET Event]
    /\ outbox \in [Devices -> 0..MaxTs] /\ clock \in [Devices -> 0..MaxTs]
    /\ seen \in [Devices -> Nat] /\ stale \in [Devices -> BOOLEAN]
    /\ minted \in SUBSET Uids
    /\ run \in [Runs -> RunState]
    /\ ops \in [Devices -> 0..MaxOps] /\ faults \in 0..MaxFaults

\* The outbox loses nothing, whatever commands overlap, die or lose their
\* answer: a memory whose event lies behind the outbox cursor, and that may be
\* synchronised, is on the relay.
Published ==
    \A d \in Devices : \A e \in events[d] :
        e.ts <= outbox[d] /\ e.op = "create" /\ Syncable(d, e.uid)
        => \E i \in 1..Len(log) : log[i].uid = e.uid /\ log[i].op = "create"

\* A pull loses nothing: what another device pushed, and lies behind the pull
\* cursor, is known here, and what it forgot is not current here (engine.py:
\* "the pull cursor replays only the un-applied tail").
Reflected ==
    \A d \in Devices : \A i \in 1..Len(log) :
        i <= seen[d] /\ log[i].origin # d =>
            IF log[i].op = "create" THEN Known(d, log[i].uid)
            ELSE ~Current(d, log[i].uid)

\* When nothing is left to push or to pull.
Quiet ==
    /\ \A r \in Runs : run[r].at = "idle"
    /\ \A d \in Devices : After(d) = {} /\ seen[d] = Len(log)

\* Then all devices agree on what is current and public, although each edited
\* the same memory on its own (engine.py: "so both devices converge on the same
\* winner").
Converged ==
    Quiet => \A d, e \in Devices, u \in Uids :
               Syncable(d, u) => Current(e, u)

\* Rows a pull changed are followed by a bump of mem_generation: as long as
\* the caches of the device do not know of them, a pull is under way that will
\* tell them (engine.py: "must invalidate generation-keyed caches").
CacheTold ==
    \A d \in Devices : stale[d] =>
        \E r \in Pullers : Home[r] = d /\ run[r].applied

\* Without edits, the devices together are a two-phase set: nothing appears
\* that nobody wrote, and what a device has forgotten never comes back to it.
Phases == INSTANCE TwoPhaseSet WITH
    member <- [d \in Devices |-> [u \in Uids |->
                 CASE rows[d][u].status = "absent" -> "unknown"
                   [] rows[d][u].status = "tombstone" -> "gone"
                   [] OTHER -> "held"]]
TwoPhase == Phases!Spec

\* A deletion reaches every device (engine.py: "Deletions must propagate so
\* other devices retire the row").
Propagated ==
    Quiet => \A d, e \in Devices, u \in Uids :
               rows[d][u].status = "tombstone" => ~Current(e, u)

\* From a device that pushes, a memory that stays public and current reaches
\* every device that pulls.
Delivered ==
    \A r \in Pushers, q \in Pullers, u \in Uids :
        Syncable(Home[r], u) ~> Known(Home[q], u) \/ ~Syncable(Home[r], u)
=============================================================================
