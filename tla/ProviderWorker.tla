--------------------------- MODULE ProviderWorker ---------------------------
(***************************************************************************)
(* The memory provider of the host (provider.py): hooks that only queue    *)
(* jobs, one worker thread that takes them, the state kept per session     *)
(* (identity, lane 2, turn counts, aliases) and the lane 1 snapshot.       *)
(*                                                                         *)
(* The host talks in turns.  A turn begins with prefetch, which serves the *)
(* block cached in lane 2, and ends with sync_turn and queue_prefetch; the *)
(* block computed for turn n is meant for the turn after it and is named   *)
(* by n.  Turns of the provider's own session come over the channel Main,  *)
(* those of other gateway sessions (Guests) over one channel each.         *)
(*                                                                         *)
(* In the database: captured turns, and of every block its retrieval_log   *)
(* batch: pending until a turn of the session stamps it with its message,  *)
(* which credits the block's memories with that turn's outcome.            *)
(***************************************************************************)
EXTENDS Integers, Sequences, FiniteSets

CONSTANTS
    Mains,              \* sessions the host switches among
    Guests,             \* sessions it only mentions: never initialised
    Main,               \* the channel of the current session
    People, Modes,      \* who may use the provider; configurations
    None, Sentinel,
    MaxTurns, MaxSwitches, MaxFaults, MaxLives  \* bounds

ASSUME SessionsAssumption ==
    /\ Mains \cap Guests = {}
    /\ Main \notin Guests /\ None \notin Mains \cup Guests \cup {"owner", "known_user"}
ASSUME ContextsAssumption ==
    /\ People \subseteq {"cli", "enrolled", "stranger"}
    /\ "hybrid" \in Modes /\ Modes \subseteq {"hybrid", "tools", "incognito"}
ASSUME ProviderBoundsAssumption == {MaxTurns, MaxSwitches, MaxFaults, MaxLives} \subseteq Nat

Sessions == Mains \cup Guests
Channels == {Main} \cup Guests
Turns == 1..MaxTurns
Trusts == {"owner", "known_user"}

VARIABLES
    person,     \* who uses the provider: "cli", "enrolled" owner, "stranger"
    host,       \* "off", "up", "joining" (in shutdown)
    mode,       \* the configuration in force
    session,    \* _session_id
    identity,   \* _session_identity: session -> trust or None
    counted,    \* sessions in _turn_counts
    alias,      \* _session_alias: session -> session or None
    lane1, staged,  \* a "snapshot" of the owner's profile, or "static"
    lane2,      \* _lane2_cache: session -> block (0: an empty one, or none)
    open,       \* channel -> the turn going on, or None
    queue, worker,  \* jobs, and what the thread does
    captured,   \* episodes: turn and trust, in order of insertion
    pending,    \* session -> block whose batch is injected and unstamped, or 0
    credits,    \* turn -> blocks credited with it
    said,       \* history: the turns so far, with what the host knew
    lost,       \* history: turns whose capture failed or was discarded
    logged,     \* history: blocks with a retrieval_log batch
    strays,     \* history: blocks no turn will be served: their session was
                \*    left, or lane 2 lost them to its retrieval or a new process
    left,       \* history: sessions switched away from
    away,       \* history: sessions reset away
    twice,      \* history: sessions renamed, returned to and renamed again
    dropped,    \* history: retrievals dropped: turn, session, whether that
                \*    session was renamed in turn
    switches, faults, lives     \* history: counters of the bounds

hostVars == <<person, host, mode, session>>
perSession == <<identity, counted, alias>>
lanes == <<lane1, staged, lane2>>
db == <<captured, pending, credits>>
history == <<said, lost, logged, strays, left, away, twice, dropped>>
counters == <<switches, faults, lives>>
providerVars == <<hostVars, perSession, lanes, open, queue, worker, db, history, counters>>

-----------------------------------------------------------------------------
NoThread == [at |-> "none", sid |-> None, turn |-> 0]
Doing(what) == [at |-> what, sid |-> None, turn |-> 0]

ProviderInit ==
    /\ person \in People
    /\ host = "off"
    /\ mode = "hybrid"
    /\ session = None
    /\ identity = [s \in Sessions |-> None]
    /\ counted = {}
    /\ alias = [s \in Sessions |-> None]
    /\ lane1 = "static" /\ staged = "static"
    /\ lane2 = [s \in Sessions |-> 0]
    /\ open = [c \in Channels |-> None]
    /\ queue = << >>
    /\ worker = NoThread
    /\ captured = << >>
    /\ pending = [s \in Sessions |-> 0]
    /\ credits = [t \in Turns |-> {}]
    /\ said = << >>
    /\ lost = {} /\ logged = {} /\ strays = {} /\ left = {} /\ away = {} /\ twice = {} /\ dropped = {}
    /\ switches = 0 /\ faults = 0 /\ lives = 0

\* _identity_for: never another session's identity
IdentityFor(s) == IF identity[s] = None THEN "known_user" ELSE identity[s]

\* _capture_allowed
CaptureAllowed == mode # "incognito"

Unstamped == {pending[s] : s \in Sessions} \ {0}

Fault ==
    /\ faults < MaxFaults
    /\ faults' = faults + 1
    /\ UNCHANGED <<switches, lives>>

-----------------------------------------------------------------------------
\* initialize, in the process that went through the last shutdown or in a
\* new one.  A database it cannot open leaves the platform's trust and a
\* static lane 1; a thread is started only if none is alive.
Initialize(fresh) ==
    /\ host = "off"
    /\ lives < MaxLives /\ lives' = lives + 1
    /\ host' = "up"
    /\ mode' \in Modes
    /\ \E s \in Mains, opened \in BOOLEAN :
         /\ opened \/ faults < MaxFaults
         /\ faults' = IF opened THEN faults ELSE faults + 1
         /\ session' = s
         /\ LET trust == IF person = "cli" \/ (person = "enrolled" /\ opened)
                         THEN "owner" ELSE "known_user"
            IN /\ identity' = [IF fresh THEN [t \in Sessions |-> None] ELSE identity
                               EXCEPT ![s] = trust]
               /\ lane1' = IF trust = "owner" /\ mode' # "tools" /\ opened
                           THEN "snapshot" ELSE "static"
    /\ IF fresh
       THEN /\ counted' = {} /\ alias' = [s \in Sessions |-> None]
            /\ staged' = "static" /\ lane2' = [s \in Sessions |-> 0]
            /\ queue' = << >> /\ worker' = Doing("connect")
            /\ strays' = strays \cup Unstamped
            /\ lost' = lost \cup {queue[i].turn : i \in {j \in DOMAIN queue : queue[j].kind = "turn"}}
       ELSE /\ worker' = IF worker.at = "none" THEN Doing("connect") ELSE worker
            /\ UNCHANGED <<counted, alias, staged, lane2, queue, strays, lost>>
    /\ UNCHANGED <<person, open, db, said, logged, left, away, twice, dropped, switches>>

EndJob == [kind |-> "sentinel", sid |-> Sentinel, turn |-> 0]
\* Mutant of LastJob: the thread is to end at once.
FirstJob(job) == <<job>> \o queue
LastJob(job) == Append(queue, job)

\* shutdown: sentinel, then join for at most five seconds
Shutdown ==
    /\ host = "up" /\ \A c \in Channels : open[c] = None
    /\ IF worker.at = "none"
       THEN host' = "off" /\ UNCHANGED queue
       ELSE /\ host' = "joining"
            /\ queue' = LastJob(EndJob)
    /\ UNCHANGED <<person, mode, session, perSession, lanes, open, worker, db, history, counters>>

Joined ==
    /\ host = "joining" /\ worker.at = "none"
    /\ host' = "off"
    /\ UNCHANGED <<person, mode, session, perSession, lanes, open, queue, worker, db, history, counters>>

JoinTimeout ==
    /\ host = "joining" /\ worker.at \in {"connect", "search", "tick"}
    /\ Fault
    /\ host' = "off"
    /\ UNCHANGED <<person, mode, session, perSession, lanes, open, queue, worker, db, history>>

-----------------------------------------------------------------------------
SidOf(c) == IF c = Main THEN session ELSE c

Outstanding == {i \in DOMAIN queue : queue[i].kind = "retrieve"} # {} \/ worker.at = "search"

\* prefetch serves what is cached; late: a retrieval was still under way, or
\* (at the end) the session was renamed during the turn
TurnBegin(c) ==
    /\ host = "up" /\ open[c] = None /\ Len(said) < MaxTurns
    /\ open' = [open EXCEPT ![c] = [served |-> lane2[SidOf(c)], sid |-> SidOf(c), late |-> Outstanding]]
    /\ UNCHANGED <<hostVars, perSession, lanes, queue, worker, db, history, counters>>

\* sync_turn, then queue_prefetch
TurnEnd(c) ==
    /\ host = "up" /\ open[c] # None /\ Len(said) < MaxTurns
    /\ open' = [open EXCEPT ![c] = None]
    /\ LET s == SidOf(c)
           t == Len(said) + 1
       IN /\ said' = Append(said, [sid |-> s, trust |-> IdentityFor(s), kept |-> CaptureAllowed, resumed |-> alias[s] # None,
                                   served |-> open[c].served, late |-> open[c].late \/ open[c].sid # s])
          /\ counted' = IF CaptureAllowed THEN counted \cup {s} ELSE counted
          /\ queue' = queue
               \o (IF CaptureAllowed THEN << [kind |-> "turn", sid |-> s, turn |-> t] >> ELSE << >>)
               \o (IF mode # "tools" THEN << [kind |-> "retrieve", sid |-> s, turn |-> t] >> ELSE << >>)
    /\ UNCHANGED <<hostVars, identity, alias, lanes, worker, db,
                   lost, logged, strays, left, away, twice, dropped, counters>>

\* on_session_end: a marker job; one at a time is enough to stage a lane 1
SessionEnd ==
    /\ host = "up" /\ open[Main] = None /\ CaptureAllowed
    /\ staged = "static" /\ \A i \in DOMAIN queue : queue[i].kind # "marker"
    /\ queue' = Append(queue, [kind |-> "marker", sid |-> session, turn |-> 0])
    /\ UNCHANGED <<hostVars, perSession, lanes, open, worker, db, history, counters>>

Leave(new) ==
    /\ host = "up"
    /\ switches < MaxSwitches /\ switches' = switches + 1
    /\ left' = left \cup {session}
    /\ strays' = strays \cup ({pending[session], pending[new]} \ {0})
    /\ UNCHANGED <<person, host, open, queue, worker, db, said, lost, logged, dropped, faults, lives>>

StagedFor(new) == staged = "snapshot" /\ identity'[new] = "owner"

\* on_session_switch with reset: a new session, the configuration read again
ResetTo(new) ==
    /\ Leave(new) /\ open[Main] = None
    /\ session' = new
    /\ mode' \in Modes
    /\ identity' = [identity EXCEPT ![new] = IdentityFor(session), ![session] = None]
    /\ counted' = counted \ {session}
    /\ lane2' = [lane2 EXCEPT ![session] = 0, ![new] = 0]
    /\ lane1' = IF mode' = "tools" THEN "static" ELSE IF StagedFor(new) THEN "snapshot" ELSE lane1
    /\ staged' = "static"
    /\ away' = away \cup {session}
    /\ UNCHANGED <<alias, twice>>

\* on_session_switch without: a continuation; every state kept moves along
Moved(f, old, new, absent) ==
    IF f[old] = absent THEN f ELSE [f EXCEPT ![new] = f[old], ![old] = absent]

ContinueAs(new) ==
    /\ Leave(new)
    /\ session' = new
    /\ identity' = Moved(identity, session, new, None)
    /\ counted' = IF session \in counted THEN (counted \ {session}) \cup {new} ELSE counted
    /\ lane2' = Moved(lane2, session, new, 0)
    /\ alias' = [alias EXCEPT ![session] = new]
    /\ twice' = IF alias[session] = None THEN twice ELSE twice \cup {session}
    /\ UNCHANGED <<mode, lane1, staged, away>>

-----------------------------------------------------------------------------
\* _worker_connect: retry until the database opens; jobs met meanwhile are
\* discarded, a sentinel among them ends the thread
Connect ==
    /\ worker.at = "connect"
    /\ worker' = Doing("loop")
    /\ UNCHANGED <<hostVars, perSession, lanes, open, queue, db, history, counters>>

Discard ==
    /\ worker.at = "connect" /\ queue # << >>
    /\ Fault
    /\ queue' = Tail(queue)
    /\ worker' = IF Head(queue).kind = "sentinel" THEN NoThread ELSE worker
    /\ lost' = IF Head(queue).kind = "turn" THEN lost \cup {Head(queue).turn} ELSE lost
    /\ UNCHANGED <<hostVars, perSession, lanes, open, db, said, logged, strays, left, away, twice, dropped>>

\* _worker_loop: the next job, of the kind given
Take(kind) ==
    /\ worker.at = "loop" /\ queue # << >> /\ Head(queue).kind = kind
    /\ queue' = Tail(queue)
    /\ UNCHANGED <<hostVars, perSession, open>>

\* Mutant of Stamp: the rows of every session.
StampAll(sid, t) ==
    /\ credits' = [credits EXCEPT ![t] = Unstamped]
    /\ pending' = [s \in Sessions |-> 0]
\* stamp_pending_injections
Stamp(sid, t) ==
    /\ credits' = [credits EXCEPT ![t] = {pending[sid]} \ {0}]
    /\ pending' = [pending EXCEPT ![sid] = 0]

\* Mutant of TrustOf: the identity of the session the provider is in now.
TrustNow(s) == IdentityFor(session)
\* _turn_context: looked up when the job is worked on
TrustOf(s) == IdentityFor(s)

\* a turn job: capture_turn, which may fail, then the stamp
CaptureTurn ==
    /\ Take("turn")
    /\ LET job == Head(queue)
       IN /\ \/ /\ captured' = Append(captured, [turn |-> job.turn, trust |-> TrustOf(job.sid)])
                /\ UNCHANGED <<lost, counters>>
             \/ Fault /\ lost' = lost \cup {job.turn} /\ UNCHANGED captured
          /\ Stamp(job.sid, job.turn)
    /\ UNCHANGED <<lanes, worker, said, logged, strays, left, away, twice, dropped>>

\* a marker job: lane 1 materialised and staged
EndSession ==
    /\ Take("marker")
    /\ staged' = "snapshot"
    /\ UNCHANGED <<lane1, lane2, worker, db, history, counters>>

\* _do_retrieve: one rename followed, sessions gone skipped
Renamed(s) == IF alias[s] = None THEN s ELSE alias[s]

Wanted(s) == s = session \/ s \in counted

Retrieve ==
    /\ Take("retrieve")
    /\ LET s == Renamed(Head(queue).sid)
           t == Head(queue).turn
       IN IF Wanted(s)
          THEN worker' = [at |-> "search", sid |-> s, turn |-> t] /\ UNCHANGED dropped
          ELSE dropped' = dropped \cup {[turn |-> t, sid |-> s, again |-> alias[s] # None]} /\ UNCHANGED worker
    /\ UNCHANGED <<lanes, db, said, lost, logged, strays, left, away, twice, counters>>

\* ... the block into lane 2, its memories into retrieval_log: a batch still
\* pending for the session was never served, and is demoted
Found ==
    /\ worker.at = "search"
    /\ \E block \in {0, worker.turn} :
         /\ lane2' = [lane2 EXCEPT ![worker.sid] = block]
         /\ IF block # 0 /\ CaptureAllowed
            THEN /\ pending' = [pending EXCEPT ![worker.sid] = block]
                 /\ logged' = logged \cup {block}
            ELSE UNCHANGED <<pending, logged>>
         /\ strays' = IF {worker.sid, said[worker.turn].sid} \cap left = {} THEN strays
                     ELSE strays \cup ({block, pending[worker.sid]} \ {0})
    /\ worker' = Doing("loop")
    /\ UNCHANGED <<hostVars, perSession, lane1, staged, open, queue, captured, credits,
                   said, lost, left, away, twice, dropped, counters>>

SearchFails ==
    /\ worker.at = "search" /\ Fault
    /\ worker' = Doing("loop")
    /\ UNCHANGED <<hostVars, perSession, lanes, open, queue, db, history>>

\* The idle tick: _maybe_sweep, _maybe_drain_work_queue, _maybe_idle_dream
\* yield to a job that waits, but a job may come while one of them is at work
Tick ==
    /\ worker.at = "loop" /\ queue = << >> /\ host = "up"
    /\ worker' = Doing("tick")
    /\ UNCHANGED <<hostVars, perSession, lanes, open, queue, db, history, counters>>

TickDone ==
    /\ worker.at = "tick"
    /\ worker' = Doing("loop")
    /\ UNCHANGED <<hostVars, perSession, lanes, open, queue, db, history, counters>>

End ==
    /\ Take("sentinel")
    /\ worker' = NoThread
    /\ UNCHANGED <<lanes, db, history, counters>>

-----------------------------------------------------------------------------
Thread ==
    \/ Connect \/ Discard
    \/ CaptureTurn \/ EndSession \/ Retrieve \/ Found \/ SearchFails
    \/ Tick \/ TickDone \/ End

ProviderNext ==
    \/ \E fresh \in BOOLEAN : Initialize(fresh)
    \/ Shutdown \/ Joined \/ JoinTimeout
    \/ \E c \in Channels : TurnBegin(c) \/ TurnEnd(c)
    \/ SessionEnd
    \/ \E new \in Mains \ {session} : ResetTo(new) \/ ContinueAs(new)
    \/ Thread

ProviderSpec == ProviderInit /\ [][ProviderNext]_providerVars

-----------------------------------------------------------------------------
ProviderTypeOK ==
    /\ person \in People
    /\ host \in {"off", "up", "joining"} /\ mode \in Modes
    /\ session \in Mains \cup {None}
    /\ identity \in [Sessions -> Trusts \cup {None}]
    /\ counted \subseteq Sessions
    /\ alias \in [Sessions -> Mains \cup {None}]
    /\ {lane1, staged} \subseteq {"static", "snapshot"}
    /\ lane2 \in [Sessions -> 0..MaxTurns] /\ pending \in [Sessions -> 0..MaxTurns]
    /\ open \in [Channels -> {None} \cup [served : 0..MaxTurns, sid : Sessions, late : BOOLEAN]]
    /\ queue \in Seq([kind : {"turn", "retrieve", "marker", "sentinel"},
                      sid : Sessions \cup {Sentinel}, turn : 0..MaxTurns])
    /\ worker \in [at : {"none", "connect", "loop", "search", "tick"},
                   sid : Sessions \cup {None}, turn : 0..MaxTurns]
    /\ captured \in Seq([turn : Turns, trust : Trusts])
    /\ credits \in [Turns -> SUBSET Turns]
    /\ said \in Seq([sid : Sessions, trust : Trusts, kept : BOOLEAN, resumed : BOOLEAN,
                     served : 0..MaxTurns, late : BOOLEAN])
    /\ lost \cup logged \cup strays \subseteq 0..MaxTurns
    /\ dropped \subseteq [turn : Turns, sid : Sessions, again : BOOLEAN]
    /\ left \cup away \cup twice \subseteq Mains
    /\ {switches, faults, lives} \subseteq Nat

Captured == {captured[i].turn : i \in DOMAIN captured}
Waiting == {queue[i].turn : i \in {j \in DOMAIN queue : queue[j].kind = "turn"}}

\* sync_turn only queues, and shutdown gives the thread five seconds: every
\* turn the host was told is kept is still queued, was reported lost, or is an
\* episode - one, in the order the turns were said, across switches, timeouts
\* of the join and new processes; no incognito turn is one, and a shutdown
\* whose join did not time out leaves none in the queue.
EveryTurnKept ==
    /\ \A t \in DOMAIN said : said[t].kept => t \in Captured \cup Waiting \cup lost
    /\ \A t \in Captured : said[t].kept
    /\ host = "off" /\ faults = 0 => Waiting = {}
    /\ \A i, j \in DOMAIN captured : i < j => captured[i].turn < captured[j].turn

\* The trust of an episode is looked up by the thread, after the host moved
\* on: it is the one the host had at the turn unless the session was switched
\* away since, and then it is less, never more.  Who is enrolled is read from
\* the database: two initialize of one process, a join that timed out between
\* them, do not agree if one of them could not open it.
TrustKept ==
    \A i \in DOMAIN captured :
      LET turn == said[captured[i].turn]
      IN \/ captured[i].trust = turn.trust
         \/ turn.sid \in left /\ captured[i].trust = "known_user"
         \/ turn.sid \in Mains /\ person = "enrolled" /\ faults > 1

\* Lane 1 with the owner's profile is staged by the thread at the end of any
\* session and swapped in at a reset: the session that shows it is the owner's.
ProfileForOwner == lane1 = "snapshot" => IdentityFor(session) = "owner"

\* Neither what is stored nor what is shown passes for more trusted than it is.
TrustHeld == TrustKept /\ ProfileForOwner

\* What a memory is worth is learned from the turns credited with it.  A turn
\* is credited with the block it was served and no other, the first time it
\* was served - unless the retrieval was late, an earlier turn of the session
\* is no episode and was not stamped, or the block is a stray: it was pending
\* when its session was left or its process ended, or a session that was left
\* had its retrieval sent on to this one.
TurnCredited ==
    \A t \in Captured :
      LET block == said[t].served
          before == UNION {credits[u] : u \in 1..(t - 1)}
      IN \/ said[t].late \/ said[t].sid \in left
         \/ \E u \in 1..(t - 1) : said[u].sid = said[t].sid /\ u \notin Captured
         \/ credits[t] \ strays = ({block} \cap logged) \ (before \cup strays)

\* A renamed session is followed by its jobs, a session reset away drops them:
\* of a turn kept none is dropped otherwise - but one rename is followed, not
\* two, and a name once renamed leads away for good: in a session resumed under
\* it every job is sent on to the session that had replaced it, or to another
\* when the name is renamed again.
OnlyResetDrops ==
    \A d \in dropped :
      LET turn == said[d.turn]
      IN turn.kept => \/ {d.sid, turn.sid} \cap away # {}
                      \/ d.again \/ turn.resumed \/ turn.sid \in twice

\* No job of either kind is lost but as these say.
JobsKept == EveryTurnKept /\ OnlyResetDrops
=============================================================================
