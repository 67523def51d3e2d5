--------------------------- MODULE OutcomeMining ---------------------------
(***************************************************************************)
(* The dream's `mine' strategy (dream/mine_state.py): every memory that    *)
(* was injected into a prompt is credited with how that turn went.         *)
(*                                                                         *)
(* The retrieval log names a turn by its session and the hash of the       *)
(* user's message; the host's state.db, opened read-only, has messages and *)
(* turn outcomes without a common key.  A row is resolved through time:    *)
(* the first message of that text near the row, then the first outcome     *)
(* of the session within OutcomeWindow after it.  The watermark passes     *)
(* rows that are resolved, and unresolved ones once they are older than    *)
(* Grace.                                                                  *)
(***************************************************************************)
EXTENDS Integers, Sequences, FiniteSets, SequencesExt, FiniteSetsExt

CONSTANTS
    Talks,          \* sessions of the host
    Said,           \* what a user message may say
    Memories,
    Labels, Reactions,  \* of the outcomes and of the feedback that occur
    MsgWindow, OutcomeWindow, Grace,    \* in ticks: 1 h, 6 h, 48 h
    MineRows,       \* _MAX_ROWS
    MaxAsked, MaxNow, MaxStops          \* bounds

ASSUME WindowsAssumption ==
    /\ {MsgWindow, OutcomeWindow, Grace} \subseteq Nat
    /\ OutcomeWindow + MsgWindow < Grace
ASSUME LabelsAssumption ==
    /\ Labels \subseteq {"verified", "failed", "partial"}
    /\ Reactions \subseteq {"up", "down"}
ASSUME MiningBoundsAssumption ==
    {MineRows, MaxAsked, MaxNow, MaxStops} \subseteq Nat

VARIABLES
    now,
    asked,      \* injected rows of retrieval_log with their messages, in
                \*    order of id
    outcomes,   \* turn_outcomes: of which row's turn, when, how it ended
    resolved,   \* row -> the outcome it was resolved to, 0 if none, and the
                \*    credit it gave (history)
    helpful, harmful,   \* memories' counters
    rowMark,    \* the watermark
    miner,      \* the run going on
    stops       \* history: preemptions and crashes so far

world == <<now, asked, outcomes>>
credits == <<resolved, helpful, harmful, rowMark>>
miningVars == <<world, credits, miner, stops>>

NotYet == <<0, "none">>
NoMiner == [on |-> FALSE, todo |-> {}, since |-> 0, found |-> {},
            mark |-> 0, blocked |-> FALSE]

MineInit ==
    /\ now = 0
    /\ asked = << >> /\ outcomes = << >> /\ resolved = << >>
    /\ helpful = [m \in Memories |-> 0]
    /\ harmful = [m \in Memories |-> 0]
    /\ rowMark = 0
    /\ miner = NoMiner
    /\ stops = 0

-----------------------------------------------------------------------------
\* The host.

Hours ==
    /\ now < MaxNow
    /\ now' = now + 1
    /\ UNCHANGED <<asked, outcomes, credits, miner, stops>>

\* A user message; the block injected into its turn held one memory.
AskAbout(t, text, m) ==
    /\ Len(asked) < MaxAsked /\ now < MaxNow
    /\ asked' = Append(asked, [talk |-> t, text |-> text, memory |-> m, at |-> now])
    /\ resolved' = Append(resolved, NotYet)
    /\ now' = now + 1
    /\ UNCHANGED <<outcomes, helpful, harmful, rowMark, miner, stops>>

\* Turns of a session are sequential: one that was interrupted has no end.
FinishTalk(t, label) ==
    \E r \in DOMAIN asked :
        /\ now < MaxNow
        /\ asked[r].talk = t
        /\ \A later \in DOMAIN asked : later > r => asked[later].talk # t
        /\ \A o \in ToSet(outcomes) : o.turn # r
        /\ outcomes' = Append(outcomes, [turn |-> r, at |-> now, label |-> label,
                                         reaction |-> "none"])
        /\ now' = now + 1
        /\ UNCHANGED <<asked, credits, miner, stops>>

\* The user likes or dislikes the answer, at any time after it.
React(o, reaction) ==
    /\ outcomes[o].reaction = "none"
    /\ outcomes' = [outcomes EXCEPT ![o].reaction = reaction]
    /\ UNCHANGED <<now, asked, credits, miner, stops>>

-----------------------------------------------------------------------------
\* Reading.

\* credit: negative feedback, then a bad end, then a good end or feedback.
Credit(o) ==
    IF o.reaction = "down" \/ o.label = "failed" THEN "harmful"
    ELSE IF o.label = "verified" \/ o.reaction = "up" THEN "helpful"
    ELSE "neutral"

\* The messages of the row's text near it, and outcomes of its session that
\* can be those of a message.
Messages(r) ==
    { x \in DOMAIN asked : /\ asked[x].talk = asked[r].talk
                           /\ asked[x].text = asked[r].text
                           /\ asked[x].at - asked[r].at \in -MsgWindow..MsgWindow }
Following(x) ==
    { o \in DOMAIN outcomes : /\ asked[outcomes[o].turn].talk = asked[x].talk
                              /\ outcomes[o].at - asked[x].at \in 0..OutcomeWindow }

\* _resolve_row: the outcome, or 0.  Both lists are in order of time.
Resolve(r) ==
    LET said == Min(Messages(r))
    IN  IF Following(said) = {} THEN 0 ELSE Min(Following(said))

\* Rows not resolved beyond the watermark; ORDER BY id LIMIT.
\* Mutant of Unresolved: `resolved_turn_id IS NULL' is left out.
UnresolvedOrNot(mark) == (mark + 1)..Len(asked)
Unresolved(mark) == { r \in (mark + 1)..Len(asked) : resolved[r] = NotYet }
FirstRows(rows) == { r \in rows : Cardinality({ x \in rows : x < r }) < MineRows }

MineOpen ==
    /\ ~miner.on
    /\ miner' = [NoMiner EXCEPT !.on = TRUE, !.todo = FirstRows(Unresolved(rowMark)),
                               !.since = now, !.mark = rowMark]
    /\ UNCHANGED <<world, credits, stops>>

Young(r) == asked[r].at > miner.since - Grace

\* One row of the loop, in order: resolved, unresolved for good, or waited for.
MineRow ==
    /\ miner.on /\ miner.todo # {}
    /\ LET r == Min(miner.todo)
           o == Resolve(r)
           waits == miner.blocked \/ (o = 0 /\ Young(r))
       IN  miner' = [miner EXCEPT
               !.todo = @ \ {r},
               !.found = IF o = 0 THEN @ ELSE @ \cup {<<r, <<o, Credit(outcomes[o])>> >>},
               !.blocked = waits,
               !.mark = IF waits THEN @ ELSE r]
    /\ UNCHANGED <<world, credits, stops>>

\* tick() fails: the rows not looked at stay beyond the watermark.
MinePreempted ==
    /\ miner.on /\ miner.todo # {} /\ stops < MaxStops
    /\ miner' = [miner EXCEPT !.todo = {}, !.blocked = TRUE]
    /\ stops' = stops + 1
    /\ UNCHANGED <<world, credits>>

\* The one transaction of the run.
Earned(m, kind) ==
    Cardinality({ p \in miner.found : asked[p[1]].memory = m /\ p[2][2] = kind })
MineCommit ==
    /\ miner.on /\ miner.todo = {}
    /\ resolved' = [r \in DOMAIN asked |->
                        IF \E p \in miner.found : p[1] = r
                        THEN (CHOOSE p \in miner.found : p[1] = r)[2]
                        ELSE resolved[r]]
    /\ helpful' = [m \in Memories |-> helpful[m] + Earned(m, "helpful")]
    /\ harmful' = [m \in Memories |-> harmful[m] + Earned(m, "harmful")]
    /\ rowMark' = miner.mark
    /\ miner' = NoMiner
    /\ UNCHANGED <<world, stops>>

\* The process dies, or a statement raises and run() rolls back.
MineFails ==
    /\ miner.on /\ stops < MaxStops
    /\ miner' = NoMiner /\ stops' = stops + 1
    /\ UNCHANGED <<world, credits>>

MineNext ==
    \/ Hours
    \/ \E t \in Talks, text \in Said, m \in Memories : AskAbout(t, text, m)
    \/ \E t \in Talks, label \in Labels : FinishTalk(t, label)
    \/ \E o \in DOMAIN outcomes, reaction \in Reactions : React(o, reaction)
    \/ MineOpen \/ MineRow \/ MinePreempted \/ MineCommit \/ MineFails

MineSpec == MineInit /\ [][MineNext]_miningVars

-----------------------------------------------------------------------------
\* Properties.

\* The types of everything above.
MineTypeOK ==
    /\ now \in 0..MaxNow /\ stops \in 0..MaxStops
    /\ asked \in Seq([talk : Talks, text : Said, memory : Memories, at : 0..MaxNow])
    /\ outcomes \in Seq([turn : 1..MaxAsked, at : 0..MaxNow, label : Labels,
                         reaction : Reactions \cup {"none"}])
    /\ resolved \in Seq((0..MaxAsked) \X {"none", "helpful", "harmful", "neutral"})
    /\ Len(resolved) = Len(asked)
    /\ helpful \in [Memories -> Nat] /\ harmful \in [Memories -> Nat]
    /\ rowMark \in 0..Len(asked)
    /\ miner.todo \subseteq 1..Len(asked) /\ miner.mark \in 0..Len(asked)

\* A memory has exactly the credits of the rows resolved for it, one each:
\* however often rows behind a young one are read again, and whatever run
\* was preempted or died (mine_state._run).
CreditedOnce ==
    \A m \in Memories :
        LET Gave(kind) == { r \in DOMAIN asked :
                asked[r].memory = m /\ resolved[r][2] = kind }
        IN  /\ helpful[m] = Cardinality(Gave("helpful"))
            /\ harmful[m] = Cardinality(Gave("harmful"))

\* A row the watermark has passed is resolved, or has no outcome and can get
\* none any more: no credit is lost to a turn that took long or to a run
\* that stopped early.
PassedIsSettled ==
    \A r \in 1..rowMark :
        resolved[r] # NotYet \/ (Resolve(r) = 0 /\ now > asked[r].at + OutcomeWindow)

\* No turn is counted twice, and none is given up too early.
CreditsSettled == CreditedOnce /\ PassedIsSettled
=============================================================================
