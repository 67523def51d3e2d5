--------------------------- MODULE EpisodeMining ---------------------------
(***************************************************************************)
(* What the dream learns from finished tasks: assemble_episodes            *)
(* (dream/mine_state.py) cuts the turns of state.db into episodes, `cases' *)
(* banks every one of them and `distill' makes reusable items of those     *)
(* that were the owner's.                                                  *)
(*                                                                         *)
(* Each strategy has a watermark of its own, a time.  A run reads the      *)
(* turns after it, decides the episodes one by one, with a call of the LLM *)
(* for most, and moves the watermark past those decided.  Turns keep       *)
(* arriving, from several sessions at once; a run is preempted, loses its  *)
(* lease or dies between any two steps.                                    *)
(***************************************************************************)
EXTENDS Integers, Sequences, FiniteSets, SequencesExt, FiniteSetsExt

CONSTANTS
    Sessions,           \* numbers: state.db is read in order of their ids
    OwnersSessions,     \* of the command line or of an enrolled owner
    EndLabels,          \* outcomes of turns that occur
    Titles,             \* what the LLM may call an item
    Gap,                \* ticks: _EPISODE_GAP_SECS
    MaxEpisodeTurns, MaxEpisodes, MaxDistill,   \* _MAX_EPISODE_TURNS,
                                        \* _MAX_EPISODES, _MAX_DISTILL_PER_RUN
    MaxTurns, MaxNights, MaxRuns, MaxBreaks \* bounds

ASSUME SessionsAssumption == Sessions \subseteq Nat /\ OwnersSessions \subseteq Sessions
ASSUME EndLabelsAssumption == EndLabels \subseteq {"verified", "failed", "partial"}
ASSUME EpisodeBoundsAssumption ==
    /\ {Gap, MaxEpisodeTurns, MaxEpisodes, MaxDistill} \subseteq Nat \ {0}
    /\ {MaxTurns, MaxNights, MaxRuns, MaxBreaks} \subseteq Nat

Strategies == {"cases", "distill"}

VARIABLES
    clock, nights,
    turns,      \* turn_outcomes, in order of time; named by their index
    mark,       \* strategy -> watermark, a time
    run,        \* the run going on
    cases, items,   \* rows of the two kinds in the database
    decided,    \* history: strategy -> closing turns of episodes decided by
                \*    a run that was committed
    unread,     \* history: strategy -> turns a run with its limit reached
                \*    did not read
    runs, breaks    \* history: counters of the bounds

bank == <<cases, items>>
episodeVars == <<clock, nights, turns, mark, run, bank, decided, unread, runs, breaks>>

-----------------------------------------------------------------------------
\* Assembling.  An episode is the sequence of its turns.

Terminal(t) == turns[t].label \in {"verified", "failed"}

\* SELECT ... WHERE created_at > since ORDER BY session_id, created_at LIMIT
Before(t, u) ==
    \/ turns[t].session < turns[u].session
    \/ turns[t].session = turns[u].session /\ turns[t].at < turns[u].at
After(since) == { t \in DOMAIN turns : turns[t].at > since }
Rows(since) ==
    LET all == After(since)
        Place(t) == Cardinality({ u \in all : Before(u, t) }) + 1
    IN  [i \in 1..Min({Cardinality(all), MaxEpisodes * MaxEpisodeTurns}) |->
            CHOOSE t \in all : Place(t) = i]

\* One row of the loop: a run of turns is closed before the row when its
\* session has changed, by a pause, or at its full length; after the row
\* when it ended the task.
ClosesBefore(going, t) ==
    /\ going # << >>
    /\ \/ turns[t].session # turns[Last(going)].session
       \/ turns[t].at - turns[Last(going)].at > Gap
       \/ Len(going) >= MaxEpisodeTurns
Assembled(acc, t) ==
    LET cut == ClosesBefore(acc.going, t)
        first == IF cut THEN Append(acc.closed, acc.going) ELSE acc.closed
        going == IF cut THEN <<t>> ELSE Append(acc.going, t)
    IN  IF Len(acc.closed) >= MaxEpisodes THEN acc
        ELSE IF ~Terminal(t) \/ Len(first) >= MaxEpisodes
        THEN [closed |-> first, going |-> going]
        ELSE [closed |-> Append(first, going), going |-> << >>]

\* The loop, by the number of rows it has read.
AssembledBy(rows) ==
    LET acc[n \in 0..Len(rows)] ==
            IF n = 0 THEN [closed |-> << >>, going |-> << >>]
            ELSE Assembled(acc[n - 1], rows[n])
    IN  acc

\* assemble_episodes: the turns left over at the end are an open run.
Episodes(since) ==
    LET rows == Rows(since) IN AssembledBy(rows)[Len(rows)].closed

Closing(e) == Last(e)
Started(e) == turns[Head(e)].at
Ended(e) == turns[Last(e)].at

\* advance_watermark: up to the first episode not decided, or past them all.
\* Mutant of Advance: past the last one decided.
AdvanceAnyway(eps, done, current) ==
    LET settled == { e \in ToSet(eps) : Closing(e) \in done }
    IN  Max({current} \cup { Ended(e) : e \in settled })
Advance(eps, done, current) ==
    LET open == { e \in ToSet(eps) : Closing(e) \notin done }
    IN  IF open # {} THEN Max({current, Min({ Started(e) : e \in open }) - 1})
        ELSE Max({current} \cup { Ended(e) : e \in ToSet(eps) })

\* episode_verdict: success, failure or ambiguous
Verdict(e) ==
    CASE turns[Closing(e)].label = "verified" -> "success"
      [] turns[Closing(e)].label = "failed" -> "failure"
      [] OTHER -> "ambiguous"
Trusted(e) == turns[Closing(e)].session \in OwnersSessions

-----------------------------------------------------------------------------
\* todo: the places of the episodes not looked at yet
NoRun == [of |-> "none", eps |-> << >>, todo |-> {}, done |-> {},
          llm |-> TRUE, made |-> 0, newCases |-> {}, newItems |-> {}]

EpisodeInit ==
    /\ clock = 1 /\ nights = 0
    /\ turns = << >>
    /\ mark = [s \in Strategies |-> 0]
    /\ run = NoRun
    /\ cases = {} /\ items = {}
    /\ decided = [s \in Strategies |-> {}]
    /\ unread = [s \in Strategies |-> {}]
    /\ runs = 0 /\ breaks = 0

\* The host finishes a turn of some session, at once or after a pause.
Turn(session, label, pause) ==
    /\ Len(turns) < MaxTurns
    /\ pause => nights < MaxNights /\ turns # << >>
    /\ LET at == IF pause THEN clock + Gap ELSE clock
       IN  /\ turns' = Append(turns, [session |-> session, at |-> at, label |-> label])
           /\ clock' = at + 1
    /\ nights' = IF pause THEN nights + 1 ELSE nights
    /\ UNCHANGED <<mark, run, bank, decided, unread, runs, breaks>>

\* The start of _run.  distill takes episodes that are not the owner's as
\* decided.
Open(s) ==
    /\ run = NoRun /\ runs < MaxRuns
    /\ LET eps == Episodes(mark[s])
           mine == { i \in DOMAIN eps : s = "distill" => Trusted(eps[i]) }
           rows == Rows(mark[s])
           full == Len(rows) = MaxEpisodes * MaxEpisodeTurns \/ Len(eps) = MaxEpisodes
       IN  /\ eps # << >>
           /\ run' = [NoRun EXCEPT !.of = s, !.eps = eps, !.todo = mine,
                          !.done = { Closing(eps[i]) : i \in DOMAIN eps \ mine }]
           /\ unread' = IF full
                        THEN [unread EXCEPT ![s] = @ \cup
                                (After(mark[s]) \ UNION { ToSet(e) : e \in ToSet(eps) })]
                        ELSE unread
    /\ runs' = runs + 1
    /\ UNCHANGED <<clock, nights, turns, mark, bank, decided, breaks>>

\* One episode after the other.
InHand(e) == run.todo # {} /\ e = run.eps[Min(run.todo)]
Rest == run.todo \ {Min(run.todo)}

\* A row inserted stays uncommitted, for a renewal of the lease to commit
\* with it or for the end of the run.
Inserted == cases \cup run.newCases
Known == items \cup run.newItems
Renewal ==
    /\ run.newCases \cup run.newItems # {}
    /\ cases' = Inserted /\ items' = Known
    /\ run' = [run EXCEPT !.newCases = {}, !.newItems = {}]
    /\ UNCHANGED <<clock, nights, turns, mark, decided, unread, runs, breaks>>

-----------------------------------------------------------------------------
\* cases: every episode is banked once, with the LLM's summary or the goal.

\* Mutant of Banked: the marker is not looked for.
BankedNever(e) == FALSE
Banked(e) == \E c \in Inserted : Closing(e) \in ToSet(c.turns)

Case(e, keeps) ==
    /\ run.of = "cases" /\ InHand(e)
    /\ run' = [run EXCEPT
           !.todo = Rest, !.done = @ \cup {Closing(e)},
           !.newCases = IF Banked(e) \/ ~keeps THEN @
                        ELSE @ \cup {[turns |-> e, run |-> runs]}]
    /\ UNCHANGED <<clock, nights, turns, mark, bank, decided, unread, runs, breaks>>

-----------------------------------------------------------------------------
\* distill.

Judging == run.of = "distill" /\ run.todo # {} /\ run.made < MaxDistill
Decide(e, made) ==
    run' = [run EXCEPT !.todo = Rest, !.done = @ \cup {Closing(e)},
                       !.made = @ + made]

\* The LLM or its budget is gone: the rest of the run asks nothing.
Defers(e) ==
    /\ Judging /\ InHand(e)
    /\ run' = [run EXCEPT !.todo = Rest, !.llm = FALSE]
    /\ UNCHANGED <<clock, nights, turns, mark, bank, decided, unread, runs, breaks>>

\* Judged unclear, or too short to learn from.
NothingToLearn(e) ==
    /\ Judging /\ InHand(e)
    /\ Verdict(e) = "ambiguous" => run.llm
    /\ Decide(e, 0)
    /\ UNCHANGED <<clock, nights, turns, mark, bank, decided, unread, runs, breaks>>

\* The proposal is no item: logged, and committed with what was inserted.
RejectsProposal(e) ==
    /\ Judging /\ InHand(e) /\ run.llm
    /\ cases' = Inserted /\ items' = Known
    /\ run' = [run EXCEPT !.todo = Rest, !.done = @ \cup {Closing(e)},
                          !.made = @ + 1, !.newCases = {}, !.newItems = {}]
    /\ UNCHANGED <<clock, nights, turns, mark, decided, unread, runs, breaks>>

\* _novelty_dup and _bump_evidence: another item says the same.
Reinforces(e, i) ==
    /\ Judging /\ InHand(e) /\ run.llm /\ i \in Known
    /\ cases' = Inserted
    /\ items' = (Known \ {i}) \cup {[i EXCEPT !.verified = @ + 1,
                                             !.by = @ \cup {Closing(e)}]}
    /\ run' = [run EXCEPT !.todo = Rest, !.done = @ \cup {Closing(e)},
                          !.newCases = {}, !.newItems = {}]
    /\ UNCHANGED <<clock, nights, turns, mark, decided, unread, runs, breaks>>

\* _contrast_partner: an episode of the run that went the other way; an
\* ambiguous one takes the judge's word.
\* Mutant of Pool: the episodes of everybody are compared.
PoolOfAll == ToSet(run.eps)
Pool == { e \in ToSet(run.eps) : Trusted(e) }
Contrasts(e, p) ==
    /\ p \in Pool \ {e} /\ Verdict(p) # "ambiguous"
    /\ Verdict(p) # Verdict(e)

Learns(e, title, partner) ==
    /\ Judging /\ InHand(e) /\ run.llm
    /\ \A i \in Known : i.title # title
    /\ run' = [run EXCEPT
           !.todo = Rest, !.done = @ \cup {Closing(e)}, !.made = @ + 1,
           !.newItems = @ \cup {[title |-> title, from |-> Closing(e),
               against |-> IF partner = << >> THEN {} ELSE {Closing(partner)},
               verified |-> 0, by |-> {}]}]
    /\ UNCHANGED <<clock, nights, turns, mark, bank, decided, unread, runs, breaks>>

Distill(e) ==
    \/ Defers(e) \/ NothingToLearn(e) \/ RejectsProposal(e)
    \/ \E i \in Known : Reinforces(e, i)
    \/ \E title \in Titles, p \in { q \in Pool : Contrasts(e, q) } \cup {<< >>} :
           Learns(e, title, p)

-----------------------------------------------------------------------------
\* tick() or keepalive() fails: the rest stays undecided.
Interrupted ==
    /\ run.todo # {} /\ breaks < MaxBreaks
    /\ run' = [run EXCEPT !.todo = {}]
    /\ breaks' = breaks + 1
    /\ UNCHANGED <<clock, nights, turns, mark, bank, decided, unread, runs>>

\* The end of _run: the watermark, and one commit.
Close ==
    /\ run # NoRun
    /\ run.todo = {} \/ (run.of = "distill" /\ ~Judging)
    /\ mark' = [mark EXCEPT ![run.of] = Advance(run.eps, run.done, @)]
    /\ cases' = Inserted /\ items' = Known
    /\ decided' = [decided EXCEPT ![run.of] = @ \cup run.done]
    /\ run' = NoRun
    /\ UNCHANGED <<clock, nights, turns, unread, runs, breaks>>

\* The process dies, or run() rolls back.
Fails ==
    /\ run # NoRun /\ breaks < MaxBreaks
    /\ run' = NoRun /\ breaks' = breaks + 1
    /\ UNCHANGED <<clock, nights, turns, mark, bank, decided, unread, runs>>

EpisodeNext ==
    \/ \E session \in Sessions, label \in EndLabels, pause \in BOOLEAN :
           Turn(session, label, pause)
    \/ \E s \in Strategies : Open(s)
    \/ Renewal
    \/ \E e \in ToSet(run.eps), keeps \in BOOLEAN : Case(e, keeps)
    \/ \E e \in ToSet(run.eps) : Distill(e)
    \/ Interrupted \/ Close \/ Fails

EpisodeSpec == EpisodeInit /\ [][EpisodeNext]_episodeVars

-----------------------------------------------------------------------------
\* Properties.

\* The types of everything above.
EpisodeTypeOK ==
    /\ turns \in Seq([session : Sessions, at : Nat, label : EndLabels])
    /\ mark \in [Strategies -> Nat]
    /\ run.of \in Strategies \cup {"none"}
    /\ UNION { ToSet(e) : e \in ToSet(run.eps) } \subseteq DOMAIN turns
    /\ run.todo \subseteq DOMAIN run.eps
    /\ \A i \in items : i.title \in Titles /\ i.from \in DOMAIN turns
    /\ \A s \in Strategies : decided[s] \cup unread[s] \subseteq DOMAIN turns

\* An episode is banked once, whatever run died after a renewal had
\* committed some of its rows, and however often its turns are read again
\* below a watermark held back (cases._case_exists: "a re-run (or resume)
\* never double-writes").
CaseOnce ==
    \A c, d \in cases : Closing(c.turns) = Closing(d.turns) => c = d

\* A turn that ended a task and that a watermark has passed was decided by
\* a run of that strategy, unless a run with its limit reached had left it
\* out (advance_watermark: "WITHOUT skipping an unresolved episode").
EndsKept ==
    \A s \in Strategies : \A t \in DOMAIN turns :
        Terminal(t) /\ turns[t].at <= mark[s] => t \in decided[s] \cup unread[s]

\* What the agent plans with comes from its owner's sessions alone, the
\* episode an item is contrasted with included (distill._is_owner_trusted).
OwnerSeeds ==
    \A i \in items \cup run.newItems : \A t \in {i.from} \cup i.against \cup i.by :
        turns[t].session \in OwnersSessions
=============================================================================
