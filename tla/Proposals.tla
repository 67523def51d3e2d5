----------------------------- MODULE Proposals -----------------------------
(***************************************************************************)
(* What the brain changes about itself: skillforge/ drafts skills from     *)
(* past cases, proposes to revise or retire the ones that hurt, dream/tune *)
(* proposes retrieval weights.  Every change is a row of the proposals     *)
(* table that the user decides in `hermes brain review'; a draft that      *)
(* passed its gates may be promoted without the user.  A row's effect is   *)
(* on files (drafts/, skills/, .usage.json), which no transaction covers.  *)
(*                                                                         *)
(* A text is a number: a SKILL.md, a revision of one or a set of weights,  *)
(* in the order the LLM or the fit made them.                              *)
(***************************************************************************)
EXTENDS Integers, SequencesExt

CONSTANTS
    Dreams, Shells,     \* processes: night shifts and command lines
    Names,              \* skill names
    Evidence,           \* clusters: <<successes, cases>>
    Tallies,            \* what .usage.json may count of a skill: <<helped, hurt>>
    RetireAfter,        \* _RETIRE_AFTER_REJECTED
    Host,               \* the text of a skill the brain did not write
    MaxRows, MaxTexts, MaxFaults    \* bounds: proposals, texts, crashes and names taken

Procs == Dreams \cup Shells
Texts == 1..MaxTexts
Ids == 1..MaxRows
NoTally == <<0, 0>>

ASSUME ProposalsAssumption ==
    /\ Dreams \cap Shells = {}
    /\ NoTally \in Tallies /\ Tallies \subseteq Nat \X Nat
    /\ Evidence \subseteq Nat \X (Nat \ {0})
    /\ Host \notin Texts
    /\ {RetireAfter, MaxRows, MaxTexts, MaxFaults} \subseteq Nat

VARIABLES
    rows,       \* the proposals table, in order of insertion
    texts,      \* texts made so far
    drafts,     \* name -> the texts drafts/<name>/SKILL.md has had; the last counts
    live,       \* name -> what skills/<name>/SKILL.md is made of; {}: no file
    elsewhere,  \* names bundled, or of a skill in another directory
    usage,      \* name -> its record in .usage.json
    weights,    \* the text in meta.retrieval_weights; 0: uniform
    work,       \* process -> what it is doing
    counted,    \* history: name -> what the file was when the tally began
    torn,       \* history: names whose file changed and whose tally did not yet
    archived,   \* history: names whose skill the curator archived
    late,       \* history: names the host took after the brain had drafted them
    overruled,  \* history: rows rejected while a process had them in hand
    passed,     \* history: texts that passed the gates
    faults      \* history: crashes and names taken so far, up to MaxFaults

disk == <<drafts, live, elsewhere, usage>>
history == <<counted, torn, archived, late, overruled, passed>>
proposalsVars == <<rows, texts, disk, weights, work, history, faults>>

-----------------------------------------------------------------------------
Kinds == {"skill_draft", "skill_revision", "skill_retire", "tuning"}
OpenStatuses == {"pending", "shadow", "validated", "approved"}
Statuses == OpenStatuses \cup {"applied", "rejected"}

Row(kind, name, text, status) ==
    [kind |-> kind, name |-> name, text |-> text, status |-> status,
     passed |-> FALSE]

Idle == [at |-> "idle", row |-> 0, name |-> "", text |-> 0, auto |-> FALSE,
         cluster |-> << >>, todo |-> {}, tallies |-> << >>, new |-> << >>]

ProposalsInit ==
    /\ rows = << >> /\ texts = 0
    /\ drafts = [n \in Names |-> << >>]
    /\ live = [n \in Names |-> {}]
    /\ elsewhere = {}
    /\ usage = [n \in Names |-> [stale |-> FALSE, tally |-> NoTally, draft |-> 0]]
    /\ weights = 0
    /\ work = [p \in Procs |-> Idle]
    /\ counted = [n \in Names |-> {}]
    /\ torn = {} /\ archived = {} /\ late = {} /\ overruled = {} /\ passed = {}
    /\ faults = 0

RowIds == 1..Len(rows)

\* A transaction with statements in it keeps every other writer waiting.
Writable(p) == \A q \in Procs \ {p} : work[q].new = << >>

Becomes(p, state) == work' = [work EXCEPT ![p] = state]

\* Row i is rejected by p, maybe while another process has it in hand.
Overruled(p, i) ==
    IF \E q \in Procs \ {p} : work[q].row = i THEN overruled \cup {i} ELSE overruled

-----------------------------------------------------------------------------
(* The gates.                                                              *)

\* wilson_lower_bound(k, n) >= 1/5, squared out: z^2 = 3.841459.
WilsonClears(k, n) ==
    /\ 5 * k >= n
    /\ (5 * k - n) * (5 * k - n) * 1000000 >= 4 * 3841459 * n

\* The statistical gate: _MIN_EVIDENCE, _MIN_SUCCESS_RATE, _WILSON_MIN.
Convincing(e) == e[2] >= 3 /\ 10 * e[1] >= 6 * e[2] /\ WilsonClears(e[1], e[2])

\* _harm_verdict
Harmful(tally) ==
    LET helped == tally[1]
        hurt == tally[2] IN
    /\ helped + hurt >= 5 /\ hurt > helped
    /\ WilsonClears(hurt, helped + hurt)

-----------------------------------------------------------------------------
(* forge_once: draft, validate, decide, promote.                           *)

\* Mutant of NameAvailable: only the bundled names are looked at.
NotBundled(n) == n \notin elsewhere

\* name_available: no skill of the name anywhere.
NameAvailable(n) == n \notin elsewhere /\ live[n] = {}

\* _detect: _MIN_CLUSTER similar cases, _MIN_SUCCESS of them successful.
Clusters == {e \in Evidence : e[2] >= 3 /\ e[1] >= 2}

\* The LLM has answered; the draft goes to drafts/<name>, over any other's.
Draft(p) ==
    /\ work[p].at = "idle"
    /\ texts < MaxTexts /\ Len(rows) < MaxRows
    /\ \E n \in Names, e \in Clusters, auto \in BOOLEAN :
       /\ NameAvailable(n)
       /\ drafts' = [drafts EXCEPT ![n] = Append(@, texts + 1)]
       /\ Becomes(p, [Idle EXCEPT !.at = "drafted", !.name = n,
                                  !.text = texts + 1, !.auto = auto,
                                  !.cluster = e])
    /\ texts' = texts + 1
    /\ UNCHANGED <<rows, live, elsewhere, usage, weights, history, faults>>

\* _draft ends: the row is committed, open to review before its gates ran.
Propose(p) ==
    /\ work[p].at = "drafted" /\ Writable(p) /\ Len(rows) < MaxRows
    /\ rows' = Append(rows, Row("skill_draft", work[p].name, work[p].text, "pending"))
    /\ Becomes(p, [work[p] EXCEPT !.at = "proposed", !.row = Len(rows) + 1])
    /\ UNCHANGED <<texts, disk, weights, history, faults>>

\* _validate and _record_validation; the text validated is the one in memory.
Validate(p) ==
    /\ work[p].at = "proposed" /\ Writable(p)
    /\ \E replay \in BOOLEAN, probes \in BOOLEAN :
       LET ok == replay /\ Convincing(work[p].cluster) /\ probes IN
       /\ rows' = [rows EXCEPT ![work[p].row].passed = ok]
       /\ passed' = IF ok THEN passed \cup {work[p].text} ELSE passed
    /\ Becomes(p, [work[p] EXCEPT !.at = "validated", !.cluster = << >>])
    /\ UNCHANGED <<texts, disk, weights, counted, torn, archived, late,
                   overruled, faults>>

\* _set_status: whatever the status is by now.
Conclude(p) ==
    /\ work[p].at = "validated" /\ Writable(p)
    /\ LET i == work[p].row IN
       /\ rows' = [rows EXCEPT ![i].status =
                       IF rows[i].passed THEN "validated" ELSE "pending"]
       /\ IF rows[i].passed /\ work[p].auto
            THEN Becomes(p, [work[p] EXCEPT !.at = "promoting"])
            ELSE Becomes(p, Idle)
    /\ UNCHANGED <<texts, disk, weights, history, faults>>

\* Mutant of Promotable: whatever has not been applied may be.
PromotableUnlessApplied(i) == rows[i].status # "applied"

Promotable(i) == rows[i].status \in {"validated", "approved"}

\* _promote up to the copy.  A file at skills/<name> itself does not block.
Copy(p) ==
    /\ work[p].at = "promoting"
    /\ LET i == work[p].row
           n == rows[i].name IN
       \/ /\ ~Promotable(i)
          /\ Becomes(p, Idle)
          /\ UNCHANGED <<rows, live, torn, overruled>>
       \/ /\ Promotable(i) /\ n \in elsewhere /\ Writable(p)
          /\ rows' = [rows EXCEPT ![i].status = "rejected"]
          /\ overruled' = Overruled(p, i)
          /\ Becomes(p, Idle)
          /\ UNCHANGED <<live, torn>>
       \/ /\ Promotable(i) /\ n \notin elsewhere
          /\ live' = [live EXCEPT ![n] = {Last(drafts[n])}]
          /\ torn' = torn \cup {n}
          /\ Becomes(p, [work[p] EXCEPT !.at = "copied"])
          /\ UNCHANGED <<rows, overruled>>
    /\ UNCHANGED <<texts, drafts, elsewhere, usage, weights, counted,
                   archived, late, passed, faults>>

\* write_usage_record(brain_skill_record(...)): a fresh tally.
Register(p) ==
    /\ work[p].at = "copied"
    /\ LET n == rows[work[p].row].name IN
       /\ usage' = [usage EXCEPT ![n] = [stale |-> FALSE, tally |-> NoTally,
                                         draft |-> work[p].row]]
       /\ torn' = torn \ {n}
    /\ Becomes(p, [work[p] EXCEPT !.at = "written"])
    /\ UNCHANGED <<rows, texts, drafts, live, elsewhere, weights, counted,
                   archived, late, overruled, passed, faults>>

\* Mutant of Written: the usage record is left for later.
Copied(p) == work[p].at \in {"copied", "patched", "written"}

Written(p) == work[p].at = "written"

\* The status is flipped last, when every file is written.
Finish(p) ==
    /\ Written(p) /\ Writable(p)
    /\ rows' = [rows EXCEPT ![work[p].row].status = "applied"]
    /\ Becomes(p, Idle)
    /\ UNCHANGED <<texts, disk, weights, history, faults>>

-----------------------------------------------------------------------------
(* revise_once, in a night shift.                                          *)

BrainOwned(n) == live[n] # {} /\ Host \notin live[n] /\ ~usage[n].stale

\* The owned skills and the whole of .usage.json are read once.
Revise(p) ==
    /\ work[p].at = "idle"
    /\ LET owned == {n \in Names : BrainOwned(n)} IN
       /\ owned # {}
       /\ Becomes(p, [Idle EXCEPT !.at = "revising", !.todo = owned,
                          !.tallies = [n \in Names |-> usage[n].tally]])
    /\ UNCHANGED <<rows, texts, disk, weights, history, faults>>

\* Its own uncommitted rows are in sight, too.
Table(p) == rows \o work[p].new

\* _has_open_proposal
HasOpen(p, n) ==
    \E i \in 1..Len(Table(p)) :
        /\ Table(p)[i].name = n
        /\ Table(p)[i].kind \in {"skill_revision", "skill_retire"}
        /\ Table(p)[i].status \in OpenStatuses

Rejected(n) == {i \in RowIds : /\ rows[i].name = n
                               /\ rows[i].kind = "skill_revision"
                               /\ rows[i].status = "rejected"}

Drafted(p) == \E i \in 1..Len(work[p].new) : work[p].new[i].kind = "skill_revision"

Insert(p, n, row) ==
    Becomes(p, [work[p] EXCEPT !.todo = @ \ {n}, !.new = Append(@, row)])

\* One skill of the run.
Examine(p) ==
    /\ work[p].at = "revising"
    /\ \E n \in work[p].todo :
       LET due == Harmful(work[p].tallies[n]) /\ ~HasOpen(p, n)
           retire == Cardinality(Rejected(n)) >= RetireAfter IN
       \/ \* healthy, open, deferred, or nothing to be had from the LLM
          /\ ~(due /\ retire)
          /\ Becomes(p, [work[p] EXCEPT !.todo = @ \ {n}])
          /\ UNCHANGED texts
       \/ \* _write_retire
          /\ due /\ retire /\ Writable(p) /\ Len(Table(p)) < MaxRows
          /\ Insert(p, n, Row("skill_retire", n, 0, "pending"))
          /\ UNCHANGED texts
       \/ \* _draft_revision
          /\ due /\ ~retire /\ ~Drafted(p) /\ Writable(p)
          /\ Len(Table(p)) < MaxRows /\ texts < MaxTexts
          /\ Insert(p, n, Row("skill_revision", n, texts + 1, "pending"))
          /\ texts' = texts + 1
    /\ UNCHANGED <<rows, disk, weights, history, faults>>

\* The end of the run: its rows are committed.
Revised(p) ==
    /\ work[p].at = "revising" /\ work[p].todo = {}
    /\ Len(Table(p)) <= MaxRows
    /\ rows' = Table(p)
    /\ Becomes(p, Idle)
    /\ UNCHANGED <<texts, disk, weights, history, faults>>

-----------------------------------------------------------------------------
(* dream/tune: one open tuning proposal, refreshed night after night.      *)

OpenTuning == {i \in RowIds : rows[i].kind = "tuning" /\ rows[i].status = "shadow"}

\* _record_proposal; the row with the latest created_at is the open one.
Tune(p) ==
    /\ work[p].at = "idle" /\ Writable(p) /\ texts < MaxTexts
    /\ texts' = texts + 1
    /\ \/ /\ OpenTuning = {} /\ Len(rows) < MaxRows
          /\ rows' = Append(rows, Row("tuning", "", texts + 1, "shadow"))
       \/ \E i \in OpenTuning :
            /\ \A j \in OpenTuning : j <= i
            /\ rows' = [rows EXCEPT ![i].text = texts + 1]
    /\ UNCHANGED <<disk, weights, work, history, faults>>

-----------------------------------------------------------------------------
(* _review_decide, at the command line.                                    *)

\* No status is asked for: an applied proposal can be rejected.
Reject(p) ==
    /\ work[p].at = "idle" /\ Writable(p)
    /\ \E i \in RowIds :
       /\ rows' = [rows EXCEPT ![i].status = "rejected"]
       /\ overruled' = Overruled(p, i)
    /\ UNCHANGED <<texts, disk, weights, work, counted, torn, archived, late, passed, faults>>

TakesUp(p, i, at) == Becomes(p, [Idle EXCEPT !.at = at, !.row = i])

\* Neither do the approvals below, a draft's excepted.
ApproveDraft(p) ==
    /\ work[p].at = "idle"
    /\ \E i \in RowIds :
        rows[i].kind = "skill_draft" /\ TakesUp(p, i, "promoting")
    /\ UNCHANGED <<rows, texts, disk, weights, history, faults>>

\* mark_stale: the curator does the rest.
ApproveRetire(p) ==
    /\ work[p].at = "idle"
    /\ \E i \in RowIds :
       /\ rows[i].kind = "skill_retire"
       /\ usage' = [usage EXCEPT ![rows[i].name].stale = TRUE]
       /\ TakesUp(p, i, "written")
    /\ UNCHANGED <<rows, texts, drafts, live, elsewhere, weights, history,
                   faults>>

\* apply_revision; without the file there is nothing to apply it to.
ApproveRevision(p) ==
    /\ work[p].at = "idle"
    /\ \E i \in RowIds :
       LET n == rows[i].name IN
       /\ rows[i].kind = "skill_revision" /\ live[n] # {}
       /\ live' = [live EXCEPT ![n] = @ \cup {rows[i].text}]
       /\ torn' = torn \cup {n}
       /\ TakesUp(p, i, "patched")
    /\ UNCHANGED <<rows, texts, drafts, elsewhere, usage, weights, counted,
                   archived, late, overruled, passed, faults>>

\* The counters start again after a revision.
HealthWindow(n) == NoTally

Patched(p) ==
    /\ work[p].at = "patched"
    /\ LET n == rows[work[p].row].name IN
       /\ usage' = [usage EXCEPT ![n].tally = HealthWindow(n)]
       /\ torn' = torn \ {n}
    /\ Becomes(p, [work[p] EXCEPT !.at = "written"])
    /\ UNCHANGED <<rows, texts, drafts, live, elsewhere, weights, counted,
                   archived, late, overruled, passed, faults>>

\* _approve_tuning: weights.save commits before the status does.
ApproveTuning(p) ==
    /\ work[p].at = "idle" /\ Writable(p)
    /\ \E i \in RowIds :
       /\ rows[i].kind = "tuning"
       /\ weights' = rows[i].text
       /\ TakesUp(p, i, "written")
    /\ UNCHANGED <<rows, texts, disk, history, faults>>

\* weights.reset
ResetWeights ==
    /\ weights # 0
    /\ weights' = 0
    /\ UNCHANGED <<rows, texts, disk, work, history, faults>>

-----------------------------------------------------------------------------
(* The host: it uses skills, archives stale ones, and gets others.         *)

Use(n) ==
    /\ live[n] # {} /\ ~usage[n].stale
    /\ \E t \in Tallies \ {usage[n].tally} :
       /\ usage[n].tally[1] <= t[1] /\ usage[n].tally[2] <= t[2]
       /\ usage' = [usage EXCEPT ![n].tally = t]
       /\ counted' = IF usage[n].tally = NoTally
                       THEN [counted EXCEPT ![n] = live[n]] ELSE counted
    /\ UNCHANGED <<rows, texts, drafts, live, elsewhere, weights, work, torn,
                   archived, late, overruled, passed, faults>>

Archive(n) ==
    /\ live[n] # {} /\ usage[n].stale
    /\ live' = [live EXCEPT ![n] = {}]
    /\ archived' = archived \cup {n}
    /\ UNCHANGED <<rows, texts, drafts, elsewhere, usage, weights, work, counted,
                   torn, late, overruled, passed, faults>>

Install(n) ==
    /\ live[n] = {} /\ n \notin elsewhere /\ faults < MaxFaults
    /\ \/ live' = [live EXCEPT ![n] = {Host}] /\ UNCHANGED elsewhere
       \/ elsewhere' = elsewhere \cup {n} /\ UNCHANGED live
    /\ late' = IF drafts[n] = << >> THEN late ELSE late \cup {n}
    /\ faults' = faults + 1
    /\ UNCHANGED <<rows, texts, drafts, usage, weights, work, counted, torn,
                   archived,
                   overruled, passed>>

-----------------------------------------------------------------------------
\* The process dies; an open transaction is rolled back.
Crash(p) ==
    /\ work[p].at # "idle" /\ faults < MaxFaults
    /\ Becomes(p, Idle)
    /\ faults' = faults + 1
    /\ UNCHANGED <<rows, texts, disk, weights, history>>

Forge(p) == \/ Draft(p) \/ Propose(p) \/ Validate(p) \/ Conclude(p)
            \/ Copy(p) \/ Register(p) \/ Finish(p)

Review(p) == \/ Reject(p) \/ ApproveDraft(p) \/ ApproveRetire(p)
             \/ ApproveRevision(p) \/ Patched(p) \/ ApproveTuning(p)

ProposalsNext ==
    \/ \E p \in Procs : Forge(p) \/ Crash(p)
    \/ \E p \in Dreams : Revise(p) \/ Examine(p) \/ Revised(p) \/ Tune(p)
    \/ \E p \in Shells : Review(p)
    \/ \E n \in Names : Use(n) \/ Archive(n) \/ Install(n)
    \/ ResetWeights

-----------------------------------------------------------------------------
RowSet == [kind : Kinds, name : Names \cup {""}, text : 0..MaxTexts,
           status : Statuses, passed : BOOLEAN]

ProposalsTypeOK ==
    /\ rows \in Seq(RowSet) /\ Len(rows) <= MaxRows
    /\ texts \in 0..MaxTexts /\ weights \in 0..texts
    /\ drafts \in [Names -> Seq(1..texts)]
    /\ live \in [Names -> SUBSET (Texts \cup {Host})]
    /\ usage \in [Names -> [stale : BOOLEAN, tally : Tallies, draft : 0..Len(rows)]]
    /\ \A p \in Procs : /\ work[p].row \in 0..Len(rows)
                        /\ Len(work[p].new) + Len(rows) <= MaxRows
                        /\ work[p].new # << >> => work[p].at = "revising"
    /\ elsewhere \cup torn \cup archived \cup late \subseteq Names
    /\ overruled \subseteq RowIds /\ passed \subseteq Texts
    /\ faults \in 0..MaxFaults

DraftsOf(n) == {drafts[n][k] : k \in 1..Len(drafts[n])}

\* No draft is live that failed its gates, whoever promoted it (schema.sql:
\* "Nothing here is applied without passing the gates"), unless an earlier
\* draft of the same name passed: the two share one directory, and the row of
\* the earlier one promotes what is there.
GatesPassed ==
    \A n \in Names : \A t \in live[n] \cap DraftsOf(n) :
        t \in passed \/ \E s \in passed \cap DraftsOf(n) : s < t

\* A draft the user has rejected is never promoted, and an applied proposal's
\* text never changes, unless the rejection came while a process had the row in
\* hand (_set_status does not look at what it overwrites).
DecidedIsFinal ==
    [][\A i \in RowIds :
        /\ rows[i].status = "applied" => rows'[i].text = rows[i].text
        /\ rows[i].kind = "skill_draft" /\ rows[i].status = "rejected"
           => rows'[i].status = "rejected" \/ i \in overruled]_proposalsVars

\* A promoted skill is on disk with its usage record, whatever crashed
\* (forge.py: "Order matters for crash-safety"), until it is archived.
AppliedIsLive ==
    \A i \in RowIds :
        rows[i].kind = "skill_draft" /\ rows[i].status = "applied" =>
            LET n == rows[i].name IN
            usage[n].draft # 0 /\ (live[n] # {} \/ n \in archived)

\* What is counted against a skill is what its present text did (cli.py: "the
\* old hurt/helped counters describe the PRE-revision skill"), but for a
\* review that died between the two files.
TallyFresh ==
    \A n \in Names :
        usage[n].tally # NoTally /\ live[n] \notin {{}, {Host}} =>
            counted[n] = live[n] \/ n \in torn

\* The rows and the three kinds of files agree, wherever a process died between
\* two of them.
SkillsWhole == AppliedIsLive /\ TallyFresh

\* A skill the brain did not write is not overwritten, if it was there before
\* the brain drafted one of its name.
HostKept ==
    [][\A n \in Names : Host \in live[n] => Host \in live'[n] \/ n \in late]_proposalsVars

\* What is not the brain's to change: the user's decisions and the host's files.
OthersRespected == DecidedIsFinal /\ HostKept
=============================================================================
