----------------------------- MODULE ForgeProofs -----------------------------
(***************************************************************************)
(* No skill goes live that failed its gates, rows and files agree, and     *)
(* what others decided or wrote stays, for any processes, names, evidence  *)
(* and limits.  The argument for the gates: a row can only be promoted     *)
(* with the status `validated', which it gets from the process that made   *)
(* it and only if its text passed; what is copied is the last text of the  *)
(* shared directory, which is that text or a later one.  For the rest, see *)
(* WholeInv: a process that has written a file still finds it.             *)
(***************************************************************************)
EXTENDS Proposals, SequenceTheorems, TLAPS

ForgeSpec == ProposalsInit /\ [][ProposalsNext]_proposalsVars

AnyRow == [kind : Kinds, name : Names \cup {""}, text : Nat,
           status : Statuses, passed : BOOLEAN]
UsageSet == [Names -> [stale : BOOLEAN, tally : Tallies, draft : Nat]]
Owning == {"proposed", "validated"}
Holding == Owning \cup {"promoting", "copied"}
WithRow == Holding \cup {"patched", "written"}
WorkSet == [at : {"idle", "drafted", "revising"} \cup WithRow, row : Nat,
            name : Names \cup {""}, text : Nat, auto : BOOLEAN,
            cluster : Evidence \cup {<< >>}, todo : SUBSET Names,
            tallies : [Names -> Tallies] \cup {<< >>}, new : Seq(AnyRow)]

\* The texts a directory has had, as a function of the drafts.
Named(ds, n) == {ds[n][k] : k \in 1..Len(ds[n])}
Cleared == {"validated", "approved"}

\* What holds of a row, given the drafts, the texts that passed, and the
\* number of texts.
RowFact(r, ds, ok, top) ==
    /\ r.kind # "tuning" => r.name \in Names
    /\ r.kind = "skill_draft" =>
        /\ r.text \in Named(ds, r.name)
        /\ r.passed => r.text \in ok
        /\ r.status \in Cleared => r.passed
    /\ r.kind = "skill_revision" =>
        r.text \in 1..top /\ \A n \in Names : r.text \notin Named(ds, n)

\* What holds of a process at work.
WorkFact(w, rs, ds, ok, top) ==
    /\ w.at = "drafted" => w.name \in Names /\ w.text \in Named(ds, w.name)
    /\ w.at \in WithRow => w.row \in 1..Len(rs)
    /\ w.at \in Holding => rs[w.row].kind = "skill_draft"
    /\ w.at = "proposed" => rs[w.row].text = w.text /\ rs[w.row].status \notin Cleared
    /\ \A k \in 1..Len(w.new) : RowFact(w.new[k], ds, ok, top)

Gate(n, ls, ds, ok) ==
    \A t \in ls[n] \cap Named(ds, n) : t \in ok \/ \E s \in ok \cap Named(ds, n) : s < t

ForgeTypes ==
    /\ rows \in Seq(AnyRow)
    /\ texts \in Nat /\ texts <= MaxTexts
    /\ drafts \in [Names -> Seq(Nat)]
    /\ live \in [Names -> SUBSET ((1..texts) \cup {Host})]
    /\ usage \in UsageSet
    /\ work \in [Procs -> WorkSet]

\* The last text of a directory is its latest.
DraftsGrow == \A n \in Names : \A t \in Named(drafts, n) :
    t \in 1..texts /\ t <= Last(drafts[n])
RowFacts == \A i \in 1..Len(rows) : RowFact(rows[i], drafts, passed, texts)
WorkFacts == \A p \in Procs : WorkFact(work[p], rows, drafts, passed, texts)
\* Two processes that validate have made different rows.
Distinct == \A p, q \in Procs :
    p # q /\ work[p].at \in Owning /\ work[q].at \in Owning => work[p].row # work[q].row
Gates == \A n \in Names : Gate(n, live, drafts, passed)

ForgeInv == ForgeTypes /\ DraftsGrow /\ RowFacts /\ WorkFacts /\ Distinct /\ Gates

-----------------------------------------------------------------------------
(* Facts about values.                                                     *)

LEMMA IdleFact ==
    ASSUME NEW rs, NEW ds, NEW ok, NEW top
    PROVE  /\ Idle \in WorkSet /\ Idle.at = "idle" /\ Idle.new = << >>
           /\ WorkFact(Idle, rs, ds, ok, top)
<1>1. << >> \in Seq(AnyRow) /\ Len(<< >>) = 0
    BY EmptySeq
<1>2. Idle \in WorkSet
    BY <1>1 DEF Idle, WorkSet
<1>3. Idle.at = "idle" /\ Idle.new = << >>
    BY DEF Idle
<1> QED
    BY <1>1, <1>2, <1>3 DEF WorkFact, WithRow, Holding, Owning

\* Later texts, and more that passed, leave a row's fact alone.
LEMMA RowStable ==
    ASSUME NEW r, NEW ds, NEW ok, NEW top \in Nat, NEW ds2, NEW ok2, NEW top2 \in Nat,
           RowFact(r, ds, ok, top), ok \subseteq ok2, top <= top2,
           \A n \in Names : /\ Named(ds, n) \subseteq Named(ds2, n)
                            /\ Named(ds2, n) \subseteq Named(ds, n) \cup {top + 1}
    PROVE  RowFact(r, ds2, ok2, top2)
<1>1. CASE r.kind = "skill_revision"
  <2>1. r.text \in 1..top /\ r.text # top + 1 /\ r.text \in 1..top2
      BY <1>1 DEF RowFact
  <2>2. \A n \in Names : r.text \notin Named(ds2, n)
      BY <1>1, <2>1 DEF RowFact
  <2> QED
      BY <1>1, <2>1, <2>2 DEF RowFact
<1>2. CASE r.kind # "skill_revision"
    BY <1>2 DEF RowFact
<1> QED
    BY <1>1, <1>2

\* A process's fact survives what others do to the rows.
LEMMA WorkStable ==
    ASSUME NEW w, NEW rs, NEW ds, NEW ok, NEW top \in Nat,
           NEW rs2, NEW ds2, NEW ok2, NEW top2 \in Nat,
           WorkFact(w, rs, ds, ok, top), ok \subseteq ok2, top <= top2,
           \A n \in Names : /\ Named(ds, n) \subseteq Named(ds2, n)
                            /\ Named(ds2, n) \subseteq Named(ds, n) \cup {top + 1},
           1..Len(rs) \subseteq 1..Len(rs2),
           \A i \in 1..Len(rs) : /\ rs2[i].kind = rs[i].kind
                                 /\ rs[i].kind = "skill_draft" => rs2[i].text = rs[i].text,
           w.at = "proposed" /\ rs[w.row].status \notin Cleared
                => rs2[w.row].status \notin Cleared
    PROVE  WorkFact(w, rs2, ds2, ok2, top2)
<1>1. \A k \in 1..Len(w.new) : RowFact(w.new[k], ds2, ok2, top2)
    BY RowStable DEF WorkFact
<1>2. w.at = "drafted" => w.name \in Names /\ w.text \in Named(ds2, w.name)
    BY DEF WorkFact
<1>3. w.at \in WithRow => w.row \in 1..Len(rs) /\ w.row \in 1..Len(rs2)
    BY DEF WorkFact
<1>4. w.at \in Holding => w.at \in WithRow /\ rs2[w.row].kind = "skill_draft"
                          /\ rs2[w.row].text = rs[w.row].text
    BY <1>3 DEF WorkFact, WithRow
<1>5. w.at = "proposed" => w.at \in Holding
    BY DEF Holding, Owning
<1>6. w.at = "proposed" => rs2[w.row].text = w.text /\ rs2[w.row].status \notin Cleared
    BY <1>4, <1>5 DEF WorkFact
<1> QED
    BY <1>1, <1>2, <1>3, <1>4, <1>6 DEF WorkFact

\* The rows of a table may gain others, and a draft its verdict and status.
RowsFollow(rs, rs2) ==
    /\ 1..Len(rs) \subseteq 1..Len(rs2)
    /\ \A i \in 1..Len(rs) : /\ rs2[i].kind = rs[i].kind
                             /\ rs[i].kind = "skill_draft" => rs2[i].text = rs[i].text

LEMMA WorkStays ==
    ASSUME NEW w, NEW rs, NEW ds, NEW ok, NEW top \in Nat,
           NEW rs2, NEW ok2, NEW top2 \in Nat,
           WorkFact(w, rs, ds, ok, top), ok \subseteq ok2, top <= top2,
           RowsFollow(rs, rs2),
           w.at = "proposed" /\ rs[w.row].status \notin Cleared
                => rs2[w.row].status \notin Cleared
    PROVE  WorkFact(w, rs2, ds, ok2, top2)
<1>1. \A n \in Names : /\ Named(ds, n) \subseteq Named(ds, n)
                       /\ Named(ds, n) \subseteq Named(ds, n) \cup {top + 1}
    OBVIOUS
<1>2. 1..Len(rs) \subseteq 1..Len(rs2)
    BY DEF RowsFollow
<1>3. \A i \in 1..Len(rs) : /\ rs2[i].kind = rs[i].kind
                            /\ rs[i].kind = "skill_draft" => rs2[i].text = rs[i].text
    BY DEF RowsFollow
<1> QED
    BY <1>1, <1>2, <1>3, WorkStable

\* A change of one field of one row.
LEMMA RowChanged ==
    ASSUME NEW rs \in Seq(AnyRow), NEW i \in 1..Len(rs), NEW r \in AnyRow,
           NEW rs2, rs2 = [rs EXCEPT ![i] = r]
    PROVE  /\ rs2 \in Seq(AnyRow) /\ Len(rs2) = Len(rs) /\ rs2[i] = r
           /\ \A j \in 1..Len(rs) : j # i => rs2[j] = rs[j]
<1>1. DOMAIN rs = 1..Len(rs)
    BY LenProperties
<1> QED
    BY <1>1, ExceptSeq

-----------------------------------------------------------------------------
(* The shape of nearly every step: one process moves, the drafts stay.     *)

\* Texts are only ever added, and passed texts.
TextsGrow ==
    /\ drafts' = drafts /\ passed \subseteq passed'
    /\ texts' \in Nat /\ texts <= texts' /\ texts' <= MaxTexts

FilesFit ==
    /\ usage' \in UsageSet
    /\ live' \in [Names -> SUBSET ((1..texts') \cup {Host})]
    /\ \A n \in Names : Gate(n, live', drafts, passed')

\* What the others at work know of their rows stays true.
RowsKept(p) ==
    /\ rows' \in Seq(AnyRow) /\ Len(rows) <= Len(rows')
    /\ \A i \in 1..Len(rows) : /\ rows'[i].kind = rows[i].kind
                               /\ rows[i].kind = "skill_draft" => rows'[i].text = rows[i].text
    /\ \A q \in Procs \ {p} : work[q].at = "proposed" /\ rows[work[q].row].status \notin Cleared
            => rows'[work[q].row].status \notin Cleared
RowsFit == \A i \in 1..Len(rows') : RowFact(rows'[i], drafts, passed', texts')

WorkFits(p, w) ==
    /\ w \in WorkSet /\ work' = [work EXCEPT ![p] = w]
    /\ WorkFact(w, rows', drafts, passed', texts')
    /\ w.at \in Owning => \A q \in Procs \ {p} : work[q].at \in Owning => work[q].row # w.row

LEMMA Step ==
    ASSUME ForgeInv, NEW p \in Procs, NEW w,
           TextsGrow, FilesFit, RowsKept(p), RowsFit, WorkFits(p, w)
    PROVE  ForgeInv'
<1>1. ForgeTypes /\ DraftsGrow /\ WorkFacts /\ Distinct
    BY DEF ForgeInv
<1>2. w \in WorkSet /\ work'[p] = w /\ \A q \in Procs \ {p} : work'[q] = work[q]
    BY <1>1 DEF ForgeTypes, WorkFits
<1>3. work' \in [Procs -> WorkSet]
    BY <1>1 DEF ForgeTypes, WorkFits
<1>4. ForgeTypes'
    BY <1>1, <1>3 DEF ForgeTypes, TextsGrow, FilesFit, RowsKept
<1>5. DraftsGrow'
    BY <1>1 DEF DraftsGrow, ForgeTypes, TextsGrow
<1>6. Len(rows) \in Nat /\ Len(rows') \in Nat /\ texts \in Nat
    BY <1>1, LenProperties DEF ForgeTypes, RowsKept
<1>7. 1..Len(rows) \subseteq 1..Len(rows')
    BY <1>6 DEF RowsKept
<1>8. \A q \in Procs \ {p} : WorkFact(work'[q], rows', drafts', passed', texts')
  <2> TAKE q \in Procs \ {p}
  <2>1. WorkFact(work[q], rows, drafts, passed, texts)
      BY <1>1 DEF WorkFacts
  <2>2. RowsFollow(rows, rows')
      BY <1>7 DEF RowsKept, RowsFollow
  <2>3. work[q].at = "proposed" /\ rows[work[q].row].status \notin Cleared
            => rows'[work[q].row].status \notin Cleared
      BY DEF RowsKept
  <2>4. passed \subseteq passed' /\ texts' \in Nat /\ texts <= texts'
      BY DEF TextsGrow
  <2>5. WorkFact(work[q], rows', drafts, passed', texts')
      BY <2>1, <2>2, <2>3, <2>4, <1>6, WorkStays
  <2> QED
      BY <2>5, <1>2 DEF TextsGrow
<1>9. WorkFacts'
    BY <1>2, <1>8 DEF WorkFacts, WorkFits, TextsGrow
<1>10. Distinct'
    BY <1>1, <1>2 DEF Distinct, WorkFits
<1>11. RowFacts' /\ Gates'
    BY DEF RowFacts, Gates, TextsGrow, FilesFit, RowsFit
<1> QED
    BY <1>4, <1>5, <1>9, <1>10, <1>11 DEF ForgeInv

LEMMA TextsStay ==
    ASSUME ForgeInv, UNCHANGED <<texts, drafts>>, passed \subseteq passed' PROVE TextsGrow
    BY DEF TextsGrow, ForgeInv, ForgeTypes

LEMMA RowsStay ==
    ASSUME ForgeInv, NEW p, UNCHANGED rows, TextsGrow PROVE RowsKept(p) /\ RowsFit
<1>1. rows \in Seq(AnyRow) /\ Len(rows) \in Nat /\ RowFacts /\ texts \in Nat
    BY LenProperties DEF ForgeInv, ForgeTypes
<1>2. rows' = rows /\ drafts' = drafts /\ passed \subseteq passed' /\ texts' \in Nat
      /\ texts <= texts'
    BY DEF TextsGrow
<1>3. RowsKept(p)
    BY <1>1, <1>2 DEF RowsKept
<1>4. \A n \in Names : /\ Named(drafts, n) \subseteq Named(drafts, n)
                       /\ Named(drafts, n) \subseteq Named(drafts, n) \cup {texts + 1}
    OBVIOUS
<1>5. \A i \in 1..Len(rows) : RowFact(rows[i], drafts, passed', texts')
  <2> TAKE i \in 1..Len(rows)
  <2>1. RowFact(rows[i], drafts, passed, texts)
      BY <1>1 DEF RowFacts
  <2> QED
      BY <2>1, <1>1, <1>2, <1>4, RowStable
<1> QED
    BY <1>2, <1>3, <1>5 DEF RowsFit

LEMMA FilesStay ==
    ASSUME ForgeInv, UNCHANGED live, usage' \in UsageSet, TextsGrow PROVE FilesFit
<1>1. texts \in Nat /\ live \in [Names -> SUBSET ((1..texts) \cup {Host})] /\ Gates
    BY DEF ForgeInv, ForgeTypes
<1>2. live' = live /\ passed \subseteq passed' /\ texts' \in Nat /\ texts <= texts'
    BY DEF TextsGrow
<1>3. (1..texts) \cup {Host} \subseteq (1..texts') \cup {Host}
    BY <1>1, <1>2
<1>4. live' \in [Names -> SUBSET ((1..texts') \cup {Host})]
    BY <1>1, <1>2, <1>3
<1>5. \A n \in Names : Gate(n, live', drafts, passed')
    BY <1>1, <1>2 DEF Gates, Gate
<1> QED
    BY <1>4, <1>5 DEF FilesFit

\* A step of p alone: rows, texts, drafts and live skills stay.
LEMMA Moves ==
    ASSUME ForgeInv, NEW p \in Procs, NEW w \in WorkSet,
           work' = [work EXCEPT ![p] = w], UNCHANGED <<rows, texts, drafts, live, passed>>,
           usage' \in UsageSet, WorkFact(w, rows, drafts, passed, texts),
           w.at \in Owning => work[p].at \in Owning /\ work[p].row = w.row
    PROVE  ForgeInv'
<1>1. UNCHANGED <<texts, drafts>> /\ passed \subseteq passed' /\ UNCHANGED rows /\ UNCHANGED live
    OBVIOUS
<1>2. TextsGrow
    BY <1>1, TextsStay
<1>3. RowsKept(p) /\ RowsFit /\ FilesFit
    BY <1>1, <1>2, RowsStay, FilesStay
<1>4. w.at \in Owning => \A q \in Procs \ {p} : work[q].at \in Owning => work[q].row # w.row
    BY DEF ForgeInv, Distinct
<1>5. rows' = rows /\ texts' = texts /\ passed' = passed
    OBVIOUS
<1>6. WorkFits(p, w)
    BY <1>4, <1>5 DEF WorkFits
<1> QED
    BY <1>2, <1>3, <1>6, Step

\* A step of p that changes the rows as well.
LEMMA Records ==
    ASSUME ForgeInv, NEW p \in Procs, NEW w \in WorkSet,
           work' = [work EXCEPT ![p] = w], UNCHANGED <<texts, drafts, live, usage, passed>>,
           rows' \in Seq(AnyRow), Len(rows) <= Len(rows'),
           \A i \in 1..Len(rows) : /\ rows'[i].kind = rows[i].kind
                                   /\ rows[i].kind = "skill_draft" => rows'[i].text = rows[i].text,
           \A q \in Procs \ {p} : work[q].at = "proposed" /\ rows[work[q].row].status \notin Cleared
                => rows'[work[q].row].status \notin Cleared,
           \A i \in 1..Len(rows') : RowFact(rows'[i], drafts, passed, texts),
           WorkFact(w, rows', drafts, passed, texts),
           w.at \in Owning => \A q \in Procs \ {p} : work[q].at \in Owning => work[q].row # w.row
    PROVE  ForgeInv'
<1>1. UNCHANGED <<texts, drafts>> /\ passed \subseteq passed' /\ UNCHANGED live
      /\ usage' \in UsageSet
    BY DEF ForgeInv, ForgeTypes
<1>2. TextsGrow
    BY <1>1, TextsStay
<1>3. FilesFit
    BY <1>1, <1>2, FilesStay
<1>4. texts' = texts /\ passed' = passed
    OBVIOUS
<1>5. RowsKept(p)
    BY DEF RowsKept
<1>6. RowsFit
    BY <1>4 DEF RowsFit
<1>7. WorkFits(p, w)
    BY <1>4 DEF WorkFits
<1> QED
    BY <1>2, <1>3, <1>5, <1>6, <1>7, Step

-----------------------------------------------------------------------------
(* forge_once.                                                             *)

LEMMA InitForge == ProposalsInit => ForgeInv
<1> SUFFICES ASSUME ProposalsInit PROVE ForgeInv
    OBVIOUS
<1>1. /\ << >> \in Seq(AnyRow) /\ << >> \in Seq(Nat) /\ Len(<< >>) = 0
    BY EmptySeq
<1>2. /\ rows = << >> /\ texts = 0 /\ drafts = [n \in Names |-> << >>]
      /\ live = [n \in Names |-> {}] /\ work = [p \in Procs |-> Idle]
      /\ usage = [n \in Names |-> [stale |-> FALSE, tally |-> NoTally, draft |-> 0]]
    BY DEF ProposalsInit
<1>3. usage \in UsageSet
    BY <1>2, ProposalsAssumption DEF UsageSet
<1>4. work \in [Procs -> WorkSet] /\ WorkFacts
    BY <1>2, IdleFact DEF WorkFacts
<1>5. ForgeTypes
    BY <1>1, <1>2, <1>3, <1>4, ProposalsAssumption DEF ForgeTypes
<1>6. \A n \in Names : Named(drafts, n) = {}
    BY <1>1, <1>2 DEF Named
<1>7. DraftsGrow /\ RowFacts /\ Gates
    BY <1>1, <1>2, <1>6 DEF DraftsGrow, RowFacts, Gates, Gate
<1>8. Distinct
    BY <1>2, IdleFact DEF Distinct, Owning
<1> QED
    BY <1>4, <1>5, <1>7, <1>8 DEF ForgeInv

\* A new text has no row yet and is live nowhere.
LEMMA DraftKeeps == ASSUME ForgeInv, NEW p \in Procs, Draft(p) PROVE ForgeInv'
<1>1. ForgeTypes /\ DraftsGrow /\ RowFacts /\ WorkFacts /\ Distinct /\ Gates
    BY DEF ForgeInv
<1>2. PICK n \in Names, e \in Clusters, auto \in BOOLEAN :
          /\ drafts' = [drafts EXCEPT ![n] = Append(@, texts + 1)]
          /\ Becomes(p, [Idle EXCEPT !.at = "drafted", !.name = n, !.text = texts + 1,
                             !.auto = auto, !.cluster = e])
    BY DEF Draft
<1>3. /\ texts' = texts + 1 /\ texts < MaxTexts /\ UNCHANGED <<rows, live, usage, passed>>
    BY DEF Draft, history
<1> DEFINE top == texts + 1
           w == [Idle EXCEPT !.at = "drafted", !.name = n, !.text = top,
                     !.auto = auto, !.cluster = e]
<1>4. texts \in Nat /\ top \in Nat /\ top <= MaxTexts /\ MaxTexts \in Nat /\ top \in Texts
    BY <1>1, <1>3, ProposalsAssumption DEF ForgeTypes, Texts
<1>5. /\ drafts[n] \in Seq(Nat) /\ Len(drafts[n]) \in Nat
      /\ drafts'[n] = Append(drafts[n], top)
      /\ \A m \in Names \ {n} : drafts'[m] = drafts[m]
    BY <1>1, <1>2, LenProperties DEF ForgeTypes
<1>6. /\ drafts'[n] \in Seq(Nat) /\ Len(drafts'[n]) = Len(drafts[n]) + 1
      /\ \A k \in 1..Len(drafts[n]) : drafts'[n][k] = drafts[n][k]
      /\ drafts'[n][Len(drafts[n]) + 1] = top
    BY <1>4, <1>5, AppendProperties
<1>7. Named(drafts', n) = Named(drafts, n) \cup {top}
  <2>1. 1..(Len(drafts[n]) + 1) = 1..Len(drafts[n]) \cup {Len(drafts[n]) + 1}
      BY <1>5
  <2> QED
      BY <1>6, <2>1 DEF Named
<1>8. Last(drafts'[n]) = top
    BY <1>6 DEF Last
<1>9. \A m \in Names \ {n} : Named(drafts', m) = Named(drafts, m)
    BY <1>5 DEF Named
<1>10. \A m \in Names : /\ Named(drafts, m) \subseteq Named(drafts', m)
                        /\ Named(drafts', m) \subseteq Named(drafts, m) \cup {texts + 1}
    BY <1>7, <1>9
<1>11. Idle \in WorkSet /\ Idle.new = << >>
    BY IdleFact DEF Idle
<1>12. w \in WorkSet /\ w.at = "drafted" /\ w.name = n /\ w.text = top /\ w.new = << >>
    BY <1>4, <1>11 DEF WorkSet, Clusters
<1> HIDE DEF w
<1>13. work' = [work EXCEPT ![p] = w]
    BY <1>2 DEF w, Becomes
<1>14. work'[p] = w /\ \A q \in Procs \ {p} : work'[q] = work[q]
    BY <1>1, <1>13 DEF ForgeTypes
<1>15. ForgeTypes'
  <2>1. work' \in [Procs -> WorkSet]
      BY <1>1, <1>12, <1>13 DEF ForgeTypes
  <2>2. drafts' \in [Names -> Seq(Nat)]
      BY <1>1, <1>2, <1>5, <1>6 DEF ForgeTypes
  <2>3. live' \in [Names -> SUBSET ((1..texts') \cup {Host})]
    <3>1. 1..texts \subseteq 1..texts'
        BY <1>3, <1>4
    <3>2. live' = live /\ live \in [Names -> SUBSET ((1..texts) \cup {Host})]
        BY <1>1, <1>3 DEF ForgeTypes
    <3> QED
        BY <3>1, <3>2
  <2> QED
      BY <1>1, <1>3, <1>4, <2>1, <2>2, <2>3 DEF ForgeTypes
<1>16. DraftsGrow'
  <2> SUFFICES ASSUME NEW m \in Names, NEW t \in Named(drafts', m)
               PROVE  t \in 1..texts' /\ t <= Last(drafts'[m])
      BY DEF DraftsGrow
  <2>1. CASE m = n
    <3>1. t = top \/ t \in 1..texts
        BY <1>1, <1>7, <2>1 DEF DraftsGrow
    <3> QED
        BY <3>1, <2>1, <1>3, <1>4, <1>8
  <2>2. CASE m # n
    <3>1. t \in 1..texts /\ t <= Last(drafts[m]) /\ drafts'[m] = drafts[m]
        BY <1>1, <1>5, <1>9, <2>2 DEF DraftsGrow
    <3> QED
        BY <3>1, <1>3, <1>4
  <2> QED
      BY <2>1, <2>2
<1>17. RowFacts'
  <2>1. rows' = rows /\ passed' = passed /\ texts' = top /\ texts <= top
      BY <1>3, <1>4
  <2>2. \A i \in 1..Len(rows) : RowFact(rows[i], drafts', passed, top)
    <3> TAKE i \in 1..Len(rows)
    <3>1. RowFact(rows[i], drafts, passed, texts)
        BY <1>1 DEF RowFacts
    <3> QED
        BY <3>1, <1>4, <1>10, <2>1, RowStable
  <2> QED
      BY <2>1, <2>2 DEF RowFacts
<1>18. WorkFact(w, rows', drafts', passed', texts')
  <2>1. w.text \in Named(drafts', w.name)
      BY <1>7, <1>12
  <2>2. Len(w.new) = 0
      BY <1>12, EmptySeq
  <2> QED
      BY <1>12, <2>1, <2>2 DEF WorkFact, WithRow, Holding, Owning
<1>19. \A q \in Procs \ {p} : WorkFact(work'[q], rows', drafts', passed', texts')
  <2> TAKE q \in Procs \ {p}
  <2>1. WorkFact(work[q], rows, drafts, passed, texts)
      BY <1>1 DEF WorkFacts
  <2>2. WorkFact(work[q], rows, drafts', passed, top)
      BY <2>1, <1>4, <1>10, WorkStable
  <2> QED
      BY <2>2, <1>3, <1>14
<1>20. WorkFacts' /\ Distinct'
    BY <1>1, <1>12, <1>14, <1>18, <1>19 DEF WorkFacts, Distinct, Owning
<1>21. Gates'
  <2> SUFFICES ASSUME NEW m \in Names, NEW t \in live[m] \cap Named(drafts', m)
               PROVE  t \in passed \/ \E s \in passed \cap Named(drafts', m) : s < t
      BY <1>3 DEF Gates, Gate
  <2>1. t # top
    <3>1. t \in 1..texts \/ t = Host
        BY <1>1 DEF ForgeTypes
    <3> QED
        BY <3>1, <1>4, ProposalsAssumption
  <2>2. t \in Named(drafts, m)
      BY <1>10, <2>1
  <2> QED
      BY <1>1, <1>10, <2>2 DEF Gates, Gate
<1> QED
    BY <1>15, <1>16, <1>17, <1>20, <1>21 DEF ForgeInv

LEMMA ProposeKeeps == ASSUME ForgeInv, NEW p \in Procs, Propose(p) PROVE ForgeInv'
<1> DEFINE r == Row("skill_draft", work[p].name, work[p].text, "pending")
           w == [work[p] EXCEPT !.at = "proposed", !.row = Len(rows) + 1]
<1>1. /\ work[p].at = "drafted" /\ rows' = Append(rows, r)
      /\ work' = [work EXCEPT ![p] = w]
      /\ UNCHANGED <<texts, drafts, live, usage, passed>>
    BY DEF Propose, Becomes, disk, history
<1>2. ForgeTypes /\ RowFacts /\ WorkFacts
    BY DEF ForgeInv
<1>3. /\ work[p] \in WorkSet /\ rows \in Seq(AnyRow) /\ Len(rows) \in Nat
    BY <1>2, LenProperties DEF ForgeTypes
<1>4. WorkFact(work[p], rows, drafts, passed, texts)
    BY <1>2 DEF WorkFacts
<1>5. /\ r \in AnyRow /\ r.kind = "skill_draft" /\ r.status = "pending"
      /\ r.name = work[p].name /\ r.text = work[p].text /\ r.passed = FALSE
    BY <1>3 DEF Row, AnyRow, WorkSet, Kinds, Statuses, OpenStatuses
<1>6. /\ w \in WorkSet /\ w.at = "proposed" /\ w.row = Len(rows) + 1
      /\ w.text = work[p].text /\ w.new = work[p].new
  <2>1. Len(rows) + 1 \in Nat
      BY <1>3
  <2>2. "proposed" \in {"idle", "drafted", "revising"} \cup WithRow
      BY DEF WithRow, Holding, Owning
  <2>3. w \in WorkSet
      BY <1>3, <2>1, <2>2, Zenon DEF WorkSet
  <2>4. /\ w.at = "proposed" /\ w.row = Len(rows) + 1
        /\ w.text = work[p].text /\ w.new = work[p].new
      BY <1>3 DEF WorkSet
  <2> QED
      BY <2>3, <2>4
<1>7. RowFact(r, drafts, passed, texts)
    BY <1>1, <1>4, <1>5 DEF RowFact, WorkFact, Cleared
<1> HIDE DEF r, w
<1>8. /\ rows' \in Seq(AnyRow) /\ Len(rows') = Len(rows) + 1
      /\ \A i \in 1..Len(rows) : rows'[i] = rows[i]
      /\ rows'[Len(rows) + 1] = r
    BY <1>1, <1>3, <1>5, AppendProperties
<1>9. \A i \in 1..Len(rows') : i \in 1..Len(rows) \/ i = Len(rows) + 1
    BY <1>3, <1>8
<1>10. \A i \in 1..Len(rows') : RowFact(rows'[i], drafts, passed, texts)
    BY <1>2, <1>7, <1>8, <1>9 DEF RowFacts
<1>11. WorkFact(w, rows', drafts, passed, texts)
  <2>1. w.row \in 1..Len(rows') /\ rows'[w.row] = r
      BY <1>3, <1>6, <1>8
  <2>2. r.text = w.text
      BY <1>5, <1>6
  <2>3. \A k \in 1..Len(w.new) : RowFact(w.new[k], drafts, passed, texts)
      BY <1>4, <1>6 DEF WorkFact
  <2> QED
      BY <2>1, <2>2, <2>3, <1>5, <1>6 DEF WorkFact, Cleared
<1>12. \A q \in Procs : work[q].at \in WithRow => work[q].row \in 1..Len(rows)
    BY <1>2 DEF WorkFacts, WorkFact
<1>13. \A q \in Procs : work[q].at \in Owning => work[q].row # w.row
    BY <1>3, <1>6, <1>12 DEF WithRow, Holding
<1>14. \A q \in Procs \ {p} : work[q].at = "proposed" /\ rows[work[q].row].status \notin Cleared
           => rows'[work[q].row].status \notin Cleared
    BY <1>8, <1>12 DEF WithRow, Holding, Owning
<1>15. Len(rows) <= Len(rows')
    BY <1>3, <1>8
<1>16. \A i \in 1..Len(rows) : /\ rows'[i].kind = rows[i].kind
                               /\ rows[i].kind = "skill_draft" => rows'[i].text = rows[i].text
    BY <1>8
<1> QED
    BY <1>1, <1>6, <1>8, <1>10, <1>11, <1>13, <1>14, <1>15, <1>16, Records

-----------------------------------------------------------------------------
(* Steps that change one row at most.                                      *)

\* A process goes on with its row, or gives it up.
LEMMA LaterStep ==
    ASSUME NEW v, NEW w, NEW rs, NEW ds, NEW ok, NEW top, WorkFact(v, rs, ds, ok, top),
           w.at \notin {"drafted", "proposed"},
           w.at \in Holding => v.at \in Holding /\ w.row = v.row,
           w.at \in WithRow => w.row \in 1..Len(rs),
           w.new = v.new \/ w.new = << >>
    PROVE  WorkFact(w, rs, ds, ok, top)
<1>1. Len(<< >>) = 0
    BY EmptySeq
<1>2. \A k \in 1..Len(w.new) : RowFact(w.new[k], ds, ok, top)
    BY <1>1 DEF WorkFact
<1> QED
    BY <1>2 DEF WorkFact

\* Row i becomes r, and stays what others take it for.
RowGoes(p, i, r) ==
    /\ i \in 1..Len(rows) /\ r \in AnyRow /\ rows' = [rows EXCEPT ![i] = r]
    /\ r.kind = rows[i].kind /\ (r.kind = "skill_draft" => r.text = rows[i].text)
    /\ RowFact(r, drafts, passed', texts)
    /\ \A q \in Procs \ {p} : work[q].at = "proposed" /\ work[q].row = i
            /\ rows[i].status \notin Cleared => r.status \notin Cleared

\* p goes on with its row as w, or gives it up.
Later(p, w) ==
    /\ w \in WorkSet /\ work' = [work EXCEPT ![p] = w]
    /\ w.at \notin {"drafted", "proposed"}
    /\ w.at \in Holding => work[p].at \in Holding /\ w.row = work[p].row
    /\ w.at \in WithRow => w.row \in 1..Len(rows)
    /\ w.new = work[p].new \/ w.new = << >>
    /\ w.at \in Owning => work[p].at \in Owning

LEMMA OneRow ==
    ASSUME ForgeInv, NEW p \in Procs, NEW w, NEW i, NEW r,
           UNCHANGED <<texts, drafts, live, usage>>, passed \subseteq passed',
           RowGoes(p, i, r), Later(p, w)
    PROVE  ForgeInv'
<1>1. ForgeTypes /\ RowFacts /\ WorkFacts /\ Distinct
    BY DEF ForgeInv
<1>2. /\ rows \in Seq(AnyRow) /\ Len(rows) \in Nat /\ texts \in Nat
      /\ texts' = texts /\ drafts' = drafts /\ usage' \in UsageSet
      /\ i \in 1..Len(rows) /\ r \in AnyRow /\ rows' = [rows EXCEPT ![i] = r]
    BY <1>1, LenProperties DEF ForgeTypes, RowGoes
<1>3. /\ rows' \in Seq(AnyRow) /\ Len(rows') = Len(rows) /\ rows'[i] = r
      /\ \A j \in 1..Len(rows) : j # i => rows'[j] = rows[j]
    BY <1>2, RowChanged
<1>4. \A j \in 1..Len(rows) : /\ rows'[j].kind = rows[j].kind
                              /\ rows[j].kind = "skill_draft" => rows'[j].text = rows[j].text
    BY <1>3 DEF RowGoes
<1>5. \A n \in Names : /\ Named(drafts, n) \subseteq Named(drafts, n)
                       /\ Named(drafts, n) \subseteq Named(drafts, n) \cup {texts + 1}
    OBVIOUS
<1>6. TextsGrow /\ FilesFit
    BY <1>2, TextsStay, FilesStay
<1>7. RowsFit
  <2> SUFFICES ASSUME NEW j \in 1..Len(rows)
               PROVE  RowFact(rows'[j], drafts, passed', texts)
      BY <1>2, <1>3 DEF RowsFit
  <2>1. CASE j = i
      BY <2>1, <1>3 DEF RowGoes
  <2>2. CASE j # i
    <3>1. rows'[j] = rows[j] /\ RowFact(rows[j], drafts, passed, texts)
        BY <2>2, <1>1, <1>3 DEF RowFacts
    <3> QED
        BY <3>1, <1>2, <1>5, RowStable
  <2> QED
      BY <2>1, <2>2
<1>8. \A q \in Procs : work[q].at \in WithRow => work[q].row \in 1..Len(rows)
    BY <1>1 DEF WorkFacts, WorkFact
<1>9. \A q \in Procs \ {p} : work[q].at = "proposed" /\ rows[work[q].row].status \notin Cleared
           => rows'[work[q].row].status \notin Cleared
    BY <1>3, <1>8 DEF WithRow, Holding, Owning, RowGoes
<1>10. RowsKept(p)
    BY <1>2, <1>3, <1>4, <1>9 DEF RowsKept
<1>11. WorkFact(w, rows, drafts, passed, texts)
    BY <1>1, LaterStep DEF WorkFacts, Later
<1>12. 1..Len(rows) \subseteq 1..Len(rows')
    BY <1>3
<1>13. WorkFact(w, rows', drafts, passed', texts)
  <2>1. w.at # "proposed"
      BY DEF Later
  <2>2. RowsFollow(rows, rows')
      BY <1>4, <1>12 DEF RowsFollow
  <2>3. texts <= texts /\ texts \in Nat
      BY <1>2
  <2> QED
      BY <1>11, <2>1, <2>2, <2>3, WorkStays
<1>14. w.at \in Owning => w.at \in Holding
    BY DEF Holding
<1>15. w.at \in Owning => \A q \in Procs \ {p} : work[q].at \in Owning => work[q].row # w.row
    BY <1>1, <1>14 DEF Distinct, Later
<1>16. WorkFits(p, w)
    BY <1>2, <1>13, <1>15 DEF WorkFits, Later
<1> QED
    BY <1>6, <1>7, <1>10, <1>16, Step

\* What every process and the row it has in hand are.
LEMMA InHand ==
    ASSUME ForgeInv, NEW p \in Procs, work[p].at \in WithRow
    PROVE  /\ work[p] \in WorkSet /\ work[p].row \in 1..Len(rows)
           /\ rows[work[p].row] \in AnyRow
           /\ RowFact(rows[work[p].row], drafts, passed, texts)
           /\ WorkFact(work[p], rows, drafts, passed, texts)
           /\ work[p].at \in Holding => rows[work[p].row].kind = "skill_draft"
<1>1. ForgeTypes /\ RowFacts /\ WorkFacts
    BY DEF ForgeInv
<1>2. WorkFact(work[p], rows, drafts, passed, texts)
    BY <1>1 DEF WorkFacts
<1>3. work[p].row \in 1..Len(rows)
    BY <1>2 DEF WorkFact
<1>4. rows[work[p].row] \in AnyRow
    BY <1>1, <1>3, ElementOfSeq DEF ForgeTypes
<1> QED
    BY <1>1, <1>2, <1>3, <1>4 DEF ForgeTypes, RowFacts, WorkFact

\* The gates are recorded while no one can have cleared the row.
LEMMA ValidateKeeps == ASSUME ForgeInv, NEW p \in Procs, Validate(p) PROVE ForgeInv'
<1> DEFINE i == work[p].row
           w == [work[p] EXCEPT !.at = "validated", !.cluster = << >>]
<1>1. work[p].at = "proposed" /\ work' = [work EXCEPT ![p] = w]
      /\ UNCHANGED <<texts, drafts, live, usage>>
    BY DEF Validate, Becomes, disk
<1>2. PICK ok \in BOOLEAN : /\ rows' = [rows EXCEPT ![i].passed = ok]
                            /\ passed' = IF ok THEN passed \cup {work[p].text} ELSE passed
  <2>1. PICK replay \in BOOLEAN, probes \in BOOLEAN :
          LET ok == replay /\ Convincing(work[p].cluster) /\ probes IN
          /\ rows' = [rows EXCEPT ![work[p].row].passed = ok]
          /\ passed' = IF ok THEN passed \cup {work[p].text} ELSE passed
      BY DEF Validate
  <2>2. (replay /\ Convincing(work[p].cluster) /\ probes) \in BOOLEAN
      BY DEF Convincing
  <2> QED
      BY <2>1, <2>2
<1> DEFINE r == [rows[i] EXCEPT !.passed = ok]
<1>3. /\ work[p] \in WorkSet /\ i \in 1..Len(rows) /\ rows[i] \in AnyRow
      /\ RowFact(rows[i], drafts, passed, texts)
      /\ rows[i].kind = "skill_draft"
      /\ WorkFact(work[p], rows, drafts, passed, texts)
    BY <1>1, InHand DEF WithRow, Holding, Owning
<1>4. rows' = [rows EXCEPT ![i] = r]
    BY <1>2
<1>5. /\ r \in AnyRow /\ r.kind = rows[i].kind /\ r.text = rows[i].text
      /\ r.name = rows[i].name /\ r.status = rows[i].status /\ r.passed = ok
    BY <1>3 DEF AnyRow
<1>6. /\ w \in WorkSet /\ w.at = "validated" /\ w.row = i /\ w.new = work[p].new
    BY <1>3 DEF WorkSet, WithRow, Holding, Owning
<1>7. rows[i].text = work[p].text /\ rows[i].status \notin Cleared
    BY <1>1, <1>3 DEF WorkFact
<1> HIDE DEF i, r, w
<1>8. RowFact(r, drafts, passed', texts)
  <2>1. r.name \in Names /\ r.text \in Named(drafts, r.name)
      BY <1>3, <1>5 DEF RowFact
  <2>2. r.passed => r.text \in passed'
      BY <1>2, <1>5, <1>7
  <2> QED
      BY <2>1, <2>2, <1>3, <1>5, <1>7 DEF RowFact
<1>9. passed \subseteq passed'
    BY <1>2
<1>10. work[p].at \in Owning /\ work[p].at \in Holding /\ work[p].row = i
    BY <1>1 DEF Owning, Holding, i
<1>11. RowGoes(p, i, r)
    BY <1>3, <1>4, <1>5, <1>7, <1>8 DEF RowGoes
<1>12. Later(p, w)
    BY <1>1, <1>3, <1>6, <1>10 DEF Later
<1> QED
    BY <1>1, <1>9, <1>11, <1>12, OneRow

\* Only the process that made a row clears it.
LEMMA ConcludeKeeps == ASSUME ForgeInv, NEW p \in Procs, Conclude(p) PROVE ForgeInv'
<1> DEFINE i == work[p].row
           status == IF rows[i].passed THEN "validated" ELSE "pending"
           r == [rows[i] EXCEPT !.status = status]
           w == IF rows[i].passed /\ work[p].auto
                THEN [work[p] EXCEPT !.at = "promoting"] ELSE Idle
<1>1. /\ work[p].at = "validated" /\ rows' = [rows EXCEPT ![i] = r]
      /\ UNCHANGED <<texts, drafts, live, usage, passed>>
    BY DEF Conclude, disk, history
<1>2. work' = [work EXCEPT ![p] = w]
    BY DEF Conclude, Becomes
<1>3. /\ work[p] \in WorkSet /\ i \in 1..Len(rows) /\ rows[i] \in AnyRow
      /\ RowFact(rows[i], drafts, passed, texts)
      /\ rows[i].kind = "skill_draft"
    BY <1>1, InHand DEF WithRow, Holding, Owning
<1>4. /\ r \in AnyRow /\ r.kind = rows[i].kind /\ r.text = rows[i].text
      /\ r.name = rows[i].name /\ r.status = status /\ r.passed = rows[i].passed
    BY <1>3 DEF AnyRow, Statuses, OpenStatuses
<1>5. RowFact(r, drafts, passed', texts)
    BY <1>1, <1>3, <1>4 DEF RowFact, Cleared
<1>6. /\ w \in WorkSet
      /\ \/ w.at = "promoting" /\ w.row = i /\ w.new = work[p].new
         \/ w.at = "idle" /\ w.new = << >>
  <2>1. Idle \in WorkSet /\ Idle.at = "idle" /\ Idle.new = << >>
      BY IdleFact DEF Idle
  <2>2. LET x == [work[p] EXCEPT !.at = "promoting"]
        IN  x \in WorkSet /\ x.at = "promoting" /\ x.row = i /\ x.new = work[p].new
      BY <1>3 DEF WorkSet, WithRow, Holding
  <2> QED
      BY <2>1, <2>2
<1> HIDE DEF i, r, w
<1>7. work[p].at \in Owning /\ work[p].at \in Holding /\ work[p].row = i
    BY <1>1 DEF Owning, Holding, i
<1>8. \A q \in Procs \ {p} : ~(work[q].at = "proposed" /\ work[q].row = i)
    BY <1>7 DEF ForgeInv, Distinct, Owning
<1>9. w.at \notin {"drafted", "proposed"} /\ w.at \notin Owning
    BY <1>6 DEF Owning
<1>10. w.at \in Holding \/ w.at \in WithRow => w.row = i
    BY <1>6 DEF Holding, WithRow, Owning
<1>11. w.new = work[p].new \/ w.new = << >>
    BY <1>6
<1>12. passed \subseteq passed'
    BY <1>1
<1>13. RowGoes(p, i, r)
    BY <1>1, <1>3, <1>4, <1>5, <1>8 DEF RowGoes
<1>14. Later(p, w)
    BY <1>2, <1>3, <1>6, <1>7, <1>9, <1>10, <1>11 DEF Later
<1> QED
    BY <1>1, <1>12, <1>13, <1>14, OneRow

\* What is copied is the text that passed, or a later one of the directory.
LEMMA CopyKeeps == ASSUME ForgeInv, NEW p \in Procs, Copy(p) PROVE ForgeInv'
<1> DEFINE i == work[p].row
           n == rows[i].name
<1>1. work[p].at = "promoting" /\ UNCHANGED <<texts, drafts, usage, passed>>
    BY DEF Copy
<1>2. /\ work[p] \in WorkSet /\ i \in 1..Len(rows) /\ rows[i] \in AnyRow
      /\ RowFact(rows[i], drafts, passed, texts)
      /\ rows[i].kind = "skill_draft"
      /\ WorkFact(work[p], rows, drafts, passed, texts)
    BY <1>1, InHand DEF WithRow, Holding
<1>3. ForgeTypes /\ DraftsGrow /\ RowFacts /\ WorkFacts /\ Gates
    BY DEF ForgeInv
<1>4. /\ Idle \in WorkSet /\ Idle.at = "idle" /\ Idle.new = << >>
      /\ WorkFact(Idle, rows, drafts, passed, texts)
    BY IdleFact
<1>5. "idle" \notin WithRow /\ "idle" \notin Holding /\ "idle" \notin Owning
    BY DEF WithRow, Holding, Owning
<1>6. \/ Becomes(p, Idle) /\ UNCHANGED <<rows, live>>
      \/ /\ rows' = [rows EXCEPT ![i].status = "rejected"]
         /\ Becomes(p, Idle) /\ UNCHANGED live
      \/ /\ Promotable(i) /\ live' = [live EXCEPT ![n] = {Last(drafts[n])}]
         /\ Becomes(p, [work[p] EXCEPT !.at = "copied"]) /\ UNCHANGED rows
    BY DEF Copy
<1>7. CASE Becomes(p, Idle) /\ UNCHANGED <<rows, live>>
  <2>1. usage' \in UsageSet
      BY <1>1, <1>3 DEF ForgeTypes
  <2> QED
      BY <1>1, <1>4, <1>5, <1>7, <2>1, Moves DEF Becomes
<1>8. CASE /\ rows' = [rows EXCEPT ![i].status = "rejected"]
           /\ Becomes(p, Idle) /\ UNCHANGED live
  <2> DEFINE r == [rows[i] EXCEPT !.status = "rejected"]
  <2>1. rows' = [rows EXCEPT ![i] = r] /\ work' = [work EXCEPT ![p] = Idle]
      BY <1>8 DEF Becomes
  <2>2. /\ r \in AnyRow /\ r.kind = rows[i].kind /\ r.text = rows[i].text
        /\ r.name = rows[i].name /\ r.status = "rejected" /\ r.passed = rows[i].passed
      BY <1>2 DEF AnyRow, Statuses
  <2>3. RowFact(r, drafts, passed', texts) /\ r.status \notin Cleared
      BY <1>1, <1>2, <2>2 DEF RowFact, Cleared
  <2> HIDE DEF i, r
  <2>4. passed \subseteq passed' /\ live' = live
      BY <1>1, <1>8
  <2>5. RowGoes(p, i, r)
      BY <1>2, <2>1, <2>2, <2>3 DEF RowGoes
  <2>6. Later(p, Idle)
      BY <1>4, <1>5, <2>1 DEF Later
  <2> QED
      BY <1>1, <2>4, <2>5, <2>6, OneRow
<1>9. CASE /\ Promotable(i) /\ live' = [live EXCEPT ![n] = {Last(drafts[n])}]
           /\ Becomes(p, [work[p] EXCEPT !.at = "copied"]) /\ UNCHANGED rows
  <2> DEFINE w == [work[p] EXCEPT !.at = "copied"]
             t == Last(drafts[n])
             s == rows[i].text
  <2>1. /\ w \in WorkSet /\ w.at = "copied" /\ w.row = i /\ w.new = work[p].new
      BY <1>2 DEF WorkSet, WithRow, Holding
  <2>2. work' = [work EXCEPT ![p] = w]
      BY <1>9 DEF Becomes
  <2>3. n \in Names /\ s \in Named(drafts, n) /\ s \in passed
      BY <1>2, <1>9 DEF RowFact, Promotable, Cleared
  <2>4. s \in 1..texts /\ s <= t
      BY <1>3, <2>3 DEF DraftsGrow
  <2>5. t \in Named(drafts, n)
    <3>1. drafts[n] \in Seq(Nat) /\ Len(drafts[n]) \in Nat
        BY <1>3, <2>3, LenProperties DEF ForgeTypes
    <3>2. 1..Len(drafts[n]) # {}
        BY <2>3 DEF Named
    <3>3. Len(drafts[n]) \in 1..Len(drafts[n])
        BY <3>1, <3>2
    <3> QED
        BY <3>3 DEF Named, Last
  <2>6. t \in 1..texts
      BY <1>3, <2>3, <2>5 DEF DraftsGrow
  <2> HIDE DEF i, n, t, s, w
  <2>7. live' = [live EXCEPT ![n] = {t}]
      BY <1>9 DEF t
  <2>8. live' \in [Names -> SUBSET ((1..texts) \cup {Host})]
    <3>1. {t} \in SUBSET ((1..texts) \cup {Host})
        BY <2>6
    <3> QED
        BY <1>3, <2>7, <3>1 DEF ForgeTypes
  <2>9. live'[n] = {t} /\ \A m \in Names \ {n} : live'[m] = live[m]
      BY <1>3, <2>3, <2>7 DEF ForgeTypes
  <2>10. \A m \in Names : Gate(m, live', drafts, passed)
    <3> TAKE m \in Names
    <3>1. CASE m # n
        BY <3>1, <1>3, <2>9 DEF Gates, Gate
    <3>2. CASE m = n
      <4>1. t \in passed \/ \E x \in passed \cap Named(drafts, n) : x < t
        <5>1. CASE s = t
            BY <5>1, <2>3
        <5>2. CASE s # t
          <6>1. s < t
              BY <5>2, <2>4, <2>6
          <6> QED
              BY <6>1, <2>3
        <5> QED
            BY <5>1, <5>2
      <4> QED
          BY <4>1, <3>2, <2>9 DEF Gate
    <3> QED
        BY <3>1, <3>2
  <2>11. WorkFact(w, rows, drafts, passed, texts)
    <3>1. w.at \notin {"drafted", "proposed"} /\ work[p].at \in Holding /\ w.row = work[p].row
        BY <1>1, <2>1 DEF Holding, i
    <3> QED
        BY <3>1, <1>2, <2>1, LaterStep DEF i
  <2>12. /\ rows' = rows /\ texts' = texts /\ drafts' = drafts
         /\ passed' = passed /\ usage' \in UsageSet
      BY <1>1, <1>3, <1>9 DEF ForgeTypes
  <2>13. TextsGrow
      BY <2>12, TextsStay
  <2>14. RowsKept(p) /\ RowsFit
      BY <2>12, <2>13, RowsStay
  <2>15. FilesFit
      BY <2>8, <2>10, <2>12 DEF FilesFit
  <2>16. w.at \notin Owning
      BY <2>1 DEF Owning
  <2>17. WorkFits(p, w)
      BY <2>1, <2>2, <2>11, <2>12, <2>16 DEF WorkFits
  <2> QED
      BY <2>13, <2>14, <2>15, <2>17, Step
<1> QED
    BY <1>6, <1>7, <1>8, <1>9

LEMMA UsageChanged ==
    ASSUME usage \in UsageSet, NEW n,
           \/ \E d \in Nat : usage' = [usage EXCEPT ![n] =
                  [stale |-> FALSE, tally |-> NoTally, draft |-> d]]
           \/ usage' = [usage EXCEPT ![n].stale = TRUE]
           \/ \E t \in Tallies : usage' = [usage EXCEPT ![n].tally = t]
    PROVE  usage' \in UsageSet
<1> DEFINE Record == [stale : BOOLEAN, tally : Tallies, draft : Nat]
<1>1. \A m \in Names : usage[m] \in Record
    BY DEF UsageSet
<1>2. NoTally \in Tallies
    BY ProposalsAssumption
<1>3. CASE \E d \in Nat : usage' = [usage EXCEPT ![n] =
               [stale |-> FALSE, tally |-> NoTally, draft |-> d]]
  <2>1. PICK d \in Nat : usage' = [usage EXCEPT ![n] =
               [stale |-> FALSE, tally |-> NoTally, draft |-> d]]
      BY <1>3
  <2>2. [stale |-> FALSE, tally |-> NoTally, draft |-> d] \in Record
      BY <1>2
  <2> QED
      BY <2>1, <2>2 DEF UsageSet
<1>4. CASE usage' = [usage EXCEPT ![n].stale = TRUE]
  <2>1. n \in Names => [usage[n] EXCEPT !.stale = TRUE] \in Record
      BY <1>1
  <2> QED
      BY <1>4, <2>1 DEF UsageSet
<1>5. CASE \E t \in Tallies : usage' = [usage EXCEPT ![n].tally = t]
  <2>1. PICK t \in Tallies : usage' = [usage EXCEPT ![n].tally = t]
      BY <1>5
  <2>2. n \in Names => [usage[n] EXCEPT !.tally = t] \in Record
      BY <1>1
  <2> QED
      BY <2>1, <2>2 DEF UsageSet
<1> QED
    BY <1>3, <1>4, <1>5

\* The second file of a promotion or a revision.
LEMMA SecondFileKeeps ==
    ASSUME ForgeInv, NEW p \in Procs, Register(p) \/ Patched(p) PROVE ForgeInv'
<1> DEFINE w == [work[p] EXCEPT !.at = "written"]
           n == rows[work[p].row].name
<1>1. /\ work[p].at \in {"copied", "patched"} /\ work' = [work EXCEPT ![p] = w]
      /\ UNCHANGED <<rows, texts, drafts, live, passed>>
    BY DEF Register, Patched, Becomes
<1>2. work[p] \in WorkSet /\ work[p].row \in 1..Len(rows)
      /\ WorkFact(work[p], rows, drafts, passed, texts)
    BY <1>1, InHand DEF WithRow, Holding
<1>3. w \in WorkSet /\ w.at = "written" /\ w.row = work[p].row /\ w.new = work[p].new
    BY <1>2 DEF WorkSet, WithRow
<1>4. work[p].row \in Nat /\ NoTally \in Tallies /\ usage \in UsageSet
    BY <1>2, ProposalsAssumption DEF WorkSet, ForgeInv, ForgeTypes
<1>5. \/ usage' = [usage EXCEPT ![n] = [stale |-> FALSE, tally |-> NoTally,
                                        draft |-> work[p].row]]
      \/ usage' = [usage EXCEPT ![n].tally = NoTally]
    BY DEF Register, Patched, HealthWindow
<1> HIDE DEF w, n
<1>6. usage' \in UsageSet
    BY <1>4, <1>5, UsageChanged
<1>7. "written" \notin Holding /\ "written" \notin Owning
    BY DEF Holding, Owning
<1>8. WorkFact(w, rows, drafts, passed, texts)
    BY <1>2, <1>3, <1>7, LaterStep
<1> QED
    BY <1>1, <1>3, <1>6, <1>7, <1>8, Moves

LEMMA FinishKeeps == ASSUME ForgeInv, NEW p \in Procs, Finish(p) PROVE ForgeInv'
<1> DEFINE i == work[p].row
           r == [rows[i] EXCEPT !.status = "applied"]
<1>1. /\ work[p].at = "written" /\ rows' = [rows EXCEPT ![i] = r]
      /\ work' = [work EXCEPT ![p] = Idle]
      /\ UNCHANGED <<texts, drafts, live, usage, passed>>
    BY DEF Finish, Written, Becomes, disk, history
<1>2. /\ i \in 1..Len(rows) /\ rows[i] \in AnyRow
      /\ RowFact(rows[i], drafts, passed, texts)
    BY <1>1, InHand DEF WithRow
<1>3. /\ r \in AnyRow /\ r.kind = rows[i].kind /\ r.text = rows[i].text
      /\ r.name = rows[i].name /\ r.status = "applied" /\ r.passed = rows[i].passed
    BY <1>2 DEF AnyRow, Statuses
<1>4. RowFact(r, drafts, passed', texts) /\ r.status \notin Cleared
    BY <1>1, <1>2, <1>3 DEF RowFact, Cleared
<1>5. Idle \in WorkSet /\ Idle.at = "idle" /\ Idle.new = << >>
    BY IdleFact
<1>6. "idle" \notin WithRow /\ "idle" \notin Holding /\ "idle" \notin Owning
    BY DEF WithRow, Holding, Owning
<1>7. passed \subseteq passed'
    BY <1>1
<1> HIDE DEF i, r
<1>8. RowGoes(p, i, r)
    BY <1>1, <1>2, <1>3, <1>4 DEF RowGoes
<1>9. Later(p, Idle)
    BY <1>1, <1>5, <1>6 DEF Later
<1> QED
    BY <1>1, <1>7, <1>8, <1>9, OneRow

LEMMA RejectKeeps == ASSUME ForgeInv, NEW p \in Procs, Reject(p) PROVE ForgeInv'
<1>1. /\ work[p].at = "idle" /\ UNCHANGED <<texts, drafts, live, usage, work, passed>>
    BY DEF Reject, disk
<1>2. PICK i \in 1..Len(rows) : rows' = [rows EXCEPT ![i].status = "rejected"]
    BY DEF Reject, RowIds
<1> DEFINE r == [rows[i] EXCEPT !.status = "rejected"]
<1>3. ForgeTypes /\ RowFacts
    BY DEF ForgeInv
<1>4. /\ rows[i] \in AnyRow /\ RowFact(rows[i], drafts, passed, texts)
    BY <1>3, ElementOfSeq DEF ForgeTypes, RowFacts
<1>5. /\ r \in AnyRow /\ r.kind = rows[i].kind /\ r.text = rows[i].text
      /\ r.name = rows[i].name /\ r.status = "rejected" /\ r.passed = rows[i].passed
    BY <1>4 DEF AnyRow, Statuses
<1>6. RowFact(r, drafts, passed', texts) /\ r.status \notin Cleared
    BY <1>1, <1>4, <1>5 DEF RowFact, Cleared
<1>7. work[p] \in WorkSet /\ work' = [work EXCEPT ![p] = work[p]]
    BY <1>1, <1>3 DEF ForgeTypes
<1>8. "idle" \notin WithRow /\ "idle" \notin Holding /\ "idle" \notin Owning
    BY DEF WithRow, Holding, Owning
<1>9. rows' = [rows EXCEPT ![i] = r] /\ passed \subseteq passed'
    BY <1>1, <1>2
<1> HIDE DEF r
<1>10. RowGoes(p, i, r)
    BY <1>4, <1>5, <1>6, <1>9 DEF RowGoes
<1>11. Later(p, work[p])
    BY <1>1, <1>7, <1>8 DEF Later
<1> QED
    BY <1>1, <1>9, <1>10, <1>11, OneRow

-----------------------------------------------------------------------------
(* revise_once, tuning, review and the host.                               *)

LEMMA ReviseKeeps == ASSUME ForgeInv, NEW p \in Procs, Revise(p) PROVE ForgeInv'
<1> DEFINE owned == {n \in Names : BrainOwned(n)}
           tallies == [n \in Names |-> usage[n].tally]
           w == [Idle EXCEPT !.at = "revising", !.todo = owned, !.tallies = tallies]
<1>1. work' = [work EXCEPT ![p] = w] /\ UNCHANGED <<rows, texts, drafts, live, usage, passed>>
    BY DEF Revise, Becomes, disk, history
<1>2. usage \in UsageSet
    BY DEF ForgeInv, ForgeTypes
<1>3. tallies \in [Names -> Tallies] /\ owned \in SUBSET Names
    BY <1>2 DEF UsageSet
<1>4. /\ Idle \in WorkSet /\ Idle.new = << >>
      /\ WorkFact(Idle, rows, drafts, passed, texts)
    BY IdleFact
<1> HIDE DEF owned, tallies
<1>5. w \in WorkSet /\ w.at = "revising" /\ w.new = << >>
    BY <1>3, <1>4 DEF WorkSet
<1> HIDE DEF w
<1>6. "revising" \notin WithRow /\ "revising" \notin Holding /\ "revising" \notin Owning
    BY DEF WithRow, Holding, Owning
<1>7. WorkFact(w, rows, drafts, passed, texts)
    BY <1>4, <1>5, <1>6, LaterStep
<1> QED
    BY <1>1, <1>2, <1>5, <1>6, <1>7, Moves

\* A row the run writes for a skill of its list keeps the process's fact.
LEMMA Inserted ==
    ASSUME NEW v \in WorkSet, v.at = "revising", NEW n \in v.todo, NEW r \in AnyRow,
           NEW rs, NEW ds, NEW ok, NEW top,
           \A k \in 1..Len(v.new) : RowFact(v.new[k], ds, ok, top),
           RowFact(r, ds, ok, top)
    PROVE  LET w == [v EXCEPT !.todo = @ \ {n}, !.new = Append(@, r)]
           IN  w \in WorkSet /\ w.at = "revising" /\ WorkFact(w, rs, ds, ok, top)
<1> DEFINE w == [v EXCEPT !.todo = @ \ {n}, !.new = Append(@, r)]
<1>1. v.new \in Seq(AnyRow) /\ Len(v.new) \in Nat
    BY LenProperties DEF WorkSet
<1>2. /\ Append(v.new, r) \in Seq(AnyRow) /\ Len(Append(v.new, r)) = Len(v.new) + 1
      /\ \A k \in 1..Len(v.new) : Append(v.new, r)[k] = v.new[k]
      /\ Append(v.new, r)[Len(v.new) + 1] = r
    BY <1>1, AppendProperties
<1>3. w.new = Append(v.new, r) /\ w.at = "revising"
    BY DEF WorkSet
<1>4. w \in WorkSet
    BY <1>2 DEF WorkSet
<1> HIDE DEF w
<1>5. \A k \in 1..Len(w.new) : RowFact(w.new[k], ds, ok, top)
  <2> TAKE k \in 1..Len(w.new)
  <2>1. k \in 1..Len(v.new) \/ k = Len(v.new) + 1
      BY <1>1, <1>2, <1>3
  <2> QED
      BY <2>1, <1>2, <1>3
<1>6. WorkFact(w, rs, ds, ok, top)
    BY <1>3, <1>5 DEF WorkFact, WithRow, Holding, Owning
<1> QED
    BY <1>3, <1>4, <1>6 DEF w

LEMMA ExamineKeeps == ASSUME ForgeInv, NEW p \in Procs, Examine(p) PROVE ForgeInv'
<1>1. /\ work[p].at = "revising" /\ UNCHANGED <<rows, drafts, live, usage, passed>>
    BY DEF Examine, disk, history
<1>2. PICK n \in work[p].todo :
        \/ Becomes(p, [work[p] EXCEPT !.todo = @ \ {n}]) /\ UNCHANGED texts
        \/ Insert(p, n, Row("skill_retire", n, 0, "pending")) /\ UNCHANGED texts
        \/ /\ texts < MaxTexts /\ texts' = texts + 1
           /\ Insert(p, n, Row("skill_revision", n, texts + 1, "pending"))
    BY DEF Examine
<1>3. ForgeTypes /\ DraftsGrow /\ RowFacts /\ WorkFacts /\ Gates
    BY DEF ForgeInv
<1>4. work[p] \in WorkSet /\ WorkFact(work[p], rows, drafts, passed, texts)
    BY <1>3 DEF ForgeTypes, WorkFacts
<1>5. n \in Names
    BY <1>4 DEF WorkSet
<1>6. "revising" \notin WithRow /\ "revising" \notin Holding /\ "revising" \notin Owning
    BY DEF WithRow, Holding, Owning
<1>7. usage' \in UsageSet /\ texts \in Nat /\ MaxTexts \in Nat
    BY <1>1, <1>3, ProposalsAssumption DEF ForgeTypes
<1>8. \A k \in 1..Len(work[p].new) : RowFact(work[p].new[k], drafts, passed, texts)
    BY <1>4 DEF WorkFact
<1>9. CASE Becomes(p, [work[p] EXCEPT !.todo = @ \ {n}]) /\ UNCHANGED texts
  <2> DEFINE w == [work[p] EXCEPT !.todo = @ \ {n}]
  <2>1. w \in WorkSet /\ w.at = "revising" /\ w.new = work[p].new
      BY <1>1, <1>4 DEF WorkSet
  <2>2. work' = [work EXCEPT ![p] = w]
      BY <1>9 DEF Becomes
  <2> HIDE DEF w
  <2>3. WorkFact(w, rows, drafts, passed, texts)
      BY <1>4, <1>6, <2>1, LaterStep
  <2> QED
      BY <1>1, <1>6, <1>7, <1>9, <2>1, <2>2, <2>3, Moves
<1>10. CASE Insert(p, n, Row("skill_retire", n, 0, "pending")) /\ UNCHANGED texts
  <2> DEFINE r == Row("skill_retire", n, 0, "pending")
             w == [work[p] EXCEPT !.todo = @ \ {n}, !.new = Append(@, r)]
  <2>1. r \in AnyRow /\ r.kind = "skill_retire" /\ r.name = n
      BY <1>5 DEF Row, AnyRow, Kinds, Statuses, OpenStatuses
  <2>2. RowFact(r, drafts, passed, texts)
      BY <1>5, <2>1 DEF RowFact
  <2>3. work' = [work EXCEPT ![p] = w]
      BY <1>10 DEF Insert, Becomes
  <2> HIDE DEF r
  <2>4. w \in WorkSet /\ w.at = "revising" /\ WorkFact(w, rows, drafts, passed, texts)
      BY <1>1, <1>4, <1>8, <2>1, <2>2, Inserted
  <2> HIDE DEF w
  <2> QED
      BY <1>1, <1>6, <1>7, <1>10, <2>3, <2>4, Moves
<1>11. CASE /\ texts < MaxTexts /\ texts' = texts + 1
            /\ Insert(p, n, Row("skill_revision", n, texts + 1, "pending"))
  <2> DEFINE top == texts + 1
             r == Row("skill_revision", n, top, "pending")
             w == [work[p] EXCEPT !.todo = @ \ {n}, !.new = Append(@, r)]
  <2>1. top \in Nat /\ texts <= top /\ top <= MaxTexts /\ texts' = top
      BY <1>7, <1>11
  <2>2. /\ r \in AnyRow /\ r.kind = "skill_revision" /\ r.name = n /\ r.text = top
      BY <1>5, <2>1 DEF Row, AnyRow, Kinds, Statuses, OpenStatuses
  <2>3. \A m \in Names : top \notin Named(drafts, m)
      BY <1>3, <1>7 DEF DraftsGrow
  <2>4. RowFact(r, drafts, passed, top)
      BY <1>5, <1>7, <2>2, <2>3 DEF RowFact
  <2>5. work' = [work EXCEPT ![p] = w]
      BY <1>11 DEF Insert, Becomes
  <2>6. \A m \in Names : /\ Named(drafts, m) \subseteq Named(drafts, m)
                         /\ Named(drafts, m) \subseteq Named(drafts, m) \cup {texts + 1}
      OBVIOUS
  <2> HIDE DEF top
  <2>7. \A k \in 1..Len(work[p].new) : RowFact(work[p].new[k], drafts, passed, top)
      BY <1>7, <1>8, <2>1, <2>6, RowStable
  <2> HIDE DEF r
  <2>8. w \in WorkSet /\ w.at = "revising" /\ WorkFact(w, rows, drafts, passed, top)
      BY <1>1, <1>4, <2>2, <2>4, <2>7, Inserted
  <2> HIDE DEF w
  <2>9. TextsGrow
      BY <1>1, <1>7, <2>1 DEF TextsGrow
  <2>10. RowsKept(p) /\ RowsFit /\ FilesFit
      BY <1>1, <1>7, <2>9, RowsStay, FilesStay
  <2>11. rows' = rows /\ passed' = passed /\ w.at \notin Owning
      BY <1>1, <1>6, <2>8
  <2>12. WorkFits(p, w)
      BY <2>1, <2>5, <2>8, <2>11 DEF WorkFits
  <2> QED
      BY <2>9, <2>10, <2>12, Step
<1> QED
    BY <1>2, <1>9, <1>10, <1>11

\* More rows at the end of the table, all of them in order.
LEMMA Appended ==
    ASSUME ForgeInv, NEW p \in Procs, NEW w \in WorkSet, work' = [work EXCEPT ![p] = w],
           UNCHANGED <<drafts, live, usage, passed>>, texts' \in Nat, texts <= texts',
           texts' <= MaxTexts, NEW more \in Seq(AnyRow), rows' = rows \o more,
           \A k \in 1..Len(more) : RowFact(more[k], drafts, passed, texts'),
           w.at \notin WithRow, w.at # "drafted", w.new = << >>
    PROVE  ForgeInv'
<1>1. ForgeTypes /\ RowFacts /\ WorkFacts /\ Gates
    BY DEF ForgeInv
<1>2. rows \in Seq(AnyRow) /\ Len(rows) \in Nat /\ Len(more) \in Nat /\ texts \in Nat
    BY <1>1, LenProperties DEF ForgeTypes
<1>3. /\ rows' \in Seq(AnyRow) /\ Len(rows') = Len(rows) + Len(more)
      /\ \A i \in 1..Len(rows) + Len(more) : rows'[i] =
             IF i <= Len(rows) THEN rows[i] ELSE more[i - Len(rows)]
    BY <1>2, ConcatProperties
<1>4. \A i \in 1..Len(rows) : rows'[i] = rows[i]
    BY <1>2, <1>3
<1>5. \A m \in Names : /\ Named(drafts, m) \subseteq Named(drafts, m)
                       /\ Named(drafts, m) \subseteq Named(drafts, m) \cup {texts + 1}
    OBVIOUS
<1>6. \A i \in 1..Len(rows) : RowFact(rows[i], drafts, passed, texts')
    BY <1>1, <1>2, <1>5, RowStable DEF RowFacts
<1>7. \A i \in 1..Len(rows') : RowFact(rows'[i], drafts, passed, texts')
  <2> TAKE i \in 1..Len(rows')
  <2>1. CASE i <= Len(rows)
      BY <2>1, <1>2, <1>3, <1>4, <1>6
  <2>2. CASE ~(i <= Len(rows))
    <3>1. i - Len(rows) \in 1..Len(more) /\ rows'[i] = more[i - Len(rows)]
        BY <2>2, <1>2, <1>3
    <3> QED
        BY <3>1
  <2> QED
      BY <2>1, <2>2
<1>8. \A q \in Procs : work[q].at \in WithRow => work[q].row \in 1..Len(rows)
    BY <1>1 DEF WorkFacts, WorkFact
<1>9. \A q \in Procs \ {p} : work[q].at = "proposed" /\ rows[work[q].row].status \notin Cleared
           => rows'[work[q].row].status \notin Cleared
    BY <1>4, <1>8 DEF WithRow, Holding, Owning
<1>10. WorkFact(w, rows', drafts, passed, texts')
  <2>1. Len(w.new) = 0
      BY EmptySeq
  <2> QED
      BY <2>1 DEF WorkFact, WithRow, Holding, Owning
<1>11. TextsGrow
    BY DEF TextsGrow
<1>12. FilesFit
  <2>1. usage' \in UsageSet /\ UNCHANGED live
      BY <1>1 DEF ForgeTypes
  <2> QED
      BY <2>1, <1>11, FilesStay
<1>13. \A i \in 1..Len(rows) : /\ rows'[i].kind = rows[i].kind
                               /\ rows[i].kind = "skill_draft" => rows'[i].text = rows[i].text
    BY <1>4
<1>14. drafts' = drafts /\ passed' = passed /\ w.at \notin Owning
    BY DEF WithRow, Holding
<1>15. Len(rows) <= Len(rows')
    BY <1>2, <1>3
<1>16. RowsKept(p)
    BY <1>3, <1>9, <1>13, <1>15 DEF RowsKept
<1>17. RowsFit
    BY <1>7, <1>14 DEF RowsFit
<1>18. WorkFits(p, w)
    BY <1>10, <1>14 DEF WorkFits
<1> QED
    BY <1>11, <1>12, <1>16, <1>17, <1>18, Step

LEMMA RevisedKeeps == ASSUME ForgeInv, NEW p \in Procs, Revised(p) PROVE ForgeInv'
<1>1. /\ rows' = rows \o work[p].new /\ work' = [work EXCEPT ![p] = Idle]
      /\ UNCHANGED <<texts, drafts, live, usage, passed>>
    BY DEF Revised, Table, Becomes, disk, history
<1>2. /\ work[p].new \in Seq(AnyRow) /\ texts \in Nat /\ texts <= MaxTexts
      /\ \A k \in 1..Len(work[p].new) : RowFact(work[p].new[k], drafts, passed, texts)
    BY DEF ForgeInv, ForgeTypes, WorkSet, WorkFacts, WorkFact
<1>3. Idle \in WorkSet /\ Idle.at = "idle" /\ Idle.new = << >>
    BY IdleFact
<1>4. "idle" \notin WithRow
    BY DEF WithRow, Holding, Owning
<1>5. texts' \in Nat /\ texts <= texts' /\ texts' <= MaxTexts
      /\ \A k \in 1..Len(work[p].new) : RowFact(work[p].new[k], drafts, passed, texts')
    BY <1>1, <1>2
<1>6. Idle.at \notin WithRow /\ Idle.at # "drafted"
    BY <1>3, <1>4
<1>7. UNCHANGED <<drafts, live, usage, passed>> /\ work[p].new \in Seq(AnyRow)
    BY <1>1, <1>2
<1> HIDE DEF Idle
<1> QED
    BY <1>1, <1>3, <1>5, <1>6, <1>7, Appended

LEMMA TuneKeeps == ASSUME ForgeInv, NEW p \in Procs, Tune(p) PROVE ForgeInv'
<1>1. /\ work[p].at = "idle" /\ texts < MaxTexts /\ texts' = texts + 1
      /\ UNCHANGED <<drafts, live, usage, work, passed>>
    BY DEF Tune, disk, history
<1>2. ForgeTypes /\ RowFacts /\ WorkFacts /\ Gates
    BY DEF ForgeInv
<1>3. /\ texts \in Nat /\ texts' \in Nat /\ texts <= texts' /\ texts' <= MaxTexts
      /\ work[p] \in WorkSet /\ work' = [work EXCEPT ![p] = work[p]]
      /\ rows \in Seq(AnyRow) /\ Len(rows) \in Nat
    BY <1>1, <1>2, LenProperties, ProposalsAssumption DEF ForgeTypes
<1>4. "idle" \notin WithRow /\ "idle" \notin Owning
    BY DEF WithRow, Holding, Owning
<1>5. \A m \in Names : /\ Named(drafts, m) \subseteq Named(drafts, m)
                       /\ Named(drafts, m) \subseteq Named(drafts, m) \cup {texts + 1}
    OBVIOUS
<1>6. \A i \in 1..Len(rows) : RowFact(rows[i], drafts, passed, texts')
    BY <1>2, <1>3, <1>5, RowStable DEF RowFacts
<1>7. TextsGrow
    BY <1>1, <1>3 DEF TextsGrow
<1>8. FilesFit
  <2>1. usage' \in UsageSet /\ UNCHANGED live
      BY <1>1, <1>2 DEF ForgeTypes
  <2> QED
      BY <2>1, <1>7, FilesStay
<1>9. \A q \in Procs : work[q].at \in WithRow => work[q].row \in 1..Len(rows)
    BY <1>2 DEF WorkFacts, WorkFact
<1>10. WorkFact(work[p], rows, drafts, passed, texts')
    BY <1>1, <1>2, <1>3, <1>5, WorkStable DEF WorkFacts
<1>11. ASSUME Len(rows) <= Len(rows'), rows' \in Seq(AnyRow),
              \A i \in 1..Len(rows) : \/ rows'[i] = rows[i]
                                      \/ /\ rows[i].kind = "tuning" /\ rows'[i].kind = "tuning"
                                         /\ rows'[i].status = rows[i].status,
              \A i \in 1..Len(rows') : rows'[i].kind = "tuning" \/
                                       (i \in 1..Len(rows) /\ rows'[i] = rows[i])
       PROVE  ForgeInv'
  <2>1. \A i \in 1..Len(rows') : RowFact(rows'[i], drafts, passed, texts')
      BY <1>6, <1>11 DEF RowFact
  <2>2. \A i \in 1..Len(rows) : /\ rows'[i].kind = rows[i].kind
                                /\ rows[i].kind = "skill_draft" => rows'[i].text = rows[i].text
      BY <1>11
  <2>3. \A i \in 1..Len(rows) : rows'[i].status = rows[i].status
      BY <1>11
  <2>4. \A q \in Procs \ {p} : work[q].at = "proposed" /\ rows[work[q].row].status \notin Cleared
             => rows'[work[q].row].status \notin Cleared
      BY <1>9, <2>3 DEF WithRow, Holding, Owning
  <2>5. Len(rows') \in Nat
      BY <1>11, LenProperties
  <2>6. 1..Len(rows) \subseteq 1..Len(rows')
      BY <1>3, <1>11, <2>5
  <2>7. WorkFact(work[p], rows', drafts, passed, texts')
      BY <1>1, <1>3, <1>5, <1>10, <2>2, <2>6, WorkStable
  <2>8. passed' = passed
      BY <1>1
  <2>9. RowsKept(p)
      BY <1>11, <2>2, <2>4 DEF RowsKept
  <2>10. RowsFit
      BY <2>1, <2>8 DEF RowsFit
  <2>11. WorkFits(p, work[p])
      BY <1>1, <1>3, <1>4, <2>7, <2>8 DEF WorkFits
  <2> QED
      BY <1>7, <1>8, <2>9, <2>10, <2>11, Step
<1>12. CASE rows' = Append(rows, Row("tuning", "", texts + 1, "shadow"))
  <2> DEFINE r == Row("tuning", "", texts + 1, "shadow")
  <2>1. r \in AnyRow /\ r.kind = "tuning"
      BY <1>1, <1>3 DEF Row, AnyRow, Kinds, Statuses, OpenStatuses
  <2> HIDE DEF r
  <2>2. /\ rows' \in Seq(AnyRow) /\ Len(rows') = Len(rows) + 1
        /\ \A i \in 1..Len(rows) : rows'[i] = rows[i]
        /\ rows'[Len(rows) + 1] = r
    <3>1. rows' = Append(rows, r)
        BY <1>12 DEF r
    <3> QED
        BY <1>3, <3>1, <2>1, AppendProperties
  <2>3. \A i \in 1..Len(rows') : i \in 1..Len(rows) \/ i = Len(rows) + 1
      BY <1>3, <2>2
  <2>4. Len(rows) <= Len(rows')
      BY <1>3, <2>2
  <2> QED
      BY <2>1, <2>2, <2>3, <2>4, <1>11
<1>13. CASE \E i \in OpenTuning : rows' = [rows EXCEPT ![i].text = texts + 1]
  <2>1. PICK i \in OpenTuning : rows' = [rows EXCEPT ![i].text = texts + 1]
      BY <1>13
  <2> DEFINE r == [rows[i] EXCEPT !.text = texts + 1]
  <2>2. i \in 1..Len(rows) /\ rows[i].kind = "tuning" /\ rows[i] \in AnyRow
      BY <1>3, ElementOfSeq DEF OpenTuning, RowIds
  <2>3. r \in AnyRow /\ r.kind = "tuning" /\ r.status = rows[i].status
      BY <1>1, <1>3, <2>2 DEF AnyRow
  <2>4. rows' = [rows EXCEPT ![i] = r]
      BY <2>1
  <2> HIDE DEF r
  <2>5. /\ rows' \in Seq(AnyRow) /\ Len(rows') = Len(rows) /\ rows'[i] = r
        /\ \A j \in 1..Len(rows) : j # i => rows'[j] = rows[j]
      BY <1>3, <2>2, <2>3, <2>4, RowChanged
  <2>6. Len(rows) <= Len(rows')
      BY <1>3, <2>5
  <2> QED
      BY <2>2, <2>3, <2>5, <2>6, <1>11
<1> QED
    BY <1>12, <1>13 DEF Tune

\* A review takes a row up: it says what it will do with it.
LEMMA TakenUp ==
    ASSUME ForgeInv, NEW i \in 1..Len(rows), NEW at \in {"promoting", "patched", "written"},
           at = "promoting" => rows[i].kind = "skill_draft"
    PROVE  LET w == [Idle EXCEPT !.at = at, !.row = i]
           IN  /\ w \in WorkSet /\ w.at \notin Owning
               /\ WorkFact(w, rows, drafts, passed, texts)
<1> DEFINE w == [Idle EXCEPT !.at = at, !.row = i]
<1>1. Idle \in WorkSet /\ Idle.new = << >> /\ Len(<< >>) = 0
    BY IdleFact, EmptySeq
<1>2. rows \in Seq(AnyRow) /\ Len(rows) \in Nat
    BY LenProperties DEF ForgeInv, ForgeTypes
<1>3. i \in Nat
    BY <1>2
<1>4. w \in WorkSet /\ w.at = at /\ w.row = i /\ w.new = << >>
    BY <1>1, <1>3 DEF WorkSet, WithRow, Holding
<1> HIDE DEF w
<1>5. w.at \notin Owning /\ w.at # "drafted" /\ w.at # "proposed"
    BY <1>4 DEF Owning
<1>6. w.at \in Holding => w.at = "promoting"
    BY <1>4 DEF Holding, Owning
<1>7. WorkFact(w, rows, drafts, passed, texts)
    BY <1>1, <1>4, <1>5, <1>6 DEF WorkFact
<1> QED
    BY <1>4, <1>5, <1>7 DEF w

LEMMA ReviewKeeps ==
    ASSUME ForgeInv, NEW p \in Procs, ApproveDraft(p) \/ ApproveRetire(p) \/ ApproveTuning(p)
    PROVE  ForgeInv'
<1>1. UNCHANGED <<rows, texts, drafts, live, passed>>
    BY DEF ApproveDraft, ApproveRetire, ApproveTuning, disk, history
<1>2. usage \in UsageSet
    BY DEF ForgeInv, ForgeTypes
<1>3. usage' \in UsageSet
  <2>1. CASE UNCHANGED usage
      BY <2>1, <1>2
  <2>2. CASE \E i \in RowIds : usage' = [usage EXCEPT ![rows[i].name].stale = TRUE]
      BY <2>2, <1>2, UsageChanged
  <2> QED
      BY <2>1, <2>2 DEF ApproveDraft, ApproveRetire, ApproveTuning, disk
<1>4. PICK i \in 1..Len(rows), at \in {"promoting", "patched", "written"} :
          /\ work' = [work EXCEPT ![p] = [Idle EXCEPT !.at = at, !.row = i]]
          /\ at = "promoting" => rows[i].kind = "skill_draft"
    BY DEF ApproveDraft, ApproveRetire, ApproveTuning, TakesUp, Becomes, RowIds
<1> DEFINE w == [Idle EXCEPT !.at = at, !.row = i]
<1>5. w \in WorkSet /\ w.at \notin Owning /\ WorkFact(w, rows, drafts, passed, texts)
    BY <1>4, TakenUp
<1>6. work' = [work EXCEPT ![p] = w]
    BY <1>4
<1> HIDE DEF w
<1> QED
    BY <1>1, <1>3, <1>5, <1>6, Moves

\* A revision's text is no draft's, so it needs no gate.
LEMMA ApproveRevisionKeeps ==
    ASSUME ForgeInv, NEW p \in Procs, ApproveRevision(p) PROVE ForgeInv'
<1>1. UNCHANGED <<rows, texts, drafts, usage, passed>>
    BY DEF ApproveRevision
<1>2. PICK i \in 1..Len(rows) :
          /\ rows[i].kind = "skill_revision"
          /\ live' = [live EXCEPT ![rows[i].name] = @ \cup {rows[i].text}]
          /\ work' = [work EXCEPT ![p] = [Idle EXCEPT !.at = "patched", !.row = i]]
    BY DEF ApproveRevision, TakesUp, Becomes, RowIds
<1> DEFINE w == [Idle EXCEPT !.at = "patched", !.row = i]
           n == rows[i].name
           t == rows[i].text
<1>3. ForgeTypes /\ RowFacts /\ Gates
    BY DEF ForgeInv
<1>4. n \in Names /\ t \in 1..texts /\ \A m \in Names : t \notin Named(drafts, m)
    BY <1>2, <1>3 DEF RowFacts, RowFact
<1>5. w \in WorkSet /\ w.at \notin Owning /\ WorkFact(w, rows, drafts, passed, texts)
    BY TakenUp
<1>6. work' = [work EXCEPT ![p] = w] /\ live' = [live EXCEPT ![n] = @ \cup {t}]
    BY <1>2
<1> HIDE DEF w, n, t
<1>7. live'[n] = live[n] \cup {t} /\ \A m \in Names \ {n} : live'[m] = live[m]
    BY <1>3, <1>4, <1>6 DEF ForgeTypes
<1>8. live' \in [Names -> SUBSET ((1..texts) \cup {Host})]
  <2>1. live[n] \cup {t} \in SUBSET ((1..texts) \cup {Host})
      BY <1>3, <1>4 DEF ForgeTypes
  <2> QED
      BY <1>3, <1>6, <2>1 DEF ForgeTypes
<1>9. \A m \in Names : Gate(m, live', drafts, passed)
  <2> TAKE m \in Names
  <2>1. live'[m] \cap Named(drafts, m) \subseteq live[m]
      BY <1>4, <1>7
  <2> QED
      BY <2>1, <1>3 DEF Gates, Gate
<1>10. /\ rows' = rows /\ texts' = texts /\ drafts' = drafts
       /\ passed' = passed /\ usage' \in UsageSet
    BY <1>1, <1>3 DEF ForgeTypes
<1>11. TextsGrow
    BY <1>10, TextsStay
<1>12. RowsKept(p) /\ RowsFit
    BY <1>10, <1>11, RowsStay
<1>13. FilesFit
    BY <1>8, <1>9, <1>10 DEF FilesFit
<1>14. WorkFits(p, w)
    BY <1>5, <1>6, <1>10 DEF WorkFits
<1> QED
    BY <1>11, <1>12, <1>13, <1>14, Step

LEMMA CrashKeeps == ASSUME ForgeInv, NEW p \in Procs, Crash(p) PROVE ForgeInv'
<1>1. work' = [work EXCEPT ![p] = Idle] /\ UNCHANGED <<rows, texts, drafts, live, usage, passed>>
    BY DEF Crash, Becomes, disk, history
<1>2. /\ Idle \in WorkSet /\ Idle.at = "idle" /\ WorkFact(Idle, rows, drafts, passed, texts)
    BY IdleFact
<1>3. usage' \in UsageSet /\ "idle" \notin Owning
    BY <1>1 DEF ForgeInv, ForgeTypes, Owning
<1> QED
    BY <1>1, <1>2, <1>3, Moves

\* The host touches no row, no draft and no process: a skill of its own needs
\* no gate, and one that is archived none any more.
LEMMA HostKeeps ==
    ASSUME ForgeInv,
           \/ UNCHANGED proposalsVars
           \/ ResetWeights
           \/ \E n \in Names : Use(n) \/ Archive(n) \/ Install(n)
    PROVE  ForgeInv'
<1>1. UNCHANGED <<rows, texts, drafts, work, passed>>
    BY DEF proposalsVars, disk, history, ResetWeights, Use, Archive, Install
<1>2. ForgeTypes /\ DraftsGrow /\ RowFacts /\ WorkFacts /\ Distinct /\ Gates
    BY DEF ForgeInv
<1>3. usage' \in UsageSet
  <2>1. CASE UNCHANGED usage
      BY <2>1, <1>2 DEF ForgeTypes
  <2>2. CASE \E n \in Names : \E t \in Tallies : usage' = [usage EXCEPT ![n].tally = t]
      BY <2>2, <1>2, UsageChanged DEF ForgeTypes
  <2> QED
      BY <2>1, <2>2 DEF proposalsVars, disk, ResetWeights, Use, Archive, Install
<1>4. live' = live \/ \E n \in Names : live' = [live EXCEPT ![n] = {}]
                                       \/ live' = [live EXCEPT ![n] = {Host}]
    BY DEF proposalsVars, disk, ResetWeights, Use, Archive, Install
<1>5. live' \in [Names -> SUBSET ((1..texts) \cup {Host})]
    BY <1>2, <1>4 DEF ForgeTypes
<1>6. \A n \in Names : Host \notin Named(drafts, n)
  <2>1. \A n \in Names : Named(drafts, n) \subseteq Texts
      BY <1>2, ProposalsAssumption DEF DraftsGrow, ForgeTypes, Texts
  <2> QED
      BY <2>1, ProposalsAssumption
<1>7. \A n \in Names : live'[n] \cap Named(drafts, n) \subseteq live[n]
  <2> TAKE n \in Names
  <2>1. live'[n] \subseteq live[n] \cup {Host}
      BY <1>2, <1>4 DEF ForgeTypes
  <2> QED
      BY <2>1, <1>6
<1>8. Gates'
    BY <1>1, <1>2, <1>7 DEF Gates, Gate
<1>9. ForgeTypes'
    BY <1>1, <1>2, <1>3, <1>5 DEF ForgeTypes
<1>10. DraftsGrow' /\ RowFacts' /\ WorkFacts' /\ Distinct'
    BY <1>1, <1>2 DEF DraftsGrow, RowFacts, WorkFacts, Distinct
<1> QED
    BY <1>8, <1>9, <1>10 DEF ForgeInv

-----------------------------------------------------------------------------
LEMMA NextForge == ForgeInv /\ [ProposalsNext]_proposalsVars => ForgeInv'
<1> SUFFICES ASSUME ForgeInv, [ProposalsNext]_proposalsVars PROVE ForgeInv'
    OBVIOUS
<1>1. ASSUME NEW p \in Procs, Forge(p) \/ Crash(p) PROVE ForgeInv'
    BY <1>1, DraftKeeps, ProposeKeeps, ValidateKeeps, ConcludeKeeps, CopyKeeps,
       SecondFileKeeps, FinishKeeps, CrashKeeps DEF Forge
<1>2. ASSUME NEW p \in Dreams, Revise(p) \/ Examine(p) \/ Revised(p) \/ Tune(p)
      PROVE  ForgeInv'
    BY <1>2, ReviseKeeps, ExamineKeeps, RevisedKeeps, TuneKeeps DEF Procs
<1>3. ASSUME NEW p \in Shells, Review(p) PROVE ForgeInv'
    BY <1>3, RejectKeeps, ReviewKeeps, ApproveRevisionKeeps, SecondFileKeeps
       DEF Review, Procs
<1> QED
    BY <1>1, <1>2, <1>3, HostKeeps DEF ProposalsNext

\* No draft is live that failed its gates, whoever promoted it, unless an
\* earlier draft of its name passed (skillforge/forge.py, _promote), for any
\* processes, names, evidence and limits.
THEOREM ForgeGatesPassed == ForgeSpec => []GatesPassed
<1>1. ForgeInv => GatesPassed
  <2>1. \A n : DraftsOf(n) = Named(drafts, n)
      BY DEF DraftsOf, Named
  <2> QED
      BY <2>1 DEF ForgeInv, Gates, Gate, GatesPassed
<1> QED
    BY <1>1, InitForge, NextForge, PTL DEF ForgeSpec

-----------------------------------------------------------------------------
(* The rows and the files agree, and what others decided or wrote stays.   *)

\* The brain has drafted a skill of this name.
Begun(n) == drafts[n] # << >>
Alive(n) == live[n] # {} \/ n \in archived

\* What a process may propose or archive has a name the brain has drafted.
Ours ==
    /\ \A n \in Names : live[n] # {} /\ Host \notin live[n] => Begun(n)
    /\ \A n \in Names : usage[n].stale => Begun(n)
    /\ \A i \in 1..Len(rows) : rows[i].kind # "tuning" => Begun(rows[i].name)
    /\ \A p \in Procs :
        /\ \A n \in work[p].todo : Begun(n)
        /\ \A k \in 1..Len(work[p].new) :
            /\ work[p].new[k].kind \in {"skill_revision", "skill_retire"}
            /\ Begun(work[p].new[k].name)

\* The host's skill of a name that was drafted came later.
HostsLate == \A n \in Names : Host \in live[n] /\ Begun(n) => n \in late

\* A process that has written a file finds it, and is the last to decide a
\* row only if the rejection came while it had the row in hand.
Promoted(p) ==
    work[p].at = "written" /\ rows[work[p].row].kind = "skill_draft"
OnDisk ==
    \A p \in Procs :
        LET n == rows[work[p].row].name
        IN  /\ work[p].at = "patched" => rows[work[p].row].kind = "skill_revision"
            /\ work[p].at = "copied" \/ Promoted(p) => Alive(n)
            /\ Promoted(p) => usage[n].draft # 0
Decided ==
    \A p \in Procs :
        /\ work[p].at \in {"proposed", "validated", "copied"} \/ Promoted(p)
        /\ rows[work[p].row].status = "rejected"
        => work[p].row \in overruled

Counts == counted \in [Names -> SUBSET (Nat \cup {Host})]

WholeInv == ForgeInv /\ Counts /\ Ours /\ HostsLate /\ OnDisk /\ Decided /\ SkillsWhole

\* Nothing the arguments rest on is ever taken back but by the curator.
LEMMA FilesGo ==
    ASSUME ForgeInv, [ProposalsNext]_proposalsVars
    PROVE  /\ \A n \in Names : Begun(n) => drafts'[n] # << >>
           /\ archived \subseteq archived' /\ late \subseteq late'
           /\ overruled \subseteq overruled'
           /\ \A n \in Names : live[n] # {} => live'[n] # {} \/ n \in archived'
           /\ \A n \in Names : usage[n].draft # 0 => usage'[n].draft # 0
<1>1. ForgeTypes
    BY DEF ForgeInv
<1>2. \A n \in Names : Begun(n) => drafts'[n] # << >>
  <2>1. CASE UNCHANGED drafts
      BY <2>1 DEF Begun
  <2>2. ASSUME NEW p \in Procs, Draft(p)
        PROVE  \A n \in Names : Begun(n) => drafts'[n] # << >>
    <3>1. PICK n \in Names : drafts' = [drafts EXCEPT ![n] = Append(@, texts + 1)]
        BY <2>2 DEF Draft
    <3>2. drafts[n] \in Seq(Nat) /\ texts + 1 \in Nat
        BY <1>1 DEF ForgeTypes
    <3>3. Append(drafts[n], texts + 1) # << >>
        BY <3>2
    <3> QED BY <1>1, <3>1, <3>3 DEF ForgeTypes, Begun
  <2>3. UNCHANGED drafts \/ \E p \in Procs : Draft(p)
      BY DEF ProposalsNext, proposalsVars, disk, Forge, Review, Propose, Validate, Conclude, Copy,
             Register, Finish, Crash, Revise, Examine, Revised, Tune, Reject, ApproveDraft,
             ApproveRetire, ApproveRevision, Patched, ApproveTuning, Use, Archive, Install,
             ResetWeights
  <2> QED BY <2>1, <2>2, <2>3
<1>3. archived \subseteq archived' /\ late \subseteq late'
    BY DEF ProposalsNext, proposalsVars, history, Forge, Review, Draft, Propose, Validate, Conclude,
           Copy, Register, Finish, Crash, Revise, Examine, Revised, Tune, Reject, ApproveDraft,
           ApproveRetire, ApproveRevision, Patched, ApproveTuning, Use, Archive, Install,
           ResetWeights
<1>4. overruled \subseteq overruled'
    BY DEF ProposalsNext, proposalsVars, history, Forge, Review, Draft, Propose, Validate, Conclude,
           Copy, Register, Finish, Crash, Revise, Examine, Revised, Tune, Reject, ApproveDraft,
           ApproveRetire, ApproveRevision, Patched, ApproveTuning, Use, Archive, Install,
           ResetWeights, Overruled
<1>5. \A n \in Names : live[n] # {} => live'[n] # {} \/ n \in archived'
  <2>1. \/ UNCHANGED live
        \/ \E n, s : live' = [live EXCEPT ![n] = s] /\ s # {}
        \/ \E n \in Names : live' = [live EXCEPT ![n] = {}] /\ n \in archived'
    <3>1. ASSUME NEW p \in Procs, ApproveRevision(p)
          PROVE  \E n, s : live' = [live EXCEPT ![n] = s] /\ s # {}
      <4>1. PICK i \in RowIds :
              live' = [live EXCEPT ![rows[i].name] = @ \cup {rows[i].text}]
          BY <3>1 DEF ApproveRevision
      <4>2. live[rows[i].name] \cup {rows[i].text} # {}
          OBVIOUS
      <4> QED BY <4>1, <4>2
    <3>2. ASSUME NEW p \in Procs, Copy(p)
          PROVE  UNCHANGED live \/ \E n, s : live' = [live EXCEPT ![n] = s] /\ s # {}
        BY <3>2 DEF Copy
    <3>3. ASSUME NEW m \in Names, Archive(m) PROVE live' = [live EXCEPT ![m] = {}] /\ m \in archived'
        BY <3>3 DEF Archive
    <3>4. ASSUME NEW m \in Names, Install(m)
          PROVE  UNCHANGED live \/ \E n, s : live' = [live EXCEPT ![n] = s] /\ s # {}
        BY <3>4 DEF Install
    <3>5. \/ UNCHANGED live
          \/ \E p \in Procs : Copy(p) \/ ApproveRevision(p)
          \/ \E n \in Names : Archive(n) \/ Install(n)
      BY DEF ProposalsNext, proposalsVars, disk, Forge, Review, Draft, Propose, Validate,
             Conclude, Register, Finish, Crash, Revise, Examine, Revised, Tune, Reject,
             ApproveDraft, ApproveRetire, Patched, ApproveTuning, Use, ResetWeights, Procs
    <3> QED BY <3>1, <3>2, <3>3, <3>4, <3>5
  <2> QED BY <1>1, <2>1 DEF ForgeTypes
<1>6. \A n \in Names : usage[n].draft # 0 => usage'[n].draft # 0
  <2>1. \/ UNCHANGED usage
        \/ \E n, t : usage' = [usage EXCEPT ![n].tally = t]
        \/ \E n : usage' = [usage EXCEPT ![n].stale = TRUE]
        \/ \E p \in Procs : Register(p)
      BY DEF ProposalsNext, proposalsVars, disk, Forge, Review, Draft, Propose, Validate, Conclude,
             Copy, Finish, Crash, Revise, Examine, Revised, Tune, Reject, ApproveDraft,
             ApproveRetire, ApproveRevision, Patched, ApproveTuning, Use, Archive, Install,
             ResetWeights
  <2>2. ASSUME NEW p \in Procs, Register(p)
        PROVE  \A n \in Names : usage[n].draft # 0 => usage'[n].draft # 0
    <3>1. work[p].row # 0
        BY <2>2, InHand DEF Register, WithRow, Holding
    <3>2. usage' = [usage EXCEPT ![rows[work[p].row].name] =
                        [stale |-> FALSE, tally |-> NoTally, draft |-> work[p].row]]
        BY <2>2 DEF Register
    <3>3. \A n \in Names : usage'[n] = usage[n] \/ usage'[n].draft = work[p].row
        BY <1>1, <3>2 DEF ForgeTypes, UsageSet
    <3> QED BY <3>1, <3>3
  <2>3. ASSUME NEW n, NEW t, usage' = [usage EXCEPT ![n].tally = t], NEW m \in Names
        PROVE  usage'[m].draft = usage[m].draft
    <3>1. usage'[m] = usage[m] \/ usage'[m] = [usage[m] EXCEPT !.tally = t]
        BY <1>1, <2>3 DEF ForgeTypes, UsageSet
    <3>2. usage[m] \in [stale : BOOLEAN, tally : Tallies, draft : Nat]
        BY <1>1 DEF ForgeTypes, UsageSet
    <3> QED BY <3>1, <3>2
  <2>4. ASSUME NEW n, usage' = [usage EXCEPT ![n].stale = TRUE], NEW m \in Names
        PROVE  usage'[m].draft = usage[m].draft
    <3>1. usage'[m] = usage[m] \/ usage'[m] = [usage[m] EXCEPT !.stale = TRUE]
        BY <1>1, <2>4 DEF ForgeTypes, UsageSet
    <3>2. usage[m] \in [stale : BOOLEAN, tally : Tallies, draft : Nat]
        BY <1>1 DEF ForgeTypes, UsageSet
    <3> QED BY <3>1, <3>2
  <2> QED BY <2>1, <2>2, <2>3, <2>4
<1> QED BY <1>2, <1>3, <1>4, <1>5, <1>6

\* What becomes of a row: its kind and name stay, its text but for an open
\* tuning proposal, and a status is changed by those who have it in hand, or
\* rejected.
Decides(i) ==
    \/ rows'[i].status = rows[i].status
    \/ /\ rows'[i].status = "rejected"
       /\ \A q \in Procs : work'[q].at # "idle" /\ work'[q].row = i => i \in overruled'
    \/ \E p \in Procs :
        /\ work[p].row = i
        /\ \/ work[p].at = "validated" /\ rows'[i].status \in {"validated", "pending"}
           \/ work[p].at = "written" /\ rows'[i].status = "applied"
Goes(i) ==
    /\ i \in 1..Len(rows')
    /\ rows'[i].kind = rows[i].kind /\ rows'[i].name = rows[i].name
    /\ rows'[i].text = rows[i].text \/ (rows[i].kind = "tuning" /\ rows[i].status = "shadow")
    /\ Decides(i)
Added(j) ==
    \/ rows'[j].kind = "tuning"
    \/ \E p \in Procs :
        /\ work[p].at = "drafted" /\ rows'[j].name = work[p].name
        /\ rows'[j].status = "pending"
    \/ \E p \in Procs : \E k \in 1..Len(work[p].new) : rows'[j] = work[p].new[k]
RowsGo ==
    /\ \A i \in 1..Len(rows) : Goes(i)
    /\ \A j \in 1..Len(rows') : j \in 1..Len(rows) \/ Added(j)

LEMMA OneGoes ==
    ASSUME ForgeInv, NEW i \in 1..Len(rows), NEW r \in AnyRow, rows' = [rows EXCEPT ![i] = r],
           r.kind = rows[i].kind, r.name = rows[i].name,
           r.text = rows[i].text \/ (rows[i].kind = "tuning" /\ rows[i].status = "shadow"),
           \/ r.status = rows[i].status
           \/ /\ r.status = "rejected"
              /\ \A q \in Procs : work'[q].at # "idle" /\ work'[q].row = i => i \in overruled'
           \/ \E p \in Procs :
               /\ work[p].row = i
               /\ \/ work[p].at = "validated" /\ r.status \in {"validated", "pending"}
                  \/ work[p].at = "written" /\ r.status = "applied"
    PROVE  RowsGo
<1>1. rows \in Seq(AnyRow)
    BY DEF ForgeInv, ForgeTypes
<1>2. /\ Len(rows') = Len(rows) /\ rows'[i] = r
      /\ \A j \in 1..Len(rows) : j # i => rows'[j] = rows[j]
    BY <1>1, RowChanged
<1>3. Goes(i)
    BY <1>2 DEF Goes, Decides
<1>4. \A j \in 1..Len(rows) : j # i => Goes(j)
    BY <1>2 DEF Goes, Decides
<1> QED BY <1>2, <1>3, <1>4 DEF RowsGo

LEMMA MoreGo ==
    ASSUME \A i \in 1..Len(rows) : i \in 1..Len(rows') /\ rows'[i] = rows[i],
           \A j \in 1..Len(rows') : j \in 1..Len(rows) \/ Added(j)
    PROVE  RowsGo
<1>1. \A i \in 1..Len(rows) : Goes(i)
    BY DEF Goes, Decides
<1> QED BY <1>1 DEF RowsGo

LEMMA RowsAllGo == ASSUME ForgeInv, [ProposalsNext]_proposalsVars PROVE RowsGo
<1>1. ForgeTypes /\ WorkFacts /\ RowFacts
    BY DEF ForgeInv
<1>2. rows \in Seq(AnyRow) /\ Len(rows) \in Nat
    BY <1>1 DEF ForgeTypes
<1>3. \A i \in 1..Len(rows) : rows[i] \in AnyRow
    BY <1>2
<1>4. ASSUME UNCHANGED rows PROVE RowsGo
    BY <1>4, MoreGo
<1>5. ASSUME NEW p \in Procs, Propose(p) PROVE RowsGo
  <2> DEFINE r == Row("skill_draft", work[p].name, work[p].text, "pending")
  <2>1. rows' = Append(rows, r) /\ work[p].at = "drafted"
      BY <1>5 DEF Propose
  <2>2. r.name = work[p].name /\ r.status = "pending"
      BY DEF Row
  <2> HIDE DEF r
  <2>3. /\ Len(rows') = Len(rows) + 1 /\ rows'[Len(rows) + 1] = r
        /\ \A i \in 1..Len(rows) : rows'[i] = rows[i]
      BY <1>2, <2>1
  <2>4. Added(Len(rows) + 1)
      BY <2>1, <2>2, <2>3 DEF Added
  <2>5. \A j \in 1..Len(rows') : j \in 1..Len(rows) \/ j = Len(rows) + 1
      BY <1>2, <2>3
  <2>6. \A i \in 1..Len(rows) : i \in 1..Len(rows')
      BY <1>2, <2>3
  <2> QED BY <2>3, <2>4, <2>5, <2>6, MoreGo
<1>6. ASSUME NEW p \in Procs, Validate(p) PROVE RowsGo
  <2> DEFINE i == work[p].row
  <2>1. i \in 1..Len(rows)
      BY <1>6, InHand DEF Validate, WithRow, Holding, Owning
  <2>2. PICK ok \in BOOLEAN : rows' = [rows EXCEPT ![i].passed = ok]
    <3>1. \A e : Convincing(e) \in BOOLEAN
        BY DEF Convincing
    <3> QED BY <1>6, <3>1 DEF Validate
  <2> DEFINE r == [rows[i] EXCEPT !.passed = ok]
  <2>3. /\ r \in AnyRow /\ r.kind = rows[i].kind /\ r.name = rows[i].name
        /\ r.text = rows[i].text /\ r.status = rows[i].status
      BY <1>3, <2>1 DEF AnyRow
  <2>4. rows' = [rows EXCEPT ![i] = r]
      BY <2>2
  <2> HIDE DEF i, r
  <2> QED BY <2>1, <2>3, <2>4, OneGoes
<1>7. ASSUME NEW i \in 1..Len(rows), NEW s \in Statuses, rows' = [rows EXCEPT ![i].status = s],
             \/ /\ s = "rejected"
                /\ \A q \in Procs : work'[q].at # "idle" /\ work'[q].row = i => i \in overruled'
             \/ \E p \in Procs :
                 /\ work[p].row = i
                 /\ \/ work[p].at = "validated" /\ s \in {"validated", "pending"}
                    \/ work[p].at = "written" /\ s = "applied"
      PROVE  RowsGo
  <2> DEFINE r == [rows[i] EXCEPT !.status = s]
  <2>1. /\ r \in AnyRow /\ r.kind = rows[i].kind /\ r.name = rows[i].name
        /\ r.text = rows[i].text /\ r.status = s
      BY <1>3 DEF AnyRow
  <2>2. rows' = [rows EXCEPT ![i] = r]
      BY <1>7
  <2>3. \/ /\ r.status = "rejected"
           /\ \A q \in Procs : work'[q].at # "idle" /\ work'[q].row = i => i \in overruled'
        \/ \E p \in Procs :
            /\ work[p].row = i
            /\ \/ work[p].at = "validated" /\ r.status \in {"validated", "pending"}
               \/ work[p].at = "written" /\ r.status = "applied"
      BY <1>7, <2>1
  <2> HIDE DEF r
  <2> QED BY <2>1, <2>2, <2>3, OneGoes
<1>8. ASSUME NEW p \in Procs, Conclude(p) \/ Finish(p) PROVE RowsGo
  <2>1. work[p].at \in {"validated", "written"} /\ work[p].row \in 1..Len(rows)
      BY <1>8, InHand DEF Conclude, Finish, Written, WithRow, Holding, Owning
  <2>2. \/ /\ Conclude(p)
           /\ rows' = [rows EXCEPT ![work[p].row].status =
                           IF rows[work[p].row].passed THEN "validated" ELSE "pending"]
        \/ Finish(p) /\ rows' = [rows EXCEPT ![work[p].row].status = "applied"]
      BY <1>8 DEF Conclude, Finish
  <2>3. "validated" \in Statuses /\ "pending" \in Statuses /\ "applied" \in Statuses
      BY DEF Statuses, OpenStatuses
  <2> QED BY <1>7, <2>1, <2>2, <2>3 DEF Conclude, Finish, Written
<1>9. ASSUME NEW p \in Procs, Copy(p) PROVE RowsGo
  <2>1. UNCHANGED rows \/
        /\ rows' = [rows EXCEPT ![work[p].row].status = "rejected"]
        /\ overruled' = Overruled(p, work[p].row) /\ Becomes(p, Idle)
      BY <1>9 DEF Copy
  <2>2. CASE /\ rows' = [rows EXCEPT ![work[p].row].status = "rejected"]
             /\ overruled' = Overruled(p, work[p].row) /\ Becomes(p, Idle)
    <3>1. work[p].row \in 1..Len(rows)
        BY <1>9, InHand DEF Copy, WithRow, Holding
    <3>2. work'[p].at = "idle" /\ \A q \in Procs \ {p} : work'[q] = work[q]
        BY <1>1, <2>2, IdleFact DEF Becomes, ForgeTypes
    <3>3. \A q \in Procs : work'[q].at # "idle" /\ work'[q].row = work[p].row
              => work[p].row \in overruled'
        BY <2>2, <3>2 DEF Overruled
    <3> QED BY <1>7, <2>2, <3>1, <3>3 DEF Statuses
  <2> QED BY <1>4, <2>1, <2>2
<1>10. ASSUME NEW p \in Procs, Reject(p) PROVE RowsGo
  <2>1. work[p].at = "idle" /\ UNCHANGED work
      BY <1>10 DEF Reject
  <2>2. PICK i \in 1..Len(rows) : /\ rows' = [rows EXCEPT ![i].status = "rejected"]
                                  /\ overruled' = Overruled(p, i)
      BY <1>10 DEF Reject, RowIds
  <2>3. \A q \in Procs : work'[q].at # "idle" /\ work'[q].row = i => i \in overruled'
      BY <2>1, <2>2 DEF Overruled
  <2> QED BY <1>7, <2>2, <2>3 DEF Statuses
<1>11. ASSUME NEW p \in Procs, Revised(p) PROVE RowsGo
  <2>1. rows' = rows \o work[p].new
      BY <1>11 DEF Revised, Table
  <2>2. work[p].new \in Seq(AnyRow) /\ Len(work[p].new) \in Nat
      BY <1>1, LenProperties DEF ForgeTypes, WorkSet
  <2>3. /\ Len(rows') = Len(rows) + Len(work[p].new)
        /\ \A i \in 1..Len(rows) + Len(work[p].new) : rows'[i] =
              IF i <= Len(rows) THEN rows[i] ELSE work[p].new[i - Len(rows)]
      BY <1>2, <2>1, <2>2, ConcatProperties
  <2>4. \A i \in 1..Len(rows) : i \in 1..Len(rows') /\ rows'[i] = rows[i]
      BY <1>2, <2>2, <2>3
  <2>5. \A j \in 1..Len(rows') : j \in 1..Len(rows) \/
            (j - Len(rows) \in 1..Len(work[p].new) /\ rows'[j] = work[p].new[j - Len(rows)])
      BY <1>2, <2>2, <2>3
  <2> QED BY <2>4, <2>5, MoreGo DEF Added
<1>12. ASSUME NEW p \in Procs, Tune(p) PROVE RowsGo
  <2>1. CASE rows' = Append(rows, Row("tuning", "", texts + 1, "shadow"))
    <3> DEFINE r == Row("tuning", "", texts + 1, "shadow")
    <3>1. r.kind = "tuning" /\ rows' = Append(rows, r)
        BY <2>1 DEF Row
    <3> HIDE DEF r
    <3>2. /\ Len(rows') = Len(rows) + 1 /\ rows'[Len(rows) + 1] = r
          /\ \A i \in 1..Len(rows) : rows'[i] = rows[i]
        BY <1>2, <3>1
    <3>3. \A j \in 1..Len(rows') : j \in 1..Len(rows) \/ j = Len(rows) + 1
        BY <1>2, <3>2
    <3>4. \A i \in 1..Len(rows) : i \in 1..Len(rows')
        BY <1>2, <3>2
    <3> QED BY <3>1, <3>2, <3>3, <3>4, MoreGo DEF Added
  <2>2. CASE \E i \in OpenTuning : rows' = [rows EXCEPT ![i].text = texts + 1]
    <3>1. PICK i \in 1..Len(rows) : /\ rows[i].kind = "tuning" /\ rows[i].status = "shadow"
                                    /\ rows' = [rows EXCEPT ![i].text = texts + 1]
        BY <2>2 DEF OpenTuning, RowIds
    <3> DEFINE r == [rows[i] EXCEPT !.text = texts + 1]
    <3>2. texts + 1 \in Nat
        BY <1>1 DEF ForgeTypes
    <3>3. /\ r \in AnyRow /\ r.kind = rows[i].kind /\ r.name = rows[i].name
          /\ r.status = rows[i].status
        BY <1>3, <3>2 DEF AnyRow
    <3>4. rows' = [rows EXCEPT ![i] = r]
        BY <3>1
    <3> HIDE DEF r
    <3> QED BY <3>1, <3>3, <3>4, OneGoes
  <2> QED BY <1>12, <2>1, <2>2 DEF Tune
<1>13. \/ UNCHANGED rows
       \/ \E p \in Procs : \/ Propose(p) \/ Validate(p) \/ Conclude(p) \/ Finish(p) \/ Copy(p)
                           \/ Reject(p) \/ Revised(p) \/ Tune(p)
    BY DEF ProposalsNext, proposalsVars, Forge, Review, Draft, Register, Crash, Revise, Examine,
           ApproveDraft, ApproveRetire, ApproveRevision, Patched, ApproveTuning, Use, Archive,
           Install, ResetWeights, Procs
<1> QED BY <1>4, <1>5, <1>6, <1>8, <1>9, <1>10, <1>11, <1>12, <1>13

\* Where a process's work comes from: it goes on with a row, or takes one up.
Moved(q) ==
    \/ work'[q].at \notin {"proposed", "validated", "copied", "patched", "written"}
    \/ work'[q] = work[q]
    \/ /\ work'[q].at = "proposed" /\ work[q].at = "drafted"
       /\ rows'[work'[q].row].status = "pending"
    \/ /\ work'[q].at = "validated" /\ work[q].at = "proposed" /\ work'[q].row = work[q].row
    \/ /\ work'[q].at = "copied" /\ work[q].at = "promoting" /\ work'[q].row = work[q].row
       /\ rows' = rows /\ Promotable(work[q].row)
       /\ live'[rows[work[q].row].name] # {}
    \/ /\ work'[q].at = "written" /\ work[q].at = "copied" /\ work'[q].row = work[q].row
       /\ rows' = rows /\ usage'[rows[work[q].row].name].draft # 0
    \/ /\ work'[q].at = "written" /\ work[q].at = "patched" /\ work'[q].row = work[q].row
       /\ rows' = rows
    \/ /\ work'[q].at = "patched" /\ work'[q].row \in 1..Len(rows) /\ rows' = rows
       /\ rows[work'[q].row].kind = "skill_revision"
    \/ /\ work'[q].at = "written" /\ work'[q].row \in 1..Len(rows) /\ rows' = rows
       /\ rows[work'[q].row].kind \in {"skill_retire", "tuning"}

LEMMA WorkMoves ==
    ASSUME ForgeInv, [ProposalsNext]_proposalsVars, NEW q \in Procs PROVE Moved(q)
<1>1. ForgeTypes /\ WorkFacts /\ RowFacts
    BY DEF ForgeInv
<1>2. \A p \in Procs : work[p] \in WorkSet
    BY <1>1 DEF ForgeTypes
<1>3. ASSUME UNCHANGED work PROVE Moved(q)
    BY <1>3 DEF Moved
<1>4. ASSUME NEW p \in Procs, NEW w, work' = [work EXCEPT ![p] = w], p = q => Moved(q)
      PROVE  Moved(q)
  <2>1. CASE p # q
      BY <1>1, <1>4, <2>1 DEF ForgeTypes, Moved
  <2> QED BY <1>4, <2>1
<1>5. ASSUME NEW p \in Procs, NEW w, work' = [work EXCEPT ![p] = w],
             w.at \notin {"proposed", "validated", "copied", "patched", "written"}
      PROVE  Moved(q)
  <2>1. work'[p] = w
      BY <1>1, <1>5 DEF ForgeTypes
  <2> QED BY <1>4, <1>5, <2>1 DEF Moved
<1>6. Idle.at = "idle" /\ Idle \in WorkSet
    BY IdleFact
<1>7. ASSUME NEW p \in Procs, Draft(p) \/ Conclude(p) \/ Revise(p) \/ Examine(p) \/ Revised(p)
                              \/ ApproveDraft(p) \/ Crash(p)
      PROVE  Moved(q)
  <2>1. ASSUME Draft(p) PROVE Moved(q)
    <3>1. PICK n \in Names, e \in Clusters, auto \in BOOLEAN :
              Becomes(p, [Idle EXCEPT !.at = "drafted", !.name = n,
                                  !.text = texts + 1, !.auto = auto, !.cluster = e])
        BY <2>1 DEF Draft
    <3> DEFINE w == [Idle EXCEPT !.at = "drafted", !.name = n,
                                  !.text = texts + 1, !.auto = auto, !.cluster = e]
    <3>2. w.at = "drafted"
        BY <1>6 DEF WorkSet
    <3>3. work' = [work EXCEPT ![p] = w]
        BY <3>1 DEF Becomes
    <3> HIDE DEF w
    <3> QED BY <1>5, <3>2, <3>3
  <2>2. ASSUME Conclude(p) PROVE Moved(q)
    <3>1. [work[p] EXCEPT !.at = "promoting"].at = "promoting"
        BY <1>2 DEF WorkSet
    <3> QED BY <2>2, <1>5, <1>6, <3>1 DEF Conclude, Becomes
  <2>3. ASSUME Revise(p) PROVE Moved(q)
    <3>1. PICK o, t : work' = [work EXCEPT ![p] = [Idle EXCEPT !.at = "revising", !.todo = o,
                                                      !.tallies = t]]
        BY <2>3 DEF Revise, Becomes
    <3>2. [Idle EXCEPT !.at = "revising", !.todo = o, !.tallies = t].at = "revising"
        BY <1>6 DEF WorkSet
    <3> QED BY <1>5, <3>1, <3>2
  <2>4. ASSUME Examine(p) PROVE Moved(q)
    <3>1. PICK n \in work[p].todo :
            \/ Becomes(p, [work[p] EXCEPT !.todo = @ \ {n}])
            \/ \E r : Becomes(p, [work[p] EXCEPT !.todo = @ \ {n}, !.new = Append(@, r)])
        BY <2>4 DEF Examine, Insert
    <3>2. work[p].at = "revising"
        BY <2>4 DEF Examine
    <3>3. [work[p] EXCEPT !.todo = @ \ {n}].at = "revising"
        BY <1>2, <3>2 DEF WorkSet
    <3>4. \A r : [work[p] EXCEPT !.todo = @ \ {n}, !.new = Append(@, r)].at = "revising"
        BY <1>2, <3>2 DEF WorkSet
    <3> QED BY <1>5, <3>1, <3>3, <3>4 DEF Becomes
  <2>5. ASSUME ApproveDraft(p) PROVE Moved(q)
    <3>1. PICK i : Becomes(p, [Idle EXCEPT !.at = "promoting", !.row = i])
        BY <2>5 DEF ApproveDraft, TakesUp
    <3>2. [Idle EXCEPT !.at = "promoting", !.row = i].at = "promoting"
        BY <1>6 DEF WorkSet
    <3> QED BY <1>5, <3>1, <3>2 DEF Becomes
  <2>6. ASSUME Revised(p) \/ Crash(p) PROVE Moved(q)
      BY <2>6, <1>5, <1>6 DEF Revised, Crash, Becomes
  <2> QED BY <1>7, <2>1, <2>2, <2>3, <2>4, <2>5, <2>6
<1>8. ASSUME NEW p \in Procs, Propose(p) \/ Validate(p) PROVE Moved(q)
  <2>1. CASE Propose(p)
    <3> DEFINE r == Row("skill_draft", work[p].name, work[p].text, "pending")
               w == [work[p] EXCEPT !.at = "proposed", !.row = Len(rows) + 1]
    <3>1. work[p].at = "drafted" /\ rows' = Append(rows, r) /\ work' = [work EXCEPT ![p] = w]
        BY <2>1 DEF Propose, Becomes
    <3>2. w.at = "proposed" /\ w.row = Len(rows) + 1 /\ r.status = "pending"
        BY <1>2 DEF WorkSet, Row
    <3> HIDE DEF w, r
    <3>3. rows'[Len(rows) + 1] = r
        BY <1>1, <3>1 DEF ForgeTypes
    <3>4. work'[p] = w
        BY <1>1, <3>1 DEF ForgeTypes
    <3> QED BY <1>4, <3>1, <3>2, <3>3, <3>4 DEF Moved
  <2>2. CASE Validate(p)
    <3> DEFINE w == [work[p] EXCEPT !.at = "validated", !.cluster = << >>]
    <3>1. work[p].at = "proposed" /\ work' = [work EXCEPT ![p] = w]
        BY <2>2 DEF Validate, Becomes
    <3>2. w.at = "validated" /\ w.row = work[p].row
        BY <1>2 DEF WorkSet
    <3> HIDE DEF w
    <3>3. work'[p] = w
        BY <1>1, <3>1 DEF ForgeTypes
    <3> QED BY <1>4, <3>1, <3>2, <3>3 DEF Moved
  <2> QED BY <1>8, <2>1, <2>2
<1>9. ASSUME NEW p \in Procs, Copy(p) PROVE Moved(q)
  <2>1. work[p].at = "promoting"
      BY <1>9 DEF Copy
  <2>2. CASE Becomes(p, Idle)
      BY <2>2, <1>5, <1>6 DEF Becomes
  <2>3. CASE Becomes(p, [work[p] EXCEPT !.at = "copied"]) /\ Promotable(work[p].row)
             /\ live' = [live EXCEPT ![rows[work[p].row].name] =
                            {Last(drafts[rows[work[p].row].name])}]
             /\ UNCHANGED rows
    <3> DEFINE w == [work[p] EXCEPT !.at = "copied"]
    <3>1. w.at = "copied" /\ w.row = work[p].row
        BY <1>2 DEF WorkSet
    <3> HIDE DEF w
    <3>2. work'[p] = w /\ work' = [work EXCEPT ![p] = w]
        BY <1>1, <2>3 DEF ForgeTypes, Becomes, w
    <3>3. rows[work[p].row].name \in Names
        BY <2>1, InHand DEF WithRow, Holding, RowFact
    <3>4. live'[rows[work[p].row].name] # {}
        BY <1>1, <2>3, <3>3 DEF ForgeTypes
    <3> QED BY <1>4, <2>1, <2>3, <3>1, <3>2, <3>4 DEF Moved
  <2> QED BY <1>9, <2>2, <2>3 DEF Copy
<1>10. ASSUME NEW p \in Procs, Register(p) \/ Patched(p) PROVE Moved(q)
  <2> DEFINE w == [work[p] EXCEPT !.at = "written"]
  <2>1. w.at = "written" /\ w.row = work[p].row
      BY <1>2 DEF WorkSet
  <2>2. work' = [work EXCEPT ![p] = w] /\ rows' = rows
      BY <1>10 DEF Register, Patched, Becomes
  <2> HIDE DEF w
  <2>3. work'[p] = w
      BY <1>1, <2>2 DEF ForgeTypes
  <2>4. CASE Patched(p)
      BY <1>4, <2>1, <2>2, <2>3, <2>4 DEF Moved, Patched
  <2>5. CASE Register(p)
    <3>1. rows[work[p].row].name \in Names /\ work[p].row # 0 /\ work[p].at = "copied"
        BY <2>5, InHand DEF Register, WithRow, Holding, RowFact
    <3>2. usage' = [usage EXCEPT ![rows[work[p].row].name] =
                        [stale |-> FALSE, tally |-> NoTally, draft |-> work[p].row]]
        BY <2>5 DEF Register
    <3>3. usage'[rows[work[p].row].name].draft # 0
        BY <1>1, <3>1, <3>2 DEF ForgeTypes, UsageSet
    <3> QED BY <1>4, <2>1, <2>2, <2>3, <3>1, <3>3 DEF Moved
  <2> QED BY <1>10, <2>4, <2>5
<1>11. ASSUME NEW p \in Procs, Finish(p) PROVE Moved(q)
    BY <1>11, <1>5, <1>6 DEF Finish, Becomes
<1>12. ASSUME NEW p \in Procs, ApproveRetire(p) \/ ApproveRevision(p) \/ ApproveTuning(p)
       PROVE  Moved(q)
  <2>1. PICK i \in 1..Len(rows), at \in {"patched", "written"} :
          /\ work' = [work EXCEPT ![p] = [Idle EXCEPT !.at = at, !.row = i]]
          /\ rows' = rows
          /\ at = "patched" => rows[i].kind = "skill_revision"
          /\ at = "written" => rows[i].kind \in {"skill_retire", "tuning"}
      BY <1>12 DEF ApproveRetire, ApproveRevision, ApproveTuning, TakesUp, Becomes, RowIds
  <2> DEFINE w == [Idle EXCEPT !.at = at, !.row = i]
  <2>2. w.at = at /\ w.row = i
      BY <1>6 DEF WorkSet
  <2>3. work' = [work EXCEPT ![p] = w]
      BY <2>1
  <2> HIDE DEF w
  <2>4. work'[p] = w
      BY <1>1, <2>3 DEF ForgeTypes
  <2> QED BY <1>4, <2>1, <2>2, <2>3, <2>4 DEF Moved
<1>13. UNCHANGED work
       \/ \E p \in Procs :
            \/ Draft(p) \/ Conclude(p) \/ Revise(p) \/ Examine(p) \/ Revised(p) \/ ApproveDraft(p)
            \/ Crash(p) \/ Propose(p) \/ Validate(p) \/ Copy(p) \/ Register(p) \/ Patched(p)
            \/ Finish(p) \/ ApproveRetire(p) \/ ApproveRevision(p) \/ ApproveTuning(p)
    BY DEF ProposalsNext, proposalsVars, Forge, Review, Tune, Reject, Use, Archive,
           Install, ResetWeights, Procs
<1> QED BY <1>3, <1>7, <1>8, <1>9, <1>10, <1>11, <1>12, <1>13

Lives(n) == live'[n] # {} \/ n \in archived'

\* A row in hand is there, and stays what it is.
LEMMA InHandStays ==
    ASSUME ForgeInv, RowsGo, NEW q \in Procs, work[q].at \in WithRow
    PROVE  /\ work[q].row \in 1..Len(rows) /\ work[q].row \in 1..Len(rows')
           /\ rows'[work[q].row].kind = rows[work[q].row].kind
           /\ rows'[work[q].row].name = rows[work[q].row].name
           /\ Decides(work[q].row)
<1>1. work[q].row \in 1..Len(rows)
    BY InHand
<1> QED BY <1>1 DEF RowsGo, Goes

\* The names of files are the rows', which have names.
LEMMA NamesOfDrafts ==
    ASSUME ForgeInv, NEW i \in 1..Len(rows), rows[i].kind = "skill_draft"
    PROVE  rows[i].name \in Names
    BY DEF ForgeInv, RowFacts, RowFact

LEMMA OnDiskStays ==
    ASSUME ForgeInv, OnDisk, [ProposalsNext]_proposalsVars PROVE OnDisk'
<1>1. RowsGo
    BY RowsAllGo
<1>2. ASSUME NEW n \in Names, Alive(n) PROVE Lives(n)
    BY <1>2, FilesGo DEF Alive, Lives
<1>3. ASSUME NEW n \in Names, usage[n].draft # 0 PROVE usage'[n].draft # 0
    BY <1>3, FilesGo
<1>4. SUFFICES ASSUME NEW q \in Procs
      PROVE  LET n == rows'[work'[q].row].name
             IN  /\ work'[q].at = "patched" => rows'[work'[q].row].kind = "skill_revision"
                 /\ work'[q].at = "copied" \/ Promoted(q)' => Lives(n)
                 /\ Promoted(q)' => usage'[n].draft # 0
    BY DEF OnDisk, Alive, Lives
<1>5. Moved(q)
    BY WorkMoves
<1>6. CASE work'[q].at \notin {"copied", "patched", "written"}
    BY <1>6 DEF Promoted
<1>7. CASE work'[q] = work[q] /\ work[q].at \in {"copied", "patched", "written"}
  <2>1. /\ work[q].row \in 1..Len(rows)
        /\ rows'[work[q].row].kind = rows[work[q].row].kind
        /\ rows'[work[q].row].name = rows[work[q].row].name
        /\ work[q].at = "copied" => rows[work[q].row].kind = "skill_draft"
      BY <1>1, <1>7, InHandStays, InHand DEF WithRow, Holding
  <2>2. work[q].at = "copied" \/ Promoted(q) => rows[work[q].row].name \in Names
      BY <2>1, NamesOfDrafts DEF Promoted
  <2>3. Promoted(q)' <=> Promoted(q)
      BY <1>7, <2>1 DEF Promoted
  <2> DEFINE n == rows[work[q].row].name
  <2>4. /\ work[q].at = "patched" => rows[work[q].row].kind = "skill_revision"
        /\ work[q].at = "copied" \/ Promoted(q) => Alive(n)
        /\ Promoted(q) => usage[n].draft # 0
      BY DEF OnDisk
  <2>5. rows'[work'[q].row].name = n
      BY <1>7, <2>1
  <2> HIDE DEF n
  <2>6. work[q].at = "copied" \/ Promoted(q) => Lives(n)
      BY <1>2, <2>2, <2>4 DEF n
  <2>7. Promoted(q) => usage'[n].draft # 0
      BY <1>3, <2>2, <2>4 DEF n
  <2> QED BY <1>7, <2>1, <2>3, <2>4, <2>5, <2>6, <2>7
<1>8. CASE /\ work'[q].at = "copied" /\ work'[q].row = work[q].row /\ rows' = rows
           /\ live'[rows[work[q].row].name] # {}
    BY <1>8 DEF Lives, Promoted
<1>9. CASE /\ work'[q].at = "written" /\ work[q].at = "copied" /\ work'[q].row = work[q].row
           /\ rows' = rows /\ usage'[rows[work[q].row].name].draft # 0
  <2> DEFINE n == rows[work[q].row].name
  <2>1. rows[work[q].row].kind = "skill_draft" /\ work[q].row \in 1..Len(rows)
      BY <1>9, InHand DEF WithRow, Holding
  <2>2. n \in Names
      BY <2>1, NamesOfDrafts
  <2>3. Alive(n)
      BY <1>9 DEF OnDisk
  <2>4. rows'[work'[q].row].name = n /\ usage'[n].draft # 0
      BY <1>9
  <2> HIDE DEF n
  <2>5. Lives(n)
      BY <1>2, <2>2, <2>3
  <2> QED BY <1>9, <2>4, <2>5
<1>10. CASE /\ work'[q].at = "written" /\ work'[q].row \in 1..Len(rows) /\ rows' = rows
            /\ rows[work'[q].row].kind \in {"skill_retire", "skill_revision", "tuning"}
    BY <1>10 DEF Promoted
<1>11. CASE /\ work'[q].at = "written" /\ work[q].at = "patched" /\ work'[q].row = work[q].row
            /\ rows' = rows
  <2>1. work[q].row \in 1..Len(rows) /\ rows[work[q].row].kind = "skill_revision"
      BY <1>11, InHand DEF OnDisk, WithRow
  <2> QED BY <1>10, <1>11, <2>1
<1>12. CASE /\ work'[q].at = "patched" /\ rows' = rows
            /\ rows[work'[q].row].kind = "skill_revision"
    BY <1>12 DEF Promoted
<1> QED BY <1>5, <1>6, <1>7, <1>8, <1>9, <1>10, <1>11, <1>12 DEF Moved

\* A row becomes applied when its files are written.
LEMMA AppliedStays ==
    ASSUME ForgeInv, Ours, OnDisk, AppliedIsLive, [ProposalsNext]_proposalsVars
    PROVE  AppliedIsLive'
<1>1. RowsGo /\ ForgeTypes /\ ForgeInv'
    BY RowsAllGo, NextForge DEF ForgeInv
<1>2. ASSUME NEW n \in Names, usage[n].draft # 0, Alive(n)
      PROVE  usage'[n].draft # 0 /\ (live'[n] # {} \/ n \in archived')
    BY <1>2, FilesGo DEF Alive
<1>3. SUFFICES ASSUME NEW i \in 1..Len(rows'), rows'[i].kind = "skill_draft",
                      rows'[i].status = "applied"
      PROVE  /\ usage'[rows'[i].name].draft # 0
             /\ live'[rows'[i].name] # {} \/ rows'[i].name \in archived'
    BY DEF AppliedIsLive, RowIds
<1>4. CASE i \in 1..Len(rows)
  <2>1. rows[i].kind = "skill_draft" /\ rows'[i].name = rows[i].name /\ Decides(i)
      BY <1>1, <1>3, <1>4 DEF RowsGo, Goes
  <2>2. rows[i].name \in Names
      BY <1>4, <2>1, NamesOfDrafts
  <2>3. usage[rows[i].name].draft # 0 /\ Alive(rows[i].name)
    <3>1. CASE rows[i].status = "applied"
        BY <1>4, <2>1, <3>1 DEF AppliedIsLive, RowIds, Alive
    <3>2. CASE \E p \in Procs : work[p].row = i /\ work[p].at = "written"
        BY <2>1, <3>2 DEF OnDisk, Promoted
    <3> QED BY <1>3, <2>1, <3>1, <3>2 DEF Decides
  <2> QED BY <1>2, <2>1, <2>2, <2>3
<1>5. CASE i \notin 1..Len(rows)
    BY <1>1, <1>3, <1>5 DEF RowsGo, Added, Ours
<1> QED BY <1>4, <1>5

LEMMA DecidedStays ==
    ASSUME ForgeInv, OnDisk, Decided, [ProposalsNext]_proposalsVars PROVE Decided'
<1>1. RowsGo /\ overruled \subseteq overruled'
    BY RowsAllGo, FilesGo
<1>2. SUFFICES ASSUME NEW q \in Procs,
                      \/ work'[q].at \in {"proposed", "validated", "copied"}
                      \/ work'[q].at = "written" /\ rows'[work'[q].row].kind = "skill_draft",
                      rows'[work'[q].row].status = "rejected"
      PROVE  work'[q].row \in overruled'
    BY DEF Decided, Promoted
<1>3. Moved(q)
    BY WorkMoves
<1>4. ASSUME work[q].at \in {"proposed", "validated", "copied"} \/ Promoted(q),
             work'[q].row = work[q].row
      PROVE  work'[q].row \in overruled'
  <2>1. work[q].at \in WithRow
      BY <1>4 DEF Promoted, WithRow, Holding, Owning
  <2>2. Decides(work[q].row)
      BY <1>1, <2>1, InHandStays
  <2>3. CASE rows'[work[q].row].status = rows[work[q].row].status
      BY <1>1, <1>2, <1>4, <2>3 DEF Decided
  <2>4. CASE work'[q].at # "idle" /\ work'[q].row = work[q].row => work[q].row \in overruled'
      BY <1>2, <1>4, <2>4
  <2> QED BY <1>2, <1>4, <2>2, <2>3, <2>4 DEF Decides
<1>5. CASE work'[q] = work[q]
  <2>1. work[q].at \in WithRow
      BY <1>2, <1>5 DEF WithRow, Holding, Owning
  <2>2. rows'[work[q].row].kind = rows[work[q].row].kind
      BY <1>1, <2>1, InHandStays
  <2> QED BY <1>2, <1>4, <1>5, <2>2 DEF Promoted
<1>6. CASE work'[q].at = "validated" /\ work[q].at = "proposed" /\ work'[q].row = work[q].row
    BY <1>4, <1>6
<1>7. CASE /\ work'[q].at = "copied" /\ work[q].at = "promoting" /\ work'[q].row = work[q].row
           /\ rows' = rows /\ Promotable(work[q].row)
    BY <1>2, <1>7 DEF Promotable
<1>8. CASE /\ work'[q].at = "written" /\ work[q].at = "copied" /\ work'[q].row = work[q].row
    BY <1>4, <1>8
<1>9. CASE /\ work'[q].at = "written" /\ work[q].at = "patched" /\ work'[q].row = work[q].row
           /\ rows' = rows
    BY <1>2, <1>9 DEF OnDisk
<1> QED BY <1>2, <1>3, <1>5, <1>6, <1>7, <1>8, <1>9 DEF Moved

\* A decision that is not overruled is final, and an applied text.
LEMMA DecisionsStand ==
    ASSUME ForgeInv, Decided, [ProposalsNext]_proposalsVars
    PROVE  \A i \in RowIds :
             /\ rows[i].status = "applied" => rows'[i].text = rows[i].text
             /\ rows[i].kind = "skill_draft" /\ rows[i].status = "rejected"
                => rows'[i].status = "rejected" \/ i \in overruled
<1>1. RowsGo
    BY RowsAllGo
<1>2. SUFFICES ASSUME NEW i \in 1..Len(rows)
      PROVE  /\ rows[i].status = "applied" => rows'[i].text = rows[i].text
             /\ rows[i].kind = "skill_draft" /\ rows[i].status = "rejected"
                => rows'[i].status = "rejected" \/ i \in overruled
    BY DEF RowIds
<1>3. Goes(i)
    BY <1>1 DEF RowsGo
<1>4. ASSUME rows[i].kind = "skill_draft", rows[i].status = "rejected"
      PROVE  rows'[i].status = "rejected" \/ i \in overruled
  <2>1. CASE \E p \in Procs : work[p].row = i /\ work[p].at \in {"validated", "written"}
      BY <1>4, <2>1 DEF Decided, Promoted
  <2> QED BY <1>3, <1>4, <2>1 DEF Goes, Decides
<1> QED BY <1>3, <1>4 DEF Goes

\* A file changes, then its tally begins again: what is counted is of the text
\* the file has now, or the name is torn.
LEMMA TallyStays ==
    ASSUME ForgeInv, Counts, TallyFresh, [ProposalsNext]_proposalsVars PROVE TallyFresh'
<1>1. ForgeTypes
    BY DEF ForgeInv
<1>2. /\ live \in [Names -> SUBSET ((1..texts) \cup {Host})] /\ usage \in UsageSet
      /\ counted \in [Names -> SUBSET (Nat \cup {Host})]
    BY <1>1 DEF ForgeTypes, Counts
<1>3. SUFFICES ASSUME NEW m \in Names, usage'[m].tally # NoTally, live'[m] \notin {{}, {Host}}
      PROVE  counted'[m] = live'[m] \/ m \in torn'
    BY DEF TallyFresh
<1>4. usage[m] \in [stale : BOOLEAN, tally : Tallies, draft : Nat]
    BY <1>2 DEF UsageSet
<1>5. ASSUME counted' = counted, live'[m] = live[m], usage'[m].tally = usage[m].tally,
             m \in torn => m \in torn'
      PROVE  counted'[m] = live'[m] \/ m \in torn'
    BY <1>3, <1>5 DEF TallyFresh
<1>6. ASSUME UNCHANGED <<live, usage, counted, torn>>
      PROVE  counted'[m] = live'[m] \/ m \in torn'
    BY <1>5, <1>6
<1>7. ASSUME NEW n, NEW s, live' = [live EXCEPT ![n] = s],
             UNCHANGED <<usage, counted>>, torn' = torn \cup {n}
      PROVE  counted'[m] = live'[m] \/ m \in torn'
  <2>1. m # n => live'[m] = live[m]
      BY <1>2, <1>7
  <2> QED BY <1>5, <1>7, <2>1
<1>8. ASSUME NEW n, NEW s \in {{}, {Host}}, live' = [live EXCEPT ![n] = s],
             UNCHANGED <<usage, counted, torn>>
      PROVE  counted'[m] = live'[m] \/ m \in torn'
  <2>1. m # n /\ live'[m] = live[m]
      BY <1>2, <1>3, <1>8
  <2> QED BY <1>5, <1>8, <2>1
<1>9. ASSUME NEW n, torn' = torn \ {n}, UNCHANGED <<live, counted>>,
             \/ \E d : usage' = [usage EXCEPT ![n] =
                           [stale |-> FALSE, tally |-> NoTally, draft |-> d]]
             \/ usage' = [usage EXCEPT ![n].tally = NoTally]
      PROVE  counted'[m] = live'[m] \/ m \in torn'
  <2>1. CASE m = n
    <3>1. usage'[m].tally = NoTally
        BY <1>2, <1>4, <1>9, <2>1 DEF UsageSet
    <3> QED BY <1>3, <3>1
  <2>2. CASE m # n
    <3>1. usage'[m] = usage[m]
        BY <1>2, <1>9, <2>2 DEF UsageSet
    <3> QED BY <1>5, <1>9, <2>2, <3>1
  <2> QED BY <2>1, <2>2
<1>10. ASSUME NEW n, usage' = [usage EXCEPT ![n].stale = TRUE], UNCHANGED <<live, counted, torn>>
       PROVE  counted'[m] = live'[m] \/ m \in torn'
  <2>1. usage'[m] = usage[m] \/ usage'[m] = [usage[m] EXCEPT !.stale = TRUE]
      BY <1>2, <1>10 DEF UsageSet
  <2>2. usage'[m].tally = usage[m].tally
      BY <1>4, <2>1
  <2> QED BY <1>5, <1>10, <2>2
<1>11. ASSUME NEW n \in Names, Use(n) PROVE counted'[m] = live'[m] \/ m \in torn'
  <2>1. UNCHANGED <<live, torn>>
      BY <1>11 DEF Use
  <2>2. PICK t \in Tallies : usage' = [usage EXCEPT ![n].tally = t]
      BY <1>11 DEF Use
  <2>3. CASE m # n
    <3>1. usage'[m] = usage[m]
        BY <1>2, <2>2, <2>3 DEF UsageSet
    <3>2. counted' = counted \/ counted' = [counted EXCEPT ![n] = live[n]]
        BY <1>11 DEF Use
    <3>3. counted'[m] = counted[m]
        BY <1>2, <2>3, <3>2
    <3> QED BY <1>3, <2>1, <3>1, <3>3 DEF TallyFresh
  <2>4. CASE m = n /\ usage[n].tally = NoTally
    <3>1. counted' = [counted EXCEPT ![n] = live[n]]
        BY <1>11, <2>4 DEF Use
    <3>2. counted'[n] = live[n]
        BY <1>2, <3>1
    <3> QED BY <2>1, <2>4, <3>2
  <2>5. CASE m = n /\ usage[n].tally # NoTally
    <3>1. counted' = counted
        BY <1>11, <2>5 DEF Use
    <3> QED BY <1>3, <2>1, <2>5, <3>1 DEF TallyFresh
  <2> QED BY <2>3, <2>4, <2>5
<1>12. ASSUME NEW p \in Procs, Copy(p) \/ ApproveRevision(p)
       PROVE  counted'[m] = live'[m] \/ m \in torn'
  <2>1. UNCHANGED <<usage, counted>>
      BY <1>12 DEF Copy, ApproveRevision
  <2>2. UNCHANGED <<live, torn>>
        \/ \E n, s : live' = [live EXCEPT ![n] = s] /\ torn' = torn \cup {n}
      BY <1>12 DEF Copy, ApproveRevision
  <2> QED BY <1>6, <1>7, <2>1, <2>2
<1>13. ASSUME NEW p \in Procs, Register(p) \/ Patched(p)
       PROVE  counted'[m] = live'[m] \/ m \in torn'
    BY <1>9, <1>13 DEF Register, Patched, HealthWindow
<1>14. ASSUME NEW p \in Procs, ApproveRetire(p) PROVE counted'[m] = live'[m] \/ m \in torn'
    BY <1>10, <1>14 DEF ApproveRetire, history
<1>15. ASSUME NEW n \in Names, Archive(n) \/ Install(n)
       PROVE  counted'[m] = live'[m] \/ m \in torn'
  <2>1. UNCHANGED <<usage, counted, torn>>
      BY <1>15 DEF Archive, Install
  <2>2. UNCHANGED live \/ \E s \in {{}, {Host}} : live' = [live EXCEPT ![n] = s]
      BY <1>15 DEF Archive, Install
  <2> QED BY <1>6, <1>8, <2>1, <2>2
<1>16. \/ UNCHANGED <<live, usage, counted, torn>>
       \/ \E p \in Procs : \/ Copy(p) \/ ApproveRevision(p) \/ Register(p) \/ Patched(p)
                           \/ ApproveRetire(p)
       \/ \E n \in Names : Use(n) \/ Archive(n) \/ Install(n)
    BY DEF ProposalsNext, proposalsVars, disk, history, Forge, Review, Draft, Propose, Validate,
           Conclude, Finish, Crash, Revise, Examine, Revised, Tune, Reject, ApproveDraft,
           ApproveTuning, ResetWeights, Procs
<1> QED BY <1>6, <1>11, <1>12, <1>13, <1>14, <1>15, <1>16

\* A row that is no tuning is of a name the brain has drafted.
LEMMA DraftedNames ==
    ASSUME ForgeInv, NEW n \in Names, NEW t \in Named(drafts, n) PROVE Begun(n)
<1>1. drafts[n] \in Seq(Nat)
    BY DEF ForgeInv, ForgeTypes
<1>2. CASE drafts[n] = << >>
    BY <1>2, EmptySeq DEF Named
<1> QED BY <1>2 DEF Begun

\* Begun, after the step.
Starts(n) == drafts'[n] # << >>

LEMMA OursStays ==
    ASSUME ForgeInv, Ours, [ProposalsNext]_proposalsVars PROVE Ours'
<1>1. ForgeTypes /\ WorkFacts /\ RowFacts /\ RowsGo
    BY RowsAllGo DEF ForgeInv
<1>2. /\ live \in [Names -> SUBSET ((1..texts) \cup {Host})] /\ usage \in UsageSet
      /\ work \in [Procs -> WorkSet]
    BY <1>1 DEF ForgeTypes
<1>3. ASSUME NEW n \in Names, Begun(n) PROVE Starts(n)
    BY <1>3, FilesGo DEF Starts
<1>4. ASSUME NEW i \in 1..Len(rows), rows[i].kind # "tuning"
      PROVE  rows[i].name \in Names /\ Begun(rows[i].name)
    BY <1>1, <1>4 DEF Ours, RowFacts, RowFact
<1>5. ASSUME NEW p \in Procs, NEW k \in 1..Len(work[p].new)
      PROVE  /\ work[p].new[k].kind \in {"skill_revision", "skill_retire"}
             /\ work[p].new[k].name \in Names /\ Begun(work[p].new[k].name)
  <2>1. RowFact(work[p].new[k], drafts, passed, texts)
      BY <1>1, <1>5 DEF WorkFacts, WorkFact
  <2> QED BY <2>1, <1>5 DEF Ours, RowFact
<1>6. ASSUME NEW m \in Names, live'[m] # {}, Host \notin live'[m] PROVE Starts(m)
  <2>1. CASE live'[m] = live[m]
      BY <1>3, <1>6, <2>1 DEF Ours
  <2>2. ASSUME NEW i \in 1..Len(rows), rows[i].kind # "tuning", rows[i].name = m PROVE Starts(m)
      BY <1>3, <1>4, <2>2
  <2>3. ASSUME NEW p \in Procs, Copy(p) PROVE Starts(m)
    <3>1. UNCHANGED live \/ \E s : live' = [live EXCEPT ![rows[work[p].row].name] = s]
        BY <2>3 DEF Copy
    <3>2. live'[m] = live[m] \/ m = rows[work[p].row].name
        BY <1>2, <3>1
    <3>3. work[p].row \in 1..Len(rows) /\ rows[work[p].row].kind = "skill_draft"
        BY <2>3, InHand DEF Copy, WithRow, Holding
    <3> QED BY <2>1, <2>2, <3>2, <3>3
  <2>4. ASSUME NEW p \in Procs, ApproveRevision(p) PROVE Starts(m)
    <3>1. PICK i \in 1..Len(rows) :
              /\ rows[i].kind = "skill_revision"
              /\ live' = [live EXCEPT ![rows[i].name] = @ \cup {rows[i].text}]
        BY <2>4 DEF ApproveRevision, RowIds
    <3>2. live'[m] = live[m] \/ m = rows[i].name
        BY <1>2, <3>1
    <3> QED BY <2>1, <2>2, <3>1, <3>2
  <2>5. ASSUME NEW n \in Names, Archive(n) \/ Install(n) PROVE Starts(m)
    <3>1. UNCHANGED live \/ \E s \in {{}, {Host}} : live' = [live EXCEPT ![n] = s]
        BY <2>5 DEF Archive, Install
    <3>2. live'[m] = live[m]
        BY <1>2, <1>6, <3>1
    <3> QED BY <2>1, <3>2
  <2>6. \/ UNCHANGED live
        \/ \E p \in Procs : Copy(p) \/ ApproveRevision(p)
        \/ \E n \in Names : Archive(n) \/ Install(n)
      BY DEF ProposalsNext, proposalsVars, disk, history, Forge, Review, Draft, Propose, Validate,
             Conclude, Register, Finish, Crash, Revise, Examine, Revised, Tune, Reject,
             ApproveDraft, ApproveRetire, Patched, ApproveTuning, Use, ResetWeights, Procs
  <2> QED BY <2>1, <2>3, <2>4, <2>5, <2>6
<1>7. ASSUME NEW m \in Names, usage'[m].stale PROVE Starts(m)
  <2>1. CASE usage'[m].stale = usage[m].stale
      BY <1>3, <1>7, <2>1 DEF Ours
  <2>2. usage[m] \in [stale : BOOLEAN, tally : Tallies, draft : Nat]
      BY <1>2 DEF UsageSet
  <2>3. ASSUME NEW p \in Procs, ApproveRetire(p) PROVE Starts(m)
    <3>1. PICK i \in 1..Len(rows) : /\ rows[i].kind = "skill_retire"
                                    /\ usage' = [usage EXCEPT ![rows[i].name].stale = TRUE]
        BY <2>3 DEF ApproveRetire, RowIds
    <3>2. usage'[m] = usage[m] \/ m = rows[i].name
        BY <1>2, <3>1 DEF UsageSet
    <3> QED BY <1>3, <1>4, <2>1, <3>1, <3>2
  <2>4. ASSUME NEW n, NEW t, usage' = [usage EXCEPT ![n].tally = t] PROVE Starts(m)
    <3>1. usage'[m] = usage[m] \/ usage'[m] = [usage[m] EXCEPT !.tally = t]
        BY <1>2, <2>4 DEF UsageSet
    <3> QED BY <2>1, <2>2, <3>1
  <2>5. ASSUME NEW n, NEW d,
               usage' = [usage EXCEPT ![n] = [stale |-> FALSE, tally |-> NoTally, draft |-> d]]
        PROVE  Starts(m)
    <3>1. usage'[m] = usage[m] \/ usage'[m] = [stale |-> FALSE, tally |-> NoTally, draft |-> d]
        BY <1>2, <2>5 DEF UsageSet
    <3>2. CASE usage'[m] = [stale |-> FALSE, tally |-> NoTally, draft |-> d]
      <4>1. ~usage'[m].stale
          BY <3>2
      <4> QED BY <1>7, <4>1
    <3>3. CASE usage'[m] = usage[m]
        BY <2>1, <3>3
    <3> QED BY <3>1, <3>2, <3>3
  <2>6. \/ UNCHANGED usage
        \/ \E n, t : usage' = [usage EXCEPT ![n].tally = t]
        \/ \E n, d : usage' = [usage EXCEPT ![n] = [stale |-> FALSE, tally |-> NoTally,
                                                     draft |-> d]]
        \/ \E p \in Procs : ApproveRetire(p)
      BY DEF ProposalsNext, proposalsVars, disk, Forge, Review, Draft, Propose, Validate, Conclude,
             Copy, Register, Finish, Crash, Revise, Examine, Revised, Tune, Reject, ApproveDraft,
             ApproveRevision, Patched, ApproveTuning, Use, Archive, Install, ResetWeights, Procs
  <2> QED BY <2>1, <2>3, <2>4, <2>5, <2>6
<1>8. ASSUME NEW i \in 1..Len(rows'), rows'[i].kind # "tuning" PROVE Starts(rows'[i].name)
  <2>1. CASE i \in 1..Len(rows)
    <3>1. rows'[i].kind = rows[i].kind /\ rows'[i].name = rows[i].name
        BY <1>1, <2>1 DEF RowsGo, Goes
    <3> QED BY <1>3, <1>4, <1>8, <2>1, <3>1
  <2>2. ASSUME NEW p \in Procs, work[p].at = "drafted", rows'[i].name = work[p].name
        PROVE  Starts(rows'[i].name)
    <3>1. work[p].name \in Names /\ work[p].text \in Named(drafts, work[p].name)
        BY <1>1, <2>2 DEF WorkFacts, WorkFact
    <3>2. Begun(work[p].name)
        BY <3>1, DraftedNames
    <3> QED BY <1>3, <2>2, <3>1, <3>2
  <2>3. ASSUME NEW p \in Procs, NEW k \in 1..Len(work[p].new), rows'[i] = work[p].new[k]
        PROVE  Starts(rows'[i].name)
      BY <1>3, <1>5, <2>3
  <2> QED BY <1>1, <1>8, <2>1, <2>2, <2>3 DEF RowsGo, Added
<1>9. ASSUME NEW q \in Procs
      PROVE  /\ \A n \in work'[q].todo : Starts(n)
             /\ \A k \in 1..Len(work'[q].new) :
                 /\ work'[q].new[k].kind \in {"skill_revision", "skill_retire"}
                 /\ Starts(work'[q].new[k].name)
  <2> DEFINE Good(w) ==
        /\ \A n \in w.todo : Starts(n)
        /\ \A k \in 1..Len(w.new) :
             w.new[k].kind \in {"skill_revision", "skill_retire"} /\ Starts(w.new[k].name)
  <2>1. Good(work[q])
    <3>1. work[q].todo \subseteq Names
        BY <1>2 DEF WorkSet
    <3> QED BY <1>3, <1>5, <3>1 DEF Ours
  <2>2. \A w : w.todo = {} /\ w.new = << >> => Good(w)
      BY EmptySeq
  <2>3. \A v, w : v.todo \subseteq w.todo /\ v.new = w.new /\ Good(w) => Good(v)
      OBVIOUS
  <2>4. Idle.todo = {} /\ Idle.new = << >> /\ Idle \in WorkSet
      BY IdleFact DEF Idle
  <2> HIDE DEF Good
  <2>5. ASSUME NEW p \in Procs, NEW w, work' = [work EXCEPT ![p] = w], p = q => Good(w)
        PROVE  Good(work'[q])
      BY <1>2, <2>1, <2>5
  <2>6. ASSUME NEW p \in Procs, NEW w, work' = [work EXCEPT ![p] = w],
               \/ w.todo = {} /\ w.new = << >>
               \/ w.todo = work[p].todo /\ w.new = work[p].new
        PROVE  Good(work'[q])
    <3>1. p = q => Good(w)
        BY <2>1, <2>2, <2>3, <2>6
    <3> QED BY <2>5, <2>6, <3>1
  <2>7. ASSUME NEW p \in Procs, Revise(p) PROVE Good(work'[q])
    <3>1. PICK t : work' = [work EXCEPT ![p] = [Idle EXCEPT !.at = "revising",
                              !.todo = {n \in Names : BrainOwned(n)}, !.tallies = t]]
        BY <2>7 DEF Revise, Becomes
    <3> DEFINE w == [Idle EXCEPT !.at = "revising",
                              !.todo = {n \in Names : BrainOwned(n)}, !.tallies = t]
    <3>2. w.todo = {n \in Names : BrainOwned(n)} /\ w.new = << >>
        BY <2>4 DEF WorkSet
    <3>3. work' = [work EXCEPT ![p] = w]
        BY <3>1
    <3> HIDE DEF w
    <3>4. \A n \in w.todo : Starts(n)
        BY <1>3, <3>2 DEF BrainOwned, Ours
    <3>5. Good(w)
        BY <3>2, <3>4, EmptySeq DEF Good
    <3> QED BY <2>5, <3>3, <3>5
  <2>8. ASSUME NEW p \in Procs, Examine(p) PROVE Good(work'[q])
    <3>1. PICK n \in work[p].todo :
            \/ work' = [work EXCEPT ![p] = [work[p] EXCEPT !.todo = @ \ {n}]]
            \/ \E r \in {Row("skill_retire", n, 0, "pending"),
                         Row("skill_revision", n, texts + 1, "pending")} :
                 work' = [work EXCEPT ![p] = [work[p] EXCEPT !.todo = @ \ {n}, !.new = Append(@, r)]]
        BY <2>8 DEF Examine, Insert, Becomes
    <3>2. work[p] \in WorkSet /\ n \in Names /\ Begun(n)
        BY <1>2 DEF Ours, WorkSet
    <3>3. p = q => Good(work[p])
        BY <2>1
    <3>4. CASE work' = [work EXCEPT ![p] = [work[p] EXCEPT !.todo = @ \ {n}]]
      <4> DEFINE w == [work[p] EXCEPT !.todo = @ \ {n}]
      <4>1. w.todo \subseteq work[p].todo /\ w.new = work[p].new
          BY <3>2 DEF WorkSet
      <4>2. work' = [work EXCEPT ![p] = w]
          BY <3>4
      <4> HIDE DEF w
      <4> QED BY <2>3, <2>5, <3>3, <4>1, <4>2
    <3>5. ASSUME NEW r \in {Row("skill_retire", n, 0, "pending"),
                            Row("skill_revision", n, texts + 1, "pending")},
                 work' = [work EXCEPT ![p] = [work[p] EXCEPT !.todo = @ \ {n}, !.new = Append(@, r)]]
          PROVE  Good(work'[q])
      <4> DEFINE w == [work[p] EXCEPT !.todo = @ \ {n}, !.new = Append(@, r)]
      <4>1. w.todo \subseteq work[p].todo /\ w.new = Append(work[p].new, r)
          BY <3>2 DEF WorkSet
      <4>2. work' = [work EXCEPT ![p] = w]
          BY <3>5
      <4>3. r.kind \in {"skill_revision", "skill_retire"} /\ r.name = n
          BY <3>5 DEF Row
      <4> HIDE DEF w
      <4>4. work[p].new \in Seq(AnyRow) /\ Len(work[p].new) \in Nat
          BY <3>2, LenProperties DEF WorkSet
      <4>5. /\ Len(w.new) = Len(work[p].new) + 1 /\ w.new[Len(work[p].new) + 1] = r
            /\ \A k \in 1..Len(work[p].new) : w.new[k] = work[p].new[k]
          BY <4>1, <4>4
      <4>6. \A k \in 1..Len(w.new) : k \in 1..Len(work[p].new) \/ k = Len(work[p].new) + 1
          BY <4>4, <4>5
      <4>7. Starts(r.name)
          BY <1>3, <3>2, <4>3
      <4>8. p = q => Good(w)
          BY <3>3, <4>1, <4>3, <4>5, <4>6, <4>7 DEF Good
      <4> QED BY <2>5, <4>2, <4>8
    <3> QED BY <3>1, <3>4, <3>5
  <2>9. ASSUME NEW p \in Procs, Draft(p) PROVE Good(work'[q])
    <3>1. PICK n \in Names, e \in Clusters, auto \in BOOLEAN :
              Becomes(p, [Idle EXCEPT !.at = "drafted", !.name = n,
                                  !.text = texts + 1, !.auto = auto, !.cluster = e])
        BY <2>9 DEF Draft
    <3> DEFINE w == [Idle EXCEPT !.at = "drafted", !.name = n,
                                  !.text = texts + 1, !.auto = auto, !.cluster = e]
    <3>2. w.todo = {} /\ w.new = << >>
        BY <2>4 DEF WorkSet
    <3>3. work' = [work EXCEPT ![p] = w]
        BY <3>1 DEF Becomes
    <3> HIDE DEF w
    <3> QED BY <2>6, <3>2, <3>3
  <2>10. ASSUME NEW p \in Procs, NEW i, NEW at,
                work' = [work EXCEPT ![p] = [Idle EXCEPT !.at = at, !.row = i]]
         PROVE  Good(work'[q])
    <3> DEFINE w == [Idle EXCEPT !.at = at, !.row = i]
    <3>1. w.todo = {} /\ w.new = << >>
        BY <2>4 DEF WorkSet
    <3>2. work' = [work EXCEPT ![p] = w]
        BY <2>10
    <3> HIDE DEF w
    <3> QED BY <2>6, <3>1, <3>2
  <2>11. ASSUME NEW p \in Procs, work' = [work EXCEPT ![p] = Idle] PROVE Good(work'[q])
      BY <2>4, <2>6, <2>11
  <2>12. ASSUME NEW p \in Procs, NEW at, work' = [work EXCEPT ![p] = [work[p] EXCEPT !.at = at]]
         PROVE  Good(work'[q])
    <3> DEFINE w == [work[p] EXCEPT !.at = at]
    <3>1. w.todo = work[p].todo /\ w.new = work[p].new
        BY <1>2 DEF WorkSet
    <3>2. work' = [work EXCEPT ![p] = w]
        BY <2>12
    <3> HIDE DEF w
    <3> QED BY <2>6, <3>1, <3>2
  <2>13. ASSUME NEW p \in Procs, Propose(p) \/ Validate(p) PROVE Good(work'[q])
    <3>1. \/ work' = [work EXCEPT ![p] = [work[p] EXCEPT !.at = "proposed", !.row = Len(rows) + 1]]
          \/ work' = [work EXCEPT ![p] = [work[p] EXCEPT !.at = "validated", !.cluster = << >>]]
        BY <2>13 DEF Propose, Validate, Becomes
    <3>2. /\ [work[p] EXCEPT !.at = "proposed", !.row = Len(rows) + 1].todo = work[p].todo
          /\ [work[p] EXCEPT !.at = "proposed", !.row = Len(rows) + 1].new = work[p].new
          /\ [work[p] EXCEPT !.at = "validated", !.cluster = << >>].todo = work[p].todo
          /\ [work[p] EXCEPT !.at = "validated", !.cluster = << >>].new = work[p].new
        BY <1>2 DEF WorkSet
    <3> QED BY <2>6, <3>1, <3>2
  <2>14. ASSUME NEW p \in Procs,
                Conclude(p) \/ Copy(p) \/ Register(p) \/ Finish(p) \/ Crash(p) \/ Revised(p)
                \/ Patched(p)
         PROVE  Good(work'[q])
    <3>1. \/ work' = [work EXCEPT ![p] = Idle]
          \/ \E at \in {"promoting", "copied", "written"} :
                work' = [work EXCEPT ![p] = [work[p] EXCEPT !.at = at]]
        BY <2>14 DEF Conclude, Copy, Register, Finish, Crash, Revised, Patched, Becomes
    <3> QED BY <2>11, <2>12, <3>1
  <2>15. ASSUME NEW p \in Procs,
                ApproveDraft(p) \/ ApproveRetire(p) \/ ApproveRevision(p) \/ ApproveTuning(p)
         PROVE  Good(work'[q])
    <3>1. \E i \in RowIds, at \in {"promoting", "patched", "written"} :
              work' = [work EXCEPT ![p] = [Idle EXCEPT !.at = at, !.row = i]]
        BY <2>15 DEF ApproveDraft, ApproveRetire, ApproveRevision, ApproveTuning, Becomes, TakesUp
    <3> QED BY <2>10, <3>1
  <2>16. UNCHANGED work => Good(work'[q])
      BY <2>1
  <2>17. \/ UNCHANGED work
         \/ \E p \in Procs :
              \/ Draft(p) \/ Conclude(p) \/ Revise(p) \/ Examine(p) \/ Revised(p)
              \/ ApproveDraft(p) \/ Crash(p) \/ Propose(p) \/ Validate(p) \/ Copy(p)
              \/ Register(p) \/ Patched(p) \/ Finish(p) \/ ApproveRetire(p)
              \/ ApproveRevision(p) \/ ApproveTuning(p)
      BY DEF ProposalsNext, proposalsVars, Forge, Review, Tune, Reject, Use, Archive,
             Install, ResetWeights, Procs
  <2>18. Good(work'[q])
      BY <2>7, <2>8, <2>9, <2>13, <2>14, <2>15, <2>16, <2>17
  <2> QED BY <2>18 DEF Good
<1> QED BY <1>6, <1>7, <1>8, <1>9 DEF Ours, Begun, Starts

\* A skill of the host's that the brain has drafted a namesake of came later:
\* no draft is begun of a name that is taken, no promotion copies the host's.
LEMMA HostsLateStays ==
    ASSUME ForgeInv, HostsLate, [ProposalsNext]_proposalsVars PROVE HostsLate'
<1>1. /\ live \in [Names -> SUBSET ((1..texts) \cup {Host})] /\ drafts \in [Names -> Seq(Nat)]
      /\ texts \in Nat /\ texts <= MaxTexts /\ RowFacts /\ DraftsGrow /\ late \subseteq late'
    BY FilesGo DEF ForgeInv, ForgeTypes
<1>2. Host \notin 1..texts
    BY <1>1, ProposalsAssumption DEF Texts
<1>3. SUFFICES ASSUME NEW m \in Names, Host \in live'[m], Starts(m) PROVE m \in late'
    BY DEF HostsLate, Begun, Starts
<1>4. ASSUME Host \in live[m], drafts'[m] = drafts[m] PROVE m \in late'
    BY <1>1, <1>3, <1>4 DEF HostsLate, Begun, Starts
<1>5. ASSUME NEW p \in Procs, Draft(p) PROVE m \in late'
  <2>1. PICK n \in Names : NameAvailable(n) /\ drafts' = [drafts EXCEPT ![n] = Append(@, texts + 1)]
      BY <1>5 DEF Draft
  <2>2. live' = live
      BY <1>5 DEF Draft
  <2>3. m # n
      BY <1>3, <2>1, <2>2 DEF NameAvailable
  <2> QED BY <1>1, <1>3, <1>4, <2>1, <2>2, <2>3
<1>6. ASSUME NEW p \in Procs, Copy(p) PROVE m \in late'
  <2> DEFINE n == rows[work[p].row].name
  <2>1. /\ work[p].row \in 1..Len(rows) /\ n \in Names
        /\ rows[work[p].row].text \in Named(drafts, n)
      BY <1>6, InHand DEF Copy, WithRow, Holding, RowFact
  <2>2. Last(drafts[n]) \in 1..texts
    <3>1. drafts[n] \in Seq(Nat) /\ Len(drafts[n]) \in Nat /\ 1..Len(drafts[n]) # {}
        BY <1>1, <2>1, LenProperties DEF Named
    <3>2. Len(drafts[n]) \in 1..Len(drafts[n])
        BY <3>1
    <3>3. Last(drafts[n]) \in Named(drafts, n)
        BY <3>2 DEF Named, Last
    <3> QED BY <1>1, <2>1, <3>3 DEF DraftsGrow
  <2>3. drafts' = drafts /\ (live' = live \/ live' = [live EXCEPT ![n] = {Last(drafts[n])}])
      BY <1>6 DEF Copy
  <2> HIDE DEF n
  <2>4. Host \in live[m]
      BY <1>1, <1>2, <1>3, <2>1, <2>2, <2>3
  <2> QED BY <1>4, <2>3, <2>4
<1>7. ASSUME NEW p \in Procs, ApproveRevision(p) PROVE m \in late'
  <2>1. PICK i \in 1..Len(rows) :
            /\ rows[i].kind = "skill_revision"
            /\ live' = [live EXCEPT ![rows[i].name] = @ \cup {rows[i].text}]
      BY <1>7 DEF ApproveRevision, RowIds
  <2>2. rows[i].name \in Names /\ rows[i].text \in 1..texts
      BY <1>1, <2>1 DEF RowFacts, RowFact
  <2>3. Host \in live[m] /\ drafts' = drafts
      BY <1>1, <1>2, <1>3, <1>7, <2>1, <2>2 DEF ApproveRevision
  <2> QED BY <1>4, <2>3
<1>8. ASSUME NEW n \in Names, Archive(n) PROVE m \in late'
  <2>1. live' = [live EXCEPT ![n] = {}] /\ drafts' = drafts
      BY <1>8 DEF Archive
  <2> QED BY <1>1, <1>3, <1>4, <2>1
<1>9. ASSUME NEW n \in Names, Install(n) PROVE m \in late'
  <2>1. /\ live' = live \/ live' = [live EXCEPT ![n] = {Host}]
        /\ drafts' = drafts /\ (drafts[n] # << >> => n \in late')
      BY <1>9 DEF Install
  <2> QED BY <1>1, <1>3, <1>4, <2>1 DEF Starts
<1>10. \/ UNCHANGED <<live, drafts>>
       \/ \E p \in Procs : Draft(p) \/ Copy(p) \/ ApproveRevision(p)
       \/ \E n \in Names : Archive(n) \/ Install(n)
    BY DEF ProposalsNext, proposalsVars, disk, history, Forge, Review, Propose, Validate,
           Conclude, Register, Finish, Crash, Revise, Examine, Revised, Tune, Reject,
           ApproveDraft, ApproveRetire, Patched, ApproveTuning, Use, ResetWeights, Procs
<1>11. UNCHANGED <<live, drafts>> => m \in late'
    BY <1>3, <1>4
<1> QED BY <1>5, <1>6, <1>7, <1>8, <1>9, <1>10, <1>11

\* A file of the host's is only replaced if it came later: by the promotion of
\* a draft, or by the curator at a retirement the brain proposed.
LEMMA HostStays ==
    ASSUME ForgeInv, Ours, HostsLate, [ProposalsNext]_proposalsVars
    PROVE  \A n \in Names : Host \in live[n] => Host \in live'[n] \/ n \in late
<1>1. live \in [Names -> SUBSET ((1..texts) \cup {Host})] /\ RowFacts
    BY DEF ForgeInv, ForgeTypes
<1>2. SUFFICES ASSUME NEW m \in Names, Host \in live[m] PROVE Host \in live'[m] \/ m \in late
    OBVIOUS
<1>3. Begun(m) => m \in late
    BY <1>2 DEF HostsLate
<1>4. ASSUME NEW p \in Procs, Copy(p) PROVE Host \in live'[m] \/ m \in late
  <2>1. work[p].row \in 1..Len(rows) /\ rows[work[p].row].kind = "skill_draft"
      BY <1>4, InHand DEF Copy, WithRow, Holding
  <2>2. Begun(rows[work[p].row].name)
      BY <2>1 DEF Ours
  <2>3. live' = live \/ \E s : live' = [live EXCEPT ![rows[work[p].row].name] = s]
      BY <1>4 DEF Copy
  <2>4. live'[m] = live[m] \/ m = rows[work[p].row].name
      BY <1>1, <2>3
  <2> QED BY <1>2, <1>3, <2>2, <2>4
<1>5. ASSUME NEW p \in Procs, ApproveRevision(p) PROVE Host \in live'[m] \/ m \in late
  <2>1. PICK i : live' = [live EXCEPT ![rows[i].name] = @ \cup {rows[i].text}]
      BY <1>5 DEF ApproveRevision
  <2> QED BY <1>1, <1>2, <2>1
<1>6. ASSUME NEW n \in Names, Archive(n) PROVE Host \in live'[m] \/ m \in late
  <2>1. live' = [live EXCEPT ![n] = {}] /\ usage[n].stale
      BY <1>6 DEF Archive
  <2>2. Begun(n)
      BY <2>1 DEF Ours
  <2>3. live'[m] = live[m] \/ m = n
      BY <1>1, <2>1
  <2> QED BY <1>2, <1>3, <2>2, <2>3
<1>7. ASSUME NEW n \in Names, Install(n) PROVE Host \in live'[m] \/ m \in late
    BY <1>1, <1>2, <1>7 DEF Install
<1>8. \/ UNCHANGED live
      \/ \E p \in Procs : Copy(p) \/ ApproveRevision(p)
      \/ \E n \in Names : Archive(n) \/ Install(n)
    BY DEF ProposalsNext, proposalsVars, disk, history, Forge, Review, Draft, Propose, Validate,
           Conclude, Register, Finish, Crash, Revise, Examine, Revised, Tune, Reject,
           ApproveDraft, ApproveRetire, Patched, ApproveTuning, Use, ResetWeights, Procs
<1> QED BY <1>2, <1>4, <1>5, <1>6, <1>7, <1>8

\* Only a use counts.
LEMMA CountsStay == ASSUME ForgeInv, Counts, [ProposalsNext]_proposalsVars PROVE Counts'
<1>1. live \in [Names -> SUBSET (Nat \cup {Host})]
  <2>1. texts \in Nat /\ live \in [Names -> SUBSET ((1..texts) \cup {Host})]
      BY DEF ForgeInv, ForgeTypes
  <2>2. (1..texts) \cup {Host} \subseteq Nat \cup {Host}
      BY <2>1
  <2> QED BY <2>1, <2>2
<1>2. \/ UNCHANGED counted
      \/ \E n \in Names : counted' = [counted EXCEPT ![n] = live[n]]
    BY DEF ProposalsNext, proposalsVars, disk, history, Forge, Review, Draft, Propose, Validate,
           Conclude, Copy, Register, Finish, Crash, Revise, Examine, Revised, Tune, Reject,
           ApproveDraft, ApproveRetire, ApproveRevision, Patched, ApproveTuning, Use, Archive,
           Install, ResetWeights, Procs
<1> QED BY <1>1, <1>2 DEF Counts

LEMMA WholeInvStarts == ProposalsInit => WholeInv
<1> SUFFICES ASSUME ProposalsInit PROVE WholeInv
    OBVIOUS
<1>1. ForgeInv
    BY InitForge
<1>2. /\ rows = << >> /\ Len(rows) = 0 /\ \A i \in 1..Len(rows) : FALSE
      /\ \A p \in Procs : work[p] = Idle
      /\ \A n \in Names : live[n] = {} /\ ~usage[n].stale /\ usage[n].tally = NoTally
    BY EmptySeq DEF ProposalsInit
<1>3. Idle.at = "idle" /\ Idle.todo = {} /\ Len(Idle.new) = 0 /\ \A k \in 1..Len(Idle.new) : FALSE
    BY EmptySeq DEF Idle
<1>4. Counts
    BY DEF Counts, ProposalsInit
<1> HIDE DEF Idle
<1>5. Ours /\ HostsLate
    BY <1>2, <1>3 DEF Ours, HostsLate
<1>6. OnDisk /\ Decided
    BY <1>2, <1>3 DEF OnDisk, Decided, Promoted
<1>7. SkillsWhole
    BY <1>2 DEF SkillsWhole, AppliedIsLive, TallyFresh, RowIds
<1> QED BY <1>1, <1>4, <1>5, <1>6, <1>7 DEF WholeInv

LEMMA WholeInvStep == WholeInv /\ [ProposalsNext]_proposalsVars => WholeInv'
<1> SUFFICES ASSUME WholeInv, [ProposalsNext]_proposalsVars PROVE WholeInv'
    OBVIOUS
<1>1. /\ ForgeInv /\ Counts /\ Ours /\ HostsLate /\ OnDisk /\ Decided
      /\ AppliedIsLive /\ TallyFresh
    BY DEF WholeInv, SkillsWhole
<1>2. ForgeInv'
    BY <1>1, NextForge
<1>3. Counts' /\ Ours' /\ HostsLate'
    BY <1>1, CountsStay, OursStays, HostsLateStays
<1>4. OnDisk' /\ Decided'
    BY <1>1, OnDiskStays, DecidedStays
<1>5. AppliedIsLive' /\ TallyFresh'
    BY <1>1, AppliedStays, TallyStays
<1> QED BY <1>2, <1>3, <1>4, <1>5 DEF WholeInv, SkillsWhole

\* A promoted skill is on disk with its usage record until it is archived, and
\* what is counted against a skill is what its present text did, wherever a
\* process died between two files (skillforge/forge.py, _promote: "Order
\* matters for crash-safety"; cli.py: the counters describe the pre-revision
\* skill), for any processes, names and limits.
THEOREM ForgeSkillsWhole == ForgeSpec => []SkillsWhole
<1>1. WholeInv => SkillsWhole
    BY DEF WholeInv
<1> QED
    BY <1>1, WholeInvStarts, WholeInvStep, PTL DEF ForgeSpec

\* A draft the user has rejected stays rejected and an applied text stays what
\* it is, unless the rejection came while a process had the row in hand
\* (proposals/review: _set_status looks at nothing); and a file the brain did
\* not write is not replaced, unless the host put it there after the brain had
\* drafted the name (forge.py, name_available is asked once).
THEOREM ForgeOthersRespected == ForgeSpec => OthersRespected
<1> DEFINE Stands == \A i \in RowIds :
               /\ rows[i].status = "applied" => rows'[i].text = rows[i].text
               /\ rows[i].kind = "skill_draft" /\ rows[i].status = "rejected"
                  => rows'[i].status = "rejected" \/ i \in overruled
           Kept == \A n \in Names : Host \in live[n] => Host \in live'[n] \/ n \in late
<1>1. WholeInv /\ [ProposalsNext]_proposalsVars => Stands
    BY DecisionsStand DEF WholeInv
<1>2. WholeInv /\ [ProposalsNext]_proposalsVars => Kept
    BY HostStays DEF WholeInv
<1>3. WholeInv /\ [ProposalsNext]_proposalsVars => [Stands]_proposalsVars
    BY <1>1
<1>4. WholeInv /\ [ProposalsNext]_proposalsVars => [Kept]_proposalsVars
    BY <1>2
<1> QED
    BY <1>3, <1>4, WholeInvStarts, WholeInvStep, PTL
       DEF ForgeSpec, OthersRespected, DecidedIsFinal, HostKept
=============================================================================
