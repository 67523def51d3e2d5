---------------------------- MODULE MemoryChain ----------------------------
(***************************************************************************)
(* The version chains of memories (store/supersession.py), the index of    *)
(* facts over them (store/facts.py) and the ends a memory comes to         *)
(* (store/lifecycle.py, dream/forget.py).  A memory is never rewritten: a  *)
(* correction appends a version and closes the one before it.              *)
(*                                                                         *)
(* sqlite3 opens a transaction at the first INSERT, UPDATE or DELETE, so   *)
(* what a writer read before, often before a call of the LLM, is not part  *)
(* of it.  A writer therefore has two or three steps: it picks memories,   *)
(* looks at the chain or the facts it will change, and writes.  The other  *)
(* users of the database write in between.                                 *)
(*                                                                         *)
(* A text is a value to compare; a fact is its key, subject and predicate, *)
(* and the memory it indexes.  Deleting a memory for good (`forget --hard')*)
(* is left out.                                                            *)
(***************************************************************************)
EXTENDS Integers, FiniteSets, Sequences

CONSTANTS
    Users,      \* those who write without a lease: tools, sweeps, command line
    Dream,      \* the holder of the dream lease
    Texts, Gone,    \* contents; NULL
    Keys,       \* (subject, predicate) of facts
    MaxRows, MaxFacts,  \* bounds
    MaxAged,    \* bound: memories one run of the forget strategy takes
    MaxEnded,   \* bound: memories that forgetting and demotion begin with
    MaxTemporary,   \* bound: memories that are given a ttl_at
    MaxRaces    \* bound: after so many writes of overtaken writers none begins

ASSUME WritersAssumption == Dream \notin Users
ASSUME ContentAssumption == Gone \notin Texts
ASSUME RowBoundsAssumption ==
    MaxRows \in Nat /\ MaxFacts \in Nat /\ MaxAged \in Nat
    /\ MaxTemporary \in Nat /\ MaxRaces \in Nat
    /\ MaxEnded \in Nat

VARIABLES
    rows,       \* memories, by id
    facts,      \* facts, by id
    archived,   \* the memories whose text the episodic archive keeps
    told,       \* what was current at the last db.bump_generation(conn, "mem")
    work,       \* writer -> what it is about to write
    races       \* history: how often a writer wrote what it read too long ago

vars == <<rows, facts, archived, told, work, races>>

Writers == Users \cup {Dream}
Ids == 1..Len(rows)
None == 0

Row == [status: {"active", "summarized", "tombstone", "expired"},
        open: BOOLEAN,                      \* valid_to IS NULL
        ttl: {"none", "future", "due"},     \* ttl_at
        text: Texts \cup {Gone},
        version: Nat \ {0},
        parent: Nat, next: Nat]             \* supersedes_id, superseded_by
Fact == [key: Keys, mem: Nat, open: BOOLEAN]

Ops == {"remember", "correct", "restore", "forget", "judge", "index",
        "update", "age"}
Work == [op: Ops \cup {"none"}, ready: BOOLEAN,
         mem: Nat, other: Nat, version: Nat, text: Texts \cup {Gone},
         keys: SUBSET Keys, seen: SUBSET Nat,
         demote: SUBSET Nat, bury: SUBSET Nat, purge: SUBSET Nat]
Idle == [op |-> "none", ready |-> FALSE, mem |-> None, other |-> None,
         version |-> 0, text |-> Gone, keys |-> {}, seen |-> {},
         demote |-> {}, bury |-> {}, purge |-> {}]

Init ==
    /\ rows = <<>> /\ facts = <<>> /\ archived = {} /\ told = {}
    /\ work = [w \in Writers |-> Idle]
    /\ races = 0

-----------------------------------------------------------------------------
(* What the tables say.                                                    *)

\* valid_to IS NULL AND status='active', whatever the clock says.
Standing(rs, r) == rs[r].open /\ rs[r].status = "active"
\* current_memory_predicate.
Current(rs) == {r \in 1..Len(rs) : Standing(rs, r) /\ rs[r].ttl # "due"}
Due(rs) == {r \in 1..Len(rs) : Standing(rs, r) /\ rs[r].ttl = "due"}

OpenFacts(fs, m) == {f \in 1..Len(fs) : fs[f].mem = m /\ fs[f].open}
\* The facts add_fact is about to close.
Closing(fs, k) == {f \in 1..Len(fs) : fs[f].key = k /\ fs[f].open}

\* n steps up the chain of versions, from r.
Ancestor(rs, r) ==
    LET up[n \in 0..Len(rs)] ==
            IF n = 0 THEN r
            ELSE IF rs[up[n - 1]].parent = None THEN up[n - 1]
            ELSE rs[up[n - 1]].parent
    IN  up[Len(rs)]
\* The recursive query of chain_head ends only where the chain does.
Rooted(rs, r) == rs[Ancestor(rs, r)].parent = None
Lineage(rs, r) == {x \in 1..Len(rs) : Ancestor(rs, x) = Ancestor(rs, r)}
\* chain_head: the latest version of r's lineage.
ChainHead(rs, r) ==
    CHOOSE h \in Lineage(rs, r) :
        \A x \in Lineage(rs, r) :
            \/ rs[x].version < rs[h].version
            \/ rs[x].version = rs[h].version /\ x <= h

-----------------------------------------------------------------------------
(* The helpers that write.  A store is the pair of tables, with whether    *)
(* the generation was bumped on the way.                                   *)

Store == [rows |-> rows, facts |-> facts, bumped |-> FALSE]

CloseFacts(fs, m) ==
    [f \in 1..Len(fs) |-> IF fs[f].mem = m THEN [fs[f] EXCEPT !.open = FALSE]
                          ELSE fs[f]]

\* Mutant of Retire: the facts stay open.
RetireRowOnly(s, old, new) ==
    [s EXCEPT !.rows = [@ EXCEPT ![old].open = FALSE, ![old].next = new]]

\* _retire_indexes: old ends, new is its successor.
Retire(s, old, new) ==
    [s EXCEPT !.rows = [@ EXCEPT ![old].open = FALSE, ![old].next = new],
              !.facts = CloseFacts(@, old)]

\* link_existing_successor.
Linkable(rs, old, new) ==
    /\ old # new
    /\ ~rs[old].open => rs[old].next \in {None, new}
    /\ ~(rs[old].next = new /\ rs[new].parent = old)
Link(s, old, new) ==
    IF ~Linkable(s.rows, old, new) THEN s
    ELSE LET version == s.rows[old].version + 1
             linked == [s EXCEPT
                !.rows = [@ EXCEPT ![new].version = version, ![new].parent = old],
                !.bumped = TRUE]
         IN  Retire(linked, old, new)

\* Mutant of Displace: old and new are swapped.
DisplaceSwapped(m, s, f) ==
    LET old == s.facts[f].mem
        fs == [s.facts EXCEPT ![f].open = FALSE]
        closed == [s EXCEPT !.facts = fs]
    IN  IF old # m /\ OpenFacts(fs, old) = {} THEN Link(closed, m, old)
        ELSE closed

\* add_fact: one closed fact, and the memory that no fact indexes any more.
Displace(m, s, f) ==
    LET old == s.facts[f].mem
        fs == [s.facts EXCEPT ![f].open = FALSE]
        closed == [s EXCEPT !.facts = fs]
    IN  IF old # m /\ OpenFacts(fs, old) = {} THEN Link(closed, old, m)
        ELSE closed
AddFact(s, k, m, closing) ==
    LET added == [s EXCEPT !.facts = Append(@, [key |-> k, mem |-> m, open |-> TRUE])]
        done[f \in 0..Len(s.facts)] ==     \* the facts to close up to f are closed
            IF f = 0 THEN added
            ELSE IF f \in closing THEN Displace(m, done[f - 1], f)
            ELSE done[f - 1]
    IN  done[Len(s.facts)]

\* _index_triples: the keys of an item's triples in their order, in the
\* transaction that inserted m.
IndexTriples(s, keys, m) ==
    LET indexed[n \in 0..Len(keys)] ==
            IF n = 0 THEN s
            ELSE AddFact(indexed[n - 1], keys[n], m,
                         Closing(indexed[n - 1].facts, keys[n]))
    IN  indexed[Len(keys)]

Lifetimes ==
    IF Cardinality({r \in Ids : rows[r].ttl # "none"}) < MaxTemporary
    THEN {"none", "future"} ELSE {"none"}

Inserted(text, ttl) ==
    [status |-> "active", open |-> TRUE, ttl |-> ttl, text |-> text,
     version |-> 1, parent |-> None, next |-> None]

\* create_successor: a version of head is appended and head retired.
Succeed(s, head, version, text, ttl) ==
    Retire([s EXCEPT !.rows = Append(@,
                [Inserted(text, ttl) EXCEPT !.version = version, !.parent = head])],
           head, Len(s.rows) + 1)

-----------------------------------------------------------------------------
(* Begin: a writer that has nothing to do picks its memories.              *)

Start(w, what) ==
    /\ work[w] = Idle /\ races < MaxRaces
    /\ work' = [work EXCEPT ![w] = what]
    /\ UNCHANGED <<rows, facts, archived, told, races>>

Ended == {r \in Ids : rows[r].status \in {"summarized", "tombstone"}}
HasRoom == Len(rows) < MaxRows
\* The keys of the triples of an extracted item; one may come twice.
Triples == UNION {[1..n -> Keys] : n \in 0..(MaxFacts - Len(facts))}

\* brain_remember, add of the memory mirror, an extracted item: an identical
\* current memory is only counted up.
BeginRemember(w) ==
    \E text \in Texts :
        /\ HasRoom
        /\ \A r \in Current(rows) : rows[r].text # text
        /\ Start(w, [Idle EXCEPT !.op = "remember", !.ready = TRUE, !.text = text])

\* brain_manage, replace of the memory mirror, str_replace of the memories
\* tool, an extracted correction (with facts), a won dedup contest.
BeginCorrect(w) ==
    \E r \in Current(rows) :
        /\ HasRoom
        /\ Start(w, [Idle EXCEPT !.op = "correct", !.mem = r,
                                 !.version = rows[r].version])

\* brain_manage restore: any version that still has a text.
BeginRestore(w) ==
    \E r \in Ids :
        /\ HasRoom
        /\ rows[r].text # Gone
        /\ Start(w, [Idle EXCEPT !.op = "restore", !.mem = r,
                                 !.text = rows[r].text, !.version = rows[r].version])

\* brain_manage forget, delete of the memories tool, remove of the mirror, the
\* command line, which asks the user first.
BeginForget(w) ==
    \E r \in Current(rows) :
        /\ Cardinality(Ended \cup {r}) <= MaxEnded
        /\ Start(w, [Idle EXCEPT !.op = "forget", !.ready = TRUE, !.mem = r])

\* A pair of current neighbours goes to the LLM, which names a winner.
BeginJudge ==
    \E loser, winner \in Current(rows) :
        /\ rows[loser].text # rows[winner].text
        /\ Start(Dream, [Idle EXCEPT !.op = "judge", !.ready = TRUE,
                                     !.mem = loser, !.other = winner])

\* _knowledge_update: both have a fact of one key; the younger one wins.
BeginUpdate ==
    \E loser, winner \in Current(rows), k \in Keys :
        /\ loser < winner /\ rows[loser].text # rows[winner].text
        /\ Len(facts) < MaxFacts
        /\ \A m \in {loser, winner} : OpenFacts(facts, m) \cap Closing(facts, k) # {}
        /\ Start(Dream, [Idle EXCEPT !.op = "update", !.mem = winner,
                                     !.other = loser, !.keys = {k}])

\* _candidates: current, not superseded, never indexed.  The LLM names a triple.
BeginIndex ==
    \E r \in Current(rows), k \in Keys :
        /\ rows[r].next = None
        /\ \A f \in 1..Len(facts) : facts[f].mem # r
        /\ Len(facts) < MaxFacts
        /\ Start(Dream, [Idle EXCEPT !.op = "index", !.mem = r, !.keys = {k}])

\* The scan of the forget strategy: of the memories of too little value the
\* active are demoted and those demoted long ago buried; tombstones past their
\* grace lose the text.
Demotable == {r \in Ids : Standing(rows, r)}
Buriable == {r \in Ids : rows[r].open /\ rows[r].status = "summarized"}
Purgeable == {r \in Ids : rows[r].status = "tombstone" /\ rows[r].text # Gone}
BeginAge ==
    \E demote \in SUBSET Demotable, bury \in SUBSET Buriable,
       purge \in SUBSET Purgeable :
        /\ Cardinality(demote \cup bury \cup purge) \in 1..MaxAged
        /\ Cardinality(Ended \cup demote) <= MaxEnded
        /\ Start(Dream, [Idle EXCEPT !.op = "age", !.ready = TRUE,
                            !.demote = demote, !.bury = bury, !.purge = purge])

-----------------------------------------------------------------------------
(* Look: what create_successor and add_fact read before their first write. *)

Look(w, seeing) ==
    /\ ~work[w].ready
    /\ work' = [work EXCEPT ![w] = seeing]
    /\ UNCHANGED <<rows, facts, archived, told, races>>

LookAtChain(w) ==
    /\ work[w].op \in {"correct", "restore"}
    /\ Rooted(rows, work[w].mem)
    /\ LET head == ChainHead(rows, work[w].mem)
           highest == IF rows[head].version > work[w].version
                      THEN rows[head].version ELSE work[w].version
       IN  Look(w, [work[w] EXCEPT !.ready = TRUE, !.other = head,
                                   !.version = highest + 1])

LookAtFacts ==
    /\ work[Dream].op \in {"index", "update"}
    /\ Look(Dream, [work[Dream] EXCEPT !.ready = TRUE,
                        !.seen = UNION {Closing(facts, k) : k \in work[Dream].keys}])

-----------------------------------------------------------------------------
(* Write: the transaction, with nothing re-read.                           *)

\* What the writer read still holds.  No code asks this.
Sound(w) ==
    LET o == work[w] IN
    CASE o.op = "remember" -> TRUE
      [] o.op \in {"correct", "restore"} -> /\ ChainHead(rows, o.mem) = o.other
                                        /\ rows[o.other].version < o.version
      [] o.op = "forget" -> Standing(rows, o.mem)
      [] o.op = "judge" -> Standing(rows, o.mem) /\ Standing(rows, o.other)
      [] o.op = "index" -> /\ Standing(rows, o.mem)
                           /\ o.seen = UNION {Closing(facts, k) : k \in o.keys}
      [] o.op = "update" -> /\ Standing(rows, o.mem) /\ Standing(rows, o.other)
                            /\ o.seen = UNION {Closing(facts, k) : k \in o.keys}
      [] o.op = "age" -> o.demote \subseteq Demotable /\ o.bury \subseteq Buriable

\* The writer commits the store s; bump says whether it bumps the generation.
Commit(w, op, s, bump) ==
    /\ work[w].op = op /\ work[w].ready
    /\ rows' = s.rows /\ facts' = s.facts
    /\ told' = IF bump \/ s.bumped THEN Current(s.rows) ELSE told
    /\ work' = [work EXCEPT ![w] = Idle]
    /\ races' = IF Sound(w) THEN races ELSE races + 1

Remember(w) ==
    /\ HasRoom
    /\ \E keys \in Triples, ttl \in Lifetimes :
        LET s == [Store EXCEPT !.rows = Append(@, Inserted(work[w].text, ttl))]
        IN  Commit(w, "remember", IndexTriples(s, keys, Len(s.rows)), TRUE)
    /\ UNCHANGED archived

\* A tool's version inherits the head's ttl_at, and the memories tool makes the
\* head a tombstone.
CorrectByTool(w) ==
    /\ HasRoom /\ work[w].op = "correct" /\ work[w].ready
    /\ LET head == work[w].other IN
       \E text \in Texts, status \in {rows[head].status, "tombstone"} :
        LET s == Succeed(Store, head, work[w].version, text, rows[head].ttl)
        IN  Commit(w, "correct", [s EXCEPT !.rows[head].status = status], TRUE)
    /\ UNCHANGED archived

\* An extracted version has its own ttl_at and its own facts.
CorrectByExtraction(w) ==
    /\ HasRoom /\ work[w].op = "correct" /\ work[w].ready
    /\ \E text \in Texts, keys \in Triples, ttl \in Lifetimes :
        LET s == Succeed(Store, work[w].other, work[w].version, text, ttl)
        IN  Commit(w, "correct", IndexTriples(s, keys, Len(s.rows)), TRUE)
    /\ UNCHANGED archived

Restore(w) ==
    /\ HasRoom
    /\ Commit(w, "restore",
              Succeed(Store, work[w].other, work[w].version, work[w].text, "none"),
              TRUE)
    /\ UNCHANGED archived

\* The facts of a forgotten memory stay open; reading them asks for a current one.
Forget(w) ==
    /\ Commit(w, "forget",
              [Store EXCEPT !.rows = [@ EXCEPT ![work[w].mem].status = "tombstone",
                                               ![work[w].mem].open = FALSE]],
              TRUE)
    /\ UNCHANGED archived

Judge ==
    /\ Commit(Dream, "judge",
              [Store EXCEPT !.rows = [@ EXCEPT ![work[Dream].mem].open = FALSE]],
              TRUE)
    /\ UNCHANGED archived

\* add_fact for the one key in keys, with the facts to close as they were seen.
FactAdded ==
    AddFact(Store, CHOOSE k \in work[Dream].keys : TRUE,
            work[Dream].mem, work[Dream].seen)

Index ==
    /\ Len(facts) < MaxFacts
    /\ work[Dream].op = "index" /\ Commit(Dream, "index", FactAdded, FALSE)
    /\ UNCHANGED archived

Update ==
    /\ Len(facts) < MaxFacts
    /\ work[Dream].op = "update"
    /\ Commit(Dream, "update",
              [FactAdded EXCEPT !.rows = [@ EXCEPT ![work[Dream].other].status =
                                                        "summarized"]],
              TRUE)
    /\ UNCHANGED archived

\* Mutant of Age: the texts are dropped before the archive has answered.
AgeUnarchived ==
    LET o == work[Dream] IN
    \E stored \in SUBSET o.purge :
        LET aged(r) ==
                IF r \in o.demote THEN [rows[r] EXCEPT !.status = "summarized"]
                ELSE IF r \in o.bury THEN [rows[r] EXCEPT !.status = "tombstone"]
                ELSE IF r \in o.purge THEN [rows[r] EXCEPT !.text = Gone]
                ELSE rows[r]
        IN  /\ Commit(Dream, "age", [Store EXCEPT !.rows = [r \in Ids |-> aged(r)]],
                      o.demote \cup o.bury \cup stored # {})
            /\ archived' = archived \cup stored

\* archive.append_batch says which texts it stored; only those are dropped.
Age ==
    LET o == work[Dream] IN
    \E stored \in SUBSET o.purge :
        LET aged(r) ==
                IF r \in o.demote THEN [rows[r] EXCEPT !.status = "summarized"]
                ELSE IF r \in o.bury THEN [rows[r] EXCEPT !.status = "tombstone"]
                ELSE IF r \in stored THEN [rows[r] EXCEPT !.text = Gone]
                ELSE rows[r]
        IN  /\ Commit(Dream, "age", [Store EXCEPT !.rows = [r \in Ids |-> aged(r)]],
                      o.demote \cup o.bury \cup stored # {})
            /\ archived' = archived \cup stored

\* Mutant of Expire: the generation is not bumped.
ExpireUntold ==
    /\ Due(rows) # {}
    /\ rows' = [r \in Ids |-> IF r \in Due(rows)
                              THEN [rows[r] EXCEPT !.status = "expired", !.open = FALSE]
                              ELSE rows[r]]
    /\ facts' = [f \in 1..Len(facts) |->
                    IF facts[f].mem \in Due(rows) THEN [facts[f] EXCEPT !.open = FALSE]
                    ELSE facts[f]]
    /\ UNCHANGED <<archived, told, work, races>>

\* expire_due asks again in its UPDATE, so nothing comes between: one step, of
\* a provider, of lane 1, of a dream or of the command line.
Expire ==
    /\ Due(rows) # {}
    /\ rows' = [r \in Ids |-> IF r \in Due(rows)
                              THEN [rows[r] EXCEPT !.status = "expired", !.open = FALSE]
                              ELSE rows[r]]
    /\ facts' = [f \in 1..Len(facts) |->
                    IF facts[f].mem \in Due(rows) THEN [facts[f] EXCEPT !.open = FALSE]
                    ELSE facts[f]]
    /\ told' = Current(rows')
    /\ UNCHANGED <<archived, work, races>>

\* The clock passes a ttl_at; that of a closed memory has no effect any more.
Lapse ==
    /\ \E r \in Ids :
        /\ rows[r].open /\ rows[r].ttl = "future"
        /\ rows' = [rows EXCEPT ![r].ttl = "due"]
    /\ UNCHANGED <<facts, archived, told, work, races>>

\* The LLM does not answer, a write fails and is rolled back, the process dies:
\* of all it did only the archive file may stay.
Abandon(w) ==
    /\ work[w] # Idle
    /\ work' = [work EXCEPT ![w] = Idle]
    /\ \E stored \in SUBSET work[w].purge : archived' = archived \cup stored
    /\ UNCHANGED <<rows, facts, told, races>>

-----------------------------------------------------------------------------
UserStep(w) ==
    \/ BeginRemember(w) \/ BeginCorrect(w) \/ BeginRestore(w) \/ BeginForget(w)
    \/ LookAtChain(w)
    \/ Remember(w) \/ CorrectByTool(w) \/ CorrectByExtraction(w)
    \/ Restore(w) \/ Forget(w)
DreamStep ==
    \/ BeginJudge \/ BeginUpdate \/ BeginIndex \/ BeginAge \/ LookAtFacts
    \/ Judge \/ Update \/ Index \/ Age

Next ==
    \/ \E w \in Users : UserStep(w)
    \/ DreamStep
    \/ \E w \in Writers : Abandon(w)
    \/ Expire \/ Lapse

Spec == Init /\ [][Next]_vars
-----------------------------------------------------------------------------
(* Types: ids refer to rows that exist.                                    *)
TypeOK ==
    /\ rows \in Seq(Row) /\ Len(rows) <= MaxRows
    /\ facts \in Seq(Fact) /\ Len(facts) <= MaxFacts
    /\ archived \subseteq Ids /\ told \subseteq Ids
    /\ work \in [Writers -> Work]
    /\ races \in 0..(MaxRaces + Cardinality(Writers))
    /\ \A r \in Ids : rows[r].parent <= Len(rows) /\ rows[r].next <= Len(rows)
    /\ \A f \in 1..Len(facts) : facts[f].mem \in Ids

(* Writers that write although what they read is over.                     *)
Overtaken == \E w \in Writers : work[w].ready /\ work'[w] = Idle /\ ~Sound(w)

(* History is kept (README "never rewrites or reopens history",            *)
(* create_successor "never mutate or reopen historical content"): a closed *)
(* memory stays closed and keeps its text until the archive has it; only a *)
(* writer that was overtaken gives it another place in the chain.          *)
HistoryKept ==
    [][\A r \in Ids :
        /\ \/ rows'[r].text = rows[r].text
           \/ rows'[r].text = Gone /\ r \in archived'
        /\ ~rows[r].open =>
            /\ ~rows'[r].open
            /\ \/ Overtaken
               \/ /\ rows'[r].parent = rows[r].parent
                  /\ rows'[r].version = rows[r].version]_vars

(* The generation that caches of recall are keyed with is bumped by every  *)
(* write that changes what is current, from whatever side; what only the   *)
(* clock ended is filtered when it is read.                                *)
EveryChangeTold == told \ Due(rows) = Current(rows)

(* Of every lineage one version is valid, however correct, restore, expiry,*)
(* a verdict and the relinking of facts follow each other: chain_head      *)
(* finds the version to retire.  Writers that were overtaken excepted.     *)
OneValidVersion ==
    races = 0 => \A r, x \in Ids :
        rows[r].open /\ rows[x].open /\ Ancestor(rows, r) = Ancestor(rows, x) => r = x

(* facts.py: exactly one current row per (subject, predicate), and a fact  *)
(* and its memory are one truth: no open fact is left to a memory that has *)
(* a successor.  Writers that were overtaken excepted.                     *)
OneFact ==
    races = 0 => \A f \in 1..Len(facts) : facts[f].open =>
        /\ Closing(facts, facts[f].key) = {f}
        /\ rows[facts[f].mem].next = None

(* There is one answer to every question: per lineage, and per fact.       *)
OneTruth == OneValidVersion /\ OneFact

(* A memory is closed in favour of another only if that one stands: the    *)
(* truth of the two survives, unless the writer was overtaken.             *)
TruthKept ==
    [][\A r \in Ids :
        /\ rows[r].open /\ ~rows'[r].open
        /\ rows'[r].next # None
        => Standing(rows', rows'[r].next) \/ Overtaken]_vars

(* What was forgotten stays a tombstone, which the forget strategy then    *)
(* purges (tools.py "tombstoned ... purged after"); only a strategy that   *)
(* was overtaken by the user makes it another thing.                       *)
TombstoneStays ==
    [][\A r \in Ids :
        rows[r].status = "tombstone" => rows'[r].status = "tombstone" \/ Overtaken]_vars

(* History is one of the two: rows that ended, and what was forgotten.     *)
HistoryStands == HistoryKept /\ TombstoneStays

(* chain_head "Return (root, latest descendant) for any historical         *)
(* version": where superseded_by leads to is what chain_head returns.      *)
Successor(r, n) ==
    LET after[i \in 0..n] == IF i = 0 THEN r
                             ELSE IF rows[after[i - 1]].next = None THEN after[i - 1]
                             ELSE rows[after[i - 1]].next
    IN  after[n]
LatestFound ==
    races = 0 => \A r \in Ids : ChainHead(rows, r) = Successor(r, Len(rows))
=============================================================================
