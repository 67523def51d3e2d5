------------------------------- MODULE Recall -------------------------------
(***************************************************************************)
(* One retrieval after another by the provider's thread (_do_retrieve)     *)
(* while other processes write: the query cache, the legs of the hybrid    *)
(* search, each a query of its own, the blend with its second fetch, the   *)
(* linked profiles, the reordering, and the block with its two sections.   *)
(*                                                                         *)
(* What an index would answer is given by a world: for each leg the rows   *)
(* it finds for the query, in its order.  A leg returns those of them that *)
(* exist and the caller may read at the moment it is run.                  *)
(***************************************************************************)
EXTENDS RecallRanking

CONSTANTS
    Worlds,         \* legs -> list of rows
    Caller,         \* session -> trust, principal, author
    Queries, Near,  \* queries, and the pairs the cache takes for one another
    Successor,      \* the version a supersession writes, of some memories
    Forgettable,    \* rows that may be retired without one
    Configs,        \* lane2_blend, link_lane2
    Nothing,
    Budget,         \* tokens of lane 2
    CacheSize, MaxJobs, MaxWrites, MaxFailures

ASSUME RecallAssumption ==
    /\ {Budget, MaxJobs, MaxWrites, MaxFailures} \subseteq Nat /\ CacheSize \in Nat \ {0}
    /\ Nothing \notin Ids \cup Queries \cup DOMAIN Caller \cup Nat
    /\ DOMAIN Successor \cup Forgettable \subseteq Ids
    /\ \A r \in DOMAIN Successor : Successor[r] \in Ids
    /\ \A q \in Queries : <<q, q>> \in Near

Askers == DOMAIN Caller

\* Guidance is memories.  What the linked profile's own search returns is of
\* its brain and trusted there; a session's turns are in one brain.
ASSUME WorldsAssumption ==
    /\ \A r \in Ids : Row[r].what = "episode" => Row[r].kind \notin {"strategy", "guardrail", "case", "peer_card"}
    /\ \A w \in Worlds :
         /\ {w.fts, w.efts, w.vec, w.evec, w.graph, w.facts,
             w.reinforced, w.recent, w.guidance, w.remote} \subseteq Seq(Ids)
         /\ \A leg \in {"fts", "efts", "vec", "evec", "graph", "facts"} : w.weight[leg] \in Nat
         /\ DOMAIN w.judged \subseteq Ids /\ \A r \in DOMAIN w.judged : w.judged[r] \in Int
         /\ \A r \in Members(w.remote) :
              /\ Row[r].home # "local"
              /\ Row[r].what = "episode" => Row[r].kind # "untrusted" /\ Row[r].session \notin Askers

VARIABLES
    world, config,
    current,    \* the rows a query can find, of the brain and of the linked one
    gen,        \* meta.mem_generation; recall_count does not bump it
    owed,       \* rows a pull retired whose bump has not been committed yet
    linked,     \* a linked profile is registered and enabled
    cache,      \* entries, least recently used first
    cachegen,   \* _generation, or Nothing
    job,        \* session and query
    at,         \* the step of the retrieval
    found,      \* leg -> list of rows
    hits,
    guidance,   \* rows of the guidance section
    block,      \* the last block: session, rows, whether it came from an entry
                \*   put while no generation was known, and owed then
    lately,     \* history: rows that could be found since the job began
    jobs, writes, failures    \* history: counters of the bounds

data == <<current, gen, owed, linked>>
memo == <<cache, cachegen>>
recallCounts == <<jobs, writes, failures>>
recallVars == <<world, config, data, memo, job, at, found, hits, guidance, block, lately, recallCounts>>

-----------------------------------------------------------------------------
(************************ who may read what ********************************)
IsOwner(s) == Caller[s].trust = "owner"

\* _scope_memories
MemoryScope(s, r) ==
    IsOwner(s) \/ (Row[r].scope \in {"all", Caller[s].principal} /\ Row[r].kind # "peer_card")

\* _scope_episodes, and exclude_session
EpisodeScope(s, r) ==
    /\ Row[r].kind # "untrusted"
    /\ Row[r].session # s
    /\ IsOwner(s) \/ (Row[r].scope # "nobody" /\ Row[r].scope \in {Caller[s].principal, Caller[s].author})

Internal == {"strategy", "guardrail", "case", "peer_card"}

\* the filters of _memories_rows, _memories_by_ids, _episodes_rows, ...
FoundBy(s, r) ==
    /\ r \in current /\ Row[r].home = "local"
    /\ IF IsEpisode(r) THEN EpisodeScope(s, r)
       ELSE MemoryScope(s, r) /\ Row[r].kind \notin Internal

\* _fetch of strategies.py
GuidanceScope(s, r) ==
    /\ r \in current /\ Row[r].home = "local"
    /\ Row[r].kind \in Internal
    /\ Row[r].kind = "peer_card" => IsOwner(s)
    /\ IsOwner(s) \/ Row[r].scope \in {"all", Caller[s].principal}

Readable == IF linked THEN current ELSE {r \in current : Row[r].home = "local"}

-----------------------------------------------------------------------------
NoJob == [session |-> Nothing, query |-> Nothing]
NoBlock == [session |-> Nothing, rows |-> << >>, guidance |-> << >>, blind |-> FALSE, owed |-> {}]
NoHits == << >>
NothingFound == [leg \in {} |-> << >>]

RecallInit ==
    /\ world \in Worlds
    /\ config \in Configs
    /\ current = Ids \ {Successor[r] : r \in DOMAIN Successor}
    /\ gen = 0 /\ owed = {}
    /\ linked \in BOOLEAN
    /\ cache = << >> /\ cachegen = Nothing
    /\ job = NoJob /\ at = "idle"
    /\ found = NothingFound /\ hits = NoHits /\ guidance = << >>
    /\ block = NoBlock
    /\ lately = {}
    /\ jobs = 0 /\ writes = 0 /\ failures = 0

\* retrieve_guidance: strategies but those proved harmful, what is thought of
\* peers, and past cases for a task
Strategies == {"strategy", "guardrail"}
Deprecated(r) ==
    Row[r].kind \in Strategies /\ Row[r].helpful + Row[r].harmful >= 5 /\ Row[r].harmful > Row[r].helpful
Guidance(s) ==
    LET rows == Kept(world.guidance, {r \in Ids : GuidanceScope(s, r) /\ ~Deprecated(r)})
        Of(kinds, most) == Front(Kept(rows, {r \in Ids : Row[r].kind \in kinds}), most)
    IN Of(Strategies, 3) \o Of({"peer_card"}, 2) \o (IF world.task THEN Of({"case"}, 2) ELSE << >>)

\* a retrieve job: the learned guidance first, a quarter of the budget
TakeJob(s, q) ==
    /\ at = "idle" /\ jobs < MaxJobs
    /\ jobs' = jobs + 1
    /\ job' = [session |-> s, query |-> q]
    /\ guidance' = Packed(Guidance(s), Budget \div 4)
    /\ lately' = Readable
    /\ at' = "lookup"
    /\ UNCHANGED <<world, config, data, memo, found, hits, block, writes, failures>>

-----------------------------------------------------------------------------
(***************************** query_cache *********************************)
\* the scope of an entry: the session, and its identity
\* Mutant of Scope: one cache for every session.
AnyScope(s) == Nothing
Scope(s) == s

Usable(entry, s, q) == entry.scope = Scope(s) /\ <<q, entry.query>> \in Near

\* check_generation: an entry put while _generation was Nothing stays
Checked(read) ==
    IF ~read THEN << >>
    ELSE IF cachegen \in {Nothing, gen} THEN cache ELSE << >>

\* what get finds: the same query, else one near it; it becomes the latest
Best(entries, s, q) ==
    LET same == {i \in DOMAIN entries : entries[i].scope = Scope(s) /\ entries[i].query = q}
        near == {i \in DOMAIN entries : Usable(entries[i], s, q)}
    IN IF same # {} THEN Min(same) ELSE IF near # {} THEN Min(near) ELSE 0

Without(entries, i) == SubSeq(entries, 1, i - 1) \o SubSeq(entries, i + 1, Len(entries))

\* what guidance left
Remaining(rows) == Larger(0, Budget - Cost(rows))

\* lane2_block, and _lane2_cache
Served(ranked, blind) ==
    [session |-> job.session, blind |-> blind, owed |-> owed, guidance |-> guidance,
     rows |-> Packed(OneEpisode([n \in DOMAIN ranked |-> ranked[n].row]), Remaining(guidance))]

\* get: skipped where a link is enabled (or the option is off)
Lookup ==
    /\ at = "lookup"
    /\ IF config.link /\ linked
       THEN at' = "fts" /\ UNCHANGED <<memo, hits, block, failures>>
       ELSE \E read \in BOOLEAN :
              LET entries == Checked(read)
                  i == Best(entries, job.session, job.query)
              IN /\ read \/ failures < MaxFailures
                 /\ failures' = IF read THEN failures ELSE failures + 1
                 /\ cachegen' = IF read THEN gen ELSE Nothing
                 /\ IF i = 0
                    THEN cache' = entries /\ at' = "fts" /\ UNCHANGED <<hits, block>>
                    ELSE /\ cache' = Append(Without(entries, i), entries[i])
                         /\ hits' = entries[i].hits
                         /\ block' = Served(entries[i].hits, entries[i].blind)
                         /\ at' = "idle"
    /\ UNCHANGED <<world, config, data, job, found, guidance, lately, jobs, writes>>

\* put keeps the generation of the last get
\* Mutant of PutGeneration: the generation of now.
PutNow == gen
PutGeneration == cachegen
\* ... and the least recent entry goes
Stored(s, q, ranked) ==
    LET entry == [scope |-> Scope(s), query |-> q, hits |-> ranked, blind |-> cachegen = Nothing]
        others == Kept(cache, {e \in Members(cache) : ~(e.scope = Scope(s) /\ e.query = q)})
        all == Append(others, entry)
    IN SubSeq(all, Larger(1, Len(all) - CacheSize + 1), Len(all))

-----------------------------------------------------------------------------
(******************************** search ***********************************)
Legs == <<"fts", "efts", "vec", "evec", "graph", "facts">>
Weight(leg) == world.weight[leg]

\* the rows of a leg that may be found now; the graph leg starts from the
\* memories found so far and returns others, related to them
Leg(leg) == Kept(world[leg], {r \in Ids : FoundBy(job.session, r)})
Seeds == {r \in UNION {Members(found[l]) : l \in DOMAIN found} : ~IsEpisode(r)}
Related == IF Seeds = {} THEN << >>
           ELSE Kept(Leg("graph"), Ids \ Seeds)

Step(from, to, more) ==
    /\ at = from /\ at' = to
    /\ found' = [leg \in DOMAIN more \cup DOMAIN found |-> IF leg \in DOMAIN more THEN more[leg] ELSE found[leg]]
    /\ UNCHANGED <<world, config, data, memo, job, hits, guidance, block, lately, jobs, writes>>

FullText ==
    /\ Step("fts", "vec", [leg \in {"fts", "efts"} |-> Leg(leg)])
    /\ UNCHANGED failures

\* a leg that raises, or for which there is no embedder, is left out
Absent == failures < MaxFailures /\ failures' = failures + 1

Vectors ==
    \/ Step("vec", "graph", [leg \in {"vec", "evec"} |-> Leg(leg)]) /\ UNCHANGED failures
    \/ Step("vec", "graph", NothingFound) /\ Absent

Graph ==
    \/ Step("graph", "facts", [leg \in {"graph"} |-> Related]) /\ UNCHANGED failures
    \/ Step("graph", "facts", NothingFound) /\ Absent

Facts ==
    \/ Step("facts", "fuse", [leg \in {"facts"} |-> Leg("facts")]) /\ UNCHANGED failures
    \/ Step("facts", "fuse", NothingFound) /\ Absent

\* the fusion of the legs, perhaps reranked, then modulated
Ranked(limit) ==
    LET there == Kept(Legs, DOMAIN found)
        legs == [n \in DOMAIN there |-> [list |-> found[there[n]], weight |-> Weight(there[n])]]
        scores == Rrf(legs)
        judged == [x \in DOMAIN world.judged \cap DOMAIN scores |-> world.judged[x]]
        bases == IF DOMAIN scores = {} THEN scores ELSE Reranked(Normalized(scores), judged)
    IN HitsOf(bases, legs, limit)

Fuse ==
    /\ at = "fuse"
    /\ hits' = Ranked(IF config.blend THEN 3 * Limit ELSE Limit)
    /\ at' = IF config.blend THEN "reinforced" ELSE "linked"
    /\ UNCHANGED <<world, config, data, memo, job, found, guidance, block, lately, recallCounts>>

-----------------------------------------------------------------------------
(******************************** blend ************************************)
Reinforced ==
    /\ Step("reinforced", "recent", [leg \in {"reinforced"} |-> Leg("reinforced")])
    /\ UNCHANGED failures

Recent ==
    /\ Step("recent", "refetch", [leg \in {"recent"} |-> Leg("recent")])
    /\ UNCHANGED failures

\* the three lists fused, the rows fetched again, the episodes appended
Refetch ==
    /\ at = "refetch" /\ at' = "linked"
    /\ LET semantic == Kept([n \in DOMAIN hits |-> hits[n].row], {r \in Ids : ~IsEpisode(r)})
           legs == << [list |-> semantic, weight |-> 100],
                      [list |-> found["reinforced"], weight |-> 100],
                      [list |-> found["recent"], weight |-> 100] >>
           scores == Rrf(legs)
           rows == Kept(InOrder(scores, legs), {r \in Ids : FoundBy(job.session, r)})
           memories == Front(rows, Limit)
       IN hits' = [n \in DOMAIN memories |-> [row |-> memories[n], score |-> scores[memories[n]]]]
                  \o Kept(hits, {h \in Members(hits) : IsEpisode(h.row)})
    /\ UNCHANGED <<world, config, data, memo, job, found, guidance, block, lately, recallCounts>>

-----------------------------------------------------------------------------
(***************************** search_linked *******************************)
Remote == Kept(world.remote, current)

\* the linked profile's own search, as its owner; it may be out of reach
Asks(s) == config.link /\ linked /\ IsOwner(s)

Link ==
    /\ at = "linked" /\ at' = "finish"
    /\ \/ /\ Asks(job.session) /\ Remote # << >>
          /\ hits' = Merged(hits, [n \in DOMAIN Remote |-> [row |-> Remote[n], score |-> 0]])
          /\ UNCHANGED failures
       \/ /\ ~(Asks(job.session) /\ Remote # << >>)
          /\ UNCHANGED <<hits, failures>>
       \/ /\ Asks(job.session) /\ Absent
          /\ UNCHANGED hits
    /\ UNCHANGED <<world, config, data, memo, job, found, guidance, block, lately, jobs, writes>>

\* linked_used: whether a linked row was merged
Cacheable(ranked) == \A n \in DOMAIN ranked : ~IsLinked(ranked[n])

\* _diversify, put, the block
Finish ==
    /\ at = "finish" /\ at' = "idle"
    /\ LET ranked == Diversified(hits)
       IN /\ hits' = ranked
          /\ IF Cacheable(hits)
             THEN cache' = Stored(job.session, job.query, ranked) /\ cachegen' = PutGeneration
             ELSE UNCHANGED memo
          /\ block' = Served(ranked, FALSE)
    /\ found' = NothingFound
    /\ UNCHANGED <<world, config, data, job, guidance, lately, recallCounts>>

Retrieval ==
    \/ \E s \in Askers, q \in Queries : TakeJob(s, q)
    \/ Lookup \/ FullText \/ Vectors \/ Graph \/ Facts \/ Fuse
    \/ Reinforced \/ Recent \/ Refetch \/ Link \/ Finish

-----------------------------------------------------------------------------
(************************** other processes ********************************)
Write ==
    /\ writes < MaxWrites /\ writes' = writes + 1
    /\ UNCHANGED <<world, config, memo, job, at, found, hits, guidance, block, jobs, failures>>

\* every local write of a memory bumps the generation in its own transaction;
\* a linked profile has a generation of its own
Bumped(r) ==
    IF Row[r].home = "local" THEN gen' = gen + 1 /\ owed' = {} ELSE UNCHANGED <<gen, owed>>

Noticed == lately' = lately \cup Readable'

Supersede ==
    /\ Write
    /\ \E r \in DOMAIN Successor \cap current :
         current' = (current \ {r}) \cup {Successor[r]} /\ Bumped(r)
    /\ UNCHANGED linked
    /\ Noticed

Forget ==
    /\ Write
    /\ \E r \in Forgettable \cap current : current' = current \ {r} /\ Bumped(r)
    /\ UNCHANGED linked
    /\ Noticed

Relink ==
    /\ Write
    /\ linked' = ~linked
    /\ UNCHANGED <<current, gen, owed>>
    /\ Noticed

\* a sync pull commits envelope by envelope and bumps once, at its end
Pull ==
    /\ Write
    /\ \E r \in Forgettable \cap current :
         /\ Row[r].home = "local"
         /\ current' = current \ {r} /\ owed' = owed \cup {r}
    /\ UNCHANGED <<gen, linked>>
    /\ Noticed

PullEnds ==
    /\ owed # {} /\ owed' = {}
    /\ gen' = gen + 1
    /\ UNCHANGED <<world, config, current, linked, memo, job, at, found, hits, guidance, block, lately, recallCounts>>

RecallNext == Retrieval \/ Supersede \/ Forget \/ Relink \/ Pull \/ PullEnds
RecallSpec == RecallInit /\ [][RecallNext]_recallVars

-----------------------------------------------------------------------------
Hits == [row : Ids, score : Int]
Steps == {"idle", "lookup", "fts", "vec", "graph", "facts", "fuse",
          "reinforced", "recent", "refetch", "linked", "finish"}

RecallTypeOK ==
    /\ world \in Worlds /\ config \in Configs
    /\ current \subseteq Ids /\ owed \subseteq Ids /\ lately \subseteq Ids
    /\ gen \in Nat /\ linked \in BOOLEAN
    /\ cache \in Seq([scope : Askers, query : Queries, hits : Seq(Hits), blind : BOOLEAN])
    /\ Len(cache) <= CacheSize
    /\ cachegen \in Nat \cup {Nothing}
    /\ job \in [session : Askers \cup {Nothing}, query : Queries \cup {Nothing}]
    /\ at \in Steps
    /\ \A leg \in DOMAIN found : found[leg] \in Seq(Ids)
    /\ hits \in Seq(Hits) /\ guidance \in Seq(Ids)
    /\ block \in [session : Askers \cup {Nothing}, rows : Seq(Ids), guidance : Seq(Ids), blind : BOOLEAN, owed : SUBSET Ids]
    /\ {jobs, writes, failures} \subseteq Nat

\* What a session may be shown: its owner everything, anyone else memories
\* meant for all or for them and turns of their own, of this brain only, and
\* never what the owner thinks of a person; nobody the conversation they are in.
MayBeShown(s, r) ==
    /\ IsEpisode(r) => Row[r].session # s /\ Row[r].kind # "untrusted"
    /\ \/ IsOwner(s)
       \/ /\ Row[r].home = "local" /\ Row[r].kind # "peer_card"
          /\ Row[r].scope \in {Caller[s].principal, Caller[s].author}
             \cup (IF IsEpisode(r) THEN {} ELSE {"all"})

\* Five legs, the guidance, the linked profile and the cache each end in the
\* block: by none of the ways does a row reach a session it is not for.
NothingForeign ==
    \A r \in Members(block.rows) \cup Members(block.guidance) : MayBeShown(block.session, r)

\* The generation is the one primitive that makes the cache stale: a block,
\* from the cache or not, holds only rows that a query could find at some
\* moment since its retrieval began, of profiles linked then.  Two answers are
\* excused: one stored after the generation could not be read, which the next
\* reading takes for current, and one with a row a pull has retired and not
\* announced yet.
Fresh ==
    at = "idle" =>
      Members(block.rows) \cup Members(block.guidance) \subseteq lately \cup block.owed \/ block.blind

\* Fused at a discount a linked row never wins a slot on its score where the
\* local brain fills the limit: one is kept for it.  What the owner's linked
\* profile found is among the hits, or a local row of the same uid is.
LinkedHeard ==
    (at \in {"finish", "idle"} /\ jobs > 0 /\ writes = 0 /\ failures = 0
     /\ Asks(job.session) /\ Remote # << >>)
    => \E n \in DOMAIN hits : \E r \in Members(Remote) : Row[r].uid = Row[hits[n].row].uid
=============================================================================
