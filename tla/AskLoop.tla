------------------------------- MODULE AskLoop -------------------------------
(***************************************************************************)
(* Asking the brain (recall/ask.py): two prefetching searches, then at     *)
(* most so many actions chosen by the LLM, each a search, a grep of past   *)
(* turns, a walk of a version chain or the answer.  Every action applies   *)
(* the caller's scope again.  What it shows is registered under the first  *)
(* eight characters of its uid, and only what is registered can be cited.  *)
(* Memories are replaced and forgotten while the LLM thinks.               *)
(***************************************************************************)
EXTENDS Integers, FiniteSets, FiniteSetsExt, Functions

CONSTANTS
    Owner,          \* the caller of trust tier owner
    Guest,          \* a caller of a lower tier
    Everyone,       \* the scope of a row without a principal
    Heads, Tails,   \* rows that may be current, and the versions before them
    Turns,          \* episodes of the archive
    Shorts, ShortOf,    \* short ids, and the one of every row
    NoRow,
    MaxIterations,  \* ask_max_iterations
    MaxChanges      \* bound

AskRows == Heads \cup Tails \cup Turns
ASSUME AskAssumption ==
    /\ ShortOf \in [AskRows -> Shorts] /\ NoRow \notin AskRows
    /\ Heads \cap Tails = {} /\ Turns \cap (Heads \cup Tails) = {}
ASSUME AskBoundsAssumption == MaxIterations \in Nat \ {0} /\ MaxChanges \in Nat

VARIABLES
    scopeOf,        \* principal a row is scoped to, or who wrote the turn
    kindOf,         \* what a memory is
    current,        \* the memories that are current truth
    before,         \* the version a memory supersedes, or NoRow
    asking,         \* the call going on
    changes         \* history: memories changed meanwhile

askVars == <<scopeOf, kindOf, current, before, asking, changes>>
askStore == <<scopeOf, kindOf, current, before, changes>>

Epistemics == {"observation", "inference"}
NotAsked == [on |-> FALSE, caller |-> Owner, cap |-> 0, done |-> 0,
             registry |-> [s \in Shorts |-> NoRow], seeds |-> {},
             shown |-> {}, cites |-> {}, answered |-> FALSE, degraded |-> FALSE]

AskInit ==
    /\ scopeOf \in [AskRows -> {Everyone, Owner, Guest}]
    /\ \A t \in Turns : scopeOf[t] # Everyone
    /\ kindOf \in [Heads \cup Tails -> Epistemics \cup {"peer_card"}]
    /\ current = Heads
    /\ before \in [Heads -> Tails \cup {NoRow}]
    /\ asking = NotAsked /\ changes = 0

\* search._scope_memories and _scope_filter_chain: never a peer card.
Allowed(caller, m) ==
    \/ caller = Owner
    \/ scopeOf[m] \in {Everyone, caller} /\ kindOf[m] # "peer_card"

\* What _scoped_search may find: _EXCLUDE_KINDS, epistemic and scope.
Findable(caller, epistemics) ==
    { m \in current : kindOf[m] \in epistemics /\ Allowed(caller, m) }
\* search._scope_episodes: the turns one may read again.
Greppable(caller) == { t \in Turns : caller = Owner \/ scopeOf[t] = caller }

\* _summarize: hits are registered one by one, the last of a short id stays.
Registers(rows) ==
    { r \in [Shorts -> AskRows \cup {NoRow}] : \A s \in Shorts :
        LET same == { m \in rows : ShortOf[m] = s }
        IN IF same = {} THEN r[s] = asking.registry[s] ELSE r[s] \in same }

\* ask: the cap of a level, and _dual_prefetch.
Ask(caller, level) ==
    /\ ~asking.on
    /\ \E seeds \in SUBSET Findable(caller, Epistemics) :
       \E registry \in [Shorts -> AskRows \cup {NoRow}] :
        /\ \A s \in Shorts :
            LET same == { m \in seeds : ShortOf[m] = s }
            IN IF same = {} THEN registry[s] = NoRow ELSE registry[s] \in same
        /\ asking' = [NotAsked EXCEPT !.on = TRUE, !.caller = caller,
                !.cap = IF level = "fast" THEN Min({2, MaxIterations})
                        ELSE MaxIterations,
                !.registry = registry, !.seeds = seeds, !.shown = seeds]
    /\ UNCHANGED askStore

\* The tool's observation; at the cap it abstains with its seeds.
Shows(rows, registry) ==
    asking' = [asking EXCEPT !.done = @ + 1, !.registry = registry,
                !.shown = @ \cup rows, !.on = asking.done + 1 < asking.cap,
                !.cites = IF asking.done + 1 = asking.cap
                          THEN { ShortOf[m] : m \in asking.seeds } ELSE {}]

\* search_memory and date_range_search: some of what can be found.
Searches(epistemics) ==
    /\ asking.on
    /\ \E rows \in SUBSET Findable(asking.caller, epistemics) :
        \E r \in Registers(rows) : Shows(rows, r)
    /\ UNCHANGED askStore

\* _grep_episodes.
Greps ==
    /\ asking.on
    /\ \E rows \in SUBSET Greppable(asking.caller) :
        \E r \in Registers(rows) : Shows(rows, r)
    /\ UNCHANGED askStore

\* facts.reasoning_chain: the rows from a memory back.
Chain(m) == {m} \cup IF m \in Heads /\ before[m] # NoRow THEN {before[m]} ELSE {}

\* Mutant of VisibleChain: a head one may see vouches for its versions.
WholeChain(caller, m) == Chain(m)
\* _scope_filter_chain: what a caller may see of it.
VisibleChain(caller, m) == { n \in Chain(m) : Allowed(caller, n) }

\* _reasoning_chain: the model names a short id, one visible row answers.
Walks(s) ==
    /\ asking.on
    /\ LET seen == { m \in current : ShortOf[m] = s /\ Allowed(asking.caller, m) }
       IN \/ \E m \in seen : \E r \in Registers(VisibleChain(asking.caller, m)) :
                Shows(VisibleChain(asking.caller, m), r)
          \/ seen = {} /\ Shows({}, asking.registry)
    /\ UNCHANGED askStore

\* _dispatch: an unknown action costs a step and shows nothing.
Stumbles == asking.on /\ Shows({}, asking.registry) /\ UNCHANGED askStore

\* _norm_citations: only what is registered.
Citable(named) == { s \in named : asking.registry[s] # NoRow }

\* _finalize_answer: an answer nothing backs, or an abstention, has the seeds.
Answers(named, abstain) ==
    /\ asking.on
    /\ asking' = [asking EXCEPT !.on = FALSE, !.done = @ + 1,
            !.answered = ~abstain,
            !.cites = IF Citable(named) # {} THEN Citable(named)
                      ELSE { ShortOf[m] : m \in asking.seeds }]
    /\ UNCHANGED askStore

\* LLMUnavailable, at any step: the prefetch is all there is.
Degrades ==
    /\ asking.on
    /\ asking' = [asking EXCEPT !.on = FALSE, !.degraded = TRUE,
            !.cites = { ShortOf[m] : m \in asking.seeds }]
    /\ UNCHANGED askStore

\* Meanwhile a memory is forgotten or superseded.
Changes(m) ==
    /\ changes < MaxChanges /\ m \in current
    /\ changes' = changes + 1
    /\ current' = current \ {m}
    /\ UNCHANGED <<scopeOf, kindOf, before, asking>>

AskNext ==
    \/ \E caller \in {Owner, Guest}, level \in {"fast", "deep"} : Ask(caller, level)
    \/ \E epistemics \in SUBSET Epistemics \ {{}} : Searches(epistemics)
    \/ Greps \/ Stumbles \/ Degrades
    \/ \E s \in Shorts : Walks(s)
    \/ \E named \in SUBSET Shorts, abstain \in BOOLEAN : Answers(named, abstain)
    \/ \E m \in Heads : Changes(m)

\* Nothing out of a caller's reach is shown or cited by any action: the chain
\* of a memory one may see can cross into another person's, and the owner's
\* card of a person is never shown to that person ("a non-owner can never
\* reach a peer_card or another principal's rows through ANY tool").
AskInScope ==
    /\ \A m \in asking.shown :
        \/ asking.caller = Owner
        \/ m \in Turns /\ scopeOf[m] = asking.caller
        \/ /\ m \notin Turns /\ scopeOf[m] \in {Everyone, asking.caller}
           /\ kindOf[m] # "peer_card"
    /\ asking.cites \subseteq { ShortOf[m] : m \in asking.shown }
    /\ \A s \in Shorts : asking.registry[s] # NoRow => asking.registry[s] \in asking.shown
=============================================================================
