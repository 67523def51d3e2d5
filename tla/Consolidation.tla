--------------------------- MODULE Consolidation ---------------------------
(***************************************************************************)
(* The dream's `consolidate' strategy (dream/consolidate.py): one lesson   *)
(* of every cluster of near observations that extraction wrote.  A run     *)
(* reads the candidates and clusters them once, then asks the LLM for one  *)
(* cluster after the other and commits each lesson by itself, with the     *)
(* demotion of its members.  Meanwhile extraction adds observations and    *)
(* the user forgets observations and lessons.                              *)
(***************************************************************************)
EXTENDS Integers, Sequences, FiniteSets, SequencesExt, FiniteSetsExt

CONSTANTS
    Scopes,         \* scope_user: the users private memories belong to
    Everybody,      \* no scope
    Tiers,          \* trust tiers that occur, the best first
    MinCluster, MaxLessons,     \* _MIN_CLUSTER, _MAX_DISTILL_PER_RUN
    MaxMemories, MaxPasses      \* bounds

ASSUME ScopesAssumption == Everybody \notin Scopes
ASSUME TiersAssumption == DOMAIN Tiers \subseteq Nat
ASSUME ConsolidationBoundsAssumption ==
    /\ MinCluster \in Nat \ {0, 1} /\ MaxLessons \in Nat \ {0}
    /\ {MaxMemories, MaxPasses} \subseteq Nat

VARIABLES
    memories,       \* observations and lessons, named by their row
    consolidated,   \* memories with an audit row `consolidated'
    pass,           \* the run going on
    passes          \* history: runs so far

consolidationVars == <<memories, consolidated, pass, passes>>

Fits == Len(memories) < MaxMemories
Current(kind) == { m \in DOMAIN memories : /\ memories[m].kind = kind
                                           /\ memories[m].current }
NoPass == [on |-> FALSE, todo |-> {}, asks |-> {}, made |-> 0]

ConsolidationInit ==
    /\ memories = << >> /\ consolidated = {}
    /\ pass = NoPass /\ passes = 0

\* Extraction; tiers are numbered.
Extract(scope, tier) ==
    /\ Fits
    /\ memories' = Append(memories, [kind |-> "observation", scope |-> scope,
                                     tier |-> tier, current |-> TRUE, members |-> {}])
    /\ UNCHANGED <<consolidated, pass, passes>>

Forgets(m) ==
    /\ memories[m].current
    /\ memories' = [memories EXCEPT ![m].current = FALSE]
    /\ UNCHANGED <<consolidated, pass, passes>>

\* _candidates: current observations no lesson was made of.
Candidates == Current("observation") \ consolidated

\* _cluster: disjoint groups of near candidates; which, the vectors say.
\* Mutant of Coherent: scopes are not compared.
CoherentByVector(ms) == Cardinality(ms) >= MinCluster
Coherent(ms) ==
    /\ Cardinality(ms) >= MinCluster
    /\ \A m, n \in ms : memories[m].scope = memories[n].scope
Clusterings ==
    LET Numbers == 1..(Cardinality(Candidates) \div MinCluster)
        Group(f, k) == { m \in Candidates : f[m] = k }
    IN  { cs \in { { Group(f, k) : k \in Numbers } \ {{}} :
                    f \in [Candidates -> Numbers \cup {0}] } :
              \A ms \in cs : Coherent(ms) }

\* _already_distilled: every member is linked from a lesson that is current.
Distilled(ms) ==
    \A m \in ms : \E l \in Current("lesson") : m \in memories[l].members

OpenConsolidate ==
    /\ pass = NoPass /\ passes < MaxPasses
    /\ \E cs \in Clusterings \ {{}} :
           pass' = [NoPass EXCEPT !.on = TRUE, !.todo = cs]
    /\ passes' = passes + 1
    /\ UNCHANGED <<memories, consolidated>>

\* Up to the LLM call; a cluster that has its lesson is passed over.
AskLesson(ms) ==
    /\ pass.on /\ pass.asks = {} /\ pass.made < MaxLessons
    /\ ms \in pass.todo
    /\ pass' = [pass EXCEPT !.todo = @ \ {ms},
                            !.asks = IF Distilled(ms) THEN {} ELSE ms]
    /\ UNCHANGED <<memories, consolidated, passes>>

\* The proposal is vague or cites nobody: rejected, and counted.
RejectLesson ==
    /\ pass.on /\ pass.asks # {}
    /\ pass' = [pass EXCEPT !.asks = {}, !.made = @ + 1]
    /\ UNCHANGED <<memories, consolidated, passes>>

\* _insert_pattern: the lesson, with the members' scope and lowest trust;
\* they are demoted and marked.
ScopeOf(ms) ==
    LET scopes == { memories[m].scope : m \in ms }
    IN  IF Cardinality(scopes) = 1 THEN CHOOSE s \in scopes : TRUE ELSE Everybody
LowestTrust(ms) == Max({ memories[m].tier : m \in ms })
InsertLesson ==
    /\ pass.on /\ pass.asks # {} /\ Fits
    /\ memories' = Append(memories, [kind |-> "lesson", scope |-> ScopeOf(pass.asks),
                                     tier |-> LowestTrust(pass.asks),
                                     current |-> TRUE, members |-> pass.asks])
    /\ consolidated' = consolidated \cup pass.asks
    /\ pass' = [pass EXCEPT !.asks = {}, !.made = @ + 1]
    /\ UNCHANGED passes

\* The last cluster is done, the LLM is down, the run is preempted, or dies:
\* everything written is committed already.
EndPass ==
    /\ pass.on
    /\ pass' = NoPass
    /\ UNCHANGED <<memories, consolidated, passes>>

ConsolidationNext ==
    \/ \E s \in Scopes \cup {Everybody}, t \in DOMAIN Tiers : Extract(s, t)
    \/ \E m \in DOMAIN memories : Forgets(m)
    \/ OpenConsolidate \/ RejectLesson \/ InsertLesson
    \/ \E ms \in pass.todo : AskLesson(ms)
    \/ EndPass

ConsolidationSpec == ConsolidationInit /\ [][ConsolidationNext]_consolidationVars

-----------------------------------------------------------------------------
\* Properties.

\* The types of everything above.
ConsolidationTypeOK ==
    /\ memories \in Seq([kind : {"observation", "lesson"}, scope : Scopes \cup {Everybody},
                         tier : DOMAIN Tiers, current : BOOLEAN,
                         members : SUBSET (1..MaxMemories)])
    /\ consolidated \subseteq DOMAIN memories
    /\ pass.todo \subseteq SUBSET (DOMAIN memories) /\ pass.asks \subseteq DOMAIN memories
    /\ passes \in 0..MaxPasses

\* Whoever can read a lesson can read every memory it was made of, and it
\* is trusted no more than the least of them (consolidate._cluster: "two
\* users' near-identical private facts must never merge into one pattern
\* that then leaks to both").
LessonsStayPrivate ==
    \A l \in DOMAIN memories : memories[l].kind = "lesson" =>
        \A m \in memories[l].members :
            /\ memories[m].scope \in {Everybody, memories[l].scope}
            /\ memories[m].tier <= memories[l].tier

\* A memory is made a lesson of, and demoted, once: whatever runs stopped,
\* whatever joins its cluster later and whether or not the lesson was
\* forgotten.
LessonOnce ==
    \A k, l \in DOMAIN memories :
        /\ k # l
        /\ memories[k].kind = "lesson" /\ memories[l].kind = "lesson"
        => memories[k].members \cap memories[l].members = {}

\* A lesson may be read by whom it may reach, and each observation counts in
\* one.
LessonsHold == LessonsStayPrivate /\ LessonOnce
=============================================================================
