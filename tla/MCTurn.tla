------------------------------- MODULE MCTurn -------------------------------
(***************************************************************************)
(* The two halves of a turn, one per behaviour: the provider's calls and   *)
(* its thread, where a retrieval is one step, and the retrieval, leg by    *)
(* leg.  They share no state that these modules model, so their states add *)
(* up.                                                                     *)
(*                                                                         *)
(* For the first: two sessions of the owner's and one of a guest's.  For   *)
(* the second: an owner and a guest with two near queries; memories for    *)
(* all, for the guest and for another person, a guide, what the owner      *)
(* thinks of the guest, a turn of each, and a linked profile that holds a  *)
(* copy of one memory.                                                     *)
(***************************************************************************)
EXTENDS ProviderWorker, Recall, TLC
CONSTANTS a, b, guest, p, q

VARIABLE half       \* the one this behaviour is of

MCMains == {a, b}
MCGuests == {guest}

Memory(uid, kind, scope, words) ==
    [uid |-> uid, what |-> "memory", kind |-> kind, scope |-> scope, session |-> "none",
     words |-> words, cost |-> 2, home |-> "local",
     decay |-> 1000, helpful |-> 0, harmful |-> 0, pinned |-> FALSE, failed |-> FALSE]
Turn(uid, who, talk, words) ==
    [Memory(uid, "turn", who, words) EXCEPT !.what = "episode", !.session = talk, !.cost = 1]
Away(row) == [row EXCEPT !.home = "away"]

MCRow ==
    "old" :> Memory("u1", "fact", "all", {1, 2}) @@
    "new" :> Memory("u2", "fact", "all", {1, 2}) @@
    "hers" :> [Memory("u3", "fact", "guest", {1, 3}) EXCEPT !.helpful = 6, !.pinned = TRUE] @@
    "his" :> [Memory("u4", "warning", "other", {4}) EXCEPT !.decay = 90, !.failed = TRUE, !.harmful = 9] @@
    "case" :> [Memory("u5", "case", "all", {1}) EXCEPT !.cost = 1] @@
    "bad" :> [Memory("u10", "strategy", "all", {1}) EXCEPT !.helpful = 2, !.harmful = 3] @@
    "card" :> [Memory("u6", "peer_card", "guest", {1}) EXCEPT !.cost = 1] @@
    "said" :> Turn("u7", "guest", "g", {1, 2}) @@
    "told" :> Turn("u8", "owner", "z", {2}) @@
    "copy" :> Away(Memory("u1", "fact", "all", {1, 2})) @@
    "else" :> Away(Memory("u9", "fact", "all", {5}))

MCCaller ==
    "o" :> [trust |-> "owner", principal |-> "owner", author |-> "owner"] @@
    "g" :> [trust |-> "known_user", principal |-> "guest", author |-> "guest"]

Even == [leg \in {"fts", "efts", "vec", "evec", "graph", "facts"} |-> 100]
Base ==
    [fts |-> <<"old", "new", "his">>, efts |-> <<"said", "told">>, vec |-> <<"hers", "old", "new">>,
     evec |-> <<"told">>, graph |-> <<"his", "old", "new">>, facts |-> <<"new", "old">>,
     reinforced |-> <<"his", "hers", "old", "new">>, recent |-> <<"new", "hers">>,
     guidance |-> <<"bad", "case", "card">>, task |-> TRUE, remote |-> <<"copy", "else">>,
     judged |-> [r \in {} |-> 0], weight |-> Even]
MCWorlds ==
    {Base,
     [Base EXCEPT !.fts = <<"hers">>, !.vec = << >>, !.graph = <<"old", "new">>, !.facts = << >>,
                  !.remote = <<"else">>, !.task = FALSE],
     [Base EXCEPT !.judged = "old" :> 5 @@ "hers" :> 7 @@ "new" :> 5, !.weight["vec"] = 0,
                  !.recent = << >>, !.guidance = << >>]}
MCSuccessor == "old" :> "new"
MCForgettable == {"hers", "copy", "case"}
MCConfigs == {[blend |-> TRUE, link |-> TRUE], [blend |-> FALSE, link |-> FALSE]}
MCQueries == {p, q}
MCNear == MCQueries \X MCQueries
MCAlike == Permutations(MCMains) \cup Permutations(MCQueries)

Init ==
    /\ ProviderInit /\ RecallInit
    /\ \/ half = "provider" /\ world = Base /\ config.blend /\ ~linked
       \/ half = "recall"

vars == <<providerVars, recallVars, half>>
Next ==
    \/ half = "provider" /\ ProviderNext /\ UNCHANGED <<recallVars, half>>
    \/ half = "recall" /\ RecallNext /\ UNCHANGED <<providerVars, half>>

Spec == Init /\ [][Next]_vars
=============================================================================
