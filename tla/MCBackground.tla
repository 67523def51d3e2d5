---------------------------- MODULE MCBackground ----------------------------
(***************************************************************************)
(* What runs behind the conversation, one component per behaviour: they    *)
(* share no state that these modules model, so their states add up and do  *)
(* not multiply.                                                           *)
(***************************************************************************)
EXTENDS OutcomeMining, EpisodeMining, Consolidation, PeerCards, Proposals,
        SignalQueue, LlmBudget, StoreSchema, AskLoop, TLC

VARIABLE component  \* the one this behaviour is of

MCTiers == <<"owner", "tool">>
MCEvidence == {<<3, 3>>, <<2, 4>>}
MCTallies == {<<0, 0>>, <<2, 3>>}
MCReleases == "old" :> 2 @@ "new" :> 3 @@ "plain" :> 3
MCShortOf == "m1" :> "x" @@ "v1" :> "x" @@ "t1" :> "y"

Learning == {"mine", "episodes", "consolidate", "peers", "proposals"}
Services == {"signals", "llm", "store", "ask"}

\* What the components a behaviour is not of start from.
StoreAtRest == tables = {}
AskAtRest ==
    /\ scopeOf = [r \in AskRows |-> Owner]
    /\ kindOf = [m \in Heads \cup Tails |-> "observation"]
    /\ before = [m \in Heads |-> NoRow]

Init ==
    /\ MineInit /\ EpisodeInit /\ ConsolidationInit /\ PeersInit
    /\ ProposalsInit /\ SignalInit /\ LlmInit /\ StoreInit /\ AskInit
    /\ component \in Learning \cup Services
    /\ component # "store" => StoreAtRest
    /\ component # "ask" => AskAtRest

learningVars == <<miningVars, episodeVars, consolidationVars, peersVars,
                  proposalsVars>>
serviceVars == <<signalVars, llmVars, storeVars, askVars>>
vars == <<learningVars, serviceVars, component>>

Learn ==
    \/ /\ component = "mine" /\ MineNext
       /\ UNCHANGED <<episodeVars, consolidationVars, peersVars, proposalsVars>>
    \/ /\ component = "episodes" /\ EpisodeNext
       /\ UNCHANGED <<miningVars, consolidationVars, peersVars, proposalsVars>>
    \/ /\ component = "consolidate" /\ ConsolidationNext
       /\ UNCHANGED <<miningVars, episodeVars, peersVars, proposalsVars>>
    \/ /\ component = "peers" /\ PeersNext
       /\ UNCHANGED <<miningVars, episodeVars, consolidationVars, proposalsVars>>
    \/ /\ component = "proposals" /\ ProposalsNext
       /\ UNCHANGED <<miningVars, episodeVars, consolidationVars, peersVars>>

Serve ==
    \/ /\ component = "signals" /\ SignalNext
       /\ UNCHANGED <<llmVars, storeVars, askVars>>
    \/ /\ component = "llm" /\ LlmNext
       /\ UNCHANGED <<signalVars, storeVars, askVars>>
    \/ /\ component = "store" /\ StoreNext
       /\ UNCHANGED <<signalVars, llmVars, askVars>>
    \/ /\ component = "ask" /\ AskNext
       /\ UNCHANGED <<signalVars, llmVars, storeVars>>

Next ==
    \/ Learn /\ UNCHANGED <<serviceVars, component>>
    \/ Serve /\ UNCHANGED <<learningVars, component>>

Spec == Init /\ [][Next]_vars
=============================================================================
