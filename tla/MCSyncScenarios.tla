--------------------------- MODULE MCSyncScenarios ---------------------------
(***************************************************************************)
(* Two scenarios of SyncEngine, one per behaviour.  In the first each      *)
(* device edits the memory both hold, while commands overlap, die or lose  *)
(* their answer.  In the second two pulls of one device overlap among      *)
(* edits, corrections and deletions; its programs are others, so it has    *)
(* variables of its own, and a behaviour leaves alone those it is not of.  *)
(***************************************************************************)
EXTENDS SyncEngine

CONSTANTS laptop, server, lpush, lpush2, lpull, lpull2, spush, spull

VARIABLES
    scenario,   \* the one this behaviour is of
    pLog, pRows, pEvents, pOutbox, pSeen, pStale, pClock, pMinted, pRun, pOps,
    pFaults

MCDevices == {laptop, server}
HomeOf(runs) == [r \in runs |-> IF r \in {spush, spull} THEN server ELSE laptop]
MCHome == HomeOf(Runs)

PullPushers == {spush}
PullPullers == {lpull, lpull2}
PullHome == HomeOf(PullPushers \cup PullPullers)
PullOps == {"edit", "amend", "purge"}
PullFaults == {"locked"}
Pulls == INSTANCE SyncEngine WITH
    log <- pLog, rows <- pRows, events <- pEvents, outbox <- pOutbox,
    seen <- pSeen, stale <- pStale, clock <- pClock, minted <- pMinted,
    run <- pRun, ops <- pOps, faults <- pFaults,
    Home <- PullHome, Pushers <- PullPushers, Pullers <- PullPullers,
    LocalOps <- PullOps, DuringPull <- TRUE, Skewed <- FALSE,
    Faults <- PullFaults, MaxTs <- 3, MaxOps <- 2

pullVars == <<pLog, pRows, pEvents, pOutbox, pSeen, pStale, pClock, pMinted,
              pRun, pOps, pFaults>>

ScenariosInit ==
    /\ Init /\ Pulls!Init
    /\ scenario \in {"edits", "pulls"}

ScenariosNext ==
    /\ \/ scenario = "edits" /\ Next /\ UNCHANGED pullVars
       \/ scenario = "pulls" /\ Pulls!Next /\ UNCHANGED syncVars
    /\ UNCHANGED scenario

ScenariosSpec == ScenariosInit /\ [][ScenariosNext]_<<syncVars, pullVars, scenario>>

\* SyncEngine's CacheTold where two pulls of one device overlap and envelopes
\* fail.
PullsTold == Pulls!CacheTold
=============================================================================
