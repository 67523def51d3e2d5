------------------------------ MODULE PeerCards ------------------------------
(***************************************************************************)
(* The dream's `peers' strategy (dream/peers.py): one card, in versions,   *)
(* about each person the owner meets in group chats.  A run reads who said *)
(* something new, asks the LLM about one person after the other and        *)
(* commits each card by itself.  Meanwhile people talk and the user        *)
(* forgets cards.                                                          *)
(***************************************************************************)
EXTENDS Integers, Sequences, FiniteSets, SequencesExt, FiniteSetsExt

CONSTANTS
    People, Channels,
    Peers,          \* the people whose tier makes them peers
    Profiles,       \* what the LLM may answer about a person
    MaxCards, MaxSaid, MaxBuilds    \* bounds

ASSUME PeersAssumption == Peers \subseteq People
ASSUME PeersBoundsAssumption == {MaxCards, MaxSaid, MaxBuilds} \subseteq Nat

VARIABLES
    cards,      \* rows, named by their id: every version of every card
    talk,       \* episodes of the archive with their authors
    build,      \* the run going on
    builds      \* history: runs so far

peersVars == <<cards, talk, build, builds>>

CardFits == Len(cards) < MaxCards
CurrentCards == { m \in DOMAIN cards : cards[m].current }
NoBuild == [on |-> FALSE, todo |-> {}, asks |-> {}, existing |-> 0]

PeersInit ==
    /\ cards = << >> /\ talk = << >>
    /\ build = NoBuild /\ builds = 0

Says(who, channel) ==
    /\ Len(talk) < MaxSaid
    /\ talk' = Append(talk, [who |-> who, channel |-> channel])
    /\ UNCHANGED <<cards, build, builds>>

ForgetsCard(m) ==
    /\ cards[m].current
    /\ cards' = [cards EXCEPT ![m].current = FALSE]
    /\ UNCHANGED <<talk, build, builds>>

\* _group_channels: two authors or more.
Groups == { c \in Channels : Cardinality({ e.who : e \in
                { x \in ToSet(talk) : x.channel = c } }) >= 2 }

\* _peer_principals: the newest episode of each peer in a group.
SaidInGroups(p) == { i \in DOMAIN talk : talk[i].who = p /\ talk[i].channel \in Groups }
Principals == { p \in Peers : SaidInGroups(p) # {} }

OpenPeers ==
    /\ build = NoBuild /\ builds < MaxBuilds /\ Principals # {}
    /\ build' = [NoBuild EXCEPT !.on = TRUE,
                    !.todo = { <<p, Max(SaidInGroups(p))>> : p \in Principals }]
    /\ builds' = builds + 1
    /\ UNCHANGED <<cards, talk>>

\* _current_card: the latest version, or 0
CardOf(p) ==
    LET his == { m \in CurrentCards : cards[m].about = p }
    IN  IF his = {} THEN 0
        ELSE CHOOSE m \in his : \A n \in his : cards[n].version <= cards[m].version

\* Up to the LLM call; nothing new since the card was built: none.
AskCard(p, newest) ==
    /\ build.on /\ build.asks = {}
    /\ <<p, newest>> \in build.todo
    /\ LET card == CardOf(p)
       IN  build' = [build EXCEPT
               !.todo = @ \ {<<p, newest>>},
               !.asks = IF card # 0 /\ newest <= cards[card].seen THEN {}
                        ELSE {<<p, newest>>},
               !.existing = card]
    /\ UNCHANGED <<cards, talk, builds>>

RejectCard ==
    /\ build.on /\ build.asks # {}
    /\ build' = [build EXCEPT !.asks = {}]
    /\ UNCHANGED <<cards, talk, builds>>

\* _reinforce: the same profile again; only the cursor moves.
Reinforce(p, newest, profile) ==
    /\ build.on /\ <<p, newest>> \in build.asks /\ build.existing # 0
    /\ cards[build.existing].profile = profile
    /\ cards' = [cards EXCEPT ![build.existing].seen = newest]
    /\ build' = [build EXCEPT !.asks = {}]
    /\ UNCHANGED <<talk, builds>>

\* _insert_or_supersede: a new version; the card read before the call is
\* closed.
\* Mutant of Superseded: it is left as it is.
SupersededNone == cards
Superseded ==
    IF build.existing = 0 THEN cards
    ELSE [cards EXCEPT ![build.existing].current = FALSE]
InsertCard(p, newest, profile) ==
    /\ build.on /\ <<p, newest>> \in build.asks /\ CardFits
    /\ build.existing # 0 => cards[build.existing].profile # profile
    /\ cards' = Append(Superseded,
           [about |-> p, profile |-> profile, seen |-> newest, current |-> TRUE,
            version |-> IF build.existing = 0 THEN 1
                        ELSE cards[build.existing].version + 1])
    /\ build' = [build EXCEPT !.asks = {}]
    /\ UNCHANGED <<talk, builds>>

\* The last person is done, the LLM is down, the run is preempted, or dies:
\* everything written is committed already.
EndBuild ==
    /\ build.on
    /\ build' = NoBuild
    /\ UNCHANGED <<cards, talk, builds>>

PeersNext ==
    \/ \E p \in People, c \in Channels : Says(p, c)
    \/ \E m \in DOMAIN cards : ForgetsCard(m)
    \/ OpenPeers \/ RejectCard \/ EndBuild
    \/ \E x \in build.todo : AskCard(x[1], x[2])
    \/ \E x \in build.asks, profile \in Profiles :
           Reinforce(x[1], x[2], profile) \/ InsertCard(x[1], x[2], profile)

PeersSpec == PeersInit /\ [][PeersNext]_peersVars

-----------------------------------------------------------------------------
\* Properties.

\* The types of everything above.
PeersTypeOK ==
    /\ cards \in Seq([about : Peers, profile : Profiles, seen : 0..MaxSaid,
                      current : BOOLEAN, version : 1..MaxCards])
    /\ talk \in Seq([who : People, channel : Channels])
    /\ build.todo \cup build.asks \subseteq Peers \X (1..MaxSaid)
    /\ build.existing \in 0..Len(cards) /\ builds \in 0..MaxBuilds

\* A person has one current card, however often cards are forgotten while
\* their next version is written, and only people met in a group have one.
OneCard ==
    \A c \in CurrentCards :
        /\ \A d \in CurrentCards : cards[c].about = cards[d].about => c = d
        /\ cards[c].about \in Principals
=============================================================================
