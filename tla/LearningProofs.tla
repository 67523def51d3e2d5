--------------------------- MODULE LearningProofs ---------------------------
(***************************************************************************)
(* What the dream learns, for any people, sessions, texts and limits: a    *)
(* card per person, a lesson per observation, each with the rights of what *)
(* it was made of.                                                         *)
(***************************************************************************)
EXTENDS OutcomeMining, EpisodeMining, Consolidation, PeerCards,
        SequenceTheorems, FiniteSetTheorems, WellFoundedInduction, TLAPS

-----------------------------------------------------------------------------
\* Finite sets of numbers.

\* A finite set of numbers that is not empty has a greatest member.
LEMMA MaxOfFinite ==
    ASSUME NEW S, S \subseteq Nat, IsFiniteSet(S), S # {}
    PROVE  Max(S) \in S /\ \A x \in S : x <= Max(S)
<1> DEFINE Topless == { T \in FiniteSubsetsOf(S) :
                            T # {} /\ ~ \E m \in T : \A x \in T : x <= m }
<1>1. Topless = {}
    <2> SUFFICES ASSUME Topless # {} PROVE FALSE
        OBVIOUS
    <2>1. IsWellFoundedOn(StrictSubsetOrdering(S), FiniteSubsetsOf(S))
        BY FS_StrictSubsetOrderingWellFounded
    <2>2. Topless \subseteq FiniteSubsetsOf(S)
        OBVIOUS
    <2> HIDE DEF Topless
    <2>3. PICK T \in Topless : \A U \in Topless : <<U, T>> \notin StrictSubsetOrdering(S)
        BY <2>1, <2>2, WFMin
    <2> USE DEF Topless
    <2>4. T \in FiniteSubsetsOf(S) /\ T # {} /\ ~ \E m \in T : \A x \in T : x <= m
        OBVIOUS
    <2>5. T \subseteq S /\ IsFiniteSet(T)
        BY <2>4 DEF FiniteSubsetsOf
    <2>6. PICK e \in T : TRUE
        BY <2>4
    <2>7. T \ {e} \subseteq S /\ IsFiniteSet(T \ {e})
        BY <2>5, FS_RemoveElement
    <2>8. T \ {e} \in FiniteSubsetsOf(S) /\ <<T \ {e}, T>> \in StrictSubsetOrdering(S)
        BY <2>5, <2>6, <2>7 DEF FiniteSubsetsOf, StrictSubsetOrdering
    <2>9. T \ {e} \notin Topless
        BY <2>3, <2>8
    <2>10. CASE T \ {e} = {}
        <3>1. T = {e} /\ e \in Nat
            BY <2>5, <2>6, <2>10
        <3> QED BY <2>4, <3>1
    <2>11. CASE T \ {e} # {}
        <3>1. PICK m \in T \ {e} : \A x \in T \ {e} : x <= m
            BY <2>8, <2>9, <2>11
        <3>2. m \in Nat /\ e \in Nat
            BY <2>5, <2>6, <3>1
        <3>3. CASE e <= m
            BY <2>4, <3>1, <3>3
        <3>4. CASE m <= e
            <4>1. \A x \in T : x \in Nat
                BY <2>5
            <4>2. \A x \in T : x <= e
                BY <3>1, <3>2, <3>4, <4>1
            <4> QED BY <2>4, <2>6, <4>2
        <3> QED BY <3>2, <3>3, <3>4
    <2> QED BY <2>10, <2>11
<1>2. S \in FiniteSubsetsOf(S)
    BY DEF FiniteSubsetsOf
<1>3. \E m \in S : \A x \in S : x <= m
    BY <1>1, <1>2
<1>4. \E m \in S : \A x \in S : m >= x
    BY <1>3
<1>5. Max(S) \in S /\ \A x \in S : Max(S) >= x
    BY <1>4 DEF Max
<1> QED BY <1>5

\* The positions of a sequence are finitely many.
LEMMA PlacesFinite ==
    ASSUME NEW n \in Nat, NEW T, T \subseteq 1..n
    PROVE  IsFiniteSet(T) /\ T \subseteq Nat
<1>1. IsFiniteSet(1..n)
    BY FS_Interval
<1>2. T \in SUBSET (1..n) /\ 1..n \subseteq Nat
    OBVIOUS
<1>3. IsFiniteSet(T)
    BY <1>1, <1>2, FS_Subset
<1> QED BY <1>2, <1>3

-----------------------------------------------------------------------------
\* One current card per person.

CardRow == [about : Peers, profile : Profiles, seen : Nat, current : BOOLEAN,
            version : Nat]
Utterance == [who : People, channel : Channels]

PeersTypes ==
    /\ cards \in Seq(CardRow) /\ talk \in Seq(Utterance)
    /\ build \in [on : BOOLEAN, todo : SUBSET (Peers \X Nat),
                  asks : SUBSET (Peers \X Nat), existing : Nat]

\* Who is asked about was met in a group, and nobody else is asked about.
Asked ==
    /\ \A x \in build.todo \cup build.asks : x[1] \in Principals
    /\ \A x, y \in build.asks : x = y

\* The card read before the call is the person's current one, if there is
\* one: the user may have forgotten it since, nobody else writes cards.
ReadBefore ==
    \A x \in build.asks :
        /\ build.existing # 0 => build.existing \in DOMAIN cards
        /\ \A c \in CurrentCards : cards[c].about = x[1] => c = build.existing

PeersInv == PeersTypes /\ Asked /\ ReadBefore /\ OneCard
-----------------------------------------------------------------------------
\* The authors of a channel are finitely many, and only grow.
AuthorsOf(c) == { e.who : e \in { x \in ToSet(talk) : x.channel = c } }

LEMMA AuthorsFinite ==
    ASSUME talk \in Seq(Utterance), NEW c
    PROVE  IsFiniteSet(AuthorsOf(c))
<1> DEFINE places == { i \in 1..Len(talk) : talk[i].channel = c }
           author == [i \in places |-> talk[i].who]
<1>1. IsFiniteSet(places)
    BY PlacesFinite
<1>2. AuthorsOf(c) = { talk[i].who : i \in places }
    BY DEF AuthorsOf, ToSet
<1>3. author \in Surjection(places, AuthorsOf(c))
    BY <1>2 DEF Surjection
<1> QED BY <1>1, <1>3, FS_Surjection

LEMMA GroupsGrow ==
    ASSUME talk \in Seq(Utterance), talk' \in Seq(Utterance),
           Len(talk) <= Len(talk'), \A i \in DOMAIN talk : talk'[i] = talk[i]
    PROVE  Principals \subseteq Principals'
<1>1. ToSet(talk) \subseteq ToSet(talk')
    BY DEF ToSet
<1>2. Groups \subseteq Groups'
    <2> SUFFICES ASSUME NEW c \in Groups PROVE c \in Groups'
        OBVIOUS
    <2>1. AuthorsOf(c) \subseteq AuthorsOf(c)'
        BY <1>1 DEF AuthorsOf
    <2>2. IsFiniteSet(AuthorsOf(c)')
        <3> DEFINE places == { i \in 1..Len(talk') : talk'[i].channel = c }
                   author == [i \in places |-> talk'[i].who]
        <3>1. IsFiniteSet(places)
            BY PlacesFinite
        <3>2. AuthorsOf(c)' = { talk'[i].who : i \in places }
            BY DEF AuthorsOf, ToSet
        <3>3. author \in Surjection(places, AuthorsOf(c)')
            BY <3>2 DEF Surjection
        <3> QED BY <3>1, <3>3, FS_Surjection
    <2>3. IsFiniteSet(AuthorsOf(c)) /\ Cardinality(AuthorsOf(c)) <= Cardinality(AuthorsOf(c)')
        BY <2>1, <2>2, FS_Subset
    <2>4. Cardinality(AuthorsOf(c)) \in Nat /\ Cardinality(AuthorsOf(c)') \in Nat
        BY <2>2, <2>3, FS_CardinalityType
    <2>5. Cardinality(AuthorsOf(c)) >= 2 /\ c \in Channels
        BY DEF Groups, AuthorsOf
    <2>6. Cardinality(AuthorsOf(c)') >= 2
        BY <2>3, <2>4, <2>5
    <2> QED BY <2>5, <2>6 DEF Groups, AuthorsOf
<1>3. \A p : SaidInGroups(p) \subseteq SaidInGroups(p)'
    BY <1>2 DEF SaidInGroups
<1> QED BY <1>3 DEF Principals

-----------------------------------------------------------------------------
\* A row of the sequence, and one row rewritten.
LEMMA CardRows ==
    ASSUME PeersTypes, NEW m \in DOMAIN cards
    PROVE  /\ cards[m] \in CardRow /\ m \in Nat /\ cards[m].version \in Nat
           /\ cards[m].current \in BOOLEAN
<1>1. cards[m] \in CardRow /\ m \in Nat
    BY DEF PeersTypes
<1> QED BY <1>1 DEF CardRow

LEMMA CardRewritten ==
    ASSUME PeersTypes, NEW m \in DOMAIN cards, NEW row \in CardRow,
           row.about = cards[m].about, NEW rows, rows = [cards EXCEPT ![m] = row]
    PROVE  /\ rows \in Seq(CardRow) /\ Len(rows) = Len(cards) /\ DOMAIN rows = DOMAIN cards
           /\ rows[m] = row /\ \A c \in DOMAIN cards : c # m => rows[c] = cards[c]
           /\ \A c \in DOMAIN cards : rows[c].about = cards[c].about
BY DEF PeersTypes

LEMMA PeersInitInv == PeersInit => PeersInv
BY DEF PeersInit, PeersInv, PeersTypes, Asked, ReadBefore, OneCard, NoBuild, CurrentCards

LEMMA SaysInv ==
    ASSUME PeersInv, NEW p \in People, NEW c \in Channels, Says(p, c)
    PROVE  PeersInv'
<1>1. /\ talk \in Seq(Utterance) /\ talk' \in Seq(Utterance) /\ Len(talk') = Len(talk) + 1
      /\ \A i \in DOMAIN talk : talk'[i] = talk[i]
    BY DEF Says, PeersInv, PeersTypes, Utterance
<1>2. Principals \subseteq Principals'
    <2>1. Len(talk) \in Nat
        BY <1>1
    <2> QED BY <1>1, <2>1, GroupsGrow
<1> QED BY <1>1, <1>2 DEF Says, PeersInv, PeersTypes, Asked, ReadBefore, OneCard, CurrentCards

\* Steps of the run that write no card and read none.
LEMMA QuietInv ==
    ASSUME PeersInv, UNCHANGED <<cards, talk>>,
           build' \in [on : BOOLEAN, todo : SUBSET (Peers \X Nat),
                       asks : SUBSET (Peers \X Nat), existing : Nat],
           \A x \in build'.todo : x[1] \in Principals, build'.asks = {}
    PROVE  PeersInv'
<1>1. Principals' = Principals /\ CurrentCards' = CurrentCards
    BY DEF Principals, SaidInGroups, Groups, CurrentCards
<1> QED BY <1>1 DEF PeersInv, PeersTypes, Asked, ReadBefore, OneCard

LEMMA OpenPeersInv == ASSUME PeersInv, OpenPeers PROVE PeersInv'
<1>1. \A p \in Principals : Max(SaidInGroups(p)) \in Nat
    <2> TAKE p \in Principals
    <2>1. SaidInGroups(p) # {} /\ SaidInGroups(p) \subseteq 1..Len(talk) /\ Len(talk) \in Nat
        BY DEF Principals, SaidInGroups, PeersInv, PeersTypes
    <2>2. IsFiniteSet(SaidInGroups(p)) /\ SaidInGroups(p) \subseteq Nat
        BY <2>1, PlacesFinite
    <2> QED BY <2>1, <2>2, MaxOfFinite
<1> DEFINE todo == { <<p, Max(SaidInGroups(p))>> : p \in Principals }
<1>2. todo \in SUBSET (Peers \X Nat) /\ \A x \in todo : x[1] \in Principals
    BY <1>1 DEF Principals
<1>3. build' = [NoBuild EXCEPT !.on = TRUE, !.todo = todo] /\ UNCHANGED <<cards, talk>>
    BY DEF OpenPeers
<1> HIDE DEF todo
<1>4. build'.todo = todo /\ build'.asks = {}
    BY <1>3 DEF NoBuild
<1>5. build' \in [on : BOOLEAN, todo : SUBSET (Peers \X Nat),
                  asks : SUBSET (Peers \X Nat), existing : Nat]
    BY <1>2, <1>3 DEF NoBuild
<1> QED BY <1>2, <1>3, <1>4, <1>5, QuietInv

\* The card of a person is the current one, or there is none.
LEMMA CardOfCurrent ==
    ASSUME PeersInv, NEW p
    PROVE  /\ CardOf(p) \in Nat
           /\ CardOf(p) # 0 => CardOf(p) \in CurrentCards /\ cards[CardOf(p)].about = p
           /\ \A c \in CurrentCards : cards[c].about = p => c = CardOf(p)
<1> DEFINE his == { m \in CurrentCards : cards[m].about = p }
<1>1. \A m \in his : m \in Nat /\ cards[m].version \in Nat
    BY CardRows DEF PeersInv, CurrentCards
<1>2. \A m, n \in his : m = n
    BY DEF PeersInv, OneCard
<1>3. CASE his = {}
    BY <1>3 DEF CardOf
<1>4. CASE his # {}
    <2>1. \E m \in his : \A n \in his : cards[n].version <= cards[m].version
        BY <1>1, <1>2, <1>4
    <2>2. CardOf(p) = CHOOSE m \in his : \A n \in his : cards[n].version <= cards[m].version
        BY <1>4 DEF CardOf
    <2>3. CardOf(p) \in his
        BY <2>1, <2>2
    <2> QED BY <1>1, <1>2, <2>3
<1> QED BY <1>3, <1>4

LEMMA AskCardInv ==
    ASSUME PeersInv, NEW p, NEW newest, AskCard(p, newest)
    PROVE  PeersInv'
<1> DEFINE x == <<p, newest>>
           asks == IF CardOf(p) # 0 /\ newest <= cards[CardOf(p)].seen THEN {} ELSE {x}
<1>1. x \in build.todo /\ x \in Peers \X Nat /\ x[1] \in Principals /\ x[1] = p
    BY DEF AskCard, PeersInv, PeersTypes, Asked
<1>2. build' = [build EXCEPT !.todo = @ \ {x}, !.asks = asks, !.existing = CardOf(p)]
      /\ UNCHANGED <<cards, talk>>
    BY DEF AskCard
<1>3. asks \subseteq {x}
    OBVIOUS
<1> HIDE DEF asks, x
<1>4. build'.todo = build.todo \ {x} /\ build'.asks = asks /\ build'.existing = CardOf(p)
    BY <1>2 DEF PeersInv, PeersTypes
<1>5. PeersTypes'
    BY <1>1, <1>2, <1>3, CardOfCurrent DEF PeersInv, PeersTypes
<1>6. Principals' = Principals /\ CurrentCards' = CurrentCards
    BY <1>2 DEF Principals, SaidInGroups, Groups, CurrentCards
<1>7. Asked'
    BY <1>1, <1>3, <1>4, <1>6 DEF PeersInv, Asked
<1>8. ReadBefore'
    BY <1>1, <1>2, <1>3, <1>4, <1>6, CardOfCurrent DEF ReadBefore, CurrentCards
<1>9. OneCard'
    BY <1>2, <1>6 DEF PeersInv, OneCard
<1> QED BY <1>5, <1>7, <1>8, <1>9 DEF PeersInv

\* A card that is forgotten, or only read again.
LEMMA ForgetsCardInv ==
    ASSUME PeersInv, NEW m \in DOMAIN cards, ForgetsCard(m)
    PROVE  PeersInv'
<1> DEFINE row == [cards[m] EXCEPT !.current = FALSE]
<1>0. row \in CardRow /\ row.about = cards[m].about /\ row.current = FALSE
    BY CardRows DEF PeersInv, CardRow
<1>4. cards' = [cards EXCEPT ![m] = row]
    BY DEF ForgetsCard
<1> HIDE DEF row
<1>1. /\ cards' \in Seq(CardRow) /\ DOMAIN cards' = DOMAIN cards /\ cards'[m] = row
      /\ \A c \in DOMAIN cards : cards'[c].about = cards[c].about
      /\ \A c \in DOMAIN cards : c # m => cards'[c] = cards[c]
    BY <1>0, <1>4, CardRewritten DEF PeersInv
<1>2. CurrentCards' \subseteq CurrentCards
    BY <1>0, <1>1 DEF CurrentCards
<1>3. Principals' = Principals
    BY DEF ForgetsCard, Principals, SaidInGroups, Groups
<1> QED BY <1>1, <1>2, <1>3
        DEF ForgetsCard, PeersInv, PeersTypes, Asked, ReadBefore, OneCard, CurrentCards

LEMMA ReinforceInv ==
    ASSUME PeersInv, NEW p, NEW newest, NEW profile, Reinforce(p, newest, profile)
    PROVE  PeersInv'
<1>1. build.existing \in DOMAIN cards /\ newest \in Nat
    BY DEF Reinforce, PeersInv, PeersTypes, ReadBefore
<1> DEFINE m == build.existing
           row == [cards[m] EXCEPT !.seen = newest]
<1>6. /\ row \in CardRow /\ row.about = cards[m].about
      /\ row.current = cards[m].current
    BY <1>1, CardRows DEF PeersInv, CardRow
<1>7. cards' = [cards EXCEPT ![m] = row]
    BY DEF Reinforce
<1> HIDE DEF row
<1>2. cards' \in Seq(CardRow) /\ DOMAIN cards' = DOMAIN cards
      /\ \A c \in DOMAIN cards : /\ cards'[c].about = cards[c].about
                                 /\ cards'[c].current = cards[c].current
    <2>1. /\ cards' \in Seq(CardRow) /\ DOMAIN cards' = DOMAIN cards /\ cards'[m] = row
          /\ \A c \in DOMAIN cards : cards'[c].about = cards[c].about
          /\ \A c \in DOMAIN cards : c # m => cards'[c] = cards[c]
        BY <1>1, <1>6, <1>7, CardRewritten DEF PeersInv
    <2> QED BY <1>6, <2>1
<1>3. CurrentCards' = CurrentCards
    BY <1>2 DEF CurrentCards
<1>4. Principals' = Principals
    BY DEF Reinforce, Principals, SaidInGroups, Groups
<1>5. /\ build' \in [on : BOOLEAN, todo : SUBSET (Peers \X Nat),
                    asks : SUBSET (Peers \X Nat), existing : Nat]
      /\ build'.todo = build.todo /\ build'.asks = {}
    BY DEF Reinforce, PeersInv, PeersTypes
<1>8. UNCHANGED talk
    BY DEF Reinforce
<1>9. PeersTypes' /\ Asked' /\ ReadBefore'
    BY <1>2, <1>4, <1>5, <1>8 DEF PeersInv, PeersTypes, Asked, ReadBefore
<1>10. OneCard'
    BY <1>2, <1>3, <1>4 DEF PeersInv, OneCard, CurrentCards
<1> QED BY <1>9, <1>10 DEF PeersInv

\* The version read before the call is closed with the insert of the next.
LEMMA InsertCardInv ==
    ASSUME PeersInv, NEW p, NEW newest, NEW profile \in Profiles,
           InsertCard(p, newest, profile)
    PROVE  PeersInv'
<1> DEFINE x == <<p, newest>>
           n == Len(cards) + 1
           version == IF build.existing = 0 THEN 1 ELSE cards[build.existing].version + 1
           row == [about |-> p, profile |-> profile, seen |-> newest, current |-> TRUE,
                   version |-> version]
<1>1. x \in build.asks /\ p \in Peers /\ newest \in Nat /\ p \in Principals
    BY DEF InsertCard, PeersInv, PeersTypes, Asked
<1>2. build.existing \in Nat /\ (build.existing # 0 => build.existing \in DOMAIN cards)
      /\ \A c \in CurrentCards : cards[c].about = p => c = build.existing
    BY <1>1 DEF PeersInv, PeersTypes, ReadBefore
<1>3. version \in Nat
    BY <1>2, CardRows DEF PeersInv
<1>4. /\ Superseded \in Seq(CardRow) /\ Len(Superseded) = Len(cards)
      /\ DOMAIN Superseded = DOMAIN cards
      /\ \A c \in DOMAIN cards :
            /\ Superseded[c].about = cards[c].about
            /\ Superseded[c].current => cards[c].current /\ c # build.existing
    <2>1. CASE build.existing = 0
        BY <1>2, <2>1 DEF Superseded, PeersInv, PeersTypes
    <2>2. CASE build.existing # 0
        <3> DEFINE m == build.existing
                   old == [cards[m] EXCEPT !.current = FALSE]
        <3>1. old \in CardRow /\ old.about = cards[m].about /\ old.current = FALSE
            BY <1>2, <2>2, CardRows DEF PeersInv, CardRow
        <3>2. Superseded = [cards EXCEPT ![m] = old]
            BY <2>2 DEF Superseded
        <3> DEFINE rows == Superseded
        <3> HIDE DEF old, m, rows
        <3>4. PeersTypes /\ m \in DOMAIN cards /\ m = build.existing
            BY <1>2, <2>2 DEF PeersInv, m
        <3>5. rows = [cards EXCEPT ![m] = old]
            BY <3>2 DEF rows
        <3>3. /\ rows \in Seq(CardRow) /\ Len(rows) = Len(cards)
              /\ DOMAIN rows = DOMAIN cards /\ rows[m] = old
              /\ \A c \in DOMAIN cards : rows[c].about = cards[c].about
              /\ \A c \in DOMAIN cards : c # m => rows[c] = cards[c]
            BY <3>1, <3>5, <3>4 DEF PeersTypes
        <3> QED BY <3>1, <3>3, <3>4 DEF rows
    <2> QED BY <2>1, <2>2
<1>5. cards' = Append(Superseded, row) /\ UNCHANGED talk
      /\ build' = [build EXCEPT !.asks = {}]
    BY DEF InsertCard
<1>6. row \in CardRow /\ row.about = p /\ row.current = TRUE
    BY <1>1, <1>3 DEF CardRow
<1> HIDE DEF version, row
<1>7. /\ cards' \in Seq(CardRow) /\ n \in DOMAIN cards' /\ DOMAIN cards' = 1..n
      /\ DOMAIN cards = 1..Len(cards) /\ Len(cards) \in Nat
      /\ cards'[n] = row /\ \A c \in DOMAIN cards : cards'[c] = Superseded[c]
    BY <1>4, <1>5, <1>6 DEF PeersInv, PeersTypes
<1>8. \A c \in CurrentCards' : \/ c = n
                               \/ /\ c \in CurrentCards /\ c \in DOMAIN cards
                                  /\ c # build.existing
                                  /\ cards'[c].about = cards[c].about
    BY <1>4, <1>7 DEF CurrentCards
<1>9. Principals' = Principals
    BY <1>5 DEF Principals, SaidInGroups, Groups
<1>10. \A c \in CurrentCards' : c # n => cards'[c].about # p
    BY <1>2, <1>8
<1>11. OneCard'
    BY <1>1, <1>6, <1>7, <1>8, <1>9, <1>10 DEF PeersInv, OneCard
<1>12. /\ build' \in [on : BOOLEAN, todo : SUBSET (Peers \X Nat),
                     asks : SUBSET (Peers \X Nat), existing : Nat]
       /\ build'.todo = build.todo /\ build'.asks = {}
    BY <1>5 DEF PeersInv, PeersTypes
<1> QED BY <1>5, <1>7, <1>9, <1>11, <1>12 DEF PeersInv, PeersTypes, Asked, ReadBefore

LEMMA PeersStep == ASSUME PeersInv, [PeersNext]_peersVars PROVE PeersInv'
<1>1. CASE UNCHANGED peersVars
    <2>1. Principals' = Principals /\ CurrentCards' = CurrentCards
        BY <1>1 DEF peersVars, Principals, SaidInGroups, Groups, CurrentCards
    <2> QED BY <1>1, <2>1 DEF peersVars, PeersInv, PeersTypes, Asked, ReadBefore, OneCard
<1>2. ASSUME NEW p \in People, NEW c \in Channels, Says(p, c) PROVE PeersInv'
    BY <1>2, SaysInv
<1>3. ASSUME NEW m \in DOMAIN cards, ForgetsCard(m) PROVE PeersInv'
    BY <1>3, ForgetsCardInv
<1>4. CASE OpenPeers
    BY <1>4, OpenPeersInv
<1>5. CASE RejectCard
    <2>1. /\ build' \in [on : BOOLEAN, todo : SUBSET (Peers \X Nat),
                        asks : SUBSET (Peers \X Nat), existing : Nat]
          /\ build'.todo = build.todo /\ build'.asks = {} /\ UNCHANGED <<cards, talk>>
        BY <1>5 DEF RejectCard, PeersInv, PeersTypes
    <2>2. \A x \in build'.todo : x[1] \in Principals
        BY <2>1 DEF PeersInv, Asked
    <2> QED BY <2>1, <2>2, QuietInv
<1>6. CASE EndBuild
    BY <1>6, QuietInv DEF EndBuild, NoBuild
<1>7. ASSUME NEW x \in build.todo, AskCard(x[1], x[2]) PROVE PeersInv'
    BY <1>7, AskCardInv
<1>8. ASSUME NEW x \in build.asks, NEW profile \in Profiles,
             Reinforce(x[1], x[2], profile)
      PROVE  PeersInv'
    BY <1>8, ReinforceInv
<1>9. ASSUME NEW x \in build.asks, NEW profile \in Profiles,
             InsertCard(x[1], x[2], profile)
      PROVE  PeersInv'
    BY <1>9, InsertCardInv
<1> QED BY <1>1, <1>2, <1>3, <1>4, <1>5, <1>6, <1>7, <1>8, <1>9 DEF PeersNext

\* A person has one current card and was met in a group, for any people,
\* channels and answers of the LLM, whatever cards the user forgets while
\* their next version is written (dream/peers.py _insert_or_supersede).
THEOREM PeersOneCard == PeersSpec => []OneCard
<1>1. PeersInv => OneCard
    BY DEF PeersInv
<1> QED BY <1>1, PeersInitInv, PeersStep, PTL DEF PeersSpec
-----------------------------------------------------------------------------
\* One lesson per observation.

MemoryRow == [kind : {"observation", "lesson"}, scope : Scopes \cup {Everybody},
              tier : Nat, current : BOOLEAN, members : SUBSET Nat]

ConsolidationTypes ==
    /\ memories \in Seq(MemoryRow)
    /\ pass \in [on : BOOLEAN, todo : SUBSET SUBSET (DOMAIN memories),
                 asks : SUBSET (DOMAIN memories), made : Nat]

\* The clusters of a run: people's own, of memories no lesson was made of,
\* and none is in two of them.
Clusters == pass.todo \cup {pass.asks}
ClustersApart ==
    /\ \A ms, ns \in pass.todo : ms # ns => ms \cap ns = {}
    /\ \A ms \in pass.todo : ms \cap pass.asks = {}
    /\ \A ms \in Clusters : ms \cap consolidated = {}
    /\ \A ms \in Clusters : \A m, n \in ms : memories[m].scope = memories[n].scope

\* What a lesson was made of is marked, for good.
MembersMarked ==
    /\ consolidated \subseteq DOMAIN memories
    /\ \A l \in DOMAIN memories : memories[l].members \subseteq consolidated
    /\ \A l \in DOMAIN memories : memories[l].kind = "observation" => memories[l].members = {}

ConsolidationInv == ConsolidationTypes /\ ClustersApart /\ MembersMarked /\ LessonsHold

-----------------------------------------------------------------------------
LEMMA MemoryRows ==
    ASSUME ConsolidationTypes, NEW m \in DOMAIN memories
    PROVE  /\ memories[m] \in MemoryRow /\ m \in Nat
           /\ memories[m].tier \in Nat /\ memories[m].current \in BOOLEAN
           /\ memories[m].scope \in Scopes \cup {Everybody}
           /\ memories[m].kind \in {"observation", "lesson"}
<1>1. memories[m] \in MemoryRow /\ m \in Nat
    BY DEF ConsolidationTypes
<1> QED BY <1>1 DEF MemoryRow

LEMMA ConsolidationInitInv == ConsolidationInit => ConsolidationInv
BY DEF ConsolidationInit, ConsolidationInv, ConsolidationTypes, ClustersApart, Clusters,
    MembersMarked, LessonsHold, LessonsStayPrivate, LessonOnce, NoPass

\* A row more, an observation or a lesson of the cluster in hand.
LEMMA MoreMemories ==
    ASSUME ConsolidationTypes, NEW row \in MemoryRow, memories' = Append(memories, row)
    PROVE  /\ memories' \in Seq(MemoryRow) /\ Len(memories) + 1 \in DOMAIN memories'
           /\ DOMAIN memories' = DOMAIN memories \cup {Len(memories) + 1}
           /\ Len(memories) + 1 \notin DOMAIN memories
           /\ memories'[Len(memories) + 1] = row
           /\ \A m \in DOMAIN memories : memories'[m] = memories[m]
BY DEF ConsolidationTypes

LEMMA ExtractInv ==
    ASSUME ConsolidationInv, NEW s \in Scopes \cup {Everybody}, NEW t \in DOMAIN Tiers,
           Extract(s, t)
    PROVE  ConsolidationInv'
<1> DEFINE row == [kind |-> "observation", scope |-> s, tier |-> t, current |-> TRUE,
                   members |-> {}]
           n == Len(memories) + 1
<1>1. row \in MemoryRow /\ row.kind = "observation" /\ row.members = {}
    BY TiersAssumption DEF MemoryRow
<1>2. memories' = Append(memories, row) /\ UNCHANGED <<consolidated, pass>>
    BY DEF Extract
<1> HIDE DEF row
<1>3. /\ memories' \in Seq(MemoryRow) /\ DOMAIN memories' = DOMAIN memories \cup {n}
      /\ n \notin DOMAIN memories /\ memories'[n] = row
      /\ \A m \in DOMAIN memories : memories'[m] = memories[m]
    BY <1>1, <1>2, MoreMemories DEF ConsolidationInv
<1> HIDE DEF n
<1>4. ConsolidationTypes'
    BY <1>2, <1>3 DEF ConsolidationInv, ConsolidationTypes
<1>5. \A ms \in Clusters : ms \subseteq DOMAIN memories
    BY DEF ConsolidationInv, ConsolidationTypes, Clusters
<1>6. ClustersApart'
    <2>1. Clusters' = Clusters /\ pass' = pass /\ consolidated' = consolidated
        BY <1>2 DEF Clusters
    <2>2. \A ms \in Clusters : \A m \in ms : memories'[m] = memories[m]
        BY <1>3, <1>5
    <2> QED BY <2>1, <2>2 DEF ConsolidationInv, ClustersApart
<1>7. MembersMarked'
    BY <1>1, <1>2, <1>3 DEF ConsolidationInv, MembersMarked
<1>8. LessonsHold'
    BY <1>1, <1>3 DEF ConsolidationInv, MembersMarked, LessonsHold, LessonsStayPrivate, LessonOnce
<1> QED BY <1>4, <1>6, <1>7, <1>8 DEF ConsolidationInv

LEMMA ForgetsInv ==
    ASSUME ConsolidationInv, NEW m \in DOMAIN memories, Forgets(m)
    PROVE  ConsolidationInv'
<1> DEFINE row == [memories[m] EXCEPT !.current = FALSE]
<1>1. /\ row \in MemoryRow /\ row.kind = memories[m].kind /\ row.scope = memories[m].scope
      /\ row.tier = memories[m].tier /\ row.members = memories[m].members
    BY MemoryRows DEF ConsolidationInv, MemoryRow
<1>2. memories' = [memories EXCEPT ![m] = row] /\ UNCHANGED <<consolidated, pass>>
    BY DEF Forgets
<1> HIDE DEF row
<1>3. /\ memories' \in Seq(MemoryRow) /\ DOMAIN memories' = DOMAIN memories
      /\ memories'[m] = row /\ \A n \in DOMAIN memories : n # m => memories'[n] = memories[n]
    BY <1>1, <1>2 DEF ConsolidationInv, ConsolidationTypes
<1>4. \A n \in DOMAIN memories :
        /\ memories'[n].kind = memories[n].kind /\ memories'[n].scope = memories[n].scope
        /\ memories'[n].tier = memories[n].tier /\ memories'[n].members = memories[n].members
    BY <1>1, <1>3
<1>5. ConsolidationTypes'
    BY <1>2, <1>3 DEF ConsolidationInv, ConsolidationTypes
<1>6. \A ms \in Clusters : ms \subseteq DOMAIN memories
    BY DEF ConsolidationInv, ConsolidationTypes, Clusters
<1>7. ClustersApart'
    BY <1>2, <1>4, <1>6 DEF ConsolidationInv, ClustersApart, Clusters
<1>8. MembersMarked'
    BY <1>2, <1>3, <1>4 DEF ConsolidationInv, MembersMarked
<1>9. LessonsHold'
    BY <1>3, <1>4 DEF ConsolidationInv, MembersMarked, LessonsHold, LessonsStayPrivate, LessonOnce
<1> QED BY <1>5, <1>7, <1>8, <1>9 DEF ConsolidationInv

\* The run moves on and writes nothing: its clusters are some of those of before.
LEMMA PassInv ==
    ASSUME ConsolidationInv, UNCHANGED <<memories, consolidated>>,
           pass' \in [on : BOOLEAN, todo : SUBSET SUBSET (DOMAIN memories),
                      asks : SUBSET (DOMAIN memories), made : Nat],
           ClustersApart'
    PROVE  ConsolidationInv'
BY DEF ConsolidationInv, ConsolidationTypes, MembersMarked, LessonsHold, LessonsStayPrivate,
    LessonOnce

\* Candidates were never consolidated; a clustering puts each into one group.
LEMMA OpenConsolidateInv == ASSUME ConsolidationInv, OpenConsolidate PROVE ConsolidationInv'
<1>1. PICK cs \in Clusterings : pass' = [NoPass EXCEPT !.on = TRUE, !.todo = cs]
    BY DEF OpenConsolidate
<1>2. UNCHANGED <<memories, consolidated>>
    BY DEF OpenConsolidate
<1>3. /\ cs \in SUBSET SUBSET Candidates
      /\ \A ms, ns \in cs : ms # ns => ms \cap ns = {}
      /\ \A ms \in cs : Coherent(ms)
    <2> DEFINE Numbers == 1..(Cardinality(Candidates) \div MinCluster)
               Group(f, k) == { m \in Candidates : f[m] = k }
    <2>1. PICK f \in [Candidates -> Numbers \cup {0}] :
            cs = { Group(f, k) : k \in Numbers } \ {{}}
        BY DEF Clusterings
    <2>2. \A ms \in cs : Coherent(ms)
        BY DEF Clusterings
    <2> HIDE DEF Numbers
    <2>3. ASSUME NEW ms \in cs, NEW ns \in cs, NEW m \in ms \cap ns PROVE ms = ns
        <3>1. PICK k \in Numbers : ms = Group(f, k)
            BY <2>1
        <3>2. PICK l \in Numbers : ns = Group(f, l)
            BY <2>1
        <3>3. f[m] = k /\ f[m] = l
            BY <2>3, <3>1, <3>2
        <3> QED BY <3>1, <3>2, <3>3
    <2> QED BY <2>1, <2>2, <2>3
<1>4. Candidates \subseteq DOMAIN memories /\ Candidates \cap consolidated = {}
    BY DEF Candidates, Current
<1>5. pass'.todo = cs /\ pass'.asks = {}
    BY <1>1 DEF NoPass
<1>6. pass' \in [on : BOOLEAN, todo : SUBSET SUBSET (DOMAIN memories),
                 asks : SUBSET (DOMAIN memories), made : Nat]
    BY <1>1, <1>3, <1>4 DEF NoPass
<1>7. \A ms \in cs : ms \cap consolidated = {}
                     /\ \A m, n \in ms : memories[m].scope = memories[n].scope
    BY <1>3, <1>4 DEF Coherent
<1>8. ClustersApart'
    BY <1>2, <1>3, <1>5, <1>7 DEF ClustersApart, Clusters
<1> QED BY <1>2, <1>6, <1>8, PassInv

LEMMA AskLessonInv ==
    ASSUME ConsolidationInv, NEW ms \in pass.todo, AskLesson(ms)
    PROVE  ConsolidationInv'
<1> DEFINE asks == IF Distilled(ms) THEN {} ELSE ms
<1>1. pass' = [pass EXCEPT !.todo = @ \ {ms}, !.asks = asks]
      /\ UNCHANGED <<memories, consolidated>>
    BY DEF AskLesson
<1>2. asks \subseteq ms
    OBVIOUS
<1> HIDE DEF asks
<1>3. /\ pass'.todo = pass.todo \ {ms} /\ pass'.asks = asks
      /\ pass' \in [on : BOOLEAN, todo : SUBSET SUBSET (DOMAIN memories),
                    asks : SUBSET (DOMAIN memories), made : Nat]
    BY <1>1, <1>2 DEF ConsolidationInv, ConsolidationTypes
<1>4. ms \cap consolidated = {} /\ \A m, n \in ms : memories[m].scope = memories[n].scope
    BY DEF ConsolidationInv, ClustersApart, Clusters
<1>5. ClustersApart'
    BY <1>1, <1>2, <1>3, <1>4 DEF ConsolidationInv, ClustersApart, Clusters
<1> QED BY <1>1, <1>3, <1>5, PassInv

\* The lesson has the one scope of its members and their lowest trust.
LEMMA LessonRights ==
    ASSUME ConsolidationInv, pass.asks # {}
    PROVE  /\ ScopeOf(pass.asks) \in Scopes \cup {Everybody}
           /\ LowestTrust(pass.asks) \in Nat
           /\ \A m \in pass.asks : /\ memories[m].scope = ScopeOf(pass.asks)
                                   /\ memories[m].tier <= LowestTrust(pass.asks)
<1> DEFINE scopes == { memories[m].scope : m \in pass.asks }
           tiers == { memories[m].tier : m \in pass.asks }
           tier == [m \in pass.asks |-> memories[m].tier]
<1>1. pass.asks \subseteq 1..Len(memories) /\ DOMAIN memories = 1..Len(memories)
      /\ Len(memories) \in Nat /\ ConsolidationTypes
    BY DEF ConsolidationInv, ConsolidationTypes
<1>2. PICK e \in pass.asks : TRUE
    OBVIOUS
<1>3. scopes = {memories[e].scope}
    BY <1>2 DEF ConsolidationInv, ClustersApart, Clusters
<1>4. ScopeOf(pass.asks) = memories[e].scope
    <2>1. Cardinality(scopes) = 1
        BY <1>3, FS_Singleton
    <2> QED BY <1>3, <2>1 DEF ScopeOf
<1>5. IsFiniteSet(pass.asks)
    BY <1>1, PlacesFinite
<1>6. tier \in Surjection(pass.asks, tiers)
    BY DEF Surjection
<1>7. IsFiniteSet(tiers)
    BY <1>5, <1>6, FS_Surjection
<1>8. tiers \subseteq Nat /\ tiers # {}
    BY <1>1, <1>2, MemoryRows
<1>9. Max(tiers) \in tiers /\ \A x \in tiers : x <= Max(tiers)
    <2> HIDE DEF tiers
    <2> QED BY <1>7, <1>8, MaxOfFinite
<1>10. memories[e].scope \in Scopes \cup {Everybody}
    BY <1>1, <1>2, MemoryRows
<1> QED BY <1>3, <1>4, <1>8, <1>9, <1>10 DEF LowestTrust

LEMMA InsertLessonInv == ASSUME ConsolidationInv, InsertLesson PROVE ConsolidationInv'
<1> DEFINE n == Len(memories) + 1
           row == [kind |-> "lesson", scope |-> ScopeOf(pass.asks),
                   tier |-> LowestTrust(pass.asks), current |-> TRUE,
                   members |-> pass.asks]
<1>1. pass.asks # {} /\ pass.asks \subseteq DOMAIN memories /\ pass.asks \subseteq Nat
    BY DEF InsertLesson, ConsolidationInv, ConsolidationTypes
<1>2. /\ row \in MemoryRow /\ row.kind = "lesson" /\ row.members = pass.asks
      /\ row.scope = ScopeOf(pass.asks) /\ row.tier = LowestTrust(pass.asks)
    BY <1>1, LessonRights DEF MemoryRow
<1>3. /\ memories' = Append(memories, row) /\ consolidated' = consolidated \cup pass.asks
      /\ pass' = [pass EXCEPT !.asks = {}, !.made = @ + 1]
    BY DEF InsertLesson
<1> HIDE DEF row
<1>4. /\ memories' \in Seq(MemoryRow) /\ DOMAIN memories' = DOMAIN memories \cup {n}
      /\ n \notin DOMAIN memories /\ memories'[n] = row
      /\ \A m \in DOMAIN memories : memories'[m] = memories[m]
    BY <1>2, <1>3, MoreMemories DEF ConsolidationInv
<1> HIDE DEF n
<1>5. pass'.todo = pass.todo /\ pass'.asks = {}
    BY <1>3 DEF ConsolidationInv, ConsolidationTypes
<1>6. ConsolidationTypes'
    <2>1. pass.made + 1 \in Nat
        BY DEF ConsolidationInv, ConsolidationTypes
    <2>2. pass' \in [on : BOOLEAN, todo : SUBSET SUBSET (DOMAIN memories),
                     asks : SUBSET (DOMAIN memories), made : Nat]
        BY <1>3, <2>1 DEF ConsolidationInv, ConsolidationTypes
    <2> QED BY <1>4, <2>2 DEF ConsolidationTypes
<1>7. /\ \A ms \in Clusters : ms \subseteq DOMAIN memories
      /\ pass.asks \cap consolidated = {}
    BY DEF ConsolidationInv, ConsolidationTypes, ClustersApart, Clusters
<1>8. ClustersApart'
    BY <1>3, <1>4, <1>5, <1>7 DEF ConsolidationInv, ClustersApart, Clusters
<1>9. MembersMarked'
    BY <1>1, <1>2, <1>3, <1>4 DEF ConsolidationInv, MembersMarked
<1>10. LessonsStayPrivate'
    <2> SUFFICES ASSUME NEW l \in DOMAIN memories', memories'[l].kind = "lesson",
                        NEW m \in memories'[l].members
                 PROVE  /\ memories'[m].scope \in {Everybody, memories'[l].scope}
                        /\ memories'[m].tier <= memories'[l].tier
        BY DEF LessonsStayPrivate
    <2>1. CASE l = n
        <3>1. m \in pass.asks /\ memories'[m] = memories[m]
            BY <1>1, <1>2, <1>4, <2>1
        <3> QED BY <1>1, <1>2, <1>4, <2>1, <3>1, LessonRights
    <2>2. CASE l \in DOMAIN memories
        <3>1. memories'[l] = memories[l] /\ m \in DOMAIN memories /\ memories'[m] = memories[m]
            BY <1>4, <2>2 DEF ConsolidationInv, MembersMarked
        <3> QED BY <2>2, <3>1 DEF ConsolidationInv, LessonsHold, LessonsStayPrivate
    <2> QED BY <1>4, <2>1, <2>2
<1>11. LessonOnce'
    BY <1>2, <1>4, <1>7 DEF ConsolidationInv, MembersMarked, LessonsHold, LessonOnce
<1> QED BY <1>6, <1>8, <1>9, <1>10, <1>11 DEF ConsolidationInv, LessonsHold

LEMMA ConsolidationStep ==
    ASSUME ConsolidationInv, [ConsolidationNext]_consolidationVars PROVE ConsolidationInv'
<1>1. CASE UNCHANGED consolidationVars
    BY <1>1 DEF consolidationVars, ConsolidationInv, ConsolidationTypes, ClustersApart,
        Clusters, MembersMarked, LessonsHold, LessonsStayPrivate, LessonOnce
<1>2. ASSUME NEW s \in Scopes \cup {Everybody}, NEW t \in DOMAIN Tiers, Extract(s, t)
      PROVE  ConsolidationInv'
    BY <1>2, ExtractInv
<1>3. ASSUME NEW m \in DOMAIN memories, Forgets(m) PROVE ConsolidationInv'
    BY <1>3, ForgetsInv
<1>4. CASE OpenConsolidate
    BY <1>4, OpenConsolidateInv
<1>5. CASE RejectLesson
    <2>3. pass.made + 1 \in Nat
        BY DEF ConsolidationInv, ConsolidationTypes
    <2>1. /\ pass'.todo = pass.todo /\ pass'.asks = {}
          /\ pass' \in [on : BOOLEAN, todo : SUBSET SUBSET (DOMAIN memories),
                        asks : SUBSET (DOMAIN memories), made : Nat]
          /\ UNCHANGED <<memories, consolidated>>
        BY <1>5, <2>3 DEF RejectLesson, ConsolidationInv, ConsolidationTypes
    <2>2. ClustersApart'
        BY <2>1 DEF ConsolidationInv, ClustersApart, Clusters
    <2> QED BY <2>1, <2>2, PassInv
<1>6. CASE InsertLesson
    BY <1>6, InsertLessonInv
<1>7. ASSUME NEW ms \in pass.todo, AskLesson(ms) PROVE ConsolidationInv'
    BY <1>7, AskLessonInv
<1>8. CASE EndPass
    <2>1. /\ pass'.todo = {} /\ pass'.asks = {} /\ UNCHANGED <<memories, consolidated>>
          /\ pass' \in [on : BOOLEAN, todo : SUBSET SUBSET (DOMAIN memories),
                        asks : SUBSET (DOMAIN memories), made : Nat]
        BY <1>8 DEF EndPass, NoPass
    <2>2. ClustersApart'
        BY <2>1 DEF ClustersApart, Clusters
    <2> QED BY <2>1, <2>2, PassInv
<1> QED BY <1>1, <1>2, <1>3, <1>4, <1>5, <1>6, <1>7, <1>8 DEF ConsolidationNext

\* Whoever reads a lesson may read what it was made of, it is trusted no
\* more than the least of that, and an observation counts in one lesson, for
\* any scopes, tiers and clusterings, and whatever is forgotten or added
\* between the clusters of a run (dream/consolidate.py _insert_pattern).
THEOREM ConsolidatedLessonsHold == ConsolidationSpec => []LessonsHold
<1>1. ConsolidationInv => LessonsHold
    BY DEF ConsolidationInv
<1> QED BY <1>1, ConsolidationInitInv, ConsolidationStep, PTL DEF ConsolidationSpec
-----------------------------------------------------------------------------
\* Credits.

Kinds == {"none", "helpful", "harmful", "neutral"}
AskedRow == [talk : Talks, text : Said, memory : Memories, at : Nat]
OutcomeRow == [turn : Nat, at : Nat, label : Labels, reaction : Reactions \cup {"none"}]
Mining == [on : BOOLEAN, todo : SUBSET Nat, since : Nat,
           found : SUBSET (Nat \X (Nat \X Kinds)), mark : Nat, blocked : BOOLEAN]

MineTypes ==
    /\ now \in Nat /\ asked \in Seq(AskedRow) /\ outcomes \in Seq(OutcomeRow)
    /\ resolved \in Seq(Nat \X Kinds) /\ Len(resolved) = Len(asked)
    /\ helpful \in [Memories -> Nat] /\ harmful \in [Memories -> Nat]
    /\ rowMark \in 0..Len(asked)
    /\ miner \in Mining /\ miner.mark <= Len(asked)

\* Messages and outcomes are in order of time, and an outcome is of a turn.
InOrder ==
    /\ \A r \in DOMAIN asked : asked[r].at <= now
    /\ \A r, x \in DOMAIN asked : r < x => asked[r].at <= asked[x].at
    /\ \A o \in DOMAIN outcomes : outcomes[o].turn \in DOMAIN asked

\* What a run found is for rows that have nothing yet, and once for each.
Found ==
    /\ \A p \in miner.found : /\ p[1] \in DOMAIN asked /\ resolved[p[1]] = NotYet
                              /\ p[2][1] # 0 /\ p[2][2] # "none"
                              /\ p[1] \notin miner.todo
    /\ \A p, q \in miner.found : p[1] = q[1] => p = q
    /\ \A r \in miner.todo : r \in DOMAIN asked /\ resolved[r] = NotYet

\* A row that is resolved, found or given up; those behind the watermark of
\* the run are, and while no row is waited for, those before one to come.
GivenUp(r) == Resolve(r) = 0 /\ now > asked[r].at + OutcomeWindow
Settled(r) ==
    resolved[r] # NotYet \/ (\E p \in miner.found : p[1] = r) \/ GivenUp(r)
Walked ==
    /\ miner.on => miner.since <= now
    /\ \A r \in 1..miner.mark : Settled(r)
    /\ ~miner.blocked =>
        \A y \in miner.todo : \A r \in 1..(y - 1) : r \in miner.todo \/ Settled(r)

MineInv == MineTypes /\ InOrder /\ Found /\ Walked /\ CreditsSettled

\* What CreditedOnce and Resolve read, of any state.
Gave(a, res, m, kind) ==
    { r \in DOMAIN a : a[r].memory = m /\ res[r][2] = kind }
Near(a, r) ==
    { x \in DOMAIN a : /\ a[x].talk = a[r].talk /\ a[x].text = a[r].text
                       /\ a[x].at - a[r].at \in -MsgWindow..MsgWindow }
After1(a, outs, x) ==
    { o \in DOMAIN outs : /\ a[outs[o].turn].talk = a[x].talk
                          /\ outs[o].at - a[x].at \in 0..OutcomeWindow }
Silent(a, outs, r) == After1(a, outs, Min(Near(a, r))) = {}
First(a, outs, r) == IF Silent(a, outs, r) THEN 0 ELSE Min(After1(a, outs, Min(Near(a, r))))

-----------------------------------------------------------------------------
\* A set of numbers that is not empty has a least member.
LEMMA MinOfNats ==
    ASSUME NEW S, S \subseteq Nat, S # {}
    PROVE  Min(S) \in S /\ \A x \in S : Min(S) <= x
<1>1. IsWellFoundedOn(OpToRel(<, Nat), Nat)
    BY NatLessThanWellFounded
<1>2. PICK m \in S : \A y \in S : ~ (<<y, m>> \in OpToRel(<, Nat))
    BY <1>1, WFMin
<1>3. m \in S /\ \A y \in S : ~ (y < m)
    BY <1>2 DEF OpToRel
<1>4. \E x \in S : \A y \in S : x =< y
    BY <1>3
<1>5. Min(S) \in S /\ \A y \in S : Min(S) =< y
    BY <1>4 DEF Min
<1> QED BY <1>5

\* The first message of a row's text is at or before the row.
LEMMA NearFirst ==
    ASSUME NEW a \in Seq(AskedRow), NEW r \in DOMAIN a
    PROVE  /\ Near(a, r) \subseteq DOMAIN a
           /\ Min(Near(a, r)) \in Near(a, r)
           /\ \A x \in Near(a, r) : Min(Near(a, r)) <= x
           /\ Min(Near(a, r)) <= r
<1>1. a[r].at \in Nat /\ DOMAIN a \subseteq Nat
    <2>1. a[r] \in AskedRow /\ DOMAIN a = 1..Len(a) /\ Len(a) \in Nat
        OBVIOUS
    <2> QED BY <2>1 DEF AskedRow
<1>2. 0 \in -MsgWindow..MsgWindow
    BY WindowsAssumption
<1>3. a[r].at - a[r].at = 0
    BY <1>1
<1>4. r \in Near(a, r) /\ Near(a, r) \subseteq DOMAIN a
    BY <1>2, <1>3 DEF Near
<1> HIDE DEF Near
<1> QED BY <1>1, <1>4, MinOfNats

LEMMA SilentZero ==
    ASSUME NEW a \in Seq(AskedRow), NEW outs \in Seq(OutcomeRow), NEW r \in DOMAIN a
    PROVE  First(a, outs, r) = 0 <=> Silent(a, outs, r)
<1> DEFINE S == After1(a, outs, Min(Near(a, r)))
<1>1. S \subseteq DOMAIN outs /\ DOMAIN outs = 1..Len(outs) /\ Len(outs) \in Nat
    BY DEF After1
<1>2. ASSUME S # {} PROVE Min(S) \in S
    BY <1>1, <1>2, MinOfNats
<1>3. S # {} => Min(S) # 0
    BY <1>1, <1>2
<1> QED BY <1>3 DEF First, Silent

\* A row that has no outcome in its window when the window is over never
\* gets one: later messages are not its first, later outcomes are too late.
LEMMA SilentStays ==
    ASSUME NEW a \in Seq(AskedRow), NEW b \in Seq(AskedRow), Len(a) <= Len(b),
           NEW outs \in Seq(OutcomeRow), NEW more \in Seq(OutcomeRow),
           \A x \in DOMAIN a : b[x] = a[x],
           \A x, y \in DOMAIN a : x < y => a[x].at <= a[y].at,
           \A o \in DOMAIN outs : outs[o].turn \in DOMAIN a,
           NEW r \in DOMAIN a,
           \A o \in DOMAIN more :
                \/ /\ o \in DOMAIN outs
                   /\ more[o].turn = outs[o].turn /\ more[o].at = outs[o].at
                \/ more[o].at > a[r].at + OutcomeWindow,
           Silent(a, outs, r)
    PROVE  Silent(b, more, r)
<1> DEFINE s == Min(Near(a, r))  t == Min(Near(b, r))
<1>1. /\ DOMAIN a \subseteq DOMAIN b /\ r \in DOMAIN b
      /\ DOMAIN a = 1..Len(a) /\ DOMAIN b = 1..Len(b) /\ Len(a) \in Nat /\ Len(b) \in Nat
    OBVIOUS
<1>2. /\ s \in Near(a, r) /\ s \in DOMAIN a /\ s <= r /\ \A x \in Near(a, r) : s <= x
    BY NearFirst
<1>3. /\ t \in Near(b, r) /\ t <= r /\ t \in DOMAIN b /\ \A x \in Near(b, r) : t <= x
    BY <1>1, NearFirst
<1>4. s \in Near(b, r)
    BY <1>1, <1>2 DEF Near
<1>5. t \in DOMAIN a
    BY <1>1, <1>3
<1>6. t \in Near(a, r)
    BY <1>3, <1>5 DEF Near
<1>7. s = t
    <2>1. s <= t /\ t <= s /\ s \in Nat /\ t \in Nat
        BY <1>1, <1>2, <1>3, <1>4, <1>5, <1>6
    <2> QED BY <2>1
<1>8. a[s].at <= a[r].at /\ a[s].at \in Nat /\ a[r].at \in Nat /\ b[s] = a[s]
    <2>1. a[s] \in AskedRow /\ a[r] \in AskedRow
        BY <1>2
    <2>2. a[s].at \in Nat /\ a[r].at \in Nat
        BY <2>1 DEF AskedRow
    <2>3. s = r \/ s < r
        BY <1>1, <1>2
    <2> QED BY <1>2, <2>2, <2>3
<1>9. SUFFICES ASSUME NEW o \in After1(b, more, s) PROVE FALSE
    BY <1>7 DEF Silent
<1>10. /\ o \in DOMAIN more /\ b[more[o].turn].talk = b[s].talk
       /\ more[o].at - b[s].at \in 0..OutcomeWindow
    BY DEF After1
<1>11. more[o].at \in Nat
    <2>1. more[o] \in OutcomeRow
        BY <1>10
    <2> QED BY <2>1 DEF OutcomeRow
<1>12. ~ (more[o].at > a[r].at + OutcomeWindow)
    <2>1. more[o].at - a[s].at \in 0..OutcomeWindow
        BY <1>8, <1>10
    <2>2. \A p, q, u, w \in Nat : q <= u /\ p - q \in 0..w => ~ (p > u + w)
        OBVIOUS
    <2>3. OutcomeWindow \in Nat
        BY WindowsAssumption
    <2> HIDE DEF s
    <2> QED BY <1>8, <1>11, <2>1, <2>2, <2>3
<1>13. /\ o \in DOMAIN outs /\ more[o].turn = outs[o].turn /\ more[o].at = outs[o].at
       /\ outs[o].turn \in DOMAIN a
    BY <1>10, <1>12
<1>14. o \in After1(a, outs, s)
    BY <1>8, <1>10, <1>13 DEF After1
<1> QED BY <1>14 DEF Silent

\* The rows are still given up after a step of the host.
LEMMA GivenUpStays ==
    ASSUME MineTypes, InOrder, MineTypes', Len(asked) <= Len(asked'), now <= now',
           \A x \in DOMAIN asked : asked'[x] = asked[x],
           \A o \in DOMAIN outcomes' :
                \/ /\ o \in DOMAIN outcomes
                   /\ outcomes'[o].turn = outcomes[o].turn
                   /\ outcomes'[o].at = outcomes[o].at
                \/ outcomes'[o].at >= now,
           NEW r \in DOMAIN asked, GivenUp(r)
    PROVE  GivenUp(r)'
<1>1. /\ Resolve(r) = First(asked, outcomes, r)
      /\ Resolve(r)' = First(asked', outcomes', r)
    BY DEF Resolve, First, Silent, Messages, Near, Following, After1
<1>2. /\ asked \in Seq(AskedRow) /\ asked' \in Seq(AskedRow) /\ now \in Nat /\ now' \in Nat
      /\ outcomes \in Seq(OutcomeRow) /\ outcomes' \in Seq(OutcomeRow)
    BY DEF MineTypes
<1>3. Silent(asked, outcomes, r) /\ now > asked[r].at + OutcomeWindow
    BY <1>1, <1>2, SilentZero DEF GivenUp
<1>4. asked[r].at \in Nat /\ OutcomeWindow \in Nat /\ asked'[r] = asked[r] /\ r \in DOMAIN asked'
    <2>1. asked[r] \in AskedRow
        BY <1>2
    <2>2. asked[r].at \in Nat
        BY <2>1 DEF AskedRow
    <2>3. r \in DOMAIN asked'
        BY <1>2
    <2> QED BY <2>2, <2>3, WindowsAssumption
<1>5. \A o \in DOMAIN outcomes' :
            \/ /\ o \in DOMAIN outcomes
               /\ outcomes'[o].turn = outcomes[o].turn /\ outcomes'[o].at = outcomes[o].at
            \/ outcomes'[o].at > asked[r].at + OutcomeWindow
    <2>1. \A o \in DOMAIN outcomes' : outcomes'[o] \in OutcomeRow
        BY <1>2
    <2>2. \A o \in DOMAIN outcomes' : outcomes'[o].at \in Nat
        BY <2>1 DEF OutcomeRow
    <2> QED BY <1>2, <1>3, <1>4, <2>2
<1>6. Silent(asked', outcomes', r)
    BY <1>2, <1>3, <1>5, SilentStays DEF InOrder
<1>7. Resolve(r)' = 0
    BY <1>1, <1>2, <1>4, <1>6, SilentZero
<1> QED BY <1>2, <1>3, <1>4, <1>7 DEF GivenUp

\* A step of the host: what is known stays, new rows have no credit.
LEMMA HostStep ==
    ASSUME MineInv, MineTypes', InOrder', Len(asked) <= Len(asked'), now <= now',
           \A x \in DOMAIN asked : asked'[x] = asked[x],
           \A o \in DOMAIN outcomes' :
                \/ /\ o \in DOMAIN outcomes
                   /\ outcomes'[o].turn = outcomes[o].turn
                   /\ outcomes'[o].at = outcomes[o].at
                \/ outcomes'[o].at >= now,
           \A r \in DOMAIN asked : resolved'[r] = resolved[r],
           \A r \in DOMAIN asked' : r \in DOMAIN asked \/ resolved'[r] = NotYet,
           UNCHANGED <<helpful, harmful, rowMark, miner>>
    PROVE  MineInv'
<1>1. /\ DOMAIN asked = 1..Len(asked) /\ DOMAIN asked' = 1..Len(asked')
      /\ Len(asked) \in Nat /\ Len(asked') \in Nat /\ DOMAIN asked \subseteq DOMAIN asked'
      /\ miner \in Mining /\ miner.mark <= Len(asked) /\ miner.mark \in Nat
      /\ rowMark \in 0..Len(asked)
    BY DEF MineInv, MineTypes, Mining
<1>2. ASSUME NEW r \in DOMAIN asked, GivenUp(r) PROVE GivenUp(r)'
    BY <1>2, GivenUpStays DEF MineInv
<1>3. ASSUME NEW r \in DOMAIN asked, Settled(r) PROVE Settled(r)'
    BY <1>2, <1>3 DEF Settled
<1>4. Found'
    BY <1>1 DEF MineInv, Found
<1>5. miner.todo \subseteq DOMAIN asked
    BY DEF MineInv, Found
<1>6. Walked'
    <2>1. miner.on => miner.since <= now'
        <3>1. miner.since \in Nat /\ now \in Nat /\ now' \in Nat
            BY <1>1 DEF MineInv, MineTypes, Mining
        <3> QED BY <3>1 DEF MineInv, Walked
    <2>2. \A r \in 1..miner.mark : Settled(r)'
        <3> SUFFICES ASSUME NEW r \in 1..miner.mark PROVE Settled(r)'
            OBVIOUS
        <3>1. r \in DOMAIN asked /\ Settled(r)
            BY <1>1 DEF MineInv, Walked
        <3> QED BY <3>1, <1>3
    <2>3. ASSUME ~miner.blocked, NEW y \in miner.todo, NEW r \in 1..(y - 1)
          PROVE  r \in miner.todo \/ Settled(r)'
        <3>1. r \in DOMAIN asked
            BY <1>1, <1>5
        <3> QED BY <1>3, <2>3, <3>1 DEF MineInv, Walked
    <2> QED BY <2>1, <2>2, <2>3 DEF Walked
<1>7. CreditedOnce'
    <2>1. ASSUME NEW m, NEW kind \in {"helpful", "harmful"}
          PROVE  Gave(asked', resolved', m, kind) = Gave(asked, resolved, m, kind)
        BY <1>1 DEF Gave, NotYet
    <2>2. \A m \in Memories :
            /\ helpful[m] = Cardinality(Gave(asked, resolved, m, "helpful"))
            /\ harmful[m] = Cardinality(Gave(asked, resolved, m, "harmful"))
        BY Zenon DEF MineInv, CreditsSettled, CreditedOnce, Gave
    <2>3. \A m \in Memories :
            /\ helpful'[m] = Cardinality(Gave(asked', resolved', m, "helpful"))
            /\ harmful'[m] = Cardinality(Gave(asked', resolved', m, "harmful"))
        BY <2>1, <2>2
    <2> QED BY <2>3, Zenon DEF CreditedOnce, Gave
<1>8. PassedIsSettled'
    <2> SUFFICES ASSUME NEW r \in 1..rowMark
                 PROVE  resolved'[r] # NotYet \/ GivenUp(r)'
        BY DEF PassedIsSettled, GivenUp
    <2>1. r \in DOMAIN asked
        BY <1>1
    <2>2. resolved[r] # NotYet \/ GivenUp(r)
        BY DEF MineInv, CreditsSettled, PassedIsSettled, GivenUp
    <2> QED BY <1>2, <2>1, <2>2
<1> QED BY <1>4, <1>6, <1>7, <1>8 DEF MineInv, CreditsSettled

LEMMA HoursInv == ASSUME MineInv, Hours PROVE MineInv'
<1>1. /\ now' = now + 1 /\ now \in Nat
      /\ UNCHANGED <<asked, outcomes, resolved, helpful, harmful, rowMark, miner>>
    BY DEF Hours, credits, MineInv, MineTypes
<1>2. MineTypes'
    BY <1>1 DEF MineInv, MineTypes
<1>3. \A r \in DOMAIN asked : asked[r].at \in Nat
    <2>1. \A r \in DOMAIN asked : asked[r] \in AskedRow
        BY DEF MineInv, MineTypes
    <2> QED BY <2>1 DEF AskedRow
<1>4. InOrder'
    BY <1>1, <1>3 DEF MineInv, InOrder
<1>5. Len(asked) \in Nat
    BY DEF MineInv, MineTypes
<1> QED BY <1>1, <1>2, <1>4, <1>5, HostStep

LEMMA AskAboutInv ==
    ASSUME MineInv, NEW t \in Talks, NEW text \in Said, NEW m \in Memories,
           AskAbout(t, text, m)
    PROVE  MineInv'
<1> DEFINE row == [talk |-> t, text |-> text, memory |-> m, at |-> now]
           n == Len(asked) + 1
<1>1. /\ asked' = Append(asked, row) /\ resolved' = Append(resolved, NotYet) /\ now' = now + 1
      /\ UNCHANGED <<outcomes, helpful, harmful, rowMark, miner>>
    BY DEF AskAbout
<1>2. /\ now \in Nat /\ asked \in Seq(AskedRow) /\ resolved \in Seq(Nat \X Kinds)
      /\ Len(resolved) = Len(asked) /\ Len(asked) \in Nat /\ miner.mark \in Nat
      /\ miner.mark <= Len(asked) /\ rowMark \in 0..Len(asked)
    BY DEF MineInv, MineTypes, Mining
<1>3. row \in AskedRow /\ row.at = now /\ NotYet \in Nat \X Kinds
    BY <1>2 DEF AskedRow, NotYet, Kinds
<1> HIDE DEF row
<1>4. /\ asked' \in Seq(AskedRow) /\ Len(asked') = n /\ asked'[n] = row
      /\ \A x \in 1..Len(asked) : asked'[x] = asked[x]
    BY <1>1, <1>2, <1>3
<1>5. /\ resolved' \in Seq(Nat \X Kinds) /\ Len(resolved') = n /\ resolved'[n] = NotYet
      /\ \A x \in 1..Len(asked) : resolved'[x] = resolved[x]
    BY <1>1, <1>2, <1>3
<1>6. /\ DOMAIN asked = 1..Len(asked) /\ DOMAIN asked' = 1..n
      /\ 1..n = 1..Len(asked) \cup {n}
    BY <1>2, <1>4
<1>7. MineTypes'
    BY <1>1, <1>2, <1>4, <1>5 DEF MineInv, MineTypes
<1>8. \A r \in 1..Len(asked) : asked[r].at \in Nat /\ asked[r].at <= now
    <2>1. \A r \in 1..Len(asked) : asked[r] \in AskedRow
        BY <1>2
    <2> QED BY <1>6, <2>1 DEF AskedRow, MineInv, InOrder
<1>9. InOrder'
    <2>1. \A r \in 1..n : asked'[r].at <= now'
        BY <1>1, <1>2, <1>3, <1>4, <1>6, <1>8
    <2>2. ASSUME NEW r \in 1..n, NEW x \in 1..n, r < x PROVE asked'[r].at <= asked'[x].at
        <3>1. r \in 1..Len(asked)
            BY <1>2, <2>2
        <3>2. CASE x = n
            BY <1>3, <1>4, <1>8, <3>1, <3>2
        <3>3. CASE x \in 1..Len(asked)
            BY <1>4, <1>6, <2>2, <3>1, <3>3 DEF MineInv, InOrder
        <3> QED BY <1>6, <3>2, <3>3
    <2>3. \A o \in DOMAIN outcomes' : outcomes'[o].turn \in DOMAIN asked'
        BY <1>1, <1>6 DEF MineInv, InOrder
    <2> QED BY <1>6, <2>1, <2>2, <2>3 DEF InOrder
<1> QED BY <1>1, <1>2, <1>4, <1>5, <1>6, <1>7, <1>9, HostStep

LEMMA FinishTalkInv ==
    ASSUME MineInv, NEW t \in Talks, NEW label \in Labels, FinishTalk(t, label)
    PROVE  MineInv'
<1>1. PICK r \in DOMAIN asked :
            outcomes' = Append(outcomes, [turn |-> r, at |-> now, label |-> label,
                                          reaction |-> "none"])
    BY DEF FinishTalk
<1> DEFINE out == [turn |-> r, at |-> now, label |-> label, reaction |-> "none"]
           n == Len(outcomes) + 1
<1>2. /\ now' = now + 1 /\ UNCHANGED <<asked, resolved, helpful, harmful, rowMark, miner>>
    BY DEF FinishTalk, credits
<1>3. /\ now \in Nat /\ asked \in Seq(AskedRow) /\ outcomes \in Seq(OutcomeRow)
      /\ Len(asked) \in Nat /\ Len(outcomes) \in Nat /\ r \in Nat
    BY DEF MineInv, MineTypes
<1>4. out \in OutcomeRow /\ out.turn = r /\ out.at = now
    BY <1>3 DEF OutcomeRow
<1> HIDE DEF out
<1>5. /\ outcomes' \in Seq(OutcomeRow) /\ DOMAIN outcomes' = 1..n /\ outcomes'[n] = out
      /\ \A x \in 1..Len(outcomes) : outcomes'[x] = outcomes[x]
    BY <1>1, <1>3, <1>4 DEF out
<1>6. DOMAIN outcomes = 1..Len(outcomes) /\ 1..n = 1..Len(outcomes) \cup {n}
    BY <1>3
<1>7. MineTypes'
    BY <1>2, <1>3, <1>5 DEF MineInv, MineTypes
<1>8. \A x \in DOMAIN asked : asked[x].at \in Nat
    <2>1. \A x \in DOMAIN asked : asked[x] \in AskedRow
        BY <1>3
    <2> QED BY <2>1 DEF AskedRow
<1>9. InOrder'
    BY <1>2, <1>3, <1>4, <1>5, <1>6, <1>8 DEF MineInv, InOrder
<1>10. \A o \in DOMAIN outcomes' :
            \/ /\ o \in DOMAIN outcomes
               /\ outcomes'[o].turn = outcomes[o].turn /\ outcomes'[o].at = outcomes[o].at
            \/ outcomes'[o].at >= now
    BY <1>3, <1>4, <1>5, <1>6
<1>11. Len(asked') = Len(asked) /\ now <= now'
    BY <1>2, <1>3
<1> QED BY <1>2, <1>3, <1>7, <1>9, <1>10, <1>11, HostStep

LEMMA ReactInv ==
    ASSUME MineInv, NEW o \in DOMAIN outcomes, NEW reaction \in Reactions, React(o, reaction)
    PROVE  MineInv'
<1>1. /\ outcomes' = [outcomes EXCEPT ![o].reaction = reaction]
      /\ UNCHANGED <<now, asked, resolved, helpful, harmful, rowMark, miner>>
    BY DEF React, credits
<1>2. /\ now \in Nat /\ asked \in Seq(AskedRow) /\ outcomes \in Seq(OutcomeRow)
      /\ Len(asked) \in Nat
    BY DEF MineInv, MineTypes
<1>3. \A x \in DOMAIN outcomes : outcomes[x] \in OutcomeRow
    BY <1>2
<1>4. [outcomes[o] EXCEPT !.reaction = reaction] \in OutcomeRow
    BY <1>3 DEF OutcomeRow
<1>5. outcomes' = [outcomes EXCEPT ![o] = [outcomes[o] EXCEPT !.reaction = reaction]]
    BY <1>1
<1>6. outcomes' \in Seq(OutcomeRow) /\ DOMAIN outcomes' = DOMAIN outcomes
    BY <1>2, <1>4, <1>5
<1>7. \A x \in DOMAIN outcomes : /\ outcomes'[x].turn = outcomes[x].turn
                                 /\ outcomes'[x].at = outcomes[x].at
    BY <1>3, <1>5 DEF OutcomeRow
<1>8. MineTypes'
    BY <1>1, <1>6 DEF MineInv, MineTypes
<1>9. InOrder'
    BY <1>1, <1>6, <1>7 DEF MineInv, InOrder
<1> QED BY <1>1, <1>2, <1>6, <1>7, <1>8, <1>9, HostStep

LEMMA GivenUpSame ==
    ASSUME UNCHANGED <<now, asked, outcomes>>, NEW r
    PROVE  GivenUp(r)' <=> GivenUp(r)
<1>1. /\ Resolve(r) = First(asked, outcomes, r)
      /\ Resolve(r)' = First(asked', outcomes', r)
    BY DEF Resolve, First, Silent, Messages, Near, Following, After1
<1>2. Resolve(r)' = Resolve(r)
    BY <1>1
<1> QED BY <1>2 DEF GivenUp

LEMMA SettledSame ==
    ASSUME UNCHANGED <<now, asked, outcomes, resolved>>, miner.found \subseteq miner'.found,
           NEW r, Settled(r)
    PROVE  Settled(r)'
BY GivenUpSame DEF Settled

\* A step of the run that writes nothing.
LEMMA MinerStep ==
    ASSUME MineInv, UNCHANGED <<world, credits>>, miner' \in Mining,
           miner'.mark <= Len(asked), Found', Walked'
    PROVE  MineInv'
<1>1. UNCHANGED <<now, asked, outcomes, resolved, helpful, harmful, rowMark>>
    BY DEF world, credits
<1>2. MineTypes'
    BY <1>1 DEF MineInv, MineTypes
<1>3. InOrder'
    BY <1>1 DEF MineInv, InOrder
<1>4. PassedIsSettled'
    <2> SUFFICES ASSUME NEW r \in 1..rowMark PROVE resolved[r] # NotYet \/ GivenUp(r)'
        BY <1>1 DEF PassedIsSettled, GivenUp
    <2> QED BY <1>1, GivenUpSame DEF MineInv, CreditsSettled, PassedIsSettled, GivenUp
<1>5. CreditedOnce'
    BY <1>1 DEF MineInv, CreditsSettled, CreditedOnce
<1> QED BY <1>2, <1>3, <1>4, <1>5 DEF MineInv, CreditsSettled

LEMMA Places ==
    ASSUME MineInv
    PROVE  /\ DOMAIN asked = 1..Len(asked) /\ Len(asked) \in Nat
           /\ miner \in Mining /\ miner.mark \in Nat /\ miner.mark <= Len(asked)
           /\ rowMark \in Nat /\ rowMark <= Len(asked)
           /\ miner.todo \subseteq DOMAIN asked /\ miner.todo \subseteq Nat
           /\ \A r \in DOMAIN asked : asked[r] \in AskedRow
BY DEF MineInv, MineTypes, Mining, Found

\* Nothing unresolved is left out before a row of the batch.
LEMMA FirstRowsFirst ==
    ASSUME NEW n \in Nat, NEW S \in SUBSET (1..n), NEW y \in FirstRows(S), NEW r \in S, r < y
    PROVE  r \in FirstRows(S)
<1> DEFINE before(z) == { x \in S : x < z }
<1>1. IsFiniteSet(S)
    BY PlacesFinite
<1>2. before(y) \subseteq S /\ before(r) \subseteq before(y)
    <2>1. y \in S
        BY Zenon DEF FirstRows
    <2>2. y \in Nat /\ r \in Nat /\ S \subseteq Nat
        BY <2>1
    <2>3. \A x \in S : x < r => x < y
        BY <2>2
    <2> QED BY <2>3
<1>3. IsFiniteSet(before(y))
    BY <1>1, <1>2, FS_Subset
<1>4. Cardinality(before(r)) <= Cardinality(before(y))
    BY <1>2, <1>3, FS_Subset
<1>5. Cardinality(before(y)) < MineRows
    BY Zenon DEF FirstRows
<1>8. MineRows \in Nat
    BY MiningBoundsAssumption
<1>6. Cardinality(before(y)) \in Nat /\ Cardinality(before(r)) \in Nat
    BY <1>2, <1>3, FS_Subset, FS_CardinalityType
<1>7. Cardinality(before(r)) < MineRows
    <2> HIDE DEF before
    <2> QED BY <1>4, <1>5, <1>6, <1>8
<1> QED BY <1>7 DEF FirstRows

LEMMA MineOpenInv == ASSUME MineInv, MineOpen PROVE MineInv'
<1> DEFINE S == Unresolved(rowMark)
<1>1. /\ UNCHANGED <<world, credits>> /\ UNCHANGED <<now, asked, outcomes, resolved>>
      /\ miner' = [NoMiner EXCEPT !.on = TRUE, !.todo = FirstRows(S),
                                  !.since = now, !.mark = rowMark]
    BY DEF MineOpen, world, credits
<1>2. S \subseteq DOMAIN asked /\ FirstRows(S) \subseteq S /\ S \subseteq 1..Len(asked)
      /\ \A r \in S : resolved[r] = NotYet
    BY Places DEF Unresolved, FirstRows
<1>3. /\ miner'.on /\ miner'.todo = FirstRows(S) /\ miner'.since = now /\ miner'.mark = rowMark
      /\ miner'.found = {} /\ ~miner'.blocked
    BY <1>1 DEF NoMiner
<1>4. now \in Nat
    BY DEF MineInv, MineTypes
<1>5. miner' \in Mining
    <2>1. FirstRows(S) \subseteq Nat /\ rowMark \in Nat
        BY <1>2, Places
    <2>2. miner' = [on |-> TRUE, todo |-> FirstRows(S), since |-> now, found |-> {},
                    mark |-> rowMark, blocked |-> FALSE]
        BY <1>1 DEF NoMiner
    <2> HIDE DEF S
    <2> QED BY <1>4, <2>1, <2>2 DEF Mining
<1>6. Found'
    BY <1>1, <1>2, <1>3 DEF Found
<1>7. ASSUME NEW r \in 1..rowMark PROVE Settled(r)'
    <2>1. resolved[r] # NotYet \/ GivenUp(r)
        BY DEF MineInv, CreditsSettled, PassedIsSettled, GivenUp
    <2> QED BY <1>1, <2>1, GivenUpSame DEF Settled
<1>8. ASSUME NEW y \in FirstRows(S), NEW r \in 1..(y - 1)
      PROVE  r \in FirstRows(S) \/ Settled(r)'
    <2>1. r \in 1..Len(asked) /\ r < y
        BY <1>2, Places
    <2>2. CASE r <= rowMark
        <3>1. r \in 1..rowMark
            BY <2>2, Places
        <3> QED BY <3>1, <1>7
    <2>3. CASE r > rowMark /\ resolved[r] = NotYet
        <3>1. r \in S
            BY <2>1, <2>3, Places DEF Unresolved
        <3> QED BY <1>2, <2>1, <3>1, Places, FirstRowsFirst
    <2>4. CASE resolved[r] # NotYet
        BY <1>1, <2>4 DEF Settled
    <2> QED BY <2>1, <2>2, <2>3, <2>4, Places
<1>9. Walked'
    BY <1>1, <1>3, <1>4, <1>7, <1>8 DEF Walked
<1> QED BY <1>1, <1>3, <1>5, <1>6, <1>9, Places, MinerStep

\* A row is given up only when its window has long been over.
LEMMA NotYoung ==
    ASSUME MineInv, miner.on, NEW r \in DOMAIN asked, ~Young(r), Resolve(r) = 0
    PROVE  GivenUp(r)
<1>1. asked[r].at \in Nat /\ now \in Nat /\ miner.since \in Nat /\ miner.since <= now
    <2>1. asked[r] \in AskedRow
        BY Places
    <2> QED BY <2>1 DEF AskedRow, MineInv, MineTypes, Mining, Walked
<1>2. asked[r].at <= miner.since - Grace
    BY <1>1, WindowsAssumption DEF Young
<1>3. now > asked[r].at + OutcomeWindow
    BY <1>1, <1>2, WindowsAssumption
<1> QED BY <1>3 DEF GivenUp

LEMMA ResolveType ==
    ASSUME MineInv, NEW r \in DOMAIN asked, Resolve(r) # 0
    PROVE  Resolve(r) \in DOMAIN outcomes
<1> DEFINE S == After1(asked, outcomes, Min(Near(asked, r)))
<1>1. Resolve(r) = IF S = {} THEN 0 ELSE Min(S)
    BY DEF Resolve, Messages, Near, Following, After1
<1>2. S \subseteq DOMAIN outcomes /\ DOMAIN outcomes \subseteq Nat
    BY DEF After1, MineInv, MineTypes
<1> HIDE DEF S
<1>3. S # {} /\ Resolve(r) = Min(S)
    BY <1>1
<1> QED BY <1>2, <1>3, MinOfNats

LEMMA MineRowInv == ASSUME MineInv, MineRow PROVE MineInv'
<1>1. miner.on /\ miner.todo # {}
    BY DEF MineRow
<1>0. PICK r \in Nat : r = Min(miner.todo)
    <2>1. Min(miner.todo) \in Nat
        BY <1>1, Places, MinOfNats
    <2> QED BY <2>1
<1> DEFINE o == Resolve(r)
           waits == miner.blocked \/ (o = 0 /\ Young(r))
           credit == <<r, <<o, Credit(outcomes[o])>> >>
           found == IF o = 0 THEN miner.found ELSE miner.found \cup {credit}
           reached == IF waits THEN miner.mark ELSE r
<1>2. /\ UNCHANGED <<world, credits>> /\ UNCHANGED <<now, asked, outcomes, resolved>>
      /\ miner' = [miner EXCEPT !.todo = @ \ {r}, !.found = found, !.blocked = waits,
                                !.mark = reached]
    BY <1>0 DEF MineRow, world, credits
<1>3. r \in miner.todo /\ \A x \in miner.todo : r <= x
    BY <1>0, <1>1, Places, MinOfNats
<1>4. r \in DOMAIN asked /\ r \in Nat /\ resolved[r] = NotYet
    BY <1>3, Places DEF MineInv, Found
<1>5. o # 0 => o \in DOMAIN outcomes /\ o \in Nat
    <2>1. DOMAIN outcomes \subseteq Nat
        BY DEF MineInv, MineTypes
    <2> QED BY <1>4, <2>1, ResolveType
<1>6. o # 0 => /\ credit \in Nat \X (Nat \X Kinds) /\ credit[1] = r
               /\ credit[2][1] # 0 /\ credit[2][2] # "none"
    BY <1>4, <1>5 DEF Credit, Kinds
<1>7. waits \in BOOLEAN /\ (waits = FALSE => ~miner.blocked /\ (o = 0 => ~Young(r)))
    OBVIOUS
<1>8. found \subseteq Nat \X (Nat \X Kinds) /\ miner.found \subseteq found
    BY <1>6, Places DEF Mining
<1>9. reached \in Nat /\ reached <= Len(asked)
    BY <1>4, Places
<1>10. (o = 0 => found = miner.found) /\ (o # 0 => found = miner.found \cup {credit})
    OBVIOUS
<1>11. (waits => reached = miner.mark) /\ (~waits => reached = r)
    OBVIOUS
<1>12. (~waits => ~miner.blocked) /\ (~waits /\ o = 0 => GivenUp(r))
    BY <1>1, <1>4, <1>7, NotYoung
<1> HIDE DEF waits, credit, found, reached, o
<1>13. /\ miner'.on = miner.on /\ miner'.todo = miner.todo \ {r} /\ miner'.since = miner.since
       /\ miner'.found = found /\ miner'.blocked = waits /\ miner'.mark = reached
       /\ miner' \in Mining
    BY <1>2, <1>7, <1>8, <1>9, Places DEF Mining
<1>14. Found'
    <2>1. \A p \in miner.found : p[1] # r
        BY <1>3 DEF MineInv, Found
    <2>2. CASE o = 0
        BY <1>2, <1>10, <1>13, <2>2 DEF MineInv, Found
    <2>3. CASE o # 0
        <3>1. found = miner.found \cup {credit} /\ credit[1] = r /\ credit[2][1] # 0
              /\ credit[2][2] # "none"
            BY <1>6, <1>10, <2>3
        <3> QED BY <1>2, <1>4, <1>13, <2>1, <3>1 DEF MineInv, Found
    <2> QED BY <2>2, <2>3
<1>15. ASSUME NEW x \in DOMAIN asked, Settled(x) PROVE Settled(x)'
    BY <1>2, <1>8, <1>13, <1>15, SettledSame
<1>16. ~waits => Settled(r)'
    <2>1. CASE o = 0
        BY <1>2, <1>12, <2>1, GivenUpSame DEF Settled
    <2>2. CASE o # 0
        BY <1>6, <1>10, <1>13, <2>2 DEF Settled
    <2> QED BY <2>1, <2>2
<1>17. ASSUME ~waits, NEW x \in 1..(r - 1) PROVE Settled(x)'
    <2>1. x \notin miner.todo /\ x \in DOMAIN asked
        BY <1>3, <1>4, Places
    <2>2. Settled(x)
        BY <1>3, <1>12, <1>17, <2>1 DEF MineInv, Walked
    <2> QED BY <1>15, <2>1, <2>2
<1>18. Walked'
    <2>1. miner'.on => miner'.since <= now'
        BY <1>2, <1>13 DEF MineInv, Walked
    <2>2. ASSUME NEW x \in 1..reached PROVE Settled(x)'
        <3>1. CASE waits
            <4>1. x \in DOMAIN asked /\ Settled(x)
                BY <1>11, <3>1, Places DEF MineInv, Walked
            <4> QED BY <1>15, <4>1
        <3>2. CASE ~waits
            <4>1. x = r \/ x \in 1..(r - 1)
                BY <1>4, <1>11, <3>2
            <4> QED BY <1>16, <1>17, <3>2, <4>1
        <3> QED BY <3>1, <3>2
    <2>3. ASSUME ~waits, NEW y \in miner.todo \ {r}, NEW x \in 1..(y - 1)
          PROVE  x \in miner.todo \ {r} \/ Settled(x)'
        <3>1. CASE x = r
            BY <1>16, <2>3, <3>1
        <3>2. CASE x # r
            <4>1. x \in miner.todo \/ Settled(x)
                BY <1>12, <2>3 DEF MineInv, Walked
            <4>2. x \in DOMAIN asked
                BY Places
            <4> QED BY <1>15, <3>2, <4>1, <4>2
        <3> QED BY <3>1, <3>2
    <2> QED BY <1>13, <2>1, <2>2, <2>3 DEF Walked
<1> QED BY <1>2, <1>9, <1>13, <1>14, <1>18, MinerStep

\* Rows not looked at stay unresolved.
LEMMA MinePreemptedInv == ASSUME MineInv, MinePreempted PROVE MineInv'
<1>1. /\ UNCHANGED <<world, credits>> /\ UNCHANGED <<now, asked, outcomes, resolved>>
      /\ miner' = [miner EXCEPT !.todo = {}, !.blocked = TRUE]
    BY DEF MinePreempted, world, credits
<1>2. /\ miner' \in Mining /\ miner'.todo = {} /\ miner'.blocked /\ miner'.on = miner.on
      /\ miner'.since = miner.since /\ miner'.found = miner.found /\ miner'.mark = miner.mark
    BY <1>1, Places DEF Mining
<1>3. Found'
    BY <1>1, <1>2 DEF MineInv, Found
<1>4. Walked'
    <2>1. \A r : Settled(r) => Settled(r)'
        BY <1>1, <1>2, SettledSame
    <2> QED BY <1>1, <1>2, <2>1 DEF MineInv, Walked
<1> QED BY <1>1, <1>2, <1>3, <1>4, Places, MinerStep

LEMMA NoMinerType ==
    /\ NoMiner \in Mining /\ NoMiner.mark = 0 /\ NoMiner.todo = {} /\ NoMiner.found = {}
    /\ ~NoMiner.on
BY DEF NoMiner, Mining

LEMMA MineFailsInv == ASSUME MineInv, MineFails PROVE MineInv'
<1>1. UNCHANGED <<world, credits>> /\ miner' = NoMiner
    BY DEF MineFails
<1>2. Found' /\ Walked'
    BY <1>1, NoMinerType DEF Found, Walked
<1> QED BY <1>1, <1>2, NoMinerType, Places, MinerStep

\* The rows of one memory found with one credit are as many as the credits
\* the run gives it.
LEMMA EarnedRows ==
    ASSUME MineInv, NEW m, NEW kind
    PROVE  LET rows == { r \in DOMAIN asked : asked[r].memory = m
                            /\ \E p \in miner.found : p[1] = r /\ p[2][2] = kind }
           IN  IsFiniteSet(rows) /\ Cardinality(rows) = Earned(m, kind)
<1> DEFINE rows == { r \in DOMAIN asked : asked[r].memory = m
                            /\ \E p \in miner.found : p[1] = r /\ p[2][2] = kind }
           given == { p \in miner.found : asked[p[1]].memory = m /\ p[2][2] = kind }
           of == [r \in rows |-> CHOOSE p \in given : p[1] = r]
<1>1. IsFiniteSet(rows)
    <2>1. rows \subseteq 1..Len(asked)
        BY Places
    <2> QED BY <2>1, Places, PlacesFinite
<1>2. \A p \in given : p[1] \in rows
    BY DEF MineInv, Found
<1>3. \A p, q \in given : p[1] = q[1] => p = q
    BY DEF MineInv, Found
<1>4. \A r \in rows : \E p \in given : p[1] = r
    OBVIOUS
<1> HIDE DEF given, rows
<1>5. \A r \in rows : of[r] \in given /\ of[r][1] = r
    BY <1>4
<1>6. \A p \in given : of[p[1]] = p
    BY <1>2, <1>3, <1>5
<1>8. of \in Bijection(rows, given)
    <2>1. of \in [rows -> given]
        BY <1>5
    <2> HIDE DEF of
    <2> QED BY <1>2, <1>5, <1>6, <2>1 DEF Bijection, Injection, Surjection, IsInjective
<1>7. Cardinality(rows) = Cardinality(given)
    BY <1>1, <1>8, FS_Bijection DEF ExistsBijection
<1> QED BY <1>1, <1>7 DEF Earned, given, rows

LEMMA MineCommitInv == ASSUME MineInv, MineCommit PROVE MineInv'
<1> DEFINE has(r) == \E p \in miner.found : p[1] = r
           of(r) == CHOOSE p \in miner.found : p[1] = r
<1>1. /\ miner.on /\ miner.todo = {}
      /\ resolved' = [r \in DOMAIN asked |-> IF has(r) THEN of(r)[2] ELSE resolved[r]]
      /\ helpful' = [m \in Memories |-> helpful[m] + Earned(m, "helpful")]
      /\ harmful' = [m \in Memories |-> harmful[m] + Earned(m, "harmful")]
      /\ rowMark' = miner.mark /\ miner' = NoMiner
      /\ UNCHANGED <<now, asked, outcomes>>
    BY DEF MineCommit, world
<1>2. \A r : has(r) => of(r) \in miner.found /\ of(r)[1] = r
    OBVIOUS
<1>3. \A p \in miner.found : has(p[1]) /\ of(p[1]) = p
    BY <1>2 DEF MineInv, Found
<1> HIDE DEF of
<1>4. \A r \in DOMAIN asked : (has(r) => resolved'[r] = of(r)[2])
                              /\ (~has(r) => resolved'[r] = resolved[r])
    BY <1>1
<1>5. \A r \in DOMAIN asked : resolved'[r] \in Nat \X Kinds
    <2>1. \A r \in DOMAIN asked : resolved[r] \in Nat \X Kinds
        BY Places DEF MineInv, MineTypes
    <2>2. \A p \in miner.found : p[2] \in Nat \X Kinds
        BY Places DEF Mining
    <2> QED BY <1>2, <1>4, <2>1, <2>2
<1>6. resolved' \in Seq(Nat \X Kinds) /\ Len(resolved') = Len(asked)
    <2>1. DOMAIN resolved' = 1..Len(asked) /\ resolved' = [r \in 1..Len(asked) |-> resolved'[r]]
        BY <1>1, Places
    <2>2. Len(asked) \in Nat /\ \A r \in 1..Len(asked) : resolved'[r] \in Nat \X Kinds
        BY <1>5, Places
    <2> QED BY <2>1, <2>2
<1>7. ASSUME NEW m \in Memories, NEW kind \in {"helpful", "harmful"}
      PROVE  /\ Earned(m, kind) \in Nat
             /\ IsFiniteSet(Gave(asked, resolved, m, kind))
             /\ Cardinality(Gave(asked', resolved', m, kind))
                    = Cardinality(Gave(asked, resolved, m, kind)) + Earned(m, kind)
    <2> DEFINE rows == { r \in DOMAIN asked : asked[r].memory = m
                            /\ \E p \in miner.found : p[1] = r /\ p[2][2] = kind }
               old == Gave(asked, resolved, m, kind)
    <2>1. IsFiniteSet(rows) /\ Cardinality(rows) = Earned(m, kind)
        BY EarnedRows
    <2>2. IsFiniteSet(old)
        <3>1. old \subseteq 1..Len(asked)
            BY Places DEF Gave
        <3> QED BY <3>1, Places, PlacesFinite
    <2>3. ASSUME NEW r \in DOMAIN asked
          PROVE  resolved'[r][2] = kind
                    <=> resolved[r][2] = kind \/ \E p \in miner.found : p[1] = r /\ p[2][2] = kind
        <3>1. CASE has(r)
            <4>1. of(r) \in miner.found /\ of(r)[1] = r /\ resolved'[r] = of(r)[2]
                BY <1>2, <1>4, <3>1
            <4>2. \A p \in miner.found : p[1] = r => p = of(r)
                BY <1>3
            <4>3. resolved[r] = NotYet
                BY <4>1 DEF MineInv, Found
            <4>4. resolved[r][2] # kind
                BY <4>3 DEF NotYet
            <4> QED BY <4>1, <4>2, <4>4
        <3>2. CASE ~has(r)
            BY <1>4, <3>2
        <3> QED BY <3>1, <3>2
    <2>4. Gave(asked', resolved', m, kind) = old \cup rows
        <3>1. Gave(asked', resolved', m, kind)
                = { r \in DOMAIN asked : asked[r].memory = m /\ resolved'[r][2] = kind }
            BY <1>1 DEF Gave
        <3>2. old = { r \in DOMAIN asked : asked[r].memory = m /\ resolved[r][2] = kind }
            BY DEF Gave
        <3> QED BY <2>3, <3>1, <3>2
    <2>5. old \cap rows = {}
        <3> SUFFICES ASSUME NEW r \in old, r \in rows PROVE FALSE
            OBVIOUS
        <3>1. PICK p \in miner.found : p[1] = r
            OBVIOUS
        <3>2. resolved[r] = NotYet
            BY <3>1 DEF MineInv, Found
        <3> QED BY <3>2 DEF Gave, NotYet
    <2> HIDE DEF rows, old
    <2>6. /\ Cardinality(old \cup rows)
                = Cardinality(old) + Cardinality(rows) - Cardinality(old \cap rows)
          /\ Cardinality(old) \in Nat /\ Cardinality(rows) \in Nat
        BY <2>1, <2>2, FS_Union, FS_CardinalityType
    <2>7. Cardinality(old \cap rows) = 0
        BY <2>5, FS_EmptySet
    <2>8. Cardinality(old \cup rows) = Cardinality(old) + Cardinality(rows)
        BY <2>6, <2>7
    <2> QED BY <2>1, <2>2, <2>4, <2>6, <2>8 DEF old
<1>8. \A m \in Memories :
            /\ helpful[m] = Cardinality(Gave(asked, resolved, m, "helpful"))
            /\ harmful[m] = Cardinality(Gave(asked, resolved, m, "harmful"))
    BY Zenon DEF MineInv, CreditsSettled, CreditedOnce, Gave
<1>9. \A m \in Memories :
            /\ helpful'[m] = Cardinality(Gave(asked', resolved', m, "helpful"))
            /\ harmful'[m] = Cardinality(Gave(asked', resolved', m, "harmful"))
    <2> SUFFICES ASSUME NEW m \in Memories
                 PROVE  /\ helpful'[m] = Cardinality(Gave(asked', resolved', m, "helpful"))
                        /\ harmful'[m] = Cardinality(Gave(asked', resolved', m, "harmful"))
        OBVIOUS
    <2>1. /\ helpful'[m] = helpful[m] + Earned(m, "helpful")
          /\ harmful'[m] = harmful[m] + Earned(m, "harmful")
        BY <1>1
    <2> QED BY <1>7, <1>8, <2>1
<1>10. CreditedOnce'
    BY <1>9, Zenon DEF CreditedOnce, Gave
<1>11. /\ helpful' \in [Memories -> Nat] /\ harmful' \in [Memories -> Nat]
    <2>1. \A m \in Memories : /\ helpful[m] \in Nat /\ harmful[m] \in Nat
                              /\ Earned(m, "helpful") \in Nat /\ Earned(m, "harmful") \in Nat
        BY <1>7 DEF MineInv, MineTypes
    <2>2. \A m \in Memories : /\ helpful[m] + Earned(m, "helpful") \in Nat
                              /\ harmful[m] + Earned(m, "harmful") \in Nat
        BY <2>1
    <2> QED BY <1>1, <2>2
<1>12. MineTypes'
    <2>1. rowMark' \in 0..Len(asked)
        BY <1>1, Places
    <2> QED BY <1>1, <1>6, <1>11, <2>1, NoMinerType DEF MineInv, MineTypes
<1>13. InOrder'
    BY <1>1 DEF MineInv, InOrder
<1>14. PassedIsSettled'
    <2> SUFFICES ASSUME NEW r \in 1..miner.mark PROVE resolved'[r] # NotYet \/ GivenUp(r)'
        BY <1>1 DEF PassedIsSettled, GivenUp
    <2>1. Settled(r) /\ r \in DOMAIN asked
        BY Places DEF MineInv, Walked
    <2>2. CASE has(r)
        <3>1. of(r) \in miner.found /\ resolved'[r] = of(r)[2]
            BY <1>2, <1>4, <2>1, <2>2
        <3>2. of(r)[2][1] # 0
            BY <3>1 DEF MineInv, Found
        <3> QED BY <3>1, <3>2 DEF NotYet
    <2>3. CASE ~has(r) /\ resolved[r] # NotYet
        BY <1>4, <2>1, <2>3
    <2>4. CASE GivenUp(r)
        BY <1>1, <2>4, GivenUpSame
    <2> QED BY <2>1, <2>2, <2>3, <2>4 DEF Settled
<1>15. Found' /\ Walked'
    BY <1>1, NoMinerType DEF Found, Walked
<1> QED BY <1>10, <1>12, <1>13, <1>14, <1>15 DEF MineInv, CreditsSettled

LEMMA MineInitInv == MineInit => MineInv
<1> SUFFICES ASSUME MineInit PROVE MineInv
    OBVIOUS
<1>1. /\ now = 0 /\ asked = << >> /\ outcomes = << >> /\ resolved = << >> /\ rowMark = 0
      /\ helpful = [m \in Memories |-> 0] /\ harmful = [m \in Memories |-> 0]
      /\ miner = NoMiner /\ DOMAIN asked = {} /\ DOMAIN outcomes = {} /\ Len(asked) = 0
    BY DEF MineInit
<1>2. MineTypes
    BY <1>1, NoMinerType DEF MineTypes
<1>3. InOrder /\ Found /\ Walked
    BY <1>1, NoMinerType DEF InOrder, Found, Walked
<1>4. PassedIsSettled
    BY <1>1 DEF PassedIsSettled
<1>5. CreditedOnce
    <2>1. \A m \in Memories, kind \in Kinds : Cardinality(Gave(asked, resolved, m, kind)) = 0
        <3>1. \A m, kind : Gave(asked, resolved, m, kind) = {}
            BY <1>1 DEF Gave
        <3> QED BY <3>1, FS_EmptySet
    <2>2. \A m \in Memories :
            /\ helpful[m] = Cardinality(Gave(asked, resolved, m, "helpful"))
            /\ harmful[m] = Cardinality(Gave(asked, resolved, m, "harmful"))
        BY <1>1, <2>1 DEF Kinds
    <2> QED BY <2>2, Zenon DEF CreditedOnce, Gave
<1> QED BY <1>2, <1>3, <1>4, <1>5 DEF MineInv, CreditsSettled

LEMMA MineStep == ASSUME MineInv, [MineNext]_miningVars PROVE MineInv'
<1>1. CASE UNCHANGED miningVars
    <2>1. UNCHANGED <<world, credits>> /\ miner' = miner
          /\ UNCHANGED <<now, asked, outcomes, resolved>>
        BY <1>1 DEF miningVars, world, credits
    <2>2. Found'
        BY <2>1 DEF MineInv, Found
    <2>3. Walked'
        <3>1. \A r : Settled(r) => Settled(r)'
            BY <2>1, SettledSame
        <3> QED BY <2>1, <3>1 DEF MineInv, Walked
    <2> QED BY <2>1, <2>2, <2>3, Places, MinerStep
<1>2. CASE Hours
    BY <1>2, HoursInv
<1>3. ASSUME NEW t \in Talks, NEW text \in Said, NEW m \in Memories, AskAbout(t, text, m)
      PROVE  MineInv'
    BY <1>3, AskAboutInv
<1>4. ASSUME NEW t \in Talks, NEW label \in Labels, FinishTalk(t, label) PROVE MineInv'
    BY <1>4, FinishTalkInv
<1>5. ASSUME NEW o \in DOMAIN outcomes, NEW reaction \in Reactions, React(o, reaction)
      PROVE  MineInv'
    BY <1>5, ReactInv
<1>6. CASE MineOpen
    BY <1>6, MineOpenInv
<1>7. CASE MineRow
    BY <1>7, MineRowInv
<1>8. CASE MinePreempted
    BY <1>8, MinePreemptedInv
<1>9. CASE MineCommit
    BY <1>9, MineCommitInv
<1>10. CASE MineFails
    BY <1>10, MineFailsInv
<1> QED BY <1>1, <1>2, <1>3, <1>4, <1>5, <1>6, <1>7, <1>8, <1>9, <1>10 DEF MineNext

\* A memory has one credit for each turn it was resolved for, and a row
\* behind the watermark is resolved or can get no outcome any more, for any
\* windows with OutcomeWindow + MsgWindow < Grace, any batch size, and
\* wherever runs are preempted, fail or die (dream/mine_state.py _run).
THEOREM MinedCreditsSettled == MineSpec => []CreditsSettled
<1>1. MineInv => CreditsSettled
    BY DEF MineInv
<1> QED BY <1>1, MineInitInv, MineStep, PTL DEF MineSpec
-----------------------------------------------------------------------------
\* Episodes.

TurnRow == [session : Sessions, at : Nat \ {0}, label : EndLabels]

\* Turns are in order of time, and a watermark is behind the clock.
InTime ==
    /\ turns \in Seq(TurnRow) /\ clock \in Nat \ {0}
    /\ \A t \in DOMAIN turns : turns[t].at < clock
    /\ \A t, u \in DOMAIN turns : t < u => turns[t].at < turns[u].at

LEMMA TurnRows ==
    ASSUME InTime
    PROVE  /\ DOMAIN turns = 1..Len(turns) /\ Len(turns) \in Nat /\ DOMAIN turns \subseteq Nat
           /\ \A t \in DOMAIN turns : /\ turns[t].session \in Nat
                                      /\ turns[t].at \in Nat /\ turns[t].at # 0
<1>1. DOMAIN turns = 1..Len(turns) /\ Len(turns) \in Nat /\ DOMAIN turns \subseteq Nat
    BY DEF InTime
<1>2. \A t \in DOMAIN turns : turns[t] \in TurnRow
    BY DEF InTime
<1> QED BY <1>1, <1>2, SessionsAssumption DEF TurnRow

\* The order of the rows is total and strict.
LEMMA BeforeOrders ==
    ASSUME InTime
    PROVE  /\ \A t, u \in DOMAIN turns : t # u => Before(t, u) \/ Before(u, t)
           /\ \A t \in DOMAIN turns : ~Before(t, t)
           /\ \A t, u, x \in DOMAIN turns : Before(t, u) /\ Before(u, x) => Before(t, x)
<1>1. ASSUME NEW t \in DOMAIN turns, NEW u \in DOMAIN turns, t # u
      PROVE  Before(t, u) \/ Before(u, t)
    <2>1. t < u \/ u < t
        BY <1>1, TurnRows
    <2>2. turns[t].at < turns[u].at \/ turns[u].at < turns[t].at
        BY <2>1 DEF InTime
    <2> QED BY <2>2, TurnRows DEF Before
<1>2. \A t \in DOMAIN turns : ~Before(t, t)
    BY TurnRows DEF Before
<1>3. ASSUME NEW t \in DOMAIN turns, NEW u \in DOMAIN turns, NEW x \in DOMAIN turns,
             Before(t, u), Before(u, x)
      PROVE  Before(t, x)
    BY <1>3, TurnRows DEF Before
<1> QED BY <1>1, <1>2, <1>3

Place(all, t) == Cardinality({ u \in all : Before(u, t) }) + 1

LEMMA PlaceOrders ==
    ASSUME InTime, NEW all \in SUBSET (DOMAIN turns)
    PROVE  /\ IsFiniteSet(all) /\ Cardinality(all) \in Nat
           /\ \A t \in all : Place(all, t) \in 1..Cardinality(all)
           /\ \A t, u \in all : Before(t, u) => Place(all, t) < Place(all, u)
<1> DEFINE below(t) == { u \in all : Before(u, t) }
<1>1. IsFiniteSet(all) /\ Cardinality(all) \in Nat
    BY TurnRows, PlacesFinite, FS_CardinalityType
<1>2. \A t \in all : below(t) \subseteq all /\ t \notin below(t)
    BY BeforeOrders
<1>3. \A t \in all : IsFiniteSet(below(t)) /\ Cardinality(below(t)) \in Nat
    BY <1>1, <1>2, FS_Subset, FS_CardinalityType
<1>4. \A t, u \in all : Before(t, u) => below(t) \subseteq below(u) /\ t \in below(u)
    BY BeforeOrders
<1>5. \A t \in all : Place(all, t) = Cardinality(below(t)) + 1
    BY DEF Place
<1> HIDE DEF below
<1>6. ASSUME NEW t \in all PROVE Place(all, t) \in 1..Cardinality(all)
    <2>1. Cardinality(below(t)) <= Cardinality(all) /\ Cardinality(below(t)) # Cardinality(all)
        BY <1>1, <1>2, FS_Subset
    <2> QED BY <1>1, <1>3, <1>5, <2>1
<1>7. ASSUME NEW t \in all, NEW u \in all, Before(t, u)
      PROVE  Place(all, t) < Place(all, u)
    <2>1. Cardinality(below(t)) <= Cardinality(below(u))
          /\ Cardinality(below(t)) # Cardinality(below(u))
        BY <1>2, <1>3, <1>4, <1>7, FS_Subset
    <2> QED BY <1>3, <1>5, <2>1
<1> QED BY <1>1, <1>6, <1>7

\* The statement returns turns in order, without a repetition, and all of
\* them when they are no more than its limit.
LEMMA RowsOrdered ==
    ASSUME InTime, NEW since \in Nat
    PROVE  LET rows == Rows(since)
           IN  /\ rows \in Seq(DOMAIN turns) /\ Len(rows) <= MaxEpisodes * MaxEpisodeTurns
               /\ \A i \in DOMAIN rows : rows[i] \in After(since)
               /\ \A i, j \in DOMAIN rows : i < j => Before(rows[i], rows[j])
               /\ \/ Len(rows) = MaxEpisodes * MaxEpisodeTurns
                  \/ \A t \in After(since) : \E i \in DOMAIN rows : rows[i] = t
<1> DEFINE all == After(since)
           limit == MaxEpisodes * MaxEpisodeTurns
           n == Min({Cardinality(all), limit})
           rows == [i \in 1..n |-> CHOOSE t \in all : Place(all, t) = i]
           places == [t \in all |-> Place(all, t)]
<1>1. Rows(since) = rows
    BY DEF Rows, Place
<1>2. all \in SUBSET (DOMAIN turns)
    BY DEF After
<1> HIDE DEF all
<1>3. /\ IsFiniteSet(all) /\ Cardinality(all) \in Nat
      /\ \A t \in all : Place(all, t) \in 1..Cardinality(all)
      /\ \A t, u \in all : Before(t, u) => Place(all, t) < Place(all, u)
    BY <1>2, PlaceOrders
<1>4. \A t, u \in all : Place(all, t) = Place(all, u) => t = u
    BY <1>2, <1>3, BeforeOrders
<1>5. limit \in Nat
    <2>1. MaxEpisodes \in Nat /\ MaxEpisodeTurns \in Nat
        BY EpisodeBoundsAssumption
    <2> QED BY <2>1
<1> HIDE DEF limit
<1>6. n \in {Cardinality(all), limit} /\ n <= Cardinality(all) /\ n <= limit
    <2>1. {Cardinality(all), limit} \subseteq Nat /\ {Cardinality(all), limit} # {}
        BY <1>3, <1>5
    <2> QED BY <2>1, MinOfNats
<1>7. \A i \in 1..Cardinality(all) : \E t \in all : Place(all, t) = i
    <2>1. places \in Injection(all, 1..Cardinality(all))
        BY <1>3, <1>4 DEF Injection, IsInjective
    <2>2. IsFiniteSet(1..Cardinality(all)) /\ Cardinality(1..Cardinality(all)) = Cardinality(all)
        BY <1>3, FS_Interval
    <2>3. places \in Surjection(all, 1..Cardinality(all))
        <3> HIDE DEF places
        <3> QED BY <2>1, <2>2, FS_Injection
    <2> QED BY <2>3 DEF Surjection
<1> HIDE DEF n
<1>8. \A i \in 1..n : rows[i] \in all /\ Place(all, rows[i]) = i
    <2> SUFFICES ASSUME NEW i \in 1..n PROVE rows[i] \in all /\ Place(all, rows[i]) = i
        OBVIOUS
    <2>1. \E t \in all : Place(all, t) = i
        BY <1>3, <1>5, <1>6, <1>7
    <2>2. rows[i] = CHOOSE t \in all : Place(all, t) = i
        OBVIOUS
    <2> QED BY <2>1, <2>2
<1>9. n \in Nat /\ DOMAIN rows = 1..n
    BY <1>3, <1>5, <1>6
<1>10. \A i \in 1..n : rows[i] \in DOMAIN turns
    BY <1>2, <1>8
<1>11. rows \in Seq(DOMAIN turns) /\ Len(rows) = n
    BY <1>9, <1>10
<1> HIDE DEF rows
<1>12. ASSUME NEW i \in 1..n, NEW j \in 1..n, i < j PROVE Before(rows[i], rows[j])
    <2>1. rows[i] # rows[j] /\ Place(all, rows[i]) < Place(all, rows[j])
        BY <1>8, <1>12
    <2>2. ~Before(rows[j], rows[i])
        BY <1>3, <1>8, <1>12
    <2> QED BY <1>10, <2>1, <2>2, BeforeOrders
<1>13. n = limit \/ \A t \in all : \E i \in 1..n : rows[i] = t
    <2> SUFFICES ASSUME n # limit, NEW t \in all PROVE \E i \in 1..n : rows[i] = t
        OBVIOUS
    <2>1. Place(all, t) \in 1..n
        BY <1>3, <1>6
    <2>2. rows[Place(all, t)] = t
        BY <1>4, <1>8, <2>1
    <2> QED BY <2>1, <2>2
<1> QED BY <1>1, <1>6, <1>8, <1>9, <1>11, <1>12, <1>13 DEF all, limit

\* The loop is defined by its steps.
Steps(rows, k, acc) ==
    acc = [n \in 0..k |-> IF n = 0 THEN [closed |-> << >>, going |-> << >>]
                          ELSE Assembled(acc[n - 1], rows[n])]

LEMMA StepsExist ==
    ASSUME NEW rows, NEW k \in Nat
    PROVE  \E acc : Steps(rows, k, acc)
<1> DEFINE Start == [closed |-> << >>, going |-> << >>]
           Bad == { n \in Nat : ~ \E acc : Steps(rows, n, acc) }
<1>1. SUFFICES ASSUME Bad # {} PROVE FALSE
    OBVIOUS
<1>2. PICK m \in Bad : \A x \in Bad : m <= x
    BY <1>1, MinOfNats
<1>3. CASE m = 0
    <2> DEFINE f == [n \in 0..0 |-> Start]
    <2>1. Steps(rows, 0, f)
        BY DEF Steps
    <2> QED BY <1>3, <2>1
<1>4. CASE m # 0
    <2>1. m - 1 \in Nat /\ m \in Nat /\ m - 1 \notin Bad
        BY <1>2, <1>4
    <2>2. PICK f : Steps(rows, m - 1, f)
        BY <2>1
    <2> DEFINE g == [n \in 0..m |-> IF n = m THEN Assembled(f[m - 1], rows[m]) ELSE f[n]]
    <2>3. \A n \in 0..(m - 1) :
            /\ f[n] = IF n = 0 THEN Start ELSE Assembled(f[n - 1], rows[n])
            /\ g[n] = f[n] /\ n \in 0..m /\ n # m
        BY <2>1, <2>2 DEF Steps
    <2>4. g[m] = Assembled(f[m - 1], rows[m]) /\ m - 1 \in 0..(m - 1) /\ g[m - 1] = f[m - 1]
        BY <2>1, <2>3
    <2>5. \A n \in 0..m : g[n] = IF n = 0 THEN Start ELSE Assembled(g[n - 1], rows[n])
        <3> SUFFICES ASSUME NEW n \in 0..m
                     PROVE  g[n] = IF n = 0 THEN Start ELSE Assembled(g[n - 1], rows[n])
            OBVIOUS
        <3>1. CASE n = m
            BY <1>4, <2>4, <3>1
        <3>2. CASE n # m /\ n # 0
            <4>1. n \in 0..(m - 1) /\ n - 1 \in 0..(m - 1)
                BY <2>1, <3>2
            <4> HIDE DEF g
            <4> QED BY <2>3, <3>2, <4>1
        <3>3. CASE n = 0
            <4>1. 0 \in 0..(m - 1)
                BY <2>1
            <4> QED BY <2>3, <3>3, <4>1
        <3> QED BY <3>1, <3>2, <3>3
    <2>6. g = [n \in 0..m |-> g[n]]
        OBVIOUS
    <2> HIDE DEF g
    <2>7. Steps(rows, m, g)
        BY <2>5, <2>6 DEF Steps
    <2> QED BY <1>2, <2>7
<1> QED BY <1>3, <1>4

LEMMA AssembledSteps ==
    ASSUME NEW S, NEW rows \in Seq(S)
    PROVE  /\ AssembledBy(rows)[0] = [closed |-> << >>, going |-> << >>]
           /\ \A n \in 1..Len(rows) :
                AssembledBy(rows)[n] = Assembled(AssembledBy(rows)[n - 1], rows[n])
<1>1. Len(rows) \in Nat
    OBVIOUS
<1>2. AssembledBy(rows) = CHOOSE acc : Steps(rows, Len(rows), acc)
    BY DEF AssembledBy, Steps
<1>3. Steps(rows, Len(rows), AssembledBy(rows))
    BY <1>1, <1>2, StepsExist
<1> QED BY <1>1, <1>3 DEF Steps

Episode(e) ==
    /\ e \in Seq(DOMAIN turns) /\ e # << >> /\ Started(e) <= Ended(e)
    /\ \A t \in ToSet(e) : Terminal(t) => t = Last(e)
Covered(eps, t) == \E i \in DOMAIN eps : t \in ToSet(eps[i])

\* What the loop has after n rows: the episodes closed, and open turns with
\* no end among them, while there is room for another.
Holds(rows, n, acc) ==
    /\ acc.closed \in Seq(Seq(DOMAIN turns)) /\ acc.going \in Seq(DOMAIN turns)
    /\ Len(acc.closed) <= MaxEpisodes
    /\ \A i \in DOMAIN acc.closed : Episode(acc.closed[i])
    /\ acc.going # << >> => /\ Started(acc.going) <= Ended(acc.going)
                            /\ \E j \in 1..n : rows[j] = Last(acc.going)
    /\ Len(acc.closed) < MaxEpisodes =>
        /\ \A t \in ToSet(acc.going) : ~Terminal(t)
        /\ \A j \in 1..n : rows[j] \in ToSet(acc.going) \/ Covered(acc.closed, rows[j])

LEMMA EpisodeClosed ==
    ASSUME NEW eps \in Seq(Seq(DOMAIN turns)), \A i \in DOMAIN eps : Episode(eps[i]),
           NEW g, Episode(g)
    PROVE  /\ Append(eps, g) \in Seq(Seq(DOMAIN turns))
           /\ Len(Append(eps, g)) = Len(eps) + 1
           /\ \A i \in DOMAIN Append(eps, g) : Episode(Append(eps, g)[i])
           /\ \A t : Covered(eps, t) \/ t \in ToSet(g) => Covered(Append(eps, g), t)
<1> DEFINE more == Append(eps, g)
<1>1. g \in Seq(DOMAIN turns)
    BY DEF Episode
<1>2. /\ more \in Seq(Seq(DOMAIN turns)) /\ Len(more) = Len(eps) + 1 /\ Len(eps) \in Nat
      /\ DOMAIN eps = 1..Len(eps) /\ DOMAIN more = 1..(Len(eps) + 1)
      /\ \A i \in DOMAIN eps : more[i] = eps[i] /\ more[Len(eps) + 1] = g
    BY <1>1
<1>3. more[Len(eps) + 1] = g
    BY <1>1
<1> HIDE DEF more
<1>4. \A i \in DOMAIN more : i \in DOMAIN eps \/ i = Len(eps) + 1
    BY <1>2
<1>5. \A i \in DOMAIN more : Episode(more[i])
    BY <1>2, <1>3, <1>4
<1>6. \A t : Covered(eps, t) \/ t \in ToSet(g) => Covered(more, t)
    <2>1. DOMAIN eps \subseteq DOMAIN more /\ Len(eps) + 1 \in DOMAIN more
        BY <1>2
    <2> QED BY <1>2, <1>3, <2>1 DEF Covered
<1> QED BY <1>2, <1>5, <1>6 DEF more

LEMMA GoingOn ==
    ASSUME NEW S, NEW s \in Seq(S), NEW t \in S
    PROVE  /\ Append(s, t) \in Seq(S) /\ Append(s, t) # << >>
           /\ Last(Append(s, t)) = t
           /\ Head(Append(s, t)) = IF s = << >> THEN t ELSE Head(s)
           /\ ToSet(Append(s, t)) = ToSet(s) \cup {t}
<1>1. /\ Append(s, t) \in Seq(S) /\ Len(Append(s, t)) = Len(s) + 1 /\ Len(s) \in Nat
      /\ DOMAIN Append(s, t) = 1..(Len(s) + 1) /\ DOMAIN s = 1..Len(s)
      /\ \A i \in 1..Len(s) : Append(s, t)[i] = s[i]
    OBVIOUS
<1>2. Append(s, t)[Len(s) + 1] = t
    OBVIOUS
<1>3. Last(Append(s, t)) = t /\ Append(s, t) # << >>
    BY <1>1, <1>2 DEF Last
<1>4. Head(Append(s, t)) = IF s = << >> THEN t ELSE Head(s)
    <2>1. Head(Append(s, t)) = Append(s, t)[1]
        BY <1>1, <1>3
    <2>2. CASE s = << >>
        BY <1>2, <2>1, <2>2
    <2>3. CASE s # << >>
        <3>1. 1 \in 1..Len(s) /\ Head(s) = s[1]
            BY <2>3
        <3> QED BY <1>1, <2>1, <2>3, <3>1
    <2> QED BY <2>2, <2>3
<1>5. ToSet(Append(s, t)) = ToSet(s) \cup {t}
    <2>1. \A i \in 1..(Len(s) + 1) : i \in 1..Len(s) \/ i = Len(s) + 1
        BY <1>1
    <2>2. 1..Len(s) \subseteq 1..(Len(s) + 1) /\ Len(s) + 1 \in 1..(Len(s) + 1)
        BY <1>1
    <2> QED BY <1>1, <1>2, <2>1, <2>2 DEF ToSet
<1> QED BY <1>1, <1>3, <1>4, <1>5

\* The first half of a row's turn in the loop: where it goes.
HalfHolds(rows, n, first, g) ==
    /\ first \in Seq(Seq(DOMAIN turns)) /\ Len(first) <= MaxEpisodes
    /\ \A i \in DOMAIN first : Episode(first[i])
    /\ g \in Seq(DOMAIN turns) /\ g # << >> /\ Last(g) = rows[n]
    /\ Started(g) <= Ended(g)
    /\ \A t \in ToSet(g) : Terminal(t) => t = rows[n]
    /\ \A j \in 1..n : rows[j] \in ToSet(g) \/ Covered(first, rows[j])

LEMMA HalfStep ==
    ASSUME InTime, NEW rows \in Seq(DOMAIN turns),
           \A i, j \in DOMAIN rows : i < j => Before(rows[i], rows[j]),
           NEW n \in 1..Len(rows), NEW acc, Holds(rows, n - 1, acc),
           Len(acc.closed) < MaxEpisodes
    PROVE  LET cut == ClosesBefore(acc.going, rows[n])
           IN  HalfHolds(rows, n, IF cut THEN Append(acc.closed, acc.going) ELSE acc.closed,
                                  IF cut THEN <<rows[n]>> ELSE Append(acc.going, rows[n]))
<1> DEFINE t == rows[n]  cut == ClosesBefore(acc.going, t)
<1>1. /\ t \in DOMAIN turns /\ DOMAIN rows = 1..Len(rows) /\ n \in Nat /\ Len(rows) \in Nat
      /\ \A j \in 1..n : j \in 1..(n - 1) \/ j = n
    OBVIOUS
<1>2. /\ acc.closed \in Seq(Seq(DOMAIN turns)) /\ acc.going \in Seq(DOMAIN turns)
      /\ Len(acc.closed) \in Nat /\ MaxEpisodes \in Nat
      /\ \A i \in DOMAIN acc.closed : Episode(acc.closed[i])
      /\ \A u \in ToSet(acc.going) : ~Terminal(u)
      /\ \A j \in 1..(n - 1) : rows[j] \in ToSet(acc.going) \/ Covered(acc.closed, rows[j])
      /\ acc.going # << >> => /\ Started(acc.going) <= Ended(acc.going)
                              /\ \E j \in 1..(n - 1) : rows[j] = Last(acc.going)
    BY EpisodeBoundsAssumption DEF Holds
<1>3. CASE cut
    <2>1. acc.going # << >>
        BY <1>3 DEF ClosesBefore
    <2>2. Episode(acc.going)
        BY <1>2, <2>1 DEF Episode
    <2> DEFINE first == Append(acc.closed, acc.going)  g == <<t>>
    <2>3. /\ first \in Seq(Seq(DOMAIN turns)) /\ Len(first) = Len(acc.closed) + 1
          /\ \A i \in DOMAIN first : Episode(first[i])
          /\ \A u : Covered(acc.closed, u) \/ u \in ToSet(acc.going) => Covered(first, u)
        BY <1>2, <2>2, EpisodeClosed
    <2>4. Len(first) <= MaxEpisodes
        BY <1>2, <2>3
    <2>5. /\ g \in Seq(DOMAIN turns) /\ g # << >> /\ Last(g) = t /\ Head(g) = t /\ ToSet(g) = {t}
        <3>1. << >> \in Seq(DOMAIN turns) /\ ToSet(<< >>) = {} /\ g = Append(<< >>, t)
            BY DEF ToSet
        <3>2. t \in DOMAIN turns
            BY <1>1
        <3> HIDE DEF t, g
        <3>3. /\ g \in Seq(DOMAIN turns) /\ g # << >> /\ Last(g) = t
              /\ Head(g) = (IF << >> = << >> THEN t ELSE Head(<< >>))
              /\ ToSet(g) = ToSet(<< >>) \cup {t}
            BY ONLY <3>1, <3>2, GoingOn
        <3> QED BY <3>1, <3>3
    <2> HIDE DEF first, g
    <2>6. Started(g) <= Ended(g)
        BY <1>1, <2>5, TurnRows DEF Started, Ended
    <2>7. \A j \in 1..n : rows[j] \in ToSet(g) \/ Covered(first, rows[j])
        BY <1>1, <1>2, <2>3, <2>5
    <2>8. \A u \in ToSet(g) : Terminal(u) => u = t
        BY <2>5
    <2>9. HalfHolds(rows, n, first, g)
        BY <2>3, <2>4, <2>5, <2>6, <2>7, <2>8 DEF HalfHolds
    <2> QED BY <1>3, <2>9 DEF first, g
<1>4. CASE ~cut
    <2> DEFINE g == Append(acc.going, t)
    <2>1. /\ g \in Seq(DOMAIN turns) /\ g # << >> /\ Last(g) = t
          /\ Head(g) = IF acc.going = << >> THEN t ELSE Head(acc.going)
          /\ ToSet(g) = ToSet(acc.going) \cup {t}
        <3>1. t \in DOMAIN turns /\ acc.going \in Seq(DOMAIN turns)
            BY <1>1, <1>2
        <3> HIDE DEF t
        <3> QED BY ONLY <3>1, GoingOn
    <2> HIDE DEF g
    <2>2. Started(g) <= Ended(g)
        <3>1. CASE acc.going = << >>
            BY <1>1, <2>1, <3>1, TurnRows DEF Started, Ended
        <3>2. CASE acc.going # << >>
            <4>1. PICK j \in 1..(n - 1) : rows[j] = Last(acc.going)
                BY <1>2, <3>2
            <4>2. j \in DOMAIN rows /\ n \in DOMAIN rows /\ j < n
                BY <1>1
            <4>3. Before(rows[j], t) /\ rows[j] \in DOMAIN turns
                BY <4>2
            <4>4. turns[t].session = turns[rows[j]].session
                BY <1>4, <3>2, <4>1 DEF ClosesBefore
            <4>5. turns[rows[j]].at < turns[t].at
                BY <1>1, <4>3, <4>4, TurnRows DEF Before
            <4>6. turns[Head(acc.going)].at <= turns[rows[j]].at
                BY <1>2, <3>2, <4>1 DEF Started, Ended
            <4>7. Head(acc.going) \in DOMAIN turns
                BY <1>2, <3>2
            <4>9. /\ turns[Head(acc.going)].at \in Nat /\ turns[rows[j]].at \in Nat
                  /\ turns[t].at \in Nat
                BY <1>1, <4>3, <4>7, TurnRows
            <4>8. turns[Head(acc.going)].at <= turns[t].at
                BY <4>5, <4>6, <4>9
            <4> QED BY <2>1, <3>2, <4>8 DEF Started, Ended
        <3> QED BY <3>1, <3>2
    <2>3. \A u \in ToSet(g) : Terminal(u) => u = t
        BY <1>2, <2>1
    <2>4. \A j \in 1..n : rows[j] \in ToSet(g) \/ Covered(acc.closed, rows[j])
        BY <1>1, <1>2, <2>1
    <2>5. HalfHolds(rows, n, acc.closed, g)
        BY <1>2, <2>1, <2>2, <2>3, <2>4 DEF HalfHolds
    <2> QED BY <1>4, <2>5 DEF g
<1> QED BY <1>3, <1>4

LEMMA HoldsStep ==
    ASSUME InTime, NEW rows \in Seq(DOMAIN turns),
           \A i, j \in DOMAIN rows : i < j => Before(rows[i], rows[j]),
           NEW n \in 1..Len(rows), NEW acc, Holds(rows, n - 1, acc)
    PROVE  Holds(rows, n, Assembled(acc, rows[n]))
<1> DEFINE t == rows[n]
           cut == ClosesBefore(acc.going, t)
           first == IF cut THEN Append(acc.closed, acc.going) ELSE acc.closed
           g == IF cut THEN <<t>> ELSE Append(acc.going, t)
<1>1. Assembled(acc, t) =
            IF Len(acc.closed) >= MaxEpisodes THEN acc
            ELSE IF ~Terminal(t) \/ Len(first) >= MaxEpisodes
            THEN [closed |-> first, going |-> g]
            ELSE [closed |-> Append(first, g), going |-> << >>]
    BY DEF Assembled
<1>2. MaxEpisodes \in Nat /\ Len(acc.closed) \in Nat /\ n \in Nat
    BY EpisodeBoundsAssumption DEF Holds
<1>3. CASE Len(acc.closed) >= MaxEpisodes
    <2>1. Assembled(acc, t) = acc /\ ~(Len(acc.closed) < MaxEpisodes)
        BY <1>1, <1>2, <1>3
    <2>2. \A j \in 1..(n - 1) : j \in 1..n
        BY <1>2
    <2>3. Holds(rows, n, acc)
        BY <2>1, <2>2 DEF Holds
    <2> QED BY <2>1, <2>3
<1>4. CASE ~(Len(acc.closed) >= MaxEpisodes)
    <2>1. HalfHolds(rows, n, first, g)
        <3>1. Len(acc.closed) < MaxEpisodes
            BY <1>2, <1>4
        <3> QED BY <3>1, HalfStep
    <2> HIDE DEF first, g
    <2>2. /\ first \in Seq(Seq(DOMAIN turns)) /\ Len(first) <= MaxEpisodes /\ Len(first) \in Nat
          /\ \A i \in DOMAIN first : Episode(first[i])
          /\ g \in Seq(DOMAIN turns) /\ g # << >> /\ Last(g) = t
          /\ Started(g) <= Ended(g)
          /\ \A u \in ToSet(g) : Terminal(u) => u = t
          /\ \A j \in 1..n : rows[j] \in ToSet(g) \/ Covered(first, rows[j])
        BY <2>1 DEF HalfHolds
    <2>3. \E j \in 1..n : rows[j] = Last(g)
        <3>1. n \in 1..n
            OBVIOUS
        <3> QED BY <2>2, <3>1
    <2>4. CASE ~Terminal(t) \/ Len(first) >= MaxEpisodes
        <3> DEFINE next == [closed |-> first, going |-> g]
        <3>1. Assembled(acc, t) = next
            BY <1>1, <1>4, <2>4
        <3>2. next.closed = first /\ next.going = g
            OBVIOUS
        <3>3. Len(first) < MaxEpisodes => ~Terminal(t)
            BY <1>2, <2>2, <2>4
        <3> HIDE DEF next
        <3>4. Holds(rows, n, next)
            BY <2>2, <2>3, <3>2, <3>3 DEF Holds
        <3> QED BY <3>1, <3>4
    <2>5. CASE ~(~Terminal(t) \/ Len(first) >= MaxEpisodes)
        <3> DEFINE closed == Append(first, g)
                   next == [closed |-> closed, going |-> << >>]
        <3>1. Assembled(acc, t) = next
            BY <1>1, <1>4, <2>5
        <3>2. next.closed = closed /\ next.going = << >>
            OBVIOUS
        <3>3. Episode(g)
            BY <2>2 DEF Episode
        <3>4. /\ closed \in Seq(Seq(DOMAIN turns)) /\ Len(closed) = Len(first) + 1
              /\ \A i \in DOMAIN closed : Episode(closed[i])
              /\ \A u : Covered(first, u) \/ u \in ToSet(g) => Covered(closed, u)
            BY <2>2, <3>3, EpisodeClosed
        <3>5. Len(closed) <= MaxEpisodes
            BY <1>2, <2>2, <2>5, <3>4
        <3>6. << >> \in Seq(DOMAIN turns) /\ ToSet(<< >>) = {}
            BY DEF ToSet
        <3> HIDE DEF next, closed
        <3>7. Holds(rows, n, next)
            BY <2>2, <3>2, <3>4, <3>5, <3>6 DEF Holds
        <3> QED BY <3>1, <3>7
    <2> QED BY <2>4, <2>5
<1> QED BY <1>3, <1>4

\* assemble_episodes: an end of a task is read within the limits, or it is
\* the last turn of an episode.
LEMMA EpisodesHold ==
    ASSUME InTime, NEW since \in Nat
    PROVE  /\ Episodes(since) \in Seq(Seq(DOMAIN turns))
           /\ \A i \in DOMAIN Episodes(since) : Episode(Episodes(since)[i])
           /\ \/ Len(Rows(since)) = MaxEpisodes * MaxEpisodeTurns
              \/ Len(Episodes(since)) = MaxEpisodes
              \/ \A t \in After(since) : Terminal(t) => Covered(Episodes(since), t)
<1> DEFINE rows == Rows(since)
           acc == AssembledBy(rows)
           N == Len(rows)
<1>1. /\ rows \in Seq(DOMAIN turns)
      /\ \A i, j \in DOMAIN rows : i < j => Before(rows[i], rows[j])
      /\ \/ N = MaxEpisodes * MaxEpisodeTurns
         \/ \A t \in After(since) : \E i \in DOMAIN rows : rows[i] = t
    BY RowsOrdered
<1> HIDE DEF rows
<1>2. /\ acc[0] = [closed |-> << >>, going |-> << >>]
      /\ \A n \in 1..N : acc[n] = Assembled(acc[n - 1], rows[n])
    BY <1>1, AssembledSteps
<1> HIDE DEF acc
<1>3. N \in Nat /\ DOMAIN rows = 1..N
    BY <1>1
<1> HIDE DEF N
<1>4. Holds(rows, 0, acc[0])
    <2>1. acc[0].closed = << >> /\ acc[0].going = << >>
        BY <1>2
    <2>2. /\ << >> \in Seq(DOMAIN turns) /\ << >> \in Seq(Seq(DOMAIN turns))
          /\ ToSet(<< >>) = {} /\ MaxEpisodes \in Nat /\ 1..0 = {}
        BY EpisodeBoundsAssumption DEF ToSet
    <2> QED BY <2>1, <2>2 DEF Holds
<1>5. \A n \in 0..N : Holds(rows, n, acc[n])
    <2> DEFINE Bad == { n \in 0..N : ~Holds(rows, n, acc[n]) }
    <2>1. SUFFICES ASSUME Bad # {} PROVE FALSE
        OBVIOUS
    <2>2. Bad \subseteq Nat
        BY <1>3
    <2>3. PICK m \in Bad : \A x \in Bad : m <= x
        BY <2>1, <2>2, MinOfNats
    <2>4. m # 0 /\ m \in 1..N /\ m - 1 \in 0..N
        BY <1>3, <1>4, <2>3
    <2>5. Holds(rows, m - 1, acc[m - 1])
        BY <2>2, <2>3, <2>4
    <2>6. Holds(rows, m, Assembled(acc[m - 1], rows[m]))
        BY <1>1, <2>4, <2>5, HoldsStep DEF N
    <2> QED BY <1>2, <2>3, <2>4, <2>6
<1>6. Holds(rows, N, acc[N]) /\ Episodes(since) = acc[N].closed
    BY <1>3, <1>5 DEF Episodes, rows, acc, N
<1>7. ASSUME N # MaxEpisodes * MaxEpisodeTurns, Len(Episodes(since)) # MaxEpisodes,
             NEW t \in After(since), Terminal(t)
      PROVE  Covered(Episodes(since), t)
    <2>1. Len(acc[N].closed) < MaxEpisodes
        BY <1>6, <1>7, EpisodeBoundsAssumption DEF Holds
    <2>2. PICK i \in 1..N : rows[i] = t
        BY <1>1, <1>3, <1>7
    <2> QED BY <1>6, <1>7, <2>1, <2>2 DEF Holds
<1> QED BY <1>6, <1>7 DEF Holds, N, rows

\* advance_watermark goes past an episode only when it is decided, with all
\* before it, and never past the last one read.
LEMMA AdvanceSafe ==
    ASSUME InTime, NEW eps \in Seq(Seq(DOMAIN turns)), NEW done, NEW current \in Nat,
           \A i \in DOMAIN eps : Episode(eps[i])
    PROVE  /\ Advance(eps, done, current) \in Nat /\ current <= Advance(eps, done, current)
           /\ \A x \in Nat : x <= Advance(eps, done, current) =>
                \/ x <= current
                \/ /\ \E i \in DOMAIN eps : x <= Ended(eps[i])
                   /\ \A i \in DOMAIN eps : Closing(eps[i]) \notin done => x < Started(eps[i])
<1> DEFINE open == { e \in ToSet(eps) : Closing(e) \notin done }
           starts == { Started(e) : e \in open }
           ends == {current} \cup { Ended(e) : e \in ToSet(eps) }
           upTo == {current, Min(starts) - 1}
<1>1. \A e \in ToSet(eps) : \E i \in DOMAIN eps : eps[i] = e
    BY DEF ToSet
<1>2. \A i \in DOMAIN eps : eps[i] \in ToSet(eps)
    BY DEF ToSet
<1>3. \A e \in ToSet(eps) : /\ Started(e) \in Nat /\ Started(e) # 0 /\ Ended(e) \in Nat
                            /\ Started(e) <= Ended(e)
    <2> SUFFICES ASSUME NEW e \in ToSet(eps)
                 PROVE  /\ Started(e) \in Nat /\ Started(e) # 0 /\ Ended(e) \in Nat
                        /\ Started(e) <= Ended(e)
        OBVIOUS
    <2>1. Episode(e)
        BY <1>1
    <2>2. e \in Seq(DOMAIN turns) /\ e # << >> /\ Started(e) <= Ended(e)
        BY <2>1 DEF Episode
    <2>3. Head(e) \in DOMAIN turns /\ Last(e) \in DOMAIN turns
        BY <2>2 DEF Last
    <2> QED BY <2>2, <2>3, TurnRows DEF Started, Ended
<1>4. Advance(eps, done, current) = IF open # {} THEN Max(upTo) ELSE Max(ends)
    BY DEF Advance
<1>5. CASE open # {}
    <2>1. starts # {} /\ starts \subseteq Nat /\ 0 \notin starts
        BY <1>3, <1>5
    <2>2. Min(starts) \in starts /\ \A s \in starts : Min(starts) <= s
        BY <2>1, MinOfNats
    <2>13. /\ \A s \in starts : \E e \in open : s = Started(e)
           /\ \A e \in open : Started(e) \in starts
        OBVIOUS
    <2> HIDE DEF starts
    <2>3. PICK e \in open : Min(starts) = Started(e)
        BY <2>2, <2>13
    <2>4. \A i \in DOMAIN eps : Closing(eps[i]) \notin done => Min(starts) <= Started(eps[i])
        BY <1>2, <2>2, <2>13
    <2>5. PICK k \in DOMAIN eps : eps[k] = e
        BY <1>1
    <2>6. Min(starts) <= Ended(eps[k]) /\ Ended(eps[k]) \in Nat
        BY <1>3, <2>3, <2>5
    <2>7. Min(starts) \in Nat /\ Min(starts) - 1 \in Nat
        <3>1. Min(starts) \in Nat /\ Min(starts) # 0
            BY <2>1, <2>2
        <3>2. \A x \in Nat : x # 0 => x - 1 \in Nat
            OBVIOUS
        <3> QED BY ONLY <3>1, <3>2
    <2>8. upTo \subseteq Nat /\ upTo # {} /\ IsFiniteSet(upTo)
        <3>1. \A a, b : IsFiniteSet({a} \cup {b})
            BY FS_Singleton, FS_AddElement
        <3>2. \A a, b : {a, b} = {a} \cup {b}
            OBVIOUS
        <3>4. \A a, b : IsFiniteSet({a, b})
            BY ONLY <3>1, <3>2
        <3>3. IsFiniteSet(upTo)
            BY ONLY <3>4, Zenon
        <3> QED BY <2>7, <3>3
    <2>9. Max(upTo) \in upTo /\ \A x \in upTo : x <= Max(upTo)
        BY <2>8, MaxOfFinite
    <2>10. Advance(eps, done, current) = Max(upTo)
        BY <1>4, <1>5
    <2>11. Max(upTo) \in Nat /\ current <= Max(upTo)
        BY <2>8, <2>9
    <2>12. ASSUME NEW x \in Nat, x <= Max(upTo), ~(x <= current)
           PROVE  /\ \E i \in DOMAIN eps : x <= Ended(eps[i])
                  /\ \A i \in DOMAIN eps : Closing(eps[i]) \notin done => x < Started(eps[i])
        <3>1. Max(upTo) = Min(starts) - 1
            BY <2>9, <2>12
        <3>2. x < Min(starts)
            BY <2>7, <2>12, <3>1
        <3>3. x <= Ended(eps[k])
            BY <2>6, <2>7, <3>2
        <3>4. \A i \in DOMAIN eps : Started(eps[i]) \in Nat
            BY <1>2, <1>3
        <3> QED BY <2>4, <2>7, <3>2, <3>3, <3>4
    <2> QED BY <2>10, <2>11, <2>12
<1>6. CASE open = {}
    <2>1. ends \subseteq Nat /\ ends # {}
        BY <1>3
    <2>2. IsFiniteSet(ends)
        <3> DEFINE late == { Ended(e) : e \in ToSet(eps) }
                   end == [i \in DOMAIN eps |-> Ended(eps[i])]
        <3>1. IsFiniteSet(DOMAIN eps)
            <4>1. DOMAIN eps = 1..Len(eps) /\ Len(eps) \in Nat
                OBVIOUS
            <4> QED BY <4>1, FS_Interval
        <3>2. end \in Surjection(DOMAIN eps, late)
            BY <1>1, <1>2 DEF Surjection
        <3>3. IsFiniteSet(late)
            BY <3>1, <3>2, FS_Surjection
        <3>4. ends = late \cup {current}
            OBVIOUS
        <3> QED BY <3>3, <3>4, FS_AddElement
    <2> HIDE DEF ends
    <2>3. Max(ends) \in ends /\ \A x \in ends : x <= Max(ends)
        BY <2>1, <2>2, MaxOfFinite
    <2>4. Advance(eps, done, current) = Max(ends)
        BY <1>4, <1>6
    <2>5. Max(ends) \in Nat /\ current <= Max(ends)
        BY <2>1, <2>3 DEF ends
    <2>6. ASSUME NEW x \in Nat, x <= Max(ends), ~(x <= current)
          PROVE  \E i \in DOMAIN eps : x <= Ended(eps[i])
        <3>1. PICK e \in ToSet(eps) : Max(ends) = Ended(e)
            BY <2>3, <2>6 DEF ends
        <3> QED BY <1>1, <2>6, <3>1
    <2>7. \A i \in DOMAIN eps : Closing(eps[i]) \in done
        BY <1>2, <1>6
    <2> QED BY <2>4, <2>5, <2>6, <2>7
<1> QED BY <1>5, <1>6

-----------------------------------------------------------------------------
\* The invariant of the bank.

CaseRow == [turns : Seq(Nat), run : Nat]
ItemRow == [title : Titles, from : Nat, against : SUBSET Nat, verified : Nat, by : SUBSET Nat]
RunRow == [of : Strategies \cup {"none"}, eps : Seq(Seq(Nat)), todo : SUBSET Nat,
           done : SUBSET Nat, llm : BOOLEAN, made : Nat,
           newCases : SUBSET CaseRow, newItems : SUBSET ItemRow]

BankTypes ==
    /\ InTime /\ run \in RunRow /\ runs \in Nat
    /\ mark \in [Strategies -> Nat]
    /\ \A s \in Strategies : mark[s] < clock
    /\ decided \in [Strategies -> SUBSET Nat] /\ unread \in [Strategies -> SUBSET Nat]
    /\ cases \subseteq CaseRow /\ items \subseteq ItemRow

\* A run has episodes of turns, and distill looks at the owner's alone.
RunHolds ==
    /\ run = NoRun \/ run.of \in Strategies
    /\ \A i \in DOMAIN run.eps : Episode(run.eps[i])
    /\ run.todo \subseteq DOMAIN run.eps
    /\ run.of = "distill" => \A i \in run.todo : Trusted(run.eps[i])

\* An end of a task beyond the watermark is in an episode of the run, was
\* left out at a limit, or came after the run had read.
RunReads ==
    run.of \in Strategies =>
        \A t \in DOMAIN turns : Terminal(t) /\ turns[t].at > mark[run.of] =>
            \/ t \in unread[run.of]
            \/ Covered(run.eps, t)
            \/ \A i \in DOMAIN run.eps : turns[t].at > Ended(run.eps[i])

CasesHold(S) ==
    /\ \A c \in S : c.turns \in Seq(DOMAIN turns) /\ c.turns # << >>
    /\ \A c, d \in S : Closing(c.turns) = Closing(d.turns) => c = d
SeedsHold(S) ==
    \A i \in S : \A t \in {i.from} \cup i.against \cup i.by :
        t \in DOMAIN turns /\ turns[t].session \in OwnersSessions

BankInv ==
    /\ BankTypes /\ RunHolds /\ RunReads /\ EndsKept
    /\ CasesHold(Inserted) /\ SeedsHold(Known)

LEMMA RunFields ==
    ASSUME BankInv
    PROVE  /\ run.todo \subseteq Nat /\ run.todo \subseteq DOMAIN run.eps
           /\ run.eps \in Seq(Seq(Nat)) /\ run.done \subseteq Nat /\ run.made \in Nat
           /\ run.newCases \subseteq CaseRow /\ run.newItems \subseteq ItemRow
           /\ InTime /\ runs \in Nat
           /\ \A s \in Strategies : mark[s] \in Nat
           /\ \A e \in ToSet(run.eps) : Episode(e)
<1>1. \A e \in ToSet(run.eps) : \E i \in DOMAIN run.eps : e = run.eps[i]
    BY DEF ToSet
<1>2. /\ run \in RunRow /\ InTime /\ runs \in Nat
      /\ \A s \in Strategies : mark[s] \in Nat
    BY DEF BankInv, BankTypes
<1>3. \A i \in DOMAIN run.eps : Episode(run.eps[i])
    BY DEF BankInv, RunHolds
<1>4. run.todo \subseteq DOMAIN run.eps
    BY DEF BankInv, RunHolds
<1>5. /\ run.todo \subseteq Nat /\ run.eps \in Seq(Seq(Nat)) /\ run.done \subseteq Nat
      /\ run.made \in Nat /\ run.newCases \subseteq CaseRow /\ run.newItems \subseteq ItemRow
    BY <1>2 DEF RunRow
<1>6. \A e \in ToSet(run.eps) : Episode(e)
    BY <1>1, <1>3
<1> QED BY <1>2, <1>4, <1>5, <1>6

LEMMA EpisodeTurns ==
    ASSUME NEW e, Episode(e)
    PROVE  /\ e \in Seq(DOMAIN turns) /\ e # << >>
           /\ Closing(e) \in DOMAIN turns /\ Closing(e) \in ToSet(e)
BY DEF Episode, Closing, Last, ToSet

LEMMA EpisodeInHand ==
    ASSUME BankInv, NEW e \in ToSet(run.eps), InHand(e)
    PROVE  /\ run.todo # {} /\ Rest \subseteq run.todo /\ run.of \in Strategies
           /\ Episode(e) /\ (run.of = "distill" => Trusted(e))
           /\ Closing(e) \in DOMAIN turns /\ Closing(e) \in ToSet(e) /\ Closing(e) \in Nat
<1>1. run.todo # {} /\ e = run.eps[Min(run.todo)]
    BY DEF InHand
<1>2. Min(run.todo) \in run.todo
    BY <1>1, RunFields, MinOfNats
<1>3. run # NoRun
    BY <1>1 DEF NoRun
<1>4. Episode(e)
    BY RunFields
<1>5. DOMAIN turns \subseteq Nat
    BY RunFields, TurnRows
<1> QED BY <1>1, <1>2, <1>3, <1>4, <1>5, EpisodeTurns DEF BankInv, RunHolds, Rest

\* A step of the run that neither reads turns nor moves a watermark.
LEMMA RunStep ==
    ASSUME BankInv, run.of \in Strategies,
           UNCHANGED <<clock, turns, mark, decided, unread, runs>>,
           run' \in RunRow, run'.of = run.of, run'.eps = run.eps, run'.todo \subseteq run.todo,
           cases' \subseteq CaseRow, items' \subseteq ItemRow,
           CasesHold(cases' \cup run'.newCases), SeedsHold(items' \cup run'.newItems)
    PROVE  BankInv'
<1>1. BankTypes'
    BY DEF BankInv, BankTypes, InTime
<1>2. RunHolds'
    BY DEF BankInv, RunHolds, Episode, Started, Ended, Terminal, Trusted, Closing
<1>3. RunReads'
    BY DEF BankInv, RunReads, Covered, Ended, Terminal
<1>4. EndsKept'
    BY DEF BankInv, EndsKept, Terminal
<1>5. CasesHold(Inserted)'
    BY DEF CasesHold, Inserted, Closing
<1>6. SeedsHold(Known)'
    BY DEF SeedsHold, Known
<1> QED BY <1>1, <1>2, <1>3, <1>4, <1>5, <1>6 DEF BankInv

LEMMA RenewalInv == ASSUME BankInv, Renewal PROVE BankInv'
<1>1. /\ run.newCases \cup run.newItems # {} /\ cases' = Inserted /\ items' = Known
      /\ run' = [run EXCEPT !.newCases = {}, !.newItems = {}]
      /\ UNCHANGED <<clock, turns, mark, decided, unread, runs>>
    BY DEF Renewal
<1>2. run.of \in Strategies
    BY <1>1 DEF BankInv, RunHolds, NoRun
<1>3. /\ run' \in RunRow /\ run'.of = run.of /\ run'.eps = run.eps /\ run'.todo = run.todo
      /\ run'.newCases = {} /\ run'.newItems = {}
    BY <1>1 DEF BankInv, BankTypes, RunRow
<1>4. cases' \subseteq CaseRow /\ items' \subseteq ItemRow
    BY <1>1, RunFields DEF BankInv, BankTypes, Inserted, Known
<1>5. CasesHold(cases' \cup run'.newCases) /\ SeedsHold(items' \cup run'.newItems)
    <2>1. cases' \cup run'.newCases = Inserted /\ items' \cup run'.newItems = Known
        BY <1>1, <1>3
    <2> QED BY <2>1 DEF BankInv
<1> QED BY <1>1, <1>2, <1>3, <1>4, <1>5, RunStep

LEMMA CaseInv ==
    ASSUME BankInv, NEW e \in ToSet(run.eps), NEW keeps \in BOOLEAN, Case(e, keeps)
    PROVE  BankInv'
<1> DEFINE row == [turns |-> e, run |-> runs]
           new == IF Banked(e) \/ ~keeps THEN run.newCases ELSE run.newCases \cup {row}
<1>1. /\ InHand(e)
      /\ run' = [run EXCEPT !.todo = Rest, !.done = @ \cup {Closing(e)}, !.newCases = new]
      /\ UNCHANGED <<clock, turns, mark, cases, items, decided, unread, runs>>
    BY DEF Case, bank
<1>2. /\ Rest \subseteq run.todo /\ run.of \in Strategies /\ Episode(e)
      /\ Closing(e) \in DOMAIN turns /\ Closing(e) \in ToSet(e) /\ Closing(e) \in Nat
      /\ e \in Seq(DOMAIN turns) /\ e # << >>
    BY <1>1, EpisodeInHand, EpisodeTurns
<1>3. row \in CaseRow /\ row.turns = e
    <2>1. e \in Seq(Nat)
        BY <1>2, RunFields, TurnRows
    <2> QED BY <2>1, RunFields DEF CaseRow
<1>4. \/ new = run.newCases
      \/ new = run.newCases \cup {row} /\ ~Banked(e)
    OBVIOUS
<1> HIDE DEF new, row
<1>5. new \subseteq CaseRow
    BY <1>3, <1>4, RunFields
<1>6. /\ run' \in RunRow /\ run'.of = run.of /\ run'.eps = run.eps /\ run'.todo = Rest
      /\ run'.newCases = new /\ run'.newItems = run.newItems
    <2>1. Rest \subseteq Nat
        BY <1>2, RunFields
    <2> QED BY <1>1, <1>2, <1>5, <2>1 DEF BankInv, BankTypes, RunRow
<1>7. CasesHold(cases' \cup run'.newCases)
    <2>1. CASE new = run.newCases
        BY <1>1, <1>6, <2>1 DEF BankInv, Inserted
    <2>2. CASE new = run.newCases \cup {row} /\ ~Banked(e)
        <3>1. cases' \cup run'.newCases = Inserted \cup {row}
            BY <1>1, <1>6, <2>2 DEF Inserted
        <3>2. \A c \in Inserted : Closing(e) \notin ToSet(c.turns)
            BY <2>2 DEF Banked
        <3>3. \A c \in Inserted : Closing(c.turns) \in ToSet(c.turns)
            BY DEF BankInv, CasesHold, Closing, Last, ToSet
        <3>4. \A c \in Inserted : Closing(c.turns) # Closing(row.turns)
            BY <1>3, <3>2, <3>3
        <3> QED BY <1>2, <1>3, <3>1, <3>4 DEF BankInv, CasesHold
    <2> QED BY <1>4, <2>1, <2>2
<1>8. SeedsHold(items' \cup run'.newItems)
    BY <1>1, <1>6 DEF BankInv, Known
<1>9. cases' \subseteq CaseRow /\ items' \subseteq ItemRow
    BY <1>1 DEF BankInv, BankTypes
<1> QED BY <1>1, <1>2, <1>5, <1>6, <1>7, <1>8, <1>9, RunStep

\* A step of distill that inserts nothing; what it inserted may be committed.
LEMMA DistillStep ==
    ASSUME BankInv, run.of \in Strategies,
           UNCHANGED <<clock, turns, mark, decided, unread, runs>>,
           run' \in RunRow, run'.of = run.of, run'.eps = run.eps, run'.todo \subseteq run.todo,
           \/ UNCHANGED <<cases, items>> /\ run'.newCases = run.newCases
              /\ run'.newItems = run.newItems
           \/ cases' = Inserted /\ items' = Known /\ run'.newCases = {} /\ run'.newItems = {}
    PROVE  BankInv'
<1>1. cases' \subseteq CaseRow /\ items' \subseteq ItemRow
    BY RunFields DEF BankInv, BankTypes, Inserted, Known
<1>2. cases' \cup run'.newCases = Inserted /\ items' \cup run'.newItems = Known
    BY DEF Inserted, Known
<1>3. CasesHold(cases' \cup run'.newCases) /\ SeedsHold(items' \cup run'.newItems)
    BY <1>2 DEF BankInv
<1> QED BY <1>1, <1>3, RunStep

LEMMA DefersInv ==
    ASSUME BankInv, NEW e \in ToSet(run.eps), Defers(e) PROVE BankInv'
<1>1. /\ InHand(e) /\ run' = [run EXCEPT !.todo = Rest, !.llm = FALSE]
      /\ UNCHANGED <<clock, turns, mark, cases, items, decided, unread, runs>>
    BY DEF Defers, bank
<1>2. Rest \subseteq run.todo /\ run.of \in Strategies /\ Rest \subseteq Nat
    BY <1>1, EpisodeInHand, RunFields
<1>3. /\ run' \in RunRow /\ run'.of = run.of /\ run'.eps = run.eps /\ run'.todo = Rest
      /\ run'.newCases = run.newCases /\ run'.newItems = run.newItems
    BY <1>1, <1>2 DEF BankInv, BankTypes, RunRow
<1> QED BY <1>1, <1>2, <1>3, DistillStep

LEMMA NothingToLearnInv ==
    ASSUME BankInv, NEW e \in ToSet(run.eps), NothingToLearn(e) PROVE BankInv'
<1>1. /\ InHand(e)
      /\ run' = [run EXCEPT !.todo = Rest, !.done = @ \cup {Closing(e)}, !.made = @ + 0]
      /\ UNCHANGED <<clock, turns, mark, cases, items, decided, unread, runs>>
    BY DEF NothingToLearn, Decide, bank
<1>2. Rest \subseteq run.todo /\ run.of \in Strategies /\ Rest \subseteq Nat /\ Closing(e) \in Nat
    BY <1>1, EpisodeInHand, RunFields
<1>3. run.made + 0 \in Nat
    BY RunFields
<1>4. /\ run' \in RunRow /\ run'.of = run.of /\ run'.eps = run.eps /\ run'.todo = Rest
      /\ run'.newCases = run.newCases /\ run'.newItems = run.newItems
    BY <1>1, <1>2, <1>3 DEF BankInv, BankTypes, RunRow
<1> QED BY <1>1, <1>2, <1>4, DistillStep

LEMMA RejectsProposalInv ==
    ASSUME BankInv, NEW e \in ToSet(run.eps), RejectsProposal(e) PROVE BankInv'
<1>1. /\ InHand(e) /\ cases' = Inserted /\ items' = Known
      /\ run' = [run EXCEPT !.todo = Rest, !.done = @ \cup {Closing(e)}, !.made = @ + 1,
                            !.newCases = {}, !.newItems = {}]
      /\ UNCHANGED <<clock, turns, mark, decided, unread, runs>>
    BY DEF RejectsProposal
<1>2. Rest \subseteq run.todo /\ run.of \in Strategies /\ Rest \subseteq Nat /\ Closing(e) \in Nat
    BY <1>1, EpisodeInHand, RunFields
<1>3. run.made + 1 \in Nat
    BY RunFields
<1>4. /\ run' \in RunRow /\ run'.of = run.of /\ run'.eps = run.eps /\ run'.todo = Rest
      /\ run'.newCases = {} /\ run'.newItems = {}
    BY <1>1, <1>2, <1>3 DEF BankInv, BankTypes, RunRow
<1> QED BY <1>1, <1>2, <1>4, DistillStep

LEMMA ReinforcesInv ==
    ASSUME BankInv, NEW e \in ToSet(run.eps), NEW i \in Known, Reinforces(e, i) PROVE BankInv'
<1> DEFINE more == [i EXCEPT !.verified = @ + 1, !.by = @ \cup {Closing(e)}]
<1>1. /\ InHand(e) /\ run.of = "distill" /\ cases' = Inserted
      /\ items' = (Known \ {i}) \cup {more}
      /\ run' = [run EXCEPT !.todo = Rest, !.done = @ \cup {Closing(e)},
                            !.newCases = {}, !.newItems = {}]
      /\ UNCHANGED <<clock, turns, mark, decided, unread, runs>>
    BY DEF Reinforces, Judging
<1>2. /\ Rest \subseteq run.todo /\ run.of \in Strategies /\ Rest \subseteq Nat
      /\ Closing(e) \in Nat /\ Closing(e) \in DOMAIN turns /\ Trusted(e)
    BY <1>1, EpisodeInHand, RunFields
<1>3. Known \subseteq ItemRow /\ Inserted \subseteq CaseRow
    BY RunFields DEF BankInv, BankTypes, Known, Inserted
<1>4. i.verified + 1 \in Nat
    BY <1>3 DEF ItemRow
<1>5. more \in ItemRow /\ more.from = i.from /\ more.against = i.against
      /\ more.by = i.by \cup {Closing(e)}
    BY <1>2, <1>3, <1>4 DEF ItemRow
<1> HIDE DEF more
<1>6. /\ run' \in RunRow /\ run'.of = run.of /\ run'.eps = run.eps /\ run'.todo = Rest
      /\ run'.newCases = {} /\ run'.newItems = {}
    BY <1>1, <1>2 DEF BankInv, BankTypes, RunRow
<1>7. CasesHold(cases' \cup run'.newCases)
    <2>1. cases' \cup run'.newCases = Inserted
        BY <1>1, <1>6
    <2> QED BY <2>1 DEF BankInv
<1>8. SeedsHold(items' \cup run'.newItems)
    <2>1. SeedsHold(Known)
        BY DEF BankInv
    <2>2. \A t \in {more.from} \cup more.against \cup more.by :
            t \in DOMAIN turns /\ turns[t].session \in OwnersSessions
        BY <1>2, <1>5, <2>1 DEF SeedsHold, Trusted
    <2>3. items' \cup run'.newItems = (Known \ {i}) \cup {more}
        BY <1>1, <1>6
    <2> QED BY <2>1, <2>2, <2>3 DEF SeedsHold
<1>9. cases' \subseteq CaseRow /\ items' \subseteq ItemRow
    BY <1>1, <1>3, <1>5
<1> QED BY <1>1, <1>2, <1>6, <1>7, <1>8, <1>9, RunStep

LEMMA LearnsInv ==
    ASSUME BankInv, NEW e \in ToSet(run.eps), NEW title \in Titles,
           NEW p \in { q \in Pool : Contrasts(e, q) } \cup {<< >>}, Learns(e, title, p)
    PROVE  BankInv'
<1> DEFINE against == IF p = << >> THEN {} ELSE {Closing(p)}
           row == [title |-> title, from |-> Closing(e), against |-> against,
                   verified |-> 0, by |-> {}]
<1>1. /\ InHand(e) /\ run.of = "distill"
      /\ run' = [run EXCEPT !.todo = Rest, !.done = @ \cup {Closing(e)}, !.made = @ + 1,
                            !.newItems = @ \cup {row}]
      /\ UNCHANGED <<clock, turns, mark, cases, items, decided, unread, runs>>
    BY DEF Learns, Judging, bank
<1>2. /\ Rest \subseteq run.todo /\ run.of \in Strategies /\ Rest \subseteq Nat
      /\ Closing(e) \in Nat /\ Closing(e) \in DOMAIN turns /\ Trusted(e)
    BY <1>1, EpisodeInHand, RunFields
<1>3. \A t \in against : t \in DOMAIN turns /\ turns[t].session \in OwnersSessions
    <2>1. CASE p = << >>
        BY <2>1
    <2>2. CASE p # << >>
        <3>1. p \in ToSet(run.eps) /\ Trusted(p)
            BY <2>2 DEF Pool
        <3>2. Closing(p) \in DOMAIN turns
            BY <3>1, RunFields, EpisodeTurns
        <3> QED BY <2>2, <3>1, <3>2 DEF Trusted
    <2> QED BY <2>1, <2>2
<1>4. against \subseteq Nat
    BY <1>3, RunFields, TurnRows
<1> HIDE DEF against
<1>5. row \in ItemRow /\ row.from = Closing(e) /\ row.against = against /\ row.by = {}
    BY <1>2, <1>4 DEF ItemRow
<1> HIDE DEF row
<1>6. run.made + 1 \in Nat /\ run.newItems \cup {row} \subseteq ItemRow
    BY <1>5, RunFields
<1>7. /\ run' \in RunRow /\ run'.of = run.of /\ run'.eps = run.eps /\ run'.todo = Rest
      /\ run'.newCases = run.newCases /\ run'.newItems = run.newItems \cup {row}
    BY <1>1, <1>2, <1>6 DEF BankInv, BankTypes, RunRow
<1>8. CasesHold(cases' \cup run'.newCases)
    BY <1>1, <1>7 DEF BankInv, Inserted
<1>9. SeedsHold(items' \cup run'.newItems)
    <2>1. items' \cup run'.newItems = Known \cup {row}
        BY <1>1, <1>7 DEF Known
    <2>2. \A t \in {row.from} \cup row.against \cup row.by :
            t \in DOMAIN turns /\ turns[t].session \in OwnersSessions
        BY <1>2, <1>3, <1>5 DEF Trusted
    <2> QED BY <2>1, <2>2 DEF BankInv, SeedsHold
<1>10. cases' \subseteq CaseRow /\ items' \subseteq ItemRow
    BY <1>1 DEF BankInv, BankTypes
<1> QED BY <1>1, <1>2, <1>7, <1>8, <1>9, <1>10, RunStep

LEMMA InterruptedInv == ASSUME BankInv, Interrupted PROVE BankInv'
<1>1. /\ run.todo # {} /\ run' = [run EXCEPT !.todo = {}]
      /\ UNCHANGED <<clock, turns, mark, cases, items, decided, unread, runs>>
    BY DEF Interrupted, bank
<1>2. run.of \in Strategies
    BY <1>1 DEF BankInv, RunHolds, NoRun
<1>3. /\ run' \in RunRow /\ run'.of = run.of /\ run'.eps = run.eps /\ run'.todo = {}
      /\ run'.newCases = run.newCases /\ run'.newItems = run.newItems
    BY <1>1 DEF BankInv, BankTypes, RunRow
<1> QED BY <1>1, <1>2, <1>3, DistillStep

LEMMA NoRunType ==
    /\ NoRun \in RunRow /\ NoRun.of = "none" /\ NoRun.eps = << >> /\ NoRun.todo = {}
    /\ NoRun.newCases = {} /\ NoRun.newItems = {} /\ DOMAIN NoRun.eps = {}
    /\ "none" \notin Strategies
BY DEF NoRun, RunRow, Strategies

\* Without a run only the database and the watermarks count.
LEMMA RunEnds ==
    ASSUME BankTypes', run' = NoRun, EndsKept', CasesHold(cases)', SeedsHold(items)'
    PROVE  BankInv'
<1>1. RunHolds' /\ RunReads'
    BY NoRunType DEF RunHolds, RunReads
<1>2. Inserted' = cases' /\ Known' = items'
    BY NoRunType DEF Inserted, Known
<1> QED BY <1>1, <1>2 DEF BankInv, CasesHold, SeedsHold, Closing

LEMMA FailsInv == ASSUME BankInv, Fails PROVE BankInv'
<1>1. run' = NoRun /\ UNCHANGED <<clock, turns, mark, cases, items, decided, unread, runs>>
    BY DEF Fails, bank
<1>2. BankTypes'
    BY <1>1, NoRunType DEF BankInv, BankTypes, InTime
<1>3. EndsKept'
    BY <1>1 DEF BankInv, EndsKept, Terminal
<1>4. CasesHold(cases)'
    BY <1>1 DEF BankInv, CasesHold, Inserted, Closing
<1>5. SeedsHold(items)'
    BY <1>1 DEF BankInv, SeedsHold, Known
<1> QED BY <1>1, <1>2, <1>3, <1>4, <1>5, RunEnds

LEMMA CloseInv == ASSUME BankInv, Close PROVE BankInv'
<1> DEFINE s == run.of
           to == Advance(run.eps, run.done, mark[s])
<1>1. /\ run # NoRun /\ run' = NoRun
      /\ mark' = [mark EXCEPT ![s] = to]
      /\ cases' = Inserted /\ items' = Known
      /\ decided' = [decided EXCEPT ![s] = @ \cup run.done]
      /\ UNCHANGED <<clock, turns, unread, runs>>
    BY DEF Close
<1>2. s \in Strategies
    BY <1>1 DEF BankInv, RunHolds
<1>3. mark[s] \in Nat /\ run.done \subseteq Nat /\ InTime
    BY <1>2, RunFields
<1>4. run.eps \in Seq(Seq(DOMAIN turns)) /\ \A i \in DOMAIN run.eps : Episode(run.eps[i])
    <2>1. \A i \in DOMAIN run.eps : Episode(run.eps[i])
        BY DEF BankInv, RunHolds
    <2>2. \A i \in DOMAIN run.eps : run.eps[i] \in Seq(DOMAIN turns)
        BY <2>1 DEF Episode
    <2>3. run.eps \in Seq(Seq(Nat))
        BY RunFields
    <2>4. run.eps \in Seq(Seq(DOMAIN turns))
        <3>1. \A S, T, q : q \in Seq(S) /\ (\A i \in DOMAIN q : q[i] \in T) => q \in Seq(T)
            OBVIOUS
        <3> QED BY ONLY <2>2, <2>3, <3>1, Zenon
    <2> QED BY <2>1, <2>4
<1>5. /\ to \in Nat /\ mark[s] <= to
      /\ \A x \in Nat : x <= to =>
            \/ x <= mark[s]
            \/ /\ \E i \in DOMAIN run.eps : x <= Ended(run.eps[i])
               /\ \A i \in DOMAIN run.eps :
                    Closing(run.eps[i]) \notin run.done => x < Started(run.eps[i])
    BY <1>3, <1>4, AdvanceSafe
<1> HIDE DEF to
<1>6. \A i \in DOMAIN run.eps :
            /\ Started(run.eps[i]) \in Nat /\ Ended(run.eps[i]) \in Nat
            /\ Started(run.eps[i]) <= Ended(run.eps[i]) /\ Ended(run.eps[i]) < clock
    <2> SUFFICES ASSUME NEW i \in DOMAIN run.eps
                 PROVE  /\ Started(run.eps[i]) \in Nat /\ Ended(run.eps[i]) \in Nat
                        /\ Started(run.eps[i]) <= Ended(run.eps[i]) /\ Ended(run.eps[i]) < clock
        OBVIOUS
    <2>1. Episode(run.eps[i])
        BY <1>4
    <2>2. Head(run.eps[i]) \in DOMAIN turns /\ Last(run.eps[i]) \in DOMAIN turns
        BY <2>1, EpisodeTurns DEF Closing
    <2>3. Started(run.eps[i]) \in Nat /\ Ended(run.eps[i]) \in Nat /\ Ended(run.eps[i]) < clock
        BY <1>3, <2>2, TurnRows DEF Started, Ended, InTime
    <2> QED BY <2>1, <2>3 DEF Episode
<1>7. to < clock
    <2>1. clock \in Nat /\ mark[s] < clock
        BY <1>2 DEF BankInv, BankTypes, InTime
    <2>2. to <= mark[s] \/ \E i \in DOMAIN run.eps : to <= Ended(run.eps[i])
        BY <1>5
    <2> QED BY <1>3, <1>5, <1>6, <2>1, <2>2
<1>8. BankTypes'
    <2>1. mark' \in [Strategies -> Nat] /\ \A z \in Strategies : mark'[z] < clock
        BY <1>1, <1>2, <1>5, <1>7 DEF BankInv, BankTypes
    <2>2. decided' \in [Strategies -> SUBSET Nat]
        BY <1>1, <1>2, <1>3 DEF BankInv, BankTypes
    <2>3. cases' \subseteq CaseRow /\ items' \subseteq ItemRow
        BY <1>1, RunFields DEF BankInv, BankTypes, Inserted, Known
    <2> QED BY <1>1, <2>1, <2>2, <2>3, NoRunType DEF BankInv, BankTypes, InTime
<1>9. EndsKept'
    <2> SUFFICES ASSUME NEW z \in Strategies, NEW t \in DOMAIN turns, Terminal(t),
                        turns[t].at <= mark'[z]
                 PROVE  t \in decided'[z] \cup unread[z]
        BY <1>1 DEF EndsKept, Terminal
    <2>1. turns[t].at \in Nat
        BY <1>3, TurnRows
    <2>2. decided[z] \subseteq decided'[z]
        BY <1>1, <1>2 DEF BankInv, BankTypes
    <2>3. CASE turns[t].at <= mark[z]
        BY <2>2, <2>3 DEF BankInv, EndsKept
    <2>4. CASE ~(turns[t].at <= mark[z])
        <3>1. z = s
            BY <1>1, <1>2, <2>4 DEF BankInv, BankTypes
        <3>2. mark'[s] = to /\ decided'[s] = decided[s] \cup run.done
            BY <1>1, <1>2 DEF BankInv, BankTypes
        <3>3. /\ \E i \in DOMAIN run.eps : turns[t].at <= Ended(run.eps[i])
              /\ \A i \in DOMAIN run.eps :
                    Closing(run.eps[i]) \notin run.done => turns[t].at < Started(run.eps[i])
            BY <1>5, <2>1, <2>4, <3>1, <3>2
        <3>4. ~ \A i \in DOMAIN run.eps : turns[t].at > Ended(run.eps[i])
            BY <1>6, <2>1, <3>3
        <3>5. turns[t].at > mark[s]
            BY <1>3, <2>1, <2>4, <3>1
        <3>6. t \in unread[s] \/ Covered(run.eps, t)
            BY <1>2, <3>4, <3>5 DEF BankInv, RunReads
        <3>7. CASE Covered(run.eps, t)
            <4>1. PICK i \in DOMAIN run.eps : t \in ToSet(run.eps[i])
                BY <3>7 DEF Covered
            <4>2. t = Last(run.eps[i])
                BY <1>4, <4>1 DEF Episode
            <4>3. Closing(run.eps[i]) \in run.done
                BY <1>6, <3>3, <4>2 DEF Ended, Closing
            <4> QED BY <3>1, <3>2, <4>2, <4>3 DEF Closing
        <3> QED BY <3>1, <3>6, <3>7
    <2> QED BY <2>3, <2>4
<1>10. CasesHold(cases)'
    BY <1>1 DEF BankInv, CasesHold, Closing
<1>11. SeedsHold(items)'
    BY <1>1 DEF BankInv, SeedsHold
<1> QED BY <1>1, <1>8, <1>9, <1>10, <1>11, RunEnds

LEMMA OpenInv == ASSUME BankInv, NEW s \in Strategies, Open(s) PROVE BankInv'
<1> DEFINE since == mark[s]
           eps == Episodes(since)
           rows == Rows(since)
           mine == { i \in DOMAIN eps : s = "distill" => Trusted(eps[i]) }
           taken == { Closing(eps[i]) : i \in DOMAIN eps \ mine }
           full == Len(rows) = MaxEpisodes * MaxEpisodeTurns \/ Len(eps) = MaxEpisodes
           left == After(since) \ UNION { ToSet(e) : e \in ToSet(eps) }
<1>1. /\ run = NoRun
      /\ run' = [NoRun EXCEPT !.of = s, !.eps = eps, !.todo = mine, !.done = taken]
      /\ unread' = IF full THEN [unread EXCEPT ![s] = @ \cup left] ELSE unread
      /\ runs' = runs + 1
      /\ UNCHANGED <<clock, turns, mark, cases, items, decided>>
    BY DEF Open, bank
<1>2. InTime /\ since \in Nat /\ runs \in Nat /\ runs + 1 \in Nat
    BY RunFields
<1>3. /\ eps \in Seq(Seq(DOMAIN turns))
      /\ \A i \in DOMAIN eps : Episode(eps[i])
      /\ full \/ \A t \in After(since) : Terminal(t) => Covered(eps, t)
    BY <1>2, EpisodesHold
<1>4. /\ mine \subseteq DOMAIN eps /\ DOMAIN eps \subseteq Nat
      /\ s = "distill" => \A i \in mine : Trusted(eps[i])
    BY <1>3
<1>5. left \subseteq DOMAIN turns /\ left \subseteq Nat
    <2>1. After(since) \subseteq DOMAIN turns
        BY DEF After
    <2>2. left \subseteq After(since)
        OBVIOUS
    <2> QED BY <1>2, <2>1, <2>2, TurnRows
<1>6. \A t \in After(since) : Covered(eps, t) \/ t \in left
    <2> SUFFICES ASSUME NEW t \in After(since), t \notin left PROVE Covered(eps, t)
        OBVIOUS
    <2>1. PICK e \in ToSet(eps) : t \in ToSet(e)
        OBVIOUS
    <2>2. PICK i \in DOMAIN eps : eps[i] = e
        BY DEF ToSet
    <2> QED BY <2>1, <2>2 DEF Covered
<1>7. taken \subseteq Nat
    <2> SUFFICES ASSUME NEW i \in DOMAIN eps PROVE Closing(eps[i]) \in Nat
        OBVIOUS
    <2>1. Closing(eps[i]) \in DOMAIN turns
        BY <1>3, EpisodeTurns
    <2> QED BY <1>2, <2>1, TurnRows
<1>8. full \in BOOLEAN
    OBVIOUS
<1> HIDE DEF eps, rows, mine, taken, full, left, since
<1>9. /\ run' \in RunRow /\ run'.of = s /\ run'.eps = eps /\ run'.todo = mine
      /\ run'.newCases = {} /\ run'.newItems = {}
    <2>1. eps \in Seq(Seq(Nat)) /\ mine \subseteq Nat
        BY <1>2, <1>3, <1>4, TurnRows
    <2> QED BY <1>1, <1>7, <2>1 DEF NoRun, RunRow
<1>10. /\ unread' \in [Strategies -> SUBSET Nat]
       /\ \A z \in Strategies : unread[z] \subseteq unread'[z]
       /\ full => left \subseteq unread'[s]
    BY <1>1, <1>5 DEF BankInv, BankTypes
<1>11. BankTypes'
    BY <1>1, <1>2, <1>9, <1>10 DEF BankInv, BankTypes, InTime
<1>12. RunHolds'
    <2>1. ASSUME NEW e PROVE (Episode(e) => Episode(e)') /\ (Trusted(e) => Trusted(e)')
        BY <1>1 DEF Episode, Started, Ended, Terminal, Trusted, Closing
    <2>2. /\ run'.of \in Strategies /\ run'.todo \subseteq DOMAIN run'.eps
          /\ \A i \in DOMAIN run'.eps : Episode(eps[i]) /\ run'.eps[i] = eps[i]
          /\ run'.of = "distill" => \A i \in run'.todo : Trusted(eps[i])
        BY <1>3, <1>4, <1>9
    <2> QED BY <2>1, <2>2 DEF RunHolds
<1>13. RunReads'
    <2> SUFFICES ASSUME NEW t \in DOMAIN turns, Terminal(t), turns[t].at > since
                 PROVE  t \in unread'[s] \/ Covered(eps, t)
        BY <1>1, <1>9 DEF RunReads, Terminal, Covered, Ended, since
    <2>1. t \in After(since)
        BY DEF After
    <2> QED BY <1>3, <1>6, <1>10, <2>1
<1>14. EndsKept'
    BY <1>1, <1>10 DEF BankInv, EndsKept, Terminal
<1>15. CasesHold(Inserted)'
    BY <1>1, <1>9 DEF BankInv, CasesHold, Inserted, Closing
<1>16. SeedsHold(Known)'
    BY <1>1, <1>9 DEF BankInv, SeedsHold, Known
<1> QED BY <1>11, <1>12, <1>13, <1>14, <1>15, <1>16 DEF BankInv

LEMMA TurnInv ==
    ASSUME BankInv, NEW session \in Sessions, NEW label \in EndLabels, NEW pause \in BOOLEAN,
           Turn(session, label, pause)
    PROVE  BankInv'
<1> DEFINE at == IF pause THEN clock + Gap ELSE clock
           row == [session |-> session, at |-> at, label |-> label]
           n == Len(turns) + 1
<1>1. /\ turns' = Append(turns, row) /\ clock' = at + 1
      /\ UNCHANGED <<mark, run, cases, items, decided, unread, runs>>
    BY DEF Turn, bank
<1>2. InTime /\ clock \in Nat \ {0} /\ turns \in Seq(TurnRow) /\ Len(turns) \in Nat
    BY RunFields DEF InTime
<1>3. at \in Nat \ {0} /\ clock <= at
    BY <1>2, EpisodeBoundsAssumption
<1> HIDE DEF at
<1>4. row \in TurnRow /\ row.at = at
    BY <1>3 DEF TurnRow
<1> HIDE DEF row
<1>5. /\ turns' \in Seq(TurnRow) /\ DOMAIN turns' = 1..n /\ turns'[n] = row
      /\ DOMAIN turns = 1..Len(turns) /\ 1..n = 1..Len(turns) \cup {n}
      /\ \A t \in 1..Len(turns) : turns'[t] = turns[t]
    BY <1>1, <1>2, <1>4
<1>6. \A t \in DOMAIN turns : t \in DOMAIN turns' /\ turns'[t] = turns[t]
    BY <1>5
<1>7. \A t \in DOMAIN turns' : t \in DOMAIN turns \/ t = n
    BY <1>5
<1>8. \A t \in DOMAIN turns : turns[t].at \in Nat /\ turns[t].at < clock
    BY <1>2, TurnRows DEF InTime
<1>9. InTime'
    <2>1. \A t \in 1..n : turns'[t].at < clock'
        BY <1>1, <1>2, <1>3, <1>4, <1>5, <1>8
    <2>2. ASSUME NEW t \in 1..n, NEW u \in 1..n, t < u PROVE turns'[t].at < turns'[u].at
        <3>1. t \in DOMAIN turns
            BY <1>2, <1>5, <2>2
        <3>2. CASE u = n
            BY <1>2, <1>3, <1>4, <1>5, <1>8, <3>1, <3>2
        <3>3. CASE u \in DOMAIN turns
            BY <1>2, <1>6, <2>2, <3>1, <3>3 DEF InTime
        <3> QED BY <1>5, <3>2, <3>3
    <2>3. clock' \in Nat \ {0}
        BY <1>1, <1>3
    <2> QED BY <1>5, <2>1, <2>2, <2>3 DEF InTime
<1>10. \A z \in Strategies : mark[z] \in Nat /\ mark[z] < clock
    BY RunFields DEF BankInv, BankTypes
<1>11. BankTypes'
    <2>1. \A z \in Strategies : mark'[z] < clock'
        BY <1>1, <1>2, <1>3, <1>10
    <2> QED BY <1>1, <1>9, <2>1 DEF BankInv, BankTypes
<1>12. ASSUME NEW e, Episode(e)
       PROVE  Episode(e)' /\ Started(e)' = Started(e) /\ Ended(e)' = Ended(e)
              /\ (Trusted(e) => Trusted(e)') /\ Ended(e) < clock
    <2>1. e \in Seq(DOMAIN turns) /\ e # << >> /\ Last(e) \in DOMAIN turns
        BY <1>12, EpisodeTurns DEF Closing
    <2>2. Head(e) \in DOMAIN turns /\ \A t \in ToSet(e) : t \in DOMAIN turns
        BY <2>1 DEF ToSet
    <2>3. Started(e)' = Started(e) /\ Ended(e)' = Ended(e)
        BY <1>6, <2>1, <2>2 DEF Started, Ended
    <2>4. e \in Seq(DOMAIN turns')
        BY <1>6, <2>1
    <2>5. Episode(e)'
        BY <1>6, <1>12, <2>1, <2>2, <2>3, <2>4 DEF Episode, Terminal
    <2>6. Trusted(e) => Trusted(e)'
        BY <1>6, <2>1 DEF Trusted, Closing
    <2>7. Ended(e) < clock
        BY <1>8, <2>1 DEF Ended
    <2> QED BY <2>3, <2>5, <2>6, <2>7
<1>13. RunHolds'
    BY <1>1, <1>12 DEF BankInv, RunHolds
<1>14. RunReads'
    <2> SUFFICES ASSUME run.of \in Strategies, NEW t \in DOMAIN turns', Terminal(t)',
                        turns'[t].at > mark[run.of]
                 PROVE  \/ t \in unread[run.of]
                        \/ Covered(run.eps, t)
                        \/ \A i \in DOMAIN run.eps : turns'[t].at > Ended(run.eps[i])'
        BY <1>1 DEF RunReads, Covered
    <2>1. \A i \in DOMAIN run.eps : /\ Ended(run.eps[i])' = Ended(run.eps[i])
                                    /\ Ended(run.eps[i]) < clock /\ Ended(run.eps[i]) \in Nat
        <3> SUFFICES ASSUME NEW i \in DOMAIN run.eps
                     PROVE  /\ Ended(run.eps[i])' = Ended(run.eps[i])
                            /\ Ended(run.eps[i]) < clock /\ Ended(run.eps[i]) \in Nat
            OBVIOUS
        <3>1. Episode(run.eps[i])
            BY DEF BankInv, RunHolds
        <3>2. Last(run.eps[i]) \in DOMAIN turns
            BY <3>1, EpisodeTurns DEF Closing
        <3>3. Ended(run.eps[i]) \in Nat
            BY <1>8, <3>2 DEF Ended
        <3>4. run.eps[i]' = run.eps[i]
            BY <1>1
        <3>5. \A e : Episode(e) => Ended(e)' = Ended(e) /\ Ended(e) < clock
            BY <1>12
        <3>6. Ended(run.eps[i])' = turns'[Last(run.eps[i])].at
            BY <1>1 DEF Ended
        <3>7. Ended(run.eps[i])' = Ended(run.eps[i])
            BY <1>6, <3>2, <3>6 DEF Ended
        <3> QED BY <3>1, <3>3, <3>5, <3>7
    <2>2. CASE t \in DOMAIN turns
        <3>1. Terminal(t) /\ turns[t].at = turns'[t].at
            BY <1>6, <2>2 DEF Terminal
        <3> QED BY <2>1, <2>2, <3>1 DEF BankInv, RunReads
    <2>3. CASE t = n
        <3>1. turns'[t].at >= clock /\ turns'[t].at \in Nat
            BY <1>2, <1>3, <1>4, <1>5, <2>3
        <3> QED BY <1>2, <2>1, <3>1
    <2> QED BY <1>7, <2>2, <2>3
<1>15. EndsKept'
    <2> SUFFICES ASSUME NEW z \in Strategies, NEW t \in DOMAIN turns', Terminal(t)',
                        turns'[t].at <= mark[z]
                 PROVE  t \in decided[z] \cup unread[z]
        BY <1>1 DEF EndsKept
    <2>1. CASE t \in DOMAIN turns
        <3>1. Terminal(t) /\ turns[t].at <= mark[z]
            BY <1>6, <2>1 DEF Terminal
        <3> QED BY <2>1, <3>1 DEF BankInv, EndsKept
    <2>2. CASE t = n
        BY <1>2, <1>3, <1>4, <1>5, <1>10, <2>2
    <2> QED BY <1>7, <2>1, <2>2
<1>16. CasesHold(Inserted)'
    <2>1. Inserted' = Inserted
        BY <1>1 DEF Inserted
    <2>2. \A c \in Inserted : c.turns \in Seq(DOMAIN turns')
        BY <1>6 DEF BankInv, CasesHold
    <2> QED BY <2>1, <2>2 DEF BankInv, CasesHold, Closing
<1>17. SeedsHold(Known)'
    <2>1. Known' = Known
        BY <1>1 DEF Known
    <2> QED BY <1>6, <2>1 DEF BankInv, SeedsHold
<1> QED BY <1>11, <1>13, <1>14, <1>15, <1>16, <1>17 DEF BankInv

LEMMA BankInitInv == EpisodeInit => BankInv
<1> SUFFICES ASSUME EpisodeInit PROVE BankInv
    OBVIOUS
<1>1. /\ clock = 1 /\ turns = << >> /\ mark = [s \in Strategies |-> 0] /\ run = NoRun
      /\ cases = {} /\ items = {} /\ decided = [s \in Strategies |-> {}]
      /\ unread = [s \in Strategies |-> {}] /\ runs = 0 /\ DOMAIN turns = {}
    BY DEF EpisodeInit
<1>2. BankTypes
    BY <1>1, NoRunType DEF BankTypes, InTime
<1>3. RunHolds /\ RunReads
    BY <1>1, NoRunType DEF RunHolds, RunReads
<1>4. EndsKept
    BY <1>1 DEF EndsKept
<1>5. CasesHold(Inserted) /\ SeedsHold(Known)
    BY <1>1, NoRunType DEF CasesHold, SeedsHold, Inserted, Known
<1> QED BY <1>2, <1>3, <1>4, <1>5 DEF BankInv

LEMMA BankStep == ASSUME BankInv, [EpisodeNext]_episodeVars PROVE BankInv'
<1>1. CASE UNCHANGED episodeVars
    <2>1. UNCHANGED <<clock, turns, mark, run, cases, items, decided, unread, runs>>
        BY <1>1 DEF episodeVars, bank
    <2>2. BankTypes'
        BY <2>1 DEF BankInv, BankTypes, InTime
    <2>3. RunHolds'
        BY <2>1 DEF BankInv, RunHolds, Episode, Started, Ended, Terminal, Trusted, Closing
    <2>4. RunReads'
        BY <2>1 DEF BankInv, RunReads, Covered, Ended, Terminal
    <2>5. EndsKept'
        BY <2>1 DEF BankInv, EndsKept, Terminal
    <2>6. CasesHold(Inserted)'
        BY <2>1 DEF BankInv, CasesHold, Inserted, Closing
    <2>7. SeedsHold(Known)'
        BY <2>1 DEF BankInv, SeedsHold, Known
    <2> QED BY <2>2, <2>3, <2>4, <2>5, <2>6, <2>7 DEF BankInv
<1>2. ASSUME NEW session \in Sessions, NEW label \in EndLabels, NEW pause \in BOOLEAN,
             Turn(session, label, pause)
      PROVE  BankInv'
    BY <1>2, TurnInv
<1>3. ASSUME NEW s \in Strategies, Open(s) PROVE BankInv'
    BY <1>3, OpenInv
<1>4. CASE Renewal
    BY <1>4, RenewalInv
<1>5. ASSUME NEW e \in ToSet(run.eps), NEW keeps \in BOOLEAN, Case(e, keeps) PROVE BankInv'
    BY <1>5, CaseInv
<1>6. ASSUME NEW e \in ToSet(run.eps), Distill(e) PROVE BankInv'
    BY <1>6, DefersInv, NothingToLearnInv, RejectsProposalInv, ReinforcesInv, LearnsInv
    DEF Distill
<1>7. CASE Interrupted
    BY <1>7, InterruptedInv
<1>8. CASE Close
    BY <1>8, CloseInv
<1>9. CASE Fails
    BY <1>9, FailsInv
<1> QED BY <1>1, <1>2, <1>3, <1>4, <1>5, <1>6, <1>7, <1>8, <1>9 DEF EpisodeNext

\* An episode has one case at most, whatever is read again and wherever a
\* run dies after a renewal committed some (dream/cases.py _case_exists).
THEOREM CasesOnce == EpisodeSpec => []CaseOnce
<1>1. BankInv => CaseOnce
    BY DEF BankInv, CasesHold, CaseOnce, Inserted
<1> QED BY <1>1, BankInitInv, BankStep, PTL DEF EpisodeSpec

\* No end of a task is passed by a watermark undecided, unless a limit left
\* it out, for any limits, pauses and sessions (dream/mine_state.py
\* assemble_episodes, advance_watermark).
THEOREM EveryEndKept == EpisodeSpec => []EndsKept
<1>1. BankInv => EndsKept
    BY DEF BankInv
<1> QED BY <1>1, BankInitInv, BankStep, PTL DEF EpisodeSpec

\* Everything an item was learned from, compared with or confirmed by is
\* the owner's (dream/distill.py _is_owner_trusted).
THEOREM ItemsAreOwners == EpisodeSpec => []OwnerSeeds
<1>1. BankInv => OwnerSeeds
    BY DEF BankInv, SeedsHold, OwnerSeeds, Known
<1> QED BY <1>1, BankInitInv, BankStep, PTL DEF EpisodeSpec
=============================================================================
