---------------------------- MODULE RecallRanking ----------------------------
(***************************************************************************)
(* The arithmetic of recall: reciprocal rank fusion (recall/fusion.py),    *)
(* the modulation of a fused score by what a memory has proved to be worth *)
(* (recall/search.py), the reordering for diversity (recall/mmr.py), the   *)
(* slots reserved for linked profiles (recall/linked.py) and the packing   *)
(* of a block (recall/render.py).                                          *)
(*                                                                         *)
(* A hit is a row and a score.  Scores are integers: millionths for a      *)
(* fused score and for similarities, thousandths in the normalised band.   *)
(***************************************************************************)
EXTENDS Integers, Sequences, FiniteSets, FiniteSetsExt

CONSTANTS
    Row,        \* id -> what is known of the row
    Limit       \* hits asked for

ASSUME RankingAssumption ==
    /\ Limit \in Nat \ {0}
    /\ IsFiniteSet(DOMAIN Row)
    /\ \A r \in DOMAIN Row :
         /\ {Row[r].cost, Row[r].decay, Row[r].helpful, Row[r].harmful} \subseteq Nat
         /\ {Row[r].pinned, Row[r].failed} \subseteq BOOLEAN
         /\ IsFiniteSet(Row[r].words)

Ids == DOMAIN Row
Million == 1000000
Thousand == 1000

Members(list) == {list[i] : i \in DOMAIN list}
Place(list, x) == CHOOSE i \in DOMAIN list : list[i] = x
Front(list, n) == SubSeq(list, 1, IF n < Len(list) THEN n ELSE Len(list))
Larger(x, y) == IF x < y THEN y ELSE x

\* the items of a list that are in S, in their order
Kept(list, S) ==
    LET kept[n \in 0..Len(list)] ==
          IF n = 0 THEN << >>
          ELSE IF list[n] \in S THEN Append(kept[n - 1], list[n]) ELSE kept[n - 1]
    IN kept[Len(list)]

\* sorted(..., reverse=True), which is stable: each after all that score as much
Inserted(sorted, x) ==
    LET n == Cardinality({i \in DOMAIN sorted : sorted[i].score >= x.score})
    IN SubSeq(sorted, 1, n) \o <<x>> \o SubSeq(sorted, n + 1, Len(sorted))
Sorted(list, score) ==
    LET sorted[n \in 0..Len(list)] ==
          IF n = 0 THEN << >>
          ELSE Inserted(sorted[n - 1], [item |-> list[n], score |-> score[n]])
        all == sorted[Len(list)]
    IN [n \in DOMAIN all |-> all[n].item]

Total(values) ==
    LET sum[n \in 0..Len(values)] == IF n = 0 THEN 0 ELSE sum[n - 1] + values[n]
    IN sum[Len(values)]

-----------------------------------------------------------------------------
(***************************** fusion.py ***********************************)
RrfK == 60
Vote(rank) == Million \div (RrfK + rank)

\* rrf: a leg is a list and its weight in hundredths; every item once, in
\* the order the legs first name it, with the sum of its votes
Names(legs, n, x) == legs[n].weight # 0 /\ x \in Members(legs[n].list)
Named(legs) == UNION {Members(legs[n].list) : n \in {m \in DOMAIN legs : legs[m].weight # 0}}
VoteOf(leg, x) == (leg.weight * Vote(Place(leg.list, x))) \div 100
Rrf(legs) ==
    [x \in Named(legs) |->
       Total([n \in DOMAIN legs |-> IF Names(legs, n, x) THEN VoteOf(legs[n], x) ELSE 0])]

FirstNamed(legs) ==
    LET all[n \in 0..Len(legs)] ==
          IF n = 0 THEN << >>
          ELSE LET before == all[n - 1]
               IN before \o Kept(legs[n].list, {x \in Ids : Names(legs, n, x)} \ Members(before))
    IN all[Len(legs)]

InOrder(scores, legs) ==
    LET named == FirstNamed(legs)
    IN Sorted(named, [n \in DOMAIN named |-> scores[named[n]]])

\* normalized: into the band from 0.2 to 1
Floor == 200
Normalized(scores) ==
    LET low == Min({scores[x] : x \in DOMAIN scores})
        high == Max({scores[x] : x \in DOMAIN scores})
    IN [x \in DOMAIN scores |->
          IF high = low THEN Thousand
          ELSE Floor + ((Thousand - Floor) * (scores[x] - low)) \div (high - low)]

\* _rerank_bases: the judged slice back into the band, the rest below it
Reranked(bases, judged) ==
    LET low == Min({judged[x] : x \in DOMAIN judged})
        high == Max({judged[x] : x \in DOMAIN judged})
    IN IF DOMAIN judged = {} \/ high = low THEN bases
       ELSE [x \in DOMAIN bases |->
               IF x \in DOMAIN judged
               THEN Floor + ((Thousand - Floor) * (judged[x] - low)) \div (high - low)
               ELSE (Floor * bases[x]) \div (2 * Thousand)]

-----------------------------------------------------------------------------
(***************************** search.py ***********************************)
IsEpisode(r) == Row[r].what = "episode"

\* _modulate: decay has a floor, feedback two bounds; percentages and
\* thousandths.  A raw turn weighs 0.6 of what it would.
Smaller(x, y) == IF x < y THEN x ELSE y
Feedback(r) ==
    Smaller(200, Larger(20, 100 + 10 * Smaller(Row[r].helpful, 5) - 15 * Smaller(Row[r].harmful, 5)))
Times(condition, tenths, x) == IF condition THEN (x * tenths) \div 10 ELSE x
ScoreOf(r, base) ==
    IF IsEpisode(r) THEN base * 600
    ELSE Times(Row[r].pinned, 13,
           Times(Row[r].kind = "warning", 12,
             Times(Row[r].failed, 15,
               (base * Larger(300, Row[r].decay) * Feedback(r)) \div 100)))

\* at most one raw turn 
OneEpisode(rows) ==
    LET episodes == Kept(rows, {r \in Members(rows) : IsEpisode(r)})
    IN Kept(rows, {r \in Members(rows) : IsEpisode(r) => r = episodes[1]})

\* one episode of the fused order, all memories, sorted by modulated score
HitsOf(scores, legs, limit) ==
    LET order == InOrder(scores, legs)
        kept == OneEpisode(order)
        hits == [n \in DOMAIN kept |-> [row |-> kept[n], score |-> ScoreOf(kept[n], scores[kept[n]])]]
    IN Front(Sorted(hits, [n \in DOMAIN hits |-> hits[n].score]), limit)

-----------------------------------------------------------------------------
(******************************* mmr.py ************************************)
Jaccard(r, s) ==
    LET union == Row[r].words \cup Row[s].words
    IN IF Row[r].words = {} \/ Row[s].words = {} THEN 0
       ELSE (Million * Cardinality(Row[r].words \cap Row[s].words)) \div Cardinality(union)

\* mmr: the most relevant first, then by 0.7 relevance less 0.3 similarity to
\* the nearest of those chosen; the places of the hits, in the new order
ByScore(hits) == Sorted([i \in DOMAIN hits |-> i], [i \in DOMAIN hits |-> hits[i].score])
Gain(hits, i, chosen) ==
    7 * hits[i].score - 3 * Max({Jaccard(hits[i].row, hits[j].row) : j \in Members(chosen)})
OneMore(hits, chosen) ==
    LET rest == Kept(ByScore(hits), DOMAIN hits \ Members(chosen))
    IN IF rest = << >> THEN chosen
       ELSE Append(chosen, Sorted(rest, [n \in DOMAIN rest |-> Gain(hits, rest[n], chosen)])[1])
MmrPlaces(hits) ==
    LET selected[n \in 1..Limit] ==
          IF n = 1 THEN <<ByScore(hits)[1]>> ELSE OneMore(hits, selected[n - 1])
    IN selected[Limit]

\* _diversify: fewer than three stay as they are.  What mmr picked is looked
\* up by uid, so of two hits with one uid the later stands for both.
Diversified(hits) ==
    IF Len(hits) < 3 THEN hits
    ELSE LET Uid(i) == Row[hits[i].row].uid
             Bearer(i) == Max({j \in DOMAIN hits : Uid(j) = Uid(i)})
             places == MmrPlaces(hits)
             picked == [n \in DOMAIN places |-> hits[Bearer(places[n])]]
             seen == {Uid(places[n]) : n \in DOMAIN places}
         IN picked \o Kept(hits, {h \in Members(hits) : Row[h.row].uid \notin seen})

-----------------------------------------------------------------------------
(****************************** linked.py **********************************)
IsLinked(h) == Row[h.row].home # "local"

\* _merge and _reserve_linked_slots: a quarter of the slots, at least one, to
\* linked hits that none of would make the limit on its score
NoneReserved(ranked) == Front(ranked, Limit)
Reserved(ranked) ==
    LET head == Front(ranked, Limit)
        linked == Kept(SubSeq(ranked, Limit + 1, Len(ranked)), {h \in Members(ranked) : IsLinked(h)})
        promoted == Front(linked, Larger(1, Limit \div 4))
    IN IF Len(ranked) <= Limit \/ (\E n \in DOMAIN head : IsLinked(head[n])) \/ linked = << >>
       THEN head
       ELSE Front(head, Limit - Len(promoted)) \o promoted

Merged(local, linked) ==
    LET Rows(hits) == [n \in DOMAIN hits |-> hits[n].row]
        legs == << [list |-> Rows(local), weight |-> 100], [list |-> Rows(linked), weight |-> 85] >>
        scores == Rrf(legs)
        order == InOrder(scores, legs)
    IN Reserved([n \in DOMAIN order |-> [row |-> order[n], score |-> scores[order[n]]]])

-----------------------------------------------------------------------------
(****************************** render.py **********************************)
HeaderCost == 1

\* lane2_block and guidance_block: from the top until a line does not fit
Cost(rows) == IF rows = << >> THEN 0
              ELSE HeaderCost + Total([n \in DOMAIN rows |-> Row[rows[n]].cost])
Packed(rows, budget) ==
    Front(rows, Max({n \in 0..Len(rows) : n = 0 \/ Cost(Front(rows, n)) <= budget}))

=============================================================================
