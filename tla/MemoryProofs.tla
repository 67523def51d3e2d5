---------------------------- MODULE MemoryProofs ----------------------------
(***************************************************************************)
(* The version chains, for any users, texts, keys and any number of        *)
(* memories and facts: the generation tells every change, history is kept, *)
(* a memory that is closed in favour of another leaves one that stands,    *)
(* and unless a writer was overtaken there is one answer to each question. *)
(***************************************************************************)
EXTENDS MemoryChain, FiniteSetTheorems, WellFoundedInduction, TLAPS

-----------------------------------------------------------------------------
\* The inductive invariant.
\* The tables hold rows and facts that name rows.
RowsTyped(rs) ==
    /\ rs \in Seq(Row)
    /\ \A r \in 1..Len(rs) : rs[r].parent \in 0..Len(rs) /\ rs[r].next \in 0..Len(rs)
FactsTyped(rs, fs) ==
    /\ fs \in Seq(Fact)
    /\ \A f \in 1..Len(fs) : fs[f].mem \in 1..Len(rs)

\* What has a successor is closed, and so is what something succeeded.
Closed(rs) ==
    \A r \in 1..Len(rs) :
        /\ rs[r].next # None => ~rs[r].open
        /\ rs[r].parent # None => ~rs[rs[r].parent].open

\* A writer names rows and facts that exist.
WorkTyped(o, rs, fs) ==
    /\ o \in Work
    /\ o.op \in Ops \ {"remember", "age"} => o.mem \in 1..Len(rs)
    /\ o.op \in {"correct", "restore"} /\ o.ready =>
        o.other \in 1..Len(rs) /\ o.version > 0
    /\ o.op \in {"judge", "update"} => o.other \in 1..Len(rs)
    /\ o.op = "update" => o.other # o.mem
    /\ o.op \in {"index", "update"} => \E k \in Keys : o.keys = {k}
    /\ o.seen \subseteq 1..Len(fs)
    /\ o.demote \cup o.bury \cup o.purge \subseteq 1..Len(rs)

Typed ==
    /\ RowsTyped(rows) /\ FactsTyped(rows, facts) /\ told \subseteq Ids
    /\ archived \subseteq Ids
    /\ work \in [Writers -> Work] /\ races \in Nat
    /\ \A w \in Writers : WorkTyped(work[w], rows, facts)

\* d numbers the versions so that a parent has a lower number, a names the
\* first version of each lineage.
Ranks(rs, d) ==
    /\ d \in [1..Len(rs) -> 1..Len(rs)]
    /\ \A r, x \in 1..Len(rs) : d[r] = d[x] => r = x
    /\ \A r \in 1..Len(rs) : rs[r].parent # None => d[rs[r].parent] < d[r]
Roots(rs, a) ==
    /\ a \in [1..Len(rs) -> 1..Len(rs)]
    /\ \A r \in 1..Len(rs) :
        a[r] = IF rs[r].parent = None THEN r ELSE a[rs[r].parent]
Below(rs, x, r) ==
    rs[x].version < rs[r].version \/ (rs[x].version = rs[r].version /\ x < r)
\* What has no successor is the latest version of its lineage.
Tops(rs, a) ==
    \A r, x \in 1..Len(rs) :
        rs[r].next = None /\ a[x] = a[r] /\ x # r => Below(rs, x, r)
Chained(rs) ==
    /\ \E d \in [1..Len(rs) -> 1..Len(rs)] : Ranks(rs, d)
    /\ \E a \in [1..Len(rs) -> 1..Len(rs)] : Roots(rs, a) /\ Tops(rs, a)
Indexed(rs, fs) ==
    \A f \in 1..Len(fs) : fs[f].open =>
        Closing(fs, fs[f].key) = {f} /\ rs[fs[f].mem].next = None

ChainInv ==
    /\ Typed /\ Closed(rows) /\ EveryChangeTold
    /\ races = 0 => Chained(rows) /\ Indexed(rows, facts)

-----------------------------------------------------------------------------
\* Numbers.

\* A set of numbers that is not empty has a least member.
LEMMA LeastNat ==
    ASSUME NEW S, S \subseteq Nat, S # {}
    PROVE  \E m \in S : \A x \in S : m <= x
<1>1. IsWellFoundedOn(OpToRel(<, Nat), Nat)
    BY NatLessThanWellFounded
<1>2. PICK m \in S : \A y \in S : ~ (<<y, m>> \in OpToRel(<, Nat))
    BY <1>1, WFMin
<1>3. m \in S /\ \A y \in S : ~ (y < m)
    BY <1>2 DEF OpToRel
<1> QED BY <1>3

\* A set of numbers that has a bound has a greatest member.
LEMMA GreatestNat ==
    ASSUME NEW S, S \subseteq Nat, S # {}, NEW b \in Nat, \A x \in S : x <= b
    PROVE  \E m \in S : \A x \in S : x <= m
<1> DEFINE T == { n \in Nat : \A x \in S : x <= n }
<1>1. PICK n \in T : \A y \in T : n <= y
    <2>1. T \subseteq Nat /\ b \in T
        OBVIOUS
    <2> HIDE DEF T
    <2> QED BY <2>1, LeastNat
<1>2. n \in Nat /\ \A x \in S : x <= n
    BY <1>1
<1>3. n \in S
    <2> SUFFICES ASSUME n \notin S PROVE FALSE
        OBVIOUS
    <2>1. \A x \in S : x <= n - 1
        BY <1>2
    <2>2. n - 1 \in Nat
        <3>1. PICK x \in S : TRUE
            OBVIOUS
        <3> QED BY <1>2, <2>1, <3>1
    <2>3. n - 1 \in T
        BY <2>1, <2>2
    <2> HIDE DEF T
    <2>4. n <= n - 1
        BY <1>1, <2>3
    <2> QED BY <1>2, <2>4
<1> QED BY <1>2, <1>3

\* Finitely many rows have a highest version.
LEMMA HighestVersion ==
    ASSUME NEW rs \in Seq(Row), NEW L \in SUBSET (1..Len(rs)), L # {}
    PROVE  \E v \in { rs[x].version : x \in L } : \A x \in L : rs[x].version <= v
<1> DEFINE V(n) == { rs[x].version : x \in { y \in L : y <= n } }
           Bad == { n \in Nat : V(n) # {} /\ ~ \E v \in V(n) : \A u \in V(n) : u <= v }
<1>0. Len(rs) \in Nat /\ \A x \in L : x \in Nat /\ x <= Len(rs) /\ x # 0
                                    /\ rs[x].version \in Nat
    <2>1. Len(rs) \in Nat /\ \A x \in 1..Len(rs) : rs[x] \in Row
        OBVIOUS
    <2>2. \A x \in L : x \in 1..Len(rs)
        OBVIOUS
    <2>3. \A x \in 1..Len(rs) : rs[x].version \in Nat
        BY <2>1 DEF Row
    <2> QED BY <2>1, <2>2, <2>3
<1>1. Bad = {}
    <2> SUFFICES ASSUME Bad # {} PROVE FALSE
        OBVIOUS
    <2>1. PICK n \in Bad : \A x \in Bad : n <= x
        <3>1. Bad \subseteq Nat
            OBVIOUS
        <3> HIDE DEF Bad
        <3> QED BY <3>1, LeastNat
    <2>2. n \in Nat /\ V(n) # {} /\ ~ \E v \in V(n) : \A u \in V(n) : u <= v
        BY <2>1
    <2>3. n # 0 /\ n - 1 \in Nat
        <3>1. PICK y \in L : y <= n
            BY <2>2
        <3> QED BY <1>0, <2>2, <3>1
    <2>4. n - 1 \notin Bad
        <3> HIDE DEF Bad
        <3> QED BY <2>1, <2>2, <2>3
    <2>5. CASE n \notin L
        <3>1. { y \in L : y <= n } = { y \in L : y <= n - 1 }
            <4>1. \A i, j \in Nat : i # j => (i <= j <=> i <= j - 1)
                OBVIOUS
            <4>2. \A y \in L : y \in Nat /\ y # n
                BY <1>0, <2>5
            <4>3. \A y \in L : y <= n <=> y <= n - 1
                BY <2>2, <4>1, <4>2
            <4> QED BY ONLY <4>3
        <3>2. V(n) = V(n - 1)
            BY <3>1
        <3> QED BY <2>2, <2>3, <2>4, <3>2
    <2>6. CASE n \in L
        <3>1. { y \in L : y <= n } = { y \in L : y <= n - 1 } \cup {n}
            <4>1. \A y \in L : y <= n <=> y <= n - 1 \/ y = n
                BY <1>0, <2>2
            <4> QED BY <2>6, <4>1
        <3>2. V(n) = V(n - 1) \cup { rs[n].version }
            BY <3>1
        <3>3. V(n) \subseteq Nat
            BY <1>0
        <3>4. CASE V(n - 1) = {}
            <4>1. V(n) = { rs[n].version } /\ rs[n].version \in Nat
                BY <1>0, <2>6, <3>2, <3>4
            <4> HIDE DEF V
            <4> QED BY <2>2, <4>1
        <3>5. CASE V(n - 1) # {}
            <4>1. PICK v \in V(n - 1) : \A u \in V(n - 1) : u <= v
                BY <2>3, <2>4, <3>5
            <4> HIDE DEF V
            <4>2. v \in Nat /\ rs[n].version \in Nat /\ \A u \in V(n) : u \in Nat
                BY <1>0, <2>6, <3>2, <3>3, <4>1
            <4>3. CASE v <= rs[n].version
                BY <2>2, <3>2, <4>1, <4>2, <4>3
            <4>4. CASE rs[n].version <= v
                BY <2>2, <3>2, <4>1, <4>2, <4>4
            <4> QED BY <4>2, <4>3, <4>4
        <3> QED BY <3>4, <3>5
    <2> QED BY <2>5, <2>6
<1>2. { y \in L : y <= Len(rs) } = L
    BY <1>0
<1>3. V(Len(rs)) = { rs[x].version : x \in L }
    BY <1>2
<1>4. V(Len(rs)) # {} /\ Len(rs) \notin Bad
    <2>1. Len(rs) \notin Bad
        BY <1>1, Zenon
    <2>2. { rs[x].version : x \in L } # {}
        OBVIOUS
    <2> HIDE DEF V, Bad
    <2> QED BY <1>3, <2>1, <2>2
<1>5. \E v \in V(Len(rs)) : \A u \in V(Len(rs)) : u <= v
    BY <1>0, <1>4
<1> QED BY <1>3, <1>5

\* chain_head finds a row: the one of its lineage that all others are below.
LEMMA HeadFound ==
    ASSUME NEW rs \in Seq(Row), NEW r \in 1..Len(rs)
    PROVE  /\ ChainHead(rs, r) \in 1..Len(rs)
           /\ Ancestor(rs, ChainHead(rs, r)) = Ancestor(rs, r)
           /\ \A x \in 1..Len(rs) :
                Ancestor(rs, x) = Ancestor(rs, r) /\ x # ChainHead(rs, r)
                => Below(rs, x, ChainHead(rs, r))
<1> DEFINE L == Lineage(rs, r)
<1>1. Len(rs) \in Nat /\ L \in SUBSET (1..Len(rs)) /\ r \in L
    BY DEF Lineage
<1>2. \A x \in L : x \in Nat /\ x <= Len(rs) /\ rs[x].version \in Nat
    <2>1. \A x \in 1..Len(rs) : rs[x] \in Row
        OBVIOUS
    <2>2. \A x \in 1..Len(rs) : rs[x].version \in Nat
        BY <2>1 DEF Row
    <2>3. \A x \in 1..Len(rs) : x \in Nat /\ x <= Len(rs)
        BY <1>1
    <2> HIDE DEF L
    <2> QED BY ONLY <1>1, <2>2, <2>3
<1>3. PICK v \in { rs[x].version : x \in L } : \A x \in L : rs[x].version <= v
    <2> HIDE DEF L
    <2> QED BY <1>1, HighestVersion
<1>4. PICK h \in { x \in L : rs[x].version = v } :
            \A x \in { y \in L : rs[y].version = v } : x <= h
    <2> DEFINE T == { x \in L : rs[x].version = v }
    <2>1. T \subseteq Nat /\ T # {} /\ \A x \in T : x <= Len(rs)
        BY <1>2, <1>3
    <2> HIDE DEF T, L
    <2>2. \E m \in T : \A x \in T : x <= m
        BY <1>1, <2>1, GreatestNat
    <2> QED BY <2>2 DEF T
<1>5. h \in L /\ \A x \in L : \/ rs[x].version < rs[h].version
                              \/ rs[x].version = rs[h].version /\ x <= h
    BY <1>2, <1>3, <1>4
<1> DEFINE c == ChainHead(rs, r)
<1>6. c \in L /\ \A x \in L : \/ rs[x].version < rs[c].version
                              \/ rs[x].version = rs[c].version /\ x <= c
    BY <1>5, Zenon DEF ChainHead
<1> HIDE DEF c
<1>7. c \in 1..Len(rs) /\ Ancestor(rs, c) = Ancestor(rs, r)
    BY <1>6 DEF Lineage
<1>8. ASSUME NEW x \in 1..Len(rs), Ancestor(rs, x) = Ancestor(rs, r), x # c
      PROVE  Below(rs, x, c)
    <2>1. x \in L
        BY <1>8 DEF Lineage
    <2> QED BY <1>2, <1>6, <1>8, <2>1 DEF Below
<1> QED BY <1>7, <1>8 DEF c
-----------------------------------------------------------------------------
\* The climb from a version to the first one of its lineage.

Climb(rs, r, k, up) ==
    up = [n \in 0..k |-> IF n = 0 THEN r
                         ELSE IF rs[up[n - 1]].parent = None THEN up[n - 1]
                         ELSE rs[up[n - 1]].parent]

LEMMA ClimbExists ==
    ASSUME NEW rs, NEW r, NEW k \in Nat
    PROVE  \E up : Climb(rs, r, k, up)
<1> DEFINE Bad == { n \in Nat : ~ \E up : Climb(rs, r, n, up) }
           Over(x) == IF rs[x].parent = None THEN x ELSE rs[x].parent
<1>1. SUFFICES ASSUME Bad # {} PROVE FALSE
    OBVIOUS
<1>2. PICK m \in Bad : \A x \in Bad : m <= x
    <2>1. Bad \subseteq Nat
        OBVIOUS
    <2> HIDE DEF Bad
    <2> QED BY <1>1, <2>1, LeastNat
<1>3. CASE m = 0
    <2> DEFINE f == [n \in 0..0 |-> r]
    <2>1. Climb(rs, r, 0, f)
        BY DEF Climb
    <2> QED BY <1>3, <2>1
<1>4. CASE m # 0
    <2>1. m - 1 \in Nat /\ m \in Nat /\ m - 1 \notin Bad
        BY <1>2, <1>4
    <2>2. PICK f : Climb(rs, r, m - 1, f)
        BY <2>1
    <2> DEFINE g == [n \in 0..m |-> IF n = m THEN Over(f[m - 1]) ELSE f[n]]
    <2>3. \A n \in 0..(m - 1) :
            /\ f[n] = IF n = 0 THEN r ELSE Over(f[n - 1])
            /\ g[n] = f[n] /\ n \in 0..m /\ n # m
        <3>1. \A n \in 0..(m - 1) : n \in 0..m /\ n # m
            BY <2>1
        <3>2. \A n \in 0..(m - 1) : f[n] = IF n = 0 THEN r ELSE Over(f[n - 1])
            <4>1. f = [n \in 0..(m - 1) |-> IF n = 0 THEN r ELSE Over(f[n - 1])]
                BY <2>2, Zenon DEF Climb
            <4> HIDE DEF Over
            <4> QED BY <4>1
        <3> HIDE DEF Over
        <3> QED BY <3>1, <3>2
    <2>4. g[m] = Over(f[m - 1]) /\ m - 1 \in 0..(m - 1) /\ g[m - 1] = f[m - 1]
        BY <2>1, <2>3
    <2>5. \A n \in 0..m : g[n] = IF n = 0 THEN r ELSE Over(g[n - 1])
        <3> SUFFICES ASSUME NEW n \in 0..m
                     PROVE  g[n] = IF n = 0 THEN r ELSE Over(g[n - 1])
            OBVIOUS
        <3>1. CASE n = m
            BY <1>4, <2>4, <3>1
        <3>2. CASE n # m /\ n # 0
            <4>1. n \in 0..(m - 1) /\ n - 1 \in 0..(m - 1)
                BY <2>1, <3>2
            <4> HIDE DEF g, Over
            <4> QED BY <2>3, <3>2, <4>1
        <3>3. CASE n = 0
            <4>1. 0 \in 0..(m - 1)
                BY <2>1
            <4> QED BY <2>3, <3>3, <4>1
        <3> QED BY <3>1, <3>2, <3>3
    <2>6. g = [n \in 0..m |-> g[n]]
        OBVIOUS
    <2> HIDE DEF g
    <2>7. Climb(rs, r, m, g)
        BY <2>5, <2>6 DEF Climb
    <2> QED BY <1>2, <2>7
<1> QED BY <1>3, <1>4

\* Where ranks fall on the way up, the climb ends at the first version.
LEMMA AncestorIs ==
    ASSUME NEW rs, RowsTyped(rs), NEW d, NEW a, Ranks(rs, d), Roots(rs, a),
           NEW r \in 1..Len(rs)
    PROVE  Ancestor(rs, r) = a[r]
<1> DEFINE L == Len(rs)
           up == CHOOSE f : Climb(rs, r, L, f)
<1>0. L \in Nat /\ \A x \in 1..L : rs[x].parent \in 0..L
    BY DEF RowsTyped
<1>1. Ancestor(rs, r) = up[L]
    BY DEF Ancestor, Climb
<1>2. Climb(rs, r, L, up)
    BY <1>0, ClimbExists
<1> HIDE DEF up
<1>3. up[0] = r
    BY <1>0, <1>2 DEF Climb
<1>4. \A n \in 1..L : up[n] = IF rs[up[n - 1]].parent = None THEN up[n - 1]
                              ELSE rs[up[n - 1]].parent
    <2>1. \A n \in 1..L : n \in 0..L /\ n # 0
        BY <1>0
    <2>2. up = [n \in 0..L |-> IF n = 0 THEN r
                                ELSE IF rs[up[n - 1]].parent = None THEN up[n - 1]
                                ELSE rs[up[n - 1]].parent]
        BY <1>2 DEF Climb
    <2> QED BY ONLY <2>1, <2>2
<1> DEFINE Good(n) == /\ up[n] \in 1..L /\ a[up[n]] = a[r]
                      /\ rs[up[n]].parent = None \/ d[up[n]] + n <= L
           Bad == { n \in 0..L : ~ Good(n) }
<1>5. Bad = {}
    <2> SUFFICES ASSUME Bad # {} PROVE FALSE
        OBVIOUS
    <2>1. PICK n \in Bad : \A x \in Bad : n <= x
        <3>1. Bad \subseteq Nat
            BY <1>0
        <3> HIDE DEF Bad
        <3> QED BY <3>1, LeastNat
    <2>2. n \in 0..L /\ ~ Good(n)
        BY <2>1
    <2>3. Good(0)
        <3>1. d[r] \in 1..L
            BY DEF Ranks
        <3> QED BY <1>0, <1>3, <3>1
    <2>4. n # 0
        BY <2>2, <2>3
    <2>5. n \in 1..L /\ n - 1 \in 0..L /\ n - 1 \notin Bad
        <3> HIDE DEF Bad
        <3> QED BY <1>0, <2>1, <2>2, <2>4
    <2>6. Good(n - 1)
        BY <2>5
    <2> DEFINE x == up[n - 1]
    <2>7. x \in 1..L /\ a[x] = a[r] /\ (rs[x].parent = None \/ d[x] + (n - 1) <= L)
        BY <2>6
    <2>8. up[n] = IF rs[x].parent = None THEN x ELSE rs[x].parent
        BY <1>4, <2>5
    <2> HIDE DEF x
    <2>9. CASE rs[x].parent = None
        BY <2>2, <2>7, <2>8, <2>9
    <2>10. CASE rs[x].parent # None
        <3>1. up[n] = rs[x].parent /\ up[n] \in 1..L
            BY <1>0, <2>7, <2>8, <2>10 DEF None
        <3>2. d[up[n]] < d[x] /\ d[up[n]] \in 1..L /\ d[x] \in 1..L
            BY <2>7, <2>10, <3>1 DEF Ranks
        <3>3. a[x] = a[up[n]]
            BY <2>7, <2>10, <3>1 DEF Roots
        <3>4. d[up[n]] + n <= L
            <4>1. \A i, j \in 1..L : \A k \in 1..L :
                    i < j /\ j + (k - 1) <= L => i + k <= L
                BY <1>0
            <4>2. d[x] + (n - 1) <= L
                BY <2>7, <2>10
            <4> QED BY ONLY <2>5, <3>2, <4>1, <4>2
        <3> QED BY <2>2, <2>7, <3>1, <3>3, <3>4
    <2> QED BY <2>9, <2>10
<1>6. Good(L)
    BY <1>0, <1>5
<1>7. rs[up[L]].parent = None
    <2>1. d[up[L]] \in 1..L
        BY <1>6 DEF Ranks
    <2> QED BY <1>0, <1>6, <2>1
<1>8. a[up[L]] = up[L]
    BY <1>6, <1>7 DEF Roots
<1> QED BY <1>1, <1>6, <1>8
-----------------------------------------------------------------------------
\* What the helpers leave of a store.

StoreTyped(s) ==
    /\ s \in [rows : Seq(Row), facts : Seq(Fact), bumped : BOOLEAN]
    /\ RowsTyped(s.rows) /\ FactsTyped(s.rows, s.facts)

\* t is s after some memories were closed in favour of m and m was given
\* versions and parents.
Same(s, t) ==
    \A r \in 1..Len(s) : /\ t[r].text = s[r].text
                         /\ t[r].status = s[r].status /\ t[r].ttl = s[r].ttl
Moved(s, t, m) ==
    /\ StoreTyped(t) /\ Len(t.rows) = Len(s.rows)
    /\ (s.bumped => t.bumped) /\ (t.bumped \/ t.rows = s.rows)
    /\ Same(s.rows, t.rows)
    /\ \A r \in 1..Len(s.rows) :
        /\ r # m => t.rows[r].version = s.rows[r].version
                    /\ t.rows[r].parent = s.rows[r].parent
        /\ \/ t.rows[r].open = s.rows[r].open /\ t.rows[r].next = s.rows[r].next
           \/ r # m /\ ~t.rows[r].open /\ t.rows[r].next = m
    /\ Closed(s.rows) => Closed(t.rows)

LEMMA MovedOn ==
    ASSUME NEW s, NEW t, NEW u, NEW m, StoreTyped(s), Moved(s, t, m), Moved(t, u, m)
    PROVE  Moved(s, u, m)
<1>1. \A r \in 1..Len(s.rows) :
        /\ r # m => u.rows[r].version = s.rows[r].version
                    /\ u.rows[r].parent = s.rows[r].parent
        /\ \/ u.rows[r].open = s.rows[r].open /\ u.rows[r].next = s.rows[r].next
           \/ r # m /\ ~u.rows[r].open /\ u.rows[r].next = m
    <2> SUFFICES ASSUME NEW r \in 1..Len(s.rows)
                 PROVE  /\ r # m => u.rows[r].version = s.rows[r].version
                                    /\ u.rows[r].parent = s.rows[r].parent
                        /\ \/ u.rows[r].open = s.rows[r].open /\ u.rows[r].next = s.rows[r].next
                           \/ r # m /\ ~u.rows[r].open /\ u.rows[r].next = m
        OBVIOUS
    <2>1. r \in 1..Len(t.rows)
        BY DEF Moved
    <2>2. /\ r # m => t.rows[r].version = s.rows[r].version
                      /\ t.rows[r].parent = s.rows[r].parent
          /\ \/ t.rows[r].open = s.rows[r].open /\ t.rows[r].next = s.rows[r].next
             \/ r # m /\ ~t.rows[r].open /\ t.rows[r].next = m
        BY DEF Moved
    <2>3. /\ r # m => u.rows[r].version = t.rows[r].version
                      /\ u.rows[r].parent = t.rows[r].parent
          /\ \/ u.rows[r].open = t.rows[r].open /\ u.rows[r].next = t.rows[r].next
             \/ r # m /\ ~u.rows[r].open /\ u.rows[r].next = m
        BY <2>1 DEF Moved
    <2> QED BY <2>2, <2>3
<1>2. Same(s.rows, u.rows)
    BY DEF Moved, Same
<1>3. /\ StoreTyped(u) /\ Len(u.rows) = Len(s.rows)
      /\ (s.bumped => u.bumped) /\ (u.bumped \/ u.rows = s.rows)
      /\ Closed(s.rows) => Closed(u.rows)
    BY DEF Moved
<1> QED BY <1>1, <1>2, <1>3 DEF Moved

LEMMA MovedNot == ASSUME NEW s, NEW m, StoreTyped(s) PROVE Moved(s, s, m)
BY DEF Moved, Same

LEMMA CloseFactsIs ==
    ASSUME NEW fs \in Seq(Fact), NEW m
    PROVE  /\ CloseFacts(fs, m) \in Seq(Fact) /\ Len(CloseFacts(fs, m)) = Len(fs)
           /\ \A f \in 1..Len(fs) :
                /\ CloseFacts(fs, m)[f].key = fs[f].key
                /\ CloseFacts(fs, m)[f].mem = fs[f].mem
                /\ CloseFacts(fs, m)[f].open = (fs[f].open /\ fs[f].mem # m)
<1> DEFINE c == CloseFacts(fs, m)
<1>1. Len(fs) \in Nat /\ \A f \in 1..Len(fs) : fs[f] \in Fact
    OBVIOUS
<1>2. c = [f \in 1..Len(fs) |-> IF fs[f].mem = m THEN [fs[f] EXCEPT !.open = FALSE]
                                ELSE fs[f]]
    BY DEF CloseFacts
<1> HIDE DEF c
<1>3. ASSUME NEW f \in 1..Len(fs)
      PROVE  c[f] \in Fact /\ c[f].key = fs[f].key /\ c[f].mem = fs[f].mem
             /\ c[f].open = (fs[f].open /\ fs[f].mem # m)
    <2>1. c[f] = IF fs[f].mem = m THEN [fs[f] EXCEPT !.open = FALSE] ELSE fs[f]
        BY <1>2, <1>3
    <2>2. fs[f] \in [key : Keys, mem : Nat, open : BOOLEAN]
        BY <1>1, <1>3 DEF Fact
    <2>3. CASE fs[f].mem = m
        <3>1. c[f] = [fs[f] EXCEPT !.open = FALSE]
            BY <2>1, <2>3
        <3> QED BY <2>2, <2>3, <3>1 DEF Fact
    <2>4. CASE fs[f].mem # m
        BY <2>1, <2>2, <2>4 DEF Fact
    <2> QED BY <2>3, <2>4
<1>4. c \in [1..Len(fs) -> Fact]
    BY <1>2, <1>3
<1>5. c \in Seq(Fact) /\ Len(c) = Len(fs)
    BY <1>1, <1>4
<1> QED BY <1>3, <1>5 DEF c

\* What retiring old does to the rows and the facts.
Retired(s, t, old, new) ==
    /\ StoreTyped(t) /\ Len(t.rows) = Len(s.rows) /\ t.bumped = s.bumped
    /\ t.facts = CloseFacts(s.facts, old) /\ Len(t.facts) = Len(s.facts)
    /\ Same(s.rows, t.rows)
    /\ \A r \in 1..Len(s.rows) :
        /\ t.rows[r].version = s.rows[r].version
        /\ t.rows[r].parent = s.rows[r].parent
        /\ t.rows[r].open = (s.rows[r].open /\ r # old)
        /\ t.rows[r].next = IF r = old THEN new ELSE s.rows[r].next

LEMMA RetireIs ==
    ASSUME NEW s, StoreTyped(s), NEW old \in 1..Len(s.rows), NEW new \in 1..Len(s.rows),
           NEW t, t = Retire(s, old, new)
    PROVE  Retired(s, t, old, new)
<1> DEFINE rs == s.rows
           ts == [rs EXCEPT ![old].open = FALSE, ![old].next = new]
<1>1. /\ s \in [rows : Seq(Row), facts : Seq(Fact), bumped : BOOLEAN]
      /\ rs \in Seq(Row) /\ s.facts \in Seq(Fact) /\ Len(rs) \in Nat
      /\ \A r \in 1..Len(rs) : rs[r] \in Row
    BY DEF StoreTyped
<1>2. /\ t = [s EXCEPT !.rows = ts, !.facts = CloseFacts(s.facts, old)]
    BY <1>1 DEF Retire
<1>3. t.rows = ts /\ t.facts = CloseFacts(s.facts, old) /\ t.bumped = s.bumped
    BY <1>1, <1>2
<1>4. ASSUME NEW r \in 1..Len(rs)
      PROVE  /\ ts[r] \in Row
             /\ ts[r].text = rs[r].text /\ ts[r].status = rs[r].status
             /\ ts[r].ttl = rs[r].ttl /\ ts[r].version = rs[r].version
             /\ ts[r].parent = rs[r].parent
             /\ ts[r].open = (rs[r].open /\ r # old)
             /\ ts[r].next = IF r = old THEN new ELSE rs[r].next
    <2>1. rs[r] \in Row /\ new \in Nat
        BY <1>1, <1>4
    <2>2. ts[r] = IF r = old THEN [rs[r] EXCEPT !.open = FALSE, !.next = new] ELSE rs[r]
        <3>1. DOMAIN rs = 1..Len(rs)
            BY <1>1
        <3> HIDE DEF rs
        <3> QED BY <1>4, <3>1
    <2> HIDE DEF ts, rs
    <2>3. CASE r = old
        <3>1. ts[r] = [rs[r] EXCEPT !.open = FALSE, !.next = new]
            BY <2>2, <2>3
        <3> QED BY ONLY <2>1, <2>3, <3>1 DEF Row
    <2>4. CASE r # old
        <3>1. ts[r] = rs[r]
            BY <2>2, <2>4
        <3> QED BY ONLY <2>1, <2>4, <3>1 DEF Row
    <2> QED BY <2>3, <2>4
<1>5. ts \in [1..Len(rs) -> Row]
    <2>1. ts = [r \in 1..Len(rs) |-> ts[r]]
        <3>1. DOMAIN rs = 1..Len(rs)
            BY <1>1
        <3> HIDE DEF rs
        <3> QED BY <3>1
    <2> HIDE DEF ts
    <2> QED BY <1>4, <2>1
<1> HIDE DEF ts
<1>6. ts \in Seq(Row) /\ Len(ts) = Len(rs)
    <2> HIDE DEF rs
    <2>1. Len(rs) \in Nat
        BY <1>1
    <2> QED BY ONLY <1>5, <2>1
<1>7. RowsTyped(ts)
    <2>1. \A r \in 1..Len(rs) : rs[r].parent \in 0..Len(rs) /\ rs[r].next \in 0..Len(rs)
        BY DEF StoreTyped, RowsTyped
    <2>2. new \in 0..Len(rs)
        BY <1>1
    <2> HIDE DEF rs
    <2> QED BY <1>4, <1>6, <2>1, <2>2 DEF RowsTyped
<1>8. /\ CloseFacts(s.facts, old) \in Seq(Fact)
      /\ Len(CloseFacts(s.facts, old)) = Len(s.facts)
      /\ \A f \in 1..Len(s.facts) : CloseFacts(s.facts, old)[f].mem = s.facts[f].mem
    BY <1>1, CloseFactsIs
<1>9. FactsTyped(ts, CloseFacts(s.facts, old))
    <2>1. \A f \in 1..Len(s.facts) : s.facts[f].mem \in 1..Len(rs)
        BY DEF StoreTyped, FactsTyped
    <2> HIDE DEF rs
    <2> QED BY <1>6, <1>8, <2>1 DEF FactsTyped
<1>10. t \in [rows : Seq(Row), facts : Seq(Fact), bumped : BOOLEAN]
    BY <1>1, <1>2, <1>6, <1>8
<1>11. StoreTyped(t)
    BY <1>3, <1>7, <1>9, <1>10 DEF StoreTyped
<1>12. Same(rs, t.rows)
    BY <1>3, <1>4 DEF Same
<1> QED BY <1>3, <1>4, <1>6, <1>8, <1>11, <1>12 DEF Retired

\* What linking old and m does, if it does anything.
Linked(s, t, old, m) ==
    /\ StoreTyped(t) /\ Len(t.rows) = Len(s.rows) /\ t.bumped
    /\ t.facts = CloseFacts(s.facts, old) /\ Len(t.facts) = Len(s.facts)
    /\ Same(s.rows, t.rows)
    /\ \A r \in 1..Len(s.rows) :
        /\ t.rows[r].version = IF r = m THEN s.rows[old].version + 1
                               ELSE s.rows[r].version
        /\ t.rows[r].parent = IF r = m THEN old ELSE s.rows[r].parent
        /\ t.rows[r].open = (s.rows[r].open /\ r # old)
        /\ t.rows[r].next = IF r = old THEN m ELSE s.rows[r].next

LEMMA LinkIs ==
    ASSUME NEW s, StoreTyped(s), NEW old \in 1..Len(s.rows), NEW m \in 1..Len(s.rows),
           old # m, Linkable(s.rows, old, m), NEW t, t = Link(s, old, m)
    PROVE  Linked(s, t, old, m)
<1> DEFINE rs == s.rows
           v == rs[old].version + 1
           ls == [rs EXCEPT ![m].version = v, ![m].parent = old]
           l == [s EXCEPT !.rows = ls, !.bumped = TRUE]
<1>1. /\ s \in [rows : Seq(Row), facts : Seq(Fact), bumped : BOOLEAN]
      /\ rs \in Seq(Row) /\ s.facts \in Seq(Fact) /\ Len(rs) \in Nat
      /\ \A r \in 1..Len(rs) : rs[r] \in Row
    BY DEF StoreTyped
<1>2. t = Retire(l, old, m)
    BY DEF Link
<1>3. l.rows = ls /\ l.facts = s.facts /\ l.bumped = TRUE
    BY <1>1
<1>4. v \in Nat \ {0}
    <2>1. rs[old] \in Row
        BY <1>1
    <2>2. rs[old].version \in Nat
        BY <2>1 DEF Row
    <2> QED BY <2>2
<1>5. ASSUME NEW r \in 1..Len(rs)
      PROVE  /\ ls[r] \in Row
             /\ ls[r].text = rs[r].text /\ ls[r].status = rs[r].status
             /\ ls[r].ttl = rs[r].ttl
             /\ ls[r].version = IF r = m THEN v ELSE rs[r].version
             /\ ls[r].parent = IF r = m THEN old ELSE rs[r].parent
             /\ ls[r].open = rs[r].open /\ ls[r].next = rs[r].next
    <2>1. rs[r] \in Row /\ old \in Nat
        BY <1>1, <1>5
    <2>2. ls[r] = IF r = m THEN [rs[r] EXCEPT !.version = v, !.parent = old] ELSE rs[r]
        <3>1. DOMAIN rs = 1..Len(rs)
            BY <1>1
        <3> HIDE DEF rs, v
        <3> QED BY <1>5, <3>1
    <2> HIDE DEF ls, rs, v
    <2> QED BY <1>4, <2>1, <2>2 DEF Row
<1>6. ls \in [1..Len(rs) -> Row]
    <2>1. ls = [r \in 1..Len(rs) |-> ls[r]]
        <3>1. DOMAIN rs = 1..Len(rs)
            BY <1>1
        <3> HIDE DEF rs, v
        <3> QED BY <3>1
    <2> HIDE DEF ls
    <2> QED BY <1>5, <2>1
<1>7. l \in [rows : Seq(Row), facts : Seq(Fact), bumped : BOOLEAN]
      /\ ls \in Seq(Row) /\ Len(ls) = Len(rs)
    <2> HIDE DEF ls
    <2>1. ls \in Seq(Row) /\ Len(ls) = Len(rs)
        <3> HIDE DEF rs
        <3>1. Len(rs) \in Nat
            BY <1>1
        <3> QED BY ONLY <1>6, <3>1
    <2> QED BY <1>1, <2>1
<1> HIDE DEF ls, v, l
<1>8. RowsTyped(ls)
    <2>1. \A r \in 1..Len(rs) : rs[r].parent \in 0..Len(rs) /\ rs[r].next \in 0..Len(rs)
        BY DEF StoreTyped, RowsTyped
    <2>2. old \in 0..Len(rs)
        BY <1>1
    <2> HIDE DEF rs
    <2> QED BY <1>5, <1>7, <2>1, <2>2 DEF RowsTyped
<1>9. FactsTyped(ls, s.facts)
    BY <1>7 DEF StoreTyped, FactsTyped
<1>10. StoreTyped(l)
    BY <1>3, <1>7, <1>8, <1>9 DEF StoreTyped
<1>11. old \in 1..Len(l.rows) /\ m \in 1..Len(l.rows) /\ Len(l.rows) = Len(rs)
    BY <1>3, <1>7
<1>12. /\ StoreTyped(t) /\ Len(t.rows) = Len(rs) /\ t.bumped
       /\ t.facts = CloseFacts(s.facts, old) /\ Len(t.facts) = Len(s.facts)
       /\ Same(ls, t.rows)
       /\ \A r \in 1..Len(rs) :
            /\ t.rows[r].version = ls[r].version /\ t.rows[r].parent = ls[r].parent
            /\ t.rows[r].open = (ls[r].open /\ r # old)
            /\ t.rows[r].next = IF r = old THEN m ELSE ls[r].next
    <2>1. Retired(l, t, old, m)
        BY <1>2, <1>10, <1>11, RetireIs
    <2> HIDE DEF rs
    <2> QED BY <1>3, <1>11, <2>1 DEF Retired
<1>13. Same(rs, t.rows)
    <2>1. \A r \in 1..Len(rs) : /\ ls[r].text = rs[r].text
                                /\ ls[r].status = rs[r].status /\ ls[r].ttl = rs[r].ttl
        BY <1>5
    <2>2. Len(ls) = Len(rs) /\ Same(ls, t.rows)
        BY <1>7, <1>12
    <2> HIDE DEF rs
    <2> QED BY <2>1, <2>2 DEF Same
<1> QED BY <1>5, <1>12, <1>13 DEF v, Linked
-----------------------------------------------------------------------------
\* One fact is closed, one is added.

CloseOne(s, f) == [s EXCEPT !.facts = [s.facts EXCEPT ![f].open = FALSE]]
AddOne(s, k, m) ==
    [s EXCEPT !.facts = Append(@, [key |-> k, mem |-> m, open |-> TRUE])]

LEMMA CloseOneIs ==
    ASSUME NEW s, StoreTyped(s), NEW f \in 1..Len(s.facts), NEW c, c = CloseOne(s, f)
    PROVE  /\ StoreTyped(c) /\ c.rows = s.rows /\ c.bumped = s.bumped
           /\ Len(c.facts) = Len(s.facts)
           /\ \A g \in 1..Len(s.facts) :
                /\ c.facts[g].key = s.facts[g].key /\ c.facts[g].mem = s.facts[g].mem
                /\ c.facts[g].open = (s.facts[g].open /\ g # f)
<1> DEFINE fs == s.facts
           cs == [fs EXCEPT ![f].open = FALSE]
<1>1. /\ s \in [rows : Seq(Row), facts : Seq(Fact), bumped : BOOLEAN]
      /\ fs \in Seq(Fact) /\ Len(fs) \in Nat
      /\ DOMAIN fs = 1..Len(fs) /\ \A g \in 1..Len(fs) : fs[g] \in Fact
    BY DEF StoreTyped
<1>2. /\ c = [s EXCEPT !.facts = cs]
      /\ c.rows = s.rows /\ c.bumped = s.bumped /\ c.facts = cs
    BY <1>1 DEF CloseOne
<1>3. ASSUME NEW g \in 1..Len(fs)
      PROVE  /\ cs[g] \in Fact /\ cs[g].key = fs[g].key /\ cs[g].mem = fs[g].mem
             /\ cs[g].open = (fs[g].open /\ g # f)
    <2>1. fs[g] \in Fact
        BY <1>1, <1>3
    <2>2. cs[g] = IF g = f THEN [fs[g] EXCEPT !.open = FALSE] ELSE fs[g]
        <3> HIDE DEF fs
        <3> QED BY <1>1, <1>3
    <2> HIDE DEF cs, fs
    <2> QED BY <2>1, <2>2 DEF Fact
<1>4. cs \in [1..Len(fs) -> Fact]
    <2>1. cs = [g \in 1..Len(fs) |-> cs[g]]
        <3> HIDE DEF fs
        <3> QED BY <1>1
    <2> HIDE DEF cs
    <2> QED BY <1>3, <2>1
<1> HIDE DEF cs
<1>5. cs \in Seq(Fact) /\ Len(cs) = Len(fs)
    BY <1>1, <1>4
<1>6. FactsTyped(s.rows, cs) /\ RowsTyped(s.rows)
    <2>1. \A g \in 1..Len(fs) : fs[g].mem \in 1..Len(s.rows)
        BY DEF StoreTyped, FactsTyped
    <2> QED BY <1>3, <1>5, <2>1 DEF FactsTyped, StoreTyped
<1>7. c \in [rows : Seq(Row), facts : Seq(Fact), bumped : BOOLEAN]
    BY <1>1, <1>2, <1>5
<1> QED BY <1>2, <1>3, <1>5, <1>6, <1>7 DEF StoreTyped

LEMMA AddOneIs ==
    ASSUME NEW s, StoreTyped(s), NEW k \in Keys, NEW m \in 1..Len(s.rows),
           NEW c, c = AddOne(s, k, m)
    PROVE  /\ StoreTyped(c) /\ c.rows = s.rows /\ c.bumped = s.bumped
           /\ Len(c.facts) = Len(s.facts) + 1
           /\ \A g \in 1..Len(s.facts) : c.facts[g] = s.facts[g]
           /\ LET n == Len(s.facts) + 1 IN
              c.facts[n].key = k /\ c.facts[n].mem = m /\ c.facts[n].open
<1> DEFINE fs == s.facts
           e == [key |-> k, mem |-> m, open |-> TRUE]
           cs == Append(fs, e)
<1>1. /\ s \in [rows : Seq(Row), facts : Seq(Fact), bumped : BOOLEAN]
      /\ fs \in Seq(Fact) /\ Len(fs) \in Nat /\ Len(s.rows) \in Nat
    BY DEF StoreTyped
<1>2. /\ c = [s EXCEPT !.facts = cs]
      /\ c.rows = s.rows /\ c.bumped = s.bumped /\ c.facts = cs
    BY <1>1 DEF AddOne
<1>3. e \in Fact /\ e.key = k /\ e.mem = m /\ e.open
    BY DEF Fact
<1> HIDE DEF e, fs
<1>4. /\ cs \in Seq(Fact) /\ Len(cs) = Len(fs) + 1 /\ cs[Len(fs) + 1] = e
      /\ \A g \in 1..Len(fs) : cs[g] = fs[g]
    BY <1>1, <1>3
<1> HIDE DEF cs
<1>5. FactsTyped(s.rows, cs) /\ RowsTyped(s.rows)
    <2>1. \A g \in 1..Len(fs) : fs[g].mem \in 1..Len(s.rows)
        BY DEF StoreTyped, FactsTyped, fs
    <2>2. \A g \in 1..Len(cs) : g \in 1..Len(fs) \/ g = Len(fs) + 1
        BY <1>1, <1>4
    <2> QED BY <1>3, <1>4, <2>1, <2>2 DEF FactsTyped, StoreTyped
<1>6. c \in [rows : Seq(Row), facts : Seq(Fact), bumped : BOOLEAN]
    BY <1>1, <1>2, <1>4
<1>7. StoreTyped(c)
    BY <1>2, <1>5, <1>6 DEF StoreTyped
<1> QED BY <1>2, <1>3, <1>4, <1>7 DEF fs

\* Closing a fact may close its memory in favour of m.
Displaced(m, c, old, t) ==
    \/ t = c
    \/ old # m /\ OpenFacts(c.facts, old) = {} /\ Linkable(c.rows, old, m)
       /\ t = Link(c, old, m)

LEMMA DisplaceIs ==
    ASSUME NEW s, StoreTyped(s), NEW m \in 1..Len(s.rows), NEW f \in 1..Len(s.facts),
           NEW c, c = CloseOne(s, f), NEW old, old = s.facts[f].mem
    PROVE  /\ old \in 1..Len(s.rows)
           /\ Displaced(m, c, old, Displace(m, s, f))
<1>1. old \in 1..Len(s.rows)
    BY DEF StoreTyped, FactsTyped
<1>2. c.facts = [s.facts EXCEPT ![f].open = FALSE]
    BY DEF CloseOne, StoreTyped
<1>3. Displace(m, s, f) = IF old # m /\ OpenFacts(c.facts, old) = {} THEN Link(c, old, m)
                          ELSE c
    BY <1>2, Zenon DEF Displace, CloseOne
<1>4. ~Linkable(c.rows, old, m) => Link(c, old, m) = c
    BY DEF Link
<1> QED BY <1>1, <1>3, <1>4 DEF Displaced

LEMMA DisplaceMoves ==
    ASSUME NEW s, StoreTyped(s), NEW m \in 1..Len(s.rows), NEW f \in 1..Len(s.facts),
           NEW t, t = Displace(m, s, f)
    PROVE  Moved(s, t, m) /\ Len(t.facts) = Len(s.facts)
<1> DEFINE c == CloseOne(s, f)
           old == s.facts[f].mem
<1>1. /\ StoreTyped(c) /\ c.rows = s.rows /\ c.bumped = s.bumped
      /\ Len(c.facts) = Len(s.facts)
    BY CloseOneIs
<1>2. /\ old \in 1..Len(s.rows)
      /\ t = c \/ (old # m /\ Linkable(c.rows, old, m) /\ t = Link(c, old, m))
    BY DisplaceIs DEF Displaced
<1> HIDE DEF c, old
<1>3. CASE t = c
    BY <1>1, <1>3 DEF Moved, Same
<1>4. CASE old # m /\ Linkable(c.rows, old, m) /\ t = Link(c, old, m)
    <2>1. /\ StoreTyped(t) /\ Len(t.rows) = Len(s.rows) /\ t.bumped
          /\ Len(t.facts) = Len(s.facts)
          /\ Same(s.rows, t.rows)
          /\ \A r \in 1..Len(s.rows) :
                /\ t.rows[r].version = IF r = m THEN s.rows[old].version + 1
                                       ELSE s.rows[r].version
                /\ t.rows[r].parent = IF r = m THEN old ELSE s.rows[r].parent
                /\ t.rows[r].open = (s.rows[r].open /\ r # old)
                /\ t.rows[r].next = IF r = old THEN m ELSE s.rows[r].next
        <3>1. old \in 1..Len(c.rows) /\ m \in 1..Len(c.rows)
            BY <1>1, <1>2
        <3>2. /\ StoreTyped(t) /\ Len(t.rows) = Len(c.rows) /\ t.bumped
              /\ Len(t.facts) = Len(c.facts)
              /\ Same(c.rows, t.rows)
              /\ \A r \in 1..Len(c.rows) :
                    /\ t.rows[r].version = IF r = m THEN c.rows[old].version + 1
                                           ELSE c.rows[r].version
                    /\ t.rows[r].parent = IF r = m THEN old ELSE c.rows[r].parent
                    /\ t.rows[r].open = (c.rows[r].open /\ r # old)
                    /\ t.rows[r].next = IF r = old THEN m ELSE c.rows[r].next
            <4>1. Linked(c, t, old, m)
                BY <1>1, <1>4, <3>1, LinkIs
            <4> QED BY <4>1 DEF Linked
        <3> QED BY <1>1, <3>2
    <2>2. Closed(s.rows) => Closed(t.rows)
        <3> SUFFICES ASSUME Closed(s.rows), NEW r \in 1..Len(s.rows)
                     PROVE  /\ t.rows[r].next # None => ~t.rows[r].open
                            /\ t.rows[r].parent # None => ~t.rows[t.rows[r].parent].open
            BY <2>1 DEF Closed
        <3>1. t.rows[r].next # None => ~t.rows[r].open
            BY <2>1 DEF Closed
        <3>2. t.rows[r].parent # None => ~t.rows[t.rows[r].parent].open
            <4>1. CASE r = m
                BY <1>2, <2>1, <4>1
            <4>2. CASE r # m /\ s.rows[r].parent # None
                <5>1. s.rows[r].parent \in 0..Len(s.rows)
                    BY DEF StoreTyped, RowsTyped
                <5>2. Len(s.rows) \in Nat
                    BY DEF StoreTyped, RowsTyped
                <5>3. s.rows[r].parent \in 1..Len(s.rows) /\ ~s.rows[s.rows[r].parent].open
                    BY <4>2, <5>1, <5>2 DEF Closed, None
                <5> QED BY <2>1, <4>2, <5>3
            <4>3. CASE r # m /\ s.rows[r].parent = None
                BY <2>1, <4>3
            <4> QED BY <4>1, <4>2, <4>3
        <3> QED BY <3>1, <3>2
    <2>3. \A r \in 1..Len(s.rows) :
            /\ r # m => t.rows[r].version = s.rows[r].version
                        /\ t.rows[r].parent = s.rows[r].parent
            /\ \/ t.rows[r].open = s.rows[r].open /\ t.rows[r].next = s.rows[r].next
               \/ r # m /\ ~t.rows[r].open /\ t.rows[r].next = m
        <3> SUFFICES ASSUME NEW r \in 1..Len(s.rows)
                     PROVE  /\ r # m => t.rows[r].version = s.rows[r].version
                                        /\ t.rows[r].parent = s.rows[r].parent
                            /\ \/ t.rows[r].open = s.rows[r].open
                                  /\ t.rows[r].next = s.rows[r].next
                               \/ r # m /\ ~t.rows[r].open /\ t.rows[r].next = m
            OBVIOUS
        <3>1. CASE r = old
            BY <1>4, <2>1, <3>1
        <3>2. CASE r # old
            <4>1. s.rows[r].open \in BOOLEAN
                <5>1. s.rows[r] \in Row
                    BY DEF StoreTyped, RowsTyped
                <5> QED BY <5>1 DEF Row
            <4> QED BY <2>1, <3>2, <4>1
        <3> QED BY <3>1, <3>2
    <2> QED BY <2>1, <2>2, <2>3 DEF Moved
<1> QED BY <1>2, <1>3, <1>4
-----------------------------------------------------------------------------
\* The loops over the facts to close and over the keys of an item's triples.

Closes(m, added, closing, k, done) ==
    done = [f \in 0..k |-> IF f = 0 THEN added
                           ELSE IF f \in closing THEN Displace(m, done[f - 1], f)
                           ELSE done[f - 1]]

LEMMA ClosesExists ==
    ASSUME NEW m, NEW added, NEW closing, NEW k \in Nat
    PROVE  \E done : Closes(m, added, closing, k, done)
<1> DEFINE Bad == { n \in Nat : ~ \E done : Closes(m, added, closing, n, done) }
           Over(x, n) == IF n \in closing THEN Displace(m, x, n) ELSE x
<1>1. SUFFICES ASSUME Bad # {} PROVE FALSE
    OBVIOUS
<1>2. PICK j \in Bad : \A x \in Bad : j <= x
    <2>1. Bad \subseteq Nat
        OBVIOUS
    <2> HIDE DEF Bad
    <2> QED BY <1>1, <2>1, LeastNat
<1>3. CASE j = 0
    <2> DEFINE f == [n \in 0..0 |-> added]
    <2>1. Closes(m, added, closing, 0, f)
        BY DEF Closes
    <2> QED BY <1>3, <2>1
<1>4. CASE j # 0
    <2>1. j - 1 \in Nat /\ j \in Nat /\ j - 1 \notin Bad
        BY <1>2, <1>4
    <2>2. PICK f : Closes(m, added, closing, j - 1, f)
        BY <2>1
    <2> DEFINE g == [n \in 0..j |-> IF n = j THEN Over(f[j - 1], j) ELSE f[n]]
    <2>3. \A n \in 0..(j - 1) :
            /\ f[n] = IF n = 0 THEN added ELSE Over(f[n - 1], n)
            /\ g[n] = f[n] /\ n \in 0..j /\ n # j
        <3>1. \A n \in 0..(j - 1) : n \in 0..j /\ n # j
            BY <2>1
        <3>2. \A n \in 0..(j - 1) : f[n] = IF n = 0 THEN added ELSE Over(f[n - 1], n)
            <4>1. f = [n \in 0..(j - 1) |-> IF n = 0 THEN added ELSE Over(f[n - 1], n)]
                BY <2>2, Zenon DEF Closes
            <4> HIDE DEF Over
            <4> QED BY <4>1
        <3> HIDE DEF Over
        <3> QED BY <3>1, <3>2
    <2> HIDE DEF Over
    <2>4. g[j] = Over(f[j - 1], j) /\ j - 1 \in 0..(j - 1) /\ g[j - 1] = f[j - 1]
        BY <2>1, <2>3
    <2>5. \A n \in 0..j : g[n] = IF n = 0 THEN added ELSE Over(g[n - 1], n)
        <3> SUFFICES ASSUME NEW n \in 0..j
                     PROVE  g[n] = IF n = 0 THEN added ELSE Over(g[n - 1], n)
            OBVIOUS
        <3> HIDE DEF g
        <3>1. CASE n = j
            BY <1>4, <2>4, <3>1
        <3>2. CASE n # j /\ n # 0
            <4>1. n \in 0..(j - 1) /\ n - 1 \in 0..(j - 1)
                BY <2>1, <3>2
            <4> QED BY <2>3, <3>2, <4>1
        <3>3. CASE n = 0
            <4>1. 0 \in 0..(j - 1)
                BY <2>1
            <4> QED BY <2>3, <3>3, <4>1
        <3> QED BY <3>1, <3>2, <3>3
    <2>6. g = [n \in 0..j |-> g[n]]
        OBVIOUS
    <2> HIDE DEF g
    <2>7. g = [n \in 0..j |-> IF n = 0 THEN added ELSE Over(g[n - 1], n)]
        BY <2>5, <2>6
    <2>8. Closes(m, added, closing, j, g)
        BY <2>7, Zenon DEF Closes, Over
    <2> QED BY <1>2, <2>8
<1> QED BY <1>3, <1>4

LEMMA AddFactIs ==
    ASSUME NEW s, StoreTyped(s), NEW k, NEW m, NEW closing
    PROVE  \E done :
            /\ AddFact(s, k, m, closing) = done[Len(s.facts)]
            /\ done[0] = AddOne(s, k, m)
            /\ \A f \in 1..Len(s.facts) :
                /\ f - 1 \in 0..Len(s.facts)
                /\ f \in closing => done[f] = Displace(m, done[f - 1], f)
                /\ f \notin closing => done[f] = done[f - 1]
<1> DEFINE n == Len(s.facts)
           added == AddOne(s, k, m)
           done == CHOOSE d : Closes(m, added, closing, n, d)
<1>1. n \in Nat
    BY DEF StoreTyped
<1>2. AddFact(s, k, m, closing) = done[n]
    BY Zenon DEF AddFact, AddOne, Closes
<1>3. Closes(m, added, closing, n, done)
    <2> HIDE DEF added
    <2> QED BY <1>1, ClosesExists
<1> HIDE DEF done, added
<1>4. /\ done[0] = added
      /\ \A f \in 0..n : f # 0 =>
            done[f] = IF f \in closing THEN Displace(m, done[f - 1], f) ELSE done[f - 1]
    <2>1. done = [f \in 0..n |-> IF f = 0 THEN added
                           ELSE IF f \in closing THEN Displace(m, done[f - 1], f)
                           ELSE done[f - 1]]
        BY <1>3, Zenon DEF Closes
    <2>2. 0 \in 0..n
        BY <1>1
    <2> HIDE DEF n
    <2>3. \A f \in 0..n : done[f] = IF f = 0 THEN added
                           ELSE IF f \in closing THEN Displace(m, done[f - 1], f)
                           ELSE done[f - 1]
        BY <2>1, Zenon
    <2> QED BY <2>2, <2>3, Zenon
<1>5. \A f \in 1..n : f \in 0..n /\ f # 0 /\ f - 1 \in 0..n
    BY <1>1
<1> HIDE DEF n
<1>6. /\ AddFact(s, k, m, closing) = done[n] /\ done[0] = added
      /\ \A f \in 1..n :
            /\ f - 1 \in 0..n
            /\ f \in closing => done[f] = Displace(m, done[f - 1], f)
            /\ f \notin closing => done[f] = done[f - 1]
    BY <1>2, <1>4, <1>5
<1> QED BY <1>6 DEF n, added

LEMMA AddFactMoves ==
    ASSUME NEW s, StoreTyped(s), NEW k \in Keys, NEW m \in 1..Len(s.rows), NEW closing,
           NEW t, t = AddFact(s, k, m, closing)
    PROVE  Moved(s, t, m) /\ Len(t.facts) = Len(s.facts) + 1
<1> DEFINE n == Len(s.facts)
<1>0. n \in Nat
    BY DEF StoreTyped
<1>1. PICK done :
            /\ t = done[n]
            /\ done[0] = AddOne(s, k, m)
            /\ \A f \in 1..n :
                /\ f - 1 \in 0..n
                /\ f \in closing => done[f] = Displace(m, done[f - 1], f)
                /\ f \notin closing => done[f] = done[f - 1]
    BY AddFactIs
<1> HIDE DEF n
<1> DEFINE Good(f) == Moved(s, done[f], m) /\ Len(done[f].facts) = n + 1
           Bad == { f \in 0..n : ~ Good(f) }
<1>2. Good(0)
    <2>1. /\ StoreTyped(done[0]) /\ done[0].rows = s.rows /\ done[0].bumped = s.bumped
          /\ Len(done[0].facts) = n + 1
        BY <1>1, AddOneIs DEF n
    <2> HIDE DEF Bad
    <2> QED BY <2>1 DEF Moved, Same
<1>3. Bad = {}
    <2> SUFFICES ASSUME Bad # {} PROVE FALSE
        OBVIOUS
    <2>1. PICK f \in Bad : \A x \in Bad : f <= x
        <3>1. Bad \subseteq Nat
            BY <1>0
        <3> HIDE DEF Bad
        <3> QED BY <3>1, LeastNat
    <2>2. f \in 0..n /\ ~ Good(f)
        BY <2>1
    <2> HIDE DEF Good
    <2>3. f # 0
        BY <1>2, <2>2
    <2>4. f \in 1..n /\ f - 1 \in 0..n /\ f - 1 \notin Bad
        <3> HIDE DEF Bad
        <3> QED BY <1>0, <2>1, <2>2, <2>3
    <2>5. Good(f - 1)
        BY <2>4
    <2> DEFINE p == done[f - 1]
    <2>6. Moved(s, p, m) /\ Len(p.facts) = n + 1
        BY <2>5 DEF Good
    <2>7. done[f] = p \/ done[f] = Displace(m, p, f)
        BY <1>1, <2>4
    <2> HIDE DEF p, Bad
    <2>8. StoreTyped(p) /\ m \in 1..Len(p.rows)
        BY <2>6 DEF Moved
    <2>9. f \in 1..Len(p.facts)
        BY <1>0, <2>4, <2>6
    <2>10. CASE done[f] = Displace(m, p, f)
        <3>1. Moved(p, done[f], m) /\ Len(done[f].facts) = n + 1
            BY <2>6, <2>8, <2>9, <2>10, DisplaceMoves
        <3> QED BY <2>2, <2>6, <3>1, MovedOn DEF Good
    <2> QED BY <2>2, <2>6, <2>7, <2>10 DEF Good
<1>4. Good(n)
    BY <1>0, <1>3
<1> QED BY <1>1, <1>4 DEF n
Indexes(s, keys, m, k, indexed) ==
    indexed = [n \in 0..k |-> IF n = 0 THEN s
                              ELSE AddFact(indexed[n - 1], keys[n], m,
                                           Closing(indexed[n - 1].facts, keys[n]))]

LEMMA IndexesExists ==
    ASSUME NEW s, NEW keys, NEW m, NEW k \in Nat
    PROVE  \E indexed : Indexes(s, keys, m, k, indexed)
<1> DEFINE Bad == { n \in Nat : ~ \E indexed : Indexes(s, keys, m, n, indexed) }
           Over(x, n) == AddFact(x, keys[n], m, Closing(x.facts, keys[n]))
<1>1. SUFFICES ASSUME Bad # {} PROVE FALSE
    OBVIOUS
<1>2. PICK j \in Bad : \A x \in Bad : j <= x
    <2>1. Bad \subseteq Nat
        OBVIOUS
    <2> HIDE DEF Bad
    <2> QED BY <1>1, <2>1, LeastNat
<1>3. CASE j = 0
    <2> DEFINE f == [n \in 0..0 |-> s]
    <2>1. Indexes(s, keys, m, 0, f)
        BY DEF Indexes
    <2> QED BY <1>3, <2>1
<1>4. CASE j # 0
    <2>1. j - 1 \in Nat /\ j \in Nat /\ j - 1 \notin Bad
        BY <1>2, <1>4
    <2>2. PICK f : Indexes(s, keys, m, j - 1, f)
        BY <2>1
    <2> DEFINE g == [n \in 0..j |-> IF n = j THEN Over(f[j - 1], j) ELSE f[n]]
    <2>3. \A n \in 0..(j - 1) :
            /\ f[n] = IF n = 0 THEN s ELSE Over(f[n - 1], n)
            /\ g[n] = f[n] /\ n \in 0..j /\ n # j
        <3>1. \A n \in 0..(j - 1) : n \in 0..j /\ n # j
            BY <2>1
        <3>2. \A n \in 0..(j - 1) : f[n] = IF n = 0 THEN s ELSE Over(f[n - 1], n)
            <4>1. f = [n \in 0..(j - 1) |-> IF n = 0 THEN s ELSE Over(f[n - 1], n)]
                BY <2>2, Zenon DEF Indexes
            <4> HIDE DEF Over
            <4> QED BY <4>1
        <3> HIDE DEF Over
        <3> QED BY <3>1, <3>2
    <2> HIDE DEF Over
    <2>4. g[j] = Over(f[j - 1], j) /\ j - 1 \in 0..(j - 1) /\ g[j - 1] = f[j - 1]
        BY <2>1, <2>3
    <2>5. \A n \in 0..j : g[n] = IF n = 0 THEN s ELSE Over(g[n - 1], n)
        <3> SUFFICES ASSUME NEW n \in 0..j
                     PROVE  g[n] = IF n = 0 THEN s ELSE Over(g[n - 1], n)
            OBVIOUS
        <3> HIDE DEF g
        <3>1. CASE n = j
            BY <1>4, <2>4, <3>1
        <3>2. CASE n # j /\ n # 0
            <4>1. n \in 0..(j - 1) /\ n - 1 \in 0..(j - 1)
                BY <2>1, <3>2
            <4> QED BY <2>3, <3>2, <4>1
        <3>3. CASE n = 0
            <4>1. 0 \in 0..(j - 1)
                BY <2>1
            <4> QED BY <2>3, <3>3, <4>1
        <3> QED BY <3>1, <3>2, <3>3
    <2>6. g = [n \in 0..j |-> g[n]]
        OBVIOUS
    <2> HIDE DEF g
    <2>7. g = [n \in 0..j |-> IF n = 0 THEN s ELSE Over(g[n - 1], n)]
        BY <2>5, <2>6
    <2>8. Indexes(s, keys, m, j, g)
        BY <2>7, Zenon DEF Indexes, Over
    <2> QED BY <1>2, <2>8
<1> QED BY <1>3, <1>4

LEMMA IndexTriplesIs ==
    ASSUME NEW s, NEW keys \in Seq(Keys), NEW m
    PROVE  \E indexed :
            /\ IndexTriples(s, keys, m) = indexed[Len(keys)] /\ indexed[0] = s
            /\ \A n \in 1..Len(keys) :
                indexed[n] = AddFact(indexed[n - 1], keys[n], m,
                                     Closing(indexed[n - 1].facts, keys[n]))
<1> DEFINE L == Len(keys)
           Over(x, n) == AddFact(x, keys[n], m, Closing(x.facts, keys[n]))
           done == CHOOSE d : Indexes(s, keys, m, L, d)
<1>1. L \in Nat
    OBVIOUS
<1>2. IndexTriples(s, keys, m) = done[L]
    BY Zenon DEF IndexTriples, Indexes
<1>3. Indexes(s, keys, m, L, done)
    BY <1>1, IndexesExists
<1> HIDE DEF done
<1>4. done = [n \in 0..L |-> IF n = 0 THEN s ELSE Over(done[n - 1], n)]
    BY <1>3, Zenon DEF Indexes
<1> HIDE DEF Over
<1>5. \A n \in 0..L : done[n] = IF n = 0 THEN s ELSE Over(done[n - 1], n)
    <2> HIDE DEF L
    <2> QED BY <1>4, Zenon
<1>6. \A n \in 1..L : n \in 0..L /\ n # 0
    BY <1>1
<1>7. 0 \in 0..L
    BY <1>1
<1> HIDE DEF L
<1>8. done[0] = s /\ \A n \in 1..L : done[n] = Over(done[n - 1], n)
    BY <1>5, <1>6, <1>7, Zenon
<1> QED BY <1>2, <1>8, Zenon DEF L, Over

LEMMA IndexTriplesMoves ==
    ASSUME NEW s, StoreTyped(s), NEW keys \in Seq(Keys), NEW m \in 1..Len(s.rows),
           NEW t, t = IndexTriples(s, keys, m)
    PROVE  Moved(s, t, m) /\ Len(t.facts) = Len(s.facts) + Len(keys)
<1> DEFINE n == Len(keys)
           l == Len(s.facts)
<1>0. n \in Nat /\ l \in Nat /\ \A i \in 1..n : keys[i] \in Keys
    BY DEF StoreTyped
<1>1. PICK done :
            /\ t = done[n] /\ done[0] = s
            /\ \A i \in 1..n :
                done[i] = AddFact(done[i - 1], keys[i], m, Closing(done[i - 1].facts, keys[i]))
    BY IndexTriplesIs
<1> HIDE DEF n, l
<1> DEFINE Good(i) == Moved(s, done[i], m) /\ Len(done[i].facts) = l + i
           Bad == { i \in 0..n : ~ Good(i) }
<1>2. Good(0)
    <2>1. Moved(s, s, m)
        BY MovedNot
    <2> HIDE DEF Bad
    <2> QED BY <1>0, <1>1, <2>1 DEF l
<1>3. Bad = {}
    <2> SUFFICES ASSUME Bad # {} PROVE FALSE
        OBVIOUS
    <2>1. PICK i \in Bad : \A x \in Bad : i <= x
        <3>1. Bad \subseteq Nat
            BY <1>0
        <3> HIDE DEF Bad
        <3> QED BY <3>1, LeastNat
    <2>2. i \in 0..n /\ ~ Good(i)
        BY <2>1
    <2> HIDE DEF Good
    <2>3. i # 0
        BY <1>2, <2>2
    <2>4. i \in 1..n /\ i - 1 \in 0..n /\ i - 1 \notin Bad
        <3> HIDE DEF Bad
        <3> QED BY <1>0, <2>1, <2>2, <2>3
    <2>5. Good(i - 1)
        BY <2>4
    <2> DEFINE p == done[i - 1]
    <2>6. Moved(s, p, m) /\ Len(p.facts) = l + (i - 1)
        BY <2>5 DEF Good
    <2>7. done[i] = AddFact(p, keys[i], m, Closing(p.facts, keys[i])) /\ keys[i] \in Keys
        BY <1>0, <1>1, <2>4
    <2> HIDE DEF p, Bad
    <2>8. StoreTyped(p) /\ m \in 1..Len(p.rows)
        BY <2>6 DEF Moved
    <2>9. Moved(p, done[i], m) /\ Len(done[i].facts) = Len(p.facts) + 1
        BY <2>7, <2>8, AddFactMoves
    <2>10. Len(done[i].facts) = l + i
        BY <1>0, <2>4, <2>6, <2>9
    <2> QED BY <2>2, <2>6, <2>9, <2>10, MovedOn DEF Good
<1>4. Good(n)
    BY <1>0, <1>3
<1> QED BY <1>1, <1>4 DEF n, l
-----------------------------------------------------------------------------
\* The chains after a link, and the index after a fact.

LEMMA ChainedLink ==
    ASSUME NEW rs, NEW ts, RowsTyped(rs), RowsTyped(ts), Len(ts) = Len(rs),
           Closed(rs), Chained(rs),
           NEW old \in 1..Len(rs), NEW m \in 1..Len(rs), old # m,
           rs[m].open, rs[old].next = None,
           \A r \in 1..Len(rs) :
                /\ ts[r].version = IF r = m THEN rs[old].version + 1 ELSE rs[r].version
                /\ ts[r].parent = IF r = m THEN old ELSE rs[r].parent
                /\ ts[r].next = IF r = old THEN m ELSE rs[r].next
    PROVE  Chained(ts)
<1> DEFINE L == Len(rs)
<1>0. /\ L \in Nat /\ None \notin 1..L
      /\ \A r \in 1..L : rs[r].version \in Nat /\ rs[r].parent \in 0..L
    <2>1. L \in Nat /\ \A r \in 1..L : rs[r] \in Row /\ rs[r].parent \in 0..L
        BY DEF RowsTyped
    <2> QED BY <2>1 DEF Row, None
<1>1. PICK d \in [1..L -> 1..L] : Ranks(rs, d)
    BY DEF Chained
<1>2. PICK a \in [1..L -> 1..L] : Roots(rs, a) /\ Tops(rs, a)
    BY DEF Chained
<1>3. \A r \in 1..L : rs[r].parent # None => rs[r].parent \in 1..L /\ rs[r].parent # m
    BY <1>0 DEF Closed, None
<1>4. rs[m].next = None
    BY DEF Closed
<1>45. \A v : v \in 1..L => v \in Nat
    BY <1>0
<1> HIDE DEF L
<1>5. \E e \in [1..L -> 1..L] : Ranks(ts, e)
    <2> DEFINE e == [x \in 1..L |-> IF x = m THEN L
                                    ELSE IF d[x] > d[m] THEN d[x] - 1 ELSE d[x]]
    <2>1. /\ \A x \in 1..L : d[x] \in 1..L
          /\ \A x, y \in 1..L : d[x] = d[y] => x = y
          /\ \A x \in 1..L : rs[x].parent # None => d[rs[x].parent] < d[x]
        BY <1>1 DEF Ranks, L
    <2>2. \A x \in 1..L : x # m => d[x] # d[m]
        BY <2>1 DEF L
    <2>3. e[m] = L /\ L \in 1..L
        BY <1>0 DEF L
    <2>4. ASSUME NEW x \in 1..L, x # m
          PROVE  /\ e[x] \in 1..L /\ e[x] < L
                 /\ d[x] > d[m] => e[x] = d[x] - 1
                 /\ d[x] < d[m] => e[x] = d[x]
        <3>1. e[x] = IF d[x] > d[m] THEN d[x] - 1 ELSE d[x]
            BY <2>4
        <3>2. d[x] \in 1..L /\ d[m] \in 1..L /\ d[x] # d[m]
            BY <2>1, <2>2, <2>4 DEF L
        <3>3. \A u, v, w \in Nat : u \in 1..w /\ v \in 1..w /\ u # v =>
                LET i == IF u > v THEN u - 1 ELSE u IN
                i \in 1..w /\ i < w /\ (u > v => i = u - 1) /\ (u < v => i = u)
            OBVIOUS
        <3>4. d[x] \in Nat /\ d[m] \in Nat
            BY <1>45, <3>2
        <3>5. L \in Nat
            BY <1>0
        <3> HIDE DEF e
        <3> DEFINE i == IF d[x] > d[m] THEN d[x] - 1 ELSE d[x]
        <3>6. i \in 1..L /\ i < L /\ (d[x] > d[m] => i = d[x] - 1) /\ (d[x] < d[m] => i = d[x])
            BY <3>2, <3>3, <3>4, <3>5
        <3>7. e[x] = i
            BY <3>1
        <3> HIDE DEF i
        <3> QED BY <3>6, <3>7
    <2>5. e \in [1..L -> 1..L]
        <3>1. \A x \in 1..L : e[x] \in 1..L
            BY <2>3, <2>4
        <3>2. e = [x \in 1..L |-> e[x]]
            OBVIOUS
        <3> HIDE DEF e
        <3> QED BY <3>1, <3>2
    <2> HIDE DEF e
    <2>6. ASSUME NEW x \in 1..L, NEW y \in 1..L, e[x] = e[y] PROVE x = y
        <3>1. CASE x = m \/ y = m
            <4>1. \A i, j \in Nat : i = j => ~ (i < j) /\ ~ (j < i)
                OBVIOUS
            <4>2. e[x] \in Nat /\ e[y] \in Nat
                <5>1. e[x] \in 1..L /\ e[y] \in 1..L
                    BY <2>5
                <5> QED BY <1>0, <5>1
            <4>3. (x # m => e[x] < L) /\ (y # m => e[y] < L)
                BY <2>4
            <4> QED BY <2>3, <2>6, <3>1, <4>1, <4>2, <4>3
        <3>2. CASE x # m /\ y # m
            <4>1. d[x] \in 1..L /\ d[y] \in 1..L /\ d[m] \in 1..L /\ d[x] # d[m] /\ d[y] # d[m]
                BY <2>1, <2>2, <3>2 DEF L
            <4>2. /\ d[x] > d[m] => e[x] = d[x] - 1
                  /\ d[x] < d[m] => e[x] = d[x]
                  /\ d[y] > d[m] => e[y] = d[y] - 1
                  /\ d[y] < d[m] => e[y] = d[y]
                BY <2>4, <3>2
            <4>3. d[x] = d[y]
                <5>1. \A u, v, w, i, j \in Nat :
                        /\ u # w /\ v # w /\ i = j
                        /\ (u > w => i = u - 1) /\ (u < w => i = u)
                        /\ (v > w => j = v - 1) /\ (v < w => j = v)
                        => u = v
                    OBVIOUS
                <5>2. d[x] \in Nat /\ d[y] \in Nat /\ d[m] \in Nat
                    BY <1>45, <4>1
                <5>3. e[x] \in Nat /\ e[y] \in Nat
                    <6>1. e[x] \in 1..L /\ e[y] \in 1..L
                        BY <2>5
                    <6> QED BY <1>45, <6>1
                <5>4. d[x] # d[m] /\ d[y] # d[m]
                    BY <4>1
                <5> QED BY ONLY <2>6, <4>2, <5>1, <5>2, <5>3, <5>4
            <4> QED BY <2>1, <4>3
        <3> QED BY <3>1, <3>2
    <2>7. ASSUME NEW x \in 1..L, ts[x].parent # None PROVE e[ts[x].parent] < e[x]
        <3>1. CASE x = m
            <4>1. ts[x].parent = old
                BY <3>1 DEF L
            <4>2. e[old] < L
                BY <2>4 DEF L
            <4> QED BY <2>3, <3>1, <4>1, <4>2
        <3>2. CASE x # m
            <4> DEFINE p == rs[x].parent
            <4>1. ts[x].parent = p /\ p \in 1..L /\ p # m
                BY <1>3, <2>7, <3>2 DEF L
            <4>2. d[p] < d[x]
                BY <2>1, <2>7, <4>1
            <4> HIDE DEF p
            <4>3. d[x] \in 1..L /\ d[p] \in 1..L /\ d[m] \in 1..L /\ d[x] # d[m] /\ d[p] # d[m]
                BY <2>1, <2>2, <3>2, <4>1 DEF L
            <4>4. /\ d[x] > d[m] => e[x] = d[x] - 1
                  /\ d[x] < d[m] => e[x] = d[x]
                  /\ d[p] > d[m] => e[p] = d[p] - 1
                  /\ d[p] < d[m] => e[p] = d[p]
                BY <2>4, <3>2, <4>1
            <4>5. e[p] < e[x]
                <5>1. \A u, v, w, i, j \in Nat :
                        /\ u # w /\ v # w /\ u < v
                        /\ (u > w => i = u - 1) /\ (u < w => i = u)
                        /\ (v > w => j = v - 1) /\ (v < w => j = v)
                        => i < j
                    OBVIOUS
                <5>2. d[x] \in Nat /\ d[p] \in Nat /\ d[m] \in Nat
                    BY <1>45, <4>3
                <5>3. e[x] \in Nat /\ e[p] \in Nat
                    <6>1. e[x] \in 1..L /\ e[p] \in 1..L
                        BY <2>5, <4>1
                    <6> QED BY <1>45, <6>1
                <5> QED BY <4>2, <4>3, <4>4, <5>1, <5>2, <5>3
            <4> QED BY <4>1, <4>5
        <3> QED BY <3>1, <3>2
    <2>8. Ranks(ts, e)
        BY <2>5, <2>6, <2>7 DEF Ranks, L
    <2> QED BY <2>5, <2>8
<1>6. \E b \in [1..L -> 1..L] : Roots(ts, b) /\ Tops(ts, b)
    <2> DEFINE b == [x \in 1..L |-> IF x = m THEN a[old] ELSE a[x]]
    <2>1. b \in [1..L -> 1..L] /\ b[m] = a[old] /\ \A x \in 1..L : x # m => b[x] = a[x]
        BY <1>2 DEF L
    <2> HIDE DEF b
    <2>2. ASSUME NEW x \in 1..L
          PROVE  b[x] = IF ts[x].parent = None THEN x ELSE b[ts[x].parent]
        <3>1. CASE x = m
            <4>1. ts[x].parent = old /\ old # None /\ b[old] = a[old]
                BY <1>0, <2>1, <3>1 DEF L
            <4> QED BY <2>1, <3>1, <4>1
        <3>2. CASE x # m
            <4>1. ts[x].parent = rs[x].parent /\ b[x] = a[x]
                BY <2>1, <3>2 DEF L
            <4>2. a[x] = IF rs[x].parent = None THEN x ELSE a[rs[x].parent]
                BY <1>2 DEF Roots, L
            <4>3. rs[x].parent # None => b[rs[x].parent] = a[rs[x].parent]
                BY <1>3, <2>1
            <4> QED BY <4>1, <4>2, <4>3
        <3> QED BY <3>1, <3>2
    <2>3. Roots(ts, b)
        BY <2>1, <2>2 DEF Roots, L
    <2>4. ASSUME NEW r \in 1..L, NEW x \in 1..L, rs[r].next = None, a[x] = a[r], x # r
          PROVE  Below(rs, x, r)
        BY <1>2, <2>4 DEF Tops, L
    <2>5. ASSUME NEW r \in 1..L, NEW x \in 1..L, ts[r].next = None, b[x] = b[r], x # r
          PROVE  Below(ts, x, r)
        <3>1. r # old /\ rs[r].next = None
            <4>1. ts[r].next = IF r = old THEN m ELSE rs[r].next
                BY DEF L
            <4> QED BY <1>0, <2>5, <4>1 DEF L
        <3>2. CASE r = m
            <4>1. a[x] = a[old] /\ x # m
                BY <2>1, <2>5, <3>2
            <4>2. /\ ts[r].version = rs[old].version + 1 /\ ts[x].version = rs[x].version
                  /\ rs[old].version \in Nat /\ rs[x].version \in Nat
                BY <1>0, <3>2, <4>1 DEF L
            <4>3. CASE x = old
                BY <4>2, <4>3 DEF Below
            <4>4. CASE x # old
                <5>1. Below(rs, x, old)
                    BY <2>4, <4>1, <4>4 DEF L
                <5> QED BY <4>2, <5>1 DEF Below
            <4> QED BY <4>3, <4>4
        <3>3. CASE r # m /\ x = m
            <4>1. a[old] = a[r]
                BY <2>1, <2>5, <3>3
            <4>2. Below(rs, old, r) /\ Below(rs, r, old)
                BY <2>4, <3>1, <4>1 DEF L
            <4>3. rs[old].version \in Nat /\ rs[r].version \in Nat /\ r \in Nat /\ old \in Nat
                BY <1>0 DEF L
            <4> QED BY <4>2, <4>3 DEF Below
        <3>4. CASE r # m /\ x # m
            <4>1. a[x] = a[r]
                BY <2>1, <2>5, <3>4
            <4>2. Below(rs, x, r)
                BY <2>4, <2>5, <3>1, <4>1
            <4>3. ts[x].version = rs[x].version /\ ts[r].version = rs[r].version
                BY <3>4 DEF L
            <4> QED BY <4>2, <4>3 DEF Below
        <3> QED BY <3>2, <3>3, <3>4
    <2>6. Tops(ts, b)
        BY <2>5 DEF Tops, L
    <2> QED BY <2>1, <2>3, <2>6
<1> QED BY <1>5, <1>6 DEF Chained, L

\* The chains do not depend on anything but versions, parents and successors.
LEMMA ChainedSame ==
    ASSUME NEW rs, NEW ts, Len(ts) = Len(rs), Chained(rs),
           \A r \in 1..Len(rs) :
                /\ ts[r].version = rs[r].version /\ ts[r].parent = rs[r].parent
                /\ ts[r].next = rs[r].next
    PROVE  Chained(ts)
<1> DEFINE L == Len(rs)
<1>1. PICK d \in [1..L -> 1..L] : Ranks(rs, d)
    BY DEF Chained
<1>2. PICK a \in [1..L -> 1..L] : Roots(rs, a) /\ Tops(rs, a)
    BY DEF Chained
<1>3. Ranks(ts, d)
    BY <1>1 DEF Ranks
<1>4. Roots(ts, a)
    BY <1>2 DEF Roots
<1>5. Tops(ts, a)
    BY <1>2 DEF Tops, Below
<1> QED BY <1>1, <1>2, <1>3, <1>4, <1>5 DEF Chained

\* No two open facts have one key.
Alone(fs) ==
    \A f, g \in 1..Len(fs) : fs[f].open /\ fs[g].open /\ fs[f].key = fs[g].key => f = g
Backed(rs, fs) ==
    \A f \in 1..Len(fs) : fs[f].open => rs[fs[f].mem].next = None

LEMMA IndexedIs ==
    ASSUME NEW rs, NEW fs
    PROVE  Indexed(rs, fs) <=> Alone(fs) /\ Backed(rs, fs)
<1>1. ASSUME Indexed(rs, fs) PROVE Alone(fs)
    <2> SUFFICES ASSUME NEW f \in 1..Len(fs), NEW g \in 1..Len(fs), fs[f].open, fs[g].open,
                        fs[f].key = fs[g].key
                 PROVE  f = g
        BY DEF Alone
    <2>1. g \in Closing(fs, fs[f].key)
        BY DEF Closing
    <2> QED BY <1>1, <2>1 DEF Indexed
<1>2. ASSUME Alone(fs), NEW f \in 1..Len(fs), fs[f].open
      PROVE  Closing(fs, fs[f].key) = {f}
    BY <1>2 DEF Alone, Closing
<1> QED BY <1>1, <1>2 DEF Indexed, Backed

TrueStore(s, m) ==
    /\ StoreTyped(s) /\ Closed(s.rows) /\ Chained(s.rows) /\ Indexed(s.rows, s.facts)
    /\ m \in 1..Len(s.rows) /\ s.rows[m].open

LEMMA AddFactTrue ==
    ASSUME NEW s, NEW m, TrueStore(s, m), NEW k \in Keys,
           NEW t, t = AddFact(s, k, m, Closing(s.facts, k))
    PROVE  TrueStore(t, m)
<1> DEFINE n == Len(s.facts)
           c0 == AddOne(s, k, m)
<1>0. /\ n \in Nat /\ StoreTyped(s) /\ m \in 1..Len(s.rows) /\ s.rows[m].next = None
      /\ Alone(s.facts) /\ Backed(s.rows, s.facts)
    BY IndexedIs DEF TrueStore, StoreTyped, Closed
<1>1. /\ StoreTyped(c0) /\ c0.rows = s.rows /\ c0.bumped = s.bumped
      /\ Len(c0.facts) = n + 1
      /\ \A g \in 1..n : c0.facts[g] = s.facts[g]
      /\ c0.facts[n + 1].key = k /\ c0.facts[n + 1].mem = m /\ c0.facts[n + 1].open
    BY <1>0, AddOneIs
<1>2. Moved(s, t, m)
    BY <1>0, AddFactMoves
<1>3. PICK done :
            /\ t = done[n]
            /\ done[0] = c0
            /\ \A f \in 1..n :
                /\ f - 1 \in 0..n
                /\ f \in Closing(s.facts, k) => done[f] = Displace(m, done[f - 1], f)
                /\ f \notin Closing(s.facts, k) => done[f] = done[f - 1]
    BY <1>0, AddFactIs
<1>4. StoreTyped(t) /\ Closed(t.rows) /\ m \in 1..Len(t.rows) /\ t.rows[m].open
    BY <1>2 DEF Moved, TrueStore
<1> HIDE DEF n, c0
<1>5. \A g \in 1..(n + 1) : g \in 1..n \/ g = n + 1
    BY <1>0
<1>6. ASSUME Closing(s.facts, k) = {} PROVE Chained(t.rows) /\ Indexed(t.rows, t.facts)
    <2> DEFINE Bad == { f \in 0..n : done[f] # c0 }
    <2>1. Bad = {}
        <3> SUFFICES ASSUME Bad # {} PROVE FALSE
            OBVIOUS
        <3>1. PICK f \in Bad : \A x \in Bad : f <= x
            <4>1. Bad \subseteq Nat
                BY <1>0
            <4> HIDE DEF Bad
            <4> QED BY <4>1, LeastNat
        <3>2. f \in 0..n /\ done[f] # c0 /\ f # 0
            BY <1>3, <3>1
        <3>3. f \in 1..n /\ f - 1 \in 0..n /\ f - 1 \notin Bad
            <4> HIDE DEF Bad
            <4> QED BY <1>0, <3>1, <3>2
        <3>4. done[f - 1] = c0
            BY <3>3
        <3> QED BY <1>3, <1>6, <3>2, <3>3, <3>4
    <2>2. t = c0
        BY <1>0, <1>3, <2>1
    <2>3. \A g \in 1..n : s.facts[g].open => s.facts[g].key # k
        BY <1>6 DEF Closing, n
    <2>4. Alone(c0.facts)
        <3> SUFFICES ASSUME NEW f \in 1..(n + 1), NEW g \in 1..(n + 1),
                            c0.facts[f].open, c0.facts[g].open,
                            c0.facts[f].key = c0.facts[g].key
                     PROVE  f = g
            BY <1>1 DEF Alone
        <3>1. CASE f \in 1..n /\ g \in 1..n
            BY <1>0, <1>1, <3>1 DEF Alone, n
        <3>2. CASE f = n + 1 /\ g = n + 1
            BY <3>2
        <3>3. CASE (f \in 1..n /\ g = n + 1) \/ (f = n + 1 /\ g \in 1..n)
            BY <1>1, <2>3, <3>3
        <3> QED BY <1>5, <3>1, <3>2, <3>3
    <2>5. Backed(c0.rows, c0.facts)
        BY <1>0, <1>1, <1>5 DEF Backed, n
    <2>6. Chained(c0.rows)
        BY <1>1 DEF TrueStore
    <2> QED BY <2>2, <2>4, <2>5, <2>6, IndexedIs
<1>7. ASSUME NEW f \in Closing(s.facts, k) PROVE Chained(t.rows) /\ Indexed(t.rows, t.facts)
    <2> DEFINE old == s.facts[f].mem
               c == CloseOne(c0, f)
    <2>1. /\ f \in 1..n /\ s.facts[f].key = k /\ s.facts[f].open
          /\ \A g \in 1..n : s.facts[g].open /\ s.facts[g].key = k => g = f
          /\ Closing(s.facts, k) = {f}
        <3>1. f \in 1..n /\ s.facts[f].key = k /\ s.facts[f].open
            BY <1>7 DEF Closing, n
        <3>2. \A g \in 1..n : s.facts[g].open /\ s.facts[g].key = k => g = f
            BY <1>0, <3>1 DEF Alone, n
        <3> QED BY <3>1, <3>2 DEF Closing, n
    <2>2. f \in 1..Len(c0.facts) /\ c0.facts[f].mem = old
        BY <1>0, <1>1, <2>1
    <2>3. /\ StoreTyped(c) /\ c.rows = s.rows /\ Len(c.facts) = n + 1
          /\ \A g \in 1..(n + 1) :
                /\ c.facts[g].key = c0.facts[g].key /\ c.facts[g].mem = c0.facts[g].mem
                /\ c.facts[g].open = (c0.facts[g].open /\ g # f)
        <3>1. c = CloseOne(c0, f)
            OBVIOUS
        <3> HIDE DEF c
        <3> QED BY <1>1, <2>2, <3>1, CloseOneIs
    <2>4. t = Displace(m, c0, f)
        <3> DEFINE Good(i) == IF i < f THEN done[i] = c0 ELSE done[i] = Displace(m, c0, f)
                   Bad == { i \in 0..n : ~ Good(i) }
        <3>1. Bad = {}
            <4> SUFFICES ASSUME Bad # {} PROVE FALSE
                OBVIOUS
            <4>1. PICK i \in Bad : \A x \in Bad : i <= x
                <5>1. Bad \subseteq Nat
                    BY <1>0
                <5> HIDE DEF Bad
                <5> QED BY <5>1, LeastNat
            <4>2. i \in 0..n /\ ~ Good(i) /\ i # 0
                BY <1>0, <1>3, <2>1, <4>1
            <4>3. i \in 1..n /\ i - 1 \in 0..n /\ i - 1 \notin Bad
                <5> HIDE DEF Bad
                <5> QED BY <1>0, <4>1, <4>2
            <4>4. Good(i - 1)
                BY <4>3
            <4>5. f \in Nat /\ i \in Nat
                BY <1>0, <2>1, <4>3
            <4>6. i = f => done[i] = Displace(m, done[i - 1], f)
                BY <1>3, <2>1, <4>3
            <4>7. i # f => done[i] = done[i - 1]
                BY <1>3, <2>1, <4>3
            <4>8. Good(i)
                BY <4>4, <4>5, <4>6, <4>7
            <4> QED BY <4>2, <4>8
        <3>2. Good(n) /\ f <= n /\ f \in Nat
            BY <1>0, <2>1, <3>1
        <3> QED BY <1>0, <1>3, <3>2
    <2>5. s.rows[old].next = None
        BY <1>0, <2>1 DEF Backed, n
    <2>6. Alone(c.facts) /\ Backed(c.rows, c.facts)
        <3>1. \A g \in 1..(n + 1) : c.facts[g].open =>
                \/ g = n + 1 /\ c.facts[g].key = k /\ c.facts[g].mem = m
                \/ /\ g \in 1..n /\ c.facts[g].key # k /\ s.facts[g].open
                   /\ c.facts[g].key = s.facts[g].key /\ c.facts[g].mem = s.facts[g].mem
            <4> SUFFICES ASSUME NEW g \in 1..(n + 1), c.facts[g].open
                         PROVE  \/ g = n + 1 /\ c.facts[g].key = k /\ c.facts[g].mem = m
                                \/ /\ g \in 1..n /\ c.facts[g].key # k /\ s.facts[g].open
                                   /\ c.facts[g].key = s.facts[g].key
                                   /\ c.facts[g].mem = s.facts[g].mem
                OBVIOUS
            <4>1. /\ c.facts[g].key = c0.facts[g].key /\ c.facts[g].mem = c0.facts[g].mem
                  /\ c0.facts[g].open /\ g # f
                BY <2>3
            <4> HIDE DEF c
            <4>2. CASE g = n + 1
                BY <1>1, <4>1, <4>2
            <4>3. CASE g \in 1..n
                <5>1. c0.facts[g] = s.facts[g]
                    BY <1>1, <4>3
                <5> QED BY <2>1, <4>1, <4>3, <5>1
            <4> QED BY <1>5, <4>2, <4>3
        <3> HIDE DEF c
        <3>2. Alone(c.facts)
            <4> SUFFICES ASSUME NEW i \in 1..(n + 1), NEW j \in 1..(n + 1),
                                c.facts[i].open, c.facts[j].open,
                                c.facts[i].key = c.facts[j].key
                         PROVE  i = j
                BY <2>3 DEF Alone
            <4>0. n + 1 \notin 1..n
                BY <1>0
            <4>1. i = n + 1 => j = n + 1
                BY <3>1, <4>0
            <4>2. j = n + 1 => i = n + 1
                BY <3>1, <4>0
            <4>3. CASE i # n + 1 /\ j # n + 1
                <5>1. /\ i \in 1..n /\ s.facts[i].open /\ c.facts[i].key = s.facts[i].key
                      /\ j \in 1..n /\ s.facts[j].open /\ c.facts[j].key = s.facts[j].key
                    BY <3>1, <4>3
                <5> QED BY <1>0, <5>1 DEF Alone, n
            <4> QED BY <4>1, <4>2, <4>3
        <3>3. Backed(c.rows, c.facts)
            <4> SUFFICES ASSUME NEW i \in 1..(n + 1), c.facts[i].open
                         PROVE  c.rows[c.facts[i].mem].next = None
                BY <2>3 DEF Backed
            <4>1. CASE i = n + 1 /\ c.facts[i].mem = m
                BY <1>0, <2>3, <4>1
            <4>2. CASE i \in 1..n /\ s.facts[i].open /\ c.facts[i].mem = s.facts[i].mem
                BY <1>0, <2>3, <4>2 DEF Backed, n
            <4> QED BY <3>1, <4>1, <4>2
        <3> QED BY <3>2, <3>3
    <2>7. old \in 1..Len(s.rows) /\ None \notin 1..Len(s.rows) /\ old # None
        BY <1>0, <2>1 DEF StoreTyped, FactsTyped, None, n
    <2>9. \/ t = c
          \/ /\ old # m /\ OpenFacts(c.facts, old) = {} /\ Linkable(c.rows, old, m)
             /\ t = Link(c, old, m)
        <3>1. c = CloseOne(c0, f) /\ old = c0.facts[f].mem /\ m \in 1..Len(c0.rows)
            BY <1>0, <1>1, <2>2
        <3> HIDE DEF c, old
        <3>2. Displaced(m, c, old, Displace(m, c0, f))
            BY <1>1, <2>2, <3>1, DisplaceIs
        <3> QED BY <2>4, <3>2 DEF Displaced
    <2> HIDE DEF c, old
    <2>10. CASE t = c
        <3>1. Chained(c.rows)
            BY <2>3 DEF TrueStore
        <3> QED BY <2>6, <2>10, <3>1, IndexedIs
    <2>11. CASE /\ old # m /\ OpenFacts(c.facts, old) = {} /\ Linkable(c.rows, old, m)
                /\ t = Link(c, old, m)
        <3>1. old \in 1..Len(c.rows) /\ m \in 1..Len(c.rows) /\ Linkable(c.rows, old, m)
            BY <1>0, <2>3, <2>7, <2>11
        <3>0. Linked(c, t, old, m)
            BY <2>3, <2>11, <3>1, LinkIs
        <3>2. t.facts = CloseFacts(c.facts, old)
            BY <3>0 DEF Linked
        <3>3. \A r \in 1..Len(c.rows) :
                    /\ t.rows[r].version = IF r = m THEN c.rows[old].version + 1
                                           ELSE c.rows[r].version
                    /\ t.rows[r].parent = IF r = m THEN old ELSE c.rows[r].parent
            BY <3>0 DEF Linked
        <3>4. \A r \in 1..Len(c.rows) :
                    t.rows[r].next = IF r = old THEN m ELSE c.rows[r].next
            BY <3>0 DEF Linked
        <3>5. Chained(t.rows)
            <4>1. RowsTyped(s.rows) /\ RowsTyped(t.rows) /\ Len(t.rows) = Len(s.rows)
                BY <1>0, <1>2, <1>4 DEF Moved, StoreTyped
            <4>2. Closed(s.rows) /\ Chained(s.rows) /\ s.rows[m].open
                BY DEF TrueStore
            <4>3. \A r \in 1..Len(s.rows) :
                    /\ t.rows[r].version = IF r = m THEN s.rows[old].version + 1
                                           ELSE s.rows[r].version
                    /\ t.rows[r].parent = IF r = m THEN old ELSE s.rows[r].parent
                    /\ t.rows[r].next = IF r = old THEN m ELSE s.rows[r].next
                BY <2>3, <3>3, <3>4
            <4> QED BY <1>0, <2>5, <2>7, <2>11, <4>1, <4>2, <4>3, ChainedLink
        <3>6. /\ Len(t.facts) = Len(c.facts)
              /\ \A g \in 1..Len(c.facts) :
                    /\ t.facts[g].key = c.facts[g].key /\ t.facts[g].mem = c.facts[g].mem
                    /\ t.facts[g].open = (c.facts[g].open /\ c.facts[g].mem # old)
            <4>1. c.facts \in Seq(Fact)
                BY <2>3 DEF StoreTyped
            <4> QED BY <3>2, <4>1, CloseFactsIs
        <3>7. Alone(t.facts)
            <4> SUFFICES ASSUME NEW i \in 1..Len(c.facts), NEW j \in 1..Len(c.facts),
                                t.facts[i].open, t.facts[j].open,
                                t.facts[i].key = t.facts[j].key
                         PROVE  i = j
                BY <3>6 DEF Alone
            <4>1. c.facts[i].open /\ c.facts[j].open /\ c.facts[i].key = c.facts[j].key
                BY <3>6
            <4> QED BY <2>6, <4>1 DEF Alone
        <3>8. Backed(t.rows, t.facts)
            <4>1. \A g \in 1..Len(c.facts) : c.facts[g].mem \in 1..Len(c.rows)
                BY <2>3 DEF StoreTyped, FactsTyped
            <4> SUFFICES ASSUME NEW i \in 1..Len(c.facts), t.facts[i].open
                         PROVE  t.rows[t.facts[i].mem].next = None
                BY <3>6 DEF Backed
            <4>2. /\ c.facts[i].open /\ c.facts[i].mem # old
                  /\ t.facts[i].mem = c.facts[i].mem
                BY <3>6
            <4>3. c.rows[c.facts[i].mem].next = None
                BY <2>6, <4>2 DEF Backed
            <4> QED BY <3>4, <4>1, <4>2, <4>3
        <3> QED BY <3>5, <3>7, <3>8, IndexedIs
    <2> QED BY <2>9, <2>10, <2>11
<1> QED BY <1>4, <1>6, <1>7 DEF TrueStore

LEMMA IndexTriplesTrue ==
    ASSUME NEW s, NEW m, TrueStore(s, m), NEW keys \in Seq(Keys),
           NEW t, t = IndexTriples(s, keys, m)
    PROVE  TrueStore(t, m)
<1> DEFINE n == Len(keys)
<1>0. n \in Nat /\ \A i \in 1..n : keys[i] \in Keys
    OBVIOUS
<1>1. PICK done :
            /\ t = done[n] /\ done[0] = s
            /\ \A i \in 1..n :
                done[i] = AddFact(done[i - 1], keys[i], m, Closing(done[i - 1].facts, keys[i]))
    BY IndexTriplesIs
<1> HIDE DEF n
<1> DEFINE Bad == { i \in 0..n : ~ TrueStore(done[i], m) }
<1>2. Bad = {}
    <2> SUFFICES ASSUME Bad # {} PROVE FALSE
        OBVIOUS
    <2>1. PICK i \in Bad : \A x \in Bad : i <= x
        <3>1. Bad \subseteq Nat
            BY <1>0
        <3> HIDE DEF Bad
        <3> QED BY <3>1, LeastNat
    <2>2. i \in 0..n /\ ~ TrueStore(done[i], m) /\ i # 0
        BY <1>1, <2>1
    <2>3. i \in 1..n /\ i - 1 \in 0..n /\ i - 1 \notin Bad
        <3> HIDE DEF Bad
        <3> QED BY <1>0, <2>1, <2>2
    <2>4. TrueStore(done[i - 1], m)
        BY <2>3
    <2> HIDE DEF Bad
    <2>5. keys[i] \in Keys
            /\ done[i] = AddFact(done[i - 1], keys[i], m, Closing(done[i - 1].facts, keys[i]))
        BY <1>0, <1>1, <2>3
    <2> QED BY <2>2, <2>4, <2>5, AddFactTrue
<1>3. TrueStore(done[n], m)
    BY <1>0, <1>2
<1> QED BY <1>1, <1>3
-----------------------------------------------------------------------------
\* A version is appended.

\* The new row N begins a lineage, or succeeds the latest version p of one.
Extends(rs, ts, N, p) ==
    /\ RowsTyped(rs) /\ RowsTyped(ts)
    /\ N = Len(rs) + 1 /\ Len(ts) = N /\ p \in 0..Len(rs)
    /\ ts[N].parent = p /\ ts[N].next = None
    /\ \A r \in 1..Len(rs) :
        /\ ts[r].version = rs[r].version /\ ts[r].parent = rs[r].parent
        /\ ts[r].next = IF r = p THEN N ELSE rs[r].next
    /\ p # None => /\ rs[p].version < ts[N].version
                   /\ \A x \in 1..Len(rs) :
                        Ancestor(rs, x) = Ancestor(rs, p) /\ x # p => Below(rs, x, p)

LEMMA ChainedGrows ==
    ASSUME NEW rs, NEW ts, NEW N, NEW p, Extends(rs, ts, N, p), Chained(rs)
    PROVE  Chained(ts)
<1>a. /\ RowsTyped(rs) /\ RowsTyped(ts)
       /\ N = Len(rs) + 1 /\ Len(ts) = N /\ p \in 0..Len(rs)
       /\ ts[N].parent = p /\ ts[N].next = None
    BY DEF Extends
<1>b. \A r \in 1..Len(rs) :
            /\ ts[r].version = rs[r].version /\ ts[r].parent = rs[r].parent
            /\ ts[r].next = IF r = p THEN N ELSE rs[r].next
    BY DEF Extends
<1>c. p # None => /\ rs[p].version < ts[N].version
                   /\ \A x \in 1..Len(rs) :
                        Ancestor(rs, x) = Ancestor(rs, p) /\ x # p => Below(rs, x, p)
    BY DEF Extends
<1> USE <1>a
<1> DEFINE L == Len(rs)
<1>0. /\ L \in Nat /\ None \notin 1..L /\ N \in Nat /\ N \notin 1..L /\ N # None
      /\ N \in 1..N /\ p # None => p \in 1..L
      /\ \A r \in 1..L : rs[r].version \in Nat /\ rs[r].parent \in 0..L /\ r \in Nat
    <2>1. L \in Nat /\ \A r \in 1..L : rs[r] \in Row /\ rs[r].parent \in 0..L
        BY DEF RowsTyped
    <2> QED BY <2>1 DEF Row, None
<1>1. PICK d \in [1..L -> 1..L] : Ranks(rs, d)
    BY DEF Chained
<1>2. PICK a \in [1..L -> 1..L] : Roots(rs, a) /\ Tops(rs, a)
    BY DEF Chained
<1>3. \A r \in 1..L : rs[r].parent # None => rs[r].parent \in 1..L
    BY <1>0 DEF None
<1>4. \A r \in 1..L : Ancestor(rs, r) = a[r]
    BY <1>1, <1>2, AncestorIs
<1>5. p \in 1..L \/ p = None
    BY <1>0 DEF None
<1>6. /\ p # None => rs[p].version < ts[N].version
      /\ \A r \in 1..L : /\ ts[r].version = rs[r].version /\ ts[r].parent = rs[r].parent
                         /\ ts[r].next = IF r = p THEN N ELSE rs[r].next
    BY <1>b, <1>c
<1>7. \A x \in 1..L : p # None /\ a[x] = a[p] /\ x # p => Below(rs, x, p)
    BY <1>0, <1>4, <1>c
<1>8. \A x \in 1..N : x \in 1..L \/ x = N
    BY <1>0
<1>9. \A x \in 1..L : x \in 1..N /\ x # N
    BY <1>0
<1>95. N \in 1..N /\ N \notin 1..L
    BY <1>0
<1> HIDE DEF L
<1>10. \E e \in [1..N -> 1..N] : Ranks(ts, e)
    <2> DEFINE e == [x \in 1..N |-> IF x = N THEN N ELSE d[x]]
    <2>1. /\ \A x \in 1..L : d[x] \in 1..L
          /\ \A x, y \in 1..L : d[x] = d[y] => x = y
          /\ \A x \in 1..L : rs[x].parent # None => d[rs[x].parent] < d[x]
        BY <1>1 DEF Ranks, L
    <2>2. e[N] = N /\ \A x \in 1..L : e[x] = d[x]
        BY <1>9, <1>95
    <2>3. e \in [1..N -> 1..N]
        <3>1. \A x \in 1..N : e[x] \in 1..N
            BY <1>0, <1>8, <1>9, <2>1, <2>2
        <3>2. e = [x \in 1..N |-> e[x]]
            OBVIOUS
        <3> HIDE DEF e
        <3> QED BY <3>1, <3>2
    <2> HIDE DEF e
    <2>4. ASSUME NEW x \in 1..N, NEW y \in 1..N, e[x] = e[y] PROVE x = y
        <3>1. CASE x \in 1..L /\ y \in 1..L
            BY <2>1, <2>2, <2>4, <3>1
        <3>2. CASE x = N /\ y = N
            BY <3>2
        <3>3. CASE (x = N /\ y \in 1..L) \/ (x \in 1..L /\ y = N)
            BY <1>95, <2>1, <2>2, <2>4, <3>3
        <3> QED BY <1>8, <3>1, <3>2, <3>3
    <2>5. \A i \in 1..L : i < N
        BY <1>0 DEF L
    <2>6. ASSUME NEW x \in 1..N, ts[x].parent # None PROVE e[ts[x].parent] < e[x]
        <3>1. CASE x = N
            <4>1. ts[x].parent = p /\ p \in 1..L
                BY <1>0, <2>6, <3>1
            <4> QED BY <2>1, <2>2, <2>5, <3>1, <4>1
        <3>2. CASE x \in 1..L
            <4>1. rs[x].parent # None /\ rs[x].parent \in 1..L /\ ts[x].parent = rs[x].parent
                BY <1>3, <1>6, <2>6, <3>2
            <4>2. d[rs[x].parent] < d[x]
                BY <2>1, <3>2, <4>1
            <4> QED BY <2>2, <3>2, <4>1, <4>2
        <3> QED BY <1>8, <3>1, <3>2
    <2>7. Ranks(ts, e)
        BY <2>3, <2>4, <2>6 DEF Ranks
    <2> QED BY <2>3, <2>7
<1>11. \E b \in [1..N -> 1..N] : Roots(ts, b) /\ Tops(ts, b)
    <2> DEFINE b == [x \in 1..N |-> IF x = N THEN (IF p = None THEN N ELSE a[p]) ELSE a[x]]
    <2>1. \A x \in 1..L : a[x] \in 1..L
        BY <1>2 DEF L
    <2>2. /\ b[N] = IF p = None THEN N ELSE a[p]
          /\ \A x \in 1..L : b[x] = a[x]
        BY <1>0, <1>9
    <2>3. b \in [1..N -> 1..N]
        <3>1. \A x \in 1..N : b[x] \in 1..N
            BY <1>0, <1>8, <1>9, <2>1, <2>2
        <3>2. b = [x \in 1..N |-> b[x]]
            OBVIOUS
        <3> HIDE DEF b
        <3> QED BY <3>1, <3>2
    <2> HIDE DEF b
    <2>4. ASSUME NEW x \in 1..N
          PROVE  b[x] = IF ts[x].parent = None THEN x ELSE b[ts[x].parent]
        <3>1. CASE x = N
            <4>1. p # None => b[p] = a[p]
                BY <1>5, <2>2
            <4> QED BY <2>2, <3>1, <4>1
        <3>2. CASE x \in 1..L
            <4>1. a[x] = IF rs[x].parent = None THEN x ELSE a[rs[x].parent]
                BY <1>2, <3>2 DEF Roots, L
            <4>2. rs[x].parent # None => b[rs[x].parent] = a[rs[x].parent]
                BY <1>3, <2>2, <3>2
            <4> QED BY <1>6, <2>2, <3>2, <4>1, <4>2
        <3> QED BY <1>8, <3>1, <3>2
    <2>5. Roots(ts, b)
        BY <2>3, <2>4 DEF Roots
    <2>6. ASSUME NEW r \in 1..L, NEW x \in 1..L, rs[r].next = None, a[x] = a[r], x # r
          PROVE  Below(rs, x, r)
        BY <1>2, <2>6 DEF Tops, L
    <2>7. ASSUME NEW r \in 1..N, NEW x \in 1..N, ts[r].next = None, b[x] = b[r], x # r
          PROVE  Below(ts, x, r)
        <3>1. CASE r = N
            <4>1. x \in 1..L /\ b[x] = a[x]
                BY <1>8, <2>2, <2>7, <3>1
            <4>2. p # None /\ p \in 1..L /\ a[x] = a[p]
                <5>1. b[N] = a[x] /\ a[x] # N
                    BY <1>95, <2>1, <2>7, <3>1, <4>1
                <5> QED BY <1>5, <2>2, <5>1
            <4>3. rs[p].version < ts[N].version /\ rs[p].version \in Nat /\ rs[x].version \in Nat
                  /\ ts[x].version = rs[x].version
                BY <1>0, <1>6, <4>1, <4>2 DEF L
            <4>4. ts[N].version \in Nat
                <5>1. ts[N] \in Row
                    BY <1>0 DEF RowsTyped
                <5> QED BY <5>1 DEF Row
            <4>5. x = p \/ Below(rs, x, p)
                BY <1>7, <4>1, <4>2
            <4> QED BY <3>1, <4>3, <4>4, <4>5 DEF Below
        <3>2. CASE r \in 1..L
            <4>1. r # p /\ rs[r].next = None /\ b[r] = a[r]
                BY <1>0, <1>6, <2>2, <2>7, <3>2
            <4>2. CASE x = N
                <5>1. p # None /\ p \in 1..L /\ a[p] = a[r]
                    <6>1. b[N] = a[r] /\ a[r] # N
                        BY <1>95, <2>1, <2>7, <3>2, <4>1, <4>2
                    <6> QED BY <1>5, <2>2, <6>1
                <5>2. Below(rs, p, r) /\ Below(rs, r, p)
                    BY <1>7, <2>6, <3>2, <4>1, <5>1
                <5>3. rs[p].version \in Nat /\ rs[r].version \in Nat /\ p \in Nat /\ r \in Nat
                    BY <1>0, <3>2, <5>1
                <5> QED BY <5>2, <5>3 DEF Below
            <4>3. CASE x \in 1..L
                <5>1. Below(rs, x, r)
                    BY <2>2, <2>6, <2>7, <3>2, <4>1, <4>3
                <5>2. ts[x].version = rs[x].version /\ ts[r].version = rs[r].version
                    BY <1>6, <3>2, <4>3
                <5> QED BY <5>1, <5>2 DEF Below
            <4> QED BY <1>8, <4>2, <4>3
        <3> QED BY <1>8, <3>1, <3>2
    <2>8. Tops(ts, b)
        BY <2>7 DEF Tops
    <2> QED BY <2>3, <2>5, <2>8
<1> QED BY <1>10, <1>11 DEF Chained

\* A row appended to the memories, facts alone.
Appended(s, t, row) ==
    /\ StoreTyped(t) /\ Len(t.rows) = Len(s.rows) + 1
    /\ t.facts = s.facts /\ t.bumped = s.bumped
    /\ \A r \in 1..Len(s.rows) : t.rows[r] = s.rows[r]
    /\ t.rows[Len(s.rows) + 1] = row

LEMMA AppendIs ==
    ASSUME NEW s, StoreTyped(s), NEW row \in Row, row.parent \in 0..Len(s.rows),
           row.next = None, NEW t, t = [s EXCEPT !.rows = Append(@, row)]
    PROVE  Appended(s, t, row)
<1> DEFINE rs == s.rows
           ts == Append(rs, row)
           L == Len(rs)
<1>1. /\ s \in [rows : Seq(Row), facts : Seq(Fact), bumped : BOOLEAN]
      /\ rs \in Seq(Row) /\ L \in Nat /\ s.facts \in Seq(Fact)
      /\ \A r \in 1..L : rs[r].parent \in 0..L /\ rs[r].next \in 0..L
      /\ \A f \in 1..Len(s.facts) : s.facts[f].mem \in 1..L
    BY DEF StoreTyped, RowsTyped, FactsTyped
<1>2. t.rows = ts /\ t.facts = s.facts /\ t.bumped = s.bumped
      /\ t = [s EXCEPT !.rows = ts]
    BY <1>1
<1>3. ts \in Seq(Row) /\ Len(ts) = L + 1 /\ ts[L + 1] = row /\ \A r \in 1..L : ts[r] = rs[r]
    BY <1>1
<1> HIDE DEF ts
<1>4. RowsTyped(ts)
    <2> SUFFICES ASSUME NEW r \in 1..(L + 1)
                 PROVE  ts[r].parent \in 0..(L + 1) /\ ts[r].next \in 0..(L + 1)
        BY <1>3 DEF RowsTyped
    <2> HIDE DEF rs, L
    <2>1. CASE r = L + 1
        <3>1. row.parent \in 0..L
            BY DEF L, rs
        <3> QED BY <1>1, <1>3, <2>1, <3>1 DEF None
    <2>2. CASE r \in 1..L
        <3>1. ts[r] = rs[r] /\ rs[r].parent \in 0..L /\ rs[r].next \in 0..L
            BY <1>1, <1>3, <2>2
        <3> QED BY <1>1, <3>1
    <2> QED BY <1>1, <2>1, <2>2
<1>5. FactsTyped(ts, s.facts)
    <2> SUFFICES ASSUME NEW f \in 1..Len(s.facts) PROVE s.facts[f].mem \in 1..(L + 1)
        BY <1>1, <1>3 DEF FactsTyped
    <2>1. s.facts[f].mem \in 1..L
        BY <1>1
    <2> HIDE DEF L
    <2> QED BY <1>1, <2>1
<1>6. t \in [rows : Seq(Row), facts : Seq(Fact), bumped : BOOLEAN]
    BY <1>1, <1>2, <1>3
<1> QED BY <1>2, <1>3, <1>4, <1>5, <1>6 DEF StoreTyped, Appended
-----------------------------------------------------------------------------
\* What a write leaves of what was there before it.

\* What every write leaves, gone being what the archive has.
Always(rs, ts, gone) ==
    \A r \in 1..Len(rs) :
        /\ ts[r].text = rs[r].text \/ (ts[r].text = Gone /\ r \in gone)
        /\ ~rs[r].open => ~ts[r].open
\* What the writes leave that are not overtaken.
IfSound(rs, ts) ==
    \A r \in 1..Len(rs) :
        /\ ~rs[r].open => ts[r].parent = rs[r].parent /\ ts[r].version = rs[r].version
        /\ rs[r].status = "tombstone" => ts[r].status = "tombstone"
        /\ rs[r].open /\ ~ts[r].open /\ ts[r].next # None => Standing(ts, ts[r].next)

\* N is a new version or memory, in whose favour others were closed.
Grown(rs, ts, N) ==
    /\ N = Len(rs) + 1 /\ Len(ts) = N
    /\ ts[N].open /\ ts[N].status = "active"
    /\ \A r \in 1..Len(rs) :
        /\ ts[r].text = rs[r].text
        /\ ts[r].status = rs[r].status \/ ts[r].status = "tombstone"
        /\ ts[r].version = rs[r].version /\ ts[r].parent = rs[r].parent
        /\ \/ ts[r].open = rs[r].open /\ ts[r].next = rs[r].next
           \/ ~ts[r].open /\ ts[r].next = N

LEMMA GrownKeeps ==
    ASSUME NEW rs, NEW ts, NEW N, Grown(rs, ts, N), NEW gone
    PROVE  Always(rs, ts, gone) /\ IfSound(rs, ts)
<1>1. Always(rs, ts, gone)
    BY DEF Grown, Always
<1>2. Standing(ts, N)
    BY DEF Grown, Standing
<1>3. IfSound(rs, ts)
    BY <1>2 DEF Grown, IfSound
<1> QED BY <1>1, <1>3

LEMMA GrownMoved ==
    ASSUME NEW rs, Len(rs) \in Nat, NEW s, NEW t, NEW N, Grown(rs, s.rows, N), Moved(s, t, N)
    PROVE  Grown(rs, t.rows, N)
<1>1. N = Len(rs) + 1 /\ Len(s.rows) = N /\ Len(t.rows) = N
    BY DEF Grown, Moved
<1>2. N \in 1..N /\ \A r \in 1..Len(rs) : r \in 1..N /\ r # N
    BY <1>1
<1>3. t.rows[N].open /\ t.rows[N].status = "active"
    BY <1>1, <1>2 DEF Grown, Moved, Same
<1>4. ASSUME NEW r \in 1..Len(rs)
      PROVE  /\ t.rows[r].text = rs[r].text
             /\ t.rows[r].status = rs[r].status \/ t.rows[r].status = "tombstone"
             /\ t.rows[r].version = rs[r].version /\ t.rows[r].parent = rs[r].parent
             /\ \/ t.rows[r].open = rs[r].open /\ t.rows[r].next = rs[r].next
                \/ ~t.rows[r].open /\ t.rows[r].next = N
    <2>1. r \in 1..Len(s.rows) /\ r # N
        BY <1>1, <1>2
    <2>2. /\ t.rows[r].text = s.rows[r].text /\ t.rows[r].status = s.rows[r].status
        BY <2>1 DEF Moved, Same
    <2>3. /\ t.rows[r].version = s.rows[r].version /\ t.rows[r].parent = s.rows[r].parent
          /\ \/ t.rows[r].open = s.rows[r].open /\ t.rows[r].next = s.rows[r].next
             \/ ~t.rows[r].open /\ t.rows[r].next = N
        BY <2>1 DEF Moved
    <2>4. /\ s.rows[r].text = rs[r].text
          /\ s.rows[r].status = rs[r].status \/ s.rows[r].status = "tombstone"
          /\ s.rows[r].version = rs[r].version /\ s.rows[r].parent = rs[r].parent
          /\ \/ s.rows[r].open = rs[r].open /\ s.rows[r].next = rs[r].next
             \/ ~s.rows[r].open /\ s.rows[r].next = N
        BY <1>4 DEF Grown
    <2> QED BY <2>2, <2>3, <2>4
<1> QED BY <1>1, <1>3, <1>4 DEF Grown

LEMMA StoreIs ==
    ASSUME Typed
    PROVE  /\ StoreTyped(Store) /\ Store.rows = rows /\ Store.facts = facts
           /\ Store.bumped = FALSE
BY DEF Typed, StoreTyped, Store, RowsTyped, FactsTyped

\* create_successor.
Succeeded(t, head, v, N) ==
    /\ StoreTyped(t) /\ Grown(rows, t.rows, N) /\ t.bumped = FALSE
    /\ t.facts = CloseFacts(facts, head) /\ Len(t.facts) = Len(facts)
    /\ t.rows[N].parent = head /\ t.rows[N].next = None /\ t.rows[N].version = v
    /\ \A r \in 1..Len(rows) :
        /\ t.rows[r].open = (rows[r].open /\ r # head)
        /\ t.rows[r].next = IF r = head THEN N ELSE rows[r].next

LEMMA SucceedIs ==
    ASSUME Typed, NEW head \in Ids, NEW v \in Nat \ {0}, NEW text \in Texts \cup {Gone},
           NEW ttl \in {"none", "future", "due"}, NEW N, N = Len(rows) + 1,
           NEW t, t = Succeed(Store, head, v, text, ttl)
    PROVE  Succeeded(t, head, v, N)
<1> DEFINE row == [Inserted(text, ttl) EXCEPT !.version = v, !.parent = head]
           s == [Store EXCEPT !.rows = Append(@, row)]
<1>0. /\ StoreTyped(Store) /\ Store.rows = rows /\ Store.facts = facts
      /\ Store.bumped = FALSE /\ Len(rows) \in Nat /\ N \in Nat
    <2>1. rows \in Seq(Row)
        BY DEF Typed, RowsTyped
    <2>2. Len(rows) \in Nat
        BY <2>1
    <2>3. N \in Nat
        BY <2>2
    <2> QED BY <2>2, <2>3, StoreIs, Zenon
<1>1. /\ row \in Row /\ row.parent = head /\ row.next = None /\ row.version = v
      /\ row.open /\ row.status = "active"
    <2>1. row = [status |-> "active", open |-> TRUE, ttl |-> ttl, text |-> text,
                 version |-> v, parent |-> head, next |-> None]
        <3> DEFINE r0 == Inserted(text, ttl)
        <3>1. r0 = [status |-> "active", open |-> TRUE, ttl |-> ttl, text |-> text,
                    version |-> 1, parent |-> None, next |-> None]
            BY DEF Inserted
        <3>2. row = [r0 EXCEPT !.version = v, !.parent = head]
            OBVIOUS
        <3> HIDE DEF r0, row
        <3> QED BY <3>1, <3>2
    <2>2. head \in Nat /\ None \in Nat
        BY <1>0 DEF Ids, None
    <2> QED BY <2>1, <2>2 DEF Row
<1>2. head \in 0..Len(rows)
    BY DEF Ids
<1>3. t = Retire(s, head, N)
    BY <1>0 DEF Succeed
<1> HIDE DEF row
<1>4. /\ StoreTyped(s) /\ Len(s.rows) = N /\ s.facts = facts /\ s.bumped = FALSE
      /\ \A r \in 1..Len(rows) : s.rows[r] = rows[r]
      /\ s.rows[N] = row
    <2>1. s = [Store EXCEPT !.rows = Append(@, row)]
        OBVIOUS
    <2> HIDE DEF s
    <2>2. Appended(Store, s, row)
        BY <1>0, <1>1, <1>2, <2>1, AppendIs
    <2> QED BY <1>0, <2>2 DEF Appended
<1> HIDE DEF s
<1>5. head \in 1..Len(s.rows) /\ N \in 1..Len(s.rows)
      /\ \A r \in 1..Len(rows) : r \in 1..Len(s.rows) /\ r # N
    BY <1>0, <1>2, <1>4 DEF Ids
<1>6. N # head
    BY <1>0 DEF Ids
<1>70. Retired(s, t, head, N)
    BY <1>3, <1>4, <1>5, RetireIs
<1>7. /\ StoreTyped(t) /\ Len(t.rows) = Len(s.rows) /\ t.bumped = s.bumped
      /\ t.facts = CloseFacts(s.facts, head) /\ Len(t.facts) = Len(s.facts)
      /\ Same(s.rows, t.rows)
    BY <1>70 DEF Retired
<1>8. \A r \in 1..Len(s.rows) :
                /\ t.rows[r].version = s.rows[r].version
                /\ t.rows[r].parent = s.rows[r].parent
                /\ t.rows[r].open = (s.rows[r].open /\ r # head)
                /\ t.rows[r].next = IF r = head THEN N ELSE s.rows[r].next
    BY <1>70 DEF Retired
<1>9. /\ t.rows[N].parent = head /\ t.rows[N].next = None /\ t.rows[N].version = v
      /\ t.rows[N].open /\ t.rows[N].status = "active"
    BY <1>1, <1>4, <1>5, <1>6, <1>7, <1>8 DEF Same
<1>10. \A r \in 1..Len(rows) :
            /\ t.rows[r].open = (rows[r].open /\ r # head)
            /\ t.rows[r].next = IF r = head THEN N ELSE rows[r].next
            /\ t.rows[r].version = rows[r].version /\ t.rows[r].parent = rows[r].parent
            /\ t.rows[r].text = rows[r].text /\ t.rows[r].status = rows[r].status
    <2> SUFFICES ASSUME NEW r \in 1..Len(rows)
                 PROVE  /\ t.rows[r].open = (rows[r].open /\ r # head)
                        /\ t.rows[r].next = IF r = head THEN N ELSE rows[r].next
                        /\ t.rows[r].version = rows[r].version
                        /\ t.rows[r].parent = rows[r].parent
                        /\ t.rows[r].text = rows[r].text /\ t.rows[r].status = rows[r].status
        OBVIOUS
    <2>1. r \in 1..Len(s.rows) /\ s.rows[r] = rows[r]
        BY <1>4, <1>5
    <2>2. t.rows[r].text = s.rows[r].text /\ t.rows[r].status = s.rows[r].status
        BY <1>7, <2>1 DEF Same
    <2>3. /\ t.rows[r].version = s.rows[r].version /\ t.rows[r].parent = s.rows[r].parent
          /\ t.rows[r].open = (s.rows[r].open /\ r # head)
          /\ t.rows[r].next = IF r = head THEN N ELSE s.rows[r].next
        BY <1>8, <2>1
    <2> QED BY ONLY <2>1, <2>2, <2>3
<1>11. \A r \in 1..Len(rows) : rows[r].open \in BOOLEAN
    <2>1. \A r \in 1..Len(rows) : rows[r] \in Row
        BY DEF Typed, RowsTyped
    <2> QED BY <2>1 DEF Row
<1>12. \A r \in 1..Len(rows) :
            \/ t.rows[r].open = rows[r].open /\ t.rows[r].next = rows[r].next
            \/ ~t.rows[r].open /\ t.rows[r].next = N
    BY ONLY <1>10, <1>11
<1>13. Grown(rows, t.rows, N)
    BY <1>4, <1>7, <1>9, <1>10, <1>12 DEF Grown
<1> QED BY <1>4, <1>7, <1>9, <1>10, <1>13 DEF Succeeded

LEMMA SucceedClosed ==
    ASSUME Typed, Closed(rows), NEW head \in Ids, NEW v \in Nat \ {0},
           NEW text \in Texts \cup {Gone}, NEW ttl \in {"none", "future", "due"},
           NEW t, t = Succeed(Store, head, v, text, ttl)
    PROVE  Closed(t.rows)
<1> DEFINE N == Len(rows) + 1
<1>0. Len(rows) \in Nat /\ N \in Nat /\ N # None /\ \A r \in 1..N : r \in Ids \/ r = N
    <2>1. rows \in Seq(Row)
        BY DEF Typed, RowsTyped
    <2>2. Len(rows) \in Nat
        BY <2>1
    <2> QED BY <2>2 DEF Ids, None
<1>1. /\ StoreTyped(t) /\ Grown(rows, t.rows, N)
      /\ t.rows[N].parent = head /\ t.rows[N].next = None
      /\ \A r \in 1..Len(rows) :
                /\ t.rows[r].open = (rows[r].open /\ r # head)
                /\ t.rows[r].next = IF r = head THEN N ELSE rows[r].next
    <2>1. N = Len(rows) + 1
        OBVIOUS
    <2> HIDE DEF N
    <2>2. Succeeded(t, head, v, N)
        BY <2>1, SucceedIs
    <2> QED BY <2>2 DEF Succeeded
<1>2. Len(t.rows) = N /\ \A r \in Ids : t.rows[r].parent = rows[r].parent
    BY <1>1 DEF Grown, Ids
<1>3. \A r \in Ids : rows[r].parent # None => rows[r].parent \in Ids
    BY <1>0 DEF Typed, RowsTyped, None, Ids
<1> HIDE DEF N
<1> SUFFICES ASSUME NEW r \in 1..N
             PROVE  /\ t.rows[r].next # None => ~t.rows[r].open
                    /\ t.rows[r].parent # None => ~t.rows[t.rows[r].parent].open
    BY <1>2 DEF Closed
<1>4. CASE r = N
    BY <1>1, <1>4 DEF Ids
<1>5. CASE r \in Ids
    <2>1. t.rows[r].next # None => ~t.rows[r].open
        BY <1>1, <1>5 DEF Closed, Ids
    <2>2. rows[r].parent # None => ~rows[rows[r].parent].open
        BY <1>5 DEF Closed, Ids
    <2>3. rows[r].parent # None => ~t.rows[rows[r].parent].open
        BY <1>1, <1>3, <1>5, <2>2 DEF Ids
    <2> QED BY <1>2, <1>5, <2>1, <2>3
<1> QED BY <1>0, <1>4, <1>5

\* A version that follows the head read leaves one truth.
LEMMA SucceedTrue ==
    ASSUME Typed, Chained(rows), Indexed(rows, facts), NEW mem \in Ids,
           NEW head \in Ids, head = ChainHead(rows, mem),
           NEW v \in Nat \ {0}, rows[head].version < v,
           NEW text \in Texts \cup {Gone}, NEW ttl \in {"none", "future", "due"},
           NEW t, t = Succeed(Store, head, v, text, ttl)
    PROVE  Chained(t.rows) /\ Indexed(t.rows, t.facts)
<1> DEFINE N == Len(rows) + 1
<1>0. Len(rows) \in Nat /\ RowsTyped(rows) /\ FactsTyped(rows, facts)
      /\ rows \in Seq(Row) /\ facts \in Seq(Fact)
    BY DEF Typed, RowsTyped, FactsTyped
<1>1. /\ StoreTyped(t) /\ Grown(rows, t.rows, N)
      /\ t.facts = CloseFacts(facts, head) /\ Len(t.facts) = Len(facts)
      /\ t.rows[N].parent = head /\ t.rows[N].next = None /\ t.rows[N].version = v
      /\ \A r \in 1..Len(rows) :
            t.rows[r].next = IF r = head THEN N ELSE rows[r].next
    <2>1. N = Len(rows) + 1
        OBVIOUS
    <2> HIDE DEF N
    <2>2. Succeeded(t, head, v, N)
        BY <2>1, SucceedIs
    <2> QED BY <2>2 DEF Succeeded
<1>2. /\ Len(t.rows) = N /\ RowsTyped(t.rows)
      /\ \A r \in 1..Len(rows) : /\ t.rows[r].version = rows[r].version
                                 /\ t.rows[r].parent = rows[r].parent
    BY <1>1 DEF Grown, StoreTyped
<1>3. /\ rows[head].version < t.rows[N].version
      /\ \A x \in 1..Len(rows) :
            Ancestor(rows, x) = Ancestor(rows, head) /\ x # head => Below(rows, x, head)
    BY <1>0, <1>1, HeadFound DEF Ids
<1>4. Chained(t.rows)
    <2> DEFINE ts == t.rows
    <2>1. head \in 0..Len(rows) /\ N = Len(rows) + 1
        BY DEF Ids
    <2>2. /\ RowsTyped(ts) /\ Len(ts) = N /\ ts[N].parent = head /\ ts[N].next = None
          /\ rows[head].version < ts[N].version
        BY <1>1, <1>2, <1>3
    <2>3. \A r \in 1..Len(rows) : /\ ts[r].version = rows[r].version
                                  /\ ts[r].parent = rows[r].parent
                                  /\ ts[r].next = IF r = head THEN N ELSE rows[r].next
        BY <1>1, <1>2
    <2> HIDE DEF N, ts
    <2>4. head # None => /\ rows[head].version < ts[N].version
                         /\ \A x \in 1..Len(rows) :
                            Ancestor(rows, x) = Ancestor(rows, head) /\ x # head
                            => Below(rows, x, head)
        BY <1>3, <2>2
    <2>5. Chained(ts)
        <3>1. Extends(rows, ts, N, head)
            BY ONLY <1>0, <2>1, <2>2, <2>3, <2>4 DEF Extends
        <3> QED BY <3>1, ChainedGrows
    <2> QED BY <2>5 DEF ts
<1>5. \A g \in 1..Len(facts) :
            /\ t.facts[g].key = facts[g].key /\ t.facts[g].mem = facts[g].mem
            /\ t.facts[g].open = (facts[g].open /\ facts[g].mem # head)
    BY <1>0, <1>1, CloseFactsIs
<1>6. Alone(facts) /\ Backed(rows, facts)
    BY IndexedIs
<1>7. Alone(t.facts)
    <2> SUFFICES ASSUME NEW i \in 1..Len(facts), NEW j \in 1..Len(facts),
                        t.facts[i].open, t.facts[j].open, t.facts[i].key = t.facts[j].key
                 PROVE  i = j
        BY <1>1 DEF Alone
    <2>1. facts[i].open /\ facts[j].open /\ facts[i].key = facts[j].key
        BY <1>5
    <2> QED BY <1>6, <2>1 DEF Alone
<1>8. Backed(t.rows, t.facts)
    <2> SUFFICES ASSUME NEW i \in 1..Len(facts), t.facts[i].open
                 PROVE  t.rows[t.facts[i].mem].next = None
        BY <1>1 DEF Backed
    <2>1. facts[i].open /\ facts[i].mem # head /\ t.facts[i].mem = facts[i].mem
        BY <1>5
    <2>2. facts[i].mem \in 1..Len(rows)
        BY <1>0 DEF FactsTyped
    <2>3. rows[facts[i].mem].next = None
        BY <1>6, <2>1 DEF Backed
    <2> QED BY <1>1, <2>1, <2>2, <2>3
<1> QED BY <1>4, <1>7, <1>8, IndexedIs
-----------------------------------------------------------------------------
\* Every write leaves the tables whole.

\* w wrote.
Wrote(w) ==
    /\ RowsTyped(rows') /\ FactsTyped(rows', facts')
    /\ Len(rows) <= Len(rows') /\ Len(facts) <= Len(facts')
    /\ Closed(rows') /\ archived' \subseteq 1..Len(rows')
    /\ Always(rows, rows', archived')
    /\ Sound(w) => IfSound(rows, rows')
    /\ races = 0 /\ Sound(w) => Chained(rows') /\ Indexed(rows', facts')
    /\ told' = Current(rows') \/ (told' = told /\ rows' = rows)
    /\ work[w].ready /\ work' = [work EXCEPT ![w] = Idle]
    /\ races' = IF Sound(w) THEN races ELSE races + 1

\* The tables are those of the store that was committed.
LEMMA CommitIs ==
    ASSUME NEW w, NEW op, NEW s, NEW bump \in BOOLEAN, Commit(w, op, s, bump)
    PROVE  /\ work[w].op = op /\ work[w].ready
           /\ rows' = s.rows /\ facts' = s.facts
           /\ bump \/ s.bumped => told' = Current(rows')
           /\ ~ (bump \/ s.bumped) => told' = told
           /\ work' = [work EXCEPT ![w] = Idle]
           /\ races' = IF Sound(w) THEN races ELSE races + 1
<1>1. rows' = s.rows /\ told' = IF bump \/ s.bumped THEN Current(s.rows) ELSE told
    BY DEF Commit
<1>2. Current(s.rows) = Current(rows')
    BY <1>1 DEF Current, Standing
<1> QED BY <1>1, <1>2 DEF Commit

LEMMA Basics ==
    ASSUME ChainInv
    PROVE  /\ rows \in Seq(Row) /\ facts \in Seq(Fact)
           /\ Len(rows) \in Nat /\ Len(facts) \in Nat
           /\ \A r \in 1..Len(rows) : rows[r] \in Row
           /\ RowsTyped(rows) /\ FactsTyped(rows, facts) /\ Closed(rows)
           /\ StoreTyped(Store) /\ Store.rows = rows /\ Store.facts = facts
           /\ Store.bumped = FALSE /\ Typed /\ Ids = 1..Len(rows)
           /\ archived \subseteq 1..Len(rows)
           /\ races = 0 => Chained(rows) /\ Indexed(rows, facts)
<1>1. Typed /\ Closed(rows) /\ (races = 0 => Chained(rows) /\ Indexed(rows, facts))
    BY DEF ChainInv
<1>2. RowsTyped(rows) /\ FactsTyped(rows, facts) /\ archived \subseteq 1..Len(rows)
    BY <1>1 DEF Typed, Ids
<1>3. rows \in Seq(Row) /\ facts \in Seq(Fact)
    BY <1>2 DEF RowsTyped, FactsTyped
<1>4. Len(rows) \in Nat /\ Len(facts) \in Nat /\ \A r \in 1..Len(rows) : rows[r] \in Row
    BY <1>3
<1> QED BY <1>1, <1>2, <1>3, <1>4, StoreIs DEF Ids

\* What a writer is about to write names what exists.
LEMMA WorkOf ==
    ASSUME ChainInv, NEW w \in Writers
    PROVE  work[w] \in Work /\ WorkTyped(work[w], rows, facts)
BY DEF ChainInv, Typed

\* A new version or memory, and what is indexed with it.
LEMMA GrownWrote ==
    ASSUME ChainInv, NEW w \in Writers, NEW op, NEW s, Commit(w, op, s, TRUE),
           StoreTyped(s), Len(facts) <= Len(s.facts), Closed(s.rows),
           Grown(rows, s.rows, Len(rows) + 1), UNCHANGED archived,
           races = 0 /\ Sound(w) => Chained(s.rows) /\ Indexed(s.rows, s.facts)
    PROVE  Wrote(w)
<1>1. /\ rows' = s.rows /\ facts' = s.facts /\ told' = Current(rows')
      /\ work[w].ready /\ work' = [work EXCEPT ![w] = Idle]
      /\ races' = IF Sound(w) THEN races ELSE races + 1
    BY CommitIs
<1>2. Always(rows, s.rows, archived') /\ IfSound(rows, s.rows)
    BY GrownKeeps
<1>3. Len(s.rows) = Len(rows) + 1
    BY DEF Grown
<1>4. archived' \subseteq 1..Len(s.rows) /\ Len(rows) <= Len(s.rows)
    BY <1>3, Basics
<1>5. RowsTyped(s.rows) /\ FactsTyped(s.rows, s.facts)
    BY DEF StoreTyped
<1> QED BY <1>1, <1>2, <1>4, <1>5 DEF Wrote

\* The store with a new row, and with the facts of an item.
LEMMA IndexedGrown ==
    ASSUME ChainInv, NEW s, StoreTyped(s), Closed(s.rows),
           Grown(rows, s.rows, Len(rows) + 1), Len(s.facts) = Len(facts),
           NEW keys \in Triples, NEW t, t = IndexTriples(s, keys, Len(s.rows))
    PROVE  /\ StoreTyped(t) /\ Len(facts) <= Len(t.facts) /\ Closed(t.rows)
           /\ Grown(rows, t.rows, Len(rows) + 1)
           /\ Chained(s.rows) /\ Indexed(s.rows, s.facts)
              => Chained(t.rows) /\ Indexed(t.rows, t.facts)
<1> DEFINE N == Len(rows) + 1
<1>1. Len(s.rows) = N /\ s.rows[N].open
    BY DEF Grown
<1>2. keys \in Seq(Keys) /\ Len(keys) \in Nat
    BY DEF Triples
<1>3. Len(rows) \in Nat /\ N \in 1..N /\ Len(facts) \in Nat
    BY Basics
<1>4. t = IndexTriples(s, keys, N) /\ N \in 1..Len(s.rows)
    BY <1>1, <1>3
<1> HIDE DEF N
<1>5. Moved(s, t, N) /\ Len(t.facts) = Len(s.facts) + Len(keys)
    BY <1>2, <1>4, IndexTriplesMoves
<1>6. StoreTyped(t) /\ Closed(t.rows) /\ Len(facts) <= Len(t.facts)
    BY <1>2, <1>3, <1>5 DEF Moved
<1>7. Grown(rows, t.rows, N)
    BY <1>3, <1>5, GrownMoved DEF N
<1>8. ASSUME Chained(s.rows), Indexed(s.rows, s.facts)
      PROVE  Chained(t.rows) /\ Indexed(t.rows, t.facts)
    <2>1. TrueStore(s, N)
        BY <1>1, <1>4, <1>8 DEF TrueStore
    <2>2. TrueStore(t, N)
        BY <1>2, <1>4, <2>1, IndexTriplesTrue
    <2> QED BY <2>2 DEF TrueStore
<1> QED BY <1>6, <1>7, <1>8 DEF N

LEMMA RememberWrote == ASSUME ChainInv, NEW w \in Writers, Remember(w) PROVE Wrote(w)
<1>1. PICK keys \in Triples, ttl \in Lifetimes :
        LET s == [Store EXCEPT !.rows = Append(@, Inserted(work[w].text, ttl))]
        IN  Commit(w, "remember", IndexTriples(s, keys, Len(s.rows)), TRUE)
    BY DEF Remember
<1> DEFINE row == Inserted(work[w].text, ttl)
           s == [Store EXCEPT !.rows = Append(@, row)]
           t == IndexTriples(s, keys, Len(s.rows))
           N == Len(rows) + 1
<1>2. Commit(w, "remember", t, TRUE) /\ UNCHANGED archived
    BY <1>1 DEF Remember
<1>3. /\ StoreTyped(Store) /\ Store.rows = rows /\ Store.facts = facts
      /\ Store.bumped = FALSE /\ Len(rows) \in Nat
    BY Basics
<1>4. row \in Row /\ row.parent = None /\ row.next = None /\ row.open /\ row.status = "active"
    <2>1. work[w].text \in Texts \cup {Gone}
        BY WorkOf DEF Work
    <2>2. ttl \in {"none", "future", "due"}
        BY DEF Lifetimes
    <2> QED BY <2>1, <2>2 DEF Inserted, Row, None
<1>5. None \in 0..Len(rows) /\ None \notin Ids /\ N \in Nat
    BY <1>3 DEF None, Ids
<1> HIDE DEF row
<1>6. s = [Store EXCEPT !.rows = Append(@, row)]
    OBVIOUS
<1> HIDE DEF s
<1>7. /\ StoreTyped(s) /\ Len(s.rows) = N /\ s.facts = facts
      /\ \A r \in 1..Len(rows) : s.rows[r] = rows[r]
      /\ s.rows[N] = row
    <2>1. row.parent \in 0..Len(Store.rows)
        BY <1>3, <1>4, <1>5
    <2>2. Appended(Store, s, row)
        BY <1>3, <1>4, <1>6, <2>1, AppendIs
    <2> QED BY <1>3, <2>2 DEF Appended
<1>8. Grown(rows, s.rows, N)
    BY <1>4, <1>7 DEF Grown
<1>9. \A r \in 1..N : r \in 1..Len(rows) \/ r = N
    BY <1>3
<1>10. Closed(s.rows)
    <2> SUFFICES ASSUME NEW r \in 1..N
                 PROVE  /\ s.rows[r].next # None => ~s.rows[r].open
                        /\ s.rows[r].parent # None => ~s.rows[s.rows[r].parent].open
        BY <1>7 DEF Closed
    <2>1. CASE r = N
        BY <1>4, <1>7, <2>1
    <2>2. CASE r \in 1..Len(rows)
        <3>1. rows[r].parent # None => rows[r].parent \in 1..Len(rows)
            BY <1>3, <2>2, Basics DEF RowsTyped, None
        <3>2. /\ rows[r].next # None => ~rows[r].open
              /\ rows[r].parent # None => ~rows[rows[r].parent].open
            BY <2>2, Basics DEF Closed
        <3> QED BY <1>7, <2>2, <3>1, <3>2
    <2> QED BY <1>9, <2>1, <2>2
<1>11. ASSUME races = 0 PROVE Chained(s.rows) /\ Indexed(s.rows, s.facts)
    <2> DEFINE ts == s.rows
    <2>1. Chained(ts)
        <3>1. /\ RowsTyped(rows) /\ RowsTyped(ts) /\ Chained(rows) /\ N = Len(rows) + 1
              /\ Len(ts) = N /\ ts[N].parent = None /\ ts[N].next = None
            BY <1>4, <1>7, <1>11, Basics DEF StoreTyped
        <3>2. \A r \in 1..Len(rows) : /\ ts[r].version = rows[r].version
                                      /\ ts[r].parent = rows[r].parent
                                      /\ ts[r].next = IF r = None THEN N ELSE rows[r].next
            BY <1>5, <1>7 DEF Ids
        <3> HIDE DEF ts, N
        <3>3. None # None =>
                /\ rows[None].version < ts[N].version
                /\ \A x \in 1..Len(rows) :
                    Ancestor(rows, x) = Ancestor(rows, None) /\ x # None => Below(rows, x, None)
            OBVIOUS
        <3>4. Extends(rows, ts, N, None)
            BY ONLY <1>5, <3>1, <3>2, <3>3 DEF Extends
        <3> QED BY <3>1, <3>4, ChainedGrows
    <2>2. Alone(facts) /\ Backed(rows, facts)
        BY <1>11, Basics, IndexedIs
    <2>3. Backed(s.rows, facts)
        <3>1. \A f \in 1..Len(facts) : facts[f].mem \in 1..Len(rows)
            BY Basics DEF FactsTyped
        <3> QED BY <1>7, <2>2, <3>1 DEF Backed
    <2> QED BY <1>7, <2>1, <2>2, <2>3, IndexedIs
<1>12. /\ StoreTyped(t) /\ Len(facts) <= Len(t.facts) /\ Closed(t.rows)
       /\ Grown(rows, t.rows, N)
       /\ Chained(s.rows) /\ Indexed(s.rows, s.facts)
          => Chained(t.rows) /\ Indexed(t.rows, t.facts)
    BY <1>7, <1>8, <1>10, IndexedGrown
<1> HIDE DEF t
<1> QED BY <1>2, <1>11, <1>12, GrownWrote

\* What correct and restore write follows what was read.
LEMMA Follows ==
    ASSUME ChainInv, NEW w \in Writers, work[w].op \in {"correct", "restore"},
           work[w].ready, NEW text \in Texts \cup {Gone},
           NEW ttl \in {"none", "future", "due"},
           NEW t, t = Succeed(Store, work[w].other, work[w].version, text, ttl)
    PROVE  /\ work[w].other \in 1..Len(rows)
           /\ Succeeded(t, work[w].other, work[w].version, Len(rows) + 1)
           /\ StoreTyped(t) /\ Grown(rows, t.rows, Len(rows) + 1)
           /\ Len(t.facts) = Len(facts) /\ Closed(t.rows)
           /\ races = 0 /\ Sound(w) => Chained(t.rows) /\ Indexed(t.rows, t.facts)
<1> DEFINE head == work[w].other
           v == work[w].version
           mem == work[w].mem
<1>1. head \in Ids /\ mem \in Ids /\ v \in Nat \ {0}
    <2>1. work[w] \in Work /\ WorkTyped(work[w], rows, facts)
        BY WorkOf
    <2>2. v \in Nat
        BY <2>1 DEF Work
    <2>3. head \in Ids /\ v > 0
        BY <2>1 DEF WorkTyped, Ids
    <2>4. mem \in Ids
        BY <2>1 DEF WorkTyped, Ids, Ops
    <2> QED BY <2>2, <2>3, <2>4
<1>2. Sound(w) => head = ChainHead(rows, mem) /\ rows[head].version < v
    BY DEF Sound
<1>3. t = Succeed(Store, head, v, text, ttl)
    OBVIOUS
<1> HIDE DEF head, v, mem
<1>4. Succeeded(t, head, v, Len(rows) + 1)
    BY <1>1, <1>3, Basics, SucceedIs
<1>5. Closed(t.rows)
    BY <1>1, <1>3, Basics, SucceedClosed
<1>6. races = 0 /\ Sound(w) => Chained(t.rows) /\ Indexed(t.rows, t.facts)
    BY <1>1, <1>2, <1>3, Basics, SucceedTrue
<1> QED BY <1>1, <1>4, <1>5, <1>6 DEF Succeeded, head, v, Ids

LEMMA RestoreWrote == ASSUME ChainInv, NEW w \in Writers, Restore(w) PROVE Wrote(w)
<1> DEFINE t == Succeed(Store, work[w].other, work[w].version, work[w].text, "none")
<1>1. Commit(w, "restore", t, TRUE) /\ UNCHANGED archived
    BY DEF Restore
<1>2. work[w].op = "restore" /\ work[w].ready
    BY <1>1 DEF Commit
<1>3. work[w].text \in Texts \cup {Gone}
    BY WorkOf DEF Work
<1>4. /\ StoreTyped(t) /\ Grown(rows, t.rows, Len(rows) + 1)
      /\ Len(t.facts) = Len(facts) /\ Closed(t.rows)
      /\ races = 0 /\ Sound(w) => Chained(t.rows) /\ Indexed(t.rows, t.facts)
    BY <1>2, <1>3, Follows
<1> HIDE DEF t
<1>5. Len(facts) <= Len(t.facts)
    BY <1>4, Basics
<1> QED BY <1>1, <1>4, <1>5, GrownWrote

LEMMA CorrectByExtractionWrote ==
    ASSUME ChainInv, NEW w \in Writers, CorrectByExtraction(w) PROVE Wrote(w)
<1>1. PICK text \in Texts, keys \in Triples, ttl \in Lifetimes :
        LET s == Succeed(Store, work[w].other, work[w].version, text, ttl)
        IN  Commit(w, "correct", IndexTriples(s, keys, Len(s.rows)), TRUE)
    BY DEF CorrectByExtraction
<1> DEFINE s == Succeed(Store, work[w].other, work[w].version, text, ttl)
           t == IndexTriples(s, keys, Len(s.rows))
<1>2. Commit(w, "correct", t, TRUE) /\ UNCHANGED archived
    BY <1>1 DEF CorrectByExtraction
<1>3. work[w].op = "correct" /\ work[w].ready
    BY <1>2 DEF Commit
<1>4. ttl \in {"none", "future", "due"} /\ text \in Texts \cup {Gone}
    BY DEF Lifetimes
<1>5. /\ StoreTyped(s) /\ Grown(rows, s.rows, Len(rows) + 1)
      /\ Len(s.facts) = Len(facts) /\ Closed(s.rows)
      /\ races = 0 /\ Sound(w) => Chained(s.rows) /\ Indexed(s.rows, s.facts)
    BY <1>3, <1>4, Follows
<1> HIDE DEF s
<1>6. /\ StoreTyped(t) /\ Len(facts) <= Len(t.facts) /\ Closed(t.rows)
      /\ Grown(rows, t.rows, Len(rows) + 1)
      /\ Chained(s.rows) /\ Indexed(s.rows, s.facts)
         => Chained(t.rows) /\ Indexed(t.rows, t.facts)
    BY <1>5, IndexedGrown
<1> HIDE DEF t
<1> QED BY <1>2, <1>5, <1>6, GrownWrote
-----------------------------------------------------------------------------
\* The writes that add no row.

\* ts is rs with the same chain, and nothing was opened.
Reshaped(rs, ts) ==
    /\ ts \in Seq(Row) /\ Len(ts) = Len(rs)
    /\ \A r \in 1..Len(rs) :
        /\ ts[r].version = rs[r].version /\ ts[r].parent = rs[r].parent
        /\ ts[r].next = rs[r].next
        /\ ~rs[r].open => ~ts[r].open

LEMMA ReshapedKeeps ==
    ASSUME NEW rs, NEW ts, RowsTyped(rs), Reshaped(rs, ts)
    PROVE  /\ RowsTyped(ts)
           /\ Closed(rs) => Closed(ts)
           /\ Chained(rs) => Chained(ts)
<1>1. Len(ts) = Len(rs) /\ Len(rs) \in Nat /\ ts \in Seq(Row)
    BY DEF RowsTyped, Reshaped
<1>2. \A r \in 1..Len(rs) : /\ ts[r].version = rs[r].version /\ ts[r].parent = rs[r].parent
                            /\ ts[r].next = rs[r].next
                            /\ ~rs[r].open => ~ts[r].open
    BY DEF Reshaped
<1>3. \A r \in 1..Len(rs) : rs[r].parent \in 0..Len(rs) /\ rs[r].next \in 0..Len(rs)
    BY DEF RowsTyped
<1>4. RowsTyped(ts)
    BY <1>1, <1>2, <1>3 DEF RowsTyped
<1>5. ASSUME Closed(rs) PROVE Closed(ts)
    <2> SUFFICES ASSUME NEW r \in 1..Len(rs)
                 PROVE  /\ ts[r].next # None => ~ts[r].open
                        /\ ts[r].parent # None => ~ts[ts[r].parent].open
        BY <1>1 DEF Closed
    <2>1. /\ rs[r].next # None => ~rs[r].open
          /\ rs[r].parent # None => ~rs[rs[r].parent].open
        BY <1>5 DEF Closed
    <2>2. rs[r].parent # None => rs[r].parent \in 1..Len(rs)
        BY <1>1, <1>3 DEF None
    <2> QED BY <1>2, <2>1, <2>2
<1>6. ASSUME Chained(rs) PROVE Chained(ts)
    BY <1>1, <1>2, <1>6, ChainedSame
<1> QED BY <1>4, <1>5, <1>6

LEMMA ReshapedIndexed ==
    ASSUME NEW rs, NEW ts, Reshaped(rs, ts), NEW fs, FactsTyped(rs, fs)
    PROVE  /\ FactsTyped(ts, fs)
           /\ Indexed(rs, fs) => Indexed(ts, fs)
<1>1. FactsTyped(ts, fs)
    BY DEF FactsTyped, Reshaped
<1>2. \A f \in 1..Len(fs) : fs[f].mem \in 1..Len(rs)
    BY DEF FactsTyped
<1>3. Indexed(rs, fs) => Indexed(ts, fs)
    BY <1>2 DEF Indexed, Reshaped
<1> QED BY <1>1, <1>3

\* One row of rs is another.
LEMMA OneRow ==
    ASSUME NEW rs \in Seq(Row), NEW r \in 1..Len(rs), NEW row \in Row,
           NEW ts, ts = [rs EXCEPT ![r] = row]
    PROVE  /\ ts \in Seq(Row) /\ Len(ts) = Len(rs) /\ ts[r] = row
           /\ \A x \in 1..Len(rs) : x # r => ts[x] = rs[x]
           /\ \A x \in 1..Len(rs) : rs[x] \in Row
<1>1. /\ DOMAIN rs = 1..Len(rs) /\ Len(rs) \in Nat
      /\ \A x \in 1..Len(rs) : rs[x] \in Row
    OBVIOUS
<1>2. ts = [x \in 1..Len(rs) |-> IF x = r THEN row ELSE rs[x]]
    BY <1>1
<1>3. ts \in [1..Len(rs) -> Row]
    BY <1>1, <1>2
<1>4. ts \in Seq(Row) /\ Len(ts) = Len(rs)
    BY <1>1, <1>3
<1>5. ts[r] = row /\ \A x \in 1..Len(rs) : x # r => ts[x] = rs[x]
    BY <1>2
<1> QED BY <1>1, <1>4, <1>5

\* A write that reshapes the rows and leaves the facts as they are.
LEMMA ReshapedWrote ==
    ASSUME ChainInv, NEW w \in Writers, NEW op, NEW s, NEW bump \in BOOLEAN,
           Commit(w, op, s, bump), Reshaped(rows, s.rows), s.facts = facts,
           bump \/ s.bumped \/ s.rows = rows,
           archived' \subseteq 1..Len(rows), Always(rows, s.rows, archived'),
           Sound(w) => IfSound(rows, s.rows)
    PROVE  Wrote(w)
<1>1. /\ rows' = s.rows /\ facts' = facts
      /\ work[w].ready /\ work' = [work EXCEPT ![w] = Idle]
      /\ races' = IF Sound(w) THEN races ELSE races + 1
    BY CommitIs
<1>2. told' = Current(rows') \/ (told' = told /\ rows' = rows)
    <2>1. CASE bump \/ s.bumped
        BY <2>1, CommitIs
    <2>2. CASE ~ (bump \/ s.bumped)
        <3>1. s.rows = rows
            BY <2>2
        <3> QED BY <1>1, <2>2, <3>1, CommitIs
    <2> QED BY <2>1, <2>2
<1>3. /\ RowsTyped(rows) /\ FactsTyped(rows, facts) /\ Closed(rows)
      /\ Len(rows) \in Nat /\ Len(facts) \in Nat
      /\ races = 0 => Chained(rows) /\ Indexed(rows, facts)
    BY Basics
<1>4. RowsTyped(s.rows) /\ Closed(s.rows) /\ (Chained(rows) => Chained(s.rows))
    BY <1>3, ReshapedKeeps
<1>5. FactsTyped(s.rows, facts) /\ (Indexed(rows, facts) => Indexed(s.rows, facts))
    BY <1>3, ReshapedIndexed
<1>6. Len(s.rows) = Len(rows)
    BY DEF Reshaped
<1>7. archived' \subseteq 1..Len(rows') /\ Len(rows) <= Len(rows') /\ Len(facts) <= Len(facts')
    BY <1>1, <1>3, <1>6
<1> QED BY <1>1, <1>2, <1>3, <1>4, <1>5, <1>7 DEF Wrote

LEMMA ForgetWrote == ASSUME ChainInv, NEW w \in Writers, Forget(w) PROVE Wrote(w)
<1> DEFINE m == work[w].mem
           ts == [rows EXCEPT ![m].status = "tombstone", ![m].open = FALSE]
           s == [Store EXCEPT !.rows = ts]
<1>1. Commit(w, "forget", s, TRUE) /\ UNCHANGED archived
    BY Basics DEF Forget
<1>2. /\ rows \in Seq(Row) /\ DOMAIN rows = 1..Len(rows) /\ Closed(rows)
      /\ \A r \in 1..Len(rows) : rows[r] \in Row
      /\ archived \subseteq 1..Len(rows)
    BY Basics
<1>3. m \in 1..Len(rows)
    <2>1. work[w].op = "forget"
        BY <1>1 DEF Commit
    <2> QED BY <2>1, WorkOf DEF WorkTyped, Ops
<1>4. s.rows = ts /\ s.facts = facts
    BY DEF Store
<1> HIDE DEF m
<1> DEFINE row == [rows[m] EXCEPT !.status = "tombstone", !.open = FALSE]
<1>5. /\ row \in Row /\ row.status = "tombstone" /\ row.open = FALSE
      /\ row.text = rows[m].text /\ row.version = rows[m].version
      /\ row.parent = rows[m].parent /\ row.next = rows[m].next
    BY <1>2, <1>3 DEF Row
<1>6. ts = [rows EXCEPT ![m] = row]
    BY <1>2, <1>3
<1> HIDE DEF row, ts, s
<1>7. /\ ts \in Seq(Row) /\ Len(ts) = Len(rows) /\ ts[m] = row
      /\ \A x \in 1..Len(rows) : x # m => ts[x] = rows[x]
    BY <1>2, <1>3, <1>5, <1>6, OneRow
<1>8. Reshaped(rows, ts)
    BY <1>5, <1>7 DEF Reshaped
<1>9. Always(rows, ts, archived')
    BY <1>5, <1>7 DEF Always
<1>10. IfSound(rows, ts)
    <2>1. \A r \in 1..Len(rows) : rows[r].open => rows[r].next = None
        BY <1>2 DEF Closed
    <2> QED BY <1>5, <1>7, <2>1 DEF IfSound
<1> QED BY <1>1, <1>2, <1>4, <1>8, <1>9, <1>10, ReshapedWrote

LEMMA JudgeWrote == ASSUME ChainInv, Judge PROVE Wrote(Dream)
<1> DEFINE m == work[Dream].mem
           ts == [rows EXCEPT ![m].open = FALSE]
           s == [Store EXCEPT !.rows = ts]
<1>1. Commit(Dream, "judge", s, TRUE) /\ UNCHANGED archived /\ Dream \in Writers
    BY Basics DEF Judge, Writers
<1>2. /\ rows \in Seq(Row) /\ DOMAIN rows = 1..Len(rows) /\ Closed(rows)
      /\ \A r \in 1..Len(rows) : rows[r] \in Row
      /\ archived \subseteq 1..Len(rows)
    BY Basics
<1>3. m \in 1..Len(rows)
    <2>1. work[Dream].op = "judge"
        BY <1>1 DEF Commit
    <2> QED BY <1>1, <2>1, WorkOf DEF WorkTyped, Ops
<1>4. s.rows = ts /\ s.facts = facts
    BY DEF Store
<1> HIDE DEF m
<1> DEFINE row == [rows[m] EXCEPT !.open = FALSE]
<1>5. /\ row \in Row /\ row.status = rows[m].status /\ row.open = FALSE
      /\ row.text = rows[m].text /\ row.version = rows[m].version
      /\ row.parent = rows[m].parent /\ row.next = rows[m].next
    BY <1>2, <1>3 DEF Row
<1>6. ts = [rows EXCEPT ![m] = row]
    BY <1>2, <1>3
<1> HIDE DEF row, ts, s
<1>7. /\ ts \in Seq(Row) /\ Len(ts) = Len(rows) /\ ts[m] = row
      /\ \A x \in 1..Len(rows) : x # m => ts[x] = rows[x]
    BY <1>2, <1>3, <1>5, <1>6, OneRow
<1>8. Reshaped(rows, ts)
    BY <1>5, <1>7 DEF Reshaped
<1>9. Always(rows, ts, archived')
    BY <1>5, <1>7 DEF Always
<1>10. IfSound(rows, ts)
    <2>1. \A r \in 1..Len(rows) : rows[r].open => rows[r].next = None
        BY <1>2 DEF Closed
    <2> QED BY <1>5, <1>7, <2>1 DEF IfSound
<1> QED BY <1>1, <1>2, <1>4, <1>8, <1>9, <1>10, ReshapedWrote

LEMMA AgeWrote == ASSUME ChainInv, Age PROVE Wrote(Dream)
<1> DEFINE o == work[Dream]
<1>1. PICK stored \in SUBSET o.purge :
        LET aged(r) ==
                IF r \in o.demote THEN [rows[r] EXCEPT !.status = "summarized"]
                ELSE IF r \in o.bury THEN [rows[r] EXCEPT !.status = "tombstone"]
                ELSE IF r \in stored THEN [rows[r] EXCEPT !.text = Gone]
                ELSE rows[r]
        IN  /\ Commit(Dream, "age", [Store EXCEPT !.rows = [r \in Ids |-> aged(r)]],
                      o.demote \cup o.bury \cup stored # {})
            /\ archived' = archived \cup stored
    BY DEF Age
<1> DEFINE aged(r) ==
                IF r \in o.demote THEN [rows[r] EXCEPT !.status = "summarized"]
                ELSE IF r \in o.bury THEN [rows[r] EXCEPT !.status = "tombstone"]
                ELSE IF r \in stored THEN [rows[r] EXCEPT !.text = Gone]
                ELSE rows[r]
           ts == [r \in Ids |-> aged(r)]
           s == [Store EXCEPT !.rows = ts]
           bump == o.demote \cup o.bury \cup stored # {}
<1>2. Commit(Dream, "age", s, bump) /\ archived' = archived \cup stored /\ Dream \in Writers
    BY <1>1 DEF Writers
<1>3. /\ rows \in Seq(Row) /\ Len(rows) \in Nat /\ DOMAIN rows = 1..Len(rows)
      /\ Closed(rows) /\ Ids = 1..Len(rows)
      /\ \A r \in 1..Len(rows) : rows[r] \in Row
      /\ archived \subseteq 1..Len(rows)
    BY Basics
<1>4. o.op = "age" /\ o.demote \cup o.bury \cup o.purge \subseteq 1..Len(rows)
    BY <1>2, WorkOf DEF WorkTyped, Commit
<1>5. s.rows = ts /\ s.facts = facts /\ bump \in BOOLEAN
    BY DEF Store
<1>6. archived' \subseteq 1..Len(rows)
    BY <1>2, <1>3, <1>4
<1>7. ASSUME NEW r \in 1..Len(rows)
      PROVE  /\ ts[r] \in Row /\ ts[r].open = rows[r].open
             /\ ts[r].version = rows[r].version /\ ts[r].parent = rows[r].parent
             /\ ts[r].next = rows[r].next
             /\ ts[r].text = rows[r].text \/ (ts[r].text = Gone /\ r \in stored)
             /\ \/ ts[r].status = rows[r].status
                \/ ts[r].status = "tombstone"
                \/ r \in o.demote
    <2>1. rows[r] \in Row /\ ts[r] = aged(r)
        BY <1>3
    <2>2. CASE r \in o.demote
        <3>1. ts[r] = [rows[r] EXCEPT !.status = "summarized"]
            BY <2>1, <2>2
        <3> QED BY <2>1, <2>2, <3>1 DEF Row
    <2>3. CASE r \notin o.demote /\ r \in o.bury
        <3>1. ts[r] = [rows[r] EXCEPT !.status = "tombstone"]
            BY <2>1, <2>3
        <3> QED BY <2>1, <3>1 DEF Row
    <2>4. CASE r \notin o.demote /\ r \notin o.bury /\ r \in stored
        <3>1. ts[r] = [rows[r] EXCEPT !.text = Gone]
            BY <2>1, <2>4
        <3> QED BY <2>1, <2>4, <3>1 DEF Row
    <2>5. CASE r \notin o.demote /\ r \notin o.bury /\ r \notin stored
        BY <2>1, <2>5
    <2> QED BY <2>2, <2>3, <2>4, <2>5
<1>8. bump \/ ts = rows
    <2> SUFFICES ASSUME ~bump PROVE ts = rows
        OBVIOUS
    <2>1. \A r \in 1..Len(rows) : r \notin o.demote /\ r \notin o.bury /\ r \notin stored
        OBVIOUS
    <2>2. \A r \in 1..Len(rows) : ts[r] = rows[r]
        BY <1>3, <2>1
    <2>3. DOMAIN ts = 1..Len(rows) /\ ts = [r \in 1..Len(rows) |-> ts[r]]
        BY <1>3
    <2>4. rows = [r \in 1..Len(rows) |-> rows[r]]
        BY <1>3
    <2> HIDE DEF ts
    <2> QED BY <2>2, <2>3, <2>4
<1>9. ts \in Seq(Row) /\ Len(ts) = Len(rows)
    <2>1. ts \in [1..Len(rows) -> Row]
        <3>1. ts = [r \in 1..Len(rows) |-> ts[r]]
            BY <1>3
        <3> HIDE DEF ts
        <3> QED BY <1>7, <3>1
    <2> HIDE DEF ts
    <2> QED BY <1>3, <2>1
<1> HIDE DEF ts, s, bump
<1>10. Reshaped(rows, ts)
    BY <1>7, <1>9 DEF Reshaped
<1>11. Always(rows, ts, archived')
    BY <1>2, <1>7 DEF Always
<1>12. ASSUME Sound(Dream) PROVE IfSound(rows, ts)
    <2>1. o.demote \subseteq Demotable
        BY <1>4, <1>12 DEF Sound
    <2>2. \A r \in o.demote : rows[r].status = "active"
        BY <2>1 DEF Demotable, Standing
    <2> HIDE DEF o
    <2> QED BY <1>7, <2>2 DEF IfSound
<1> QED BY <1>2, <1>5, <1>6, <1>8, <1>10, <1>11, <1>12, ReshapedWrote

\* The rows with another status of one of them.
StatusSet(rs, ts, r, status) ==
    /\ Reshaped(rs, ts) /\ ts[r].status = status
    /\ \A x \in 1..Len(rs) :
        /\ ts[x].text = rs[x].text /\ ts[x].open = rs[x].open
        /\ x # r => ts[x].status = rs[x].status

LEMMA StatusIs ==
    ASSUME NEW s, StoreTyped(s), NEW r \in 1..Len(s.rows),
           NEW status \in {"active", "summarized", "tombstone", "expired"},
           NEW ts, ts = [s.rows EXCEPT ![r].status = status]
    PROVE  StatusSet(s.rows, ts, r, status)
<1> DEFINE rs == s.rows
           row == [rs[r] EXCEPT !.status = status]
<1>1. rs \in Seq(Row) /\ DOMAIN rs = 1..Len(rs) /\ \A x \in 1..Len(rs) : rs[x] \in Row
    BY DEF StoreTyped, RowsTyped
<1>2. ts = [rs EXCEPT ![r] = row]
    BY <1>1
<1>3. /\ row \in Row /\ row.status = status /\ row.open = rs[r].open
      /\ row.text = rs[r].text /\ row.version = rs[r].version
      /\ row.parent = rs[r].parent /\ row.next = rs[r].next
    BY <1>1 DEF Row
<1>4. r \in 1..Len(rs)
    OBVIOUS
<1> HIDE DEF rs, row
<1>5. /\ ts \in Seq(Row) /\ Len(ts) = Len(rs) /\ ts[r] = row
      /\ \A x \in 1..Len(rs) : x # r => ts[x] = rs[x]
    BY ONLY <1>1, <1>2, <1>3, <1>4, OneRow
<1>6. Reshaped(rs, ts)
    BY <1>3, <1>5 DEF Reshaped
<1> QED BY <1>3, <1>5, <1>6 DEF rs, StatusSet

LEMMA CorrectByToolWrote ==
    ASSUME ChainInv, NEW w \in Writers, CorrectByTool(w) PROVE Wrote(w)
<1> DEFINE head == work[w].other
<1>1. PICK text \in Texts, status \in {rows[head].status, "tombstone"} :
        LET s == Succeed(Store, head, work[w].version, text, rows[head].ttl)
        IN  Commit(w, "correct", [s EXCEPT !.rows[head].status = status], TRUE)
    BY DEF CorrectByTool
<1> DEFINE s == Succeed(Store, head, work[w].version, text, rows[head].ttl)
           t == [s EXCEPT !.rows[head].status = status]
           N == Len(rows) + 1
<1>2. Commit(w, "correct", t, TRUE) /\ UNCHANGED archived
    BY <1>1 DEF CorrectByTool
<1>3. work[w].op = "correct" /\ work[w].ready
    BY <1>2 DEF Commit
<1>4. head \in 1..Len(rows)
    BY <1>3, WorkOf DEF WorkTyped
<1>5. rows[head].ttl \in {"none", "future", "due"}
      /\ status \in {"active", "summarized", "tombstone", "expired"}
    <2>1. rows[head] \in Row
        BY <1>4, Basics
    <2> HIDE DEF head
    <2> QED BY <2>1 DEF Row
<1>6. /\ StoreTyped(s) /\ Grown(rows, s.rows, N)
      /\ Len(s.facts) = Len(facts) /\ Closed(s.rows)
      /\ races = 0 /\ Sound(w) => Chained(s.rows) /\ Indexed(s.rows, s.facts)
    BY <1>3, <1>5, Follows
<1> HIDE DEF head, s
<1>7. /\ s \in [rows : Seq(Row), facts : Seq(Fact), bumped : BOOLEAN]
      /\ RowsTyped(s.rows) /\ FactsTyped(s.rows, s.facts)
      /\ Len(rows) \in Nat /\ Len(facts) \in Nat
    BY <1>6, Basics DEF StoreTyped
<1> DEFINE ts == [s.rows EXCEPT ![head].status = status]
<1>8. t = [s EXCEPT !.rows = ts] /\ t.rows = ts /\ t.facts = s.facts /\ t.bumped = s.bumped
    BY <1>7
<1>9. head \in 1..Len(s.rows) /\ head # N
    BY <1>4, <1>6, <1>7 DEF Grown
<1>10. ts = [s.rows EXCEPT ![head].status = status]
    OBVIOUS
<1> HIDE DEF ts, t
<1>11. /\ Reshaped(s.rows, ts) /\ ts[head].status = status
       /\ \A x \in 1..Len(s.rows) :
            /\ ts[x].text = s.rows[x].text /\ ts[x].open = s.rows[x].open
            /\ x # head => ts[x].status = s.rows[x].status
    <2>1. StatusSet(s.rows, ts, head, status)
        BY <1>5, <1>6, <1>9, <1>10, StatusIs
    <2> QED BY <2>1 DEF StatusSet
<1>12. RowsTyped(ts) /\ Closed(ts) /\ (Chained(s.rows) => Chained(ts))
    BY <1>6, <1>7, <1>11, ReshapedKeeps
<1>13. FactsTyped(ts, s.facts) /\ (Indexed(s.rows, s.facts) => Indexed(ts, s.facts))
    BY <1>7, <1>11, ReshapedIndexed
<1>14. StoreTyped(t)
    <2>1. ts \in Seq(Row)
        BY <1>11 DEF Reshaped
    <2>2. t \in [rows : Seq(Row), facts : Seq(Fact), bumped : BOOLEAN]
        BY <1>7, <1>8, <2>1
    <2> QED BY <1>8, <1>12, <1>13, <2>2 DEF StoreTyped
<1>15. Grown(rows, ts, N)
    <2>1. /\ N = Len(rows) + 1 /\ Len(s.rows) = N /\ Len(ts) = N /\ N \in 1..N
          /\ \A r \in 1..Len(rows) : r \in 1..N
        BY <1>6, <1>7, <1>11 DEF Grown, Reshaped
    <2>2. ts[N].open /\ ts[N].status = "active"
        BY <1>6, <1>9, <1>11, <2>1 DEF Grown
    <2>3. ASSUME NEW r \in 1..Len(rows)
          PROVE  /\ ts[r].text = rows[r].text
                 /\ ts[r].status = rows[r].status \/ ts[r].status = "tombstone"
                 /\ ts[r].version = rows[r].version /\ ts[r].parent = rows[r].parent
                 /\ \/ ts[r].open = rows[r].open /\ ts[r].next = rows[r].next
                    \/ ~ts[r].open /\ ts[r].next = N
        <3>1. r \in 1..Len(s.rows)
            BY <2>1
        <3>2. /\ ts[r].text = s.rows[r].text /\ ts[r].open = s.rows[r].open
              /\ ts[r].version = s.rows[r].version /\ ts[r].parent = s.rows[r].parent
              /\ ts[r].next = s.rows[r].next
              /\ ts[r].status = IF r = head THEN status ELSE s.rows[r].status
            BY <1>11, <3>1 DEF Reshaped
        <3>3. /\ s.rows[r].text = rows[r].text
              /\ s.rows[r].status = rows[r].status \/ s.rows[r].status = "tombstone"
              /\ s.rows[r].version = rows[r].version /\ s.rows[r].parent = rows[r].parent
              /\ \/ s.rows[r].open = rows[r].open /\ s.rows[r].next = rows[r].next
                 \/ ~s.rows[r].open /\ s.rows[r].next = N
            BY <1>6 DEF Grown
        <3>4. r = head => status = rows[r].status \/ status = "tombstone"
            OBVIOUS
        <3> QED BY <3>2, <3>3, <3>4
    <2> HIDE DEF N
    <2> QED BY <2>1, <2>2, <2>3 DEF Grown
<1>16. /\ Len(facts) <= Len(t.facts) /\ Closed(t.rows) /\ Grown(rows, t.rows, Len(rows) + 1)
       /\ races = 0 /\ Sound(w) => Chained(t.rows) /\ Indexed(t.rows, t.facts)
    BY <1>6, <1>7, <1>8, <1>12, <1>13, <1>15
<1> QED BY <1>2, <1>14, <1>16, GrownWrote

\* The facts that are there are closed for a memory and one is added.
LEMMA FactAddedIs ==
    ASSUME ChainInv, Dream \in Writers, work[Dream].op \in {"index", "update"},
           NEW t, t = FactAdded
    PROVE  /\ Moved(Store, t, work[Dream].mem) /\ Len(t.facts) = Len(facts) + 1
           /\ work[Dream].mem \in 1..Len(rows)
           /\ races = 0 /\ Sound(Dream) => Chained(t.rows) /\ Indexed(t.rows, t.facts)
<1> DEFINE o == work[Dream]
           m == o.mem
<1>1. PICK k \in Keys : o.keys = {k}
    BY WorkOf DEF WorkTyped
<1>2. t = AddFact(Store, k, m, o.seen)
    <2>1. (CHOOSE x \in o.keys : TRUE) = k
        BY <1>1
    <2> QED BY <2>1 DEF FactAdded
<1>3. m \in 1..Len(rows)
    BY WorkOf DEF WorkTyped, Ops
<1>4. /\ StoreTyped(Store) /\ Store.rows = rows /\ Store.facts = facts
      /\ Closed(rows) /\ (races = 0 => Chained(rows) /\ Indexed(rows, facts))
    BY Basics
<1>5. Sound(Dream) => Standing(rows, m) /\ o.seen = Closing(facts, k)
    <2>1. UNION {Closing(facts, x) : x \in {k}} = Closing(facts, k)
        OBVIOUS
    <2> QED BY <1>1, <2>1 DEF Sound
<1> HIDE DEF m, o
<1>6. Moved(Store, t, m) /\ Len(t.facts) = Len(facts) + 1
    BY <1>2, <1>3, <1>4, AddFactMoves
<1>7. ASSUME races = 0, Sound(Dream)
      PROVE  Chained(t.rows) /\ Indexed(t.rows, t.facts)
    <2>1. TrueStore(Store, m)
        BY <1>3, <1>4, <1>5, <1>7 DEF TrueStore, Standing
    <2>2. t = AddFact(Store, k, m, Closing(Store.facts, k))
        BY <1>2, <1>4, <1>5, <1>7
    <2>3. TrueStore(t, m)
        BY <2>1, <2>2, AddFactTrue
    <2> QED BY <2>3 DEF TrueStore
<1> QED BY <1>3, <1>6, <1>7 DEF m, o

\* What moving rows in favour of a standing memory leaves.
LEMMA MovedKeeps ==
    ASSUME NEW s, StoreTyped(s), NEW t, NEW m \in 1..Len(s.rows), Moved(s, t, m), NEW gone
    PROVE  /\ Always(s.rows, t.rows, gone)
           /\ Standing(s.rows, m) => IfSound(s.rows, t.rows)
<1>1. Always(s.rows, t.rows, gone)
    <2>1. \A r \in 1..Len(s.rows) : t.rows[r].text = s.rows[r].text
        BY DEF Moved, Same
    <2>2. \A r \in 1..Len(s.rows) : ~s.rows[r].open => ~t.rows[r].open
        BY DEF Moved
    <2> QED BY <2>1, <2>2 DEF Always
<1>2. ASSUME Standing(s.rows, m) PROVE IfSound(s.rows, t.rows)
    <2>1. s.rows[m].open /\ s.rows[m].status = "active"
        BY <1>2 DEF Standing
    <2>2. Standing(t.rows, m)
        BY <2>1 DEF Standing, Moved, Same
    <2>3. \A r \in 1..Len(s.rows) : t.rows[r].status = s.rows[r].status
        BY DEF Moved, Same
    <2>4. \A r \in 1..Len(s.rows) :
            ~s.rows[r].open => t.rows[r].parent = s.rows[r].parent
                               /\ t.rows[r].version = s.rows[r].version
        BY <2>1 DEF Moved
    <2>5. \A r \in 1..Len(s.rows) :
            s.rows[r].open /\ ~t.rows[r].open => t.rows[r].next = m
        BY DEF Moved
    <2> QED BY <2>2, <2>3, <2>4, <2>5 DEF IfSound
<1> QED BY <1>1, <1>2

LEMMA IndexWrote == ASSUME ChainInv, Index PROVE Wrote(Dream)
<1> DEFINE t == FactAdded
           m == work[Dream].mem
<1>1. Commit(Dream, "index", t, FALSE) /\ UNCHANGED archived /\ Dream \in Writers
      /\ work[Dream].op = "index"
    BY DEF Index, Writers
<1>2. /\ StoreTyped(Store) /\ Store.rows = rows /\ Store.facts = facts /\ Closed(rows)
      /\ Len(rows) \in Nat /\ Len(facts) \in Nat /\ archived \subseteq 1..Len(rows)
    BY Basics
<1>3. Sound(Dream) => Standing(rows, m)
    BY <1>1 DEF Sound
<1> HIDE DEF t
<1>4. /\ Moved(Store, t, m) /\ Len(t.facts) = Len(facts) + 1 /\ m \in 1..Len(rows)
      /\ races = 0 /\ Sound(Dream) => Chained(t.rows) /\ Indexed(t.rows, t.facts)
    <2>1. t = FactAdded
        BY DEF t
    <2> QED BY <1>1, <2>1, FactAddedIs
<1> HIDE DEF m
<1>5. /\ StoreTyped(t) /\ Len(t.rows) = Len(rows) /\ Closed(t.rows)
      /\ t.bumped \/ t.rows = rows
    BY <1>2, <1>4 DEF Moved
<1>6. Always(rows, t.rows, archived') /\ (Standing(rows, m) => IfSound(rows, t.rows))
    BY <1>2, <1>4, MovedKeeps
<1>7. /\ rows' = t.rows /\ facts' = t.facts
      /\ work[Dream].ready /\ work' = [work EXCEPT ![Dream] = Idle]
      /\ races' = IF Sound(Dream) THEN races ELSE races + 1
    BY <1>1, CommitIs
<1>8. told' = Current(rows') \/ (told' = told /\ rows' = rows)
    <2>1. CASE t.bumped
        BY <1>1, <2>1, CommitIs
    <2>2. CASE ~t.bumped
        BY <1>1, <1>5, <1>7, <2>2, CommitIs
    <2> QED BY <2>1, <2>2
<1>9. /\ RowsTyped(rows') /\ FactsTyped(rows', facts') /\ Closed(rows')
      /\ Len(rows) <= Len(rows') /\ Len(facts) <= Len(facts')
      /\ archived' \subseteq 1..Len(rows')
    BY <1>1, <1>2, <1>4, <1>5, <1>7 DEF StoreTyped
<1> QED BY <1>3, <1>4, <1>6, <1>7, <1>8, <1>9 DEF Wrote

LEMMA UpdateWrote == ASSUME ChainInv, Update PROVE Wrote(Dream)
<1> DEFINE t == FactAdded
           m == work[Dream].mem
           x == work[Dream].other
           ts == [t.rows EXCEPT ![x].status = "summarized"]
           u == [t EXCEPT !.rows = ts]
<1>1. Commit(Dream, "update", u, TRUE) /\ UNCHANGED archived /\ Dream \in Writers
      /\ work[Dream].op = "update"
    BY DEF Update, Writers
<1>2. /\ StoreTyped(Store) /\ Store.rows = rows /\ Store.facts = facts /\ Closed(rows)
      /\ Len(rows) \in Nat /\ Len(facts) \in Nat /\ archived \subseteq 1..Len(rows)
    BY Basics
<1>3. /\ Sound(Dream) => Standing(rows, m) /\ Standing(rows, x)
      /\ x \in 1..Len(rows) /\ x # m
    BY <1>1, WorkOf DEF Sound, WorkTyped
<1> HIDE DEF t
<1>4. /\ Moved(Store, t, m) /\ Len(t.facts) = Len(facts) + 1 /\ m \in 1..Len(rows)
      /\ races = 0 /\ Sound(Dream) => Chained(t.rows) /\ Indexed(t.rows, t.facts)
    <2>1. t = FactAdded
        BY DEF t
    <2> QED BY <1>1, <2>1, FactAddedIs
<1> HIDE DEF m, x
<1>5. StoreTyped(t) /\ Len(t.rows) = Len(rows) /\ Closed(t.rows)
    BY <1>2, <1>4 DEF Moved
<1>6. Always(rows, t.rows, archived') /\ (Standing(rows, m) => IfSound(rows, t.rows))
    BY <1>2, <1>4, MovedKeeps
<1>7. u.rows = ts /\ u.facts = t.facts
    BY <1>5 DEF StoreTyped
<1>8. ts = [t.rows EXCEPT ![x].status = "summarized"] /\ x \in 1..Len(t.rows)
    BY <1>3, <1>5
<1> HIDE DEF ts, u
<1>9. /\ Reshaped(t.rows, ts) /\ ts[x].status = "summarized"
      /\ \A r \in 1..Len(t.rows) :
            /\ ts[r].text = t.rows[r].text /\ ts[r].open = t.rows[r].open
            /\ r # x => ts[r].status = t.rows[r].status
    <2>1. StatusSet(t.rows, ts, x, "summarized")
        BY <1>5, <1>8, StatusIs
    <2> QED BY <2>1 DEF StatusSet
<1>10. /\ RowsTyped(ts) /\ Closed(ts) /\ (Chained(t.rows) => Chained(ts))
       /\ FactsTyped(ts, t.facts) /\ (Indexed(t.rows, t.facts) => Indexed(ts, t.facts))
       /\ Len(ts) = Len(rows)
    <2>1. RowsTyped(t.rows) /\ FactsTyped(t.rows, t.facts)
        BY <1>5 DEF StoreTyped
    <2>2. RowsTyped(ts) /\ Closed(ts) /\ (Chained(t.rows) => Chained(ts))
        BY <1>5, <1>9, <2>1, ReshapedKeeps
    <2>3. FactsTyped(ts, t.facts) /\ (Indexed(t.rows, t.facts) => Indexed(ts, t.facts))
        BY <1>9, <2>1, ReshapedIndexed
    <2> QED BY <1>5, <1>9, <2>2, <2>3 DEF Reshaped
<1>11. Always(rows, ts, archived')
    BY <1>5, <1>6, <1>9 DEF Always
<1>12. ASSUME Sound(Dream) PROVE IfSound(rows, ts)
    <2>1. IfSound(rows, t.rows) /\ Standing(rows, m) /\ Standing(rows, x)
        BY <1>3, <1>6, <1>12
    <2>2. \A r \in 1..Len(rows) : /\ ts[r].parent = t.rows[r].parent
                                  /\ ts[r].version = t.rows[r].version
                                  /\ ts[r].next = t.rows[r].next
                                  /\ ts[r].open = t.rows[r].open
        BY <1>5, <1>9 DEF Reshaped
    <2>3. \A r \in 1..Len(rows) : rows[r].status = "tombstone" => ts[r].status = "tombstone"
        BY <1>5, <1>9, <2>1 DEF IfSound, Standing
    <2>4. \A r \in 1..Len(rows) : rows[r].open /\ ~ts[r].open => ts[r].next = m
        BY <1>2, <1>4, <2>2 DEF Moved
    <2>5. Standing(ts, m)
        <3>1. t.rows[m].open /\ t.rows[m].status = "active"
            BY <1>2, <1>4, <2>1 DEF Moved, Same, Standing
        <3> QED BY <1>3, <1>4, <1>5, <1>9, <3>1 DEF Standing
    <2> QED BY <2>1, <2>2, <2>3, <2>4, <2>5 DEF IfSound
<1>13. /\ rows' = ts /\ facts' = t.facts /\ told' = Current(rows')
       /\ work[Dream].ready /\ work' = [work EXCEPT ![Dream] = Idle]
       /\ races' = IF Sound(Dream) THEN races ELSE races + 1
    BY <1>1, <1>7, CommitIs
<1>14. /\ Len(rows) <= Len(rows') /\ Len(facts) <= Len(facts')
       /\ archived' \subseteq 1..Len(rows')
    BY <1>1, <1>2, <1>4, <1>10, <1>13
<1> QED BY <1>4, <1>10, <1>11, <1>12, <1>13, <1>14 DEF Wrote

-----------------------------------------------------------------------------
\* Every step keeps the invariant.

LEMMA IdleTyped ==
    ASSUME NEW rs, NEW fs
    PROVE  /\ Idle \in Work /\ WorkTyped(Idle, rs, fs)
           /\ Idle.seen = {} /\ Idle.demote = {} /\ Idle.bury = {} /\ Idle.purge = {}
<1>1. /\ Idle.op = "none" /\ Idle.seen = {} /\ Idle.demote = {} /\ Idle.bury = {}
      /\ Idle.purge = {}
    BY DEF Idle
<1>2. Idle \in Work
    BY DEF Idle, Work, None
<1> QED BY <1>1, <1>2 DEF WorkTyped, Ops

LEMMA WorkGrows ==
    ASSUME NEW rs, NEW fs, NEW ts, NEW gs, NEW o, WorkTyped(o, rs, fs),
           Len(rs) \in Nat, Len(ts) \in Nat, Len(fs) \in Nat, Len(gs) \in Nat,
           Len(rs) <= Len(ts), Len(fs) <= Len(gs)
    PROVE  WorkTyped(o, ts, gs)
<1>1. \A n \in 1..Len(rs) : n \in 1..Len(ts)
    OBVIOUS
<1>2. \A n \in 1..Len(fs) : n \in 1..Len(gs)
    OBVIOUS
<1> QED BY <1>1, <1>2 DEF WorkTyped

LEMMA InitInv == Init => ChainInv
<1> SUFFICES ASSUME Init PROVE ChainInv
    OBVIOUS
<1>1. rows = <<>> /\ facts = <<>> /\ archived = {} /\ told = {} /\ races = 0
      /\ work = [w \in Writers |-> Idle]
    BY DEF Init
<1>2. Len(rows) = 0 /\ Len(facts) = 0 /\ 1..Len(rows) = {} /\ 1..Len(facts) = {}
      /\ rows \in Seq(Row) /\ facts \in Seq(Fact)
    BY <1>1
<1>3. RowsTyped(rows) /\ FactsTyped(rows, facts) /\ Closed(rows)
    BY <1>2 DEF RowsTyped, FactsTyped, Closed
<1>4. Typed
    <2>1. work \in [Writers -> Work] /\ \A w \in Writers : WorkTyped(work[w], rows, facts)
        BY <1>1, IdleTyped
    <2> QED BY <1>1, <1>3, <2>1 DEF Typed
<1>5. EveryChangeTold
    BY <1>1, <1>2 DEF EveryChangeTold, Current
<1>6. Chained(rows)
    <2> DEFINE e == [r \in 1..Len(rows) |-> r]
    <2>1. e \in [1..Len(rows) -> 1..Len(rows)]
        OBVIOUS
    <2> HIDE DEF e
    <2>2. Ranks(rows, e) /\ Roots(rows, e) /\ Tops(rows, e)
        BY <1>2, <2>1 DEF Ranks, Roots, Tops
    <2> QED BY <2>1, <2>2 DEF Chained
<1>7. Indexed(rows, facts)
    BY <1>2 DEF Indexed
<1> QED BY <1>3, <1>4, <1>5, <1>6, <1>7 DEF ChainInv

\* Only what w is about to write changes, and perhaps the archive file.
Picked(w) ==
    /\ \E o \in Work : WorkTyped(o, rows, facts) /\ work' = [work EXCEPT ![w] = o]
    /\ archived' \subseteq 1..Len(rows) /\ archived \subseteq archived'
    /\ UNCHANGED <<rows, facts, told, races>>

LEMMA StartPicks ==
    ASSUME ChainInv, NEW w \in Writers, NEW o \in Work, WorkTyped(o, rows, facts),
           Start(w, o)
    PROVE  Picked(w)
BY Basics DEF Start, Picked

LEMMA LookPicks ==
    ASSUME ChainInv, NEW w \in Writers, NEW o \in Work, WorkTyped(o, rows, facts),
           Look(w, o)
    PROVE  Picked(w)
BY Basics DEF Look, Picked

LEMMA BeginRememberPicks ==
    ASSUME ChainInv, NEW w \in Writers, BeginRemember(w) PROVE Picked(w)
<1>1. PICK text \in Texts :
        Start(w, [Idle EXCEPT !.op = "remember", !.ready = TRUE, !.text = text])
    BY DEF BeginRemember
<1> DEFINE o == [Idle EXCEPT !.op = "remember", !.ready = TRUE, !.text = text]
<1>2. o \in Work /\ WorkTyped(o, rows, facts)
    <2>1. Idle \in Work /\ ~Idle.ready
        BY IdleTyped DEF Idle
    <2>2. /\ o \in Work /\ o.op = "remember"
          /\ o.seen = Idle.seen /\ o.demote = Idle.demote /\ o.bury = Idle.bury
          /\ o.purge = Idle.purge
        BY <2>1 DEF Work, Ops
    <2> HIDE DEF o
    <2> QED BY <2>2, IdleTyped DEF WorkTyped, Ops
<1> HIDE DEF o
<1> QED BY <1>1, <1>2, StartPicks DEF o

LEMMA BeginCorrectPicks ==
    ASSUME ChainInv, NEW w \in Writers, BeginCorrect(w) PROVE Picked(w)
<1>1. PICK r \in Current(rows) :
        Start(w, [Idle EXCEPT !.op = "correct", !.mem = r, !.version = rows[r].version])
    BY DEF BeginCorrect
<1> DEFINE o == [Idle EXCEPT !.op = "correct", !.mem = r, !.version = rows[r].version]
<1>2. r \in 1..Len(rows) /\ rows[r].version \in Nat
    <2>1. r \in 1..Len(rows)
        BY DEF Current
    <2>2. rows[r] \in Row
        BY <2>1, Basics
    <2> QED BY <2>1, <2>2 DEF Row
<1>3. o \in Work /\ WorkTyped(o, rows, facts)
    <2>1. Idle \in Work /\ ~Idle.ready
        BY IdleTyped DEF Idle
    <2>3. r \in Nat /\ rows[r].version \in Nat
        BY <1>2
    <2>4. PICK i : i = Idle
        OBVIOUS
    <2>5. o = [i EXCEPT !.op = "correct", !.mem = r, !.version = rows[r].version]
        BY <2>4
    <2>2. /\ o \in Work /\ o.op = "correct" /\ o.mem = r /\ ~o.ready
          /\ o.seen = Idle.seen /\ o.demote = Idle.demote /\ o.bury = Idle.bury
          /\ o.purge = Idle.purge
        BY ONLY <2>1, <2>3, <2>4, <2>5 DEF Work, Ops
    <2> HIDE DEF o
    <2> QED BY <1>2, <2>2, IdleTyped DEF WorkTyped, Ops
<1> HIDE DEF o
<1> QED BY <1>1, <1>3, StartPicks DEF o

LEMMA BeginRestorePicks ==
    ASSUME ChainInv, NEW w \in Writers, BeginRestore(w) PROVE Picked(w)
<1>1. PICK r \in Ids :
        Start(w, [Idle EXCEPT !.op = "restore", !.mem = r,
                              !.text = rows[r].text, !.version = rows[r].version])
    BY DEF BeginRestore
<1> DEFINE o == [Idle EXCEPT !.op = "restore", !.mem = r,
                             !.text = rows[r].text, !.version = rows[r].version]
<1>2. r \in 1..Len(rows) /\ rows[r].version \in Nat /\ rows[r].text \in Texts \cup {Gone}
    <2>1. r \in 1..Len(rows)
        BY DEF Ids
    <2>2. rows[r] \in Row
        BY <2>1, Basics
    <2> QED BY <2>1, <2>2 DEF Row
<1>3. o \in Work /\ WorkTyped(o, rows, facts)
    <2>1. Idle \in Work /\ ~Idle.ready
        BY IdleTyped DEF Idle
    <2>3. r \in Nat /\ rows[r].version \in Nat /\ rows[r].text \in Texts \cup {Gone}
        BY <1>2
    <2>4. PICK i : i = Idle
        OBVIOUS
    <2>5. o = [i EXCEPT !.op = "restore", !.mem = r, !.text = rows[r].text, !.version = rows[r].version]
        BY <2>4
    <2>2. /\ o \in Work /\ o.op = "restore" /\ o.mem = r /\ ~o.ready
          /\ o.seen = Idle.seen /\ o.demote = Idle.demote /\ o.bury = Idle.bury
          /\ o.purge = Idle.purge
        BY ONLY <2>1, <2>3, <2>4, <2>5 DEF Work, Ops
    <2> HIDE DEF o
    <2> QED BY <1>2, <2>2, IdleTyped DEF WorkTyped, Ops
<1> HIDE DEF o
<1> QED BY <1>1, <1>3, StartPicks DEF o

LEMMA BeginForgetPicks ==
    ASSUME ChainInv, NEW w \in Writers, BeginForget(w) PROVE Picked(w)
<1>1. PICK r \in Current(rows) :
        Start(w, [Idle EXCEPT !.op = "forget", !.ready = TRUE, !.mem = r])
    BY DEF BeginForget
<1> DEFINE o == [Idle EXCEPT !.op = "forget", !.ready = TRUE, !.mem = r]
<1>2. r \in 1..Len(rows)
    BY DEF Current
<1>3. o \in Work /\ WorkTyped(o, rows, facts)
    <2>1. Idle \in Work /\ ~Idle.ready
        BY IdleTyped DEF Idle
    <2>3. r \in Nat
        BY <1>2
    <2>4. PICK i : i = Idle
        OBVIOUS
    <2>5. o = [i EXCEPT !.op = "forget", !.ready = TRUE, !.mem = r]
        BY <2>4
    <2>2. /\ o \in Work /\ o.op = "forget" /\ o.mem = r
          /\ o.seen = Idle.seen /\ o.demote = Idle.demote /\ o.bury = Idle.bury
          /\ o.purge = Idle.purge
        BY ONLY <2>1, <2>3, <2>4, <2>5 DEF Work, Ops
    <2> HIDE DEF o
    <2> QED BY <1>2, <2>2, IdleTyped DEF WorkTyped, Ops
<1> HIDE DEF o
<1> QED BY <1>1, <1>3, StartPicks DEF o

LEMMA BeginJudgePicks == ASSUME ChainInv, BeginJudge PROVE Picked(Dream)
<1>1. PICK loser \in Current(rows), winner \in Current(rows) :
        Start(Dream, [Idle EXCEPT !.op = "judge", !.ready = TRUE,
                                  !.mem = loser, !.other = winner])
    BY DEF BeginJudge
<1> DEFINE o == [Idle EXCEPT !.op = "judge", !.ready = TRUE,
                             !.mem = loser, !.other = winner]
<1>2. loser \in 1..Len(rows) /\ winner \in 1..Len(rows) /\ Dream \in Writers
    BY DEF Current, Writers
<1>3. o \in Work /\ WorkTyped(o, rows, facts)
    <2>1. Idle \in Work /\ ~Idle.ready
        BY IdleTyped DEF Idle
    <2>3. loser \in Nat /\ winner \in Nat
        BY <1>2
    <2>4. PICK i : i = Idle
        OBVIOUS
    <2>5. o = [i EXCEPT !.op = "judge", !.ready = TRUE, !.mem = loser, !.other = winner]
        BY <2>4
    <2>2. /\ o \in Work /\ o.op = "judge" /\ o.mem = loser /\ o.other = winner
          /\ o.seen = Idle.seen /\ o.demote = Idle.demote /\ o.bury = Idle.bury
          /\ o.purge = Idle.purge
        BY ONLY <2>1, <2>3, <2>4, <2>5 DEF Work, Ops
    <2> HIDE DEF o
    <2> QED BY <1>2, <2>2, IdleTyped DEF WorkTyped, Ops
<1> HIDE DEF o
<1> QED BY <1>1, <1>2, <1>3, StartPicks DEF o

LEMMA BeginUpdatePicks == ASSUME ChainInv, BeginUpdate PROVE Picked(Dream)
<1>1. PICK loser \in Current(rows), winner \in Current(rows), k \in Keys :
        /\ loser < winner
        /\ Start(Dream, [Idle EXCEPT !.op = "update", !.mem = winner,
                                     !.other = loser, !.keys = {k}])
    BY DEF BeginUpdate
<1> DEFINE o == [Idle EXCEPT !.op = "update", !.mem = winner,
                             !.other = loser, !.keys = {k}]
<1>2. loser \in 1..Len(rows) /\ winner \in 1..Len(rows) /\ Dream \in Writers
      /\ loser # winner
    BY <1>1 DEF Current, Writers
<1>3. o \in Work /\ WorkTyped(o, rows, facts)
    <2>1. Idle \in Work /\ ~Idle.ready
        BY IdleTyped DEF Idle
    <2>3. loser \in Nat /\ winner \in Nat /\ {k} \in SUBSET Keys
        BY <1>2
    <2>4. PICK i : i = Idle
        OBVIOUS
    <2>5. o = [i EXCEPT !.op = "update", !.mem = winner, !.other = loser, !.keys = {k}]
        BY <2>4
    <2>2. /\ o \in Work /\ o.op = "update" /\ o.mem = winner /\ o.other = loser /\ o.keys = {k}
          /\ o.seen = Idle.seen /\ o.demote = Idle.demote /\ o.bury = Idle.bury
          /\ o.purge = Idle.purge
        BY ONLY <2>1, <2>3, <2>4, <2>5 DEF Work, Ops
    <2> HIDE DEF o
    <2> QED BY <1>2, <2>2, IdleTyped DEF WorkTyped, Ops
<1> HIDE DEF o
<1> QED BY <1>1, <1>2, <1>3, StartPicks DEF o

LEMMA BeginIndexPicks == ASSUME ChainInv, BeginIndex PROVE Picked(Dream)
<1>1. PICK r \in Current(rows), k \in Keys :
        Start(Dream, [Idle EXCEPT !.op = "index", !.mem = r, !.keys = {k}])
    BY DEF BeginIndex
<1> DEFINE o == [Idle EXCEPT !.op = "index", !.mem = r, !.keys = {k}]
<1>2. r \in 1..Len(rows) /\ Dream \in Writers
    BY DEF Current, Writers
<1>3. o \in Work /\ WorkTyped(o, rows, facts)
    <2>1. Idle \in Work /\ ~Idle.ready
        BY IdleTyped DEF Idle
    <2>3. r \in Nat /\ {k} \in SUBSET Keys
        BY <1>2
    <2>4. PICK i : i = Idle
        OBVIOUS
    <2>5. o = [i EXCEPT !.op = "index", !.mem = r, !.keys = {k}]
        BY <2>4
    <2>2. /\ o \in Work /\ o.op = "index" /\ o.mem = r /\ o.keys = {k}
          /\ o.seen = Idle.seen /\ o.demote = Idle.demote /\ o.bury = Idle.bury
          /\ o.purge = Idle.purge
        BY ONLY <2>1, <2>3, <2>4, <2>5 DEF Work, Ops
    <2> HIDE DEF o
    <2> QED BY <1>2, <2>2, IdleTyped DEF WorkTyped, Ops
<1> HIDE DEF o
<1> QED BY <1>1, <1>2, <1>3, StartPicks DEF o

LEMMA BeginAgePicks == ASSUME ChainInv, BeginAge PROVE Picked(Dream)
<1>1. PICK demote \in SUBSET Demotable, bury \in SUBSET Buriable,
           purge \in SUBSET Purgeable :
        Start(Dream, [Idle EXCEPT !.op = "age", !.ready = TRUE,
                            !.demote = demote, !.bury = bury, !.purge = purge])
    BY DEF BeginAge
<1> DEFINE o == [Idle EXCEPT !.op = "age", !.ready = TRUE,
                            !.demote = demote, !.bury = bury, !.purge = purge]
<1>2. /\ demote \in SUBSET (1..Len(rows)) /\ bury \in SUBSET (1..Len(rows))
      /\ purge \in SUBSET (1..Len(rows)) /\ Dream \in Writers
    BY DEF Demotable, Buriable, Purgeable, Ids, Writers
<1>3. demote \in SUBSET Nat /\ bury \in SUBSET Nat /\ purge \in SUBSET Nat
    BY <1>2
<1>4. /\ o \in Work /\ o.op = "age" /\ o.seen = Idle.seen
      /\ o.demote = demote /\ o.bury = bury /\ o.purge = purge
    <2>1. Idle \in Work
        BY IdleTyped
    <2> QED BY <1>3, <2>1 DEF Work, Ops
<1> HIDE DEF o
<1>5. WorkTyped(o, rows, facts)
    BY <1>2, <1>4, IdleTyped DEF WorkTyped
<1> QED BY <1>1, <1>2, <1>4, <1>5, StartPicks DEF o

LEMMA LookAtChainPicks ==
    ASSUME ChainInv, NEW w \in Writers, LookAtChain(w) PROVE Picked(w)
<1> DEFINE m == work[w].mem
           head == ChainHead(rows, m)
           highest == IF rows[head].version > work[w].version
                      THEN rows[head].version ELSE work[w].version
           o == [work[w] EXCEPT !.ready = TRUE, !.other = head, !.version = highest + 1]
<1>1. work[w].op \in {"correct", "restore"} /\ Look(w, o)
    BY DEF LookAtChain
<1>2. work[w] \in Work /\ WorkTyped(work[w], rows, facts) /\ rows \in Seq(Row)
    BY WorkOf, Basics
<1>3. m \in 1..Len(rows)
    BY <1>1, <1>2 DEF WorkTyped, Ops
<1>4. head \in 1..Len(rows)
    BY <1>2, <1>3, HeadFound
<1>5. rows[head].version \in Nat
    <2>1. rows[head] \in Row
        BY <1>4, Basics
    <2> QED BY <2>1 DEF Row
<1> HIDE DEF head
<1>6. highest + 1 \in Nat \ {0}
    <2>1. work[w].version \in Nat
        BY <1>2 DEF Work
    <2> QED BY <1>5, <2>1
<1> HIDE DEF m, highest
<1>7. /\ o \in Work /\ o.op = work[w].op /\ o.mem = m /\ o.other = head
      /\ o.version = highest + 1 /\ o.seen = work[w].seen
      /\ o.demote = work[w].demote /\ o.bury = work[w].bury /\ o.purge = work[w].purge
    <2>1. head \in Nat /\ highest + 1 \in Nat
        BY <1>4, <1>6
    <2>2. o = [work[w] EXCEPT !.ready = TRUE, !.other = head, !.version = highest + 1]
        BY DEF highest
    <2>3. work[w] \in Work /\ m = work[w].mem
        BY <1>2 DEF m
    <2> HIDE DEF o
    <2> QED BY ONLY <2>1, <2>2, <2>3 DEF Work
<1>8. WorkTyped(o, rows, facts)
    BY <1>1, <1>2, <1>3, <1>4, <1>6, <1>7 DEF WorkTyped
<1> HIDE DEF o
<1> QED BY <1>1, <1>7, <1>8, LookPicks

LEMMA LookAtFactsPicks == ASSUME ChainInv, LookAtFacts PROVE Picked(Dream)
<1> DEFINE seen == UNION {Closing(facts, k) : k \in work[Dream].keys}
           o == [work[Dream] EXCEPT !.ready = TRUE, !.seen = seen]
<1>1. work[Dream].op \in {"index", "update"} /\ Look(Dream, o) /\ Dream \in Writers
    BY DEF LookAtFacts, Writers
<1>2. work[Dream] \in Work /\ WorkTyped(work[Dream], rows, facts)
    BY <1>1, WorkOf
<1>3. seen \in SUBSET (1..Len(facts)) /\ seen \in SUBSET Nat
    BY DEF Closing
<1> HIDE DEF seen
<1>4. /\ o \in Work /\ o.op = work[Dream].op /\ o.mem = work[Dream].mem
      /\ o.other = work[Dream].other /\ o.keys = work[Dream].keys /\ o.seen = seen
      /\ o.demote = work[Dream].demote /\ o.bury = work[Dream].bury
      /\ o.purge = work[Dream].purge
    BY <1>2, <1>3 DEF Work
<1>5. WorkTyped(o, rows, facts)
    BY <1>1, <1>2, <1>3, <1>4 DEF WorkTyped
<1> HIDE DEF o
<1> QED BY <1>1, <1>4, <1>5, LookPicks

LEMMA AbandonPicks == ASSUME ChainInv, NEW w \in Writers, Abandon(w) PROVE Picked(w)
<1>1. PICK stored \in SUBSET work[w].purge : archived' = archived \cup stored
    BY DEF Abandon
<1>2. stored \subseteq 1..Len(rows)
    BY <1>1, WorkOf DEF WorkTyped
<1>3. archived' \subseteq 1..Len(rows) /\ archived \subseteq archived'
    BY <1>1, <1>2, Basics
<1> QED BY <1>3, IdleTyped DEF Abandon, Picked

LEMMA WroteKeeps == ASSUME ChainInv, NEW w \in Writers, Wrote(w) PROVE ChainInv'
<1>1. /\ RowsTyped(rows') /\ FactsTyped(rows', facts') /\ Closed(rows')
      /\ archived' \subseteq 1..Len(rows')
      /\ Len(rows) <= Len(rows') /\ Len(facts) <= Len(facts')
      /\ told' = Current(rows') \/ (told' = told /\ rows' = rows)
      /\ work' = [work EXCEPT ![w] = Idle]
      /\ races' = IF Sound(w) THEN races ELSE races + 1
      /\ races = 0 /\ Sound(w) => Chained(rows') /\ Indexed(rows', facts')
    BY DEF Wrote
<1>2. Typed /\ EveryChangeTold
    BY DEF ChainInv
<1>3. /\ Len(rows) \in Nat /\ Len(facts) \in Nat
      /\ Len(rows') \in Nat /\ Len(facts') \in Nat
    BY <1>1, Basics DEF RowsTyped, FactsTyped
<1>4. work' \in [Writers -> Work] /\ \A v \in Writers : WorkTyped(work'[v], rows', facts')
    <2>1. work \in [Writers -> Work] /\ \A v \in Writers : WorkTyped(work[v], rows, facts)
        BY <1>2 DEF Typed
    <2>2. \A v \in Writers : WorkTyped(work[v], rows', facts')
        BY <1>1, <1>3, <2>1, WorkGrows
    <2> QED BY <1>1, <2>1, <2>2, IdleTyped
<1>5. told' \subseteq 1..Len(rows')
    <2>1. Current(rows') \subseteq 1..Len(rows')
        BY DEF Current
    <2>2. told \subseteq 1..Len(rows)
        BY <1>2 DEF Typed, Ids
    <2> QED BY <1>1, <2>1, <2>2
<1>6. races \in Nat /\ races' \in Nat /\ (races' = 0 => races = 0 /\ Sound(w))
    <2>1. races \in Nat
        BY <1>2 DEF Typed
    <2> QED BY <1>1, <2>1
<1>7. told' \ Due(rows') = Current(rows')
    <2>1. CASE told' = Current(rows')
        BY <2>1 DEF Current, Due
    <2>2. CASE told' = told /\ rows' = rows
        <3>1. told \ Due(rows) = Current(rows)
            BY <1>2 DEF EveryChangeTold
        <3> QED BY <2>2, <3>1 DEF Current, Due, Standing
    <2> QED BY <1>1, <2>1, <2>2
<1>8. Typed'
    BY <1>1, <1>4, <1>5, <1>6 DEF Typed, Ids
<1> QED BY <1>1, <1>6, <1>7, <1>8 DEF ChainInv, EveryChangeTold

LEMMA PickedKeeps == ASSUME ChainInv, NEW w \in Writers, Picked(w) PROVE ChainInv'
<1>1. PICK o \in Work : WorkTyped(o, rows, facts) /\ work' = [work EXCEPT ![w] = o]
    BY DEF Picked
<1>2. archived' \subseteq 1..Len(rows) /\ UNCHANGED <<rows, facts, told, races>>
    BY DEF Picked
<1>3. Typed
    BY DEF ChainInv
<1>4. work' \in [Writers -> Work] /\ \A v \in Writers : WorkTyped(work'[v], rows, facts)
    <2>1. work \in [Writers -> Work] /\ \A v \in Writers : WorkTyped(work[v], rows, facts)
        BY <1>3 DEF Typed
    <2> QED BY <1>1, <2>1
<1>5. Typed'
    BY <1>2, <1>3, <1>4 DEF Typed, Ids
<1>6. EveryChangeTold'
    BY <1>2 DEF ChainInv, EveryChangeTold, Current, Due, Standing
<1>7. Closed(rows') /\ (races' = 0 => Chained(rows') /\ Indexed(rows', facts'))
    BY <1>2 DEF ChainInv
<1> QED BY <1>5, <1>6, <1>7 DEF ChainInv

\* Only the clock went on, or what it ended was closed.
Ticked ==
    /\ Reshaped(rows, rows') /\ FactsTyped(rows', facts') /\ Len(facts') = Len(facts)
    /\ Indexed(rows, facts) => Indexed(rows', facts')
    /\ told' \ Due(rows') = Current(rows') /\ told' \subseteq 1..Len(rows)
    /\ UNCHANGED <<archived, work, races>>
    /\ \A r \in 1..Len(rows) :
        /\ rows'[r].text = rows[r].text
        /\ rows[r].status = "tombstone" => rows'[r].status = "tombstone"

LEMMA ExpireTicks == ASSUME ChainInv, Expire PROVE Ticked
<1> DEFINE due == Due(rows)
           closed(r) == [rows[r] EXCEPT !.status = "expired", !.open = FALSE]
<1>1. /\ rows' = [r \in Ids |-> IF r \in due THEN closed(r) ELSE rows[r]]
      /\ facts' = [f \in 1..Len(facts) |->
                        IF facts[f].mem \in due THEN [facts[f] EXCEPT !.open = FALSE]
                        ELSE facts[f]]
      /\ told' = Current(rows') /\ UNCHANGED <<archived, work, races>>
    BY DEF Expire
<1>2. /\ rows \in Seq(Row) /\ Len(rows) \in Nat /\ Ids = 1..Len(rows)
      /\ facts \in Seq(Fact) /\ Len(facts) \in Nat
      /\ \A r \in 1..Len(rows) : rows[r] \in Row
      /\ FactsTyped(rows, facts)
    BY Basics
<1>3. \A r \in due : rows[r].status = "active"
    BY DEF Due, Standing
<1> HIDE DEF due
<1>4. ASSUME NEW r \in 1..Len(rows)
      PROVE  /\ rows'[r] \in Row
             /\ rows'[r].text = rows[r].text /\ rows'[r].version = rows[r].version
             /\ rows'[r].parent = rows[r].parent /\ rows'[r].next = rows[r].next
             /\ ~rows[r].open => ~rows'[r].open
             /\ rows[r].status = "tombstone" => rows'[r].status = "tombstone"
    <2>1. rows[r] \in Row
        BY <1>2
    <2>2. CASE r \in due
        <3>1. rows'[r] = closed(r)
            BY <1>1, <1>2, <2>2
        <3> QED BY <1>3, <2>1, <2>2, <3>1 DEF Row
    <2>3. CASE r \notin due
        <3>1. rows'[r] = rows[r]
            BY <1>1, <1>2, <2>3
        <3> QED BY <2>1, <3>1
    <2> QED BY <2>2, <2>3
<1>5. rows' \in Seq(Row) /\ Len(rows') = Len(rows)
    <2>1. rows' = [r \in 1..Len(rows) |-> rows'[r]]
        BY <1>1, <1>2
    <2>2. rows' \in [1..Len(rows) -> Row]
        BY <1>4, <2>1
    <2> QED BY <1>2, <2>2
<1>6. Reshaped(rows, rows')
    BY <1>4, <1>5 DEF Reshaped
<1>7. ASSUME NEW f \in 1..Len(facts)
      PROVE  /\ facts'[f] \in Fact /\ facts'[f].key = facts[f].key
             /\ facts'[f].mem = facts[f].mem /\ (facts'[f].open => facts[f].open)
    <2>1. facts[f] \in Fact
        BY <1>2
    <2>2. CASE facts[f].mem \in due
        <3>1. facts'[f] = [facts[f] EXCEPT !.open = FALSE]
            BY <1>1, <2>2
        <3> QED BY <2>1, <3>1 DEF Fact
    <2>3. CASE facts[f].mem \notin due
        <3>1. facts'[f] = facts[f]
            BY <1>1, <2>3
        <3> QED BY <2>1, <3>1
    <2> QED BY <2>2, <2>3
<1>8. facts' \in Seq(Fact) /\ Len(facts') = Len(facts)
    <2>1. facts' = [f \in 1..Len(facts) |-> facts'[f]]
        BY <1>1
    <2>2. facts' \in [1..Len(facts) -> Fact]
        BY <1>7, <2>1
    <2> QED BY <1>2, <2>2
<1>9. FactsTyped(rows', facts')
    BY <1>2, <1>5, <1>7, <1>8 DEF FactsTyped
<1>10. ASSUME Indexed(rows, facts) PROVE Indexed(rows', facts')
    <2>1. Alone(facts) /\ Backed(rows, facts)
        BY <1>10, IndexedIs
    <2>2. Alone(facts')
        BY <1>7, <1>8, <2>1 DEF Alone
    <2>3. Backed(rows', facts')
        <3> SUFFICES ASSUME NEW f \in 1..Len(facts), facts'[f].open
                     PROVE  rows'[facts'[f].mem].next = None
            BY <1>8 DEF Backed
        <3>1. facts[f].open /\ facts'[f].mem = facts[f].mem /\ facts[f].mem \in 1..Len(rows)
            BY <1>2, <1>7 DEF FactsTyped
        <3> QED BY <1>4, <2>1, <3>1 DEF Backed
    <2> QED BY <2>2, <2>3, IndexedIs
<1>11. told' \ Due(rows') = Current(rows') /\ told' \subseteq 1..Len(rows)
    BY <1>1, <1>5 DEF Current, Due
<1> QED BY <1>1, <1>4, <1>6, <1>8, <1>9, <1>10, <1>11 DEF Ticked

LEMMA LapseTicks == ASSUME ChainInv, Lapse PROVE Ticked
<1>1. PICK r \in Ids : /\ rows[r].open /\ rows[r].ttl = "future"
                       /\ rows' = [rows EXCEPT ![r].ttl = "due"]
    BY DEF Lapse
<1>2. UNCHANGED <<facts, archived, told, work, races>>
    BY DEF Lapse
<1>3. /\ rows \in Seq(Row) /\ DOMAIN rows = 1..Len(rows) /\ Ids = 1..Len(rows)
      /\ \A x \in 1..Len(rows) : rows[x] \in Row
      /\ FactsTyped(rows, facts)
    BY Basics
<1> DEFINE row == [rows[r] EXCEPT !.ttl = "due"]
<1>4. /\ row \in Row /\ row.status = rows[r].status /\ row.open = rows[r].open
      /\ row.text = rows[r].text /\ row.version = rows[r].version
      /\ row.parent = rows[r].parent /\ row.next = rows[r].next /\ row.ttl = "due"
    BY <1>3 DEF Row
<1>5. rows' = [rows EXCEPT ![r] = row]
    BY <1>1, <1>3
<1> HIDE DEF row
<1>6. /\ rows' \in Seq(Row) /\ Len(rows') = Len(rows) /\ rows'[r] = row
      /\ \A x \in 1..Len(rows) : x # r => rows'[x] = rows[x]
    BY <1>3, <1>4, <1>5, OneRow
<1>7. Reshaped(rows, rows')
    BY <1>4, <1>6 DEF Reshaped
<1>8. FactsTyped(rows', facts) /\ (Indexed(rows, facts) => Indexed(rows', facts))
    BY <1>3, <1>7, ReshapedIndexed
<1>9. told \ Due(rows') = Current(rows')
    <2>1. told \ Due(rows) = Current(rows)
        BY DEF ChainInv, EveryChangeTold
    <2>2. \A x \in 1..Len(rows) : Standing(rows', x) <=> Standing(rows, x)
        BY <1>4, <1>6 DEF Standing
    <2>3. r \notin Current(rows') /\ (Standing(rows, r) => r \in Due(rows'))
        BY <1>3, <1>4, <1>6, <2>2 DEF Current, Due
    <2>4. Standing(rows, r) <=> r \in Current(rows)
        BY <1>1, <1>3 DEF Current
    <2>5. r \in Due(rows') <=> Standing(rows, r)
        BY <1>3, <2>2, <2>3 DEF Due
    <2>6. r \notin Due(rows)
        BY <1>1 DEF Due
    <2>7. \A x : x # r => (x \in Current(rows') <=> x \in Current(rows))
                          /\ (x \in Due(rows') <=> x \in Due(rows))
        BY <1>6, <2>2 DEF Current, Due
    <2> QED BY <2>1, <2>3, <2>4, <2>5, <2>6, <2>7
<1>10. told \subseteq 1..Len(rows)
    BY <1>3 DEF ChainInv, Typed
<1>11. \A x \in 1..Len(rows) : rows'[x].text = rows[x].text
                               /\ rows'[x].status = rows[x].status
    BY <1>4, <1>6
<1> QED BY <1>2, <1>7, <1>8, <1>9, <1>10, <1>11 DEF Ticked

LEMMA TickedKeeps == ASSUME ChainInv, Ticked PROVE ChainInv'
<1>1. /\ RowsTyped(rows) /\ FactsTyped(rows, facts) /\ Closed(rows)
      /\ Len(rows) \in Nat /\ Len(facts) \in Nat /\ archived \subseteq 1..Len(rows)
      /\ races = 0 => Chained(rows) /\ Indexed(rows, facts)
    BY Basics
<1>2. /\ Reshaped(rows, rows') /\ FactsTyped(rows', facts') /\ Len(facts') = Len(facts)
      /\ Indexed(rows, facts) => Indexed(rows', facts')
      /\ told' \ Due(rows') = Current(rows') /\ told' \subseteq 1..Len(rows)
      /\ archived' = archived /\ work' = work /\ races' = races
    BY DEF Ticked
<1>3. /\ RowsTyped(rows') /\ Closed(rows') /\ (Chained(rows) => Chained(rows'))
      /\ Len(rows') = Len(rows)
    BY <1>1, <1>2, ReshapedKeeps DEF Reshaped
<1>4. work \in [Writers -> Work] /\ races \in Nat
      /\ \A v \in Writers : WorkTyped(work[v], rows, facts)
    BY DEF ChainInv, Typed
<1>5. \A v \in Writers : WorkTyped(work[v], rows', facts')
    BY <1>1, <1>2, <1>3, <1>4, WorkGrows
<1>6. Typed'
    BY <1>1, <1>2, <1>3, <1>4, <1>5 DEF Typed, Ids
<1> QED BY <1>1, <1>2, <1>3, <1>6 DEF ChainInv, EveryChangeTold

\* A step writes, or picks, or the clock goes on.
LEMMA StepKinds ==
    ASSUME ChainInv, Next
    PROVE  \/ \E w \in Writers : Wrote(w)
           \/ \E w \in Writers : Picked(w)
           \/ Ticked
<1> USE DEF Writers
<1>1. ASSUME NEW w \in Users, UserStep(w) PROVE Wrote(w) \/ Picked(w)
    <2>1. CASE BeginRemember(w)
        BY <2>1, BeginRememberPicks
    <2>2. CASE BeginCorrect(w)
        BY <2>2, BeginCorrectPicks
    <2>3. CASE BeginRestore(w)
        BY <2>3, BeginRestorePicks
    <2>4. CASE BeginForget(w)
        BY <2>4, BeginForgetPicks
    <2>5. CASE LookAtChain(w)
        BY <2>5, LookAtChainPicks
    <2>6. CASE Remember(w)
        BY <2>6, RememberWrote
    <2>7. CASE CorrectByTool(w)
        BY <2>7, CorrectByToolWrote
    <2>8. CASE CorrectByExtraction(w)
        BY <2>8, CorrectByExtractionWrote
    <2>9. CASE Restore(w)
        BY <2>9, RestoreWrote
    <2>10. CASE Forget(w)
        BY <2>10, ForgetWrote
    <2> QED BY <1>1, <2>1, <2>2, <2>3, <2>4, <2>5, <2>6, <2>7, <2>8, <2>9, <2>10
            DEF UserStep
<1>2. ASSUME DreamStep PROVE Wrote(Dream) \/ Picked(Dream)
    <2>1. CASE BeginJudge
        BY <2>1, BeginJudgePicks
    <2>2. CASE BeginUpdate
        BY <2>2, BeginUpdatePicks
    <2>3. CASE BeginIndex
        BY <2>3, BeginIndexPicks
    <2>4. CASE BeginAge
        BY <2>4, BeginAgePicks
    <2>5. CASE LookAtFacts
        BY <2>5, LookAtFactsPicks
    <2>6. CASE Judge
        BY <2>6, JudgeWrote
    <2>7. CASE Update
        BY <2>7, UpdateWrote
    <2>8. CASE Index
        BY <2>8, IndexWrote
    <2>9. CASE Age
        BY <2>9, AgeWrote
    <2> QED BY <1>2, <2>1, <2>2, <2>3, <2>4, <2>5, <2>6, <2>7, <2>8, <2>9 DEF DreamStep
<1>3. ASSUME NEW w \in Writers, Abandon(w) PROVE Picked(w)
    BY <1>3, AbandonPicks
<1> QED BY <1>1, <1>2, <1>3, ExpireTicks, LapseTicks DEF Next

LEMMA StutterKeeps == ASSUME ChainInv, UNCHANGED vars PROVE ChainInv'
<1>1. UNCHANGED <<rows, facts, archived, told, work, races>>
    BY DEF vars
<1>2. Typed'
    BY <1>1 DEF ChainInv, Typed, Ids
<1>3. EveryChangeTold'
    BY <1>1 DEF ChainInv, EveryChangeTold, Current, Due, Standing
<1> QED BY <1>1, <1>2, <1>3 DEF ChainInv

THEOREM ChainInvHolds == Spec => []ChainInv
<1>1. Init => ChainInv
    BY InitInv
<1>2. ChainInv /\ [Next]_vars => ChainInv'
    BY StepKinds, WroteKeeps, PickedKeeps, TickedKeeps, StutterKeeps
<1> QED BY <1>1, <1>2, PTL DEF Spec

-----------------------------------------------------------------------------
\* What holds in every state.

\* The generation that the caches of recall are keyed with is bumped by every
\* write that changes what is current (store/db.py bump_generation), for any
\* users, texts and keys.
THEOREM ChangesTold == Spec => []EveryChangeTold
<1>1. ChainInv => EveryChangeTold
    BY DEF ChainInv
<1> QED BY <1>1, ChainInvHolds, PTL

LEMMA OneOfLineage ==
    ASSUME RowsTyped(rows), Closed(rows), Chained(rows),
           NEW r \in Ids, NEW x \in Ids, rows[r].open, rows[x].open,
           Ancestor(rows, r) = Ancestor(rows, x)
    PROVE  r = x
<1>1. PICK d \in [1..Len(rows) -> 1..Len(rows)] : Ranks(rows, d)
    BY DEF Chained
<1>2. PICK a \in [1..Len(rows) -> 1..Len(rows)] : Roots(rows, a) /\ Tops(rows, a)
    BY DEF Chained
<1>3. r \in 1..Len(rows) /\ x \in 1..Len(rows)
    BY DEF Ids
<1>4. a[r] = a[x]
    BY <1>1, <1>2, <1>3, AncestorIs
<1>5. rows[r].next = None /\ rows[x].next = None
    BY <1>3 DEF Closed
<1>6. SUFFICES ASSUME r # x PROVE FALSE
    OBVIOUS
<1>7. Below(rows, x, r) /\ Below(rows, r, x)
    BY <1>2, <1>3, <1>4, <1>5, <1>6 DEF Tops
<1>8. rows[r].version \in Nat /\ rows[x].version \in Nat /\ r \in Nat /\ x \in Nat
    <2>1. rows \in Seq(Row)
        BY DEF RowsTyped
    <2>2. rows[r] \in Row /\ rows[x] \in Row
        BY <1>3, <2>1
    <2>3. r \in Nat /\ x \in Nat
        BY <1>3
    <2> QED BY <2>2, <2>3 DEF Row
<1> QED BY <1>7, <1>8 DEF Below

\* One version of every lineage is valid and one fact of every key, whatever
\* the order in which corrections, restores, verdicts, expiry and the relinking
\* of facts follow each other, as long as no writer is overtaken
\* (store/supersession.py chain_head and create_successor, store/facts.py).
THEOREM OneTruthHolds == Spec => []OneTruth
<1>1. ChainInv => OneValidVersion
    <2> SUFFICES ASSUME ChainInv, races = 0, NEW r \in Ids, NEW x \in Ids,
                        rows[r].open, rows[x].open,
                        Ancestor(rows, r) = Ancestor(rows, x)
                 PROVE  r = x
        BY DEF OneValidVersion
    <2> QED BY Basics, OneOfLineage
<1>2. ChainInv => OneFact
    BY DEF ChainInv, OneFact, Indexed
<1>3. ChainInv => OneTruth
    BY <1>1, <1>2 DEF OneTruth
<1> QED BY <1>3, ChainInvHolds, PTL

-----------------------------------------------------------------------------
\* What no step does.

\* What a step leaves of the memories there were.
StepLeaves ==
    /\ Always(rows, rows', archived')
    /\ IfSound(rows, rows') \/ Overtaken

LEMMA StepLeft == ASSUME ChainInv, Next PROVE StepLeaves
<1>1. ASSUME NEW w \in Writers, Wrote(w) PROVE StepLeaves
    <2>1. Always(rows, rows', archived') /\ (Sound(w) => IfSound(rows, rows'))
        BY <1>1 DEF Wrote
    <2>2. work \in [Writers -> Work]
        BY DEF ChainInv, Typed
    <2>3. work[w].ready /\ work'[w] = Idle
        BY <1>1, <2>2 DEF Wrote
    <2>4. ~Sound(w) => Overtaken
        BY <2>3 DEF Overtaken
    <2> QED BY <2>1, <2>4 DEF StepLeaves
<1>2. ASSUME NEW w \in Writers, Picked(w) PROVE StepLeaves
    <2>1. rows' = rows
        BY <1>2 DEF Picked
    <2> QED BY <2>1 DEF StepLeaves, Always, IfSound
<1>3. ASSUME Ticked PROVE StepLeaves
    <2>1. \A r \in 1..Len(rows) :
            /\ rows'[r].text = rows[r].text
            /\ rows[r].status = "tombstone" => rows'[r].status = "tombstone"
            /\ rows'[r].version = rows[r].version /\ rows'[r].parent = rows[r].parent
            /\ rows'[r].next = rows[r].next /\ (~rows[r].open => ~rows'[r].open)
        BY <1>3 DEF Ticked, Reshaped
    <2>2. \A r \in 1..Len(rows) : rows[r].open => rows[r].next = None
        BY Basics DEF Closed
    <2> QED BY <2>1, <2>2 DEF StepLeaves, Always, IfSound
<1> QED BY <1>1, <1>2, <1>3, StepKinds

\* What is closed stays closed and keeps its text until the archive has it, its
\* place in the chain is its own, and a tombstone stays one, unless a writer
\* was overtaken (README "never rewrites or reopens history", store/lifecycle.py).
THEOREM HistoryHolds == Spec => HistoryStands
<1> DEFINE Kept == \A r \in Ids :
                /\ \/ rows'[r].text = rows[r].text
                   \/ rows'[r].text = Gone /\ r \in archived'
                /\ ~rows[r].open =>
                    /\ ~rows'[r].open
                    /\ \/ Overtaken
                       \/ /\ rows'[r].parent = rows[r].parent
                          /\ rows'[r].version = rows[r].version
           Buried == \A r \in Ids :
                rows[r].status = "tombstone" => rows'[r].status = "tombstone" \/ Overtaken
<1>1. ChainInv /\ [Next]_vars => [Kept]_vars /\ [Buried]_vars
    <2> SUFFICES ASSUME ChainInv, Next PROVE Kept /\ Buried
        OBVIOUS
    <2>1. StepLeaves
        BY StepLeft
    <2> QED BY <2>1 DEF StepLeaves, Always, IfSound, Ids
<1> HIDE DEF Kept, Buried
<1>2. Spec => [][Kept]_vars /\ [][Buried]_vars
    BY <1>1, ChainInvHolds, PTL DEF Spec
<1> QED BY <1>2 DEF HistoryStands, HistoryKept, TombstoneStays, Kept, Buried

\* A memory is closed in favour of another only if that one stands, unless the
\* writer was overtaken (dream/contradiction.py, store/facts.py add_fact).
THEOREM TruthHolds == Spec => TruthKept
<1> DEFINE Won == \A r \in Ids :
                /\ rows[r].open /\ ~rows'[r].open
                /\ rows'[r].next # None
                => Standing(rows', rows'[r].next) \/ Overtaken
<1>1. ChainInv /\ [Next]_vars => [Won]_vars
    <2> SUFFICES ASSUME ChainInv, Next PROVE Won
        OBVIOUS
    <2>1. StepLeaves
        BY StepLeft
    <2> QED BY <2>1 DEF StepLeaves, IfSound, Ids
<1> HIDE DEF Won
<1>2. Spec => [][Won]_vars
    BY <1>1, ChainInvHolds, PTL DEF Spec
<1> QED BY <1>2 DEF TruthKept, Won
=============================================================================
