-------------------------- MODULE HistoryPagesProofs --------------------------
(***************************************************************************)
(* Proofs about HistoryPages for any channels, queries, page sizes, ranges *)
(* and intervals, any number of rows and any time they take to be stored.  *)
(***************************************************************************)
EXTENDS HistoryPages, FoldTheorems, SequenceTheorems

(***************************************************************************)
(* Pages of a list.                                                        *)
(***************************************************************************)

\* By id.
Ascending(S) == {x \in S \X S : x[1] < x[2]}

\* Ids are ordered.
LEMMA AscendingOrders ==
  ASSUME NEW S \in SUBSET Nat
  PROVE  /\ Orders(Ascending(S), S)
         /\ \A x, y \in S : <<x, y>> \in Ascending(S) <=> x < y
<1> DEFINE R == Ascending(S)
<1>1. \A x, y \in S : <<x, y>> \in R <=> x < y
  BY DEF Ascending
<1> HIDE DEF R
<1>2. /\ \A x \in S : <<x, x>> \notin R
      /\ \A x, y \in S : x # y => <<x, y>> \in R \/ <<y, x>> \in R
      /\ \A x, y, z \in S : <<x, y>> \in R /\ <<y, z>> \in R => <<x, z>> \in R
  BY <1>1
<1> QED BY <1>1, <1>2 DEF Orders, R

\* A list is a sequence of the elements.
LEMMA ListedSeq ==
  ASSUME NEW S, IsFiniteSet(S), NEW R, Orders(R, S)
  PROVE  /\ Cardinality(S) \in Nat
         /\ Listed(S, R) \in Seq(S) /\ Len(Listed(S, R)) = Cardinality(S)
<1>1. Cardinality(S) \in Nat /\ Listed(S, R) \in [1..Cardinality(S) -> S]
  BY FS_CardinalityType, ListedLists
<1>2. Listed(S, R) \in Seq(S)
  <2> DEFINE s == Listed(S, R)
             c == Cardinality(S)
  <2> HIDE DEF s, c
  <2>1. \A n \in Nat : \A f \in [1..n -> S] : f \in Seq(S)
    BY SeqDef
  <2> QED BY <1>1, <2>1 DEF s, c
<1>3. Len(Listed(S, R)) = Cardinality(S)
  <2> DEFINE s == Listed(S, R)
             c == Cardinality(S)
  <2>1. s \in Seq(S) /\ DOMAIN s = 1..c /\ c \in Nat
    BY <1>1, <1>2
  <2> HIDE DEF s, c
  <2>2. Len(s) \in Nat /\ 1..Len(s) = 1..c
    BY <2>1, LenProperties
  <2>3. Len(s) = c
    <3>1. CASE Len(s) > c
      <4>1. Len(s) \in 1..Len(s) /\ Len(s) \notin 1..c
        BY <2>1, <2>2, <3>1
      <4> QED BY <2>2, <4>1
    <3>2. CASE Len(s) < c
      <4>1. c \in 1..c /\ c \notin 1..Len(s)
        BY <2>1, <2>2, <3>2
      <4> QED BY <2>2, <4>1
    <3> QED BY <2>1, <2>2, <3>1, <3>2
  <2> QED BY <2>3 DEF s, c
<1> QED BY <1>1, <1>2, <1>3

\* What a page has of a list.
LEMMA CutIs ==
  ASSUME NEW S, NEW s \in Seq(S), NEW limit \in Nat
  PROVE  /\ Cut(s, limit) \in Seq(S)
         /\ Len(Cut(s, limit)) = IF Len(s) > limit THEN limit ELSE Len(s)
         /\ \A i \in 1..Len(Cut(s, limit)) : Cut(s, limit)[i] = s[i]
<1> DEFINE m == IF Len(s) > limit THEN limit ELSE Len(s)
           t == SubSeq(s, 1, m)
<1>1. Len(s) \in Nat /\ m \in Nat /\ m <= Len(s)
  OBVIOUS
<1>2. \A i \in 1..m : s[i] \in S
  BY <1>1
<1>3. /\ t \in Seq(S) /\ Len(t) = IF 1 <= m THEN m - 1 + 1 ELSE 0
      /\ \A i \in 1..m - 1 + 1 : t[i] = s[1 + i - 1]
  <2> HIDE DEF m
  <2> QED BY <1>1, <1>2, 1 \in Int, SubSeqProperties
<1>4. Len(t) = m /\ \A i \in 1..m : t[i] = s[i]
  <2> HIDE DEF m, t
  <2>1. \A i \in 1..m : i \in 1..m - 1 + 1 /\ 1 + i - 1 = i
    BY <1>1
  <2> QED BY <1>1, <1>3, <2>1 DEF t
<1> QED BY <1>3, <1>4 DEF Cut

(***************************************************************************)
(* What the queries list.                                                  *)
(***************************************************************************)

\* The latest and the earliest of some rows.
LEMMA LatestIs ==
  ASSUME NEW n \in Nat, NEW S \in SUBSET (1..n), S # {}
  PROVE  /\ IsFiniteSet(S)
         /\ Latest(S) \in S /\ \A i \in S : i <= Latest(S)
         /\ Earliest(S) \in S /\ \A i \in S : Earliest(S) <= i
<1> DEFINE D == 1..n
<1>1. IsFiniteSet(D) /\ S \in SUBSET D /\ S \in SUBSET Nat
  <2>1. IsFiniteSet(D)
    BY FS_Interval
  <2>2. D \subseteq Nat
    OBVIOUS
  <2> QED BY <2>1, <2>2
<1>2. IsFiniteSet(S)
  <2> HIDE DEF D
  <2> QED BY <1>1, FS_Subset
<1>3. Max(S) \in S /\ \A i \in S : i <= Max(S)
  BY <1>1, <1>2, LargestOf
<1>4. \E k \in S : \A i \in S : k <= i
  BY <1>1, Least
<1> QED BY <1>2, <1>3, <1>4 DEF Latest, Earliest

\* The rows a page of cln-history-channels or cln-history-htlcs is cut from.
Kept(q, start, end, cursor) ==
  {i \in Beyond(Within(start, end), cursor) : q.kind = "htlcs" => rows[i].htlcs > 0}
Samples(q, start, end, cursor) ==
  Bucketed(Kept(q, start, end, cursor), start, q.kind, q.interval)
    \cup Baselines(start, cursor)

\* The table, whatever is in it.
Stored == rows \in Seq(Row)

\* Its ids, and what a row has.
LEMMA RowIs ==
  ASSUME Stored
  PROVE  /\ Len(rows) \in Nat /\ DOMAIN rows = 1..Len(rows) /\ IsFiniteSet(DOMAIN rows)
         /\ \A i \in DOMAIN rows : /\ rows[i].ts \in Nat /\ rows[i].ts <= MaxTime
                                   /\ rows[i].key \in Keys /\ rows[i].htlcs \in Nat
                                   /\ rows[i] \in Row
<1>1. Len(rows) \in Nat /\ DOMAIN rows = 1..Len(rows) /\ \A i \in DOMAIN rows : rows[i] \in Row
  BY DEF Stored
<1>2. IsFiniteSet(1..Len(rows))
  BY <1>1, FS_Interval
<1>3. 0..MaxTime \subseteq Nat /\ (\A t \in 0..MaxTime : t <= MaxTime) /\ 0..MaxHtlcs \subseteq Nat
  BY QueriesAssumption
<1> QED BY <1>1, <1>2, <1>3 DEF Row

\* Row i stands for a bucket rather than row j.
Better(i, j, kind) ==
  IF kind = "htlcs"
  THEN rows[j].htlcs < rows[i].htlcs \/ (rows[j].htlcs = rows[i].htlcs /\ j <= i)
  ELSE j <= i

\* Of some rows one stands for a bucket.
LEMMA RepresentativeIs ==
  ASSUME Stored, NEW S \in SUBSET DOMAIN rows, S # {}, NEW kind
  PROVE  /\ Representative(S, kind) \in S
         /\ \A j \in S : Better(Representative(S, kind), j, kind)
<1>0. /\ Len(rows) \in Nat /\ DOMAIN rows = 1..Len(rows)
      /\ \A i \in DOMAIN rows : rows[i].htlcs \in Nat
  BY RowIs
<1> DEFINE T == {i \in S : \A j \in S : rows[j].htlcs <= rows[i].htlcs}
           H == {rows[i].htlcs : i \in S}
<1>1. T # {}
  <2>1. H \in SUBSET Nat /\ H # {} /\ IsFiniteSet(H)
    <3>1. IsFiniteSet(S)
      BY <1>0, LatestIs
    <3> DEFINE f == [i \in S |-> rows[i].htlcs]
    <3>2. f \in Surjection(S, H)
      BY DEF Surjection
    <3>3. H \in SUBSET Nat /\ H # {}
      BY <1>0
    <3> HIDE DEF f, H
    <3> QED BY <3>1, <3>2, <3>3, FS_Surjection
  <2>2. Max(H) \in H /\ \A h \in H : h <= Max(H)
    <3> HIDE DEF H
    <3> QED BY <2>1, LargestOf
  <2> QED BY <2>2
<1>2. T \in SUBSET S
  OBVIOUS
<1>3. Latest(T) \in T /\ \A i \in T : i <= Latest(T)
  <2> HIDE DEF T
  <2> QED BY <1>0, <1>1, <1>2, LatestIs
<1>4. Latest(S) \in S /\ \A i \in S : i <= Latest(S)
  BY <1>0, LatestIs
<1>5. \A j \in S : Better(Latest(T), j, "htlcs")
  <2> TAKE j \in S
  <2>1. rows[j].htlcs <= rows[Latest(T)].htlcs /\ Latest(T) \in S
        /\ rows[j].htlcs \in Nat /\ rows[Latest(T)].htlcs \in Nat
    BY <1>0, <1>3
  <2>2. CASE rows[j].htlcs < rows[Latest(T)].htlcs
    BY <2>2 DEF Better
  <2>3. CASE rows[j].htlcs = rows[Latest(T)].htlcs
    <3>1. j \in T
      BY <1>3, <2>3
    <3> QED BY <1>3, <2>3, <3>1 DEF Better
  <2> QED BY <2>1, <2>2, <2>3
<1>6. Representative(S, kind) = IF kind = "htlcs" THEN Latest(T) ELSE Latest(S)
  BY DEF Representative
<1> QED BY <1>3, <1>4, <1>5, <1>6 DEF Better

\* The rows of the bucket of row i.
Mates(S, i, start, interval) ==
  {j \in S : rows[j].key = rows[i].key /\ Bucket(j, start, interval) = Bucket(i, start, interval)}

\* What is listed are rows of the table.
LEMMA SamplesAre ==
  ASSUME Stored, NEW q, NEW start, NEW end, NEW cursor
  PROVE  /\ Samples(q, start, end, cursor) \in SUBSET DOMAIN rows
         /\ IsFiniteSet(Samples(q, start, end, cursor))
         /\ Kept(q, start, end, cursor) \in SUBSET DOMAIN rows
         /\ Bucketed(Kept(q, start, end, cursor), start, q.kind, q.interval)
              \subseteq Kept(q, start, end, cursor)
         /\ Baselines(start, cursor) \subseteq {i \in DOMAIN rows : rows[i].ts < start}
<1> DEFINE K == Kept(q, start, end, cursor)
           B == Bucketed(K, start, q.kind, q.interval)
<1>0. Len(rows) \in Nat /\ DOMAIN rows = 1..Len(rows) /\ IsFiniteSet(DOMAIN rows)
  BY RowIs
<1>1. K \in SUBSET DOMAIN rows
  BY DEF Kept, Beyond, Within
<1>2. B \subseteq K
  <2>1. ASSUME NEW i \in K
        PROVE  Representative(Mates(K, i, start, q.interval), q.kind) \in K
    <3>1. /\ Mates(K, i, start, q.interval) \in SUBSET DOMAIN rows
          /\ Mates(K, i, start, q.interval) \in SUBSET K
          /\ i \in Mates(K, i, start, q.interval)
      BY <1>1, <2>1 DEF Mates
    <3> QED BY <3>1, RepresentativeIs
  <2>2. B = IF q.interval = 0 THEN K
            ELSE {Representative(Mates(K, i, start, q.interval), q.kind) : i \in K}
    BY DEF Bucketed, Mates
  <2> HIDE DEF B, K
  <2> QED BY <2>1, <2>2
<1>3. Baselines(start, cursor) \subseteq {i \in DOMAIN rows : rows[i].ts < start}
  <2> DEFINE Before(k) == {i \in DOMAIN rows : rows[i].key = k /\ rows[i].ts < start}
  <2>1. ASSUME NEW k, Before(k) # {} PROVE Latest(Before(k)) \in Before(k)
    <3>1. Before(k) \in SUBSET (1..Len(rows))
      BY <1>0
    <3> HIDE DEF Before
    <3> QED BY <1>0, <2>1, <3>1, LatestIs
  <2>2. Baselines(start, cursor) \subseteq
          {Latest(Before(k)) : k \in {c \in Keys : Before(c) # {}}}
    BY DEF Baselines
  <2>3. \A k : Before(k) # {} => /\ Latest(Before(k)) \in DOMAIN rows
                                 /\ rows[Latest(Before(k))].ts < start
    BY <2>1
  <2> HIDE DEF Before
  <2> QED BY <2>2, <2>3
<1>4. Samples(q, start, end, cursor) \in SUBSET DOMAIN rows
  BY <1>1, <1>2, <1>3 DEF Samples
<1> QED BY <1>0, <1>1, <1>2, <1>3, <1>4, FS_Subset

\* They are listed by their ids.
LEMMA SampleIs ==
  ASSUME Stored, NEW q, NEW start, NEW end, NEW cursor
  PROVE  LET S == Samples(q, start, end, cursor)
         IN  /\ Orders(Ascending(S), S)
             /\ SampleResult(q, start, end, cursor) = Listed(S, Ascending(S))
<1> DEFINE S == Samples(q, start, end, cursor)
           R == Ascending(S)
<1>1. S \in SUBSET Nat
  BY SamplesAre, RowIs
<1>2. Orders(R, S) /\ \A x, y \in S : <<x, y>> \in R <=> x < y
  <2> HIDE DEF S
  <2> QED BY <1>1, AscendingOrders
<1>3. SampleResult(q, start, end, cursor) =
        [n \in 1..Cardinality(S) |->
           CHOOSE x \in S : Cardinality({y \in S : y < x}) = n - 1]
  BY DEF SampleResult, Listing, Samples, Kept
<1>4. \A x \in S : Cardinality({y \in S : y < x}) = Rank(S, R, x)
  <2> HIDE DEF S, R
  <2> QED BY <1>2 DEF Rank
<1>5. SampleResult(q, start, end, cursor) = Listed(S, R)
  <2> HIDE DEF S, R
  <2> QED BY <1>3, <1>4 DEF Listed
<1> QED BY <1>2, <1>5

\* The order of cln-history-events and cln-history-probes: by time, then by id.
ByTime(S) ==
  {x \in S \X S : \/ rows[x[1]].ts < rows[x[2]].ts
                  \/ rows[x[1]].ts = rows[x[2]].ts /\ x[1] < x[2]}

\* They list every row beyond the cursor.
LEMMA EventIs ==
  ASSUME Stored, NEW start, NEW end, NEW cursor
  PROVE  LET S == Beyond(Within(start, end), cursor)
         IN  /\ S \in SUBSET DOMAIN rows /\ IsFiniteSet(S)
             /\ Orders(ByTime(S), S)
             /\ EventResult(start, end, cursor) = Listed(S, ByTime(S))
<1> DEFINE S == Beyond(Within(start, end), cursor)
           R == ByTime(S)
<1>0. /\ DOMAIN rows \subseteq Nat /\ IsFiniteSet(DOMAIN rows)
      /\ \A i \in DOMAIN rows : rows[i].ts \in Nat
  BY RowIs
<1>1. S \in SUBSET DOMAIN rows
  BY DEF Beyond, Within
<1>2. IsFiniteSet(S)
  BY <1>0, <1>1, FS_Subset
<1>3. \A x, y \in S : <<x, y>> \in R <=> \/ rows[x].ts < rows[y].ts
                                         \/ rows[x].ts = rows[y].ts /\ x < y
  <2> HIDE DEF S
  <2> QED BY DEF ByTime
<1>4. Orders(R, S)
  <2> HIDE DEF S, R
  <2>1. \A x \in S : <<x, x>> \notin R
    BY <1>0, <1>1, <1>3
  <2>2. \A x, y \in S : x # y => <<x, y>> \in R \/ <<y, x>> \in R
    BY <1>0, <1>1, <1>3
  <2>3. \A x, y, z \in S : <<x, y>> \in R /\ <<y, z>> \in R => <<x, z>> \in R
    BY <1>0, <1>1, <1>3
  <2> QED BY <2>1, <2>2, <2>3 DEF Orders
<1>5. EventResult(start, end, cursor) =
        [n \in 1..Cardinality(S) |->
           CHOOSE x \in S :
             Cardinality({y \in S : \/ rows[y].ts < rows[x].ts
                                    \/ rows[y].ts = rows[x].ts /\ y < x}) = n - 1]
  BY DEF EventResult, Listing
<1>6. \A x \in S : Cardinality({y \in S : \/ rows[y].ts < rows[x].ts
                                          \/ rows[y].ts = rows[x].ts /\ y < x}) = Rank(S, R, x)
  <2> HIDE DEF S, R
  <2> QED BY <1>3 DEF Rank
<1>7. EventResult(start, end, cursor) = Listed(S, R)
  <2> HIDE DEF S, R
  <2> QED BY <1>5, <1>6 DEF Listed
<1> QED BY <1>1, <1>2, <1>4, <1>7

\* The keys have places of their own.
LEMMA PlaceIs ==
  /\ \A k \in Keys : Place(k) \in Nat
  /\ \A k, l \in Keys : Place(k) = Place(l) => k = l
<1> DEFINE c == Cardinality(Keys)
           D == 1..c
<1>1. IsFiniteSet(Keys) /\ c \in Nat
  BY QueriesAssumption, FS_CardinalityType
<1>2. \E f \in [D -> Keys] : IsInjective(f)
  <2>1. ExistsBijection(1..c, Keys)
    BY <1>1, FS_CardinalityType
  <2> QED BY <2>1 DEF ExistsBijection, Bijection, Injection
<1>3. KeyOrder \in [D -> Keys] /\ IsInjective(KeyOrder)
  BY <1>2 DEF KeyOrder, SetToSeq
<1>4. KeyOrder \in Surjection(D, Keys)
  <2>1. IsFiniteSet(D) /\ Cardinality(D) = c
    BY <1>1, FS_Interval
  <2>2. KeyOrder \in Injection(D, Keys)
    BY <1>3 DEF Injection
  <2> HIDE DEF D
  <2> QED BY <1>1, <2>1, <2>2, FS_Injection
<1>5. \A k \in Keys : Place(k) \in D /\ KeyOrder[Place(k)] = k
  <2> HIDE DEF D
  <2> QED BY <1>3, <1>4 DEF Place, Surjection
<1> QED BY <1>1, <1>5

\* Periods are numbers.
LEMMA PeriodIs ==
  ASSUME Stored, NEW interval \in Nat \ {0}, NEW i \in DOMAIN rows
  PROVE  /\ Period(i, interval) \in Nat
         /\ Period(i, interval) <= rows[i].ts /\ rows[i].ts < Period(i, interval) + interval
<1>1. rows[i].ts \in Nat
  BY RowIs
<1> QED BY <1>1 DEF Period

\* The groups that forward_pairs and probe_events list.
GroupsOf(start, end, interval) == {GroupOf(i, start, end, interval) : i \in Within(start, end)}
ByPlace(G, interval) ==
  {x \in G \X G : ByPeriod(Earliest(x[1]), Earliest(x[2]), interval)}

\* A row is in one group, that of its period and key.
LEMMA GroupsAre ==
  ASSUME Stored, NEW start, NEW end, NEW interval \in Nat \ {0}
  PROVE  LET G == GroupsOf(start, end, interval)
         IN  /\ G \in SUBSET (SUBSET DOMAIN rows)
             /\ IsFiniteSet(G) /\ Cardinality(G) <= Len(rows)
             /\ \A g \in G : /\ Earliest(g) \in g /\ Earliest(g) \in Within(start, end)
                             /\ \A i \in g : g = GroupOf(i, start, end, interval)
             /\ \A i \in Within(start, end) : i \in GroupOf(i, start, end, interval)
<1> DEFINE G == GroupsOf(start, end, interval)
           W == Within(start, end)
<1>0. Len(rows) \in Nat /\ DOMAIN rows = 1..Len(rows) /\ IsFiniteSet(DOMAIN rows)
  BY RowIs
<1>1. W \in SUBSET DOMAIN rows
  BY DEF Within
<1>2. \A i \in W : i \in GroupOf(i, start, end, interval)
  BY DEF GroupOf
<1>3. \A g \in G : g \in SUBSET W /\ g # {} /\ \A i \in g : g = GroupOf(i, start, end, interval)
  BY <1>2 DEF GroupsOf, GroupOf
<1>4. IsFiniteSet(G) /\ Cardinality(G) <= Len(rows)
  <2>1. IsFiniteSet(W) /\ Cardinality(W) <= Cardinality(DOMAIN rows)
    BY <1>0, <1>1, FS_Subset
  <2>2. Cardinality(DOMAIN rows) = Len(rows)
    <3>1. \A n \in Nat : Cardinality(1..n) = n
      BY FS_Interval
    <3> QED BY <1>0, <3>1
  <2> DEFINE f == [i \in W |-> GroupOf(i, start, end, interval)]
  <2>3. f \in Surjection(W, G)
    BY DEF Surjection, GroupsOf
  <2>4. IsFiniteSet(G) /\ Cardinality(G) <= Cardinality(W)
    <3> HIDE DEF f, W, G
    <3> QED BY <2>1, <2>3, FS_Surjection
  <2>5. Cardinality(G) \in Nat /\ Cardinality(W) \in Nat
    BY <2>1, <2>4, FS_CardinalityType
  <2> QED BY <1>0, <2>1, <2>2, <2>4, <2>5
<1>5. \A g \in G : Earliest(g) \in g
  <2> TAKE g \in G
  <2>1. g # {} /\ g \in SUBSET (1..Len(rows))
    BY <1>0, <1>1, <1>3
  <2> QED BY <1>0, <2>1, LatestIs
<1>6. \A g \in G : Earliest(g) \in W
  BY <1>3, <1>5
<1> HIDE DEF W, G
<1>7. G \in SUBSET (SUBSET DOMAIN rows)
  BY <1>1, <1>3
<1> QED BY <1>2, <1>3, <1>4, <1>5, <1>6, <1>7 DEF W, G

\* The groups are ordered by their periods and keys, and all of them are listed.
LEMMA GroupIs ==
  ASSUME Stored, NEW start, NEW end, NEW interval \in Nat \ {0}
  PROVE  LET G == GroupsOf(start, end, interval)
         IN  /\ Orders(ByPlace(G, interval), G)
             /\ Listing(G, LAMBDA g, h : ByPeriod(Earliest(g), Earliest(h), interval)) =
                  Listed(G, ByPlace(G, interval))
             /\ \A g, h \in G : <<g, h>> \in ByPlace(G, interval) <=>
                                  ByPeriod(Earliest(g), Earliest(h), interval)
<1> DEFINE G == GroupsOf(start, end, interval)
           R == ByPlace(G, interval)
           P(g) == Period(Earliest(g), interval)
           K(g) == Place(rows[Earliest(g)].key)
<1>1. /\ \A g \in G : /\ Earliest(g) \in g /\ Earliest(g) \in Within(start, end)
                      /\ \A i \in g : g = GroupOf(i, start, end, interval)
  BY GroupsAre
<1>2. \A g \in G : Earliest(g) \in DOMAIN rows /\ rows[Earliest(g)].key \in Keys
  BY <1>1, RowIs DEF Within
<1>3. \A g \in G : P(g) \in Nat /\ K(g) \in Nat
  BY <1>2, PeriodIs, PlaceIs
<1>4. \A g, h \in G : P(g) = P(h) /\ K(g) = K(h) => g = h
  <2> TAKE g, h \in G
  <2>1. ASSUME P(g) = P(h), K(g) = K(h) PROVE g = h
    <3>1. rows[Earliest(g)].key = rows[Earliest(h)].key
      BY <1>2, <2>1, PlaceIs
    <3>2. Earliest(g) \in GroupOf(Earliest(h), start, end, interval)
      BY <1>1, <2>1, <3>1 DEF GroupOf
    <3>3. GroupOf(Earliest(h), start, end, interval) = h
      BY <1>1
    <3>4. h = GroupOf(Earliest(g), start, end, interval)
      BY <1>1, <3>2, <3>3
    <3> QED BY <1>1, <3>4
  <2> QED BY <2>1
<1>5. \A g, h \in G : <<g, h>> \in R <=> ByPeriod(Earliest(g), Earliest(h), interval)
  <2> HIDE DEF G
  <2> QED BY DEF ByPlace
<1>6. \A g, h \in G : <<g, h>> \in R <=> P(g) < P(h) \/ (P(g) = P(h) /\ K(g) < K(h))
  BY <1>5 DEF ByPeriod
<1>7. Orders(R, G)
  <2> HIDE DEF G, R, P, K
  <2>1. \A x \in G : <<x, x>> \notin R
    BY <1>3, <1>6
  <2>2. \A x, y \in G : x # y => <<x, y>> \in R \/ <<y, x>> \in R
    BY <1>3, <1>4, <1>6
  <2>3. \A x, y, z \in G : <<x, y>> \in R /\ <<y, z>> \in R => <<x, z>> \in R
    BY <1>3, <1>6
  <2> QED BY <2>1, <2>2, <2>3 DEF Orders
<1>8. Listing(G, LAMBDA g, h : ByPeriod(Earliest(g), Earliest(h), interval)) =
        [n \in 1..Cardinality(G) |->
           CHOOSE x \in G :
             Cardinality({y \in G : ByPeriod(Earliest(y), Earliest(x), interval)}) = n - 1]
  <2> HIDE DEF G
  <2> QED BY DEF Listing
<1>9. \A x \in G : Cardinality({y \in G : ByPeriod(Earliest(y), Earliest(x), interval)}) =
                     Rank(G, R, x)
  <2> HIDE DEF G, R
  <2> QED BY <1>5 DEF Rank
<1>10. Listing(G, LAMBDA g, h : ByPeriod(Earliest(g), Earliest(h), interval)) = Listed(G, R)
  <2> HIDE DEF G, R
  <2> QED BY <1>8, <1>9 DEF Listed
<1> QED BY <1>5, <1>7, <1>10

\* What is left of the groups after those that the cursor skips.
LEMMA GroupResultIs ==
  ASSUME Stored, NEW q, q.interval \in Nat \ {0}, NEW start, NEW end, NEW cursor \in Nat
  PROVE  LET G   == GroupsOf(start, end, q.interval)
             L   == Listed(G, ByPlace(G, q.interval))
             all == GroupResult(q, start, end, cursor)
         IN  /\ all \in Seq(G)
             /\ Len(all) = IF cursor < Cardinality(G) THEN Cardinality(G) - cursor ELSE 0
             /\ \A i \in 1..Len(all) : cursor + i \in 1..Cardinality(G) /\ all[i] = L[cursor + i]
<1> DEFINE G == GroupsOf(start, end, q.interval)
           R == ByPlace(G, q.interval)
           L == Listed(G, R)
           c == Cardinality(G)
           all == GroupResult(q, start, end, cursor)
<1>1. IsFiniteSet(G)
  BY GroupsAre
<1>2. /\ Orders(R, G)
      /\ Listing(G, LAMBDA g, h : ByPeriod(Earliest(g), Earliest(h), q.interval)) = L
  BY GroupIs
<1>3. all = SubSeq(L, cursor + 1, Len(L))
  BY <1>2 DEF GroupResult, GroupsOf
<1>4. c \in Nat /\ L \in Seq(G) /\ Len(L) = c
  <2> HIDE DEF G, R
  <2> QED BY <1>1, <1>2, ListedSeq
<1> HIDE DEF all, L, c
<1>5. \A i \in cursor + 1..c : L[i] \in G
  BY <1>4
<1>6. /\ all \in Seq(G) /\ Len(all) = IF cursor + 1 <= c THEN c - (cursor + 1) + 1 ELSE 0
      /\ \A i \in 1..c - (cursor + 1) + 1 : all[i] = L[(cursor + 1) + i - 1]
  BY <1>3, <1>4, <1>5, cursor + 1 \in Int, SubSeqProperties
<1>7. Len(all) = IF cursor < c THEN c - cursor ELSE 0
  BY <1>4, <1>6
<1>8. ASSUME NEW i \in 1..Len(all) PROVE cursor + i \in 1..c /\ all[i] = L[cursor + i]
  <2>1. cursor < c /\ i \in 1..c - cursor
    BY <1>4, <1>7
  <2>2. i \in 1..c - (cursor + 1) + 1 /\ (cursor + 1) + i - 1 = cursor + i /\ cursor + i \in 1..c
    BY <1>4, <2>1
  <2> QED BY <1>6, <2>2
<1> QED BY <1>6, <1>7, <1>8 DEF all, L, c

(***************************************************************************)
(* The types.                                                              *)
(***************************************************************************)

\* What the pages of a table with n rows return.
Item(n) == IF query.kind \in Groups THEN SUBSET (1..n) ELSE 1..n

\* A reader of such a table.
Reader(n) ==
  [phase : Phases, start : Nat, end : Nat, cursor : 0..n, got : Seq(Item(n)),
   pages : Nat, seen : 0..n, horizon : Nat]

\* How much its pages hold.
Counted(r) ==
  /\ Len(r.got) <= r.pages * query.limit
  /\ r.phase = "reading" => Len(r.got) = r.pages * query.limit

\* The time of the earliest row that could still be recorded now.
Lowest ==
  CASE query.kind = "pairs" -> (clock \div Forwards) * Forwards
    [] query.kind \in {"probes", "routes"} -> Minus(clock, query.lag)
    [] OTHER -> clock

Typed ==
  /\ query \in Queries
  /\ Stored /\ Len(rows) <= MaxRows
  /\ clock \in 0..query.until
  /\ begun # Idle => begun \in 0..clock /\ query.kind \in Snapshots
  /\ \A i \in DOMAIN rows : rows[i].ts <= clock
  /\ reader \in Reader(Len(rows)) /\ Counted(reader)
  /\ reader.phase = "new" => reader = NoRead

\* What the constants say of a query.
LEMMA QueryIs ==
  ASSUME query \in Queries
  PROVE  /\ query.kind \in Kinds /\ query.interval \in Nat /\ query.limit \in Nat \ {0}
         /\ query.open \in BOOLEAN /\ query.lag \in Nat /\ query.until \in 0..MaxTime
         /\ query.kind \in Groups => query.interval \in Nat \ {0}
         /\ MaxTime \in Nat /\ MaxRows \in Nat /\ MaxHtlcs \in Nat
         /\ Forwards \in Nat \ {0} /\ Idle = MaxTime + 1
BY QueriesAssumption DEF Idle

\* When a row that is recorded now may date from.
LEMMA TimesAre ==
  ASSUME query \in Queries, clock \in Nat
  PROVE  /\ Times \subseteq 0..clock
         /\ Lowest \in Times /\ \A t \in Times : Lowest <= t
         /\ Earliest(Times) = Lowest
<1> USE QueryIs
<1>1. /\ (clock \div Forwards) * Forwards \in Nat
      /\ (clock \div Forwards) * Forwards <= clock
  BY Z3
<1>2. /\ Minus(clock, query.lag) \in Nat /\ Minus(clock, query.lag) <= clock
  BY DEF Minus
<1>3. /\ Times \subseteq 0..clock
      /\ Lowest \in Times /\ \A t \in Times : Lowest <= t
  <2>1. CASE query.kind = "pairs"
    BY <1>1, <2>1 DEF Times, Lowest
  <2>2. CASE query.kind \in {"probes", "routes"}
    BY <1>2, <2>2 DEF Times, Lowest
  <2>3. CASE query.kind \notin {"pairs", "probes", "routes"}
    BY <2>3 DEF Times, Lowest
  <2> QED BY <2>1, <2>2, <2>3
<1>4. Earliest(Times) = Lowest
  <2> DEFINE T == Times
             e == Lowest
  <2>1. T \subseteq 0..clock /\ e \in T /\ \A t \in T : e <= t
    BY <1>3
  <2> HIDE DEF T, e
  <2>2. \A i \in T : (\A j \in T : i <= j) <=> i = e
    BY <2>1
  <2>3. Earliest(T) = e
    BY <2>1, <2>2 DEF Earliest
  <2> QED BY <2>3 DEF T, e
<1> QED BY <1>3, <1>4

(***************************************************************************)
(* One page.                                                               *)
(***************************************************************************)

\* What the next page of reader r is cut from.
Upto(r)   == IF query.open THEN clock ELSE r.end
PageOf(r) == Result(query, r.start, Upto(r), r.cursor)

\* Rows or groups of the table.
LEMMA PageType ==
  ASSUME Stored, query \in Queries, NEW r, r.cursor \in Nat
  PROVE  PageOf(r) \in Seq(Item(Len(rows)))
<1> DEFINE e == Upto(r)
<1>0. Len(rows) \in Nat /\ DOMAIN rows = 1..Len(rows)
  BY RowIs
<1>1. CASE query.kind \in {"channels", "htlcs"}
  <2> DEFINE S == Samples(query, r.start, e, r.cursor)
  <2>1. Item(Len(rows)) = DOMAIN rows
    BY <1>0, <1>1 DEF Item, Groups
  <2>2. PageOf(r) = SampleResult(query, r.start, e, r.cursor)
    BY <1>1 DEF PageOf, Result
  <2>3. S \in SUBSET DOMAIN rows /\ IsFiniteSet(S)
    BY SamplesAre
  <2>4. Orders(Ascending(S), S) /\ SampleResult(query, r.start, e, r.cursor) = Listed(S, Ascending(S))
    BY SampleIs
  <2>5. Listed(S, Ascending(S)) \in Seq(S)
    <3> HIDE DEF S
    <3> QED BY <2>3, <2>4, ListedSeq
  <2> HIDE DEF S, e
  <2> QED BY <2>1, <2>2, <2>3, <2>4, <2>5, SeqMonotonic
<1>2. CASE query.kind \in {"events", "probes"}
  <2> DEFINE S == Beyond(Within(r.start, e), r.cursor)
  <2>1. Item(Len(rows)) = DOMAIN rows
    BY <1>0, <1>2 DEF Item, Groups
  <2>2. PageOf(r) = EventResult(r.start, e, r.cursor)
    BY <1>2 DEF PageOf, Result
  <2>3. /\ S \in SUBSET DOMAIN rows /\ IsFiniteSet(S) /\ Orders(ByTime(S), S)
        /\ EventResult(r.start, e, r.cursor) = Listed(S, ByTime(S))
    BY EventIs
  <2>4. Listed(S, ByTime(S)) \in Seq(S)
    <3> HIDE DEF S
    <3> QED BY <2>3, ListedSeq
  <2> HIDE DEF S, e
  <2> QED BY <2>1, <2>2, <2>3, <2>4, SeqMonotonic
<1>3. CASE query.kind \in Groups
  <2> DEFINE G == GroupsOf(r.start, e, query.interval)
  <2>1. Item(Len(rows)) = SUBSET DOMAIN rows
    BY <1>0, <1>3 DEF Item
  <2>2. PageOf(r) = GroupResult(query, r.start, e, r.cursor)
    BY <1>3 DEF PageOf, Result, Groups
  <2>3. query.interval \in Nat \ {0}
    BY <1>3, QueryIs
  <2>4. G \in SUBSET (SUBSET DOMAIN rows)
    BY <2>3, GroupsAre
  <2>5. GroupResult(query, r.start, e, r.cursor) \in Seq(G)
    BY <2>3, GroupResultIs
  <2> HIDE DEF G, e
  <2> QED BY <2>1, <2>2, <2>4, <2>5, SeqMonotonic
<1> QED BY <1>1, <1>2, <1>3, QueryIs DEF Kinds, Snapshots

\* The page itself, and whether it says has_more.
Page(r) == Cut(PageOf(r), query.limit)
More(r) == Len(PageOf(r)) > query.limit

\* What is on a page.
LEMMA PageIs ==
  ASSUME Stored, query \in Queries, NEW r, r.cursor \in Nat
  PROVE  /\ Page(r) \in Seq(Item(Len(rows))) /\ Len(Page(r)) \in Nat
         /\ Len(Page(r)) = IF More(r) THEN query.limit ELSE Len(PageOf(r))
         /\ \A i \in 1..Len(Page(r)) : Page(r)[i] = PageOf(r)[i]
         /\ PageOf(r) \in Seq(Item(Len(rows))) /\ Len(PageOf(r)) \in Nat
<1>1. query.limit \in Nat
  BY QueryIs
<1>2. PageOf(r) \in Seq(Item(Len(rows))) /\ Len(PageOf(r)) \in Nat
  BY PageType
<1> QED BY <1>1, <1>2, CutIs DEF Page, More

\* The fields of a reader after one more page.
LEMMA TurnedIs ==
  ASSUME Stored, query \in Queries, NEW r \in Reader(Len(rows))
  PROVE  /\ Turned(r).start = r.start /\ Turned(r).end = r.end
         /\ Turned(r).seen = r.seen /\ Turned(r).horizon = r.horizon
         /\ Turned(r).got = r.got \o Page(r)
         /\ Turned(r).pages = r.pages + 1
         /\ Turned(r).phase = IF More(r) THEN "reading" ELSE "done"
         /\ Turned(r).cursor = IF ~More(r) THEN r.cursor
                               ELSE IF query.kind \in Groups THEN r.cursor + Len(Page(r))
                               ELSE Page(r)[Len(Page(r))]
         /\ Turned(r) = [phase |-> Turned(r).phase, start |-> Turned(r).start,
                         end |-> Turned(r).end, cursor |-> Turned(r).cursor,
                         got |-> Turned(r).got, pages |-> Turned(r).pages,
                         seen |-> Turned(r).seen, horizon |-> Turned(r).horizon]
<1> DEFINE t == Turned(r)
           c == IF ~More(r) THEN r.cursor
                ELSE IF query.kind \in Groups THEN r.cursor + Len(Page(r)) ELSE Last(Page(r))
           p == IF More(r) THEN "reading" ELSE "done"
<1>1. t = [r EXCEPT !.got = r.got \o Page(r), !.pages = r.pages + 1, !.cursor = c, !.phase = p]
  BY DEF Turned, PageOf, Upto, Page, More
<1>2. Last(Page(r)) = Page(r)[Len(Page(r))]
  BY DEF Last
<1> HIDE DEF c, p, t
<1>3. /\ t.start = r.start /\ t.end = r.end /\ t.seen = r.seen /\ t.horizon = r.horizon
      /\ t.got = r.got \o Page(r) /\ t.pages = r.pages + 1 /\ t.cursor = c /\ t.phase = p
      /\ t = [phase |-> t.phase, start |-> t.start, end |-> t.end, cursor |-> t.cursor,
              got |-> t.got, pages |-> t.pages, seen |-> t.seen, horizon |-> t.horizon]
  BY <1>1 DEF Reader
<1> QED BY <1>2, <1>3 DEF c, p, t

\* Another page leaves the reader typed.
LEMMA TurnedType ==
  ASSUME Stored, query \in Queries, NEW r \in Reader(Len(rows)), r.phase # "done",
         Counted(r), r.phase = "new" => r.got = <<>> /\ r.pages = 0
  PROVE  Turned(r) \in Reader(Len(rows)) /\ Counted(Turned(r)) /\ Turned(r).phase # "new"
<1> DEFINE n == Len(rows)
           I == Item(n)
           page == Page(r)
           t == Turned(r)
<1>1. r.cursor \in Nat /\ r.cursor \in 0..n /\ r.got \in Seq(I) /\ r.pages \in Nat /\ n \in Nat
  BY RowIs DEF Reader
<1>2. /\ page \in Seq(I) /\ Len(page) \in Nat
      /\ Len(page) = IF More(r) THEN query.limit ELSE Len(PageOf(r))
      /\ \A i \in 1..Len(page) : page[i] = PageOf(r)[i]
      /\ Len(PageOf(r)) \in Nat
  BY <1>1, PageIs
<1>3. query.limit \in Nat \ {0}
  BY QueryIs
<1>4. t.got \in Seq(I) /\ Len(t.got) = Len(r.got) + Len(page)
  <2> DEFINE old == r.got
  <2>1. t.got = old \o page
    BY TurnedIs
  <2>2. old \in Seq(I)
    BY <1>1
  <2>3. old \o page \in Seq(I) /\ Len(old \o page) = Len(old) + Len(page)
    <3> HIDE DEF I, page, old
    <3> QED BY <1>2, <2>2, ConcatProperties
  <2> QED BY <2>1, <2>3
<1>5. t.cursor \in 0..n
  <2>1. CASE ~More(r)
    BY <1>1, <2>1, TurnedIs
  <2>2. CASE More(r) /\ query.kind \in Groups
    <3> DEFINE G == GroupsOf(r.start, Upto(r), query.interval)
    <3>1. query.interval \in Nat \ {0}
      BY <2>2, QueryIs
    <3>2. PageOf(r) = GroupResult(query, r.start, Upto(r), r.cursor)
      BY <2>2 DEF PageOf, Result, Groups
    <3>3. IsFiniteSet(G) /\ Cardinality(G) <= n
      BY <3>1, GroupsAre
    <3>4. Len(PageOf(r)) = IF r.cursor < Cardinality(G) THEN Cardinality(G) - r.cursor ELSE 0
      BY <1>1, <3>1, <3>2, GroupResultIs
    <3>5. Cardinality(G) \in Nat
      BY <3>3, FS_CardinalityType
    <3>6. Len(page) = query.limit /\ Len(PageOf(r)) > query.limit
      BY <1>2, <2>2 DEF More
    <3>7. t.cursor = r.cursor + Len(page)
      BY <2>2, TurnedIs
    <3> HIDE DEF G, page, t, n
    <3> QED BY <1>1, <1>2, <1>3, <3>3, <3>4, <3>5, <3>6, <3>7
  <2>3. CASE More(r) /\ query.kind \notin Groups
    <3>1. I = 1..n
      BY <2>3 DEF Item
    <3>2. Len(page) \in 1..Len(page)
      BY <1>2, <1>3, <2>3
    <3>3. page[Len(page)] \in I
      <4> HIDE DEF page, I
      <4> QED BY <1>2, <3>2
    <3>4. t.cursor = page[Len(page)]
      BY <2>3, TurnedIs
    <3> QED BY <1>1, <3>1, <3>3, <3>4
  <2> QED BY <2>1, <2>2, <2>3
<1>6. t.pages \in Nat /\ t.pages = r.pages + 1 /\ t.phase \in {"reading", "done"}
  BY <1>1, TurnedIs
<1>7. t \in Reader(n)
  <2>1. t.start \in Nat /\ t.end \in Nat /\ t.seen \in 0..n /\ t.horizon \in Nat
    BY TurnedIs DEF Reader
  <2>2. t = [phase |-> t.phase, start |-> t.start, end |-> t.end, cursor |-> t.cursor,
             got |-> t.got, pages |-> t.pages, seen |-> t.seen, horizon |-> t.horizon]
    BY TurnedIs
  <2>3. t.phase \in Phases
    BY <1>6 DEF Phases
  <2> HIDE DEF t, n, I
  <2>4. t \in [phase : Phases, start : Nat, end : Nat, cursor : 0..n, got : Seq(I),
               pages : Nat, seen : 0..n, horizon : Nat]
    BY <1>4, <1>5, <1>6, <2>1, <2>2, <2>3
  <2> QED BY <2>4 DEF Reader, I
<1>8. Counted(t)
  <2>1. (r.pages + 1) * query.limit = r.pages * query.limit + query.limit
        /\ r.pages * query.limit \in Nat
    <3>1. \A a, b \in Nat : (a + 1) * b = a * b + b /\ a * b \in Nat
      OBVIOUS
    <3> QED BY <1>1, <1>3, <3>1
  <2>2. Len(r.got) = r.pages * query.limit
    <3>1. CASE r.phase = "new"
      BY <1>3, <3>1
    <3>2. CASE r.phase = "reading"
      BY <3>2 DEF Counted
    <3> QED BY <3>1, <3>2 DEF Reader, Phases
  <2>3. Len(page) <= query.limit /\ (t.phase = "reading" => Len(page) = query.limit)
    BY <1>2, <1>3, TurnedIs DEF More
  <2> DEFINE m == r.pages * query.limit
  <2> HIDE DEF m, t, page
  <2>4. /\ Len(t.got) <= m + query.limit
        /\ t.phase = "reading" => Len(t.got) = m + query.limit
    BY <1>2, <1>3, <1>4, <2>1, <2>2, <2>3 DEF m
  <2> QED BY <1>6, <2>1, <2>4 DEF Counted, m
<1> QED BY <1>6, <1>7, <1>8

(***************************************************************************)
(* The steps of the writers.                                               *)
(***************************************************************************)

\* Rows are added to the table, at times in T, and none changes.
Grown(T) ==
  /\ Stored' /\ Len(rows') \in Nat /\ DOMAIN rows' = 1..Len(rows')
  /\ Len(rows) \in Nat /\ DOMAIN rows = 1..Len(rows) /\ Len(rows) <= Len(rows')
  /\ Len(rows') <= MaxRows
  /\ \A i \in DOMAIN rows : i \in DOMAIN rows' /\ rows'[i] = rows[i]
  /\ \A i \in Len(rows) + 1..Len(rows') : rows'[i].ts \in T

\* A snapshot stores rows of the time it began.
LEMMA CommitIs ==
  ASSUME Typed, Commit
  PROVE  Grown({begun}) /\ begun \in 0..clock /\ query.kind \in Snapshots
<1>1. begun \in 0..clock /\ query.kind \in Snapshots /\ clock \in 0..query.until /\ Stored
  BY DEF Typed, Commit
<1>2. begun \in 0..MaxTime
  BY <1>1, QueryIs DEF Typed
<1>3. PICK order \in UNION {SetToSeqs(S) : S \in SUBSET Keys},
           htlcs \in [Keys -> IF query.kind = "htlcs" THEN 0..MaxHtlcs ELSE {0}] :
        /\ Len(rows) + Len(order) <= MaxRows
        /\ rows' = rows \o [i \in DOMAIN order |->
                     [ts |-> begun, key |-> order[i], htlcs |-> htlcs[order[i]]]]
  BY DEF Commit
<1>4. PICK S \in SUBSET Keys : order \in SetToSeqs(S)
  BY <1>3
<1> DEFINE m   == Cardinality(S)
           new == [i \in DOMAIN order |->
                     [ts |-> begun, key |-> order[i], htlcs |-> htlcs[order[i]]]]
<1>5. m \in Nat /\ order \in [1..m -> S]
  <2>1. IsFiniteSet(S)
    BY QueriesAssumption, FS_Subset
  <2> QED BY <1>4, <2>1, FS_CardinalityType DEF SetToSeqs
<1>6. new \in [1..m -> Row] /\ \A i \in 1..m : new[i].ts = begun
  <2>1. \A k \in Keys : htlcs[k] \in 0..MaxHtlcs
    BY <1>3, QueriesAssumption
  <2> QED BY <1>2, <1>5, <2>1 DEF Row
<1>7. new \in Seq(Row) /\ Len(new) = m /\ Len(order) = m
  <2>1. \A n \in Nat : \A f \in [1..n -> Row] : f \in Seq(Row) /\ Len(f) = n
    BY SeqDef
  <2>2. \A n \in Nat : \A f \in [1..n -> S] : Len(f) = n
    BY SeqDef
  <2> HIDE DEF new, m
  <2> QED BY <1>5, <1>6, <2>1, <2>2
<1>8. /\ rows' \in Seq(Row) /\ Len(rows') = Len(rows) + m
      /\ \A i \in 1..Len(rows) + m :
           rows'[i] = IF i <= Len(rows) THEN rows[i] ELSE new[i - Len(rows)]
  <2>1. rows \in Seq(Row) /\ rows' = rows \o new
    BY <1>1, <1>3 DEF Stored
  <2> HIDE DEF new, m
  <2> QED BY <1>7, <2>1, ConcatProperties
<1> HIDE DEF new, m
<1>9. Len(rows) \in Nat /\ DOMAIN rows = 1..Len(rows) /\ DOMAIN rows' = 1..Len(rows')
  BY <1>1, <1>8 DEF Stored
<1>10. \A i \in DOMAIN rows : i \in DOMAIN rows' /\ rows'[i] = rows[i]
  BY <1>5, <1>8, <1>9
<1>11. \A i \in Len(rows) + 1..Len(rows') : rows'[i].ts = begun
  <2> TAKE i \in Len(rows) + 1..Len(rows')
  <2>1. i - Len(rows) \in 1..m /\ i \in 1..Len(rows) + m /\ ~(i <= Len(rows))
    BY <1>5, <1>8, <1>9
  <2> QED BY <1>6, <1>8, <2>1
<1>12. Len(rows') <= MaxRows
  BY <1>3, <1>7, <1>8
<1> QED BY <1>1, <1>5, <1>8, <1>9, <1>10, <1>11, <1>12 DEF Grown, Stored

\* A notification stores a row of some time that it may date from.
LEMMA NotifyIs ==
  ASSUME Typed, Notify
  PROVE  Grown(Times) /\ Times \subseteq 0..clock
<1>1. clock \in 0..query.until /\ Stored /\ query \in Queries /\ clock \in Nat /\ MaxTime \in Nat
      /\ query.until <= MaxTime /\ query.until \in Nat
  BY QueryIs DEF Typed
<1>2. Times \subseteq 0..clock
  BY <1>1, TimesAre
<1>3. PICK k \in Keys, ts \in Times : rows' = Append(rows, [ts |-> ts, key |-> k, htlcs |-> 0])
  BY DEF Notify
<1> DEFINE e == [ts |-> ts, key |-> k, htlcs |-> 0]
<1>4. e \in Row /\ e.ts \in Times
  <2>1. ts \in 0..MaxTime /\ 0 \in 0..MaxHtlcs
    BY <1>1, <1>2, <1>3, QueryIs
  <2> QED BY <1>3, <2>1 DEF Row
<1> HIDE DEF e
<1>5. /\ rows' \in Seq(Row) /\ Len(rows) \in Nat /\ Len(rows') = Len(rows) + 1
      /\ rows'[Len(rows')] = e /\ \A i \in 1..Len(rows) : rows'[i] = rows[i]
  <2>1. rows \in Seq(Row) /\ rows' = Append(rows, e)
    BY <1>1, <1>3 DEF Stored, e
  <2> QED BY <1>4, <2>1, AppendProperties
<1>6. DOMAIN rows = 1..Len(rows) /\ DOMAIN rows' = 1..Len(rows')
  BY <1>1, <1>5 DEF Stored
<1>7. \A i \in Len(rows) + 1..Len(rows') : rows'[i].ts \in Times
  BY <1>4, <1>5
<1>8. Len(rows') <= MaxRows
  <2>1. Len(rows) < MaxRows /\ MaxRows \in Nat
    BY QueryIs, <1>1 DEF Notify
  <2> QED BY <1>5, <2>1
<1> QED BY <1>2, <1>5, <1>6, <1>7, <1>8 DEF Grown, Stored

\* What a reader of some rows has read, it has read of more rows.
LEMMA ReaderGrows ==
  ASSUME NEW m \in Nat, NEW n \in Nat, m <= n, NEW r \in Reader(m)
  PROVE  r \in Reader(n)
<1>1. Item(m) \subseteq Item(n) /\ 0..m \subseteq 0..n
  <2>1. 1..m \subseteq 1..n /\ 0..m \subseteq 0..n
    OBVIOUS
  <2> QED BY <2>1 DEF Item
<1>2. \A s \in Seq(Item(m)) : s \in Seq(Item(n))
  BY <1>1, SeqMonotonic
<1> QED BY <1>1, <1>2 DEF Reader

(***************************************************************************)
(* The steps of a reader.                                                  *)
(***************************************************************************)

\* A reader that has asked for its first page and has not got it yet.
Starts(r) ==
  /\ r \in Reader(Len(rows)) /\ r.phase = "new"
  /\ r.cursor = 0 /\ r.got = <<>> /\ r.pages = 0 /\ r.seen = Len(rows)
  /\ query.open => r.end = clock
  /\ r.horizon <= r.end + 1 /\ r.horizon <= Lowest
  /\ begun # Idle => r.horizon <= begun

\* A page is turned: the first of a read, or the next.
Turns(r) == Starts(r) \/ (r = reader /\ reader.phase = "reading")

\* What is known of a reader before its first request.
LEMMA NoReadIs ==
  ASSUME query \in Queries, NEW n \in Nat
  PROVE  /\ NoRead \in Reader(n) /\ Counted(NoRead) /\ NoRead.phase = "new"
<1>1. <<>> \in Seq(Item(n)) /\ Len(<<>>) = 0
  BY EmptySeq
<1>2. NoRead \in Reader(n)
  BY <1>1 DEF NoRead, Reader, Phases
<1>3. NoRead.got = <<>> /\ NoRead.pages = 0 /\ NoRead.phase = "new"
  BY DEF NoRead
<1>4. Counted(NoRead)
  <2>1. Len(NoRead.got) = 0
    BY <1>1, <1>3
  <2>2. \A k \in Nat : 0 <= 0 * k
    OBVIOUS
  <2> QED BY <1>3, <2>1, <2>2, QueryIs DEF Counted
<1> QED BY <1>2, <1>3, <1>4

\* The first request starts a read.
LEMMA FirstIs ==
  ASSUME Typed, NEW start \in 0..query.until, NEW end \in Nat, query.open => end = clock,
         NEW r, r = [NoRead EXCEPT !.start = start, !.end = end, !.seen = Len(rows),
                       !.horizon = Lesser(end + 1,
                           IF begun = Idle THEN Earliest(Times) ELSE begun)]
  PROVE  Starts(r) /\ r.start = start /\ r.end = end
<1>0. /\ query \in Queries /\ clock \in Nat /\ Len(rows) \in Nat /\ start \in Nat
      /\ begun # Idle => begun \in 0..clock /\ query.kind \in Snapshots
  BY RowIs, QueryIs DEF Typed
<1> DEFINE h == Lesser(end + 1, IF begun = Idle THEN Earliest(Times) ELSE begun)
<1>1. Earliest(Times) = Lowest /\ Lowest \in 0..clock
  BY <1>0, TimesAre
<1>2. begun # Idle => Lowest = clock
  BY <1>0 DEF Lowest, Snapshots
<1>3. h \in Nat /\ h <= end + 1 /\ h <= Lowest /\ (begun # Idle => h <= begun)
  BY <1>0, <1>1, <1>2 DEF Lesser
<1>4. r = [NoRead EXCEPT !.start = start, !.end = end, !.seen = Len(rows), !.horizon = h]
  OBVIOUS
<1> HIDE DEF h
<1>5. /\ r.phase = "new" /\ r.start = start /\ r.end = end /\ r.cursor = 0 /\ r.got = <<>>
      /\ r.pages = 0 /\ r.seen = Len(rows) /\ r.horizon = h
  BY <1>4 DEF NoRead
<1>6. r \in Reader(Len(rows))
  <2>1. NoRead \in Reader(Len(rows)) /\ Len(rows) \in 0..Len(rows)
    BY <1>0, NoReadIs
  <2> DEFINE q == NoRead
  <2>2. q \in Reader(Len(rows))
        /\ r = [q EXCEPT !.start = start, !.end = end, !.seen = Len(rows), !.horizon = h]
    BY <1>4, <2>1
  <2>3. q.phase = r.phase /\ q.cursor = r.cursor /\ q.got = r.got /\ q.pages = r.pages
    BY <1>5 DEF NoRead
  <2> HIDE DEF q
  <2>4. r = [phase |-> r.phase, start |-> r.start, end |-> r.end, cursor |-> r.cursor,
             got |-> r.got, pages |-> r.pages, seen |-> r.seen, horizon |-> r.horizon]
    BY <2>2 DEF Reader
  <2>5. r.phase \in Phases /\ r.cursor \in 0..Len(rows) /\ r.got \in Seq(Item(Len(rows)))
        /\ r.pages \in Nat
    BY <2>2, <2>3 DEF Reader
  <2> QED BY <1>0, <1>3, <1>5, <2>1, <2>4, <2>5 DEF Reader
<1> QED BY <1>3, <1>5, <1>6 DEF Starts

\* What a page needs to know of its reader.
LEMMA TurnsIs ==
  ASSUME Typed, NEW r, Turns(r)
  PROVE  /\ r \in Reader(Len(rows)) /\ Counted(r) /\ r.phase \in {"new", "reading"}
         /\ r.phase = "new" => r.got = <<>> /\ r.pages = 0 /\ r.cursor = 0
         /\ r.phase = "new" <=> Starts(r)
         /\ Turned(r) \in Reader(Len(rows)) /\ Counted(Turned(r))
         /\ Turned(r).phase \in {"reading", "done"}
<1>0. Stored /\ query \in Queries /\ Len(rows) \in Nat
  BY RowIs DEF Typed
<1>1. CASE Starts(r)
  <2>1. Counted(r)
    <3>1. Len(r.got) = 0 /\ r.pages = 0 /\ r.phase # "reading"
      BY <1>1, EmptySeq DEF Starts
    <3>2. \A k \in Nat : 0 <= 0 * k
      OBVIOUS
    <3> QED BY <1>0, <3>1, <3>2, QueryIs DEF Counted
  <2>2. /\ r \in Reader(Len(rows)) /\ r.phase = "new"
        /\ r.got = <<>> /\ r.pages = 0 /\ r.cursor = 0
    BY <1>1 DEF Starts
  <2>3. /\ Turned(r) \in Reader(Len(rows)) /\ Counted(Turned(r))
        /\ Turned(r).phase # "new"
    BY <1>0, <2>1, <2>2, TurnedType
  <2> QED BY <1>1, <2>1, <2>2, <2>3 DEF Reader, Phases
<1>2. CASE r = reader /\ reader.phase = "reading"
  <2>1. r \in Reader(Len(rows)) /\ Counted(r) /\ r.phase = "reading" /\ ~Starts(r)
    BY <1>2 DEF Typed, Starts
  <2>2. /\ Turned(r) \in Reader(Len(rows)) /\ Counted(Turned(r))
        /\ Turned(r).phase # "new"
    BY <1>0, <2>1, TurnedType
  <2> QED BY <2>1, <2>2 DEF Reader, Phases
<1> QED BY <1>1, <1>2 DEF Turns

\* The three things that happen to a reader: the table may grow, by rows that its
\* range may still get, or a page is turned, or it is left.
Late == {t \in Nat : reader.phase # "new" => reader.horizon <= t}
Grows ==
  /\ Grown(Late) /\ query' = query /\ reader' = reader
  /\ clock \in Nat /\ clock' \in Nat /\ clock <= clock'
TurnsPage ==
  /\ UNCHANGED <<clock, rows, begun, query>>
  /\ \E r : Turns(r) /\ reader' = Turned(r)
Leaves ==
  /\ UNCHANGED <<clock, rows, begun, query>>
  /\ reader.phase = "done" /\ reader' = NoRead

\* From when on rows may still be recorded.
Horizons ==
  reader.phase # "new" =>
    /\ reader.horizon <= reader.end + 1 /\ reader.horizon <= Lowest
    /\ begun # Idle => reader.horizon <= begun
    /\ \A i \in DOMAIN rows : reader.seen < i => reader.horizon <= rows[i].ts

\* The exporter starts with an empty table and a reader that has asked for nothing.
LEMMA InitTyped == Init => Typed /\ Horizons
<1> SUFFICES ASSUME Init PROVE Typed /\ Horizons
  OBVIOUS
<1>1. query \in Queries /\ rows = <<>> /\ Len(rows) = 0 /\ clock = 0 /\ begun = Idle
      /\ reader = NoRead
  BY EmptySeq DEF Init
<1>2. Stored /\ DOMAIN rows = {}
  <2>1. rows \in Seq(Row) /\ DOMAIN rows = 1..Len(rows)
    BY <1>1, EmptySeq
  <2> QED BY <1>1, <2>1 DEF Stored
<1>3. reader \in Reader(Len(rows)) /\ Counted(reader) /\ reader.phase = "new"
  BY <1>1, NoReadIs
<1>4. clock \in 0..query.until /\ Len(rows) <= MaxRows
  BY <1>1, QueryIs
<1> QED BY <1>1, <1>2, <1>3, <1>4 DEF Typed, Horizons

\* The table grows: the reader of the old one is a reader of the new one.
LEMMA GrownReader ==
  ASSUME Typed, NEW T, Grown(T), query' = query, reader' = reader
  PROVE  /\ (reader \in Reader(Len(rows)) /\ Counted(reader))'
         /\ Stored' /\ Len(rows') <= MaxRows
         /\ (reader.phase = "new" => reader = NoRead)'
<1>1. reader \in Reader(Len(rows'))
  BY ReaderGrows DEF Typed, Grown
<1>2. (reader \in Reader(Len(rows)))'
  BY <1>1 DEF Reader, Item
<1>3. Counted(reader)'
  BY DEF Typed, Counted
<1> QED BY <1>2, <1>3 DEF Typed, Grown

\* The earliest time that may still be recorded does not go back.
LEMMA LowestGrows ==
  ASSUME query \in Queries, query' = query, clock \in Nat, clock' \in {clock, clock + 1}
  PROVE  Lowest <= Lowest' /\ Lowest \in Nat /\ Lowest' \in Nat
<1> USE QueryIs
<1>1. /\ (clock \div Forwards) * Forwards <= (clock' \div Forwards) * Forwards
      /\ (clock \div Forwards) * Forwards \in Nat /\ (clock' \div Forwards) * Forwards \in Nat
  <2> DEFINE a == clock \div Forwards
             b == clock' \div Forwards
  <2>1. a \in Nat /\ b \in Nat /\ a <= b
    BY Z3
  <2> HIDE DEF a, b
  <2>2. \A x, y, z \in Nat : x <= y => x * z <= y * z /\ x * z \in Nat /\ y * z \in Nat
    BY Z3
  <2> QED BY <2>1, <2>2 DEF a, b
<1>2. /\ Minus(clock, query.lag) <= Minus(clock', query.lag)
      /\ Minus(clock, query.lag) \in Nat /\ Minus(clock', query.lag) \in Nat
  BY DEF Minus
<1>3. CASE query.kind = "pairs"
  BY <1>1, <1>3 DEF Lowest
<1>4. CASE query.kind \in {"probes", "routes"}
  BY <1>2, <1>4 DEF Lowest
<1>5. CASE query.kind \notin {"pairs", "probes", "routes"}
  BY <1>5 DEF Lowest
<1> QED BY <1>3, <1>4, <1>5

\* A table that does not change has grown too.
LEMMA SameGrown == ASSUME Typed, rows' = rows, NEW T PROVE Grown(T)
BY RowIs DEF Typed, Grown, Stored

\* Every step is one of the three, and what is known of the rows goes on.
LEMMA NextKinds ==
  ASSUME Typed, Horizons, [Next]_vars
  PROVE  /\ Grows \/ TurnsPage \/ Leaves
         /\ (clock \in 0..query.until)'
         /\ (begun # Idle => begun \in 0..clock /\ query.kind \in Snapshots)'
         /\ (\A i \in DOMAIN rows : rows[i].ts <= clock)'
<1>0. /\ query \in Queries /\ clock \in Nat /\ query.until \in Nat /\ clock <= query.until
      /\ begun # Idle => begun \in 0..clock /\ query.kind \in Snapshots
      /\ \A i \in DOMAIN rows : rows[i].ts <= clock /\ rows[i].ts \in Nat
      /\ Idle' = Idle
  BY RowIs, QueryIs DEF Typed, Idle
<1>1. Lowest \in Times /\ \A t \in Times : Lowest <= t /\ t \in Nat
  BY <1>0, TimesAre
<1>2. ASSUME UNCHANGED <<clock, rows, begun, query>>
      PROVE  /\ (clock \in 0..query.until)'
             /\ (begun # Idle => begun \in 0..clock /\ query.kind \in Snapshots)'
             /\ (\A i \in DOMAIN rows : rows[i].ts <= clock)'
  BY <1>0, <1>2
<1>3. CASE Tick
  <2>1. clock' = clock + 1 /\ UNCHANGED <<rows, begun, query, reader>> /\ clock < query.until
    BY <1>3 DEF Tick
  <2>2. Grows
    BY <1>0, <2>1, SameGrown DEF Grows
  <2>3. (\A i \in DOMAIN rows : rows[i].ts <= clock)'
    BY <1>0, <2>1
  <2> QED BY <1>0, <2>1, <2>2, <2>3
<1>4. CASE BeginCollect
  <2>1. /\ UNCHANGED <<clock, rows, query, reader>> /\ begun' = clock
        /\ query.kind \in Snapshots
    BY <1>4 DEF BeginCollect
  <2>2. Grows
    BY <1>0, <2>1, SameGrown DEF Grows
  <2> QED BY <1>0, <2>1, <2>2
<1>5. CASE Commit
  <2>1. /\ UNCHANGED <<clock, query, reader>> /\ begun' = Idle /\ begun # Idle
        /\ Grown({begun}) /\ begun \in 0..clock
    BY <1>5, CommitIs DEF Commit
  <2>2. begun \in Late
    BY <1>0, <2>1 DEF Horizons, Late
  <2>3. Grown(Late)
    BY <2>1, <2>2 DEF Grown
  <2>4. (\A i \in DOMAIN rows : rows[i].ts <= clock)'
    <3>1. \A i \in DOMAIN rows' : i \in DOMAIN rows \/ i \in Len(rows) + 1..Len(rows')
      BY <2>1 DEF Grown
    <3>2. \A i \in DOMAIN rows' : rows'[i].ts <= clock
      BY <1>0, <2>1, <3>1 DEF Grown
    <3> QED BY <2>1, <3>2
  <2> QED BY <1>0, <2>1, <2>3, <2>4 DEF Grows
<1>6. CASE Notify
  <2>1. UNCHANGED <<clock, begun, query, reader>> /\ Grown(Times) /\ Times \subseteq 0..clock
    BY <1>6, NotifyIs DEF Notify
  <2>2. Lowest \in Nat /\ \A t \in Times : t \in Late
    <3>1. Lowest \in Nat
      BY <1>1
    <3> QED BY <1>1, <3>1 DEF Horizons, Late, Typed, Reader
  <2>3. Grown(Late)
    BY <2>1, <2>2 DEF Grown
  <2>4. (\A i \in DOMAIN rows : rows[i].ts <= clock)'
    <3>1. \A i \in DOMAIN rows' : i \in DOMAIN rows \/ i \in Len(rows) + 1..Len(rows')
      BY <2>1 DEF Grown
    <3>2. \A t \in Times : t <= clock
      BY <2>1
    <3>3. \A i \in Len(rows) + 1..Len(rows') : rows'[i].ts <= clock
      <4>1. \A i \in Len(rows) + 1..Len(rows') : rows'[i].ts \in Times
        BY <2>1 DEF Grown
      <4> QED BY <3>2, <4>1
    <3>4. \A i \in DOMAIN rows : rows'[i].ts <= clock
      BY <1>0, <2>1 DEF Grown
    <3> QED BY <2>1, <3>1, <3>3, <3>4
  <2> QED BY <1>0, <2>1, <2>3, <2>4 DEF Grows
<1>7. CASE FirstPage
  <2>1. UNCHANGED <<clock, rows, begun, query>>
    BY <1>7 DEF FirstPage
  <2> DEFINE r(start, end) == [NoRead EXCEPT !.start = start, !.end = end, !.seen = Len(rows),
                                 !.horizon = Lesser(end + 1,
                                     IF begun = Idle THEN Earliest(Times) ELSE begun)]
  <2>2. PICK start \in 0..query.until :
          \E end \in IF query.open THEN start..clock \cap {clock} ELSE start..query.until :
             reader' = Turned(r(start, end))
    BY <1>7 DEF FirstPage
  <2>3. PICK end \in IF query.open THEN start..clock \cap {clock} ELSE start..query.until :
             reader' = Turned(r(start, end))
    BY <2>2
  <2>4. end \in Nat /\ (query.open => end = clock)
    BY <1>0, <2>3
  <2>5. Starts(r(start, end))
    BY <2>4, FirstIs
  <2> QED BY <1>2, <2>1, <2>3, <2>5 DEF TurnsPage, Turns
<1>8. CASE NextPage
  BY <1>2, <1>8 DEF NextPage, TurnsPage, Turns
<1>9. CASE Leave
  BY <1>2, <1>9 DEF Leave, Leaves
<1>10. CASE UNCHANGED vars
  <2>1. Grows
    BY <1>0, <1>10, SameGrown DEF vars, Grows
  <2> QED BY <1>2, <1>10, <2>1 DEF vars
<1> QED BY <1>3, <1>4, <1>5, <1>6, <1>7, <1>8, <1>9, <1>10 DEF Next

\* Every step keeps the types.
LEMMA NextTyped == Typed /\ Horizons /\ [Next]_vars => Typed'
<1> SUFFICES ASSUME Typed, Horizons, [Next]_vars PROVE Typed'
  OBVIOUS
<1>1. /\ (clock \in 0..query.until)'
      /\ (begun # Idle => begun \in 0..clock /\ query.kind \in Snapshots)'
      /\ (\A i \in DOMAIN rows : rows[i].ts <= clock)'
  BY NextKinds
<1>2. CASE Grows
  BY <1>1, <1>2, GrownReader DEF Grows, Typed
<1>3. CASE TurnsPage
  <2>1. PICK r : Turns(r) /\ reader' = Turned(r)
    BY <1>3 DEF TurnsPage
  <2>2. UNCHANGED <<clock, rows, begun, query>>
    BY <1>3 DEF TurnsPage
  <2>3. reader' \in Reader(Len(rows)) /\ Counted(reader') /\ reader'.phase # "new"
    BY <2>1, TurnsIs
  <2>4. (reader \in Reader(Len(rows)))' /\ Counted(reader)'
    BY <2>2, <2>3 DEF Reader, Item, Counted
  <2> QED BY <1>1, <2>2, <2>3, <2>4 DEF Typed, Stored
<1>4. CASE Leaves
  <2>1. UNCHANGED <<clock, rows, begun, query>> /\ reader' = NoRead /\ NoRead' = NoRead
    BY <1>4 DEF Leaves, NoRead
  <2>2. reader' \in Reader(Len(rows)) /\ Counted(reader')
    BY <2>1, NoReadIs, RowIs DEF Typed
  <2>3. (reader \in Reader(Len(rows)))' /\ Counted(reader)'
    BY <2>1, <2>2 DEF Reader, Item, Counted
  <2> QED BY <1>1, <2>1, <2>3 DEF Typed, Stored
<1> QED BY <1>2, <1>3, <1>4, NextKinds

\* Every step keeps the horizon: no writer can add to what lies before it.
LEMMA NextHorizons == Typed /\ Horizons /\ [Next]_vars => Horizons'
<1> SUFFICES ASSUME Typed, Horizons, [Next]_vars PROVE Horizons'
  OBVIOUS
<1>0. /\ query \in Queries /\ clock \in Nat /\ clock' \in {clock, clock + 1}
      /\ begun' = begun \/ begun' = clock \/ begun' = Idle
      /\ begun # Idle => begun \in Nat
      /\ query' = query /\ Idle' = Idle
  <2>1. query \in Queries /\ clock \in Nat /\ (begun # Idle => begun \in Nat)
    BY QueryIs DEF Typed
  <2>2. CASE Tick
    BY <2>1, <2>2 DEF Tick, Idle
  <2>3. CASE BeginCollect
    BY <2>1, <2>3 DEF BeginCollect, Idle
  <2>4. CASE Commit \/ Notify
    BY <2>1, <2>4 DEF Commit, Notify, Idle
  <2>5. CASE FirstPage \/ NextPage \/ Leave
    BY <2>1, <2>5 DEF FirstPage, NextPage, Leave, Idle
  <2>6. CASE UNCHANGED vars
    BY <2>1, <2>6 DEF vars, Idle
  <2> QED BY <2>2, <2>3, <2>4, <2>5, <2>6 DEF Next
<1>1. /\ Lowest <= Lowest' /\ Lowest \in Nat /\ Lowest' \in Nat /\ Lowest <= clock
      /\ \A n \in Nat : \A r \in Reader(n) :
            /\ r.seen \in Nat /\ r.horizon \in Nat /\ r.end \in Nat
  BY <1>0, LowestGrows, TimesAre DEF Reader
<1>2. CASE Grows
  <2>1. reader' = reader /\ Grown(Late) /\ reader \in Reader(Len(rows)) /\ Len(rows) \in Nat
    BY <1>2, RowIs DEF Grows, Typed
  <2> SUFFICES ASSUME reader.phase # "new" PROVE Horizons'
    BY <2>1 DEF Horizons
  <2>2. reader.horizon <= Lowest' /\ reader.horizon <= reader.end + 1
        /\ (begun' # Idle => reader.horizon <= begun')
    BY <1>0, <1>1, <2>1 DEF Horizons
  <2>3. ASSUME NEW i \in DOMAIN rows', reader.seen < i
        PROVE  reader.horizon <= rows'[i].ts
    <3>1. CASE i \in DOMAIN rows
      BY <2>1, <2>3, <3>1 DEF Grown, Horizons
    <3>2. CASE i \notin DOMAIN rows
      <4>1. i \in Len(rows) + 1..Len(rows')
        BY <2>1, <3>2 DEF Grown
      <4>2. rows'[i].ts \in Late
        BY <2>1, <4>1 DEF Grown
      <4> QED BY <4>2 DEF Late
    <3> QED BY <3>1, <3>2
  <2> QED BY <1>0, <2>1, <2>2, <2>3 DEF Horizons
<1>3. CASE TurnsPage
  <2>1. PICK r : Turns(r) /\ reader' = Turned(r)
    BY <1>3 DEF TurnsPage
  <2>2. UNCHANGED <<clock, rows, begun, query>> /\ Lowest' = Lowest
    BY <1>3 DEF TurnsPage, Lowest
  <2>3. /\ reader'.horizon = r.horizon /\ reader'.end = r.end /\ reader'.seen = r.seen
        /\ r \in Reader(Len(rows))
    BY <2>1, TurnsIs, TurnedIs DEF Typed
  <2>4. CASE Starts(r)
    <3>1. \A i \in DOMAIN rows : ~(r.seen < i)
      BY <2>4, RowIs DEF Starts, Typed
    <3> QED BY <1>0, <2>2, <2>3, <2>4, <3>1 DEF Starts, Horizons
  <2>5. CASE r = reader /\ reader.phase = "reading"
    BY <1>0, <2>2, <2>3, <2>5 DEF Horizons
  <2> QED BY <2>1, <2>4, <2>5 DEF Turns
<1>4. CASE Leaves
  BY <1>4 DEF Leaves, NoRead, Horizons
<1> QED BY <1>2, <1>3, <1>4, NextKinds

\* A state of this kind has the types that the runs check.
LEMMA TypedTypeOK == Typed => TypeOK
<1> SUFFICES ASSUME Typed PROVE TypeOK
  OBVIOUS
<1>1. /\ query \in Queries /\ clock \in 0..query.until /\ query.until \in 0..MaxTime
      /\ DOMAIN rows = 1..Len(rows) /\ MaxTime \in Nat
  BY QueryIs, RowIs DEF Typed
<1>2. clock \in 0..MaxTime
  BY <1>1
<1>3. begun \in 0..MaxTime \cup {Idle}
  <2>1. CASE begun = Idle
    BY <2>1
  <2>2. CASE begun # Idle
    <3>1. begun \in 0..clock
      BY <2>2 DEF Typed
    <3> QED BY <1>1, <3>1
  <2> QED BY <2>1, <2>2
<1>4. reader.got \in Seq(IF query.kind \in Groups THEN SUBSET DOMAIN rows ELSE DOMAIN rows)
  BY <1>1 DEF Typed, Reader, Item
<1> QED BY <1>1, <1>2, <1>3, <1>4 DEF Typed, Reader, Counted, Stored, TypeOK

\* The types of the table and of its reader, and how much its pages hold: at most
\* `limit', and exactly that while they say has_more.
THEOREM TypesOK == Spec => []TypeOK
<1>1. Init => Typed /\ Horizons
  BY InitTyped
<1>2. Typed /\ Horizons /\ [Next]_vars => Typed' /\ Horizons'
  BY NextTyped, NextHorizons
<1>3. Typed => TypeOK
  BY TypedTypeOK
<1> QED BY <1>1, <1>2, <1>3, PTL DEF Spec

(***************************************************************************)
(* Reading by id: the states of channels, events and probes.               *)
(***************************************************************************)

\* What is stored as soon as it is observed is stored in the order of its time.
\* So are the states of channels, which no notification records.
Prompt ==
  \/ query.kind \in {"channels", "htlcs"}
  \/ query.kind \in {"events", "probes"} /\ query.lag = 0

Sorted ==
  Prompt =>
    /\ \A i, j \in DOMAIN rows : i < j => rows[i].ts <= rows[j].ts
    /\ begun # Idle => /\ \A i \in DOMAIN rows : rows[i].ts <= begun
                       /\ query.kind = "events" => begun = clock

\* Rows that are as late as any other keep the order.
LEMMA GrownSorted ==
  ASSUME Stored, NEW t \in Nat, Grown({t}), \A i \in DOMAIN rows : rows[i].ts <= t,
         \A i, j \in DOMAIN rows : i < j => rows[i].ts <= rows[j].ts
  PROVE  /\ \A i, j \in DOMAIN rows' : i < j => rows'[i].ts <= rows'[j].ts
         /\ \A i \in DOMAIN rows' : rows'[i].ts <= t
<1>1. \A i \in DOMAIN rows' : i \in DOMAIN rows \/ i \in Len(rows) + 1..Len(rows')
  BY DEF Grown
<1>2. /\ \A i \in DOMAIN rows : rows'[i] = rows[i] /\ i <= Len(rows) /\ i \in Nat
      /\ \A i \in Len(rows) + 1..Len(rows') : rows'[i].ts = t /\ i > Len(rows) /\ i \in Nat
      /\ Len(rows) \in Nat
  BY DEF Grown
<1>3. \A i \in DOMAIN rows' : rows'[i].ts <= t
  BY <1>1, <1>2
<1>4. ASSUME NEW i \in DOMAIN rows', NEW j \in DOMAIN rows', i < j
      PROVE  rows'[i].ts <= rows'[j].ts
  <2>1. CASE j \in DOMAIN rows
    <3>1. i \in DOMAIN rows
      BY <1>1, <1>2, <1>4, <2>1
    <3> QED BY <1>2, <1>4, <2>1, <3>1
  <2>2. CASE j \notin DOMAIN rows
    <3>1. rows'[j].ts = t
      BY <1>1, <1>2, <2>2
    <3> QED BY <1>3, <3>1
  <2> QED BY <2>1, <2>2
<1> QED BY <1>3, <1>4

\* Every step keeps them sorted.
LEMMA NextSorted == Typed /\ Sorted /\ [Next]_vars => Sorted'
<1> SUFFICES ASSUME Typed, Sorted, [Next]_vars, Prompt' PROVE Sorted'
  BY DEF Sorted
<1>0. query' = query
  BY DEF Next, Tick, BeginCollect, Commit, Notify, FirstPage, NextPage, Leave, vars
<1>1. Prompt
  BY <1>0 DEF Prompt
<1>2. /\ query \in Queries /\ clock \in Nat /\ Idle' = Idle /\ Idle \notin 0..clock
      /\ begun # Idle => begun \in 0..clock
      /\ Stored /\ query.lag \in Nat
      /\ \A i \in DOMAIN rows : rows[i].ts <= clock /\ rows[i].ts \in Nat
      /\ \A i, j \in DOMAIN rows : i < j => rows[i].ts <= rows[j].ts
  BY <1>1, RowIs, QueryIs DEF Typed, Idle, Sorted
<1>3. CASE Tick
  <2>1. query.kind = "events" => begun = Idle
    BY <1>1, <1>2, <1>3 DEF Tick, Sorted, Prompt
  <2> QED BY <1>0, <1>1, <1>2, <1>3, <2>1 DEF Tick, Sorted
<1>4. CASE BeginCollect
  BY <1>2, <1>4 DEF BeginCollect, Sorted
<1>5. CASE Commit
  <2>1. Grown({begun}) /\ begun \in 0..clock /\ begun' = Idle
    BY <1>5, CommitIs DEF Commit
  <2>2. begun # Idle /\ begun \in Nat
    BY <1>5, <2>1 DEF Commit
  <2>3. \A i \in DOMAIN rows : rows[i].ts <= begun
    BY <1>1, <2>2 DEF Sorted
  <2>4. \A i, j \in DOMAIN rows' : i < j => rows'[i].ts <= rows'[j].ts
    BY <1>2, <2>1, <2>2, <2>3, GrownSorted
  <2> QED BY <1>2, <2>1, <2>4 DEF Sorted
<1>6. CASE Notify
  <2>1. UNCHANGED <<clock, begun, query>> /\ Grown(Times)
        /\ query.kind \in {"events", "probes"} /\ query.lag = 0
    BY <1>1, <1>6, NotifyIs DEF Notify, Prompt
  <2>2. Times = {clock}
    BY <1>2, <2>1 DEF Times, Minus
  <2>3. Grown({clock})
    BY <2>1, <2>2
  <2>4. /\ \A i, j \in DOMAIN rows' : i < j => rows'[i].ts <= rows'[j].ts
        /\ \A i \in DOMAIN rows' : rows'[i].ts <= clock
    BY <1>2, <2>3, GrownSorted
  <2>5. begun # Idle => begun = clock
    BY <1>1, <2>1 DEF Sorted, Typed, Snapshots
  <2> QED BY <1>2, <2>1, <2>4, <2>5 DEF Sorted
<1>7. CASE FirstPage \/ NextPage \/ Leave
  BY <1>1, <1>2, <1>7 DEF FirstPage, NextPage, Leave, Sorted
<1>8. CASE UNCHANGED vars
  BY <1>1, <1>2, <1>8 DEF vars, Sorted
<1> QED BY <1>3, <1>4, <1>5, <1>6, <1>7, <1>8 DEF Next

\* A page P of the least of the ids that L lists, up to its last one.
IsLeast(S, limit, L, P) ==
  /\ P \in Seq(S) /\ Len(L) \in Nat
  /\ \A i, j \in 1..Len(P) : i < j => P[i] < P[j]
  /\ Len(L) > limit => /\ Len(P) \in 1..Len(P)
                       /\ \A i \in 1..Len(P) : P[i] <= P[Len(P)]
                       /\ \A x \in S : x <= P[Len(P)] => \E i \in 1..Len(P) : P[i] = x
  /\ ~(Len(L) > limit) => \A x \in S : \E i \in 1..Len(P) : P[i] = x
  /\ \A x \in S : Cardinality({y \in S : y < x}) < limit => \E i \in 1..Len(P) : P[i] = x

\* Which is what is cut from the list.
LEMMA LeastPage ==
  ASSUME NEW S \in SUBSET Nat, IsFiniteSet(S), NEW limit \in Nat \ {0},
         NEW L, L = Listed(S, Ascending(S)), NEW P, P = Cut(L, limit)
  PROVE  IsLeast(S, limit, L, P)
<1> DEFINE R == Ascending(S)
           c == Cardinality(S)
<1>1. Orders(R, S) /\ \A x, y \in S : <<x, y>> \in R <=> x < y
  BY AscendingOrders
<1> HIDE DEF R
<1>2. c \in Nat /\ L \in Seq(S) /\ Len(L) = c /\ Lists(L, S, R)
  BY <1>1, ListedSeq, ListedLists DEF R
<1>3. /\ P \in Seq(S) /\ Len(P) \in Nat /\ Len(P) = IF c > limit THEN limit ELSE c
      /\ \A i \in 1..Len(P) : P[i] = L[i] /\ P[i] \in S /\ P[i] \in Nat /\ i \in 1..c
  <2>1. /\ P \in Seq(S) /\ Len(P) = IF c > limit THEN limit ELSE c
        /\ \A i \in 1..Len(P) : P[i] = L[i]
    BY <1>2, CutIs
  <2> HIDE DEF c
  <2>2. Len(P) \in Nat /\ \A i \in 1..Len(P) : P[i] \in S
    BY <2>1
  <2>3. \A i \in 1..Len(P) : i \in 1..c
    BY <1>2, <2>1
  <2> QED BY <2>1, <2>2, <2>3
<1>4. DOMAIN L = 1..c /\ \A i \in 1..c : L[i] \in S /\ Rank(S, R, L[i]) = i - 1
  BY <1>2 DEF Lists
<1>5. \A i, j \in 1..c : L[i] < L[j] <=> i < j
  <2>1. \A i, j \in DOMAIN L : <<L[i], L[j]>> \in R <=> i < j
    BY <1>1, <1>2, ListsAll
  <2> QED BY <1>1, <1>4, <2>1
<1>6. \A x \in S : \E n \in 1..c : L[n] = x
  BY <1>1, <1>2, <1>4, ListsAll
<1> HIDE DEF c
<1>7. \A i, j \in 1..Len(P) : i < j => P[i] < P[j]
  BY <1>3, <1>5
<1>8. ASSUME Len(L) > limit
      PROVE  /\ Len(P) \in 1..Len(P)
             /\ \A i \in 1..Len(P) : P[i] <= P[Len(P)]
             /\ \A x \in S : x <= P[Len(P)] => \E i \in 1..Len(P) : P[i] = x
  <2>1. Len(P) = limit /\ Len(P) \in 1..Len(P) /\ Len(P) \in 1..c
    BY <1>2, <1>3, <1>8
  <2>2. \A i \in 1..Len(P) : P[i] <= P[Len(P)]
    <3> TAKE i \in 1..Len(P)
    <3>1. CASE i = Len(P)
      BY <1>3, <3>1
    <3>2. CASE i < Len(P)
      BY <1>3, <1>7, <2>1, <3>2
    <3> QED BY <1>3, <3>1, <3>2
  <2>3. ASSUME NEW x \in S, x <= P[Len(P)] PROVE \E i \in 1..Len(P) : P[i] = x
    <3>1. PICK n \in 1..c : L[n] = x
      BY <1>6
    <3>2. ~(Len(P) < n)
      <4>1. P[Len(P)] = L[Len(P)] /\ P[Len(P)] \in Nat /\ x \in Nat
        BY <1>3, <2>1
      <4>2. Len(P) < n => L[Len(P)] < L[n]
        BY <1>5, <2>1
      <4> QED BY <2>3, <3>1, <4>1, <4>2
    <3>3. n \in 1..Len(P)
      BY <1>2, <1>3, <3>2
    <3> QED BY <1>3, <3>1, <3>3
  <2> QED BY <2>1, <2>2, <2>3
<1>9. ASSUME ~(Len(L) > limit) PROVE \A x \in S : \E i \in 1..Len(P) : P[i] = x
  <2>1. Len(P) = c
    BY <1>2, <1>3, <1>9
  <2> QED BY <1>3, <1>6, <2>1
<1>10. ASSUME NEW x \in S, Cardinality({y \in S : y < x}) < limit
       PROVE  \E i \in 1..Len(P) : P[i] = x
  <2>1. Cardinality({y \in S : y < x}) = Rank(S, R, x)
    BY <1>1 DEF Rank
  <2>2. PICK n \in 1..c : L[n] = x
    BY <1>6
  <2>3. n - 1 < limit
    BY <1>4, <1>10, <2>1, <2>2
  <2>4. n \in 1..Len(P)
    BY <1>2, <1>3, <2>3
  <2> QED BY <1>3, <2>2, <2>4
<1> QED BY <1>2, <1>3, <1>7, <1>8, <1>9, <1>10 DEF IsLeast

\* What a page has that is read by id.
Ids(r) ==
  IF query.kind \in {"channels", "htlcs"} THEN Samples(query, r.start, Upto(r), r.cursor)
                                          ELSE Beyond(Within(r.start, Upto(r)), r.cursor)

\* It lists the rows by their ids, although cln-history-events and
\* cln-history-probes order them by their times.
LEMMA IdsAre ==
  ASSUME Typed, Sorted, Prompt, NEW r
  PROVE  /\ Ids(r) \in SUBSET DOMAIN rows /\ Ids(r) \in SUBSET Nat /\ IsFiniteSet(Ids(r))
         /\ PageOf(r) = Listed(Ids(r), Ascending(Ids(r)))
<1> DEFINE e == Upto(r)
<1>0. Stored /\ query \in Queries /\ DOMAIN rows \subseteq Nat
      /\ \A i \in DOMAIN rows : rows[i].ts \in Nat
  BY RowIs DEF Typed
<1>1. CASE query.kind \in {"channels", "htlcs"}
  <2> DEFINE S == Samples(query, r.start, e, r.cursor)
  <2>1. PageOf(r) = SampleResult(query, r.start, e, r.cursor) /\ Ids(r) = S
    BY <1>1 DEF PageOf, Result, Ids
  <2>2. S \in SUBSET DOMAIN rows /\ IsFiniteSet(S)
    BY <1>0, SamplesAre
  <2>3. SampleResult(query, r.start, e, r.cursor) = Listed(S, Ascending(S))
    BY <1>0, SampleIs
  <2> HIDE DEF S, e
  <2> QED BY <1>0, <2>1, <2>2, <2>3
<1>2. CASE query.kind \notin {"channels", "htlcs"}
  <2> DEFINE S == Beyond(Within(r.start, e), r.cursor)
  <2>0. query.kind \in {"events", "probes"}
    BY <1>2 DEF Prompt
  <2>1. PageOf(r) = EventResult(r.start, e, r.cursor) /\ Ids(r) = S
    BY <2>0 DEF PageOf, Result, Ids
  <2>2. /\ S \in SUBSET DOMAIN rows /\ IsFiniteSet(S)
        /\ EventResult(r.start, e, r.cursor) = Listed(S, ByTime(S))
    BY <1>0, EventIs
  <2> HIDE DEF S, e
  <2>3. ByTime(S) = Ascending(S)
    <3>1. ASSUME NEW i \in S, NEW j \in S
          PROVE  (\/ rows[i].ts < rows[j].ts
                  \/ rows[i].ts = rows[j].ts /\ i < j) <=> i < j
      <4>1. i \in DOMAIN rows /\ j \in DOMAIN rows /\ i \in Nat /\ j \in Nat
            /\ rows[i].ts \in Nat /\ rows[j].ts \in Nat
        BY <1>0, <2>2
      <4>2. (i < j => rows[i].ts <= rows[j].ts) /\ (j < i => rows[j].ts <= rows[i].ts)
        BY <4>1 DEF Sorted
      <4> QED BY <4>1, <4>2
    <3>2. \A x \in S \X S : (\/ rows[x[1]].ts < rows[x[2]].ts
                             \/ rows[x[1]].ts = rows[x[2]].ts /\ x[1] < x[2]) <=> x[1] < x[2]
      BY <3>1
    <3> QED BY <3>2 DEF ByTime, Ascending
  <2> QED BY <1>0, <2>1, <2>2, <2>3
<1> QED BY <1>1, <1>2

\* What a reader has, and that it rises: every page goes on above the last one.
Has(r) == {r.got[n] : n \in DOMAIN r.got}
Rising(r) ==
  Prompt =>
    /\ \A i, j \in DOMAIN r.got : i < j => r.got[i] < r.got[j]
    /\ r.phase = "reading" => r.cursor > 0 /\ \A x \in Has(r) : x <= r.cursor

\* A page is added to what there is.
LEMMA TurnedGot ==
  ASSUME Typed, NEW r, Turns(r)
  PROVE  LET t == Turned(r)
             m == Len(r.got)
         IN  /\ m \in Nat /\ DOMAIN r.got = 1..m /\ Len(Page(r)) \in Nat
             /\ Len(t.got) = m + Len(Page(r)) /\ DOMAIN t.got = 1..m + Len(Page(r))
             /\ \A i \in 1..m : t.got[i] = r.got[i]
             /\ \A i \in 1..Len(Page(r)) : t.got[m + i] = Page(r)[i]
             /\ \A i \in DOMAIN t.got : i \in 1..m \/ i - m \in 1..Len(Page(r))
             /\ Has(t) = Has(r) \cup {Page(r)[i] : i \in 1..Len(Page(r))}
<1> DEFINE t == Turned(r)
           m == Len(r.got)
           P == Page(r)
           I == Item(Len(rows))
           old == r.got
           new == t.got
<1>1. old \in Seq(I) /\ P \in Seq(I) /\ new = old \o P
  <2>1. Stored /\ query \in Queries /\ r \in Reader(Len(rows))
    BY TurnsIs DEF Typed
  <2>2. r.cursor \in Nat /\ r.got \in Seq(Item(Len(rows)))
    BY <2>1, RowIs DEF Reader
  <2> QED BY <2>1, <2>2, PageIs, TurnedIs
<1> HIDE DEF P, I, new, old
<1>2. /\ Len(old) \in Nat /\ Len(P) \in Nat /\ DOMAIN old = 1..Len(old)
      /\ Len(new) = Len(old) + Len(P) /\ new \in Seq(I)
      /\ \A i \in 1..Len(old) + Len(P) :
            new[i] = IF i <= Len(old) THEN old[i] ELSE P[i - Len(old)]
  BY <1>1, ConcatProperties
<1>3. DOMAIN new = 1..Len(old) + Len(P)
  BY <1>2
<1>4. \A i \in 1..Len(old) : new[i] = old[i]
  BY <1>2
<1>5. \A i \in 1..Len(P) : new[Len(old) + i] = P[i]
  <2> TAKE i \in 1..Len(P)
  <2>1. Len(old) + i \in 1..Len(old) + Len(P) /\ ~(Len(old) + i <= Len(old))
        /\ Len(old) + i - Len(old) = i
    BY <1>2
  <2> QED BY <1>2, <2>1
<1>6. \A i \in DOMAIN new : i \in 1..Len(old) \/ i - Len(old) \in 1..Len(P)
  BY <1>2, <1>3
<1>7. {new[i] : i \in DOMAIN new} = {old[i] : i \in DOMAIN old} \cup {P[i] : i \in 1..Len(P)}
  <2>1. ASSUME NEW i \in DOMAIN new
        PROVE  new[i] \in {old[j] : j \in DOMAIN old} \cup {P[j] : j \in 1..Len(P)}
    <3>1. CASE i \in 1..Len(old)
      BY <1>2, <1>4, <3>1
    <3>2. CASE i - Len(old) \in 1..Len(P)
      <4>1. Len(old) + (i - Len(old)) = i
        BY <1>2, <1>3, <2>1
      <4>2. new[i] = P[i - Len(old)]
        BY <1>5, <3>2, <4>1
      <4> QED BY <3>2, <4>2
    <3> QED BY <1>6, <2>1, <3>1, <3>2
  <2>2. \A j \in DOMAIN old : j \in DOMAIN new /\ new[j] = old[j]
    BY <1>2, <1>3, <1>4
  <2>3. \A j \in 1..Len(P) : Len(old) + j \in DOMAIN new /\ new[Len(old) + j] = P[j]
    BY <1>2, <1>3, <1>5
  <2> QED BY <2>1, <2>2, <2>3
<1> QED BY <1>2, <1>3, <1>4, <1>5, <1>6, <1>7 DEF Has, P, old, new

\* Every page by id goes on above the cursor, and lists everything up to the next one.
LEMMA IdTurn ==
  ASSUME Typed, Sorted, Prompt, NEW r, Turns(r), Rising(r)
  PROVE  LET t == Turned(r)
         IN  /\ Rising(t) /\ Has(r) \subseteq Has(t)
             /\ \A x \in Has(t) : x \in Has(r) \/ x \in Ids(r)
             /\ \A x \in Ids(r) : t.phase = "done" \/ x <= t.cursor => x \in Has(t)
             /\ \A x \in Ids(r) : Cardinality({y \in Ids(r) : y < x}) < query.limit
                                    => x \in Has(t)
             /\ t.phase = "reading" => r.cursor < t.cursor
<1> DEFINE t == Turned(r)
           S == Ids(r)
           P == Page(r)
           m == Len(r.got)
<1>0. /\ Stored /\ query \in Queries /\ r \in Reader(Len(rows)) /\ r.phase \in {"new", "reading"}
      /\ r.phase = "new" => r.got = <<>> /\ r.cursor = 0
      /\ query.limit \in Nat \ {0} /\ query.kind \notin Groups
      /\ r.cursor \in Nat
  <2>1. /\ Stored /\ query \in Queries /\ r \in Reader(Len(rows)) /\ Len(rows) \in Nat
        /\ r.phase \in {"new", "reading"} /\ (r.phase = "new" => r.got = <<>> /\ r.cursor = 0)
    BY TurnsIs, RowIs DEF Typed
  <2>2. r.cursor \in Nat
    BY <2>1 DEF Reader
  <2>3. query.limit \in Nat \ {0} /\ query.kind \notin Groups
    BY <2>1, QueryIs DEF Prompt, Groups
  <2> QED BY <2>1, <2>2, <2>3
<1>1. S \in SUBSET DOMAIN rows /\ S \in SUBSET Nat /\ IsFiniteSet(S)
      /\ PageOf(r) = Listed(S, Ascending(S)) /\ P = Cut(PageOf(r), query.limit)
  BY IdsAre DEF Page
<1>2. \A x \in S : r.cursor < x
  <2>1. CASE r.phase = "new"
    BY <1>0, <1>1, <2>1, RowIs
  <2>2. CASE r.phase = "reading"
    <3>1. Baselines(r.start, r.cursor) = {}
      BY <1>0, <2>2 DEF Rising, Baselines
    <3>2. Samples(query, r.start, Upto(r), r.cursor) \subseteq
            Kept(query, r.start, Upto(r), r.cursor)
      BY <1>0, <3>1, SamplesAre DEF Samples
    <3>3. S \subseteq Beyond(Within(r.start, Upto(r)), r.cursor)
      BY <3>2 DEF Ids, Kept
    <3> QED BY <1>1, <3>3 DEF Beyond
  <2> QED BY <1>0, <2>1, <2>2
<1>3. /\ P \in Seq(S) /\ Len(PageOf(r)) \in Nat
      /\ \A i, j \in 1..Len(P) : i < j => P[i] < P[j]
      /\ More(r) => /\ Len(P) \in 1..Len(P)
                    /\ \A i \in 1..Len(P) : P[i] <= P[Len(P)]
                    /\ \A x \in S : x <= P[Len(P)] => \E i \in 1..Len(P) : P[i] = x
      /\ ~More(r) => \A x \in S : \E i \in 1..Len(P) : P[i] = x
      /\ \A x \in S : Cardinality({y \in S : y < x}) < query.limit =>
                        \E i \in 1..Len(P) : P[i] = x
  <2> DEFINE k == query.limit
             L == PageOf(r)
  <2>1. k \in Nat \ {0} /\ L = Listed(S, Ascending(S)) /\ P = Cut(L, k)
        /\ (More(r) <=> Len(L) > k)
    BY <1>0, <1>1 DEF More
  <2> HIDE DEF S, P, k, L
  <2>2. IsLeast(S, k, L, P)
    BY <1>1, <2>1, LeastPage
  <2> QED BY <2>1, <2>2 DEF IsLeast, k, L
<1>4. /\ t.phase = IF More(r) THEN "reading" ELSE "done"
      /\ t.cursor = IF ~More(r) THEN r.cursor ELSE P[Len(P)]
  BY <1>0, TurnedIs
<1>5. /\ m \in Nat /\ DOMAIN r.got = 1..m /\ Len(P) \in Nat
      /\ DOMAIN t.got = 1..m + Len(P)
      /\ \A i \in 1..m : t.got[i] = r.got[i]
      /\ \A i \in 1..Len(P) : t.got[m + i] = P[i]
      /\ \A i \in DOMAIN t.got : i \in 1..m \/ i - m \in 1..Len(P)
      /\ Has(t) = Has(r) \cup {P[i] : i \in 1..Len(P)}
  BY TurnedGot
<1>6. \A i \in 1..Len(P) : P[i] \in S
  BY <1>3, <1>5
<1>7. \A i \in 1..m : r.got[i] <= r.cursor /\ r.got[i] \in Nat
  <2>1. CASE r.phase = "new"
    <3>1. m = 0
      BY <1>0, <2>1, EmptySeq
    <3> QED BY <3>1
  <2>2. CASE r.phase = "reading"
    <3>1. r.got \in Seq(1..Len(rows)) /\ Len(rows) \in Nat
      BY <1>0, RowIs DEF Reader, Item
    <3>2. \A i \in 1..m : r.got[i] \in Nat
      BY <1>5, <3>1
    <3> QED BY <1>5, <2>2, <3>2 DEF Rising, Has
  <2> QED BY <1>0, <2>1, <2>2
<1> HIDE DEF t, S, P, m
<1>8. \A i, j \in DOMAIN t.got : i < j => t.got[i] < t.got[j]
  <2> TAKE i, j \in DOMAIN t.got
  <2>1. CASE j \in 1..m
    <3>1. i < j => i \in 1..m
      BY <1>5, <2>1
    <3> QED BY <1>5, <2>1, <3>1 DEF Rising
  <2>2. CASE j - m \in 1..Len(P) /\ i \in 1..m
    <3>1. t.got[j] = P[j - m] /\ P[j - m] \in S
      <4>1. m + (j - m) = j
        BY <1>5, <2>2
      <4> QED BY <1>5, <1>6, <2>2, <4>1
    <3>2. r.cursor < t.got[j] /\ t.got[j] \in Nat /\ t.got[i] = r.got[i] /\ r.got[i] \in Nat
      BY <1>1, <1>2, <1>5, <1>7, <2>2, <3>1
    <3> QED BY <1>0, <1>7, <2>2, <3>2
  <2>3. CASE j - m \in 1..Len(P) /\ i - m \in 1..Len(P)
    <3>1. m + (j - m) = j /\ m + (i - m) = i /\ (i < j => i - m < j - m)
      BY <1>5, <2>3
    <3>2. t.got[j] = P[j - m] /\ t.got[i] = P[i - m]
      BY <1>5, <2>3, <3>1
    <3> QED BY <1>3, <2>3, <3>1, <3>2
  <2> QED BY <1>5, <2>1, <2>2, <2>3
<1>9. ASSUME More(r)
      PROVE  r.cursor < t.cursor /\ t.cursor \in Nat /\ \A x \in Has(t) : x <= t.cursor
  <2>1. t.cursor \in S /\ t.cursor \in Nat
    BY <1>1, <1>3, <1>4, <1>6, <1>9
  <2>2. \A x \in Has(r) : x <= r.cursor /\ x \in Nat
    BY <1>5, <1>7 DEF Has
  <2>3. \A i \in 1..Len(P) : P[i] <= t.cursor
    BY <1>3, <1>4, <1>9
  <2>4. r.cursor < t.cursor
    BY <1>2, <2>1
  <2> QED BY <1>0, <1>5, <2>1, <2>2, <2>3, <2>4
<1>10. Rising(t)
  BY <1>0, <1>4, <1>8, <1>9 DEF Rising
<1>11. \A x \in Has(t) : x \in Has(r) \/ x \in S
  BY <1>5, <1>6
<1>12. \A x \in S : t.phase = "done" \/ x <= t.cursor => x \in Has(t)
  <2> TAKE x \in S
  <2>1. CASE More(r)
    BY <1>3, <1>4, <1>5, <2>1
  <2>2. CASE ~More(r)
    BY <1>3, <1>5, <2>2
  <2> QED BY <2>1, <2>2
<1>13. \A x \in S : Cardinality({y \in S : y < x}) < query.limit => x \in Has(t)
  BY <1>3, <1>5
<1>14. t.phase = "reading" => r.cursor < t.cursor
  BY <1>4, <1>9
<1> QED BY <1>5, <1>10, <1>11, <1>12, <1>13, <1>14 DEF t, S

\* What rises has nothing twice.
LEMMA RisingOnce ==
  ASSUME Typed, Prompt, Rising(reader)
  PROVE  NoRepeats
<1> DEFINE g == reader.got
           m == Len(g)
           D == 1..m
           W == Has(reader)
<1>1. reader \in Reader(Len(rows)) /\ query.kind \notin Groups /\ Len(rows) \in Nat
  BY RowIs DEF Typed, Prompt, Groups
<1>2. g \in Seq(1..Len(rows)) /\ m \in Nat /\ DOMAIN g = D /\ \A i \in D : g[i] \in Nat
  <2>1. g \in Seq(1..Len(rows))
    BY <1>1 DEF Reader, Item
  <2> QED BY <1>1, <2>1
<1>3. \A i, j \in D : i < j => g[i] < g[j]
  BY <1>2 DEF Rising
<1>4. \A i, j \in D : i # j => g[i] # g[j]
  BY <1>2, <1>3
<1>5. W = {g[i] : i \in D} /\ g \in [D -> W]
  <2>1. W = {g[i] : i \in D}
    BY <1>2 DEF Has
  <2>2. g = [i \in D |-> g[i]]
    BY <1>2
  <2> HIDE DEF g, W, D
  <2> QED BY <2>1, <2>2
<1>6. IsFiniteSet(D) /\ Cardinality(D) = m
  BY <1>2, FS_Interval
<1> HIDE DEF g, W, D
<1>7. g \in Bijection(D, W)
  BY <1>4, <1>5 DEF Bijection, Injection, IsInjective, Surjection
<1>8. Cardinality(W) = Cardinality(D)
  BY <1>6, <1>7, FS_Bijection DEF ExistsBijection
<1> QED BY <1>6, <1>8 DEF NoRepeats, Got, Has, W, g

\* Reads that show every row of their range, from ranges that are not over yet.
Plain ==
  Prompt /\ (query.kind \in {"events", "probes"} \/ (query.kind = "channels" /\ query.interval = 0))
Ends(r) == query.open /\ r.phase # "new" => r.end <= clock

\* The rows of channel k before the range, as of the first request.
Earlier(r, k) == {i \in 1..r.seen : rows[i].key = k /\ rows[i].ts < r.start}

\* Up to its cursor a reader has every row of its range, and in the end all that
\* there were at its first request; and, if a page has room for a row of every
\* channel, the states that the channels entered the range with.
Through(r) ==
  Plain =>
    /\ r.phase # "done" => \A i \in Within(r.start, r.end) : i <= r.cursor => i \in Has(r)
    /\ r.phase = "done" => \A i \in Within(r.start, r.end) : i <= r.seen => i \in Has(r)
    /\ r.phase # "new" /\ query.kind = "channels" /\ Cardinality(Keys) <= query.limit =>
         \A k \in Keys : Earlier(r, k) # {} => Latest(Earlier(r, k)) \in Has(r)

\* The baselines are the least that the first page is cut from, so none is cut off.
LEMMA BaselinesFirst ==
  ASSUME Typed, Sorted, NEW r, Starts(r), query.kind = "channels",
         Cardinality(Keys) <= query.limit, NEW k \in Keys, Earlier(r, k) # {}
  PROVE  LET b == Latest(Earlier(r, k))
         IN  /\ b \in Ids(r) /\ Cardinality({y \in Ids(r) : y < b}) < query.limit
<1> DEFINE Before(c) == {i \in DOMAIN rows : rows[i].key = c /\ rows[i].ts < r.start}
           b == Latest(Earlier(r, k))
           B == Baselines(r.start, r.cursor)
           C == {c \in Keys : Before(c) # {}}
           S == Ids(r)
<1>0. /\ Stored /\ query \in Queries /\ Len(rows) \in Nat /\ DOMAIN rows = 1..Len(rows)
      /\ \A i \in DOMAIN rows : rows[i].ts \in Nat
      /\ r.cursor = 0 /\ r.seen = Len(rows) /\ Prompt
      /\ query.limit \in Nat /\ r.start \in Nat
  BY RowIs, QueryIs DEF Typed, Starts, Prompt, Reader
<1>1. Earlier(r, k) = Before(k) /\ B = {Latest(Before(c)) : c \in C}
  BY <1>0 DEF Earlier, Baselines
<1>2. b \in B
  BY <1>1
<1>3. S = Samples(query, r.start, Upto(r), r.cursor) /\ S \in SUBSET DOMAIN rows
  BY <1>0, IdsAre DEF Ids
<1>4. B \subseteq S
  BY <1>3 DEF Samples
<1>5. \A y \in S : y \in B \/ rows[y].ts >= r.start
  <2>1. S \subseteq Kept(query, r.start, Upto(r), r.cursor) \cup B
    BY <1>0, <1>3, SamplesAre DEF Samples
  <2>2. \A y \in Kept(query, r.start, Upto(r), r.cursor) : rows[y].ts \in r.start..Upto(r)
    BY DEF Kept, Beyond, Within
  <2>3. Upto(r) \in Nat
    BY <1>0, QueryIs DEF Upto, Starts, Reader, Typed
  <2>4. \A n \in r.start..Upto(r) : n >= r.start
    BY <1>0, <2>3
  <2> QED BY <2>1, <2>2, <2>4
<1>6. \A y \in B : y \in DOMAIN rows /\ rows[y].ts < r.start
  BY <1>0, SamplesAre
<1>7. {y \in S : y < b} \subseteq B \ {b}
  <2> SUFFICES ASSUME NEW y \in S, y < b PROVE y \in B \ {b}
    OBVIOUS
  <2>1. y \in DOMAIN rows /\ b \in DOMAIN rows
    BY <1>2, <1>3, <1>6
  <2>2. rows[y].ts <= rows[b].ts
    BY <1>0, <2>1 DEF Sorted
  <2>3. y \in B
    <3>1. ~(rows[y].ts >= r.start)
      BY <1>0, <1>2, <1>6, <2>1, <2>2
    <3> QED BY <1>5, <2>1, <3>1
  <2>4. y # b
    BY <1>0, <2>1
  <2> QED BY <2>3, <2>4
<1>8. IsFiniteSet(B) /\ Cardinality(B) <= Cardinality(Keys) /\ Cardinality(Keys) \in Nat
  <2>1. IsFiniteSet(C) /\ Cardinality(C) <= Cardinality(Keys) /\ Cardinality(Keys) \in Nat
    <3>1. C \in SUBSET Keys
      OBVIOUS
    <3> HIDE DEF C
    <3> QED BY <3>1, QueriesAssumption, FS_Subset, FS_CardinalityType
  <2> DEFINE f == [c \in C |-> Latest(Before(c))]
  <2>2. f \in Surjection(C, B)
    <3> HIDE DEF B, C, Before
    <3> QED BY <1>1 DEF Surjection
  <2>3. IsFiniteSet(B) /\ Cardinality(B) <= Cardinality(C)
    <3> HIDE DEF f, B, C
    <3> QED BY <2>1, <2>2, FS_Surjection
  <2>4. Cardinality(B) \in Nat /\ Cardinality(C) \in Nat
    BY <2>1, <2>3, FS_CardinalityType
  <2> QED BY <2>1, <2>3, <2>4
<1> HIDE DEF B, S, b
<1> DEFINE T == {y \in S : y < b}
<1>9. Cardinality(T) < Cardinality(B) /\ Cardinality(B) \in Nat /\ Cardinality(T) \in Nat
  <2>1. T \subseteq B /\ T # B
    BY <1>2, <1>7
  <2> HIDE DEF T
  <2>2. Cardinality(T) <= Cardinality(B) /\ Cardinality(T) # Cardinality(B) /\ IsFiniteSet(T)
    BY <1>8, <2>1, FS_Subset
  <2> QED BY <1>8, <2>2, FS_CardinalityType
<1>10. Cardinality(T) < query.limit
  <2> HIDE DEF T
  <2> QED BY <1>0, <1>8, <1>9
<1> QED BY <1>2, <1>4, <1>10 DEF S, b

\* What is known of a reader by id.
Reading(r) == Rising(r) /\ Ends(r) /\ Through(r)

\* A reader that has got no page yet has nothing to show.
LEMMA ReadingStarts ==
  ASSUME Stored, NEW r, r.phase = "new", r.got = <<>>, r.cursor = 0
  PROVE  Reading(r)
<1>1. DOMAIN r.got = {}
  <2>1. r.got \in Seq({}) /\ Len(r.got) = 0
    BY EmptySeq
  <2>2. DOMAIN r.got = 1..0
    BY <2>1
  <2> QED BY <2>2
<1>2. \A i \in Within(r.start, r.end) : ~(i <= r.cursor)
  BY RowIs DEF Within
<1> QED BY <1>1, <1>2 DEF Reading, Rising, Ends, Through

\* A page shows what it should.
LEMMA ThroughTurn ==
  ASSUME Typed, Sorted, NEW r, Turns(r), Rising(r), Ends(r), Through(r)
  PROVE  Through(Turned(r))
<1> SUFFICES ASSUME Plain PROVE Through(Turned(r))
  BY DEF Through
<1> DEFINE t == Turned(r)
<1>0. /\ Stored /\ query \in Queries /\ Len(rows) \in Nat /\ DOMAIN rows = 1..Len(rows)
      /\ \A i \in DOMAIN rows : rows[i].ts \in Nat /\ rows[i].ts <= clock
      /\ r \in Reader(Len(rows)) /\ r.phase \in {"new", "reading"}
      /\ r.phase = "new" <=> Starts(r)
      /\ t.phase \in {"reading", "done"}
      /\ clock \in Nat
  BY RowIs, TurnsIs, QueryIs DEF Typed
<1>1. t.start = r.start /\ t.end = r.end /\ t.seen = r.seen
      /\ r.start \in Nat /\ r.end \in Nat /\ r.seen \in 0..Len(rows) /\ r.cursor \in 0..Len(rows)
  BY <1>0, TurnedIs DEF Reader
<1>2. /\ Has(r) \subseteq Has(t)
      /\ \A x \in Ids(r) : t.phase = "done" \/ x <= t.cursor => x \in Has(t)
      /\ \A x \in Ids(r) : Cardinality({y \in Ids(r) : y < x}) < query.limit => x \in Has(t)
  BY IdTurn DEF Plain
<1>3. Beyond(Within(r.start, Upto(r)), r.cursor) \subseteq Ids(r)
  <2>1. CASE query.kind \in {"events", "probes"}
    BY <2>1 DEF Ids
  <2>2. CASE query.kind = "channels" /\ query.interval = 0
    <3>1. Kept(query, r.start, Upto(r), r.cursor) = Beyond(Within(r.start, Upto(r)), r.cursor)
      BY <2>2 DEF Kept
    <3>2. Ids(r) = Samples(query, r.start, Upto(r), r.cursor)
      BY <2>2 DEF Ids
    <3> QED BY <2>2, <3>1, <3>2 DEF Samples, Bucketed
  <2> QED BY <2>1, <2>2 DEF Plain
<1>4. Within(r.start, r.end) \subseteq Within(r.start, Upto(r))
  <2>1. CASE query.open
    <3>1. Upto(r) = clock /\ r.end <= clock
      BY <1>0, <2>1 DEF Upto, Ends, Starts
    <3> QED BY <1>0, <1>1, <3>1 DEF Within
  <2>2. CASE ~query.open
    BY <2>2 DEF Upto
  <2> QED BY <2>1, <2>2
<1>5. ASSUME NEW i \in Within(r.start, r.end), t.phase = "done" \/ i <= t.cursor
      PROVE  i \in Has(t)
  <2>1. CASE i <= r.cursor
    BY <1>0, <1>2, <2>1 DEF Through
  <2>2. CASE ~(i <= r.cursor)
    <3>1. i \in Within(r.start, Upto(r)) /\ r.cursor < i
      BY <1>0, <1>1, <1>4, <2>2 DEF Within
    <3>2. i \in Ids(r)
      BY <1>3, <3>1 DEF Beyond
    <3> QED BY <1>2, <1>5, <3>2
  <2> QED BY <2>1, <2>2
<1>6. ASSUME query.kind = "channels", Cardinality(Keys) <= query.limit,
             NEW k \in Keys, Earlier(r, k) # {}
      PROVE  Latest(Earlier(r, k)) \in Has(t)
  <2>1. CASE Starts(r)
    <3>1. /\ Latest(Earlier(r, k)) \in Ids(r)
          /\ Cardinality({y \in Ids(r) : y < Latest(Earlier(r, k))}) < query.limit
      BY <1>6, <2>1, BaselinesFirst
    <3> QED BY <1>2, <3>1
  <2>2. CASE r.phase = "reading"
    BY <1>2, <1>6, <2>2 DEF Through
  <2> QED BY <1>0, <2>1, <2>2
<1>7. \A k : Earlier(t, k) = Earlier(r, k)
  BY <1>1 DEF Earlier
<1> HIDE DEF t
<1> QED BY <1>0, <1>1, <1>5, <1>6, <1>7 DEF Through, t

\* What a reader has stays what it should have while the table grows.
LEMMA ThroughGrows ==
  ASSUME Typed, Ends(reader), Through(reader), Grows
  PROVE  Ends(reader)' /\ Through(reader)'
<1>0. /\ reader' = reader /\ query' = query /\ Grown(Late)
      /\ clock \in Nat /\ clock' \in Nat /\ clock <= clock'
      /\ Len(rows) \in Nat /\ DOMAIN rows = 1..Len(rows)
      /\ reader.end \in Nat /\ reader.seen \in 0..Len(rows) /\ reader.cursor \in 0..Len(rows)
  BY RowIs DEF Grows, Typed, Reader
<1>1. /\ \A i \in 1..Len(rows) : i \in DOMAIN rows' /\ rows'[i] = rows[i]
      /\ \A i \in DOMAIN rows' : i \in Nat /\ (i <= Len(rows) => i \in DOMAIN rows)
  BY <1>0 DEF Grown
<1>2. Ends(reader)'
  BY <1>0 DEF Ends
<1>3. ASSUME NEW i \in Within(reader.start, reader.end)', i <= Len(rows)
      PROVE  i \in Within(reader.start, reader.end)
  BY <1>0, <1>1, <1>3 DEF Within
<1>4. \A k : Earlier(reader, k)' = Earlier(reader, k)
  <2>1. \A i \in 1..reader.seen : rows'[i] = rows[i]
    BY <1>0, <1>1
  <2> QED BY <1>0, <2>1 DEF Earlier
<1>5. \A i \in Within(reader.start, reader.end)' :
         /\ i <= reader.cursor => i <= Len(rows)
         /\ i <= reader.seen => i <= Len(rows)
  BY <1>0, <1>1 DEF Within
<1>6. \A k : Latest(Earlier(reader, k))' = Latest(Earlier(reader, k))
  BY <1>4 DEF Latest
<1>7. Has(reader)' = Has(reader) /\ Plain' = Plain
  BY <1>0 DEF Has, Plain, Prompt
<1>8. Through(reader)'
  <2> SUFFICES ASSUME Plain PROVE Through(reader)'
    BY <1>7 DEF Through
  <2>1. reader.phase # "done" =>
          \A i \in Within(reader.start, reader.end)' : i <= reader.cursor => i \in Has(reader)
    BY <1>3, <1>5 DEF Through
  <2>2. reader.phase = "done" =>
          \A i \in Within(reader.start, reader.end)' : i <= reader.seen => i \in Has(reader)
    BY <1>3, <1>5 DEF Through
  <2> QED BY <1>0, <1>4, <1>6, <1>7, <2>1, <2>2 DEF Through
<1> QED BY <1>2, <1>8

\* Every step keeps what is known of the reader.
LEMMA NextReading ==
  Typed /\ Horizons /\ Sorted /\ Reading(reader) /\ [Next]_vars => Reading(reader)'
<1> SUFFICES ASSUME Typed, Horizons, Sorted, Reading(reader), [Next]_vars
             PROVE  Reading(reader)'
  OBVIOUS
<1>1. CASE Grows
  <2>1. Ends(reader)' /\ Through(reader)'
    BY <1>1, ThroughGrows DEF Reading
  <2>2. Rising(reader)'
    BY <1>1 DEF Grows, Reading, Rising, Prompt, Has
  <2> QED BY <2>1, <2>2 DEF Reading
<1>2. CASE TurnsPage
  <2>1. PICK r : Turns(r) /\ reader' = Turned(r)
    BY <1>2 DEF TurnsPage
  <2> DEFINE t == Turned(r)
  <2>2. UNCHANGED <<clock, rows, begun, query>>
    BY <1>2 DEF TurnsPage
  <2>3. Reading(r)
    <3>1. CASE Starts(r)
      BY <3>1, ReadingStarts DEF Starts, Typed
    <3>2. CASE r = reader
      BY <3>2
    <3> QED BY <2>1, <3>1, <3>2 DEF Turns
  <2>4. Through(t)
    BY <2>1, <2>3, ThroughTurn DEF Reading
  <2>5. Rising(t)
    <3>1. CASE Prompt
      BY <2>1, <2>3, <3>1, IdTurn DEF Reading
    <3>2. CASE ~Prompt
      BY <3>2 DEF Rising
    <3> QED BY <3>1, <3>2
  <2>6. Ends(t)
    <3>1. t.end = r.end /\ r.end \in Nat /\ (r.phase = "new" <=> Starts(r))
      BY <2>1, TurnsIs, TurnedIs DEF Typed, Reader
    <3>2. clock \in Nat
      BY QueryIs DEF Typed
    <3> QED BY <2>3, <3>1, <3>2 DEF Reading, Ends, Starts
  <2> HIDE DEF t
  <2>7. Rising(reader)'
    BY <2>1, <2>2, <2>5 DEF Rising, Prompt, Has, t
  <2>8. Ends(reader)'
    BY <2>1, <2>2, <2>6 DEF Ends, t
  <2>9. Through(reader)'
    BY <2>1, <2>2, <2>4 DEF Through, Plain, Prompt, Within, Has, Earlier, Latest, t
  <2> QED BY <2>7, <2>8, <2>9 DEF Reading
<1>3. CASE Leaves
  <2>1. reader'.phase = "new" /\ reader'.got = <<>> /\ reader'.cursor = 0 /\ rows' = rows
    BY <1>3 DEF Leaves, NoRead
  <2>2. DOMAIN <<>> = {}
    OBVIOUS
  <2>3. Rising(reader)'
    BY <2>1, <2>2 DEF Rising
  <2>4. Ends(reader)'
    BY <2>1 DEF Ends
  <2>5. Through(reader)'
    <3>1. \A i \in DOMAIN rows : ~(i <= 0)
      BY RowIs DEF Typed
    <3> QED BY <2>1, <3>1 DEF Through, Within
  <2> QED BY <2>3, <2>4, <2>5 DEF Reading
<1> QED BY <1>1, <1>2, <1>3, NextKinds

\* The invariant of what is read by id.
IdInv == Typed /\ Horizons /\ Sorted /\ Reading(reader)

\* It holds always.
LEMMA IdInvariant == Spec => []IdInv
<1>1. Init => IdInv
  <2> SUFFICES ASSUME Init PROVE IdInv
    OBVIOUS
  <2>1. Typed /\ Horizons
    BY InitTyped
  <2>2. reader.phase = "new" /\ reader.got = <<>> /\ reader.cursor = 0
    BY DEF Init, NoRead
  <2>3. Reading(reader)
    BY <2>1, <2>2, ReadingStarts DEF Typed
  <2>4. Sorted
    <3>1. rows = <<>> /\ begun = Idle /\ DOMAIN <<>> = {}
      BY DEF Init
    <3> QED BY <3>1 DEF Sorted
  <2> QED BY <2>1, <2>3, <2>4 DEF IdInv
<1>2. IdInv /\ [Next]_vars => IdInv'
  BY NextTyped, NextHorizons, NextSorted, NextReading DEF IdInv
<1> QED BY <1>1, <1>2, PTL DEF Spec

\* Events and probes that are stored in the second of their time: whoever follows
\* the cursors to the end sees all of the range, and none twice, although the pages
\* are ordered by time and continued by id.
THEOREM PromptEventsAreListed ==
  ASSUME \A q \in Queries : q.kind \in {"events", "probes"} => q.lag = 0
  PROVE  Spec => []EventsAllListed
<1>1. IdInv => EventsAllListed
  <2> SUFFICES ASSUME IdInv, query.kind \in {"events", "probes"}
               PROVE  /\ NoRepeats
                      /\ reader.phase = "done" =>
                           Within(reader.start, reader.end) \cap 1..reader.seen \subseteq Got
    BY DEF EventsAllListed
  <2>1. Prompt /\ Plain
    BY DEF IdInv, Typed, Prompt, Plain
  <2>2. NoRepeats
    BY <2>1, RisingOnce DEF IdInv, Reading
  <2>3. \A i \in 1..reader.seen : i <= reader.seen
    BY DEF IdInv, Typed, Reader
  <2> QED BY <2>1, <2>2, <2>3 DEF IdInv, Reading, Through, Has, Got
<1> QED BY <1>1, IdInvariant, PTL

\* Pages with room for a state of every channel: whoever follows the cursors of
\* cln-history-channels to the end can tell every state in the range, from its left
\* edge on, as of the first request, and gets no row twice.
THEOREM StatesReadBack ==
  ASSUME \A q \in Queries : q.kind = "channels" /\ q.interval = 0 => Cardinality(Keys) <= q.limit
  PROVE  Spec => []ReadsBack
<1>1. IdInv => ReadsBack
  <2> SUFFICES ASSUME IdInv, query.kind = "channels", query.interval = 0
               PROVE  /\ NoRepeats
                      /\ reader.phase = "done" =>
                           \A k \in Keys, t \in reader.start..reader.end :
                              UpTo(k, t) # {} => Latest(UpTo(k, t)) \in Got
    BY DEF ReadsBack
  <2>1. Prompt /\ Plain /\ Cardinality(Keys) <= query.limit
    BY DEF IdInv, Typed, Prompt, Plain
  <2>2. NoRepeats
    BY <2>1, RisingOnce DEF IdInv, Reading
  <2>3. ASSUME reader.phase = "done", NEW k \in Keys, NEW t \in reader.start..reader.end,
               UpTo(k, t) # {}
        PROVE  Latest(UpTo(k, t)) \in Got
    <3> DEFINE S == UpTo(k, t)
               E == Earlier(reader, k)
               m == Latest(S)
    <3>1. /\ reader.start \in Nat /\ reader.end \in Nat /\ reader.seen \in 0..Len(rows)
          /\ Len(rows) \in Nat /\ DOMAIN rows = 1..Len(rows)
          /\ \A i \in DOMAIN rows : rows[i].ts \in Nat
          /\ t \in Nat /\ reader.start <= t /\ t <= reader.end
      BY RowIs DEF IdInv, Typed, Reader
    <3>2. S \in SUBSET (1..Len(rows)) /\ E \in SUBSET (1..Len(rows))
      BY <3>1 DEF UpTo, Earlier
    <3>3. m \in S /\ \A i \in S : i <= m
      <4> HIDE DEF S
      <4> QED BY <2>3, <3>1, <3>2, LatestIs DEF S
    <3>4. m \in 1..reader.seen /\ rows[m].key = k /\ rows[m].ts <= t /\ m \in DOMAIN rows
          /\ rows[m].ts \in Nat
      <4> HIDE DEF m
      <4>1. m \in 1..reader.seen /\ rows[m].key = k /\ rows[m].ts <= t
        BY <3>3 DEF UpTo
      <4>2. m \in DOMAIN rows
        BY <3>1, <4>1
      <4> QED BY <3>1, <4>1, <4>2
    <3>5. CASE rows[m].ts >= reader.start
      <4>1. m \in Within(reader.start, reader.end) /\ m <= reader.seen
        BY <3>1, <3>4, <3>5 DEF Within
      <4> QED BY <2>1, <2>3, <4>1 DEF IdInv, Reading, Through, Has, Got
    <3>6. CASE ~(rows[m].ts >= reader.start)
      <4>1. m \in E
        BY <3>1, <3>4, <3>6 DEF Earlier
      <4>2. Latest(E) \in E /\ \A i \in E : i <= Latest(E)
        <5> HIDE DEF E
        <5> QED BY <3>1, <3>2, <4>1, LatestIs
      <4>3. E \subseteq S
        BY <3>1 DEF Earlier, UpTo
      <4>4. Latest(E) = m
        <5>1. Latest(E) <= m /\ m <= Latest(E) /\ Latest(E) \in Nat /\ m \in Nat
          BY <3>1, <3>2, <3>3, <3>4, <4>1, <4>2, <4>3
        <5> QED BY <5>1
      <4>5. Latest(E) \in Has(reader)
        BY <2>1, <2>3, <4>1 DEF IdInv, Reading, Through
      <4> QED BY <4>4, <4>5 DEF Has, Got
    <3> QED BY <3>5, <3>6
  <2> QED BY <2>2, <2>3
<1> QED BY <1>1, IdInvariant, PTL

(***************************************************************************)
(* Reading buckets.                                                        *)
(***************************************************************************)

\* The rows of K that stand for their buckets.
Best(K, start, kind, interval) ==
  {x \in K : \A j \in Mates(K, x, start, interval) : Better(x, j, kind)}

\* They are what is left of K.
LEMMA BucketedIs ==
  ASSUME Stored, NEW K \in SUBSET DOMAIN rows, NEW start, NEW kind, NEW interval, interval # 0
  PROVE  Bucketed(K, start, kind, interval) = Best(K, start, kind, interval)
<1> DEFINE M(i) == Mates(K, i, start, interval)
           rep(i) == Representative(M(i), kind)
<1>1. Bucketed(K, start, kind, interval) = {rep(i) : i \in K}
  BY DEF Bucketed, Mates
<1>2. \A i \in K : M(i) \in SUBSET DOMAIN rows /\ M(i) \subseteq K /\ i \in M(i)
  BY DEF Mates
<1>3. \A i, x \in K : x \in M(i) => M(x) = M(i)
  BY DEF Mates
<1>4. \A x, y \in DOMAIN rows : Better(x, y, kind) /\ Better(y, x, kind) => x = y
  BY RowIs DEF Better
<1> HIDE DEF M
<1>5. \A i \in K : rep(i) \in M(i) /\ \A j \in M(i) : Better(rep(i), j, kind)
  BY <1>2, RepresentativeIs
<1>6. ASSUME NEW i \in K PROVE rep(i) \in {x \in K : \A j \in M(x) : Better(x, j, kind)}
  BY <1>2, <1>3, <1>5
<1>7. ASSUME NEW x \in K, \A j \in M(x) : Better(x, j, kind) PROVE x = rep(x)
  BY <1>2, <1>4, <1>5, <1>7
<1> HIDE DEF rep
<1>8. {rep(i) : i \in K} = {x \in K : \A j \in M(x) : Better(x, j, kind)}
  BY <1>6, <1>7
<1> QED BY <1>1, <1>8 DEF M, rep, Best

\* Reads by buckets; busy channels are read on one page.
Bucketwise ==
  /\ query.interval # 0
  /\ query.kind = "channels" \/ (query.kind = "htlcs" /\ MaxRows <= query.limit)

\* The rows of the range that are put in buckets, and the ones that stand for them.
Ranged(r) == {i \in Within(r.start, r.end) : query.kind = "htlcs" => rows[i].htlcs > 0}
Reps(r) == Best(Ranged(r), r.start, query.kind, query.interval)

\* Over a range that is settled the pages show, up to the cursor and in the end all
\* of them, the rows that stand for their buckets, and no other.
Shows(r) ==
  /\ query.open /\ r.phase # "new" => r.horizon <= r.end
  /\ Bucketwise /\ query.kind = "htlcs" => r.phase # "reading"
  /\ Bucketwise /\ r.end < r.horizon =>
       /\ r.phase # "done" => Has(r) \cap Within(r.start, r.end) = {x \in Reps(r) : x <= r.cursor}
       /\ r.phase = "done" => Has(r) \cap Within(r.start, r.end) = Reps(r)

\* The buckets beyond the cursor are those of the whole range whose rows are.
LEMMA BucketIds ==
  ASSUME Typed, Bucketwise, NEW r \in Reader(Len(rows)), Upto(r) = r.end,
         query.kind = "htlcs" => r.cursor = 0
  PROVE  Ids(r) = {x \in Reps(r) : r.cursor < x} \cup Baselines(r.start, r.cursor)
<1> DEFINE W == Ranged(r)
           K == Kept(query, r.start, r.end, r.cursor)
           M(A, x) == Mates(A, x, r.start, query.interval)
<1>0. /\ Stored /\ r.cursor \in Nat /\ W \in SUBSET DOMAIN rows
      /\ \A i \in DOMAIN rows : i \in Nat /\ i > 0
  <2>1. Stored
    BY DEF Typed
  <2>2. Len(rows) \in Nat /\ DOMAIN rows = 1..Len(rows)
    BY <2>1, RowIs
  <2>3. r.cursor \in 0..Len(rows)
    BY DEF Reader
  <2>4. W \in SUBSET DOMAIN rows
    BY DEF Ranged, Within
  <2> HIDE DEF W
  <2> QED BY <2>1, <2>2, <2>3, <2>4
<1>1. K = {x \in W : r.cursor < x}
  <2>1. K \subseteq {x \in W : r.cursor < x}
    BY <1>0 DEF Kept, Beyond, Ranged, Within
  <2>2. {x \in W : r.cursor < x} \subseteq K
    BY <1>0 DEF Kept, Beyond, Ranged, Within
  <2> QED BY <2>1, <2>2
<1>2. Bucketed(K, r.start, query.kind, query.interval) =
        {x \in K : \A j \in M(K, x) : Better(x, j, query.kind)}
  <2>1. K \in SUBSET DOMAIN rows
    BY <1>0, <1>1
  <2>2. query.interval # 0
    BY DEF Bucketwise
  <2> HIDE DEF K
  <2>3. Bucketed(K, r.start, query.kind, query.interval) =
          Best(K, r.start, query.kind, query.interval)
    BY <1>0, <2>1, <2>2, BucketedIs
  <2> QED BY <2>3 DEF Best
<1>3. Ids(r) = Bucketed(K, r.start, query.kind, query.interval) \cup Baselines(r.start, r.cursor)
  BY DEF Ids, Samples, Bucketwise
<1> HIDE DEF W, K
<1>4. ASSUME NEW x \in K
      PROVE  (\A j \in M(K, x) : Better(x, j, query.kind)) <=>
             (\A j \in M(W, x) : Better(x, j, query.kind))
  <2>1. M(K, x) \subseteq M(W, x)
    BY <1>1 DEF Mates
  <2>2. ASSUME NEW j \in M(W, x), j \notin M(K, x) PROVE Better(x, j, query.kind)
    <3>1. j \in W /\ j \notin K /\ j \in Nat /\ x \in Nat /\ j > 0
      BY <1>0, <1>1, <2>2 DEF Mates
    <3>2. j <= r.cursor /\ r.cursor < x
      BY <1>0, <1>1, <3>1
    <3>3. query.kind # "htlcs"
      BY <3>1, <3>2
    <3> QED BY <1>0, <3>1, <3>2, <3>3 DEF Better
  <2> QED BY <2>1, <2>2
<1>5. {x \in K : \A j \in M(K, x) : Better(x, j, query.kind)} =
        {x \in Reps(r) : r.cursor < x}
  <2>1. Reps(r) = {x \in W : \A j \in M(W, x) : Better(x, j, query.kind)}
    BY DEF Reps, Best, W
  <2> HIDE DEF M
  <2> QED BY <1>1, <1>4, <2>1
<1> QED BY <1>2, <1>3, <1>5

\* A page shows the buckets that it should.
LEMMA ShowsTurn ==
  ASSUME Typed, Sorted, NEW r, Turns(r), Rising(r), Shows(r),
         r.phase = "new" => Has(r) = {}
  PROVE  Shows(Turned(r))
<1> DEFINE t == Turned(r)
           V == Within(r.start, r.end)
<1>0. /\ Stored /\ query \in Queries /\ Len(rows) \in Nat /\ DOMAIN rows = 1..Len(rows)
      /\ r \in Reader(Len(rows)) /\ r.phase \in {"new", "reading"}
      /\ r.phase = "new" <=> Starts(r)
      /\ t.phase \in {"reading", "done"}
      /\ clock \in Nat /\ query.limit \in Nat /\ MaxRows \in Nat /\ Len(rows) <= MaxRows
  BY RowIs, TurnsIs, QueryIs DEF Typed
<1>1. /\ t.start = r.start /\ t.end = r.end /\ t.horizon = r.horizon
      /\ r.start \in Nat /\ r.end \in Nat /\ r.horizon \in Nat /\ r.cursor \in Nat
      /\ t.phase = IF More(r) THEN "reading" ELSE "done"
  BY <1>0, TurnedIs DEF Reader
<1>2. query.open => r.horizon <= r.end
  <2>1. Lowest \in Nat /\ Lowest <= clock
    BY <1>0, TimesAre
  <2> QED BY <1>0, <1>1, <2>1 DEF Starts, Shows
<1>3. ASSUME Bucketwise, query.kind = "htlcs" PROVE t.phase # "reading" /\ r.phase = "new"
  <2> DEFINE S == Ids(r)
             n == Cardinality(S)
             L == PageOf(r)
  <2>1. S \in SUBSET DOMAIN rows /\ S \in SUBSET Nat /\ IsFiniteSet(S)
        /\ L = Listed(S, Ascending(S))
    BY <1>3, IdsAre DEF Prompt
  <2>2. IsFiniteSet(DOMAIN rows) /\ Cardinality(DOMAIN rows) = Len(rows)
    <3>1. \A k \in Nat : IsFiniteSet(1..k) /\ Cardinality(1..k) = k
      BY FS_Interval
    <3> QED BY <1>0, <3>1
  <2> HIDE DEF S, L
  <2>3. n <= Len(rows) /\ n \in Nat
    BY <2>1, <2>2, FS_Subset, FS_CardinalityType
  <2>4. Len(L) = n
    <3>1. Orders(Ascending(S), S)
      BY <2>1, AscendingOrders
    <3> QED BY <2>1, <3>1, ListedSeq
  <2>5. ~More(r)
    BY <1>0, <1>3, <2>3, <2>4 DEF More, L, Bucketwise
  <2> QED BY <1>0, <1>1, <1>3, <2>5 DEF Shows
<1>4. ASSUME Bucketwise, r.end < r.horizon
      PROVE  /\ t.phase # "done" => Has(t) \cap V = {x \in Reps(r) : x <= t.cursor}
             /\ t.phase = "done" => Has(t) \cap V = Reps(r)
  <2>1. Upto(r) = r.end
    BY <1>1, <1>2, <1>4, QueryIs, <1>0 DEF Upto
  <2>2. query.kind = "htlcs" => r.cursor = 0
    BY <1>0, <1>3, <1>4 DEF Starts
  <2>3. Ids(r) = {x \in Reps(r) : r.cursor < x} \cup Baselines(r.start, r.cursor)
    BY <1>0, <1>4, <2>1, <2>2, BucketIds
  <2>4. Reps(r) \subseteq V /\ \A x \in V : x \in Nat /\ x > 0
    BY <1>0 DEF Reps, Best, Ranged, Within
  <2>5. Baselines(r.start, r.cursor) \cap V = {}
    <3>1. \A i \in Baselines(r.start, r.cursor) : i \in DOMAIN rows /\ rows[i].ts < r.start
      BY <1>0, SamplesAre
    <3>2. \A i \in V : rows[i].ts >= r.start
      BY <1>0, <1>1, RowIs DEF Within
    <3>3. \A i \in DOMAIN rows : rows[i].ts \in Nat
      BY <1>0, RowIs
    <3> QED BY <1>1, <3>1, <3>2, <3>3
  <2>6. /\ Has(r) \subseteq Has(t)
        /\ \A x \in Has(t) : x \in Has(r) \/ x \in Ids(r)
        /\ \A x \in Ids(r) : t.phase = "done" \/ x <= t.cursor => x \in Has(t)
        /\ t.phase = "reading" => r.cursor < t.cursor /\ \A x \in Has(t) : x <= t.cursor
    <3>1. Prompt
      BY <1>4 DEF Bucketwise, Prompt
    <3> QED BY <3>1, IdTurn DEF Rising
  <2>7. Has(r) \cap V = {x \in Reps(r) : x <= r.cursor}
    <3>1. CASE r.phase = "new"
      <4>1. r.cursor = 0
        BY <1>0, <3>1 DEF Starts
      <4>2. {x \in Reps(r) : x <= r.cursor} = {}
        BY <2>4, <4>1
      <4> QED BY <3>1, <4>2
    <3>2. CASE r.phase = "reading"
      BY <1>4, <3>2 DEF Shows
    <3> QED BY <1>0, <3>1, <3>2
  <2>8. \A x \in Reps(r) : x \in Nat /\ x \in V /\ (x <= r.cursor \/ r.cursor < x)
    BY <1>1, <2>4
  <2>9. t.cursor \in Nat
    <3>1. t \in Reader(Len(rows))
      BY TurnsIs
    <3> QED BY <1>0, <3>1 DEF Reader
  <2> HIDE DEF t, V
  <2>10. \A x \in Has(t) \cap V : x \in Reps(r)
    BY <2>3, <2>5, <2>6, <2>7
  <2>11. \A x \in Reps(r) : t.phase = "done" \/ x <= t.cursor => x \in Has(t) \cap V
    BY <2>3, <2>6, <2>7, <2>8
  <2>12. t.phase # "done" => \A x \in Has(t) : x <= t.cursor
    BY <1>0, <2>6
  <2> QED BY <2>10, <2>11, <2>12
<1>5. Reps(t) = Reps(r) /\ V = Within(t.start, t.end)
  BY <1>1 DEF Reps, Ranged
<1> HIDE DEF t, V
<1> QED BY <1>0, <1>1, <1>2, <1>3, <1>4, <1>5 DEF Shows, t, V

\* Over a range that is settled nothing changes while the table grows.
LEMMA ShowsGrows ==
  ASSUME Typed, Shows(reader), Grows
  PROVE  Shows(reader)'
<1>0. /\ reader' = reader /\ query' = query /\ Grown(Late)
      /\ Len(rows) \in Nat /\ DOMAIN rows = 1..Len(rows)
      /\ reader.end \in Nat /\ reader.horizon \in Nat
      /\ reader.phase = "new" => reader.horizon = 0
      /\ Stored'
  <2>1. reader.phase = "new" => reader.horizon = 0
    BY DEF Typed, NoRead
  <2> QED BY <2>1, RowIs DEF Grows, Grown, Typed, Reader
<1>1. /\ \A i \in DOMAIN rows : i \in DOMAIN rows' /\ rows'[i] = rows[i]
      /\ \A i \in DOMAIN rows' : i \in DOMAIN rows \/ i \in Len(rows) + 1..Len(rows')
  BY <1>0 DEF Grown
<1>2. ASSUME reader.end < reader.horizon
      PROVE  /\ Within(reader.start, reader.end)' = Within(reader.start, reader.end)
             /\ Reps(reader)' = Reps(reader)
  <2> DEFINE V == Within(reader.start, reader.end)
             W == Ranged(reader)
  <2>1. ASSUME NEW i \in DOMAIN rows', i \notin DOMAIN rows
        PROVE  ~(rows'[i].ts \in reader.start..reader.end)
    <3>1. rows'[i].ts \in Late
      BY <1>0, <1>1, <2>1 DEF Grown
    <3>2. rows'[i].ts >= reader.horizon /\ rows'[i].ts \in Nat
      BY <1>0, <1>2, <3>1 DEF Late
    <3> QED BY <1>0, <1>2, <3>2
  <2>2. V' = V
    BY <1>0, <1>1, <2>1 DEF Within
  <2>3. W \in SUBSET DOMAIN rows /\ W' = W
    <3>1. \A i \in V : rows'[i] = rows[i] /\ i \in DOMAIN rows
      BY <1>1 DEF Within
    <3>2. W = {i \in V : query.kind = "htlcs" => rows[i].htlcs > 0}
      BY DEF Ranged
    <3>3. W' = {i \in V' : query'.kind = "htlcs" => rows'[i].htlcs > 0}
      BY <1>0 DEF Ranged, Within
    <3> HIDE DEF V, W
    <3> QED BY <1>0, <2>2, <3>1, <3>2, <3>3
  <2>4. Reps(reader) =
          {x \in W : \A j \in W :
             (/\ rows[j].key = rows[x].key
              /\ (rows[j].ts - reader.start) \div query.interval =
                   (rows[x].ts - reader.start) \div query.interval)
             => Better(x, j, query.kind)}
    BY DEF Reps, Best, Mates, Bucket
  <2>5. Reps(reader)' =
          {x \in W' : \A j \in W' :
             (/\ rows'[j].key = rows'[x].key
              /\ (rows'[j].ts - reader'.start) \div query'.interval =
                   (rows'[x].ts - reader'.start) \div query'.interval)
             => Better(x, j, query.kind)'}
    BY <1>0 DEF Reps, Best, Mates, Bucket, Better, Ranged, Within
  <2>6. \A x, j \in W : Better(x, j, query.kind)' <=> Better(x, j, query.kind)
    BY <1>0, <1>1, <2>3 DEF Better
  <2>7. \A x \in W : rows'[x] = rows[x]
    BY <1>1, <2>3
  <2>8. Reps(reader)' = Reps(reader)
    <3> HIDE DEF W
    <3> QED BY <1>0, <2>3, <2>4, <2>5, <2>6, <2>7
  <2> QED BY <2>2, <2>8
<1>3. Bucketwise' = Bucketwise /\ Has(reader)' = Has(reader)
  BY <1>0 DEF Bucketwise, Has
<1> QED BY <1>0, <1>2, <1>3 DEF Shows

\* A reader that has got no page yet shows no bucket.
LEMMA ShowsStarts ==
  ASSUME Stored, NEW r, r.phase = "new", r.cursor = 0, r.got = <<>>
  PROVE  Shows(r) /\ Has(r) = {}
<1>1. Has(r) = {}
  <2>1. DOMAIN <<>> = {}
    OBVIOUS
  <2> QED BY <2>1 DEF Has
<1>2. \A x \in Reps(r) : ~(x <= r.cursor)
  BY RowIs DEF Reps, Best, Ranged, Within
<1> QED BY <1>1, <1>2 DEF Shows

\* Every step keeps what the pages show.
LEMMA NextShows ==
  Typed /\ Horizons /\ Sorted /\ Reading(reader) /\ Shows(reader) /\ [Next]_vars
    => Shows(reader)'
<1> SUFFICES ASSUME Typed, Horizons, Sorted, Reading(reader), Shows(reader), [Next]_vars
             PROVE  Shows(reader)'
  OBVIOUS
<1>1. CASE Grows
  BY <1>1, ShowsGrows
<1>2. CASE TurnsPage
  <2>1. PICK r : Turns(r) /\ reader' = Turned(r)
    BY <1>2 DEF TurnsPage
  <2> DEFINE t == Turned(r)
  <2>2. UNCHANGED <<clock, rows, begun, query>>
    BY <1>2 DEF TurnsPage
  <2>3. Shows(r) /\ Rising(r) /\ (r.phase = "new" => Has(r) = {})
    <3>1. CASE Starts(r)
      <4>1. r.phase = "new" /\ r.cursor = 0 /\ r.got = <<>> /\ Stored
        BY <3>1 DEF Starts, Typed
      <4> QED BY <4>1, ShowsStarts, ReadingStarts DEF Reading
    <3>2. CASE r = reader /\ reader.phase = "reading"
      BY <3>2 DEF Reading
    <3> QED BY <2>1, <3>1, <3>2 DEF Turns
  <2>4. Shows(t)
    BY <2>1, <2>3, ShowsTurn
  <2> HIDE DEF t
  <2> QED BY <2>1, <2>2, <2>4
        DEF Shows, Bucketwise, Has, Reps, Best, Ranged, Within, Mates, Bucket, Better, t
<1>3. CASE Leaves
  <2>1. reader' = NoRead /\ rows' = rows /\ query' = query
    BY <1>3 DEF Leaves
  <2>2. reader'.phase = "new" /\ reader'.end = 0 /\ reader'.horizon = 0
    BY <2>1 DEF NoRead
  <2> QED BY <2>2 DEF Shows
<1> QED BY <1>1, <1>2, <1>3, NextKinds

\* It holds always.
LEMMA BucketInvariant == Spec => [](IdInv /\ Shows(reader))
<1>1. Init => Shows(reader)
  BY DEF Init, NoRead, Shows
<1>2. IdInv /\ Shows(reader) /\ [Next]_vars => Shows(reader)'
  BY NextShows DEF IdInv
<1> QED BY <1>1, <1>2, IdInvariant, PTL DEF Spec

\* Over a range that is settled the pages show every bucket that has rows once, by
\* the channel's last state in it, or, read on one page, by its busiest for HTLCs.
THEOREM BucketsAreShownOnce ==
  ASSUME \A q \in Queries : q.kind = "htlcs" /\ q.interval > 0 => MaxRows <= q.limit
  PROVE  Spec => []EveryBucketOnce
<1>1. IdInv /\ Shows(reader) => EveryBucketOnce
  <2> SUFFICES ASSUME IdInv, Shows(reader),
                      query.kind \in {"channels", "htlcs"}, query.interval > 0,
                      reader.phase = "done", Settled,
                      NEW k \in Keys, NEW b \in 0..MaxTime, InBucket(k, b) # {}
               PROVE  \E i \in InBucket(k, b) :
                         /\ Got \cap InBucket(k, b) = {i}
                         /\ IF query.kind = "htlcs"
                            THEN \A j \in InBucket(k, b) : rows[j].htlcs <= rows[i].htlcs
                            ELSE i = Latest(InBucket(k, b))
    BY DEF EveryBucketOnce
  <2> DEFINE S == InBucket(k, b)
             V == Within(reader.start, reader.end)
             W == Ranged(reader)
             x == Representative(S, query.kind)
  <2>1. /\ query \in Queries /\ query.interval \in Nat /\ Stored
        /\ Len(rows) \in Nat /\ DOMAIN rows = 1..Len(rows)
        /\ \A i \in DOMAIN rows : rows[i].htlcs \in Nat
    BY QueryIs, RowIs DEF IdInv, Typed
  <2>2. Bucketwise
    BY <2>1 DEF Bucketwise
  <2>3. Got \cap V = Reps(reader)
    BY <2>2 DEF Shows, Settled, Got, Has
  <2>4. S = {i \in W : rows[i].key = k /\ Bucket(i, reader.start, query.interval) = b}
    BY DEF InBucket, Ranged
  <2>5. W \in SUBSET DOMAIN rows /\ W \subseteq V
    BY DEF Ranged, Within
  <2> HIDE DEF S, V
  <2>6. S # {} /\ S \in SUBSET DOMAIN rows /\ S \subseteq W
    BY <2>4, <2>5 DEF S
  <2>7. x \in S /\ \A j \in S : Better(x, j, query.kind)
    BY <2>1, <2>6, RepresentativeIs
  <2>8. \A i \in S : Mates(W, i, reader.start, query.interval) = S
    <3> HIDE DEF W
    <3> QED BY <2>4 DEF Mates
  <2>9. Reps(reader) = {i \in W : \A j \in Mates(W, i, reader.start, query.interval) :
                                     Better(i, j, query.kind)}
    BY DEF Reps, Best
  <2> HIDE DEF W, x
  <2>10. x \in Got \cap S
    BY <2>3, <2>6, <2>7, <2>8, <2>9
  <2>11. ASSUME NEW y \in Got \cap S PROVE y = x
    <3>1. y \in Reps(reader)
      BY <2>3, <2>5, <2>6, <2>11
    <3>2. Better(y, x, query.kind) /\ Better(x, y, query.kind)
      BY <2>7, <2>8, <2>9, <2>11, <3>1
    <3>3. x \in Nat /\ y \in Nat /\ x \in DOMAIN rows /\ y \in DOMAIN rows
      BY <2>1, <2>6, <2>7, <2>11
    <3> QED BY <2>1, <3>2, <3>3 DEF Better
  <2>12. Got \cap S = {x}
    BY <2>10, <2>11
  <2>13. CASE query.kind = "htlcs"
    <3>1. \A j \in S : rows[j].htlcs <= rows[x].htlcs
      BY <2>1, <2>6, <2>7, <2>13 DEF Better
    <3> QED BY <2>7, <2>12, <2>13, <3>1 DEF S
  <2>14. CASE query.kind # "htlcs"
    <3>1. x = Latest(S)
      <4>1. Latest(S) \in S /\ x <= Latest(S)
        BY <2>1, <2>6, <2>7, LatestIs
      <4>2. Latest(S) <= x /\ Latest(S) \in Nat /\ x \in Nat
        BY <2>1, <2>6, <2>7, <2>14, <4>1 DEF Better
      <4> QED BY <4>1, <4>2
    <3> QED BY <2>7, <2>12, <2>14, <3>1 DEF S
  <2> QED BY <2>13, <2>14
<1> QED BY <1>1, BucketInvariant, PTL

(***************************************************************************)
(* Reading groups: the cursor is an offset into a list that every page     *)
(* computes anew.                                                          *)
(***************************************************************************)

\* The rows of the range that no writer can join any more, and their groups.
Shut(r) ==
  {i \in Within(r.start, r.end) :
     \/ r.end < r.horizon
     \/ Period(i, query.interval) + query.interval <= r.horizon}
ShutGroups(r) == {GroupOf(i, r.start, r.end, query.interval) : i \in Shut(r)}

\* What a read knows of the times.
Timed(r) ==
  /\ r \in Reader(Len(rows)) /\ r.horizon <= r.end + 1
  /\ query.open => r.horizon <= r.end /\ r.end <= clock

\* They are among the groups that a page lists, and so are all that are before one.
LEMMA ShutFirst ==
  ASSUME Typed, query.kind \in Groups, NEW r, Timed(r)
  PROVE  LET G == GroupsOf(r.start, Upto(r), query.interval)
         IN  /\ ShutGroups(r) \subseteq G
             /\ \A g \in ShutGroups(r), h \in G :
                   ByPeriod(Earliest(h), Earliest(g), query.interval) => h \in ShutGroups(r)
<1> DEFINE iv == query.interval
           e == Upto(r)
           G == GroupsOf(r.start, e, iv)
           P(i) == Period(i, iv)
<1>0. /\ Stored /\ iv \in Nat \ {0} /\ r.start \in Nat /\ r.end \in Nat /\ r.horizon \in Nat
      /\ r.horizon <= r.end + 1 /\ clock \in Nat /\ e \in Nat /\ r.end <= e
      /\ query.open => r.horizon <= r.end
      /\ ~query.open => e = r.end
  <2>1. Stored /\ query \in Queries /\ iv \in Nat \ {0} /\ clock \in Nat
    BY QueryIs DEF Typed
  <2>2. r.start \in Nat /\ r.end \in Nat /\ r.horizon \in Nat /\ r.horizon <= r.end + 1
        /\ (query.open => r.horizon <= r.end /\ r.end <= clock)
    BY DEF Timed, Reader
  <2>3. e = IF query.open THEN clock ELSE r.end
    BY DEF Upto
  <2> HIDE DEF e, iv
  <2> QED BY <2>1, <2>2, <2>3
<1>1. \A i \in DOMAIN rows : /\ P(i) \in Nat /\ P(i) <= rows[i].ts /\ rows[i].ts < P(i) + iv
                             /\ rows[i].ts \in Nat
  BY <1>0, PeriodIs, RowIs
<1>2. /\ \A i : i \in Within(r.start, e) <=> /\ i \in DOMAIN rows /\ rows[i].ts >= r.start
                                             /\ rows[i].ts <= e
      /\ \A i : i \in Within(r.start, r.end) <=> /\ i \in DOMAIN rows /\ rows[i].ts >= r.start
                                                 /\ rows[i].ts <= r.end
  BY <1>0, <1>1 DEF Within
<1> HIDE DEF P, e, iv
<1>3. ASSUME NEW i \in Within(r.start, e), ~query.open \/ P(i) + iv <= r.horizon,
             r.end < r.horizon \/ P(i) + iv <= r.horizon
      PROVE  i \in Shut(r) /\ GroupOf(i, r.start, e, iv) = GroupOf(i, r.start, r.end, iv)
  <2>1. CASE ~query.open
    BY <1>0, <1>3, <2>1 DEF Shut, P, iv
  <2>2. CASE query.open
    <3>1. P(i) + iv <= r.horizon /\ r.horizon <= r.end
      BY <1>0, <1>3, <2>2
    <3>2. \A j \in DOMAIN rows : P(j) = P(i) => rows[j].ts <= r.end
      BY <1>0, <1>1, <1>2, <1>3, <3>1
    <3>3. i \in DOMAIN rows /\ rows[i].ts <= r.end
      BY <1>2, <1>3, <3>2
    <3>4. i \in Shut(r)
      BY <1>2, <1>3, <3>1, <3>3 DEF Shut, P, iv
    <3>5. \A j : P(j) = P(i) => (j \in Within(r.start, e) <=> j \in Within(r.start, r.end))
      BY <1>0, <1>1, <1>2, <3>2
    <3>6. GroupOf(i, r.start, e, iv) = GroupOf(i, r.start, r.end, iv)
      BY <3>5 DEF GroupOf, P
    <3> QED BY <3>4, <3>6
  <2> QED BY <2>1, <2>2
<1>4. \A i \in Shut(r) : /\ i \in Within(r.start, e)
                         /\ ~query.open \/ P(i) + iv <= r.horizon
                         /\ r.end < r.horizon \/ P(i) + iv <= r.horizon
  BY <1>0, <1>1, <1>2 DEF Shut, P, iv
<1>5. ShutGroups(r) \subseteq G
  <2>1. ShutGroups(r) = {GroupOf(i, r.start, r.end, iv) : i \in Shut(r)}
    BY DEF ShutGroups, iv
  <2> QED BY <1>3, <1>4, <2>1 DEF GroupsOf
<1>6. \A g \in G : /\ Earliest(g) \in g /\ Earliest(g) \in Within(r.start, e)
                   /\ \A i \in g : g = GroupOf(i, r.start, e, iv)
  BY <1>0, GroupsAre
<1>7. ASSUME NEW g \in ShutGroups(r), NEW h \in G, ByPeriod(Earliest(h), Earliest(g), iv)
      PROVE  h \in ShutGroups(r)
  <2>1. PICK i \in Shut(r) : g = GroupOf(i, r.start, r.end, iv)
    BY DEF ShutGroups, iv
  <2>2. P(Earliest(g)) = P(i)
    BY <1>5, <1>6, <2>1 DEF GroupOf, P
  <2>3. P(Earliest(h)) <= P(i)
    <3>1. i \in DOMAIN rows /\ Earliest(h) \in DOMAIN rows
      BY <1>2, <1>4, <1>6
    <3> QED BY <1>1, <1>7, <2>2, <3>1 DEF ByPeriod, P
  <2>4. Earliest(h) \in Shut(r)
        /\ GroupOf(Earliest(h), r.start, e, iv) = GroupOf(Earliest(h), r.start, r.end, iv)
    <3> DEFINE k == Earliest(h)
    <3>1. k \in Within(r.start, e) /\ P(k) <= P(i) /\ P(k) \in Nat /\ P(i) \in Nat
      BY <1>1, <1>2, <1>4, <1>6, <2>3
    <3> HIDE DEF k
    <3>2. ~query.open \/ P(k) + iv <= r.horizon
      BY <1>0, <1>4, <3>1
    <3>3. r.end < r.horizon \/ P(k) + iv <= r.horizon
      BY <1>0, <1>4, <3>1
    <3>4. k \in Shut(r) /\ GroupOf(k, r.start, e, iv) = GroupOf(k, r.start, r.end, iv)
      BY <1>3, <3>1, <3>2, <3>3
    <3> QED BY <3>4 DEF k
  <2>5. h = GroupOf(Earliest(h), r.start, r.end, iv)
    BY <1>6, <2>4
  <2> QED BY <2>4, <2>5 DEF ShutGroups, iv
<1> QED BY <1>5, <1>7 DEF e, iv

\* The place of a group among them.
Spot(r, g) ==
  Cardinality({h \in ShutGroups(r) : ByPeriod(Earliest(h), Earliest(g), query.interval)}) + 1

\* The pages so far are that many groups, each of those that no writer can join in
\* its place and disjoint from all others, and in the end all of them.
Placed(r) ==
  query.kind \in Groups /\ r.phase # "new" =>
    /\ r.phase = "reading" => r.cursor = Len(r.got)
    /\ r.phase = "done" => \A g \in ShutGroups(r) : Spot(r, g) \in DOMAIN r.got
    /\ \A g \in ShutGroups(r), m \in DOMAIN r.got :
         IF m = Spot(r, g) THEN r.got[m] = g ELSE r.got[m] \cap g = {}

\* They keep their places in every list.
LEMMA ShutInPlace ==
  ASSUME Typed, query.kind \in Groups, NEW r, Timed(r),
         NEW G, G = GroupsOf(r.start, Upto(r), query.interval),
         NEW L, L = Listed(G, ByPlace(G, query.interval)), NEW g \in ShutGroups(r)
  PROVE  /\ Cardinality(G) \in Nat /\ Spot(r, g) \in 1..Cardinality(G)
         /\ \A n \in 1..Cardinality(G) : IF n = Spot(r, g) THEN L[n] = g ELSE L[n] \cap g = {}
<1> DEFINE R == ByPlace(G, query.interval)
           c == Cardinality(G)
<1>0. Stored /\ query.interval \in Nat \ {0}
  BY QueryIs DEF Typed
<1>1. /\ IsFiniteSet(G)
      /\ \A h \in G : \A i \in h : h = GroupOf(i, r.start, Upto(r), query.interval)
  BY <1>0, GroupsAre
<1>2. /\ Orders(R, G)
      /\ \A f, h \in G : <<f, h>> \in R <=> ByPeriod(Earliest(f), Earliest(h), query.interval)
  BY <1>0, GroupIs
<1>3. g \in G /\ \A h \in G : ByPeriod(Earliest(h), Earliest(g), query.interval)
                                => h \in ShutGroups(r)
  BY ShutFirst
<1>4. Rank(G, R, g) + 1 = Spot(r, g)
  <2>1. {y \in G : <<y, g>> \in R} =
          {h \in ShutGroups(r) : ByPeriod(Earliest(h), Earliest(g), query.interval)}
    <3>1. ShutGroups(r) \subseteq G
      BY ShutFirst
    <3> HIDE DEF R
    <3> QED BY <1>2, <1>3, <3>1
  <2> QED BY <2>1 DEF Rank, Spot
<1> HIDE DEF R
<1>5. Lists(L, G, R) /\ c \in Nat /\ Rank(G, R, g) \in 0..c - 1
  BY <1>1, <1>2, <1>3, ListedLists, Ranked DEF R
<1>6. \A n \in 1..c : L[n] \in G /\ Rank(G, R, L[n]) = n - 1 /\ DOMAIN L = 1..c
  BY <1>5 DEF Lists
<1>7. PICK n \in DOMAIN L : L[n] = g
  BY <1>1, <1>2, <1>3, <1>5, ListsAll
<1>8. DOMAIN L = 1..c
  BY <1>5 DEF Lists
<1> HIDE DEF c
<1>9. n = Spot(r, g) /\ n \in 1..c
  BY <1>4, <1>5, <1>6, <1>7, <1>8
<1>10. ASSUME NEW k \in 1..c, k # n PROVE L[k] \cap g = {}
  <2>1. L[k] # g
    <3>1. Rank(G, R, L[k]) = k - 1 /\ Rank(G, R, L[n]) = n - 1
      BY <1>6, <1>9, <1>10
    <3> QED BY <1>5, <1>7, <1>9, <1>10, <3>1
  <2>2. L[k] \in G
    BY <1>6, <1>10
  <2> QED BY <1>1, <1>3, <2>1, <2>2
<1> QED BY <1>5, <1>7, <1>9, <1>10 DEF c

\* A page has the groups that it should.
LEMMA SumsTurn ==
  ASSUME Typed, NEW r, Turns(r), Timed(r), Placed(r)
  PROVE  Placed(Turned(r))
<1> SUFFICES ASSUME query.kind \in Groups PROVE Placed(Turned(r))
  BY DEF Placed
<1> DEFINE t == Turned(r)
           G == GroupsOf(r.start, Upto(r), query.interval)
           L == Listed(G, ByPlace(G, query.interval))
           c == Cardinality(G)
           m == Len(r.got)
           P == Page(r)
           C == ShutGroups(r)
<1>0. /\ Stored /\ query \in Queries /\ Len(rows) \in Nat
      /\ query.interval \in Nat \ {0} /\ query.limit \in Nat \ {0}
      /\ r \in Reader(Len(rows)) /\ r.phase \in {"new", "reading"}
      /\ r.phase = "new" => r.got = <<>> /\ r.cursor = 0
      /\ t.phase \in {"reading", "done"}
  BY RowIs, TurnsIs, QueryIs DEF Typed
<1>1. r.cursor \in Nat
  BY <1>0 DEF Reader
<1>2. /\ t.start = r.start /\ t.end = r.end /\ t.horizon = r.horizon
      /\ t.phase = IF More(r) THEN "reading" ELSE "done"
      /\ t.cursor = IF ~More(r) THEN r.cursor ELSE r.cursor + Len(P)
  BY <1>0, TurnedIs
<1>3. /\ m \in Nat /\ DOMAIN r.got = 1..m /\ Len(P) \in Nat
      /\ Len(t.got) = m + Len(P) /\ DOMAIN t.got = 1..m + Len(P)
      /\ \A i \in 1..m : t.got[i] = r.got[i]
      /\ \A i \in 1..Len(P) : t.got[m + i] = P[i]
      /\ \A i \in DOMAIN t.got : i \in 1..m \/ i - m \in 1..Len(P)
  BY TurnedGot
<1>4. r.cursor = m
  <2>1. CASE r.phase = "new"
    BY <1>0, <2>1, EmptySeq
  <2>2. CASE r.phase = "reading"
    BY <2>2 DEF Placed
  <2> QED BY <1>0, <2>1, <2>2
<1>5. /\ Len(PageOf(r)) = IF m < c THEN c - m ELSE 0
      /\ \A i \in 1..Len(PageOf(r)) : m + i \in 1..c /\ PageOf(r)[i] = L[m + i]
  <2>1. PageOf(r) = GroupResult(query, r.start, Upto(r), r.cursor)
    BY DEF PageOf, Result, Groups
  <2> QED BY <1>0, <1>1, <1>4, <2>1, GroupResultIs
<1>6. /\ Len(P) = IF More(r) THEN query.limit ELSE Len(PageOf(r))
      /\ \A i \in 1..Len(P) : P[i] = PageOf(r)[i]
      /\ Len(PageOf(r)) \in Nat
  BY <1>0, <1>1, PageIs
<1>7. c \in Nat
  <2>1. IsFiniteSet(G)
    BY <1>0, GroupsAre
  <2> QED BY <2>1, FS_CardinalityType
<1>8. \A g \in C : /\ Spot(r, g) \in 1..c
                   /\ \A n \in 1..c : IF n = Spot(r, g) THEN L[n] = g ELSE L[n] \cap g = {}
  <2> TAKE g \in C
  <2> HIDE DEF G, L
  <2> QED BY ShutInPlace DEF G, L
<1>9. ShutGroups(t) = C /\ \A g : Spot(t, g) = Spot(r, g)
  <2>1. ShutGroups(t) = C
    BY <1>2 DEF ShutGroups, Shut
  <2> HIDE DEF t, C
  <2> QED BY <2>1 DEF Spot, C
<1> HIDE DEF t, G, L, c, m, P, C
<1>10. \A i \in 1..Len(P) : m + i \in 1..c /\ P[i] = L[m + i]
  <2>1. \A i \in 1..Len(P) : i \in 1..Len(PageOf(r))
    BY <1>0, <1>3, <1>6 DEF More
  <2> QED BY <1>5, <1>6, <2>1
<1>11. ASSUME NEW g \in C, NEW n \in DOMAIN t.got
       PROVE  IF n = Spot(r, g) THEN t.got[n] = g ELSE t.got[n] \cap g = {}
  <2>1. CASE n \in 1..m
    <3>1. r.phase = "reading"
      <4>1. m = 0 => FALSE
        BY <2>1
      <4>2. r.phase = "new" => m = 0
        BY <1>0, EmptySeq DEF m
      <4> QED BY <1>0, <4>1, <4>2
    <3>2. g \in ShutGroups(r) /\ n \in DOMAIN r.got
      BY <1>3, <2>1 DEF C
    <3>3. IF n = Spot(r, g) THEN r.got[n] = g ELSE r.got[n] \cap g = {}
      BY <3>1, <3>2 DEF Placed
    <3> QED BY <1>3, <2>1, <3>3
  <2>2. CASE n - m \in 1..Len(P)
    <3>1. m + (n - m) = n
      BY <1>3
    <3>2. n \in 1..c /\ t.got[n] = L[n]
      BY <1>3, <1>10, <2>2, <3>1
    <3> QED BY <1>8, <3>2
  <2> QED BY <1>3, <2>1, <2>2
<1>12. t.phase = "reading" => t.cursor = Len(t.got)
  BY <1>2, <1>3, <1>4
<1>13. ASSUME t.phase = "done", NEW g \in C PROVE Spot(r, g) \in DOMAIN t.got
  <2>1. c <= m + Len(P)
    BY <1>2, <1>3, <1>5, <1>6, <1>7, <1>13
  <2>2. Spot(r, g) \in 1..c
    BY <1>8
  <2> QED BY <1>3, <1>7, <2>1, <2>2
<1> QED BY <1>9, <1>11, <1>12, <1>13 DEF Placed, t

\* Every page is turned at such times.
LEMMA TurnsTimed ==
  ASSUME IdInv, Shows(reader), NEW r, Turns(r)
  PROVE  Timed(r)
<1>0. query \in Queries /\ clock \in Nat /\ r \in Reader(Len(rows)) /\ Typed
  BY TurnsIs, QueryIs DEF IdInv, Typed
<1>1. CASE Starts(r)
  <2>1. Lowest \in Nat /\ Lowest <= clock
    BY <1>0, TimesAre
  <2> QED BY <1>0, <1>1, <2>1 DEF Starts, Timed, Reader
<1>2. CASE r = reader /\ reader.phase = "reading"
  BY <1>0, <1>2 DEF IdInv, Horizons, Reading, Ends, Shows, Timed
<1> QED BY <1>1, <1>2 DEF Turns

\* No row joins these groups while the table grows, and none of them moves.
LEMMA SumsGrows ==
  ASSUME Typed, Placed(reader), Grows
  PROVE  Placed(reader)'
<1> DEFINE iv == query.interval
           P(i) == Period(i, iv)
           V == Within(reader.start, reader.end)
           C == ShutGroups(reader)
<1>0. /\ reader' = reader /\ query' = query /\ Grown(Late)
      /\ Len(rows) \in Nat /\ DOMAIN rows = 1..Len(rows)
      /\ reader.start \in Nat /\ reader.end \in Nat /\ reader.horizon \in Nat
      /\ Stored /\ Stored' /\ query \in Queries
  BY RowIs DEF Grows, Grown, Typed, Reader
<1> SUFFICES ASSUME query.kind \in Groups, reader.phase # "new" PROVE Placed(reader)'
  BY <1>0 DEF Placed
<1>1. /\ \A i \in DOMAIN rows : i \in DOMAIN rows' /\ rows'[i] = rows[i]
      /\ \A i \in DOMAIN rows' : i \in DOMAIN rows \/ i \in Len(rows) + 1..Len(rows')
  BY <1>0 DEF Grown
<1>2. iv \in Nat \ {0} /\ iv' = iv
  BY <1>0, QueryIs
<1>3. \A i \in DOMAIN rows' :
         /\ rows'[i].ts \in Nat
         /\ P(i)' \in Nat /\ P(i)' <= rows'[i].ts /\ rows'[i].ts < P(i)' + iv
         /\ i \in DOMAIN rows => P(i)' = P(i)
  <2> TAKE i \in DOMAIN rows'
  <2>1. rows'[i] \in Row
    <3>1. rows' \in Seq(Row) /\ Len(rows') \in Nat /\ DOMAIN rows' = 1..Len(rows')
      BY <1>0 DEF Grown, Stored
    <3> QED BY <3>1
  <2>2. rows'[i].ts \in Nat
    <3>1. \A t \in 0..MaxTime : t \in Nat
      BY QueriesAssumption
    <3> QED BY <2>1, <3>1 DEF Row
  <2>3. P(i)' = (rows'[i].ts \div iv) * iv
    BY <1>2 DEF Period
  <2>4. \A a \in Nat, b \in Nat \ {0} :
           (a \div b) * b \in Nat /\ (a \div b) * b <= a /\ a < (a \div b) * b + b
    OBVIOUS
  <2>5. i \in DOMAIN rows => P(i) = (rows'[i].ts \div iv) * iv
    BY <1>1 DEF Period
  <2> HIDE DEF P, iv
  <2> QED BY <1>2, <2>2, <2>3, <2>4, <2>5
<1>4. ASSUME NEW i \in DOMAIN rows', i \notin DOMAIN rows
      PROVE  rows'[i].ts >= reader.horizon
  <2>1. rows'[i].ts \in Late
    BY <1>0, <1>1, <1>4 DEF Grown
  <2> QED BY <1>0, <2>1 DEF Late
<1>5. \A i : i \in V' <=> /\ i \in DOMAIN rows' /\ rows'[i].ts >= reader.start
                          /\ rows'[i].ts <= reader.end
  BY <1>0, <1>3 DEF Within
<1>6. V = V' \cap DOMAIN rows
  BY <1>0, <1>1 DEF Within
<1>7. /\ Shut(reader) = {i \in V : \/ reader.end < reader.horizon
                                   \/ P(i) + iv <= reader.horizon}
      /\ Shut(reader)' = {i \in V' : \/ reader.end < reader.horizon
                                     \/ P(i)' + iv <= reader.horizon}
  BY <1>0 DEF Shut, Within, Period
<1>8. /\ \A i : GroupOf(i, reader.start, reader.end, iv) =
                  {j \in V : P(j) = P(i) /\ rows[j].key = rows[i].key}
      /\ \A i : GroupOf(i, reader.start, reader.end, iv)' =
                  {j \in V' : P(j)' = P(i)' /\ rows'[j].key = rows'[i].key}
  BY <1>0 DEF GroupOf, Within, Period
<1>9. C = {GroupOf(i, reader.start, reader.end, iv) : i \in Shut(reader)}
      /\ C' = {GroupOf(i, reader.start, reader.end, iv)' : i \in Shut(reader)'}
  BY <1>0 DEF ShutGroups, Shut, GroupOf, Within, Period
<1> HIDE DEF P, V, C, iv
<1>10. ASSUME NEW i \in Shut(reader)', NEW j \in V', P(j)' = P(i)' PROVE j \in DOMAIN rows
  <2>1. CASE reader.end < reader.horizon
    BY <1>0, <1>3, <1>4, <1>5, <2>1
  <2>2. CASE P(i)' + iv <= reader.horizon
    BY <1>0, <1>2, <1>3, <1>4, <1>5, <1>10, <2>2
  <2> QED BY <1>7, <2>1, <2>2
<1>11. Shut(reader)' = Shut(reader)
  <2>1. \A i \in Shut(reader)' : i \in DOMAIN rows
    BY <1>7, <1>10
  <2> QED BY <1>1, <1>3, <1>6, <1>7, <2>1
<1>12. ASSUME NEW i \in Shut(reader)
       PROVE  GroupOf(i, reader.start, reader.end, iv)' =
                GroupOf(i, reader.start, reader.end, iv)
  <2>1. i \in V /\ i \in DOMAIN rows /\ i \in DOMAIN rows' /\ P(i)' = P(i)
    BY <1>1, <1>3, <1>6, <1>7
  <2>2. \A j \in V' : P(j)' = P(i)' => j \in V /\ P(j)' = P(j) /\ rows'[j] = rows[j]
    BY <1>1, <1>3, <1>6, <1>10, <1>11
  <2>3. \A j \in V : j \in V' /\ P(j)' = P(j) /\ rows'[j] = rows[j]
    BY <1>1, <1>3, <1>6
  <2> DEFINE A == {j \in V : P(j) = P(i) /\ rows[j].key = rows[i].key}
             B == {j \in V' : P(j)' = P(i)' /\ rows'[j].key = rows'[i].key}
  <2>4. A \subseteq B
    BY <1>1, <2>1, <2>3
  <2>5. B \subseteq A
    BY <1>1, <2>1, <2>2
  <2>6. GroupOf(i, reader.start, reader.end, iv) = A
        /\ GroupOf(i, reader.start, reader.end, iv)' = B
    BY <1>8
  <2> HIDE DEF A, B
  <2> QED BY <2>4, <2>5, <2>6
<1>13. C' = C
  BY <1>9, <1>11, <1>12
<1>14. \A g \in C : Earliest(g) \in DOMAIN rows
  <2>1. C \subseteq GroupsOf(reader.start, reader.end, iv)
    BY <1>7, <1>9 DEF GroupsOf, V
  <2>2. \A g \in GroupsOf(reader.start, reader.end, iv) : Earliest(g) \in V
    BY <1>0, <1>2, GroupsAre DEF V
  <2> QED BY <1>6, <2>1, <2>2
<1>15. \A g, h \in C : ByPeriod(Earliest(h), Earliest(g), iv)' <=>
                         ByPeriod(Earliest(h), Earliest(g), iv)
  <2> TAKE g, h \in C
  <2> DEFINE a == Earliest(h)
             b == Earliest(g)
  <2>1. a \in DOMAIN rows /\ b \in DOMAIN rows
    BY <1>14
  <2>2. P(a)' = P(a) /\ P(b)' = P(b) /\ rows'[a] = rows[a] /\ rows'[b] = rows[b]
    BY <1>1, <1>3, <2>1
  <2> QED BY <1>2, <2>2 DEF ByPeriod, P
<1>16. ASSUME NEW g \in C PROVE Spot(reader, g)' = Spot(reader, g)
  <2>1. Spot(reader, g) = Cardinality({h \in C : ByPeriod(Earliest(h), Earliest(g), iv)}) + 1
    BY DEF Spot, C, iv
  <2>2. Spot(reader, g)' = Cardinality({h \in C' : ByPeriod(Earliest(h), Earliest(g), iv)'}) + 1
    BY <1>0 DEF Spot, C, iv
  <2>3. {h \in C' : ByPeriod(Earliest(h), Earliest(g), iv)'} =
          {h \in C : ByPeriod(Earliest(h), Earliest(g), iv)}
    BY <1>13, <1>15
  <2> QED BY <2>1, <2>2, <2>3
<1> QED BY <1>0, <1>13, <1>16 DEF Placed, C

\* Every step keeps what the pages have of the groups.
LEMMA NextSums ==
  IdInv /\ Shows(reader) /\ Placed(reader) /\ [Next]_vars => Placed(reader)'
<1> SUFFICES ASSUME IdInv, Shows(reader), Placed(reader), [Next]_vars
             PROVE  Placed(reader)'
  OBVIOUS
<1>0. Typed /\ Horizons
  BY DEF IdInv
<1>1. CASE Grows
  BY <1>0, <1>1, SumsGrows
<1>2. CASE TurnsPage
  <2>1. PICK r : Turns(r) /\ reader' = Turned(r)
    BY <1>2 DEF TurnsPage
  <2> DEFINE t == Turned(r)
  <2>2. UNCHANGED <<clock, rows, begun, query>>
    BY <1>2 DEF TurnsPage
  <2>3. Placed(r)
    <3>1. CASE Starts(r)
      BY <3>1 DEF Starts, Placed
    <3>2. CASE r = reader
      BY <3>2
    <3> QED BY <2>1, <3>1, <3>2 DEF Turns
  <2>4. Placed(t)
    BY <1>0, <2>1, <2>3, TurnsTimed, SumsTurn
  <2> HIDE DEF t
  <2>5. reader' = t
    BY <2>1 DEF t
  <2>6. Shut(reader)' = Shut(t)
    BY <2>2, <2>5 DEF Shut, Within, Period
  <2>7. ShutGroups(reader)' = ShutGroups(t)
    BY <2>2, <2>5, <2>6 DEF ShutGroups, GroupOf, Within, Period
  <2>8. \A h, g : ByPeriod(Earliest(h), Earliest(g), query.interval)' <=>
                  ByPeriod(Earliest(h), Earliest(g), query.interval)
    BY <2>2 DEF ByPeriod, Period
  <2>9. ASSUME NEW g PROVE Spot(reader, g)' = Spot(t, g)
    <3>1. {h \in ShutGroups(reader)' : ByPeriod(Earliest(h), Earliest(g), query.interval)'} =
            {h \in ShutGroups(t) : ByPeriod(Earliest(h), Earliest(g), query.interval)}
      BY <2>7, <2>8
    <3>2. Spot(reader, g)' =
            Cardinality({h \in ShutGroups(reader)' :
                           ByPeriod(Earliest(h), Earliest(g), query.interval)'}) + 1
      BY DEF Spot
    <3> QED BY <3>1, <3>2 DEF Spot
  <2> QED BY <2>2, <2>4, <2>5, <2>7, <2>9 DEF Placed
<1>3. CASE Leaves
  <2>1. reader'.phase = "new"
    BY <1>3 DEF Leaves, NoRead
  <2> QED BY <2>1 DEF Placed
<1> QED BY <1>0, <1>1, <1>2, <1>3, NextKinds

\* Whoever adds up the pages has every row of a period that was over at the first
\* request exactly once, in one group that is complete, although the cursor is an
\* offset into a list that every page computes anew: the groups that may still
\* change come after all of those that may not.
THEOREM ClosedPeriodsAreOnce == Spec => []ClosedPeriodsOnce
<1>1. Init => Placed(reader)
  BY DEF Init, NoRead, Placed
<1>2. IdInv /\ Shows(reader) /\ Placed(reader) /\ [Next]_vars => Placed(reader)'
  BY NextSums
<1>3. IdInv /\ Placed(reader) => ClosedPeriodsOnce
  <2> SUFFICES ASSUME IdInv, Placed(reader), query.kind \in Groups, reader.phase = "done",
                      NEW i \in Within(reader.start, reader.end),
                      \/ reader.end < reader.horizon
                      \/ Period(i, query.interval) + query.interval <= reader.horizon
               PROVE  \E n \in DOMAIN reader.got :
                        /\ reader.got[n] =
                             GroupOf(i, reader.start, reader.end, query.interval)
                        /\ \A m \in DOMAIN reader.got \ {n} : i \notin reader.got[m]
    BY DEF ClosedPeriodsOnce, Settled
  <2> DEFINE g == GroupOf(i, reader.start, reader.end, query.interval)
             n == Spot(reader, g)
  <2>1. g \in ShutGroups(reader) /\ i \in g
    BY DEF ShutGroups, Shut, GroupOf
  <2>2. n \in DOMAIN reader.got
    BY <2>1 DEF Placed
  <2>3. \A m \in DOMAIN reader.got :
          IF m = n THEN reader.got[m] = g ELSE reader.got[m] \cap g = {}
    BY <2>1 DEF Placed
  <2> HIDE DEF g, n
  <2>4. reader.got[n] = g /\ \A m \in DOMAIN reader.got \ {n} : i \notin reader.got[m]
    BY <2>1, <2>2, <2>3
  <2> QED BY <2>2, <2>4 DEF g
<1> QED BY <1>1, <1>2, <1>3, BucketInvariant, IdInvariant, PTL DEF Spec

================================================================================
