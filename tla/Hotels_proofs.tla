---------------------------- MODULE Hotels_proofs ----------------------------
(***************************************************************************)
(* HotelsService: proofs for any hotels, any imports and any search.       *)
(***************************************************************************)
EXTENDS Hotels, HotelImport_proofs

\* The hotels that have to come before h, and how many they are.
Ahead(q, h) == {g \in Selected(q) : Before(q, g, h)}

Rank(q, h) == Cardinality(Ahead(q, h))

\* How many of n rows are on a page.
Due(n, p, s) == IF n <= Offset(p, s) THEN 0 ELSE Shortest(s, n - Offset(p, s))

\* KeyIsOwn for any search.
Own(q, h) ==
    q.kind = "findNearest" \/ \A g \in Selected(q) : hotels[g].name = hotels[h].name => g = h

\* What the table holds is a hotel that it may come to hold.
PossibleInv == \A h \in StoredHotels : hotels[h] \in PossibleHotels

\* What belongs together in a walk through the search q.
Shape(q) ==
    /\ awaiting \subseteq Statements(q)
    /\ phase = "done" => awaiting = {}
    /\ older \subseteq Statements(q) \ awaiting
    /\ q.kind = "findWithinBounds" => page = 1 /\ size = MaxPins
    /\ rows \subseteq Selected(q) /\ got \subseteq Selected(q) /\ start \subseteq Selected(q)

\* The count and the number of rows against what the search finds now: neither is more,
\* and the answer that was last is exact.
Counts(q) ==
    /\ total <= Cardinality(Selected(q))
    /\ page > 1 => Offset(page, size) < Cardinality(Selected(q))
    /\ "page" \in awaiting /\ "count" \in (Statements(q) \ awaiting) \ older
         => total = Cardinality(Selected(q))
    /\ "count" \in awaiting /\ "page" \notin awaiting =>
         /\ Cardinality(rows) <= Due(Cardinality(Selected(q)), page, size)
         /\ "page" \notin older => Cardinality(rows) = Due(Cardinality(Selected(q)), page, size)
    /\ awaiting = {} /\ "count" \in Statements(q) =>
         /\ "count" \notin older => Cardinality(rows) <= Due(total, page, size)
         /\ "page" \notin older => Cardinality(rows) >= Due(total, page, size)
    /\ "page" \notin awaiting /\ rows = {} => page = 1

\* Every hotel that was there and whose place lies in the pages so far has been seen.
Seen(q) ==
    /\ phase = "asking" =>
         /\ \A h \in start : Own(q, h) /\ Rank(q, h) < Offset(page, size) => h \in got
         /\ "page" \notin awaiting =>
              \A h \in start : Own(q, h) /\ Rank(q, h) < Offset(page, size) + size
                                 => h \in got \cup rows
         /\ /\ awaiting = {} /\ "count" \in Statements(q) \ older
            /\ total <= Offset(page, size) + size
            => \A h \in start : Own(q, h) => h \in got \cup rows
         /\ q.kind = "findWithinBounds" =>
              /\ got = {}
              /\ "page" \notin awaiting /\ Cardinality(rows) < MaxPins => start \subseteq rows
    /\ phase = "done" =>
         /\ q.kind = "findWithinBounds" /\ Cardinality(got) < MaxPins => start \subseteq got
         /\ q.kind # "findWithinBounds" /\ "count" \notin older
              => \A h \in start : Own(q, h) => h \in got

\* While nothing comes and no two names are the same, the pages before hold the first
\* places and this page those after them.
Apart(q) ==
    ~ grown /\ (\A h \in Selected(q) : Own(q, h)) =>
       /\ ~ again
       /\ phase = "asking" =>
            /\ \A h \in got : Rank(q, h) < Offset(page, size)
            /\ "page" \notin awaiting =>
                 \A h \in rows : /\ Offset(page, size) <= Rank(q, h)
                                  /\ Rank(q, h) < Offset(page, size) + size

WalkTypeOK ==
    /\ phase \in {"idle", "asking", "done"}
    /\ query \in Queries \cup {NoQuery}
    /\ size \in Nat \ {0} /\ page \in Nat \ {0}
    /\ awaiting \in SUBSET {"page", "count"}
    /\ rows \subseteq HotelIds /\ Cardinality(rows) <= size
    /\ total \in Nat
    /\ got \subseteq HotelIds /\ start \subseteq HotelIds
    /\ again \in BOOLEAN /\ grown \in BOOLEAN
    /\ older \in SUBSET {"page", "count"}

WalkInv ==
    /\ phase = "idle" => awaiting = {} /\ rows = {} /\ total = 0 /\ got = {} /\ ~ again /\ older = {}
    /\ phase # "idle" => query \in Queries
    /\ \A q \in Queries : phase # "idle" /\ query = q
                             => Shape(q) /\ Counts(q) /\ Seen(q) /\ Apart(q)

Inv == ImportInv /\ PossibleInv /\ WalkTypeOK /\ WalkInv

-----------------------------------------------------------------------------
(***************************************************************************)
(* The order of the rows                                                   *)
(***************************************************************************)

\* The two ORDER BY clauses.
LEMMA BeforeByDistance ==
  ASSUME NEW q, q.kind = "findNearest", NEW g, NEW h
  PROVE  Before(q, g, h) <=>
            \/ Nearness(q.point, hotels[g]) < Nearness(q.point, hotels[h])
            \/ Nearness(q.point, hotels[g]) = Nearness(q.point, hotels[h]) /\ g < h
BY Zenon DEF Before

\* Searches by text and by map are ordered by name.
LEMMA BeforeByName ==
  ASSUME NEW q, q.kind # "findNearest", NEW g, NEW h
  PROVE  Before(q, g, h) <=> hotels[g].name < hotels[h].name
BY Zenon DEF Before

\* What a search finds is in the table, and finitely many.
LEMMA SelectedFinite ==
  ASSUME NEW q
  PROVE  /\ Selected(q) \subseteq StoredHotels /\ StoredHotels \subseteq HotelIds
         /\ IsFiniteSet(Selected(q)) /\ Cardinality(Selected(q)) \in Nat
<1>1. Selected(q) \subseteq StoredHotels /\ StoredHotels \subseteq HotelIds
  BY DEF Selected, StoredHotels
<1>2. IsFiniteSet(Selected(q))
  BY <1>1, IdsAssumption, FS_Subset
<1>. QED
  BY <1>1, <1>2, FS_CardinalityType

\* The hotels ahead of one are finitely many.
LEMMA RankType ==
  ASSUME NEW q, NEW h
  PROVE  Rank(q, h) \in Nat /\ IsFiniteSet(Ahead(q, h))
<1>1. Ahead(q, h) \subseteq Selected(q)
  BY DEF Ahead
<1>2. IsFiniteSet(Ahead(q, h))
  BY <1>1, SelectedFinite, FS_Subset
<1>. QED
  BY <1>2, FS_CardinalityType DEF Rank

\* A hotel with a key of its own has its place among the others.
LEMMA OwnKeyOrders ==
  ASSUME ImportTypeOK, PossibleInv, NEW q \in Queries, NEW h \in Selected(q), Own(q, h)
  PROVE  /\ ~ Before(q, h, h)
         /\ \A g \in Selected(q) : g # h => (Before(q, g, h) <=> ~ Before(q, h, g))
<1>1. \A g \in Selected(q) : hotels[g] \in Hotel /\ hotels[g] \in PossibleHotels /\ g \in Nat
  BY IdsAssumption DEF Selected, StoredHotels, PossibleInv, ImportTypeOK
<1>2. CASE q.kind = "findNearest"
  <2>1. q.point \in Points
    BY <1>2 DEF Queries
  <2>2. \A g \in Selected(q) : Nearness(q.point, hotels[g]) \in Int
    BY <1>1, <2>1, NearnessAssumption
  <2>3. \A f, g : Before(q, f, g) <=>
            \/ Nearness(q.point, hotels[f]) < Nearness(q.point, hotels[g])
            \/ Nearness(q.point, hotels[f]) = Nearness(q.point, hotels[g]) /\ f < g
    BY <1>2, BeforeByDistance
  <2>. QED
    BY <1>1, <2>2, <2>3
<1>3. CASE q.kind # "findNearest"
  <2>1. \A g \in Selected(q) : hotels[g].name \in Nat
    BY <1>1 DEF Hotel
  <2>2. \A f, g : Before(q, f, g) <=> hotels[f].name < hotels[g].name
    BY <1>3, BeforeByName
  <2>. QED
    BY <1>3, <2>1, <2>2 DEF Own
<1>. QED
  BY <1>2, <1>3

\* In whatever order the database puts the rows, such a hotel comes at the place that
\* the number of those ahead of it gives.
LEMMA PlaceIsRank ==
  ASSUME ImportTypeOK, PossibleInv, NEW q \in Queries, NEW order \in Orders(q),
         NEW k \in 1 .. Cardinality(Selected(q)), Own(q, order[k])
  PROVE  Rank(q, order[k]) = k - 1
<1>. DEFINE n == Cardinality(Selected(q))
            f == [i \in 1 .. k - 1 |-> order[i]]
<1>1. n \in Nat /\ k \in Nat /\ k <= n
  BY SelectedFinite
<1>2. /\ order \in [1 .. n -> Selected(q)]
      /\ \A i, j \in 1 .. n : order[i] = order[j] => i = j
      /\ \A g \in Selected(q) : \E i \in 1 .. n : order[i] = g
  BY DEF Orders, Bijection, Injection, Surjection, IsInjective
<1>3. \A i, j \in 1 .. n : i < j => ~ Before(q, order[j], order[i])
  BY <1>2 DEF Orders
<1>4. \A i \in 1 .. n : Before(q, order[i], order[k]) <=> i < k
  <2>. TAKE i \in 1 .. n
  <2>1. order[k] \in Selected(q) /\ order[i] \in Selected(q)
    BY <1>2
  <2>2. ~ Before(q, order[k], order[k])
        /\ (order[i] # order[k] =>
              (Before(q, order[i], order[k]) <=> ~ Before(q, order[k], order[i])))
    BY <2>1, OwnKeyOrders
  <2>3. CASE i < k
    BY <1>1, <1>2, <1>3, <2>2, <2>3
  <2>4. CASE i = k
    BY <1>1, <2>2, <2>4
  <2>5. CASE i > k
    BY <1>1, <1>3, <2>5
  <2>. QED
    BY <1>1, <2>3, <2>4, <2>5
<1>5. f \in Bijection(1 .. k - 1, Ahead(q, order[k]))
  <2>1. \A i \in 1 .. k - 1 : i \in 1 .. n /\ i < k /\ f[i] = order[i]
    BY <1>1
  <2>2. f \in [1 .. k - 1 -> Ahead(q, order[k])]
    BY <1>2, <1>4, <2>1 DEF Ahead
  <2>3. \A i, j \in 1 .. k - 1 : f[i] = f[j] => i = j
    BY <1>2, <2>1
  <2>4. ASSUME NEW g \in Ahead(q, order[k])
        PROVE  \E i \in 1 .. k - 1 : f[i] = g
    <3>1. PICK i \in 1 .. n : order[i] = g
      BY <1>2 DEF Ahead
    <3>2. i < k
      BY <1>4, <3>1 DEF Ahead
    <3>. QED
      BY <1>1, <3>1, <3>2
  <2>. QED
    BY <2>2, <2>3, <2>4 DEF Bijection, Injection, Surjection, IsInjective
<1>6. Cardinality(Ahead(q, order[k])) = Cardinality(1 .. k - 1)
  <2>1. ExistsBijection(1 .. k - 1, Ahead(q, order[k]))
    BY <1>5 DEF ExistsBijection
  <2>2. IsFiniteSet(1 .. k - 1)
    BY <1>1, FS_Interval
  <2>. QED
    BY <2>1, <2>2, FS_Bijection
<1>7. Cardinality(1 .. k - 1) = k - 1
  <2>1. Cardinality(1 .. k - 1) = IF 1 > k - 1 THEN 0 ELSE (k - 1) - 1 + 1
    BY <1>1, FS_Interval
  <2>. QED
    BY <1>1, <2>1
<1>. QED
  BY <1>6, <1>7 DEF Rank

\* The rows of a page: how many they are, and which of the hotels with a key of their
\* own they are.
LEMMA SliceIsPage ==
  ASSUME ImportTypeOK, PossibleInv, NEW q \in Queries, NEW offset \in Nat, NEW limit \in Nat,
         NEW P \in Slices(q, offset, limit)
  PROVE  /\ P \subseteq Selected(q)
         /\ Cardinality(P) = IF Cardinality(Selected(q)) <= offset THEN 0
                             ELSE Shortest(limit, Cardinality(Selected(q)) - offset)
         /\ \A h \in Selected(q) : Own(q, h) =>
               (h \in P <=> offset <= Rank(q, h) /\ Rank(q, h) < offset + limit)
<1>. DEFINE n == Cardinality(Selected(q))
<1>1. n \in Nat
  BY SelectedFinite
<1>0. PICK order \in Orders(q) :
         P = {order[k] : k \in (offset + 1 .. offset + limit) \cap DOMAIN order}
  BY DEF Slices
<1>2. /\ order \in [1 .. n -> Selected(q)]
      /\ \A i, j \in 1 .. n : order[i] = order[j] => i = j
      /\ \A g \in Selected(q) : \E i \in 1 .. n : order[i] = g
  BY DEF Orders, Bijection, Injection, Surjection, IsInjective
<1>. DEFINE last == IF n <= offset + limit THEN n ELSE offset + limit
            K == offset + 1 .. last
            f == [k \in K |-> order[k]]
<1>3. P = {order[k] : k \in K} /\ \A k \in K : k \in 1 .. n
  <2>1. DOMAIN order = 1 .. n
    BY <1>2
  <2>2. (offset + 1 .. offset + limit) \cap (1 .. n) = K
    BY <1>1
  <2>. QED
    BY <1>0, <1>1, <2>1, <2>2
<1>4. P \subseteq Selected(q)
  BY <1>2, <1>3
<1>i. last \in Int /\ offset + 1 \in Int
  BY <1>1
<1>5. Cardinality(P) = Cardinality(K)
  <2>1. f \in Bijection(K, P)
    <3>1. f \in [K -> P] /\ \A g \in P : \E k \in K : f[k] = g
      BY <1>3
    <3>2. \A i, j \in K : f[i] = f[j] => i = j
      BY <1>2, <1>3
    <3>. QED
      BY <3>1, <3>2 DEF Bijection, Injection, Surjection, IsInjective
  <2>2. ExistsBijection(K, P)
    BY <2>1 DEF ExistsBijection
  <2>3. IsFiniteSet(K)
    BY <1>i, FS_Interval
  <2>. QED
    BY <2>2, <2>3, FS_Bijection
<1>6. Cardinality(K) = IF n <= offset THEN 0 ELSE Shortest(limit, n - offset)
  <2>1. Cardinality(K) = IF offset + 1 > last THEN 0 ELSE last - (offset + 1) + 1
    BY <1>i, FS_Interval
  <2>2. (IF offset + 1 > last THEN 0 ELSE last - (offset + 1) + 1)
           = IF n <= offset THEN 0 ELSE Shortest(limit, n - offset)
    BY <1>1 DEF Shortest
  <2>. QED
    BY <2>1, <2>2
<1>7. ASSUME NEW h \in Selected(q), Own(q, h)
      PROVE  h \in P <=> offset <= Rank(q, h) /\ Rank(q, h) < offset + limit
  <2>1. PICK k \in 1 .. n : order[k] = h
    BY <1>2
  <2>2. Rank(q, h) = k - 1
    BY <1>7, <2>1, PlaceIsRank
  <2>3. h \in P <=> k \in K
    BY <1>2, <1>3, <2>1
  <2>4. k \in K <=> offset <= k - 1 /\ k - 1 < offset + limit
    BY <1>1
  <2>. QED
    BY <2>2, <2>3, <2>4
<1>. QED
  BY <1>4, <1>5, <1>6, <1>7

-----------------------------------------------------------------------------
(***************************************************************************)
(* The pages                                                               *)
(***************************************************************************)

\* Each page begins where the last one ends.
LEMMA Pages ==
  ASSUME NEW p \in Nat \ {0}, NEW s \in Nat \ {0}
  PROVE  /\ Offset(p, s) \in Nat /\ Offset(1, s) = 0
         /\ Offset(p + 1, s) = Offset(p, s) + s
<1>1. (p - 1) * s \in Nat /\ 1 - 1 = 0 /\ 0 * s = 0
  OBVIOUS
<1>2. ((p + 1) - 1) * s = (p - 1) * s + s
  OBVIOUS
<1>. QED
  BY <1>1, <1>2 DEF Offset

\* Math.ceil(total / pageSize) is less than a page if the rows end before it.
LEMMA MorePages ==
  ASSUME NEW n \in Nat, NEW p \in Nat \ {0}, NEW s \in Nat \ {0}
  PROVE  p < PageCount(n, s) <=> n > Offset(p, s) + s
<1>. DEFINE m == n + s - 1
            d == m \div s
<1>1. m \in Nat /\ d \in Nat
  OBVIOUS
<1>2. s * d <= m /\ m < s * d + s
  OBVIOUS
<1>3. Offset(p, s) + s = s * p
  BY DEF Offset
<1>4. CASE p < d
  <2>1. d = p + 1 + (d - p - 1) /\ d - p - 1 \in Nat
    BY <1>1, <1>4
  <2>2. s * (d - p - 1) \in Nat /\ s * d = s * p + s + s * (d - p - 1)
    BY <2>1
  <2>3. s * p \in Nat
    OBVIOUS
  <2>4. s * p + s <= m
    BY <1>1, <1>2, <2>2, <2>3
  <2>. QED
    BY <1>3, <1>4, <2>3, <2>4 DEF PageCount
<1>5. CASE p >= d
  <2>1. p = d + (p - d) /\ p - d \in Nat
    BY <1>1, <1>5
  <2>2. s * (p - d) \in Nat /\ s * p = s * d + s * (p - d)
    BY <1>1, <2>1
  <2>3. s * d \in Nat /\ s * p \in Nat
    BY <1>1
  <2>4. m < s * p + s
    BY <1>1, <1>2, <2>2, <2>3
  <2>. QED
    BY <1>3, <1>5, <2>3, <2>4 DEF PageCount
<1>. QED
  BY <1>1, <1>4, <1>5

-----------------------------------------------------------------------------
(***************************************************************************)
(* The table grows                                                         *)
(***************************************************************************)

\* Hotels come and stay as they are.
LEMMA TableGrows ==
  ASSUME ImportInv, PossibleInv, [ImportNext]_importVars
  PROVE  /\ StoredHotels \subseteq StoredHotels'
         /\ \A h \in StoredHotels : hotels'[h] = hotels[h]
         /\ PossibleInv'
<1>1. CASE UNCHANGED hotels
  BY <1>1 DEF StoredHotels, PossibleInv, PossibleHotels
<1>2. ASSUME NEW i \in Runs, NEW k \in Outstanding(i), Store(i, k)
      PROVE  /\ StoredHotels \subseteq StoredHotels'
             /\ \A h \in StoredHotels : hotels'[h] = hotels[h]
             /\ PossibleInv'
  <2>1. k \in LinesOf(i)
    BY OutstandingLines DEF ImportInv
  <2>2. PICK h \in HotelIds \ StoredHotels : hotels' = [hotels EXCEPT ![h] = HotelOf(i, k)]
    BY <1>2 DEF Store
  <2>3. /\ StoredHotels' = StoredHotels \cup {h}
        /\ \A g \in StoredHotels : hotels'[g] = hotels[g]
    BY <2>1, <2>2, StoreAdds DEF ImportInv, Gained
  <2>4. hotels'[h] = HotelOf(i, k)
    BY <2>2 DEF ImportInv, ImportTypeOK
  <2>5. HotelOf(i, k) \in PossibleHotels
    <3>1. k \in DOMAIN File[i]
      BY <2>1, FileAssumption DEF LinesOf
    <3>. QED
      BY <3>1 DEF PossibleHotels, HotelOf
  <2>6. PossibleInv'
    <3>1. \A g \in StoredHotels \cup {h} : hotels'[g] \in PossibleHotels
      BY <2>3, <2>4, <2>5 DEF PossibleInv
    <3>. QED
      BY <2>3, <3>1 DEF PossibleInv, PossibleHotels
  <2>. QED
    BY <2>3, <2>6
<1>. QED
  BY <1>1, <1>2, ThreeKindsOfStep DEF ImportInv

\* So a search finds what it found, in the same order, and maybe more; a hotel's key may
\* cease to be its own, and its place may move back.
LEMMA SearchGrows ==
  ASSUME ImportInv, PossibleInv, [ImportNext]_importVars, NEW q
  PROVE  /\ Selected(q) \subseteq Selected(q)'
         /\ Cardinality(Selected(q)) <= Cardinality(Selected(q)')
         /\ Cardinality(Selected(q)') \in Nat
         /\ \A h \in Selected(q) :
               /\ Rank(q, h) <= Rank(q, h)' /\ Rank(q, h)' \in Nat
               /\ Own(q, h)' => Own(q, h)
               /\ Selected(q)' = Selected(q) => Rank(q, h)' = Rank(q, h) /\ (Own(q, h) => Own(q, h)')
<1>1. /\ StoredHotels \subseteq StoredHotels'
      /\ \A h \in StoredHotels : hotels'[h] = hotels[h]
  BY TableGrows
<1>2. Selected(q) \subseteq Selected(q)' /\ \A h \in Selected(q) : hotels'[h] = hotels[h]
  BY <1>1, Zenon DEF Selected
<1>3. IsFiniteSet(Selected(q)')
  <2>1. Selected(q)' \subseteq HotelIds
    BY DEF Selected, StoredHotels
  <2>. QED
    BY <2>1, IdsAssumption, FS_Subset
<1>4. \A g, h \in Selected(q) : Before(q, g, h)' <=> Before(q, g, h)
  BY <1>2, Zenon DEF Before
<1>5. ASSUME NEW h \in Selected(q)
      PROVE  /\ Rank(q, h) <= Rank(q, h)' /\ Rank(q, h)' \in Nat
             /\ Own(q, h)' => Own(q, h)
             /\ Selected(q)' = Selected(q)
                  => Rank(q, h)' = Rank(q, h) /\ (Own(q, h) => Own(q, h)')
  <2>1. Ahead(q, h) \subseteq Ahead(q, h)' /\ Ahead(q, h)' \subseteq Selected(q)'
    BY <1>2, <1>4 DEF Ahead
  <2>2. IsFiniteSet(Ahead(q, h)')
    BY <1>3, <2>1, FS_Subset
  <2>3. Rank(q, h) <= Rank(q, h)' /\ Rank(q, h)' \in Nat
    BY <2>1, <2>2, FS_Subset, FS_CardinalityType DEF Rank
  <2>4. Own(q, h)' => Own(q, h)
    BY <1>2 DEF Own
  <2>5. ASSUME Selected(q)' = Selected(q)
        PROVE  Rank(q, h)' = Rank(q, h) /\ (Own(q, h) => Own(q, h)')
    <3>1. Ahead(q, h)' = Ahead(q, h)
      BY <1>4, <2>5 DEF Ahead
    <3>2. Own(q, h) => Own(q, h)'
      BY <1>2, <2>5 DEF Own
    <3>. QED
      BY <3>1, <3>2 DEF Rank
  <2>. QED
    BY <2>3, <2>4, <2>5
<1>. QED
  BY <1>2, <1>3, <1>5, FS_Subset, FS_CardinalityType

\* Reading changes nothing.
LEMMA SameTable ==
  ASSUME UNCHANGED hotels
  PROVE  \A q : /\ Selected(q)' = Selected(q)
                /\ \A h : Rank(q, h)' = Rank(q, h) /\ (Own(q, h)' <=> Own(q, h))
<1>1. \A q : Selected(q)' = Selected(q)
  BY DEF Selected, StoredHotels
<1>2. \A q, g, h : Before(q, g, h)' <=> Before(q, g, h)
  BY Zenon DEF Before
<1>3. \A q, h : Own(q, h)' <=> Own(q, h)
  BY <1>1 DEF Own
<1>4. \A q, h : Ahead(q, h)' = Ahead(q, h)
  BY <1>1, <1>2 DEF Ahead
<1>5. \A q, h : Rank(q, h)' = Rank(q, h)
  BY <1>4 DEF Rank
<1>. QED
  BY <1>1, <1>3, <1>5

\* A hotel with a key of its own has a place within what the search finds.
LEMMA RankBelow ==
  ASSUME ImportTypeOK, PossibleInv, NEW q \in Queries, NEW h \in Selected(q), Own(q, h)
  PROVE  Rank(q, h) < Cardinality(Selected(q))
<1>1. Ahead(q, h) \subseteq Selected(q) \ {h}
  BY OwnKeyOrders DEF Ahead
<1>2. IsFiniteSet(Selected(q)) /\ Cardinality(Selected(q)) \in Nat
  BY SelectedFinite
<1>3. /\ IsFiniteSet(Selected(q) \ {h})
      /\ Cardinality(Selected(q) \ {h}) = Cardinality(Selected(q)) - 1
  BY <1>2, FS_RemoveElement
<1>4. Rank(q, h) <= Cardinality(Selected(q)) - 1 /\ Rank(q, h) \in Nat
  BY <1>1, <1>3, FS_Subset, RankType DEF Rank
<1>. QED
  BY <1>2, <1>4

\* The map view has no count.
LEMMA QueryKinds ==
  ASSUME NEW q \in Queries
  PROVE  /\ q.kind = "findWithinBounds" => Statements(q) = {"page"}
         /\ q.kind # "findWithinBounds" => Statements(q) = {"page", "count"}
BY DEF Statements

-----------------------------------------------------------------------------
(***************************************************************************)
(* The steps of a walk                                                     *)
(***************************************************************************)

\* Open keeps the invariant of the walk.
LEMMA OpenStep ==
  ASSUME Inv, NEW q \in Queries, NEW s \in PageSizes \cup {MaxPins}, Open(q, s)
  PROVE  Shape(q)' /\ Counts(q)' /\ Seen(q)' /\ Apart(q)'
<1>1. /\ phase' = "asking" /\ page' = 1 /\ size' = s /\ s \in Nat \ {0}
      /\ q.kind = "findWithinBounds" => s = MaxPins
      /\ awaiting' = Statements(q) /\ start' = Selected(q)
      /\ rows' = {} /\ got' = {} /\ total' = 0 /\ older' = {} /\ again' = again /\ ~ again
  BY SizesAssumption DEF Open, Inv, WalkInv
<1>2. Selected(q)' = Selected(q)
  BY SameTable DEF Open, importVars
<1>3. Cardinality(Selected(q)) \in Nat /\ Offset(1, s) = 0
  BY <1>1, SelectedFinite, Pages
<1>4. "page" \in Statements(q)
  BY DEF Statements
<1>5. Shape(q)'
  BY <1>1, <1>2 DEF Shape
<1>6. Counts(q)'
  BY <1>1, <1>2, <1>3, <1>4 DEF Counts
<1>7. Seen(q)'
  <2>1. \A h : Rank(q, h)' \in Nat
    BY SameTable, RankType DEF Open, importVars
  <2>. QED
    BY <1>1, <1>3, <1>4, <2>1 DEF Seen
<1>8. Apart(q)'
  BY <1>1, <1>4 DEF Apart
<1>. QED
  BY <1>5, <1>6, <1>7, <1>8

\* What is at hand in every step of a walk.
LEMMA AtHand ==
  ASSUME Inv, NEW q \in Queries, phase # "idle", query = q
  PROVE  /\ Shape(q) /\ Counts(q) /\ Seen(q) /\ Apart(q)
         /\ Cardinality(Selected(q)) \in Nat /\ Cardinality(rows) \in Nat /\ total \in Nat
         /\ size \in Nat \ {0} /\ page \in Nat \ {0}
         /\ Offset(page, size) \in Nat /\ Offset(page + 1, size) = Offset(page, size) + size
         /\ \A h : Rank(q, h) \in Nat
         /\ phase \in {"asking", "done"}
<1>1. Cardinality(rows) \in Nat
  BY IdsAssumption, FS_Subset, FS_CardinalityType DEF Inv, WalkTypeOK
<1>. QED
  BY <1>1, SelectedFinite, Pages, RankType DEF Inv, WalkInv, WalkTypeOK

\* The page statement keeps it.
LEMMA PageStep ==
  ASSUME Inv, NEW q \in Queries, phase # "idle", query = q, PageQuery
  PROVE  /\ Shape(q)' /\ Counts(q)' /\ Seen(q)' /\ Apart(q)'
         /\ rows' \subseteq HotelIds /\ Cardinality(rows') <= size
<1>. DEFINE n == Cardinality(Selected(q))
            o == Offset(page, size)
<1>1. /\ "page" \in awaiting /\ awaiting' = awaiting \ {"page"}
      /\ rows' \in Slices(q, o, size)
      /\ UNCHANGED <<phase, query, size, page, total, got, again, start, grown, older>>
      /\ UNCHANGED hotels
  BY DEF PageQuery, importVars
<1>2. /\ Shape(q) /\ Counts(q) /\ Seen(q) /\ Apart(q)
      /\ n \in Nat /\ total \in Nat /\ o \in Nat /\ size \in Nat \ {0} /\ page \in Nat \ {0}
      /\ phase = "asking" /\ \A h : Rank(q, h) \in Nat
  BY <1>1, AtHand DEF Shape
<1>3. /\ rows' \subseteq Selected(q)
      /\ Cardinality(rows') = Due(n, page, size)
      /\ \A h \in Selected(q) : Own(q, h) =>
            (h \in rows' <=> o <= Rank(q, h) /\ Rank(q, h) < o + size)
  <2>1. ImportTypeOK /\ PossibleInv
    BY DEF Inv, ImportInv
  <2>2. o \in Nat /\ size \in Nat
    BY <1>2
  <2>. QED
    BY <1>1, <2>1, <2>2, SliceIsPage DEF Due
<1>4. /\ Selected(q)' = Selected(q)
      /\ \A h : Rank(q, h)' = Rank(q, h) /\ (Own(q, h)' <=> Own(q, h))
  BY <1>1, SameTable
<1>5. Shape(q)'
  BY <1>1, <1>2, <1>3, <1>4 DEF Shape
<1>6. Cardinality(rows') \in Nat /\ Cardinality(rows') <= size
  BY <1>2, <1>3 DEF Due, Shortest
<1>7. Counts(q)'
  <2>1. rows' = {} => page = 1
    <3>1. Cardinality({}) = 0
      BY FS_EmptySet
    <3>2. rows' = {} => n <= o
      BY <1>2, <1>3, <3>1 DEF Due, Shortest
    <3>. QED
      BY <1>2, <3>2 DEF Counts
  <2>2. awaiting' = {} /\ "count" \in Statements(q) =>
         /\ "count" \notin older => Cardinality(rows') <= Due(total, page, size)
         /\ Cardinality(rows') >= Due(total, page, size)
    <3>. SUFFICES ASSUME awaiting' = {}, "count" \in Statements(q)
         PROVE  /\ "count" \notin older => Cardinality(rows') <= Due(total, page, size)
                /\ Cardinality(rows') >= Due(total, page, size)
      OBVIOUS
    <3>1. "count" \notin awaiting
      BY <1>1
    <3>2. total <= n /\ ("count" \notin older => total = n)
      BY <1>1, <1>2, <3>1 DEF Counts
    <3>. QED
      BY <1>2, <1>3, <1>6, <3>2 DEF Due, Shortest
  <2>. QED
    BY <1>1, <1>2, <1>3, <1>4, <1>6, <2>1, <2>2 DEF Counts
<1>8. Seen(q)'
  <2>1. \A h \in start : h \in Selected(q)
    BY <1>2 DEF Shape
  <2>2. \A h \in start : Own(q, h) /\ Rank(q, h) < o => h \in got
    BY <1>2 DEF Seen
  <2>3. ASSUME NEW h \in start, Own(q, h), Rank(q, h) < o + size
        PROVE  h \in got \cup rows'
    BY <1>2, <1>3, <2>1, <2>2, <2>3
  <2>4. ASSUME awaiting' = {}, "count" \in Statements(q) \ older, total <= o + size,
               NEW h \in start, Own(q, h)
        PROVE  h \in got \cup rows'
    <3>1. total = n
      BY <1>1, <1>2, <2>4 DEF Counts
    <3>2. Rank(q, h) < n
      BY <2>1, <2>4, RankBelow DEF Inv, ImportInv
    <3>3. Rank(q, h) < o + size
      BY <1>2, <2>4, <3>1, <3>2
    <3>. QED
      BY <2>3, <2>4, <3>3
  <2>5. ASSUME q.kind = "findWithinBounds"
        PROVE  got = {} /\ (Cardinality(rows') < MaxPins => start \subseteq rows')
    <3>1. got = {} /\ page = 1 /\ size = MaxPins
      BY <1>2, <2>5 DEF Seen, Shape
    <3>2. o = 0
      BY <1>2, <3>1, Pages
    <3>3. Cardinality(rows') < MaxPins => Cardinality(rows') = n
      BY <1>2, <1>3, <3>1, <3>2 DEF Due, Shortest
    <3>4. Cardinality(rows') < MaxPins => rows' = Selected(q)
      BY <1>3, <3>3, SelectedFinite, FS_Subset
    <3>. QED
      BY <2>1, <3>1, <3>4
  <2>. QED
    BY <1>1, <1>2, <1>4, <2>2, <2>3, <2>4, <2>5 DEF Seen
<1>9. Apart(q)'
  BY <1>1, <1>2, <1>3, <1>4 DEF Apart
<1>. QED
  BY <1>3, <1>5, <1>6, <1>7, <1>8, <1>9, SelectedFinite

\* The count statement keeps it.
LEMMA CountStep ==
  ASSUME Inv, NEW q \in Queries, phase # "idle", query = q, CountQuery
  PROVE  Shape(q)' /\ Counts(q)' /\ Seen(q)' /\ Apart(q)'
<1>. DEFINE n == Cardinality(Selected(q))
            o == Offset(page, size)
<1>1. /\ "count" \in awaiting /\ awaiting' = awaiting \ {"count"} /\ total' = n
      /\ UNCHANGED <<phase, query, size, page, rows, got, again, start, grown, older>>
      /\ UNCHANGED hotels
  BY DEF CountQuery, importVars
<1>2. /\ Shape(q) /\ Counts(q) /\ Seen(q) /\ Apart(q)
      /\ n \in Nat /\ o \in Nat /\ size \in Nat \ {0} /\ page \in Nat \ {0}
      /\ Cardinality(rows) \in Nat /\ phase = "asking" /\ \A h : Rank(q, h) \in Nat
      /\ q.kind # "findWithinBounds"
  BY <1>1, AtHand, QueryKinds DEF Shape
<1>3. /\ Selected(q)' = Selected(q)
      /\ \A h : Rank(q, h)' = Rank(q, h) /\ (Own(q, h)' <=> Own(q, h))
  BY <1>1, SameTable
<1>4. Shape(q)'
  BY <1>1, <1>2, <1>3 DEF Shape
<1>5. Counts(q)'
  BY <1>1, <1>2, <1>3 DEF Counts, Due, Shortest
<1>6. Seen(q)'
  <2>1. ASSUME awaiting' = {}, n <= o + size, NEW h \in start, Own(q, h)
        PROVE  h \in got \cup rows
    <3>1. h \in Selected(q)
      BY <1>2 DEF Shape
    <3>2. Rank(q, h) < n
      BY <2>1, <3>1, RankBelow DEF Inv, ImportInv
    <3>3. Rank(q, h) < o + size
      BY <1>2, <2>1, <3>2
    <3>4. "page" \notin awaiting
      BY <1>1, <2>1
    <3>. QED
      BY <1>2, <2>1, <3>3, <3>4 DEF Seen
  <2>. QED
    BY <1>1, <1>2, <1>3, <2>1 DEF Seen
<1>7. Apart(q)'
  BY <1>1, <1>2, <1>3 DEF Apart
<1>. QED
  BY <1>4, <1>5, <1>6, <1>7

\* A rejected statement keeps it.
LEMMA FailStep ==
  ASSUME Inv, NEW q \in Queries, phase # "idle", query = q, QueryFails
  PROVE  Shape(q)' /\ Counts(q)' /\ Seen(q)' /\ Apart(q)'
<1>1. /\ awaiting # {} /\ awaiting' = Statements(q)
      /\ rows' = {} /\ total' = 0 /\ older' = {}
      /\ UNCHANGED <<phase, query, size, page, got, again, start, grown>>
      /\ UNCHANGED hotels
  BY DEF QueryFails, importVars
<1>2. /\ Shape(q) /\ Counts(q) /\ Seen(q) /\ Apart(q)
      /\ Cardinality(Selected(q)) \in Nat /\ phase = "asking"
      /\ "page" \in Statements(q)
  BY <1>1, AtHand, QueryKinds DEF Shape
<1>3. /\ Selected(q)' = Selected(q)
      /\ \A h : Rank(q, h)' = Rank(q, h) /\ (Own(q, h)' <=> Own(q, h))
  BY <1>1, SameTable
<1>4. Shape(q)'
  BY <1>1, <1>2, <1>3 DEF Shape
<1>5. Counts(q)'
  BY <1>1, <1>2, <1>3 DEF Counts
<1>6. Seen(q)'
  BY <1>1, <1>2, <1>3 DEF Seen
<1>7. Apart(q)'
  BY <1>1, <1>2, <1>3 DEF Apart
<1>. QED
  BY <1>4, <1>5, <1>6, <1>7

\* An answer, and the next page asked for, keep it.
LEMMA AnswerStep ==
  ASSUME Inv, NEW q \in Queries, phase # "idle", query = q, Answer
  PROVE  Shape(q)' /\ Counts(q)' /\ Seen(q)' /\ Apart(q)'
<1>. DEFINE n == Cardinality(Selected(q))
            o == Offset(page, size)
<1>1. /\ phase = "asking" /\ awaiting = {} /\ got' = got \cup rows
      /\ UNCHANGED <<query, size, start, grown>> /\ UNCHANGED hotels
  BY DEF Answer, importVars
<1>2. /\ Shape(q) /\ Counts(q) /\ Seen(q) /\ Apart(q)
      /\ n \in Nat /\ o \in Nat /\ size \in Nat \ {0} /\ page \in Nat \ {0} /\ total \in Nat
      /\ \A h : Rank(q, h) \in Nat
      /\ Offset(page + 1, size) = o + size
  BY AtHand
<1>3. /\ Selected(q)' = Selected(q)
      /\ \A h : Rank(q, h)' = Rank(q, h) /\ (Own(q, h)' <=> Own(q, h))
  BY <1>1, SameTable
<1>4. page < PageCount(total, size) <=> total > o + size
  BY <1>2, MorePages
<1>5. ASSUME ~ grown, \A h \in Selected(q) : Own(q, h)
      PROVE  ~ again' /\ \A h \in got' : Rank(q, h) < o + size
  <2>1. /\ ~ again /\ \A h \in got : Rank(q, h) < o
        /\ \A h \in rows : o <= Rank(q, h) /\ Rank(q, h) < o + size
    BY <1>1, <1>2, <1>5 DEF Apart
  <2>2. got \cap rows = {}
    BY <1>2, <2>1
  <2>3. ~ again'
    BY <2>1, <2>2, Zenon DEF Answer
  <2>4. ASSUME NEW h \in got'  PROVE Rank(q, h) < o + size
    BY <1>1, <1>2, <2>1
  <2>. QED
    BY <2>3, <2>4
<1>6. CASE "count" \in Statements(q) /\ page < PageCount(total, size)
  <2>1. /\ page' = page + 1 /\ awaiting' = Statements(q)
        /\ rows' = {} /\ total' = 0 /\ older' = {} /\ phase' = "asking"
    BY <1>1, <1>6 DEF Answer
  <2>2. "page" \in Statements(q) /\ q.kind # "findWithinBounds"
    BY <1>6, QueryKinds
  <2>3. total > o + size /\ total <= n
    BY <1>2, <1>4, <1>6 DEF Counts
  <2>4. Shape(q)'
    BY <1>1, <1>2, <1>3, <2>1, <2>2 DEF Shape
  <2>5. Counts(q)'
    BY <1>1, <1>2, <1>3, <2>1, <2>2, <2>3 DEF Counts
  <2>6. Seen(q)'
    <3>1. \A h \in start : Own(q, h) /\ Rank(q, h) < o + size => h \in got'
      BY <1>1, <1>2 DEF Seen
    <3>. QED
      BY <1>1, <1>2, <1>3, <2>1, <2>2, <3>1 DEF Seen
  <2>7. Apart(q)'
    BY <1>1, <1>2, <1>3, <1>5, <2>1, <2>2 DEF Apart
  <2>. QED
    BY <2>4, <2>5, <2>6, <2>7
<1>7. CASE ~ ("count" \in Statements(q) /\ page < PageCount(total, size))
  <2>1. phase' = "done" /\ UNCHANGED <<page, awaiting, rows, total, older>>
    BY <1>1, <1>7 DEF Answer
  <2>2. Shape(q)'
    BY <1>1, <1>2, <1>3, <2>1 DEF Shape
  <2>3. Counts(q)'
    BY <1>1, <1>2, <1>3, <2>1 DEF Counts
  <2>4. q.kind = "findWithinBounds" /\ Cardinality(got') < MaxPins => start \subseteq got'
    <3>1. q.kind = "findWithinBounds" => got' = rows
      BY <1>1, <1>2 DEF Seen
    <3>. QED
      BY <1>1, <1>2, <3>1 DEF Seen
  <2>5. ASSUME q.kind # "findWithinBounds", "count" \notin older, NEW h \in start, Own(q, h)
        PROVE  h \in got'
    <3>1. "count" \in Statements(q) \ older
      BY <2>5, QueryKinds
    <3>2. total <= o + size
      BY <1>2, <1>4, <1>7, <3>1
    <3>. QED
      BY <1>1, <1>2, <2>5, <3>1, <3>2 DEF Seen
  <2>6. Seen(q)'
    BY <1>1, <1>3, <2>1, <2>4, <2>5 DEF Seen
  <2>7. Apart(q)'
    BY <1>1, <1>3, <1>5, <2>1 DEF Apart
  <2>. QED
    BY <2>2, <2>3, <2>6, <2>7
<1>. QED
  BY <1>6, <1>7

\* An import keeps it.
LEMMA GrowStep ==
  ASSUME Inv, NEW q \in Queries, phase # "idle", query = q, Import
  PROVE  Shape(q)' /\ Counts(q)' /\ Seen(q)' /\ Apart(q)'
<1>. DEFINE n == Cardinality(Selected(q))
            o == Offset(page, size)
<1>1. /\ [ImportNext]_importVars
      /\ UNCHANGED <<phase, query, size, page, awaiting, rows, total, got, again, start>>
  BY DEF Import, walkVars
<1>2. /\ Shape(q) /\ Counts(q) /\ Seen(q) /\ Apart(q)
      /\ n \in Nat /\ o \in Nat /\ size \in Nat \ {0} /\ page \in Nat \ {0} /\ total \in Nat
      /\ Cardinality(rows) \in Nat /\ \A h : Rank(q, h) \in Nat
      /\ phase \in {"asking", "done"}
  BY AtHand
<1>3. /\ Selected(q) \subseteq Selected(q)' /\ n <= n' /\ n' \in Nat
      /\ \A h \in Selected(q) :
            /\ Rank(q, h) <= Rank(q, h)' /\ Rank(q, h)' \in Nat
            /\ Own(q, h)' => Own(q, h)
            /\ Selected(q)' = Selected(q)
                 => Rank(q, h)' = Rank(q, h) /\ (Own(q, h) => Own(q, h)')
  BY <1>1, SearchGrows DEF Inv
<1>4. Selected(query)' = Selected(q)'
  BY <1>1 DEF Selected
<1>5. \/ UNCHANGED <<grown, older>> /\ (phase = "asking" => Selected(q)' = Selected(q))
      \/ /\ phase = "asking" /\ grown' = TRUE
         /\ older' = IF awaiting = {} \/ awaiting = Statements(q) THEN older
                     ELSE Statements(q) \ awaiting
  BY <1>4 DEF Import
<1>6. Shape(q)'
  <2>1. older' \subseteq Statements(q) \ awaiting
    BY <1>2, <1>5 DEF Shape
  <2>. QED
    BY <1>1, <1>2, <1>3, <2>1 DEF Shape
<1>7. Counts(q)'
  <2>1. CASE UNCHANGED <<grown, older>> /\ (phase = "asking" => Selected(q)' = Selected(q))
    <3>1. CASE phase = "asking"
      BY <1>1, <1>2, <2>1, <3>1 DEF Counts
    <3>2. CASE phase = "done"
      <4>1. awaiting = {}
        BY <1>2, <3>2 DEF Shape
      <4>. QED
        BY <1>1, <1>2, <1>3, <2>1, <4>1 DEF Counts
    <3>. QED
      BY <1>2, <3>1, <3>2
  <2>2. CASE /\ phase = "asking" /\ grown' = TRUE
             /\ older' = IF awaiting = {} \/ awaiting = Statements(q) THEN older
                         ELSE Statements(q) \ awaiting
    <3>1. CASE awaiting = {}
      BY <1>1, <1>2, <1>3, <2>2, <3>1 DEF Counts
    <3>2. CASE awaiting = Statements(q)
      <4>1. "page" \in Statements(q)
        BY QueryKinds
      <4>. QED
        BY <1>1, <1>2, <1>3, <2>2, <3>2, <4>1 DEF Counts
    <3>3. CASE awaiting # {} /\ awaiting # Statements(q)
      <4>1. older' = Statements(q) \ awaiting
        BY <2>2, <3>3
      <4>2. Due(n, page, size) <= Due(n', page, size) /\ Due(n, page, size) \in Nat
            /\ Due(n', page, size) \in Nat
        BY <1>2, <1>3 DEF Due, Shortest
      <4>3. "count" \in awaiting /\ "page" \notin awaiting
              => Cardinality(rows) <= Due(n', page, size) /\ "page" \in older'
        BY <1>2, <3>3, <4>1, <4>2, QueryKinds DEF Counts, Shape
      <4>. QED
        BY <1>1, <1>2, <1>3, <3>3, <4>1, <4>3 DEF Counts
    <3>. QED
      BY <3>1, <3>2, <3>3
  <2>. QED
    BY <1>5, <2>1, <2>2
<1>8. Seen(q)'
  <2>1. \A h \in start : Own(q, h)' =>
           Own(q, h) /\ Rank(q, h) <= Rank(q, h)' /\ Rank(q, h)' \in Nat
    BY <1>2, <1>3 DEF Shape
  <2>2. awaiting = {} => older' = older
    BY <1>5
  <2>3. phase = "done" => older' = older
    BY <1>5
  <2>4. phase = "asking" =>
          /\ \A h \in start : Own(q, h)' /\ Rank(q, h)' < o => h \in got
          /\ "page" \notin awaiting =>
               \A h \in start : Own(q, h)' /\ Rank(q, h)' < o + size => h \in got \cup rows
    BY <1>2, <2>1 DEF Seen
  <2>. QED
    BY <1>1, <1>2, <2>1, <2>2, <2>3, <2>4 DEF Seen
<1>9. Apart(q)'
  <2>. SUFFICES ASSUME ~ grown', \A h \in Selected(q)' : Own(q, h)'
       PROVE  /\ ~ again
              /\ phase = "asking" =>
                   /\ \A h \in got : Rank(q, h)' < o
                   /\ "page" \notin awaiting =>
                        \A h \in rows : o <= Rank(q, h)' /\ Rank(q, h)' < o + size
    BY <1>1 DEF Apart
  <2>1. ~ grown /\ (phase = "asking" => Selected(q)' = Selected(q))
    BY <1>5
  <2>2. \A h \in Selected(q) : Own(q, h)
    BY <1>3
  <2>3. phase = "asking" => \A h \in Selected(q) : Rank(q, h)' = Rank(q, h)
    BY <1>3, <2>1
  <2>. QED
    BY <1>2, <2>1, <2>2, <2>3 DEF Apart, Shape
<1>. QED
  BY <1>6, <1>7, <1>8, <1>9

-----------------------------------------------------------------------------
(***************************************************************************)
(* The invariant                                                           *)
(***************************************************************************)

\* The walk's invariant, and the import's, hold at first.
LEMMA InitInv == Init => Inv
<1>. SUFFICES ASSUME Init  PROVE Inv
  OBVIOUS
<1>1. ImportInv
  BY ImportInitInv DEF Init
<1>2. PossibleInv
  BY DEF Init, ImportInit, PossibleInv, PossibleHotels, StoredHotels
<1>3. WalkTypeOK
  <2>1. Cardinality({}) = 0
    BY FS_EmptySet
  <2>2. again \in BOOLEAN /\ grown \in BOOLEAN
    BY Zenon DEF Init
  <2>3. /\ phase = "idle" /\ query = NoQuery /\ size = 1 /\ page = 1 /\ total = 0
        /\ awaiting = {} /\ rows = {} /\ got = {} /\ start = {} /\ older = {}
    BY DEF Init
  <2>. QED
    BY <2>1, <2>2, <2>3 DEF WalkTypeOK
<1>4. WalkInv
  BY DEF Init, WalkInv
<1>. QED
  BY <1>1, <1>2, <1>3, <1>4 DEF Inv

\* Every step is one of an import or leaves the table and the imports alone.
LEMMA ImportsAreImports == [Next]_vars => [ImportNext]_importVars
<1>1. ASSUME NEW q \in Queries, NEW s \in PageSizes \cup {MaxPins}, Open(q, s)
      PROVE  UNCHANGED importVars
  BY <1>1 DEF Open
<1>2. PageQuery \/ CountQuery \/ QueryFails \/ Answer => UNCHANGED importVars
  BY DEF PageQuery, CountQuery, QueryFails, Answer
<1>3. Import => ImportNext
  BY DEF Import
<1>. QED
  BY <1>1, <1>2, <1>3 DEF Next, vars

\* Every step keeps the shape of the walk.
LEMMA WalkTypeStep == Inv /\ [Next]_vars => WalkTypeOK'
<1>. SUFFICES ASSUME Inv, [Next]_vars  PROVE WalkTypeOK'
  OBVIOUS
<1>t. WalkTypeOK /\ WalkInv
  BY DEF Inv
<1>e. Cardinality({}) = 0
  BY FS_EmptySet
<1>1. ASSUME NEW q \in Queries, NEW s \in PageSizes \cup {MaxPins}, Open(q, s)
      PROVE  WalkTypeOK'
  <2>1. s \in Nat \ {0}
    BY SizesAssumption
  <2>2. awaiting' \in SUBSET {"page", "count"} /\ start' \subseteq HotelIds
    BY <1>1, SelectedFinite DEF Open, Statements
  <2>3. rows' = {} /\ got' = {}
    BY <1>1, <1>t DEF Open, WalkInv
  <2>. QED
    BY <1>1, <1>t, <1>e, <2>1, <2>2, <2>3 DEF Open, WalkTypeOK
<1>2. CASE PageQuery
  <2>1. phase # "idle" /\ query \in Queries
    BY <1>2, <1>t DEF PageQuery, WalkInv
  <2>2. PICK q \in Queries : query = q
    BY <2>1
  <2>3. rows' \subseteq HotelIds /\ Cardinality(rows') <= size
    BY <1>2, <2>1, <2>2, PageStep
  <2>. QED
    BY <1>2, <1>t, <2>3 DEF PageQuery, WalkTypeOK
<1>3. CASE CountQuery
  <2>1. Cardinality(Selected(query)) \in Nat
    BY SelectedFinite
  <2>. QED
    BY <1>3, <1>t, <2>1 DEF CountQuery, WalkTypeOK
<1>4. CASE QueryFails
  <2>1. Statements(query) \in SUBSET {"page", "count"}
    BY DEF Statements
  <2>. QED
    BY <1>4, <1>t, <1>e, <2>1 DEF QueryFails, WalkTypeOK
<1>5. CASE Answer
  <2>1. Statements(query) \in SUBSET {"page", "count"}
    BY DEF Statements
  <2>2. again' \in BOOLEAN
    BY <1>5, Zenon DEF Answer
  <2>3. /\ UNCHANGED <<query, size, start, grown>> /\ got' = got \cup rows
        /\ phase' \in {"asking", "done"} /\ page' \in {page, page + 1}
        /\ awaiting' = awaiting \/ awaiting' \in SUBSET {"page", "count"}
        /\ \/ UNCHANGED <<rows, total, older>>
           \/ rows' = {} /\ total' = 0 /\ older' = {}
    BY <1>5, <2>1 DEF Answer
  <2>4. rows' \subseteq HotelIds /\ Cardinality(rows') <= size'
    <3>1. size \in Nat /\ size' = size /\ rows \subseteq HotelIds /\ Cardinality(rows) <= size
      BY <1>t, <2>3 DEF WalkTypeOK
    <3>2. CASE rows' = rows
      BY <3>1, <3>2
    <3>3. CASE rows' = {}
      BY <1>e, <3>1, <3>3
    <3>. QED
      BY <2>3, <3>2, <3>3
  <2>5. phase' \in {"idle", "asking", "done"} /\ page' \in Nat \ {0} /\ total' \in Nat
    BY <1>t, <2>3 DEF WalkTypeOK
  <2>7. awaiting' \in SUBSET {"page", "count"} /\ older' \in SUBSET {"page", "count"}
    BY <1>t, <2>3 DEF WalkTypeOK
  <2>8. got' \subseteq HotelIds
    BY <1>t, <2>3 DEF WalkTypeOK
  <2>6. /\ query' \in Queries \cup {NoQuery} /\ size' \in Nat \ {0}
        /\ start' \subseteq HotelIds /\ grown' \in BOOLEAN
    BY <1>t, <2>3 DEF WalkTypeOK
  <2>. QED
    BY <2>2, <2>4, <2>5, <2>6, <2>7, <2>8 DEF WalkTypeOK
<1>6. CASE Import
  <2>1. grown' \in BOOLEAN /\ older' \in SUBSET {"page", "count"}
    BY <1>6, <1>t DEF Import, WalkTypeOK, Statements
  <2>2. UNCHANGED <<phase, query, size, page, awaiting, rows, total, got, again, start>>
    BY <1>6 DEF Import, walkVars
  <2>. QED
    BY <1>6, <1>t, <2>1, <2>2 DEF WalkTypeOK
<1>7. CASE UNCHANGED vars
  BY <1>7, <1>t DEF vars, walkVars, WalkTypeOK
<1>. QED
  BY <1>1, <1>2, <1>3, <1>4, <1>5, <1>6, <1>7 DEF Next

\* Every step keeps the invariant of the walk.
LEMMA WalkStep == Inv /\ [Next]_vars => WalkInv'
<1>. SUFFICES ASSUME Inv, [Next]_vars  PROVE WalkInv'
  OBVIOUS
<1>i. WalkInv
  BY DEF Inv
<1>. DEFINE Quiet == awaiting = {} /\ rows = {} /\ total = 0 /\ got = {} /\ ~ again /\ older = {}
<1>1. ASSUME NEW q \in Queries, NEW s \in PageSizes \cup {MaxPins}, Open(q, s)
      PROVE  WalkInv'
  <2>1. phase' = "asking" /\ query' = q
    BY <1>1 DEF Open
  <2>2. Shape(q)' /\ Counts(q)' /\ Seen(q)' /\ Apart(q)'
    BY <1>1, OpenStep
  <2>. QED
    BY <2>1, <2>2 DEF WalkInv
<1>2. ASSUME PageQuery \/ CountQuery \/ QueryFails \/ Answer
      PROVE  WalkInv'
  <2>1. phase # "idle" /\ query' = query /\ phase' # "idle"
    BY <1>2, <1>i DEF PageQuery, CountQuery, QueryFails, Answer, WalkInv
  <2>2. ASSUME NEW q \in Queries, query = q
        PROVE  Shape(q)' /\ Counts(q)' /\ Seen(q)' /\ Apart(q)'
    BY <1>2, <2>1, <2>2, PageStep, CountStep, FailStep, AnswerStep
  <2>. QED
    BY <1>i, <2>1, <2>2 DEF WalkInv
<1>3. CASE Import
  <2>1. query' = query /\ phase' = phase
    BY <1>3 DEF Import, walkVars
  <2>2. phase = "idle" => Quiet'
    BY <1>3, <1>i DEF Import, walkVars, WalkInv
  <2>3. ASSUME NEW q \in Queries, query = q, phase # "idle"
        PROVE  Shape(q)' /\ Counts(q)' /\ Seen(q)' /\ Apart(q)'
    BY <1>3, <2>3, GrowStep
  <2>. QED
    BY <1>i, <2>1, <2>2, <2>3 DEF WalkInv
<1>4. CASE UNCHANGED vars
  <2>1. /\ UNCHANGED <<phase, query, size, page, awaiting, rows, total, got, again, start>>
        /\ UNCHANGED <<grown, older>> /\ UNCHANGED hotels
    BY <1>4 DEF vars, walkVars, importVars
  <2>2. \A q : /\ Selected(q)' = Selected(q)
               /\ \A h : Rank(q, h)' = Rank(q, h) /\ (Own(q, h)' <=> Own(q, h))
    BY <2>1, SameTable
  <2>3. ASSUME NEW q \in Queries
        PROVE  /\ Shape(q) => Shape(q)'
               /\ Counts(q) => Counts(q)'
               /\ Seen(q) => Seen(q)'
               /\ Apart(q) => Apart(q)'
    <3>1. Shape(q) => Shape(q)'
      BY <2>1, <2>2 DEF Shape
    <3>2. Counts(q) => Counts(q)'
      BY <2>1, <2>2 DEF Counts
    <3>3. Seen(q) => Seen(q)'
      BY <2>1, <2>2 DEF Seen
    <3>4. Apart(q) => Apart(q)'
      BY <2>1, <2>2 DEF Apart
    <3>. QED
      BY <3>1, <3>2, <3>3, <3>4
  <2>. QED
    BY <1>i, <2>1, <2>3 DEF WalkInv
<1>. QED
  BY <1>1, <1>2, <1>3, <1>4 DEF Next

\* The invariant is inductive.
LEMMA NextInv == Inv /\ [Next]_vars => Inv'
<1>. SUFFICES ASSUME Inv, [Next]_vars  PROVE Inv'
  OBVIOUS
<1>1. [ImportNext]_importVars
  BY ImportsAreImports
<1>2. ImportInv' /\ PossibleInv'
  BY <1>1, ImportStepInv, TableGrows DEF Inv
<1>. QED
  BY <1>2, WalkTypeStep, WalkStep DEF Inv

\* The invariant, for any hotels, imports and searches, and pages of any size.
THEOREM HotelsInvariant == Spec => []Inv
BY InitInv, NextInv, PTL DEF Spec

\* Every reachable state of the search is of its type; no page has more rows than its
\* size.
THEOREM HotelsTypeCorrect == Spec => []TypeOK
<1>1. Inv => TypeOK
  BY DEF Inv, ImportInv, WalkTypeOK, TypeOK
<1>. QED
  BY <1>1, HotelsInvariant, PTL

\* What searches for hotels do is nothing to the imports.
THEOREM ImportsUndisturbed == Spec => ImportSpec
<1>1. Init => ImportInit
  BY DEF Init
<1>. QED
  BY <1>1, ImportsAreImports, PTL DEF Spec, ImportSpec

\* The walks' q is their query.
LEMMA InvOfQuery ==
  ASSUME Inv, phase # "idle"
  PROVE  /\ query \in Queries /\ Shape(query) /\ Counts(query) /\ Seen(query) /\ Apart(query)
         /\ \A h : KeyIsOwn(h) <=> Own(query, h)
<1>1. query \in Queries
  BY DEF Inv, WalkInv
<1>2. PICK q \in Queries : q = query
  BY <1>1
<1>3. Shape(q) /\ Counts(q) /\ Seen(q) /\ Apart(q)
  BY <1>2 DEF Inv, WalkInv
<1>4. \A h : KeyIsOwn(h) <=> Own(query, h)
  BY DEF KeyIsOwn, Own
<1>. QED
  BY <1>1, <1>2, <1>3, <1>4

\* A walk to the end has shown every hotel that was there when it began, a name shared by
\* two and a count older than the last page excepted.
THEOREM NothingSkippedHolds == Spec => []NothingSkipped
<1>1. Inv => NothingSkipped
  BY InvOfQuery DEF NothingSkipped, Seen
<1>. QED
  BY <1>1, HotelsInvariant, PTL

\* A walk shows a hotel twice only if hotels came meanwhile or two share a name.
THEOREM RepeatsHaveReasonHolds == Spec => []RepeatsHaveReason
<1>1. Inv => RepeatsHaveReason
  <2>. SUFFICES ASSUME Inv, again  PROVE grown \/ \E h \in Selected(query) : ~ KeyIsOwn(h)
    BY DEF RepeatsHaveReason
  <2>1. phase # "idle"
    BY DEF Inv, WalkInv
  <2>. QED
    BY <2>1, InvOfQuery DEF Apart
<1>. QED
  BY <1>1, HotelsInvariant, PTL

\* No page but the first is empty.
THEOREM NoEmptyPageHolds == Spec => []NoEmptyPage
<1>1. Inv => NoEmptyPage
  BY InvOfQuery DEF NoEmptyPage, Counts
<1>. QED
  BY <1>1, HotelsInvariant, PTL

\* The rows of an answer are those that its total says, but for hotels that came between
\* its two statements.
THEOREM PageMatchesCountHolds == Spec => []PageMatchesCount
<1>1. Inv => PageMatchesCount
  BY InvOfQuery DEF PageMatchesCount, Counts, Due
<1>. QED
  BY <1>1, HotelsInvariant, PTL

-----------------------------------------------------------------------------
(***************************************************************************)
(* A walk in which the search comes to find nothing new is exact.          *)
(***************************************************************************)

\* While it has come to find no more, the search finds what it found when the walk
\* began, and all that was shown was there then; and no statement was older than another.
QuietInv ==
    ~ grown => /\ phase = "asking" => Selected(query) = start /\ older = {}
               /\ phase = "done" => got \subseteq start /\ older = {}

\* Every step keeps QuietInv; an import does so by setting grown if it adds to the search.
LEMMA QuietStep ==
  ASSUME Inv, QuietInv, [Next]_vars
  PROVE  QuietInv'
<1>1. ASSUME NEW q \in Queries, NEW s \in PageSizes \cup {MaxPins}, Open(q, s)
      PROVE  QuietInv'
  <2>1. /\ phase' = "asking" /\ query' = q /\ start' = Selected(q) /\ older' = older
        /\ phase = "idle" /\ UNCHANGED hotels
    BY <1>1 DEF Open, importVars
  <2>2. older = {}
    BY <2>1 DEF Inv, WalkInv
  <2>3. Selected(query)' = Selected(q)
    BY <2>1 DEF Selected, StoredHotels
  <2>. QED
    BY <2>1, <2>2, <2>3 DEF QuietInv
<1>2. CASE PageQuery \/ CountQuery \/ QueryFails
  <2>1. /\ phase' = phase /\ query' = query /\ start' = start /\ grown' = grown /\ got' = got
        /\ (older' = older \/ older' = {}) /\ UNCHANGED hotels
    BY <1>2 DEF PageQuery, CountQuery, QueryFails, importVars
  <2>2. Selected(query)' = Selected(query)
    BY <2>1 DEF Selected, StoredHotels
  <2>. QED
    BY <2>1, <2>2 DEF QuietInv
<1>3. CASE Answer
  <2>1. /\ phase = "asking" /\ query' = query /\ start' = start /\ grown' = grown
        /\ got' = got \cup rows /\ (older' = older \/ older' = {}) /\ UNCHANGED hotels
    BY <1>3 DEF Answer, importVars
  <2>2. Selected(query)' = Selected(query)
    BY <2>1 DEF Selected, StoredHotels
  <2>3. rows \subseteq Selected(query) /\ got \subseteq Selected(query)
    BY <2>1, InvOfQuery DEF Shape
  <2>. QED
    BY <2>1, <2>2, <2>3 DEF QuietInv
<1>4. CASE Import
  <2>1. /\ phase' = phase /\ start' = start /\ got' = got /\ query' = query
        /\ IF phase = "asking" /\ Selected(query)' # Selected(query)
             THEN grown' ELSE grown' = grown /\ older' = older
    BY <1>4 DEF Import, walkVars
  <2>. QED
    BY <2>1 DEF QuietInv
<1>5. CASE UNCHANGED vars
  <2>1. UNCHANGED <<phase, query, start, grown, got, older, hotels>>
    BY <1>5 DEF vars, walkVars, importVars
  <2>2. Selected(query)' = Selected(query)
    BY <2>1 DEF Selected, StoredHotels
  <2>. QED
    BY <2>1, <2>2 DEF QuietInv
<1>. QED
  BY <1>1, <1>2, <1>3, <1>4, <1>5 DEF Next

\* A search whose walk is over and has come to find nothing new has shown exactly what
\* it found, each hotel once; by text that takes names of their own.
ExactWalk ==
    /\ phase = "done" /\ ~ grown /\ query.kind # "findWithinBounds"
    /\ \A h \in Selected(query) : KeyIsOwn(h)
    => got = start /\ ~ again

\* The pages of a search that no import disturbs add up to the search, whatever the page
\* size and however often a page has to be asked for again.
THEOREM QuietWalkIsExact == Spec => []ExactWalk
<1>1. Init => QuietInv
  BY DEF Init, QuietInv
<1>2. Inv /\ QuietInv => ExactWalk
  <2>. SUFFICES ASSUME Inv, QuietInv, phase = "done", ~ grown,
                       query.kind # "findWithinBounds",
                       \A h \in Selected(query) : KeyIsOwn(h)
       PROVE  start \subseteq got /\ got \subseteq start /\ ~ again
    BY DEF ExactWalk
  <2>1. got \subseteq start /\ older = {}
    BY DEF QuietInv
  <2>2. start \subseteq Selected(query)
    BY InvOfQuery DEF Shape
  <2>3. start \subseteq got
    BY <2>1, <2>2, InvOfQuery DEF Seen
  <2>4. ~ again
    BY InvOfQuery DEF Apart
  <2>. QED
    BY <2>1, <2>3, <2>4
<1>. QED
  BY <1>1, <1>2, QuietStep, HotelsInvariant, PTL DEF Spec
==============================================================================
