------------------------- MODULE HotelInputs_proofs -------------------------
(***************************************************************************)
(* The code about hotels that only computes: proofs for every view, every  *)
(* id and every record.                                                    *)
(***************************************************************************)
EXTENDS HotelInputs, SequenceTheorems, WellFoundedInduction, TLAPS

-----------------------------------------------------------------------------
(***************************************************************************)
(* Induction over numbers, which the rest needs, from a fact about sets    *)
(***************************************************************************)

\* A set with 0, and with every number that follows one of its own, has all numbers: the
\* least that it lacked would follow one that it has.
LEMMA SetInduction ==
  ASSUME NEW S, 0 \in S, \A n \in Nat : n \in S => n + 1 \in S
  PROVE  Nat \subseteq S
<1>. SUFFICES ASSUME Nat \ S # {}  PROVE FALSE
  OBVIOUS
<1>1. PICK x \in Nat \ S : \A y \in Nat \ S : ~ (<<y, x>> \in OpToRel(<, Nat))
  <2>1. \E x \in Nat \ S : \A y \in Nat \ S : ~ (<<y, x>> \in OpToRel(<, Nat))
    BY NatLessThanWellFounded, WFMin, Zenon
  <2>. QED
    BY <2>1
<1>2. \A y \in Nat \ S : ~ (y < x)
  BY <1>1 DEF OpToRel
<1>. QED
  BY <1>2

\* g starts from c and makes n turns of step.
Iterates(g, c, step, n) == g = [i \in 0 .. n |-> IF i = 0 THEN c ELSE step[<<g[i - 1], i>>]]

\* There is such a g.
LEMMA Iteration ==
  ASSUME NEW V, NEW c \in V, NEW n \in Nat, NEW step \in [V \X (1 .. n) -> V]
  PROVE  \E g \in [0 .. n -> V] : Iterates(g, c, step, n)
<1>. DEFINE Solves(g, k) == g = [i \in 0 .. k |-> IF i = 0 THEN c ELSE step[<<g[i - 1], i>>]]
            S == {k \in Nat : k <= n => \E g \in [0 .. k -> V] : Solves(g, k)}
<1>1. 0 \in S
  <2>1. [i \in 0 .. 0 |-> c] \in [0 .. 0 -> V] /\ Solves([i \in 0 .. 0 |-> c], 0)
    OBVIOUS
  <2>. QED
    BY <2>1
<1>2. ASSUME NEW k \in Nat, k \in S  PROVE k + 1 \in S
  <2>. SUFFICES ASSUME k + 1 <= n
                PROVE  \E g \in [0 .. k + 1 -> V] : Solves(g, k + 1)
    OBVIOUS
  <2>1. PICK g \in [0 .. k -> V] : Solves(g, k)
    BY <1>2
  <2>. DEFINE h == [i \in 0 .. k + 1 |-> IF i = k + 1 THEN step[<<g[k], k + 1>>] ELSE g[i]]
  <2>2. h \in [0 .. k + 1 -> V]
    OBVIOUS
  <2>3. \A i \in 0 .. k : g[i] = IF i = 0 THEN c ELSE step[<<g[i - 1], i>>]
    BY <2>1
  <2>4. h[k + 1] = step[<<h[k], k + 1>>] /\ \A j \in 0 .. k : h[j] = g[j]
    <3>1. \A j \in 0 .. k + 1 : h[j] = IF j = k + 1 THEN step[<<g[k], k + 1>>] ELSE g[j]
      OBVIOUS
    <3>. HIDE DEF h
    <3>. QED
      BY <3>1
  <2>5. h = [i \in 0 .. k + 1 |-> IF i = 0 THEN c ELSE step[<<h[i - 1], i>>]]
    <3>1. ASSUME NEW i \in 0 .. k + 1
          PROVE  h[i] = IF i = 0 THEN c ELSE step[<<h[i - 1], i>>]
      <4>1. CASE i = k + 1
        <5>1. i # 0 /\ i - 1 = k
          BY <4>1
        <5>. QED
          BY <2>4, <4>1, <5>1
      <4>2. CASE i = 0
        <5>1. 0 \in 0 .. k
          OBVIOUS
        <5>2. h[0] = g[0]
          BY <2>4, <5>1
        <5>3. g[0] = c
          BY <2>3, <5>1
        <5>. QED
          BY <4>2, <5>2, <5>3
      <4>3. CASE i \in 1 .. k
        <5>1. i - 1 \in 0 .. k /\ i \in 0 .. k /\ i # 0
          BY <4>3
        <5>2. h[i] = g[i] /\ h[i - 1] = g[i - 1]
          BY <2>4, <5>1
        <5>3. g[i] = step[<<g[i - 1], i>>]
          BY <2>3, <5>1
        <5>. QED
          BY <5>1, <5>2, <5>3
      <4>. QED
        BY <4>1, <4>2, <4>3
    <3>. HIDE DEF h
    <3>. QED
      BY <2>2, <3>1
  <2>. QED
    BY <2>2, <2>5
<1>3. n \in S
  <2>. HIDE DEF S
  <2>. QED
    BY <1>1, <1>2, SetInduction
<1>. QED
  BY <1>3 DEF Iterates

-----------------------------------------------------------------------------
(***************************************************************************)
(* Map views                                                               *)
(***************************************************************************)

\* For all bounds and every place but those on the antimeridian: a query that is let
\* through finds just what its map shows.
THEOREM MapFindsWhatItShowsAlways ==
  \A b, latitude, longitude : FindsWhatItShows(b, latitude, longitude)
<1>. SUFFICES ASSUME NEW b, NEW latitude \in -90 .. 90, NEW longitude \in -179 .. 179,
                     ValidBounds(b)
     PROVE  InBounds(b, latitude, longitude) <=> Shows(b, latitude, longitude)
  BY DEF FindsWhatItShows
<1>1. /\ b.swLat \in Int /\ -90 <= b.swLat /\ b.swLat <= 90
      /\ b.neLat \in Int /\ -90 <= b.neLat /\ b.neLat <= 90
      /\ b.swLng \in Int /\ -180 <= b.swLng /\ b.swLng <= 180
      /\ b.neLng \in Int /\ -180 <= b.neLng /\ b.neLng <= 180
  <2>1. /\ b.swLat \in -90 .. 90 /\ b.neLat \in -90 .. 90
        /\ b.swLng \in -180 .. 180 /\ b.neLng \in -180 .. 180
    BY DEF ValidBounds
  <2>2. \A m, x : m \in Int /\ x \in -m .. m => x \in Int /\ -m <= x /\ x <= m
    OBVIOUS
  <2>3. 90 \in Int /\ 180 \in Int
    OBVIOUS
  <2>. QED
    BY <2>1, <2>2, <2>3
<1>2. LatLo(b) <= latitude /\ latitude <= LatHi(b)
        <=> \/ b.swLat <= latitude /\ latitude <= b.neLat
            \/ b.neLat <= latitude /\ latitude <= b.swLat
  BY <1>1 DEF LatLo, LatHi, Lesser, Greater
<1>3. LonClause(b, longitude) <=> EastOf(b.swLng, longitude) <= EastOf(b.swLng, b.neLng)
  BY <1>1 DEF LonClause, EastOf
<1>. QED
  BY <1>2, <1>3 DEF InBounds, Shows

-----------------------------------------------------------------------------
(***************************************************************************)
(* Galleries                                                               *)
(***************************************************************************)

\* Half a word: what is left of a division by 2^16.
LEMMA HalfWordType ==
  /\ HalfWord \in Nat
  /\ \A x \in Int : x % HalfWord \in 0 .. HalfWord - 1
  /\ \A x \in Nat : x \div HalfWord \in Nat
<1>1. HalfWord \in Nat
  BY DEF HalfWord
<1>2. \A x \in Int : x % HalfWord \in 0 .. HalfWord - 1
  <2>1. \A x \in Int : x % HalfWord \in Int /\ 0 <= x % HalfWord /\ x % HalfWord < HalfWord
    BY DEF HalfWord
  <2>2. \A m, y \in Int : 0 <= y /\ y < m => y \in 0 .. m - 1
    OBVIOUS
  <2>3. HalfWord \in Int
    BY <1>1
  <2>. QED
    BY <2>1, <2>2, <2>3
<1>3. \A x \in Nat : x \div HalfWord \in Nat
  BY DEF HalfWord
<1>. QED
  BY <1>1, <1>2, <1>3

\* One turn of the hash makes a word of a word.
LEMMA HashStepType ==
  ASSUME NEW w \in Words, NEW code \in Nat
  PROVE  HashStep(w, code) \in Words
<1>1. PICK a \in 0 .. HalfWord - 1, b \in 0 .. HalfWord - 1 : w = <<a, b>>
  BY DEF Words
<1>2. a \in Nat /\ b \in Nat
  BY HalfWordType
<1>. DEFINE low == 31 * b + code
            high == 31 * a + low \div HalfWord
<1>3. low \in Nat
  BY <1>2
<1>4. low \div HalfWord \in Nat
  <2>. HIDE DEF low
  <2>. QED
    BY <1>3, HalfWordType
<1>5. high \in Nat
  <2>. HIDE DEF low
  <2>. QED
    BY <1>2, <1>4
<1>6. HashStep(w, code) = <<high % HalfWord, low % HalfWord>>
  BY <1>1 DEF HashStep
<1>. HIDE DEF low, high
<1>7. high % HalfWord \in 0 .. HalfWord - 1 /\ low % HalfWord \in 0 .. HalfWord - 1
  BY <1>3, <1>5, HalfWordType
<1>. QED
  BY <1>6, <1>7 DEF Words

\* The magnitude of a word is a word.
LEMMA AbsType ==
  ASSUME NEW w \in Words
  PROVE  Abs(w) \in Words
<1>1. PICK a \in 0 .. HalfWord - 1, b \in 0 .. HalfWord - 1 : w = <<a, b>>
  BY DEF Words
<1>. DEFINE high == HalfWord - a - (IF b = 0 THEN 0 ELSE 1)
            low == HalfWord - b
<1>2. high \in Int /\ low \in Int
  BY HalfWordType
<1>3. Abs(w) = IF ~ Negative(w) THEN w ELSE <<high % HalfWord, low % HalfWord>>
  BY <1>1 DEF Abs
<1>. HIDE DEF low, high
<1>4. high % HalfWord \in 0 .. HalfWord - 1 /\ low % HalfWord \in 0 .. HalfWord - 1
  BY <1>2, HalfWordType
<1>. QED
  BY <1>3, <1>4 DEF Words

\* What the photos are counted and chosen by is 32 bits, however long the id is.
LEMMA HashIdType ==
  ASSUME NEW text \in Seq(Nat)
  PROVE  HashId(text) \in Words
<1>. DEFINE n == Len(text)
            zero == <<0, 0>>
            Eq(g) == g = [i \in 0 .. n |-> IF i = 0 THEN zero ELSE HashStep(g[i - 1], text[i])]
            hash == CHOOSE g : Eq(g)
<1>1. HashId(text) = Abs(hash[n])
  BY DEF HashId
<1>2. n \in Nat /\ \A i \in 1 .. n : text[i] \in Nat
  OBVIOUS
<1>. HIDE DEF hash
<1>. DEFINE step == [p \in Words \X (1 .. n) |-> HashStep(p[1], text[p[2]])]
<1>3. step \in [Words \X (1 .. n) -> Words]
  BY <1>2, HashStepType
<1>. HIDE DEF step
<1>4. zero \in Words
  <2>1. 0 \in 0 .. HalfWord - 1
    BY DEF HalfWord
  <2>. QED
    BY <2>1 DEF Words
<1>. HIDE DEF zero
<1>5. PICK g \in [0 .. n -> Words] : Iterates(g, zero, step, n)
  <2>1. n \in Nat
    BY <1>2
  <2>. HIDE DEF n
  <2>. QED
    BY <2>1, <1>3, <1>4, Iteration
<1>6. Eq(g)
  <2>1. \A w \in Words, i \in 1 .. n : step[<<w, i>>] = HashStep(w, text[i])
    BY DEF step
  <2>2. \A i \in 1 .. n : g[i - 1] \in Words
    BY <1>2
  <2>3. \A i \in 1 .. n : step[<<g[i - 1], i>>] = HashStep(g[i - 1], text[i])
    BY <2>1, <2>2
  <2>. HIDE DEF n
  <2>. QED
    BY <1>2, <1>5, <2>3 DEF Iterates
<1>7. Eq(hash)
  <2>. HIDE DEF Eq
  <2>. QED
    BY <1>6 DEF hash
<1>8. \A i \in 0 .. n : hash[i] = IF i = 0 THEN zero ELSE HashStep(hash[i - 1], text[i])
  <2>. HIDE DEF n
  <2>. QED
    BY <1>7
<1>9. hash[n] \in Words
  <2>. DEFINE S == {i \in Nat : i <= n => hash[i] \in Words}
  <2>. HIDE DEF n
  <2>1. 0 \in S
    BY <1>2, <1>4, <1>8
  <2>2. \A i \in Nat : i \in S => i + 1 \in S
    <3>. SUFFICES ASSUME NEW i \in Nat, i + 1 <= n, hash[i] \in Words
                  PROVE  hash[i + 1] \in Words
      BY <1>2
    <3>1. hash[i + 1] = HashStep(hash[i], text[i + 1]) /\ text[i + 1] \in Nat
      BY <1>2, <1>8
    <3>. QED
      BY <3>1, HashStepType
  <2>3. Nat \subseteq S
    <3>. HIDE DEF S
    <3>. QED
      BY <2>1, <2>2, SetInduction
  <2>. QED
    BY <1>2, <2>3
<1>. QED
  <2>. HIDE DEF n
  <2>. QED
    BY <1>1, <1>9, AbsType

\* Whatever 32 bits the hash of an id is, the least number among them: four to eight
\* photos, all of which exist, none twice.
THEOREM GalleriesSoundAlways == \A seed \in Words : GallerySound(Gallery(seed))
<1>. SUFFICES ASSUME NEW seed \in Words  PROVE GallerySound(Gallery(seed))
  OBVIOUS
<1>1. seed[1] \in Nat /\ seed[2] \in Nat
  <2>1. PICK high \in 0 .. HalfWord - 1, low \in 0 .. HalfWord - 1 : seed = <<high, low>>
    BY DEF Words
  <2>2. HalfWord \in Nat
    BY HalfWordType
  <2>3. \A m \in Nat : \A x \in 0 .. m - 1 : x \in Nat
    OBVIOUS
  <2>4. high \in Nat /\ low \in Nat
    BY <2>2, <2>3
  <2>. QED
    BY <2>1, <2>4
<1>2. \A m \in {5, 8} : Remainder(seed, m) \in 0 .. m - 1
  <2>. TAKE m \in {5, 8}
  <2>1. \A x, y, z \in Nat : ((x % m) * (y % m) + (z % m)) \in Nat
    <3>1. \A x \in Nat : x % m \in Nat
      OBVIOUS
    <3>2. \A x, y \in Nat : x * y \in Nat
      OBVIOUS
    <3>. QED
      BY <3>1, <3>2
  <2>2. \A x \in Nat : x % m \in 0 .. m - 1
    OBVIOUS
  <2>3. HalfWord \in Nat
    BY DEF HalfWord
  <2>. QED
    BY <1>1, <2>1, <2>2, <2>3 DEF Remainder
<1>3. PhotoCount(seed) \in 4 .. 8
  BY <1>2 DEF PhotoCount, SHARED_IMAGE_COUNT
<1>. DEFINE r == Remainder(seed, 8)
<1>r. r \in 0 .. 7
  BY <1>2
<1>p. ASSUME NEW i \in 0 .. 7
      PROVE  Photo(seed, i) = IF r + i < 8 THEN r + i + 1 ELSE r + i - 7
  <2>1. Photo(seed, i) = ((r + i) % 8) + 1
    BY DEF Photo, SHARED_IMAGE_COUNT
  <2>2. \A x \in 0 .. 14 : x % 8 = IF x < 8 THEN x ELSE x - 8
    OBVIOUS
  <2>3. r + i \in 0 .. 14
    BY <1>r
  <2>. HIDE DEF r
  <2>. QED
    BY <1>r, <2>1, <2>2, <2>3
<1>. HIDE DEF r
<1>4. \A i \in 0 .. 7 : Photo(seed, i) \in 1 .. 8
  BY <1>r, <1>p
<1>5. \A i, j \in 0 .. 7 : i # j => Photo(seed, i) # Photo(seed, j)
  BY <1>r, <1>p
<1>6. \A i \in 1 .. PhotoCount(seed) : i - 1 \in 0 .. 7 /\ Gallery(seed)[i] = Photo(seed, i - 1)
  BY <1>3 DEF Gallery
<1>7. DOMAIN Gallery(seed) = 1 .. PhotoCount(seed) /\ Len(Gallery(seed)) = PhotoCount(seed)
  BY <1>3 DEF Gallery
<1>8. \A i \in 1 .. PhotoCount(seed) : Gallery(seed)[i] \in 1 .. 8
  BY <1>4, <1>6
<1>9. \A i, j \in 1 .. PhotoCount(seed) : i # j => Gallery(seed)[i] # Gallery(seed)[j]
  BY <1>3, <1>5, <1>6
<1>. QED
  BY <1>3, <1>7, <1>8, <1>9 DEF GallerySound, SHARED_IMAGE_COUNT

-----------------------------------------------------------------------------
(***************************************************************************)
(* CSV lines                                                               *)
(***************************************************************************)

\* Where the parts of a joined sequence end: pos[i] is the end of the i-th.
EndsAt(pos, parts) ==
    /\ pos \in [0 .. Len(parts) -> Nat]
    /\ pos[0] = 0
    /\ \A i \in 1 .. Len(parts) : pos[i] = pos[i - 1] + Len(parts[i])

\* Every sequence of sequences has such ends.
LEMMA EndsExist ==
  ASSUME NEW T, NEW parts \in Seq(Seq(T))
  PROVE  \E pos : EndsAt(pos, parts)
<1>. DEFINE n == Len(parts)
            step == [p \in Nat \X (1 .. n) |-> p[1] + Len(parts[p[2]])]
<1>1. n \in Nat /\ \A i \in 1 .. n : Len(parts[i]) \in Nat
  OBVIOUS
<1>2. step \in [Nat \X (1 .. n) -> Nat]
  <2>. HIDE DEF n
  <2>1. \A a \in Nat, i \in 1 .. n : a + Len(parts[i]) \in Nat
    BY <1>1
  <2>. QED
    BY <2>1
<1>3. \A a \in Nat, i \in 1 .. n : step[<<a, i>>] = a + Len(parts[i])
  OBVIOUS
<1>. HIDE DEF n, step
<1>4. PICK g \in [0 .. n -> Nat] : Iterates(g, 0, step, n)
  BY <1>1, <1>2, Iteration
<1>5. g[0] = 0 /\ \A i \in 1 .. n : g[i] = step[<<g[i - 1], i>>]
  BY <1>1, <1>4 DEF Iterates
<1>6. \A i \in 1 .. n : g[i - 1] \in Nat
  BY <1>1
<1>7. \A i \in 1 .. n : g[i] = g[i - 1] + Len(parts[i])
  BY <1>3, <1>5, <1>6
<1>8. EndsAt(g, parts)
  BY <1>5, <1>7 DEF EndsAt, n
<1>. QED
  BY <1>8

\* The first k parts, one after the other, are s.
LaidOut(s, parts, pos, k) ==
    /\ Len(s) = pos[k]
    /\ \A i \in 1 .. k :
         /\ pos[i] <= pos[k]
         /\ \A j \in 1 .. Len(parts[i]) : s[pos[i - 1] + j] = parts[i][j]

\* One part more.
LEMMA LayNext ==
  ASSUME NEW T, NEW parts \in Seq(Seq(T)), NEW pos, EndsAt(pos, parts),
         NEW k \in Nat, k + 1 <= Len(parts), NEW s \in Seq(T), LaidOut(s, parts, pos, k)
  PROVE  s \o parts[k + 1] \in Seq(T) /\ LaidOut(s \o parts[k + 1], parts, pos, k + 1)
<1>. DEFINE n == Len(parts)
            t == parts[k + 1]
            st == s \o t
<1>1. n \in Nat /\ k + 1 \in 1 .. n /\ k \in 0 .. n /\ (k + 1) - 1 = k
  OBVIOUS
<1>2. t \in Seq(T) /\ Len(t) \in Nat /\ Len(s) \in Nat
  BY <1>1
<1>3. \A i \in 1 .. n : parts[i] \in Seq(T) /\ Len(parts[i]) \in Nat
  OBVIOUS
<1>4. /\ \A i \in 0 .. n : pos[i] \in Nat
      /\ \A i \in 1 .. n : pos[i] = pos[i - 1] + Len(parts[i])
  BY DEF EndsAt
<1>5. pos[k + 1] = pos[k] + Len(t) /\ pos[k] \in Nat
  <2>1. pos[k + 1] = pos[(k + 1) - 1] + Len(parts[k + 1])
    BY <1>1, <1>4
  <2>. QED
    BY <1>1, <1>4, <2>1
<1>6. Len(s) = pos[k]
  BY DEF LaidOut
<1>. HIDE DEF n, t
<1>7. /\ st \in Seq(T) /\ Len(st) = Len(s) + Len(t)
      /\ \A j \in 1 .. Len(s) + Len(t) : st[j] = IF j <= Len(s) THEN s[j] ELSE t[j - Len(s)]
  BY <1>2, ConcatProperties
<1>. HIDE DEF st
<1>8. Len(st) = pos[k + 1]
  BY <1>5, <1>6, <1>7
<1>9. ASSUME NEW i \in 1 .. k + 1
      PROVE  /\ pos[i] <= pos[k + 1]
             /\ \A j \in 1 .. Len(parts[i]) : st[pos[i - 1] + j] = parts[i][j]
  <2>1. i \in 1 .. n /\ i - 1 \in 0 .. n /\ i \in 0 .. n
    BY <1>1
  <2>2. /\ pos[i] \in Nat /\ pos[i - 1] \in Nat /\ Len(parts[i]) \in Nat
        /\ pos[i] = pos[i - 1] + Len(parts[i])
    BY <1>3, <1>4, <2>1
  <2>3. CASE i = k + 1
    <3>1. parts[i] = t /\ pos[i - 1] = pos[k]
      BY <1>1, <2>3 DEF t
    <3>2. ASSUME NEW j \in 1 .. Len(t)  PROVE st[Len(s) + j] = t[j]
      <4>1. Len(s) + j \in 1 .. Len(s) + Len(t) /\ ~ (Len(s) + j <= Len(s))
        BY <1>2
      <4>2. (Len(s) + j) - Len(s) = j
        BY <1>2
      <4>. QED
        BY <1>7, <4>1, <4>2
    <3>3. pos[i] <= pos[k + 1]
      BY <2>2, <2>3
    <3>. QED
      BY <1>6, <3>1, <3>2, <3>3
  <2>4. CASE i # k + 1
    <3>1. i \in 1 .. k
      BY <2>4
    <3>2. pos[i] <= pos[k] /\ \A j \in 1 .. Len(parts[i]) : s[pos[i - 1] + j] = parts[i][j]
      BY <3>1 DEF LaidOut
    <3>3. pos[i] <= pos[k + 1]
      BY <1>2, <1>5, <2>2, <3>2
    <3>4. ASSUME NEW j \in 1 .. Len(parts[i])  PROVE st[pos[i - 1] + j] = s[pos[i - 1] + j]
      <4>. DEFINE at == pos[i - 1] + j
      <4>a. j \in Nat /\ 1 <= j /\ j <= Len(parts[i])
        BY <2>2
      <4>b. at \in Nat /\ 1 <= at /\ at <= pos[i]
        BY <2>2, <4>a
      <4>. HIDE DEF at
      <4>c. Len(s) \in Nat /\ Len(t) \in Nat
        BY <1>2
      <4>d. pos[i] <= Len(s)
        BY <1>6, <3>2
      <4>e. at <= Len(s)
        BY <2>2, <4>b, <4>c, <4>d
      <4>f. at \in 1 .. Len(s) + Len(t)
        BY <4>b, <4>c, <4>e
      <4>1. st[at] = s[at]
        BY <1>7, <4>e, <4>f
      <4>. QED
        BY <4>1 DEF at
    <3>. QED
      BY <3>2, <3>3, <3>4
  <2>. QED
    BY <2>3, <2>4
<1>10. LaidOut(st, parts, pos, k + 1)
  BY <1>8, <1>9 DEF LaidOut
<1>. QED
  BY <1>7, <1>10 DEF st, t

\* FlattenSeq puts the parts one after the other.
LEMMA Flattened ==
  ASSUME NEW T, NEW parts \in Seq(Seq(T)), NEW pos, EndsAt(pos, parts)
  PROVE  /\ FlattenSeq(parts) \in Seq(T)
         /\ LaidOut(FlattenSeq(parts), parts, pos, Len(parts))
<1>. DEFINE n == Len(parts)
            Eq(f) == f = [i \in 1 .. n |-> IF i = 1 THEN parts[i] ELSE f[i - 1] \o parts[i]]
            flatten == CHOOSE f : Eq(f)
            none == <<>>
<1>n. n \in Nat /\ \A i \in 1 .. n : parts[i] \in Seq(T)
  OBVIOUS
<1>s. none \in Seq(T) /\ \A s \in Seq(T) : none \o s = s
  BY ConcatEmptySeq
<1>l. LaidOut(none, parts, pos, 0)
  BY DEF LaidOut, EndsAt
<1>0. CASE n = 0
  <2>1. parts = none /\ FlattenSeq(parts) = parts
    BY <1>0 DEF FlattenSeq
  <2>. HIDE DEF none
  <2>. QED
    BY <1>0, <1>s, <1>l, <2>1
<1>1. CASE n # 0
  <2>1. FlattenSeq(parts) = flatten[n]
    BY <1>1 DEF FlattenSeq
  <2>. HIDE DEF flatten
  <2>. DEFINE step == [p \in Seq(T) \X (1 .. n) |-> p[1] \o parts[p[2]]]
  <2>2. step \in [Seq(T) \X (1 .. n) -> Seq(T)]
    <3>1. \A s \in Seq(T), i \in 1 .. n : s \o parts[i] \in Seq(T)
      BY <1>n
    <3>. HIDE DEF n
    <3>. QED
      BY <3>1
  <2>3. \A s \in Seq(T), i \in 1 .. n : step[<<s, i>>] = s \o parts[i]
    OBVIOUS
  <2>. HIDE DEF n, step, none
  <2>5. PICK g \in [0 .. n -> Seq(T)] : Iterates(g, none, step, n)
    BY <1>n, <1>s, <2>2, Iteration
  <2>6. g[0] = none /\ \A i \in 1 .. n : g[i] = g[i - 1] \o parts[i]
    <3>1. g[0] = none /\ \A i \in 1 .. n : g[i] = step[<<g[i - 1], i>>]
      BY <1>n, <2>5 DEF Iterates
    <3>2. \A i \in 1 .. n : g[i - 1] \in Seq(T)
      BY <1>n
    <3>. QED
      BY <2>3, <3>1, <3>2
  <2>7. \E f : Eq(f)
    <3>. DEFINE f == [i \in 1 .. n |-> g[i]]
    <3>1. \A i \in 1 .. n : f[i] = g[i]
      OBVIOUS
    <3>2. ASSUME NEW i \in 1 .. n
          PROVE  g[i] = IF i = 1 THEN parts[i] ELSE f[i - 1] \o parts[i]
      <4>. HIDE DEF f
      <4>1. CASE i = 1
        <5>1. g[i] = g[i - 1] \o parts[i]
          BY <2>6
        <5>2. g[i - 1] = none
          BY <2>6, <4>1
        <5>3. parts[i] \in Seq(T)
          BY <1>n
        <5>. QED
          BY <1>s, <4>1, <5>1, <5>2, <5>3
      <4>2. CASE i # 1
        <5>1. i - 1 \in 1 .. n
          BY <4>2, <1>n
        <5>. QED
          BY <2>6, <3>1, <4>2, <5>1
      <4>. QED
        BY <4>1, <4>2
    <3>3. Eq(f)
      BY <3>2
    <3>. HIDE DEF f, Eq
    <3>. QED
      BY <3>3
  <2>8. Eq(flatten)
    <3>. HIDE DEF Eq
    <3>. QED
      BY <2>7 DEF flatten
  <2>9. \A i \in 1 .. n : flatten[i] = IF i = 1 THEN parts[i] ELSE flatten[i - 1] \o parts[i]
    BY <2>8
  <2>. HIDE DEF Eq
  <2>. DEFINE Good(k) == flatten[k] \in Seq(T) /\ LaidOut(flatten[k], parts, pos, k)
              S == {k \in Nat : k + 1 <= n => Good(k + 1)}
  <2>10. Good(1)
    <3>1. flatten[1] = parts[1] /\ 1 \in 1 .. n
      BY <1>n, <1>1, <2>9
    <3>2. parts[1] \in Seq(T) /\ none \o parts[1] = parts[1]
      BY <1>n, <1>s, <3>1
    <3>3. none \o parts[0 + 1] \in Seq(T) /\ LaidOut(none \o parts[0 + 1], parts, pos, 0 + 1)
      <4>1. 0 \in Nat /\ 0 + 1 <= Len(parts)
        BY <1>n, <1>1 DEF n
      <4>. QED
        BY <1>s, <1>l, <4>1, LayNext
    <3>4. 0 + 1 = 1
      OBVIOUS
    <3>. QED
      BY <3>1, <3>2, <3>3, <3>4
  <2>11. ASSUME NEW k \in Nat, k + 2 <= n, Good(k + 1)  PROVE Good(k + 2)
    <3>1. flatten[k + 2] = flatten[k + 1] \o parts[k + 2]
      <4>1. k + 2 \in 1 .. n /\ k + 2 # 1 /\ (k + 2) - 1 = k + 1
        BY <1>n, <2>11
      <4>. QED
        BY <2>9, <4>1
    <3>2. k + 1 \in Nat /\ (k + 1) + 1 = k + 2 /\ (k + 1) + 1 <= Len(parts)
      BY <2>11 DEF n
    <3>3. /\ flatten[k + 1] \o parts[(k + 1) + 1] \in Seq(T)
          /\ LaidOut(flatten[k + 1] \o parts[(k + 1) + 1], parts, pos, (k + 1) + 1)
      BY <2>11, <3>2, LayNext
    <3>. QED
      BY <3>1, <3>2, <3>3
  <2>. HIDE DEF Good
  <2>12. 0 \in S
    BY <2>10
  <2>13. \A k \in Nat : k \in S => k + 1 \in S
    BY <1>n, <2>11
  <2>14. Nat \subseteq S
    <3>. HIDE DEF S
    <3>. QED
      BY <2>12, <2>13, SetInduction
  <2>15. Good(n)
    <3>1. n - 1 \in Nat /\ (n - 1) + 1 = n
      BY <1>n, <1>1
    <3>2. n - 1 \in S
      BY <2>14, <3>1
    <3>. QED
      BY <1>n, <3>1, <3>2
  <2>. QED
    BY <2>1, <2>15 DEF n, Good
<1>. QED
  BY <1>0, <1>1

\* The loop's variables.
State(fields, field, inQuotes, skip) ==
    [fields |-> fields, field |-> field, inQuotes |-> inQuotes, skip |-> skip]

States == [fields : Seq(Seq(Chars)), field : Seq(Chars), inQuotes : BOOLEAN, skip : BOOLEAN]

\* after[i] is what they are after i turns.
Reading(line, after) ==
    /\ after[0] = Start
    /\ \A i \in 1 .. Len(line) : after[i] = ReadChar(line, i, after[i - 1])

\* A turn keeps the variables in their types.
LEMMA ReadCharType ==
  ASSUME NEW line \in Seq(Chars), NEW i \in 1 .. Len(line), NEW s \in States
  PROVE  ReadChar(line, i, s) \in States
<1>1. line[i] \in Chars /\ Quote \in Chars
  BY DEF Chars
<1>2. /\ s.fields \in Seq(Seq(Chars)) /\ s.field \in Seq(Chars)
      /\ s.inQuotes \in BOOLEAN /\ s.skip \in BOOLEAN
  BY DEF States
<1>3. Append(s.field, line[i]) \in Seq(Chars) /\ Append(s.field, Quote) \in Seq(Chars)
  BY <1>1, <1>2, AppendProperties
<1>4. Append(s.fields, s.field) \in Seq(Seq(Chars)) /\ <<>> \in Seq(Chars)
  BY <1>2, AppendProperties
<1>5. /\ [s EXCEPT !.skip = FALSE] \in States
      /\ [s EXCEPT !.field = Append(@, Quote), !.skip = TRUE] \in States
      /\ [s EXCEPT !.inQuotes = FALSE] \in States
      /\ [s EXCEPT !.inQuotes = TRUE] \in States
      /\ [s EXCEPT !.fields = Append(@, s.field), !.field = <<>>] \in States
      /\ [s EXCEPT !.field = Append(@, line[i])] \in States
  BY <1>2, <1>3, <1>4 DEF States
<1>. QED
  BY <1>2, <1>5 DEF ReadChar

\* splitCsvLine reads the line to its end.
LEMMA SplitReads ==
  ASSUME NEW line \in Seq(Chars)
  PROVE  \E after : /\ Reading(line, after)
                    /\ SplitCsvLine(line)
                         = Append(after[Len(line)].fields, after[Len(line)].field)
<1>. DEFINE n == Len(line)
            Eq(g) == g = [i \in 0 .. n |-> IF i = 0 THEN Start ELSE ReadChar(line, i, g[i - 1])]
            after == CHOOSE g : Eq(g)
<1>1. n \in Nat
  OBVIOUS
<1>2. SplitCsvLine(line) = Append(after[n].fields, after[n].field)
  BY DEF SplitCsvLine
<1>. HIDE DEF after
<1>. DEFINE step == [p \in States \X (1 .. n) |-> ReadChar(line, p[2], p[1])]
<1>3. step \in [States \X (1 .. n) -> States]
  BY ReadCharType
<1>4. \A s \in States, i \in 1 .. n : step[<<s, i>>] = ReadChar(line, i, s)
  OBVIOUS
<1>5. Start \in States
  <2>1. <<>> \in Seq(Seq(Chars)) /\ <<>> \in Seq(Chars)
    OBVIOUS
  <2>. QED
    BY <2>1 DEF Start, States
<1>. HIDE DEF n, step
<1>6. PICK g \in [0 .. n -> States] : Iterates(g, Start, step, n)
  BY <1>1, <1>3, <1>5, Iteration
<1>7. Eq(g)
  <2>1. \A i \in 1 .. n : g[i - 1] \in States
    BY <1>1
  <2>2. \A i \in 1 .. n : step[<<g[i - 1], i>>] = ReadChar(line, i, g[i - 1])
    BY <1>4, <2>1
  <2>. QED
    BY <1>1, <1>6, <2>2 DEF Iterates
<1>8. Eq(after)
  <2>. HIDE DEF Eq
  <2>. QED
    BY <1>7 DEF after
<1>9. \A i \in 0 .. n : after[i] = IF i = 0 THEN Start ELSE ReadChar(line, i, after[i - 1])
  BY <1>8
<1>10. Reading(line, after)
  <2>1. after[0] = Start
    BY <1>1, <1>9
  <2>2. \A i \in 1 .. n : i \in 0 .. n /\ i # 0
    BY <1>1
  <2>. QED
    BY <1>9, <2>1, <2>2 DEF Reading, n
<1>. QED
  BY <1>2, <1>10 DEF n

\* A turn, outside quotes: any character but a quote or a comma; a quote.
LEMMA ReadPlain ==
  ASSUME NEW line, NEW i, NEW fs, NEW f, line[i] \notin {Quote, Comma}
  PROVE  ReadChar(line, i, State(fs, f, FALSE, FALSE)) = State(fs, Append(f, line[i]), FALSE, FALSE)
BY DEF ReadChar, State

\* A quote outside quotes opens them.
LEMMA ReadOpening ==
  ASSUME NEW line, NEW i, NEW fs, NEW f, line[i] = Quote
  PROVE  ReadChar(line, i, State(fs, f, FALSE, FALSE)) = State(fs, f, TRUE, FALSE)
BY DEF ReadChar, State, Quote, Comma

\* Inside quotes: any character but a quote; the second of two quotes; a quote that
\* closes.
LEMMA ReadQuoted ==
  ASSUME NEW line, NEW i, NEW fs, NEW f, line[i] # Quote
  PROVE  ReadChar(line, i, State(fs, f, TRUE, FALSE)) = State(fs, Append(f, line[i]), TRUE, FALSE)
BY DEF ReadChar, State

\* The second of two quotes is passed over: the first was kept.
LEMMA ReadSecond ==
  ASSUME NEW line, NEW i, NEW fs, NEW f
  PROVE  ReadChar(line, i, State(fs, f, TRUE, TRUE)) = State(fs, f, TRUE, FALSE)
BY DEF ReadChar, State

\* A quote without a second one closes the field.
LEMMA ReadClosing ==
  ASSUME NEW line, NEW i, NEW fs, NEW f, line[i] = Quote,
         ~ (i < Len(line) /\ line[i + 1] = Quote)
  PROVE  ReadChar(line, i, State(fs, f, TRUE, FALSE)) = State(fs, f, FALSE, FALSE)
BY DEF ReadChar, State

\* The beginnings of a sequence.
LEMMA Beginnings ==
  ASSUME NEW T, NEW f \in Seq(T)
  PROVE  /\ SubSeq(f, 1, 0) = <<>>
         /\ SubSeq(f, 1, Len(f)) = f
         /\ \A k \in 0 .. Len(f) - 1 : SubSeq(f, 1, k + 1) = Append(SubSeq(f, 1, k), f[k + 1])
<1>1. SubSeq(f, 1, 0) = <<>>
  BY SubSeqEmpty
<1>2. SubSeq(f, 1, Len(f)) = f
  BY SubSeqFull
<1>3. ASSUME NEW k \in 0 .. Len(f) - 1
      PROVE  SubSeq(f, 1, k + 1) = Append(SubSeq(f, 1, k), f[k + 1])
  BY SubSeqRecursiveSecond
<1>. QED
  BY <1>1, <1>2, <1>3

\* After p turns the fields before are fs and the field is f so far, and the loop is
\* outside quotes, or inside.
Outside(after, p, fs, f) == after[p] = State(fs, f, FALSE, FALSE)
Inside(after, p, fs, f) == after[p] = State(fs, f, TRUE, FALSE)

\* The line has w from its p-th character on, and then ends or goes on with a comma.
Holds(line, p, w) ==
    /\ p + Len(w) <= Len(line)
    /\ \A j \in 1 .. Len(w) : line[p + j] = w[j]
    /\ p + Len(w) < Len(line) => line[p + Len(w) + 1] = Comma

\* A field that needs no quotes is read character by character.
LEMMA PlainRead ==
  ASSUME NEW line \in Seq(Chars), NEW after, Reading(line, after),
         NEW f \in Seq(Chars), Range(f) \cap {Quote, Comma} = {},
         NEW p \in Nat, Holds(line, p, f),
         NEW fs, Outside(after, p, fs, <<>>)
  PROVE  Outside(after, p + Len(f), fs, f)
<1>. DEFINE n == Len(f)
            Read(k) == after[p + k] = State(fs, SubSeq(f, 1, k), FALSE, FALSE)
            S == {k \in Nat : k <= n => Read(k)}
<1>1. n \in Nat /\ Len(line) \in Nat
  OBVIOUS
<1>2. Read(0)
  <2>1. p + 0 = p
    OBVIOUS
  <2>. QED
    BY <2>1, Beginnings DEF Outside
<1>3. ASSUME NEW k \in Nat, k + 1 <= n, Read(k)  PROVE Read(k + 1)
  <2>. DEFINE i == p + (k + 1)
  <2>1. k + 1 \in 1 .. n /\ k \in 0 .. n - 1
    BY <1>1, <1>3
  <2>2. i \in 1 .. Len(line) /\ i - 1 = p + k
    BY <1>1, <1>3 DEF Holds
  <2>3. line[i] = f[k + 1]
    BY <2>1 DEF Holds
  <2>4. f[k + 1] \notin {Quote, Comma}
    <3>1. f[k + 1] \in Range(f)
      BY <2>1 DEF Range
    <3>. QED
      BY <3>1
  <2>5. after[i] = ReadChar(line, i, after[i - 1])
    BY <2>2 DEF Reading
  <2>6. SubSeq(f, 1, k + 1) = Append(SubSeq(f, 1, k), f[k + 1])
    BY <2>1, Beginnings
  <2>. HIDE DEF i
  <2>7. ReadChar(line, i, State(fs, SubSeq(f, 1, k), FALSE, FALSE))
          = State(fs, Append(SubSeq(f, 1, k), line[i]), FALSE, FALSE)
    BY <2>3, <2>4, ReadPlain
  <2>8. after[i] = State(fs, SubSeq(f, 1, k + 1), FALSE, FALSE)
    BY <1>3, <2>2, <2>3, <2>5, <2>6, <2>7
  <2>. QED
    BY <2>8 DEF i
<1>. HIDE DEF Read
<1>4. 0 \in S /\ \A k \in Nat : k \in S => k + 1 \in S
  BY <1>1, <1>2, <1>3
<1>5. Nat \subseteq S
  <2>. HIDE DEF S
  <2>. QED
    BY <1>4, SetInduction
<1>6. Read(n)
  BY <1>1, <1>5
<1>. QED
  BY <1>6, Beginnings DEF Read, Outside

\* How a field is written inside quotes.
Doubled(f) == [i \in 1 .. Len(f) |-> IF f[i] = Quote THEN <<Quote, Quote>> ELSE <<f[i]>>]

\* The line has the parts, one after the other, from its p-th character on.
HoldsParts(line, p, parts, pos) ==
    /\ p + pos[Len(parts)] <= Len(line)
    /\ \A i \in 1 .. Len(parts) :
         /\ pos[i] <= pos[Len(parts)]
         /\ \A j \in 1 .. Len(parts[i]) : line[p + pos[i - 1] + j] = parts[i][j]

\* Inside the quotes, a field is read where its writing ends: each of its quotes takes
\* two turns.
LEMMA BodyRead ==
  ASSUME NEW line \in Seq(Chars), NEW after, Reading(line, after),
         NEW f \in Seq(Chars), NEW pos, EndsAt(pos, Doubled(f)),
         NEW p \in Nat, HoldsParts(line, p, Doubled(f), pos),
         NEW fs, Inside(after, p, fs, <<>>)
  PROVE  Inside(after, p + pos[Len(f)], fs, f)
<1>. DEFINE n == Len(f)
            Read(k) == after[p + pos[k]] = State(fs, SubSeq(f, 1, k), TRUE, FALSE)
            S == {k \in Nat : k <= n => Read(k)}
<1>1. n \in Nat /\ Len(line) \in Nat
  OBVIOUS
<1>d. Len(Doubled(f)) = n
  BY DEF Doubled
<1>2. /\ pos[0] = 0 /\ \A k \in 0 .. n : pos[k] \in Nat
      /\ \A k \in 1 .. n : pos[k] = pos[k - 1] + Len(Doubled(f)[k])
  BY <1>d DEF EndsAt
<1>3. Read(0)
  <2>1. p + 0 = p
    OBVIOUS
  <2>. QED
    BY <1>2, <2>1, Beginnings DEF Inside
<1>4. ASSUME NEW k \in Nat, k + 1 <= n, Read(k)  PROVE Read(k + 1)
  <2>. DEFINE i == p + pos[k] + 1
              g == SubSeq(f, 1, k)
  <2>1. k + 1 \in 1 .. n /\ k \in 0 .. n - 1 /\ k \in 0 .. n /\ (k + 1) - 1 = k
    BY <1>1, <1>4
  <2>2. pos[k] \in Nat /\ pos[k + 1] \in Nat /\ pos[k + 1] = pos[k] + Len(Doubled(f)[k + 1])
    BY <1>2, <2>1
  <2>3. \A j \in 1 .. Len(Doubled(f)[k + 1]) : line[p + pos[k] + j] = Doubled(f)[k + 1][j]
    BY <1>d, <2>1 DEF HoldsParts
  <2>4. p + pos[k + 1] <= Len(line)
    <3>1. pos[k + 1] <= pos[n] /\ pos[n] \in Nat
      BY <1>1, <1>2, <1>d, <2>1 DEF HoldsParts
    <3>2. p + pos[n] <= Len(line)
      BY <1>d DEF HoldsParts
    <3>. QED
      BY <1>1, <2>2, <3>1, <3>2
  <2>5. Doubled(f)[k + 1] = IF f[k + 1] = Quote THEN <<Quote, Quote>> ELSE <<f[k + 1]>>
    BY <2>1 DEF Doubled
  <2>6. SubSeq(f, 1, k + 1) = Append(g, f[k + 1])
    BY <2>1, Beginnings
  <2>7. \A m \in 1 .. Len(line) : after[m] = ReadChar(line, m, after[m - 1])
    BY DEF Reading
  <2>8. after[p + pos[k]] = State(fs, g, TRUE, FALSE)
    BY <1>4
  <2>. HIDE DEF g
  <2>9. CASE f[k + 1] = Quote
    <3>1. Doubled(f)[k + 1] = <<Quote, Quote>>
      BY <2>5, <2>9
    <3>2. /\ Len(<<Quote, Quote>>) = 2 /\ <<Quote, Quote>>[1] = Quote /\ <<Quote, Quote>>[2] = Quote
          /\ 1 \in 1 .. 2 /\ 2 \in 1 .. 2
      OBVIOUS
    <3>3. /\ line[p + pos[k] + 1] = Quote /\ line[p + pos[k] + 2] = Quote
      BY <2>3, <3>1, <3>2
    <3>p. pos[k + 1] = pos[k] + 2
      BY <2>2, <3>1, <3>2
    <3>4. /\ i \in 1 .. Len(line) /\ i + 1 \in 1 .. Len(line) /\ i < Len(line)
          /\ i - 1 = p + pos[k] /\ (i + 1) - 1 = i
          /\ i + 1 = p + pos[k] + 2 /\ i + 1 = p + pos[k + 1]
      <4>1. pos[k] \in Nat /\ pos[k + 1] \in Nat
        BY <2>2
      <4>2. i + 1 = p + pos[k] + 2 /\ i + 1 = p + pos[k + 1]
        BY <3>p, <4>1
      <4>3. i \in Nat /\ 1 <= i /\ i + 1 <= Len(line)
        BY <1>1, <2>4, <4>1, <4>2
      <4>4. i - 1 = p + pos[k] /\ (i + 1) - 1 = i
        BY <4>1
      <4>. HIDE DEF i
      <4>5. i \in 1 .. Len(line) /\ i + 1 \in 1 .. Len(line) /\ i < Len(line)
        BY <1>1, <4>3
      <4>. QED
        BY <4>2, <4>4, <4>5
    <3>5. line[i] = Quote /\ line[i + 1] = Quote
      BY <3>3, <3>4
    <3>. HIDE DEF i
    <3>6. after[i] = State(fs, Append(g, Quote), TRUE, TRUE)
      <4>0. line[i] = Quote /\ i < Len(line) /\ line[i + 1] = Quote
        BY <3>4, <3>5
      <4>1. ReadChar(line, i, State(fs, g, TRUE, FALSE)) = State(fs, Append(g, Quote), TRUE, TRUE)
        BY <4>0 DEF ReadChar, State
      <4>. QED
        BY <2>7, <2>8, <3>4, <4>1
    <3>7. after[i + 1] = State(fs, Append(g, Quote), TRUE, FALSE)
      <4>1. ReadChar(line, i + 1, State(fs, Append(g, Quote), TRUE, TRUE))
              = State(fs, Append(g, Quote), TRUE, FALSE)
        BY ReadSecond
      <4>. QED
        BY <2>7, <3>4, <3>6, <4>1
    <3>. QED
      BY <2>6, <2>9, <3>4, <3>7
  <2>10. CASE f[k + 1] # Quote
    <3>1. Doubled(f)[k + 1] = <<f[k + 1]>>
      BY <2>5, <2>10
    <3>2. Len(<<f[k + 1]>>) = 1 /\ <<f[k + 1]>>[1] = f[k + 1] /\ 1 \in 1 .. 1
      OBVIOUS
    <3>3. line[p + pos[k] + 1] = f[k + 1] /\ pos[k + 1] = pos[k] + 1
      BY <2>2, <2>3, <3>1, <3>2
    <3>4. /\ i \in 1 .. Len(line) /\ i - 1 = p + pos[k] /\ i = p + pos[k + 1]
      <4>1. pos[k] \in Nat /\ pos[k + 1] \in Nat
        BY <2>2
      <4>2. i = p + pos[k + 1]
        BY <3>3, <4>1
      <4>3. i - 1 = p + pos[k] /\ i \in Nat /\ 1 <= i
        BY <4>1
      <4>4. i <= Len(line)
        BY <2>4, <4>2
      <4>. HIDE DEF i
      <4>5. i \in 1 .. Len(line)
        BY <1>1, <4>3, <4>4
      <4>. QED
        BY <4>2, <4>3, <4>5
    <3>5. line[i] = f[k + 1]
      BY <3>3
    <3>. HIDE DEF i
    <3>6. ReadChar(line, i, State(fs, g, TRUE, FALSE)) = State(fs, Append(g, line[i]), TRUE, FALSE)
      BY <2>10, <3>5, ReadQuoted
    <3>7. after[i] = State(fs, Append(g, f[k + 1]), TRUE, FALSE)
      BY <2>7, <2>8, <3>4, <3>5, <3>6
    <3>. QED
      BY <2>6, <3>4, <3>7
  <2>. QED
    BY <2>9, <2>10
<1>. HIDE DEF Read
<1>5. 0 \in S /\ \A k \in Nat : k \in S => k + 1 \in S
  BY <1>1, <1>3, <1>4
<1>6. Nat \subseteq S
  <2>. HIDE DEF S
  <2>. QED
    BY <1>5, SetInduction
<1>7. Read(n)
  BY <1>1, <1>6
<1>. QED
  BY <1>7, Beginnings DEF Read, Inside

\* The parts that a field is written with inside quotes.
LEMMA DoubledType ==
  ASSUME NEW f \in Seq(Chars)
  PROVE  Doubled(f) \in Seq(Seq(Chars)) /\ Len(Doubled(f)) = Len(f)
<1>1. Quote \in Chars
  BY DEF Chars
<1>2. \A c \in Chars : <<Quote, Quote>> \in Seq(Chars) /\ <<c>> \in Seq(Chars)
  BY <1>1
<1>3. \A i \in 1 .. Len(f) : f[i] \in Chars
  OBVIOUS
<1>4. \A i \in 1 .. Len(f) :
         (IF f[i] = Quote THEN <<Quote, Quote>> ELSE <<f[i]>>) \in Seq(Chars)
  BY <1>2, <1>3
<1>. QED
  BY <1>4 DEF Doubled

\* A quoted field is its quotes and what is between them.
LEMMA QuotedLayout ==
  ASSUME NEW f \in Seq(Chars), NEW body \in Seq(Chars), body = FlattenSeq(Doubled(f))
  PROVE  /\ Quoted(f) \in Seq(Chars)
         /\ Len(Quoted(f)) = Len(body) + 2
         /\ Quoted(f)[1] = Quote /\ Quoted(f)[Len(body) + 2] = Quote
         /\ \A j \in 1 .. Len(body) : Quoted(f)[1 + j] = body[j]
<1>. DEFINE q == <<Quote>>
            qb == q \o body
            w == qb \o q
<1>1. Quoted(f) = w
  BY DEF Quoted, Doubled
<1>2. q \in Seq(Chars) /\ Len(q) = 1 /\ q[1] = Quote /\ Len(body) \in Nat
  BY DEF Chars
<1>. HIDE DEF q
<1>3. /\ qb \in Seq(Chars) /\ Len(qb) = 1 + Len(body)
      /\ \A i \in 1 .. 1 + Len(body) : qb[i] = IF i <= 1 THEN q[i] ELSE body[i - 1]
  <2>1. /\ qb \in Seq(Chars) /\ Len(qb) = Len(q) + Len(body)
        /\ \A i \in 1 .. Len(q) + Len(body) :
              qb[i] = IF i <= Len(q) THEN q[i] ELSE body[i - Len(q)]
    BY <1>2, ConcatProperties
  <2>. HIDE DEF qb
  <2>. QED
    BY <1>2, <2>1
<1>. HIDE DEF qb
<1>4. /\ w \in Seq(Chars) /\ Len(w) = Len(qb) + 1
      /\ \A i \in 1 .. Len(qb) + 1 : w[i] = IF i <= Len(qb) THEN qb[i] ELSE q[i - Len(qb)]
  <2>1. /\ w \in Seq(Chars) /\ Len(w) = Len(qb) + Len(q)
        /\ \A i \in 1 .. Len(qb) + Len(q) :
              w[i] = IF i <= Len(qb) THEN qb[i] ELSE q[i - Len(qb)]
    BY <1>2, <1>3, ConcatProperties
  <2>. HIDE DEF w
  <2>. QED
    BY <1>2, <2>1
<1>. HIDE DEF w
<1>5. Len(w) = Len(body) + 2
  BY <1>2, <1>3, <1>4
<1>6. w[1] = Quote
  <2>1. 1 \in 1 .. Len(qb) + 1 /\ 1 <= Len(qb) /\ 1 \in 1 .. 1 + Len(body)
    BY <1>2, <1>3
  <2>. QED
    BY <1>2, <1>3, <1>4, <2>1
<1>7. w[Len(body) + 2] = Quote
  <2>1. /\ Len(body) + 2 \in 1 .. Len(qb) + 1 /\ ~ (Len(body) + 2 <= Len(qb))
        /\ (Len(body) + 2) - Len(qb) = 1
    BY <1>2, <1>3
  <2>. QED
    BY <1>2, <1>4, <2>1
<1>8. ASSUME NEW j \in 1 .. Len(body)  PROVE w[1 + j] = body[j]
  <2>1. /\ 1 + j \in 1 .. Len(qb) + 1 /\ 1 + j <= Len(qb) /\ 1 + j \in 1 .. 1 + Len(body)
        /\ ~ (1 + j <= 1) /\ (1 + j) - 1 = j
    BY <1>2, <1>3
  <2>. QED
    BY <1>3, <1>4, <2>1
<1>. QED
  BY <1>1, <1>4, <1>5, <1>6, <1>7, <1>8

\* A field in quotes is read to the end of its writing.
LEMMA QuotedRead ==
  ASSUME NEW line \in Seq(Chars), NEW after, Reading(line, after),
         NEW f \in Seq(Chars), NEW p \in Nat, Holds(line, p, Quoted(f)),
         NEW fs, Outside(after, p, fs, <<>>)
  PROVE  Outside(after, p + Len(Quoted(f)), fs, f)
<1>. DEFINE body == FlattenSeq(Doubled(f))
            b == Len(body)
            w == Quoted(f)
<1>1. Doubled(f) \in Seq(Seq(Chars)) /\ Len(Doubled(f)) = Len(f)
  BY DoubledType
<1>2. PICK pos : EndsAt(pos, Doubled(f))
  BY <1>1, EndsExist
<1>3. body \in Seq(Chars) /\ LaidOut(body, Doubled(f), pos, Len(Doubled(f)))
  BY <1>1, <1>2, Flattened
<1>. HIDE DEF body
<1>4. /\ Len(w) = b + 2 /\ w[1] = Quote /\ w[b + 2] = Quote
      /\ \A j \in 1 .. b : w[1 + j] = body[j]
  BY <1>3, QuotedLayout DEF body
<1>5. b \in Nat /\ Len(line) \in Nat
  BY <1>3
<1>. HIDE DEF w
<1>6. /\ p + (b + 2) <= Len(line)
      /\ \A j \in 1 .. b + 2 : line[p + j] = w[j]
      /\ p + (b + 2) < Len(line) => line[p + (b + 2) + 1] = Comma
  BY <1>4 DEF Holds, w
<1>7. \A m \in 1 .. Len(line) : after[m] = ReadChar(line, m, after[m - 1])
  BY DEF Reading
<1>. HIDE DEF b
<1>8. after[p + 1] = State(fs, <<>>, TRUE, FALSE)
  <2>. DEFINE i == p + 1
  <2>1. i \in 1 .. Len(line) /\ i - 1 = p
    BY <1>5, <1>6
  <2>2. line[i] = Quote
    <3>1. 1 \in 1 .. b + 2
      BY <1>5
    <3>. QED
      BY <1>4, <1>6, <3>1
  <2>. HIDE DEF i
  <2>3. ReadChar(line, i, State(fs, <<>>, FALSE, FALSE)) = State(fs, <<>>, TRUE, FALSE)
    BY <2>2, ReadOpening
  <2>4. after[i] = State(fs, <<>>, TRUE, FALSE)
    BY <1>7, <2>1, <2>3 DEF Outside
  <2>. QED
    BY <2>4 DEF i
<1>9. pos[Len(f)] = b
  BY <1>1, <1>3 DEF LaidOut, b
<1>10. after[(p + 1) + b] = State(fs, f, TRUE, FALSE)
  <2>1. /\ \A i \in 0 .. Len(f) : pos[i] \in Nat
        /\ \A i \in 1 .. Len(f) : pos[i] = pos[i - 1] + Len(Doubled(f)[i])
    BY <1>1, <1>2 DEF EndsAt
  <2>2. \A i \in 1 .. Len(f) :
           /\ pos[i] <= b
           /\ \A j \in 1 .. Len(Doubled(f)[i]) : body[pos[i - 1] + j] = Doubled(f)[i][j]
    BY <1>1, <1>3, <1>9 DEF LaidOut
  <2>3. ASSUME NEW i \in 1 .. Len(f), NEW j \in 1 .. Len(Doubled(f)[i])
        PROVE  line[(p + 1) + pos[i - 1] + j] = Doubled(f)[i][j]
    <3>. DEFINE at == pos[i - 1] + j
    <3>1. /\ i - 1 \in 0 .. Len(f) /\ i \in 0 .. Len(f)
      OBVIOUS
    <3>2. Len(Doubled(f)[i]) \in Nat
      BY <1>1
    <3>3. j \in Nat /\ 1 <= j /\ j <= Len(Doubled(f)[i])
      BY <3>2
    <3>4. pos[i - 1] \in Nat /\ pos[i] \in Nat /\ pos[i] = pos[i - 1] + Len(Doubled(f)[i]) /\ pos[i] <= b
      BY <2>1, <2>2, <3>1
    <3>5. at \in Nat /\ 1 <= at /\ at <= b
      BY <1>5, <3>2, <3>3, <3>4
    <3>6. body[at] = Doubled(f)[i][j]
      BY <2>2
    <3>7. (p + 1) + pos[i - 1] + j = p + (1 + at)
      <4>1. \A x, y \in Nat : (p + 1) + x + y = p + (1 + (x + y))
        OBVIOUS
      <4>. QED
        BY <3>3, <3>4, <4>1
    <3>. HIDE DEF at
    <3>8. at \in 1 .. b /\ 1 + at \in 1 .. b + 2
      BY <1>5, <3>5
    <3>9. w[1 + at] = body[at] /\ line[p + (1 + at)] = w[1 + at]
      BY <1>4, <1>6, <3>8
    <3>. QED
      BY <3>6, <3>7, <3>9
  <2>4. (p + 1) + b <= Len(line) /\ p + 1 \in Nat
    BY <1>5, <1>6
  <2>5. HoldsParts(line, p + 1, Doubled(f), pos)
    BY <1>1, <1>9, <2>2, <2>3, <2>4 DEF HoldsParts
  <2>. DEFINE from == p + 1
  <2>. HIDE DEF from
  <2>6. Inside(after, from + pos[Len(f)], fs, f)
    <3>1. /\ from \in Nat /\ HoldsParts(line, from, Doubled(f), pos)
          /\ Inside(after, from, fs, <<>>)
      BY <1>8, <2>4, <2>5 DEF from, Inside
    <3>. QED
      BY <1>2, <3>1, BodyRead
  <2>. QED
    BY <1>9, <2>6 DEF from, Inside
<1>11. after[p + (b + 2)] = State(fs, f, FALSE, FALSE)
  <2>. DEFINE i == p + (b + 2)
  <2>1. i \in 1 .. Len(line) /\ i - 1 = (p + 1) + b
    BY <1>5, <1>6
  <2>2. line[i] = Quote
    <3>1. b + 2 \in 1 .. b + 2
      BY <1>5
    <3>. QED
      BY <1>4, <1>6, <3>1
  <2>3. ~ (i < Len(line) /\ line[i + 1] = Quote)
    BY <1>6 DEF Quote, Comma
  <2>. HIDE DEF i
  <2>4. ReadChar(line, i, State(fs, f, TRUE, FALSE)) = State(fs, f, FALSE, FALSE)
    BY <2>2, <2>3, ReadClosing
  <2>5. after[i] = State(fs, f, FALSE, FALSE)
    BY <1>7, <1>10, <2>1, <2>4
  <2>. QED
    BY <2>5 DEF i
<1>. QED
  BY <1>4, <1>11 DEF w, Outside

\* However it is written, a field is read to the end of its writing.
LEMMA FieldRead ==
  ASSUME NEW line \in Seq(Chars), NEW after, Reading(line, after),
         NEW f \in Seq(Chars), NEW w \in Writings(f), NEW p \in Nat, Holds(line, p, w),
         NEW fs, Outside(after, p, fs, <<>>)
  PROVE  Outside(after, p + Len(w), fs, f)
<1>1. CASE w = Quoted(f)
  <2>1. Holds(line, p, Quoted(f))
    BY <1>1
  <2>2. Outside(after, p + Len(Quoted(f)), fs, f)
    BY <2>1, QuotedRead
  <2>. QED
    BY <1>1, <2>2
<1>2. CASE w = f /\ Range(f) \cap {Quote, Comma} = {}
  <2>1. Holds(line, p, f)
    BY <1>2
  <2>2. Outside(after, p + Len(f), fs, f)
    BY <1>2, <2>1, PlainRead
  <2>. QED
    BY <1>2, <2>2
<1>. QED
  BY <1>1, <1>2 DEF Writings

\* What a field is written as is a sequence of characters.
LEMMA WritingsType ==
  ASSUME NEW f \in Seq(Chars), NEW w \in Writings(f)
  PROVE  w \in Seq(Chars)
<1>. DEFINE body == FlattenSeq(Doubled(f))
<1>1. Doubled(f) \in Seq(Seq(Chars))
  BY DoubledType
<1>2. PICK pos : EndsAt(pos, Doubled(f))
  BY <1>1, EndsExist
<1>3. body \in Seq(Chars)
  BY <1>1, <1>2, Flattened
<1>4. Quoted(f) \in Seq(Chars)
  <2>. HIDE DEF body
  <2>. QED
    BY <1>3, QuotedLayout DEF body
<1>. QED
  BY <1>4 DEF Writings

\* What comes before and with the k-th field of a line.
WithComma(written) ==
    [k \in DOMAIN written |-> IF k = 1 THEN written[k] ELSE <<Comma>> \o written[k]]

\* The parts of a record that is written so.
WritingOf(record, written) ==
    /\ record \in Seq(Seq(Chars)) /\ record # <<>> /\ written \in Seq(Seq(Chars))
    /\ Len(written) = Len(record)
    /\ \A k \in 1 .. Len(record) : written[k] \in Writings(record[k])

\* A comma and a writing.
LEMMA CommaFirst ==
  ASSUME NEW s \in Seq(Chars)
  PROVE  /\ <<Comma>> \o s \in Seq(Chars)
         /\ Len(<<Comma>> \o s) = 1 + Len(s)
         /\ (<<Comma>> \o s)[1] = Comma
         /\ \A j \in 1 .. Len(s) : (<<Comma>> \o s)[1 + j] = s[j]
<1>. DEFINE c == <<Comma>>
            cs == c \o s
<1>1. c \in Seq(Chars) /\ Len(c) = 1 /\ c[1] = Comma
  BY DEF Chars
<1>. HIDE DEF c
<1>2. /\ cs \in Seq(Chars) /\ Len(cs) = Len(c) + Len(s)
      /\ \A i \in 1 .. Len(c) + Len(s) : cs[i] = IF i <= Len(c) THEN c[i] ELSE s[i - Len(c)]
  BY <1>1, ConcatProperties
<1>3. Len(s) \in Nat
  OBVIOUS
<1>. HIDE DEF cs
<1>4. cs[1] = Comma
  <2>1. 1 \in 1 .. 1 + Len(s)
    BY <1>3
  <2>. QED
    BY <1>1, <1>2, <2>1
<1>5. ASSUME NEW j \in 1 .. Len(s)  PROVE cs[1 + j] = s[j]
  <2>1. 1 + j \in 1 .. 1 + Len(s) /\ ~ (1 + j <= 1) /\ (1 + j) - 1 = j
    BY <1>3
  <2>. QED
    BY <1>1, <1>2, <2>1
<1>. QED
  BY <1>1, <1>2, <1>4, <1>5 DEF cs, c

\* A comma outside quotes ends the field.
LEMMA CommaRead ==
  ASSUME NEW line, NEW after, Reading(line, after), NEW i \in 1 .. Len(line), line[i] = Comma,
         NEW fs, NEW f, Outside(after, i - 1, fs, f)
  PROVE  Outside(after, i, Append(fs, f), <<>>)
<1>1. after[i] = ReadChar(line, i, State(fs, f, FALSE, FALSE))
  BY DEF Reading, Outside
<1>2. ReadChar(line, i, State(fs, f, FALSE, FALSE)) = State(Append(fs, f), <<>>, FALSE, FALSE)
  BY DEF ReadChar, State, Quote, Comma
<1>. QED
  BY <1>1, <1>2 DEF Outside

\* What the loop's variables are then.
LEMMA OutsideFields ==
  ASSUME NEW after, NEW p, NEW fs, NEW f, Outside(after, p, fs, f)
  PROVE  after[p].fields = fs /\ after[p].field = f
BY DEF Outside, State

\* A line is read field by field.
LEMMA RecordRead ==
  ASSUME NEW record, NEW written, WritingOf(record, written)
  PROVE  SplitCsvLine(FlattenSeq(WithComma(written))) = record
<1>. DEFINE n == Len(record)
            parts == WithComma(written)
            line == FlattenSeq(parts)
<1>1. n \in Nat /\ n # 0 /\ DOMAIN written = 1 .. n
  BY DEF WritingOf
<1>2. \A k \in 1 .. n : record[k] \in Seq(Chars) /\ written[k] \in Seq(Chars)
  BY DEF WritingOf
<1>r. record \in Seq(Seq(Chars))
  BY DEF WritingOf
<1>w. \A k \in 1 .. n : written[k] \in Writings(record[k])
  BY DEF WritingOf
<1>3. /\ parts \in Seq(Seq(Chars)) /\ Len(parts) = n
      /\ parts[1] = written[1]
      /\ \A k \in 1 .. n : k # 1 => parts[k] = <<Comma>> \o written[k]
  <2>1. \A k \in 1 .. n : (IF k = 1 THEN written[k] ELSE <<Comma>> \o written[k]) \in Seq(Chars)
    BY <1>2, CommaFirst
  <2>2. parts = [k \in 1 .. n |-> IF k = 1 THEN written[k] ELSE <<Comma>> \o written[k]]
    BY <1>1 DEF WithComma
  <2>. HIDE DEF parts, n
  <2>. QED
    BY <1>1, <2>1, <2>2
<1>. HIDE DEF parts
<1>4. PICK pos : EndsAt(pos, parts)
  BY <1>3, EndsExist
<1>5. line \in Seq(Chars) /\ LaidOut(line, parts, pos, n)
  BY <1>3, <1>4, Flattened
<1>. HIDE DEF line
<1>6. PICK after : Reading(line, after)
                   /\ SplitCsvLine(line) = Append(after[Len(line)].fields, after[Len(line)].field)
  BY <1>5, SplitReads
<1>7. /\ \A k \in 0 .. n : pos[k] \in Nat
      /\ \A k \in 1 .. n : pos[k] = pos[k - 1] + Len(parts[k])
      /\ pos[0] = 0
  BY <1>3, <1>4 DEF EndsAt
<1>8. /\ Len(line) = pos[n]
      /\ \A k \in 1 .. n : pos[k] <= pos[n]
      /\ \A k \in 1 .. n : \A j \in 1 .. Len(parts[k]) : line[pos[k - 1] + j] = parts[k][j]
  BY <1>5 DEF LaidOut
<1>. HIDE DEF n
<1>9. ASSUME NEW k \in 1 .. n
      PROVE  /\ k # n => line[pos[k] + 1] = Comma
             /\ pos[k] = Len(line) <=> k = n
  <2>1. CASE k = n
    BY <1>8, <2>1
  <2>2. CASE k # n
    <3>1. k + 1 \in 1 .. n /\ k + 1 # 1 /\ (k + 1) - 1 = k /\ k \in 0 .. n /\ k + 1 \in 0 .. n
      BY <1>1, <2>2
    <3>2. /\ Len(parts[k + 1]) = 1 + Len(written[k + 1]) /\ parts[k + 1][1] = Comma
          /\ Len(written[k + 1]) \in Nat
      <4>. DEFINE v == written[k + 1]
      <4>1. v \in Seq(Chars) /\ parts[k + 1] = <<Comma>> \o v
        BY <1>2, <1>3, <3>1
      <4>. HIDE DEF v
      <4>2. Len(<<Comma>> \o v) = 1 + Len(v) /\ (<<Comma>> \o v)[1] = Comma
        BY <4>1, CommaFirst
      <4>3. Len(v) \in Nat
        BY <4>1
      <4>. QED
        BY <4>1, <4>2, <4>3 DEF v
    <3>3. 1 \in 1 .. Len(parts[k + 1])
      BY <3>2
    <3>4. line[pos[k] + 1] = Comma
      BY <1>8, <3>1, <3>2, <3>3
    <3>5. pos[k + 1] = pos[k] + Len(parts[k + 1]) /\ pos[k] \in Nat /\ pos[k + 1] <= pos[n]
      BY <1>7, <1>8, <3>1
    <3>6. pos[k] # pos[n]
      <4>1. pos[n] \in Nat
        BY <1>1, <1>7
      <4>. QED
        BY <3>2, <3>5, <4>1
    <3>. QED
      BY <1>8, <2>2, <3>4, <3>6
  <2>. QED
    BY <2>1, <2>2
<1>. DEFINE Read(k) == Outside(after, pos[k], SubSeq(record, 1, k - 1), record[k])
            S == {k \in Nat : k + 1 <= n => Read(k + 1)}
<1>10. Read(1)
  <2>1. 1 \in 1 .. n /\ 1 - 1 = 0 /\ 0 \in 0 .. n
    BY <1>1
  <2>2. pos[1] = Len(written[1]) /\ Len(written[1]) \in Nat
    BY <1>2, <1>3, <1>7, <2>1
  <2>. DEFINE w == written[1]
  <2>3. Holds(line, 0, w)
    <3>1. 0 + Len(w) = pos[1] /\ pos[1] <= Len(line)
      BY <1>8, <2>1, <2>2
    <3>2. \A j \in 1 .. Len(w) : 0 + j = j /\ pos[1 - 1] + j = j
      BY <1>7, <2>1
    <3>3. \A j \in 1 .. Len(w) : line[0 + j] = w[j]
      BY <1>3, <1>8, <2>1, <3>2
    <3>4. pos[1] < Len(line) => line[pos[1] + 1] = Comma
      <4>1. pos[1] < Len(line) => 1 # n
        BY <1>8, <2>2
      <4>. QED
        BY <1>9, <2>1, <4>1
    <3>. HIDE DEF w
    <3>. QED
      BY <3>1, <3>3, <3>4 DEF Holds
  <2>4. w \in Writings(record[1]) /\ record[1] \in Seq(Chars)
    BY <1>2, <1>w, <2>1
  <2>5. Outside(after, 0, <<>>, <<>>)
    BY <1>6 DEF Outside, Reading, State, Start
  <2>. DEFINE from == 0
              none == <<>>
  <2>6. from \in Nat /\ Holds(line, from, w) /\ Outside(after, from, none, <<>>)
    BY <2>3, <2>5
  <2>7. from + Len(w) = pos[1] /\ SubSeq(record, 1, 1 - 1) = none
    BY <1>r, <2>1, <2>2, Beginnings
  <2>. HIDE DEF w, from, none
  <2>8. Outside(after, from + Len(w), none, record[1])
    BY <1>5, <1>6, <2>4, <2>6, FieldRead
  <2>. QED
    BY <2>7, <2>8
<1>11. ASSUME NEW k \in 1 .. n, k # n, Read(k)  PROVE Read(k + 1)
  <2>1. k + 1 \in 1 .. n /\ k + 1 # 1 /\ (k + 1) - 1 = k /\ k \in 0 .. n /\ k + 1 \in 0 .. n
    BY <1>1, <1>11
  <2>. DEFINE from == pos[k] + 1
              w == written[k + 1]
              f == record[k + 1]
              fs == SubSeq(record, 1, k)
  <2>2. /\ parts[k + 1] = <<Comma>> \o w
        /\ w \in Seq(Chars) /\ f \in Seq(Chars) /\ w \in Writings(f)
    BY <1>2, <1>3, <1>w, <2>1
  <2>3. Len(parts[k + 1]) = 1 + Len(w) /\ Len(w) \in Nat
    BY CommaFirst, <2>2
  <2>4. pos[k + 1] = pos[k] + Len(parts[k + 1]) /\ pos[k] \in Nat /\ pos[k + 1] <= Len(line)
    BY <1>7, <1>8, <2>1
  <2>5. from \in Nat /\ from + Len(w) = pos[k + 1]
    BY <2>3, <2>4
  <2>6. Holds(line, from, w)
    <3>1. ASSUME NEW j \in 1 .. Len(w)  PROVE line[from + j] = w[j]
      <4>1. 1 + j \in 1 .. Len(parts[k + 1]) /\ pos[k] + (1 + j) = from + j
        BY <2>3, <2>4
      <4>2. line[pos[k] + (1 + j)] = parts[k + 1][1 + j]
        BY <1>8, <2>1, <4>1
      <4>3. parts[k + 1][1 + j] = w[j]
        BY CommaFirst, <2>2
      <4>. QED
        BY <4>1, <4>2, <4>3
    <3>2. pos[k + 1] < Len(line) => line[pos[k + 1] + 1] = Comma
      <4>1. pos[k + 1] \in Nat /\ Len(line) \in Nat
        BY <1>1, <1>7, <1>8, <2>1
      <4>2. pos[k + 1] < Len(line) => k + 1 # n
        BY <1>8, <4>1
      <4>. QED
        BY <1>9, <2>1, <4>2
    <3>. HIDE DEF from, w
    <3>. QED
      BY <2>4, <2>5, <3>1, <3>2 DEF Holds
  <2>7. Outside(after, from, fs, <<>>)
    <3>1. line[from] = Comma /\ from - 1 = pos[k] /\ from \in 1 .. Len(line)
      <4>1. from \in 1 .. Len(line)
        <5>1. Len(line) \in Nat
          BY <1>5
        <5>. QED
          BY <2>3, <2>4, <2>5, <5>1
      <4>2. line[from] = Comma
        BY <1>9, <1>11
      <4>3. from - 1 = pos[k]
        BY <2>4
      <4>. QED
        BY <4>1, <4>2, <4>3
    <3>. DEFINE g == record[k]
                gs == SubSeq(record, 1, k - 1)
    <3>2. fs = Append(gs, g)
      <4>1. k - 1 \in 0 .. Len(record) - 1 /\ (k - 1) + 1 = k
        BY <1>1 DEF n
      <4>. QED
        BY <1>r, <4>1, Beginnings
    <3>3. Outside(after, pos[k], gs, g)
      BY <1>11
    <3>. HIDE DEF from, fs, g, gs
    <3>4. Outside(after, from, Append(gs, g), <<>>)
      BY <1>6, <3>1, <3>3, CommaRead
    <3>. QED
      BY <3>2, <3>4
  <2>. HIDE DEF from, w, f, fs
  <2>8. Outside(after, from + Len(w), fs, f)
    BY <1>5, <1>6, <2>2, <2>5, <2>6, <2>7, FieldRead
  <2>9. Outside(after, pos[k + 1], SubSeq(record, 1, (k + 1) - 1), record[k + 1])
    BY <2>1, <2>5, <2>8 DEF fs, f
  <2>. QED
    BY <2>9
<1>. HIDE DEF Read
<1>12. 0 \in S /\ \A k \in Nat : k \in S => k + 1 \in S
  <2>1. 0 \in S
    BY <1>10
  <2>2. ASSUME NEW k \in Nat, k \in S, (k + 1) + 1 <= n  PROVE Read((k + 1) + 1)
    <3>1. k + 1 \in 1 .. n /\ k + 1 # n
      BY <1>1, <2>2
    <3>2. Read(k + 1)
      BY <1>1, <2>2, <3>1
    <3>. QED
      BY <1>11, <3>1, <3>2
  <2>. QED
    BY <2>1, <2>2
<1>13. Nat \subseteq S
  <2>. HIDE DEF S
  <2>. QED
    BY <1>12, SetInduction
<1>14. Read(n)
  <2>1. n - 1 \in Nat /\ (n - 1) + 1 = n
    BY <1>1
  <2>. QED
    BY <1>13, <2>1
<1>15. Outside(after, Len(line), SubSeq(record, 1, n - 1), record[n])
  BY <1>8, <1>14 DEF Read
<1>16. SplitCsvLine(line) = Append(SubSeq(record, 1, n - 1), record[n])
  <2>. DEFINE fs == SubSeq(record, 1, n - 1)
              f == record[n]
              end == Len(line)
  <2>1. Outside(after, end, fs, f)
    BY <1>15
  <2>. HIDE DEF fs, f, end
  <2>2. after[end].fields = fs /\ after[end].field = f
    BY <2>1, OutsideFields
  <2>. QED
    BY <1>6, <2>2 DEF fs, f, end
<1>17. record = Append(SubSeq(record, 1, n - 1), record[n])
  <2>1. n - 1 \in 0 .. Len(record) - 1 /\ (n - 1) + 1 = n
    BY <1>1 DEF n
  <2>2. SubSeq(record, 1, n) = record
    BY <1>r, Beginnings DEF n
  <2>. QED
    BY <1>r, <2>1, <2>2, Beginnings
<1>. QED
  BY <1>16, <1>17 DEF line, parts

\* A function on 1 .. n is a sequence.
LEMMA FunctionIsSequence ==
  ASSUME NEW T, NEW n \in Nat, NEW s \in [1 .. n -> T]
  PROVE  s \in Seq(T) /\ Len(s) = n
OBVIOUS

\* splitCsvLine undoes quoting for every record: any number of fields of any length,
\* however each of them is written.
THEOREM SplitUndoneAlways == \A record \in Seq(Seq(Chars)) \ {<<>>} : SplitUndone(record)
<1>. SUFFICES ASSUME NEW record \in Seq(Seq(Chars)) \ {<<>>}, NEW line \in Lines(record)
              PROVE  SplitCsvLine(line) = record
  BY DEF SplitUndone
<1>1. PICK written \in [DOMAIN record -> UNION {Writings(f) : f \in Range(record)}] :
         /\ \A k \in DOMAIN record : written[k] \in Writings(record[k])
         /\ line = FlattenSeq([k \in DOMAIN record |->
                      IF k = 1 THEN written[k] ELSE <<Comma>> \o written[k]])
  BY DEF Lines
<1>2. DOMAIN record = 1 .. Len(record) /\ Len(record) \in Nat /\ DOMAIN written = DOMAIN record
  OBVIOUS
<1>3. \A k \in 1 .. Len(record) : record[k] \in Seq(Chars) /\ written[k] \in Writings(record[k])
  BY <1>1, <1>2
<1>4. \A k \in 1 .. Len(record) : written[k] \in Seq(Chars)
  BY <1>3, WritingsType
<1>5. written \in Seq(Seq(Chars)) /\ Len(written) = Len(record)
  <2>1. written = [k \in 1 .. Len(record) |-> written[k]]
    BY <1>2
  <2>2. written \in [1 .. Len(record) -> Seq(Chars)]
    BY <1>4, <2>1
  <2>. QED
    BY <1>2, <2>2, FunctionIsSequence
<1>6. WritingOf(record, written)
  BY <1>3, <1>5 DEF WritingOf
<1>7. line = FlattenSeq(WithComma(written))
  BY <1>1, <1>2 DEF WithComma
<1>. QED
  BY <1>6, <1>7, RecordRead

-----------------------------------------------------------------------------
(***************************************************************************)
(* The inputs of the specification                                         *)
(***************************************************************************)

\* An input is a record's fields, an id's characters, a view, or there is none.
LEMMA InputKnown == InputSpec => [](input \in Inputs \cup {NoInput})
<1>1. InputInit => input \in Inputs \cup {NoInput}
  BY DEF InputInit
<1>2. input \in Inputs \cup {NoInput} /\ [UNCHANGED input]_input
        => (input \in Inputs \cup {NoInput})'
  BY DEF Inputs, NoInput
<1>. QED
  BY <1>1, <1>2, PTL DEF InputSpec

\* findWithinBounds finds just what its map shows, for all views.
THEOREM MapFindsWhatItShowsHolds == InputSpec => []MapFindsWhatItShows
<1>1. MapFindsWhatItShows
  BY MapFindsWhatItShowsAlways DEF MapFindsWhatItShows
<1>. QED
  BY <1>1, PTL

\* hotelImages makes a sound gallery of every id of any length.
THEOREM GalleriesSoundHolds == InputSpec => []GalleriesSound
<1>1. input \in Inputs \cup {NoInput} => GalleriesSound
  <2>. SUFFICES ASSUME input \in Inputs \cup {NoInput}, input.kind = "id"
                PROVE  GallerySound(HotelImages(input.text))
    BY DEF GalleriesSound
  <2>1. input.text \in Ids
    BY DEF Inputs, NoInput
  <2>2. HashId(input.text) \in Words
    BY <2>1, IdCodesAssumption, HashIdType
  <2>. QED
    BY <2>2, GalleriesSoundAlways DEF HotelImages
<1>. QED
  BY <1>1, InputKnown, PTL

\* Whatever records there are to import, splitCsvLine undoes their quoting.
THEOREM SplitUndoesQuotingHolds == InputSpec => []SplitUndoesQuoting
<1>1. input \in Inputs \cup {NoInput} => SplitUndoesQuoting
  <2>. SUFFICES ASSUME input \in Inputs \cup {NoInput}, input.kind = "record"
                PROVE  SplitUndone(input.record)
    BY DEF SplitUndoesQuoting
  <2>1. input.record \in Records
    BY DEF Inputs, NoInput
  <2>2. input.record \in Seq(Seq(Chars)) \ {<<>>}
    BY <2>1, RecordsAssumption
  <2>. QED
    BY <2>2, SplitUndoneAlways
<1>. QED
  BY <1>1, InputKnown, PTL
==============================================================================
