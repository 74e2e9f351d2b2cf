-------------------------- MODULE HotelImport_proofs --------------------------
(***************************************************************************)
(* The hotels table and its imports: proofs for any files and any number   *)
(* of runs at once.                                                        *)
(***************************************************************************)
EXTENDS HotelImport, FiniteSetTheorems, TLAPS

\* The lines of a run's file.
LinesOf(i) == 1 .. Len(File[i])

\* Where a run is in its file: what it will have no answer to lies behind it.
PlaceInv ==
    \A i \in Runs :
       /\ unanswered[i] \subseteq LinesOf(i)
       /\ at[i] = "unstarted" => line[i] = 1 /\ unanswered[i] = {} /\ errors[i] = 0
       /\ at[i] \in {"lookup", "insert"} =>
             /\ line[i] \in LinesOf(i)
             /\ \A k \in unanswered[i] : k < line[i]

\* What is known of an INSERT that may still come: its name is not there and no other
\* such INSERT has it, unless there was a race for it.
PendingInv ==
    \A i \in Runs : \A k \in Outstanding(i) :
       \/ HotelOf(i, k).name \in raced
       \/ /\ Named(HotelOf(i, k).name) = {}
          /\ \A j \in Runs : \A l \in Outstanding(j) :
                HotelOf(j, l).name = HotelOf(i, k).name => i = j /\ k = l

\* What a run without errors has dealt with so far is there.
DoneInv ==
    \A i \in Runs : errors[i] = 0 /\ i \notin DryRuns =>
       /\ at[i] \in {"lookup", "insert"} =>
             \A k \in LinesOf(i) : k < line[i] => Named(File[i][k].name) # {}
       /\ at[i] = "finished" => \A k \in LinesOf(i) : Named(File[i][k].name) # {}

\* A run's hotels and the INSERTs that may become hotels, against its counters.
TallyInv ==
    \A i \in Runs :
       /\ by[i] \subseteq StoredHotels
       /\ i \in DryRuns => by[i] = {} /\ unanswered[i] = {} /\ at[i] # "insert"
       /\ created[i] <= Cardinality(by[i]) \/ i \in DryRuns
       /\ Cardinality(by[i]) + Cardinality(unanswered[i])
             <= created[i] + errors[i] + (IF at[i] = "killed" THEN 1 ELSE 0)

ImportInv ==
    ImportTypeOK /\ PlaceInv /\ NameTwiceOnlyByRace /\ PendingInv /\ DoneInv /\ TallyInv

-----------------------------------------------------------------------------
\* A line that was let through is a hotel.
LEMMA HotelOfType ==
  ASSUME NEW i \in Runs, NEW k \in LinesOf(i)
  PROVE  /\ HotelOf(i, k) \in Hotel /\ HotelOf(i, k) # NoHotel
         /\ HotelOf(i, k).name = File[i][k].name /\ HotelOf(i, k).name \in Nat
<1>1. File[i][k] \in Line
  BY FileAssumption DEF LinesOf
<1>2. File[i][k].name \in Nat /\ File[i][k].location \in Nat
  BY <1>1 DEF Line
<1>3. ASSUME NEW cell \in Cell  PROVE NumberOf(cell) \in Int
  BY <1>3 DEF NumberOf, Cell
<1>4. NumberOf(File[i][k].latitude) \in Int /\ NumberOf(File[i][k].longitude) \in Int
  BY <1>1, <1>3 DEF Line
<1>5. HotelOf(i, k) \in Hotel
  BY <1>2, <1>4 DEF HotelOf, ParsedHotel, Hotel
<1>. QED
  BY <1>2, <1>5, NoHotelAssumption DEF HotelOf, ParsedHotel

\* The table gains the hotel h of this name and keeps the others.
Gained(h, name) ==
    /\ StoredHotels' = StoredHotels \cup {h}
    /\ \A g \in StoredHotels : hotels'[g] = hotels[g]
    /\ hotels'[h].name = name
    /\ \A n : Named(n)' = Named(n) \cup (IF name = n THEN {h} ELSE {})

\* An INSERT that commits adds its hotel and changes no other.
LEMMA StoreAdds ==
  ASSUME ImportTypeOK, NEW i \in Runs, NEW k \in LinesOf(i),
         NEW h \in HotelIds \ StoredHotels,
         hotels' = [hotels EXCEPT ![h] = HotelOf(i, k)]
  PROVE  Gained(h, HotelOf(i, k).name)
<1>1. HotelOf(i, k) # NoHotel
  BY HotelOfType
<1>2. hotels \in [HotelIds -> Hotel \cup {NoHotel}]
  BY DEF ImportTypeOK
<1>3. \A g \in HotelIds : hotels'[g] = IF g = h THEN HotelOf(i, k) ELSE hotels[g]
  BY <1>2
<1>4. StoredHotels' = StoredHotels \cup {h}
  BY <1>1, <1>3 DEF StoredHotels
<1>5. \A g \in StoredHotels : hotels'[g] = hotels[g]
  BY <1>3 DEF StoredHotels
<1>6. hotels'[h].name = HotelOf(i, k).name
  BY <1>3
<1>7. \A n : Named(n)' = Named(n) \cup (IF HotelOf(i, k).name = n THEN {h} ELSE {})
  BY <1>4, <1>5, <1>6 DEF Named, StoredHotels
<1>. QED
  BY <1>4, <1>5, <1>6, <1>7 DEF Gained

\* Every step keeps the shape of the table and the runs.
LEMMA ImportTypeStep ==
  ASSUME ImportTypeOK, PlaceInv, [ImportNext]_importVars
  PROVE  ImportTypeOK'
<1>. USE DEF ImportTypeOK, Places
<1>0. ASSUME NEW i \in Runs, NEW k \in LinesOf(i), Store(i, k)
      PROVE  /\ hotels' \in [HotelIds -> Hotel \cup {NoHotel}]
             /\ by' \in [Runs -> SUBSET HotelIds]
  <2>1. HotelOf(i, k) \in Hotel
    BY HotelOfType
  <2>. QED
    BY <1>0, <2>1 DEF Store
<1>n. ASSUME NEW i \in Runs, NextLine(i)
      PROVE  at' \in [Runs -> Places] /\ line' \in [Runs -> Nat]
  BY <1>n DEF NextLine
<1>a. ASSUME NEW i \in Runs, Abandon(i)  PROVE unanswered' \in [Runs -> SUBSET Nat]
  BY <1>a DEF Abandon
<1>1. ASSUME NEW i \in Runs, Main(i)  PROVE ImportTypeOK'
  BY <1>1 DEF Main, counters
<1>2. ASSUME NEW i \in Runs, LookUp(i)  PROVE ImportTypeOK'
  <2>1. created' \in [Runs -> Nat] /\ skipped' \in [Runs -> Nat]
    BY <1>2 DEF LookUp, Increment
  <2>2. at' \in [Runs -> Places] /\ line' \in [Runs -> Nat]
    BY <1>2, <1>n DEF LookUp
  <2>3. raced' \subseteq Nat
    <3>1. at[i] = "lookup" => Current(i).name \in Nat
      BY HotelOfType DEF PlaceInv, Current
    <3>. QED
      BY <1>2, <3>1 DEF LookUp
  <2>. QED
    BY <1>2, <2>1, <2>2, <2>3 DEF LookUp
<1>3. ASSUME NEW i \in Runs, InsertHotel(i)  PROVE ImportTypeOK'
  <2>1. line[i] \in LinesOf(i)
    BY <1>3 DEF InsertHotel, PlaceInv
  <2>2. created' \in [Runs -> Nat]
    BY <1>3 DEF InsertHotel, Increment
  <2>. QED
    BY <1>3, <1>0, <1>n, <2>1, <2>2 DEF InsertHotel
<1>4. ASSUME NEW i \in Runs, QueryRejects(i)  PROVE ImportTypeOK'
  <2>1. errors' \in [Runs -> Nat]
    BY <1>4 DEF QueryRejects, Increment
  <2>. QED
    BY <1>4, <1>a, <1>n, <2>1 DEF QueryRejects
<1>5. ASSUME NEW i \in Runs, Kill(i)  PROVE ImportTypeOK'
  BY <1>5, <1>a DEF Kill, counters
<1>6. ASSUME NEW i \in Runs, Settle(i)  PROVE ImportTypeOK'
  <2>1. PICK k \in unanswered[i] :
           /\ unanswered' = [unanswered EXCEPT ![i] = @ \ {k}]
           /\ Store(i, k) \/ UNCHANGED <<hotels, by>>
           /\ UNCHANGED <<at, line, counters, raced>>
    BY <1>6 DEF Settle
  <2>2. k \in LinesOf(i)
    BY <2>1 DEF PlaceInv
  <2>. QED
    BY <2>1, <2>2, <1>0 DEF counters
<1>7. CASE UNCHANGED importVars
  BY <1>7 DEF importVars, counters
<1>. QED
  BY <1>1, <1>2, <1>3, <1>4, <1>5, <1>6, <1>7 DEF ImportNext

\* Runs go through their files line by line.
LEMMA PlaceStep ==
  ASSUME ImportTypeOK, PlaceInv, [ImportNext]_importVars
  PROVE  PlaceInv'
<1>. SUFFICES ASSUME NEW m \in Runs
     PROVE  /\ unanswered'[m] \subseteq LinesOf(m)
            /\ at'[m] = "unstarted" => line'[m] = 1 /\ unanswered'[m] = {} /\ errors'[m] = 0
            /\ at'[m] \in {"lookup", "insert"} =>
                  /\ line'[m] \in LinesOf(m)
                  /\ \A k \in unanswered'[m] : k < line'[m]
  BY DEF PlaceInv, LinesOf
<1>o. /\ unanswered[m] \subseteq LinesOf(m)
      /\ at[m] = "unstarted" => line[m] = 1 /\ unanswered[m] = {} /\ errors[m] = 0
      /\ at[m] \in {"lookup", "insert"} =>
            /\ line[m] \in LinesOf(m)
            /\ \A k \in unanswered[m] : k < line[m]
  BY DEF PlaceInv
<1>l. Len(File[m]) \in Nat /\ (File[m] # <<>> => 1 \in LinesOf(m))
  BY FileAssumption DEF LinesOf
<1>t. /\ at \in [Runs -> Places] /\ line \in [Runs -> Nat]
      /\ unanswered \in [Runs -> SUBSET Nat] /\ errors \in [Runs -> Nat]
  BY DEF ImportTypeOK
<1>n. ASSUME NextLine(m), line[m] \in LinesOf(m)
      PROVE  /\ at'[m] \in {"lookup", "finished"} /\ line'[m] = line[m] + 1
             /\ at'[m] = "lookup" => line'[m] \in LinesOf(m)
  BY <1>n, <1>l, <1>t DEF NextLine, LinesOf
<1>a. ASSUME Abandon(m)
      PROVE  /\ unanswered'[m] \subseteq unanswered[m] \cup {line[m]}
             /\ at[m] # "insert" => unanswered'[m] = unanswered[m]
  BY <1>a, <1>t DEF Abandon
<1>1. ASSUME NEW i \in Runs, i # m,
             Main(i) \/ LookUp(i) \/ InsertHotel(i) \/ QueryRejects(i) \/ Kill(i) \/ Settle(i)
      PROVE  /\ at'[m] = at[m] /\ line'[m] = line[m]
             /\ unanswered'[m] = unanswered[m] /\ errors'[m] = errors[m]
  BY <1>1, <1>t DEF Main, LookUp, InsertHotel, QueryRejects, Kill, Settle, NextLine, Increment,
                    Abandon, counters
<1>2. CASE Main(m)
  <2>1. at'[m] \in {"lookup", "refused"} /\ (at'[m] = "lookup" => File[m] # <<>>)
        /\ line' = line /\ unanswered' = unanswered /\ at[m] = "unstarted"
    BY <1>2, <1>t DEF Main, ParsedFile
  <2>. QED
    BY <2>1, <1>o, <1>l
<1>3. CASE LookUp(m)
  <2>1. at[m] = "lookup" /\ unanswered' = unanswered
        /\ (NextLine(m) \/ (at' = [at EXCEPT ![m] = "insert"] /\ line' = line))
    BY <1>3 DEF LookUp
  <2>2. line[m] \in LinesOf(m) /\ line[m] \in Nat /\ \A k \in unanswered[m] : k < line[m]
    BY <2>1, <1>o, <1>t
  <2>3. CASE NextLine(m)
    BY <2>1, <2>2, <2>3, <1>n, <1>o, <1>t
  <2>4. CASE at' = [at EXCEPT ![m] = "insert"] /\ line' = line
    BY <2>1, <2>2, <2>4, <1>o, <1>t
  <2>. QED
    BY <2>1, <2>3, <2>4
<1>4. CASE InsertHotel(m)
  <2>1. at[m] = "insert" /\ unanswered' = unanswered /\ NextLine(m)
    BY <1>4 DEF InsertHotel
  <2>. QED
    BY <2>1, <1>n, <1>o, <1>t
<1>5. CASE QueryRejects(m)
  <2>1. at[m] \in {"lookup", "insert"} /\ Abandon(m) /\ NextLine(m)
    BY <1>5 DEF QueryRejects
  <2>. QED
    BY <2>1, <1>n, <1>a, <1>o, <1>t
<1>6. CASE Kill(m)
  <2>1. at[m] \in {"lookup", "insert"} /\ Abandon(m) /\ at'[m] = "killed"
    BY <1>6, <1>t DEF Kill
  <2>. QED
    BY <2>1, <1>a, <1>o
<1>7. CASE Settle(m)
  <2>1. at' = at /\ line' = line /\ errors' = errors /\ unanswered'[m] \subseteq unanswered[m]
    BY <1>7, <1>t DEF Settle, counters
  <2>. QED
    BY <2>1, <1>o
<1>8. CASE UNCHANGED importVars
  BY <1>8, <1>o DEF importVars, counters
<1>. QED
  BY <1>1, <1>2, <1>3, <1>4, <1>5, <1>6, <1>7, <1>8, <1>o DEF ImportNext

-----------------------------------------------------------------------------
\* What a step means for the table and for the INSERTs that may still come: nothing
\* is added to either, one is about to be sent, or one of them commits.
LEMMA ThreeKindsOfStep ==
  ASSUME ImportTypeOK, PlaceInv, [ImportNext]_importVars
  PROVE  \/ /\ UNCHANGED <<hotels, raced>>
            /\ \A j \in Runs : Outstanding(j)' \subseteq Outstanding(j)
         \/ \E i \in Runs :
              /\ UNCHANGED hotels /\ line[i] \in LinesOf(i)
              /\ Named(HotelOf(i, line[i]).name) = {}
              /\ \A j \in Runs :
                    Outstanding(j)' = Outstanding(j) \cup (IF j = i THEN {line[i]} ELSE {})
              /\ raced' = IF \E j \in Runs : \E k \in Outstanding(j) :
                                 HotelOf(j, k).name = HotelOf(i, line[i]).name
                           THEN raced \cup {HotelOf(i, line[i]).name} ELSE raced
         \/ \E i \in Runs : \E k \in Outstanding(i) :
              /\ Store(i, k) /\ UNCHANGED raced
              /\ \A j \in Runs :
                    Outstanding(j)' = Outstanding(j) \ (IF j = i THEN {k} ELSE {})
<1>t. /\ at \in [Runs -> Places] /\ line \in [Runs -> Nat]
      /\ unanswered \in [Runs -> SUBSET Nat]
  BY DEF ImportTypeOK
<1>. DEFINE First == /\ UNCHANGED <<hotels, raced>>
                     /\ \A j \in Runs : Outstanding(j)' \subseteq Outstanding(j)
<1>1. ASSUME NEW i \in Runs, Main(i)  PROVE First
  BY <1>1, <1>t DEF Main, Outstanding
<1>2. ASSUME NEW i \in Runs, QueryRejects(i) \/ Kill(i)  PROVE First
  <2>1. /\ at[i] \in {"lookup", "insert"} /\ Abandon(i) /\ UNCHANGED <<hotels, raced>>
        /\ at'[i] # "insert" /\ \A j \in Runs : j # i => at'[j] = at[j] /\ line'[j] = line[j]
    BY <1>2, <1>t DEF QueryRejects, Kill, NextLine
  <2>2. ASSUME NEW j \in Runs  PROVE Outstanding(j)' \subseteq Outstanding(j)
    <3>1. CASE j = i
      <4>1. unanswered'[i] \subseteq Outstanding(i)
        BY <2>1, <1>t DEF Abandon, Outstanding
      <4>. QED
        BY <3>1, <4>1, <2>1 DEF Outstanding
    <3>2. CASE j # i
      BY <2>1, <3>2, <1>t DEF Abandon, Outstanding
    <3>. QED
      BY <3>1, <3>2
  <2>. QED
    BY <2>1, <2>2
<1>3. ASSUME NEW i \in Runs, LookUp(i), at'[i] # "insert"  PROVE First
  <2>1. at[i] = "lookup" /\ NextLine(i) /\ UNCHANGED <<hotels, unanswered, raced>>
    BY <1>3, <1>t DEF LookUp
  <2>. QED
    BY <2>1, <1>t DEF NextLine, Outstanding
<1>4. ASSUME NEW i \in Runs, LookUp(i), at'[i] = "insert"
      PROVE  /\ UNCHANGED hotels /\ line[i] \in LinesOf(i)
             /\ Named(HotelOf(i, line[i]).name) = {}
             /\ \A j \in Runs :
                   Outstanding(j)' = Outstanding(j) \cup (IF j = i THEN {line[i]} ELSE {})
             /\ raced' = IF \E j \in Runs : \E k \in Outstanding(j) :
                                HotelOf(j, k).name = HotelOf(i, line[i]).name
                          THEN raced \cup {HotelOf(i, line[i]).name} ELSE raced
  <2>1. at[i] = "lookup" /\ Current(i) = HotelOf(i, line[i])
    BY <1>4 DEF LookUp, Current
  <2>2. ~ NextLine(i)
    BY <1>4, <1>t DEF NextLine
  <2>3. /\ Named(HotelOf(i, line[i]).name) = {}
        /\ at' = [at EXCEPT ![i] = "insert"] /\ UNCHANGED <<hotels, line, unanswered>>
        /\ raced' = IF \E j \in Runs : \E k \in Outstanding(j) :
                           HotelOf(j, k).name = HotelOf(i, line[i]).name
                     THEN raced \cup {HotelOf(i, line[i]).name} ELSE raced
    BY <1>4, <2>1, <2>2 DEF LookUp
  <2>4. \A j \in Runs : Outstanding(j)' = Outstanding(j) \cup (IF j = i THEN {line[i]} ELSE {})
    BY <2>1, <2>3, <1>t DEF Outstanding
  <2>. QED
    BY <2>1, <2>3, <2>4 DEF PlaceInv
<1>5. ASSUME NEW i \in Runs, InsertHotel(i)
      PROVE  /\ line[i] \in Outstanding(i) /\ Store(i, line[i]) /\ UNCHANGED raced
             /\ \A j \in Runs :
                   Outstanding(j)' = Outstanding(j) \ (IF j = i THEN {line[i]} ELSE {})
  <2>1. /\ at[i] = "insert" /\ Store(i, line[i]) /\ NextLine(i) /\ UNCHANGED <<unanswered, raced>>
    BY <1>5 DEF InsertHotel
  <2>2. line[i] \in Nat /\ \A k \in unanswered[i] : k < line[i] /\ k \in Nat
    BY <2>1, <1>t DEF PlaceInv
  <2>3. line[i] \notin unanswered[i]
    BY <2>2
  <2>4. /\ at'[i] # "insert" /\ \A j \in Runs : j # i => at'[j] = at[j] /\ line'[j] = line[j]
    BY <2>1, <1>t DEF NextLine
  <2>. QED
    BY <2>1, <2>3, <2>4 DEF Outstanding
<1>6. ASSUME NEW i \in Runs, Settle(i)
      PROVE  \/ First
             \/ \E k \in Outstanding(i) :
                  /\ Store(i, k) /\ UNCHANGED raced
                  /\ \A j \in Runs :
                        Outstanding(j)' = Outstanding(j) \ (IF j = i THEN {k} ELSE {})
  <2>1. PICK k \in unanswered[i] :
           /\ unanswered' = [unanswered EXCEPT ![i] = @ \ {k}]
           /\ Store(i, k) \/ UNCHANGED <<hotels, by>>
           /\ UNCHANGED <<at, line, counters, raced>>
    BY <1>6 DEF Settle
  <2>2. at[i] = "insert" => k # line[i]
    <3>1. at[i] = "insert" => k < line[i] /\ k \in Nat /\ line[i] \in Nat
      BY <1>t DEF PlaceInv
    <3>. QED
      BY <3>1
  <2>3. \A j \in Runs : Outstanding(j)' = Outstanding(j) \ (IF j = i THEN {k} ELSE {})
    BY <2>1, <2>2, <1>t DEF Outstanding
  <2>4. k \in Outstanding(i)
    BY DEF Outstanding
  <2>. QED
    BY <2>1, <2>3, <2>4
<1>7. CASE UNCHANGED importVars
  BY <1>7 DEF importVars, counters, Outstanding
<1>. QED
  BY <1>1, <1>2, <1>3, <1>4, <1>5, <1>6, <1>7 DEF ImportNext

\* What is outstanding is a line of the file.
LEMMA OutstandingLines ==
  ASSUME PlaceInv, NEW i \in Runs, NEW k \in Outstanding(i)
  PROVE  k \in LinesOf(i)
BY DEF PlaceInv, Outstanding

\* A name comes twice only by a race, and stays so.
LEMMA RaceStep ==
  ASSUME ImportTypeOK, PlaceInv, NameTwiceOnlyByRace, PendingInv, [ImportNext]_importVars
  PROVE  NameTwiceOnlyByRace' /\ PendingInv'
<1>1. CASE /\ UNCHANGED <<hotels, raced>>
           /\ \A j \in Runs : Outstanding(j)' \subseteq Outstanding(j)
  <2>1. NameTwiceOnlyByRace' /\ \A n : Named(n)' = Named(n)
    BY <1>1 DEF NameTwiceOnlyByRace, Named, StoredHotels
  <2>2. \A j, k : HotelOf(j, k)' = HotelOf(j, k)
    BY DEF HotelOf
  <2>. QED
    BY <1>1, <2>1, <2>2 DEF PendingInv
<1>2. ASSUME NEW i \in Runs, UNCHANGED hotels, line[i] \in LinesOf(i),
             Named(HotelOf(i, line[i]).name) = {},
             \A j \in Runs :
                Outstanding(j)' = Outstanding(j) \cup (IF j = i THEN {line[i]} ELSE {}),
             raced' = IF \E j \in Runs : \E k \in Outstanding(j) :
                            HotelOf(j, k).name = HotelOf(i, line[i]).name
                      THEN raced \cup {HotelOf(i, line[i]).name} ELSE raced
      PROVE  NameTwiceOnlyByRace' /\ PendingInv'
  <2>. DEFINE name == HotelOf(i, line[i]).name
  <2>1. raced \subseteq raced'
    BY <1>2
  <2>2. NameTwiceOnlyByRace' /\ \A n : Named(n)' = Named(n)
    BY <1>2, <2>1 DEF NameTwiceOnlyByRace, Named, StoredHotels
  <2>3. ASSUME NEW j \in Runs, NEW k \in Outstanding(j)', HotelOf(j, k).name \notin raced'
        PROVE  /\ Named(HotelOf(j, k).name) = {}
               /\ \A g \in Runs : \A l \in Outstanding(g)' :
                     HotelOf(g, l).name = HotelOf(j, k).name => j = g /\ k = l
    <3>1. CASE HotelOf(j, k).name = name
      <4>1. \A g \in Runs : \A l \in Outstanding(g) : HotelOf(g, l).name # name
        BY <1>2, <2>3, <3>1
      <4>2. \A g \in Runs : \A l \in Outstanding(g)' :
               HotelOf(g, l).name = name => g = i /\ l = line[i]
        BY <1>2, <4>1
      <4>. QED
        BY <1>2, <2>3, <3>1, <4>2
    <3>2. CASE HotelOf(j, k).name # name
      <4>1. \A g \in Runs : \A l \in Outstanding(g)' :
               HotelOf(g, l).name # name => l \in Outstanding(g)
        BY <1>2
      <4>2. k \in Outstanding(j) /\ HotelOf(j, k).name \notin raced
        BY <2>1, <2>3, <3>2, <4>1
      <4>3. /\ Named(HotelOf(j, k).name) = {}
            /\ \A g \in Runs : \A l \in Outstanding(g) :
                  HotelOf(g, l).name = HotelOf(j, k).name => j = g /\ k = l
        BY <4>2 DEF PendingInv
      <4>. QED
        BY <3>2, <4>1, <4>3
    <3>. QED
      BY <3>1, <3>2
  <2>4. \A j, k : HotelOf(j, k)' = HotelOf(j, k)
    BY DEF HotelOf
  <2>. QED
    BY <2>2, <2>3, <2>4 DEF PendingInv
<1>3. ASSUME NEW i \in Runs, NEW k \in Outstanding(i), Store(i, k), UNCHANGED raced,
             \A j \in Runs : Outstanding(j)' = Outstanding(j) \ (IF j = i THEN {k} ELSE {})
      PROVE  NameTwiceOnlyByRace' /\ PendingInv'
  <2>. DEFINE name == HotelOf(i, k).name
  <2>1. k \in LinesOf(i)
    BY OutstandingLines
  <2>2. PICK h \in HotelIds \ StoredHotels : hotels' = [hotels EXCEPT ![h] = HotelOf(i, k)]
    BY <1>3 DEF Store
  <2>3. /\ StoredHotels' = StoredHotels \cup {h}
        /\ \A g \in StoredHotels : hotels'[g] = hotels[g]
        /\ hotels'[h].name = name
        /\ \A n : Named(n)' = Named(n) \cup (IF name = n THEN {h} ELSE {})
    <3>1. Gained(h, name)
      BY <2>1, <2>2, StoreAdds
    <3>. QED
      BY <3>1 DEF Gained
  <2>4. name \in raced \/ Named(name) = {}
    BY <1>3 DEF PendingInv
  <2>5. NameTwiceOnlyByRace'
    <3>. SUFFICES ASSUME NEW g \in StoredHotels', NEW f \in StoredHotels',
                         hotels'[g].name = hotels'[f].name, g # f
         PROVE  hotels'[g].name \in raced'
      BY DEF NameTwiceOnlyByRace
    <3>1. CASE g \in StoredHotels /\ f \in StoredHotels
      BY <1>3, <2>3, <3>1 DEF NameTwiceOnlyByRace
    <3>2. CASE g = h \/ f = h
      <4>1. \E e \in StoredHotels : hotels[e].name = name
        BY <2>3, <3>2
      <4>2. Named(name) # {}
        BY <4>1 DEF Named
      <4>. QED
        BY <1>3, <2>3, <2>4, <3>2, <4>2
    <3>. QED
      BY <2>3, <3>1, <3>2
  <2>6. \A j, l : HotelOf(j, l)' = HotelOf(j, l)
    BY DEF HotelOf
  <2>7. ASSUME NEW j \in Runs, NEW l \in Outstanding(j)', HotelOf(j, l).name \notin raced'
        PROVE  /\ Named(HotelOf(j, l).name)' = {}
               /\ \A g \in Runs : \A e \in Outstanding(g)' :
                     HotelOf(g, e).name = HotelOf(j, l).name => j = g /\ l = e
    <3>1. l \in Outstanding(j) /\ (j = i => l # k)
      BY <1>3, <2>7
    <3>2. /\ Named(HotelOf(j, l).name) = {}
          /\ \A g \in Runs : \A e \in Outstanding(g) :
                HotelOf(g, e).name = HotelOf(j, l).name => j = g /\ l = e
      BY <1>3, <2>7, <3>1 DEF PendingInv
    <3>3. HotelOf(j, l).name # name
      BY <3>1, <3>2
    <3>. QED
      BY <1>3, <2>3, <3>2, <3>3
  <2>. QED
    BY <2>5, <2>6, <2>7 DEF PendingInv
<1>. QED
  BY <1>1, <1>2, <1>3, ThreeKindsOfStep

-----------------------------------------------------------------------------
\* What is in the table stays, and the names with it.
LEMMA NamesStay ==
  ASSUME ImportTypeOK, PlaceInv, [ImportNext]_importVars
  PROVE  \A n : Named(n) # {} => Named(n)' # {}
<1>1. CASE UNCHANGED hotels
  BY <1>1 DEF Named, StoredHotels
<1>2. ASSUME NEW i \in Runs, NEW k \in Outstanding(i), Store(i, k)
      PROVE  \A n : Named(n) # {} => Named(n)' # {}
  <2>1. PICK h \in HotelIds \ StoredHotels : hotels' = [hotels EXCEPT ![h] = HotelOf(i, k)]
    BY <1>2 DEF Store
  <2>2. \A n : Named(n)' = Named(n) \cup (IF HotelOf(i, k).name = n THEN {h} ELSE {})
    <3>1. k \in LinesOf(i)
      BY OutstandingLines
    <3>2. Gained(h, HotelOf(i, k).name)
      BY <2>1, <3>1, StoreAdds
    <3>. QED
      BY <3>2 DEF Gained
  <2>3. ASSUME NEW n, Named(n) # {}  PROVE Named(n)' # {}
    <3>1. Named(n)' = Named(n) \cup (IF HotelOf(i, k).name = n THEN {h} ELSE {})
      BY <2>2
    <3>. QED
      BY <2>3, <3>1
  <2>. QED
    BY <2>3
<1>. QED
  BY <1>1, <1>2, ThreeKindsOfStep

\* A run that goes to its next line has dealt with this one.
LEMMA DoneStep ==
  ASSUME ImportTypeOK, PlaceInv, DoneInv, [ImportNext]_importVars
  PROVE  DoneInv'
<1>t. /\ at \in [Runs -> Places] /\ line \in [Runs -> Nat]
      /\ errors \in [Runs -> Nat] /\ created \in [Runs -> Nat]
  BY DEF ImportTypeOK
<1>. SUFFICES ASSUME NEW m \in Runs, errors'[m] = 0, m \notin DryRuns
     PROVE  /\ at'[m] \in {"lookup", "insert"} =>
                  \A k \in LinesOf(m) : k < line'[m] => Named(File[m][k].name)' # {}
            /\ at'[m] = "finished" => \A k \in LinesOf(m) : Named(File[m][k].name)' # {}
  BY DEF DoneInv, LinesOf
<1>s. \A n : Named(n) # {} => Named(n)' # {}
  BY NamesStay
<1>l. LinesOf(m) \subseteq Nat /\ Len(File[m]) \in Nat
      /\ \A k \in LinesOf(m) : k <= Len(File[m])
  BY FileAssumption DEF LinesOf
<1>o. errors[m] = 0 =>
       /\ at[m] \in {"lookup", "insert"} =>
             \A k \in LinesOf(m) : k < line[m] => Named(File[m][k].name) # {}
       /\ at[m] = "finished" => \A k \in LinesOf(m) : Named(File[m][k].name) # {}
  BY DEF DoneInv
<1>n. ASSUME errors[m] = 0, at[m] \in {"lookup", "insert"}, NextLine(m),
             NEW l \in LinesOf(m), l = line[m], Named(File[m][l].name)' # {}
      PROVE  /\ at'[m] \in {"lookup", "insert"} =>
                  \A k \in LinesOf(m) : k < line'[m] => Named(File[m][k].name)' # {}
             /\ at'[m] = "finished" => \A k \in LinesOf(m) : Named(File[m][k].name)' # {}
  <2>1. \A k \in LinesOf(m) : k <= l => Named(File[m][k].name)' # {}
    <3>. TAKE k \in LinesOf(m)
    <3>1. k < line[m] => Named(File[m][k].name)' # {}
      BY <1>n, <1>o, <1>s
    <3>2. k \in Nat /\ l \in Nat
      BY <1>l
    <3>3. k <= l => k < line[m] \/ k = l
      BY <3>2, <1>n
    <3>. QED
      BY <3>1, <3>3, <1>n
  <2>2. line'[m] = l + 1 /\ (at'[m] = "finished" => l = Len(File[m]))
    BY <1>n, <1>t DEF NextLine
  <2>. QED
    BY <2>1, <2>2, <1>l, <1>t
<1>1. ASSUME NEW i \in Runs, i # m,
             Main(i) \/ LookUp(i) \/ InsertHotel(i) \/ QueryRejects(i) \/ Kill(i) \/ Settle(i)
      PROVE  at'[m] = at[m] /\ line'[m] = line[m] /\ errors'[m] = errors[m]
  BY <1>1, <1>t DEF Main, LookUp, InsertHotel, QueryRejects, Kill, Settle, NextLine, Increment,
                    counters
<1>2. CASE Main(m)
  <2>1. /\ at[m] = "unstarted" /\ line' = line /\ errors' = errors
        /\ at'[m] \in {"lookup", "refused"}
    BY <1>2, <1>t DEF Main, counters
  <2>2. line'[m] = 1
    BY <2>1 DEF PlaceInv
  <2>. QED
    BY <2>1, <2>2 DEF LinesOf
<1>3. CASE LookUp(m)
  <2>1. /\ at[m] = "lookup" /\ errors[m] = 0 /\ line[m] \in LinesOf(m)
    BY <1>3 DEF LookUp, PlaceInv
  <2>. PICK l \in LinesOf(m) : l = line[m]
    BY <2>1
  <2>2. CASE Named(Current(m).name) # {}
    <3>1. Named(File[m][l].name) # {}
      BY <2>1, <2>2, HotelOfType DEF Current
    <3>2. NextLine(m)
      BY <1>3, <2>2 DEF LookUp
    <3>. QED
      BY <2>1, <3>1, <3>2, <1>n, <1>s
  <2>3. CASE Named(Current(m).name) = {}
    <3>1. at' = [at EXCEPT ![m] = "insert"] /\ line' = line
      BY <1>3, <2>3 DEF LookUp
    <3>2. at'[m] = "insert"
      BY <3>1, <1>t
    <3>. QED
      BY <2>1, <3>1, <3>2, <1>o, <1>s
  <2>. QED
    BY <2>2, <2>3
<1>4. CASE InsertHotel(m)
  <2>1. /\ at[m] = "insert" /\ errors[m] = 0 /\ line[m] \in LinesOf(m)
        /\ Store(m, line[m]) /\ NextLine(m)
    BY <1>4 DEF InsertHotel, PlaceInv
  <2>0. PICK l \in LinesOf(m) : l = line[m]
    BY <2>1
  <2>2. PICK h \in HotelIds \ StoredHotels : hotels' = [hotels EXCEPT ![h] = HotelOf(m, l)]
    BY <2>0, <2>1 DEF Store
  <2>3. \A n : Named(n)' = Named(n) \cup (IF HotelOf(m, l).name = n THEN {h} ELSE {})
    <3>1. Gained(h, HotelOf(m, l).name)
      BY <2>2, StoreAdds
    <3>. QED
      BY <3>1 DEF Gained
  <2>4. Named(File[m][l].name)' # {}
    BY <2>3, HotelOfType
  <2>. QED
    BY <2>0, <2>1, <2>4, <1>n
<1>5. CASE QueryRejects(m)
  <2>1. errors'[m] = errors[m] + 1
    BY <1>5, <1>t DEF QueryRejects, Increment
  <2>. QED
    BY <2>1, <1>t
<1>6. CASE Kill(m)
  <2>1. at'[m] = "killed"
    BY <1>6, <1>t DEF Kill
  <2>. QED
    BY <2>1
<1>7. CASE Settle(m)
  <2>1. at' = at /\ line' = line /\ errors' = errors
    BY <1>7 DEF Settle, counters
  <2>. QED
    BY <2>1, <1>o, <1>s
<1>8. CASE UNCHANGED importVars
  <2>1. at' = at /\ line' = line /\ errors' = errors
    BY <1>8 DEF importVars, counters
  <2>. QED
    BY <2>1, <1>o, <1>s
<1>9. ASSUME NEW i \in Runs, i # m,
             Main(i) \/ LookUp(i) \/ InsertHotel(i) \/ QueryRejects(i) \/ Kill(i) \/ Settle(i)
      PROVE  /\ at'[m] \in {"lookup", "insert"} =>
                  \A k \in LinesOf(m) : k < line'[m] => Named(File[m][k].name)' # {}
             /\ at'[m] = "finished" => \A k \in LinesOf(m) : Named(File[m][k].name)' # {}
  BY <1>1, <1>9, <1>o, <1>s
<1>. QED
  BY <1>2, <1>3, <1>4, <1>5, <1>6, <1>7, <1>8, <1>9 DEF ImportNext

\* The lines without an answer, and a run's hotels, are finitely many.
LEMMA Finite ==
  ASSUME ImportTypeOK, PlaceInv, NEW i \in Runs
  PROVE  /\ IsFiniteSet(unanswered[i]) /\ Cardinality(unanswered[i]) \in Nat
         /\ IsFiniteSet(by[i]) /\ Cardinality(by[i]) \in Nat
<1>1. IsFiniteSet(LinesOf(i))
  BY FileAssumption, FS_Interval DEF LinesOf
<1>2. unanswered[i] \subseteq LinesOf(i) /\ by[i] \subseteq HotelIds
  BY DEF PlaceInv, ImportTypeOK
<1>3. IsFiniteSet(unanswered[i]) /\ IsFiniteSet(by[i])
  BY <1>1, <1>2, IdsAssumption, FS_Subset
<1>. QED
  BY <1>3, FS_CardinalityType

\* Every INSERT is in one of the three counts, whatever becomes of it.
LEMMA TallyStep ==
  ASSUME ImportTypeOK, PlaceInv, TallyInv, [ImportNext]_importVars
  PROVE  TallyInv'
<1>t. /\ at \in [Runs -> Places] /\ line \in [Runs -> Nat]
      /\ errors \in [Runs -> Nat] /\ created \in [Runs -> Nat]
      /\ unanswered \in [Runs -> SUBSET Nat] /\ by \in [Runs -> SUBSET HotelIds]
  BY DEF ImportTypeOK
<1>. SUFFICES ASSUME NEW m \in Runs
     PROVE  /\ by'[m] \subseteq StoredHotels'
            /\ m \in DryRuns => by'[m] = {} /\ unanswered'[m] = {} /\ at'[m] # "insert"
            /\ created'[m] <= Cardinality(by'[m]) \/ m \in DryRuns
            /\ Cardinality(by'[m]) + Cardinality(unanswered'[m])
                  <= created'[m] + errors'[m] + (IF at'[m] = "killed" THEN 1 ELSE 0)
  BY DEF TallyInv
<1>o. /\ by[m] \subseteq StoredHotels
      /\ m \in DryRuns => by[m] = {} /\ unanswered[m] = {} /\ at[m] # "insert"
      /\ created[m] <= Cardinality(by[m]) \/ m \in DryRuns
      /\ Cardinality(by[m]) + Cardinality(unanswered[m])
            <= created[m] + errors[m] + (IF at[m] = "killed" THEN 1 ELSE 0)
  BY DEF TallyInv
<1>f. /\ IsFiniteSet(unanswered[m]) /\ Cardinality(unanswered[m]) \in Nat
      /\ IsFiniteSet(by[m]) /\ Cardinality(by[m]) \in Nat
      /\ created[m] \in Nat /\ errors[m] \in Nat
  BY <1>t, Finite
<1>s. StoredHotels \subseteq StoredHotels'
  <2>1. CASE UNCHANGED hotels
    BY <2>1 DEF StoredHotels
  <2>2. ASSUME NEW i \in Runs, NEW k \in Outstanding(i), Store(i, k)
        PROVE  StoredHotels \subseteq StoredHotels'
    <3>1. k \in LinesOf(i)
      BY OutstandingLines
    <3>2. PICK h \in HotelIds \ StoredHotels : hotels' = [hotels EXCEPT ![h] = HotelOf(i, k)]
      BY <2>2 DEF Store
    <3>. QED
      BY <3>1, <3>2, StoreAdds DEF Gained
  <2>. QED
    BY <2>1, <2>2, ThreeKindsOfStep
<1>b. ASSUME NEW k \in LinesOf(m), Store(m, k)
      PROVE  /\ by'[m] \subseteq StoredHotels'
             /\ Cardinality(by'[m]) = Cardinality(by[m]) + 1
  <2>1. PICK h \in HotelIds \ StoredHotels :
           /\ hotels' = [hotels EXCEPT ![h] = HotelOf(m, k)]
           /\ by' = [by EXCEPT ![m] = @ \cup {h}]
    BY <1>b DEF Store
  <2>2. h \in StoredHotels'
    <3>1. StoredHotels' = StoredHotels \cup {h}
      BY <2>1, StoreAdds DEF Gained
    <3>. QED
      BY <3>1
  <2>3. by'[m] = by[m] \cup {h} /\ h \notin by[m]
    BY <2>1, <1>t, <1>o
  <2>. QED
    BY <2>2, <2>3, <1>o, <1>s, <1>f, FS_AddElement
<1>a. ASSUME Abandon(m), at[m] \in {"lookup", "insert"}
      PROVE  /\ Cardinality(unanswered'[m]) \in Nat
             /\ Cardinality(unanswered'[m]) <= Cardinality(unanswered[m]) + 1
             /\ m \in DryRuns => unanswered'[m] = {}
  <2>1. CASE UNCHANGED unanswered
    BY <2>1, <1>f, <1>o
  <2>2. CASE at[m] = "insert" /\ unanswered' = [unanswered EXCEPT ![m] = @ \cup {line[m]}]
    <3>1. unanswered'[m] = unanswered[m] \cup {line[m]}
      BY <2>2, <1>t
    <3>2. m \notin DryRuns
      BY <2>2, <1>o
    <3>3. \A x : Cardinality(unanswered[m] \cup {x})
                   \in {Cardinality(unanswered[m]), Cardinality(unanswered[m]) + 1}
      BY <1>f, FS_AddElement
    <3>4. Cardinality(unanswered'[m])
             \in {Cardinality(unanswered[m]), Cardinality(unanswered[m]) + 1}
      BY <3>1, <3>3, Zenon
    <3>. QED
      BY <3>2, <3>4, <1>f
  <2>. QED
    BY <1>a, <2>1, <2>2 DEF Abandon
<1>1. ASSUME NEW i \in Runs, i # m,
             Main(i) \/ LookUp(i) \/ InsertHotel(i) \/ QueryRejects(i) \/ Kill(i) \/ Settle(i)
      PROVE  /\ at'[m] = at[m] /\ by'[m] = by[m] /\ unanswered'[m] = unanswered[m]
             /\ created'[m] = created[m] /\ errors'[m] = errors[m]
  BY <1>1, <1>t DEF Main, LookUp, InsertHotel, QueryRejects, Kill, Settle, NextLine, Increment,
                    Abandon, Store, counters
<1>n. ASSUME NextLine(m)  PROVE at'[m] \in {"lookup", "finished"}
  BY <1>n, <1>t DEF NextLine
<1>2. CASE Main(m)
  <2>1. /\ at[m] = "unstarted" /\ at'[m] \in {"lookup", "refused"} /\ by' = by
        /\ unanswered' = unanswered /\ created' = created /\ errors' = errors
    BY <1>2, <1>t DEF Main, counters
  <2>. QED
    BY <2>1, <1>o, <1>s
<1>3. CASE LookUp(m)
  <2>1. /\ at[m] = "lookup" /\ by' = by /\ unanswered' = unanswered /\ errors' = errors
        /\ \/ created' = created /\ NextLine(m)
           \/ created' = created /\ m \notin DryRuns /\ at'[m] = "insert"
           \/ m \in DryRuns /\ created'[m] = created[m] + 1 /\ NextLine(m)
    BY <1>3, <1>t DEF LookUp, Increment
  <2>2. /\ at'[m] \in {"lookup", "finished", "insert"} /\ (m \in DryRuns => at'[m] # "insert")
        /\ created'[m] \in {created[m], created[m] + 1}
        /\ (m \in DryRuns \/ created'[m] = created[m])
    BY <2>1, <1>n
  <2>. QED
    BY <2>1, <2>2, <1>o, <1>s, <1>f
<1>4. CASE InsertHotel(m)
  <2>1. /\ at[m] = "insert" /\ line[m] \in LinesOf(m) /\ Store(m, line[m]) /\ NextLine(m)
        /\ created'[m] = created[m] + 1 /\ errors' = errors /\ unanswered' = unanswered
    BY <1>4, <1>t DEF InsertHotel, Increment, PlaceInv
  <2>0. PICK l \in LinesOf(m) : l = line[m]
    BY <2>1
  <2>2. Store(m, l)
    BY <2>0, <2>1
  <2>3. /\ by'[m] \subseteq StoredHotels'
        /\ Cardinality(by'[m]) = Cardinality(by[m]) + 1
    BY <2>2, <1>b
  <2>. QED
    BY <2>1, <2>3, <1>n, <1>o, <1>f
<1>5. CASE QueryRejects(m)
  <2>1. /\ at[m] \in {"lookup", "insert"} /\ Abandon(m) /\ NextLine(m) /\ by' = by
        /\ created' = created /\ errors'[m] = errors[m] + 1
    BY <1>5, <1>t DEF QueryRejects, Increment
  <2>. QED
    BY <2>1, <1>a, <1>n, <1>o, <1>s, <1>f
<1>6. CASE Kill(m)
  <2>1. /\ at[m] \in {"lookup", "insert"} /\ Abandon(m) /\ at'[m] = "killed" /\ by' = by
        /\ created' = created /\ errors' = errors
    BY <1>6, <1>t DEF Kill, counters
  <2>. QED
    BY <2>1, <1>a, <1>o, <1>s, <1>f
<1>7. CASE Settle(m)
  <2>1. PICK k \in unanswered[m] :
           /\ unanswered' = [unanswered EXCEPT ![m] = @ \ {k}]
           /\ Store(m, k) \/ UNCHANGED <<hotels, by>>
           /\ UNCHANGED <<at, line, counters, raced>>
    BY <1>7 DEF Settle
  <2>2. at' = at /\ created' = created /\ errors' = errors
    BY <2>1 DEF counters
  <2>3. /\ Cardinality(unanswered'[m]) = Cardinality(unanswered[m]) - 1
        /\ m \notin DryRuns
    <3>1. unanswered'[m] = unanswered[m] \ {k}
      BY <2>1, <1>t
    <3>. QED
      BY <3>1, <1>f, <1>o, FS_RemoveElement
  <2>4. CASE Store(m, k)
    <3>1. k \in LinesOf(m)
      BY DEF PlaceInv
    <3>. QED
      BY <2>2, <2>3, <2>4, <3>1, <1>b, <1>o, <1>f
  <2>5. CASE UNCHANGED <<hotels, by>>
    BY <2>2, <2>3, <2>5, <1>o, <1>s, <1>f
  <2>. QED
    BY <2>1, <2>4, <2>5
<1>8. CASE UNCHANGED importVars
  <2>1. /\ at' = at /\ by' = by /\ unanswered' = unanswered
        /\ created' = created /\ errors' = errors
    BY <1>8 DEF importVars, counters
  <2>. QED
    BY <2>1, <1>o, <1>s
<1>9. ASSUME NEW i \in Runs, i # m,
             Main(i) \/ LookUp(i) \/ InsertHotel(i) \/ QueryRejects(i) \/ Kill(i) \/ Settle(i)
      PROVE  /\ by'[m] \subseteq StoredHotels'
             /\ m \in DryRuns => by'[m] = {} /\ unanswered'[m] = {} /\ at'[m] # "insert"
             /\ created'[m] <= Cardinality(by'[m]) \/ m \in DryRuns
             /\ Cardinality(by'[m]) + Cardinality(unanswered'[m])
                   <= created'[m] + errors'[m] + (IF at'[m] = "killed" THEN 1 ELSE 0)
  BY <1>1, <1>9, <1>o, <1>s
<1>. QED
  BY <1>2, <1>3, <1>4, <1>5, <1>6, <1>7, <1>8, <1>9 DEF ImportNext

-----------------------------------------------------------------------------
\* The migrations' hotels have a name each, and no run has begun.
LEMMA ImportInitInv ==
  ImportInit => ImportInv
<1>. SUFFICES ASSUME ImportInit  PROVE ImportInv
  OBVIOUS
<1>1. ImportTypeOK
  BY SeededAssumption DEF ImportInit, ImportTypeOK, Places
<1>2. PlaceInv
  BY DEF ImportInit, PlaceInv
<1>3. NameTwiceOnlyByRace
  BY SeededAssumption DEF ImportInit, NameTwiceOnlyByRace, StoredHotels
<1>4. PendingInv
  BY DEF ImportInit, PendingInv, Outstanding
<1>5. DoneInv
  BY DEF ImportInit, DoneInv
<1>6. TallyInv
  <2>1. Cardinality({}) = 0
    BY FS_EmptySet
  <2>. QED
    BY <2>1 DEF ImportInit, TallyInv
<1>. QED
  BY <1>1, <1>2, <1>3, <1>4, <1>5, <1>6 DEF ImportInv

\* The invariant of the imports is inductive.
LEMMA ImportStepInv ==
  ImportInv /\ [ImportNext]_importVars => ImportInv'
BY ImportTypeStep, PlaceStep, RaceStep, DoneStep, TallyStep DEF ImportInv

\* What the invariant says of the properties that the run checks.
LEMMA ImportGoals ==
  ASSUME ImportInv
  PROVE  ImportTypeOK /\ NameTwiceOnlyByRace /\ NothingLeftOut /\ SummaryFits
<1>1. NothingLeftOut
  BY DEF ImportInv, DoneInv, NothingLeftOut, LinesOf
<1>2. SummaryFits
  <2>. SUFFICES ASSUME NEW i \in Runs, i \notin DryRuns
       PROVE  Cardinality(by[i])
                 <= created[i] + errors[i] + (IF at[i] = "killed" THEN 1 ELSE 0)
    BY DEF ImportInv, TallyInv, SummaryFits
  <2>1. Cardinality(unanswered[i]) \in Nat /\ Cardinality(by[i]) \in Nat
    BY Finite DEF ImportInv
  <2>2. created[i] \in Nat /\ errors[i] \in Nat
    BY DEF ImportInv, ImportTypeOK
  <2>. QED
    BY <2>1, <2>2 DEF ImportInv, TallyInv
<1>. QED
  BY <1>1, <1>2 DEF ImportInv

\* The invariant, for any files and any number of runs at once.
THEOREM ImportInvariant == ImportSpec => []ImportInv
BY ImportInitInv, ImportStepInv, PTL DEF ImportSpec

\* However often runs are killed, err or are repeated: a name comes twice only if it was
\* looked for while an INSERT of it was still to come.
THEOREM NameTwiceOnlyByRaceHolds == ImportSpec => []NameTwiceOnlyByRace
<1>1. ImportInv => NameTwiceOnlyByRace
  BY DEF ImportInv
<1>. QED
  BY <1>1, ImportInvariant, PTL

\* A writing run that ends without errors has left no name of its file out.
THEOREM NothingLeftOutHolds == ImportSpec => []NothingLeftOut
<1>1. ImportInv => NothingLeftOut
  BY ImportGoals
<1>. QED
  BY <1>1, ImportInvariant, PTL

\* The counters of a run fit the hotels it has stored.
THEOREM SummaryFitsAlways == ImportSpec => []SummaryFits
<1>1. ImportInv => SummaryFits
  BY ImportGoals
<1>. QED
  BY <1>1, ImportInvariant, PTL

-----------------------------------------------------------------------------
(***************************************************************************)
(* Where the hotels come from.  A run that is past main has a file without *)
(* a bad line, and so has one whose INSERT is left to the server.          *)
(***************************************************************************)

GoodFileInv ==
    \A i \in Runs :
       at[i] \in {"lookup", "insert"} \/ unanswered[i] # {} => ParsedFile(i)

SourceInv == GoodFileInv /\ StoredFromGoodFiles

\* A run comes to its lines through main only.
LEMMA GoodFileStep ==
  ASSUME ImportTypeOK, GoodFileInv, [ImportNext]_importVars
  PROVE  GoodFileInv'
<1>. SUFFICES ASSUME NEW m \in Runs, at'[m] \in {"lookup", "insert"} \/ unanswered'[m] # {},
                     ~ ParsedFile(m)
     PROVE  FALSE
  BY DEF GoodFileInv, ParsedFile
<1>t. at \in [Runs -> Places] /\ unanswered \in [Runs -> SUBSET Nat]
  BY DEF ImportTypeOK
<1>o. at[m] \notin {"lookup", "insert"} /\ unanswered[m] = {}
  BY DEF GoodFileInv
<1>1. ASSUME NEW i \in Runs, Main(i)  PROVE FALSE
  <2>1. /\ unanswered' = unanswered
        /\ at' = [at EXCEPT ![i] = IF ParsedFile(i) THEN "lookup" ELSE "refused"]
    BY <1>1 DEF Main
  <2>. QED
    BY <2>1, <1>o, <1>t
<1>2. ASSUME NEW i \in Runs, LookUp(i) \/ InsertHotel(i) \/ QueryRejects(i) \/ Kill(i)
      PROVE  FALSE
  <2>1. at[i] \in {"lookup", "insert"} /\ i # m
    BY <1>2, <1>o DEF LookUp, InsertHotel, QueryRejects, Kill
  <2>2. at'[m] = at[m]
    BY <1>2, <2>1, <1>t DEF LookUp, InsertHotel, QueryRejects, Kill, NextLine
  <2>3. unanswered'[m] = unanswered[m]
    BY <1>2, <2>1, <1>t DEF LookUp, InsertHotel, QueryRejects, Kill, Abandon
  <2>. QED
    BY <2>2, <2>3, <1>o
<1>3. ASSUME NEW i \in Runs, Settle(i)  PROVE FALSE
  <2>1. at' = at /\ unanswered'[m] \subseteq unanswered[m]
    BY <1>3, <1>t DEF Settle
  <2>. QED
    BY <2>1, <1>o
<1>4. CASE UNCHANGED importVars
  BY <1>4, <1>o DEF importVars
<1>. QED
  BY <1>1, <1>2, <1>3, <1>4 DEF ImportNext

\* The table and its history move together, by an INSERT that may still come.
LEMMA OnlyInsertsStore ==
  ASSUME [ImportNext]_importVars
  PROVE  \/ UNCHANGED <<hotels, by>>
         \/ \E i \in Runs : \E k \in Outstanding(i) : Store(i, k)
<1>1. ASSUME NEW i \in Runs, InsertHotel(i)  PROVE line[i] \in Outstanding(i) /\ Store(i, line[i])
  BY <1>1 DEF InsertHotel, Outstanding
<1>2. ASSUME NEW i \in Runs, Settle(i)
      PROVE  UNCHANGED <<hotels, by>> \/ \E k \in Outstanding(i) : Store(i, k)
  BY <1>2 DEF Settle, Outstanding
<1>. QED
  BY <1>1, <1>2 DEF ImportNext, Main, LookUp, QueryRejects, Kill, importVars

\* Each INSERT stores a line of its run's file, and the run is a writing one.
LEMMA SourceStep ==
  ASSUME ImportInv, SourceInv, [ImportNext]_importVars
  PROVE  SourceInv'
<1>1. GoodFileInv'
  BY GoodFileStep DEF ImportInv, SourceInv
<1>2. CASE UNCHANGED <<hotels, by>>
  <2>1. StoredFromGoodFiles'
    BY <1>2 DEF SourceInv, StoredFromGoodFiles, ParsedFile, HotelOf
  <2>. QED
    BY <1>1, <2>1 DEF SourceInv
<1>3. ASSUME NEW i \in Runs, NEW k \in Outstanding(i), Store(i, k)
      PROVE  StoredFromGoodFiles'
  <2>1. k \in LinesOf(i) /\ i \notin DryRuns /\ ParsedFile(i)
    <3>1. k \in LinesOf(i)
      BY OutstandingLines DEF ImportInv
    <3>2. at[i] = "insert" \/ unanswered[i] # {}
      BY DEF Outstanding
    <3>. QED
      BY <3>1, <3>2 DEF ImportInv, TallyInv, SourceInv, GoodFileInv
  <2>2. PICK g \in HotelIds \ StoredHotels :
           /\ hotels' = [hotels EXCEPT ![g] = HotelOf(i, k)]
           /\ by' = [by EXCEPT ![i] = @ \cup {g}]
    BY <1>3 DEF Store
  <2>t. hotels \in [HotelIds -> Hotel \cup {NoHotel}] /\ by \in [Runs -> SUBSET HotelIds]
    BY DEF ImportInv, ImportTypeOK
  <2>3. hotels[g] = NoHotel /\ \A j \in Runs : g \notin by[j]
    BY DEF ImportInv, TallyInv, StoredHotels
  <2>4. \A h \in HotelIds : h # g => hotels'[h] = hotels[h] /\ \A j \in Runs : h \in by'[j] <=> h \in by[j]
    BY <2>2, <2>t
  <2>5. hotels'[g] = HotelOf(i, k) /\ \A j \in Runs : g \in by'[j] <=> j = i
    BY <2>2, <2>3, <2>t
  <2>6. Seeded[g] = NoHotel
    BY <2>3 DEF SourceInv, StoredFromGoodFiles
  <2>7. ASSUME NEW h \in HotelIds
        PROVE  IF Seeded[h] # NoHotel THEN hotels'[h] = Seeded[h]
               ELSE hotels'[h] # NoHotel =>
                       \E f \in Runs \ DryRuns :
                          /\ ParsedFile(f)
                          /\ \E l \in 1 .. Len(File[f]) : hotels'[h] = HotelOf(f, l)
                          /\ \A j \in Runs : h \in by'[j] <=> j = f
    <3>1. CASE h = g
      <4>1. k \in 1 .. Len(File[i])
        BY <2>1 DEF LinesOf
      <4>. QED
        BY <2>1, <2>5, <2>6, <3>1, <4>1
    <3>2. CASE h # g
      BY <2>4, <3>2 DEF SourceInv, StoredFromGoodFiles
    <3>. QED
      BY <3>1, <3>2
  <2>. QED
    BY <2>7 DEF StoredFromGoodFiles, ParsedFile, HotelOf
<1>. QED
  BY <1>1, <1>2, <1>3, OnlyInsertsStore DEF SourceInv

\* One bad line keeps a whole file out, and what is stored is as one line of one good
\* file has it, for any files, any number of runs at once and INSERTs however late.
THEOREM StoredFromGoodFilesHolds == ImportSpec => []StoredFromGoodFiles
<1>1. ImportInit => SourceInv
  BY SeededAssumption DEF ImportInit, SourceInv, GoodFileInv, StoredFromGoodFiles
<1>2. ImportInv /\ SourceInv /\ [ImportNext]_importVars => SourceInv'
  BY SourceStep
<1>3. SourceInv => StoredFromGoodFiles
  BY DEF SourceInv
<1>. QED
  BY <1>1, <1>2, <1>3, ImportInvariant, PTL DEF ImportSpec

-----------------------------------------------------------------------------
(***************************************************************************)
(* The summary adds up: each line a run has passed is in one of its three  *)
(* counters.                                                               *)
(***************************************************************************)

Passed(i) == created[i] + skipped[i] + errors[i]

PassedInv ==
    \A i \in Runs :
       /\ line[i] = Passed(i) + 1
       /\ at[i] \in {"unstarted", "refused"} => line[i] = 1
       /\ at[i] = "killed" => line[i] \in LinesOf(i)
       /\ at[i] = "finished" => line[i] = Len(File[i]) + 1

\* A finished run has counted every line of its file, once each, and no run stores more
\* hotels than its file has lines, whatever the server does with its INSERTs.
SummaryComplete ==
    \A i \in Runs : /\ at[i] = "finished" => created[i] + skipped[i] + errors[i] = Len(File[i])
                    /\ Cardinality(by[i]) <= Len(File[i])

\* A step of the loop counts its line in one place and goes on, or stays at it.
LEMMA PassedStep ==
  ASSUME ImportTypeOK, PlaceInv, PassedInv, [ImportNext]_importVars
  PROVE  PassedInv'
<1>t. /\ at \in [Runs -> Places] /\ line \in [Runs -> Nat]
      /\ created \in [Runs -> Nat] /\ skipped \in [Runs -> Nat] /\ errors \in [Runs -> Nat]
  BY DEF ImportTypeOK
<1>. SUFFICES ASSUME NEW m \in Runs
     PROVE  /\ line'[m] = Passed(m)' + 1
            /\ at'[m] \in {"unstarted", "refused"} => line'[m] = 1
            /\ at'[m] = "killed" => line'[m] \in LinesOf(m)
            /\ at'[m] = "finished" => line'[m] = Len(File[m]) + 1
  BY DEF PassedInv, LinesOf
<1>o. /\ line[m] = Passed(m) + 1
      /\ at[m] \in {"unstarted", "refused"} => line[m] = 1
      /\ at[m] = "killed" => line[m] \in LinesOf(m)
      /\ at[m] = "finished" => line[m] = Len(File[m]) + 1
  BY DEF PassedInv
<1>p. /\ Passed(m) = created[m] + skipped[m] + errors[m]
      /\ Passed(m)' = created'[m] + skipped'[m] + errors'[m]
      /\ created[m] \in Nat /\ skipped[m] \in Nat /\ errors[m] \in Nat /\ line[m] \in Nat
  BY <1>t DEF Passed
<1>. DEFINE Same == /\ at'[m] = at[m] /\ line'[m] = line[m] /\ created'[m] = created[m]
                    /\ skipped'[m] = skipped[m] /\ errors'[m] = errors[m]
            Goal == /\ line'[m] = Passed(m)' + 1
                    /\ at'[m] \in {"unstarted", "refused"} => line'[m] = 1
                    /\ at'[m] = "killed" => line'[m] \in LinesOf(m)
                    /\ at'[m] = "finished" => line'[m] = Len(File[m]) + 1
<1>s. Same => Goal
  BY <1>o, <1>p
<1>n. ASSUME NextLine(m), Passed(m)' = Passed(m) + 1  PROVE Goal
  <2>1. /\ line'[m] = line[m] + 1
        /\ at'[m] = IF line[m] = Len(File[m]) THEN "finished" ELSE "lookup"
    BY <1>n, <1>t DEF NextLine
  <2>. QED
    BY <2>1, <1>n, <1>o, <1>p
<1>1. ASSUME NEW i \in Runs, i # m,
             Main(i) \/ LookUp(i) \/ InsertHotel(i) \/ QueryRejects(i) \/ Kill(i) \/ Settle(i)
      PROVE  Same
  BY <1>1, <1>t DEF Main, LookUp, InsertHotel, QueryRejects, Kill, Settle, NextLine, Increment,
                    counters
<1>2. ASSUME Main(m)  PROVE Goal
  <2>1. /\ at[m] = "unstarted" /\ at'[m] \in {"lookup", "refused"}
        /\ line' = line /\ created' = created /\ skipped' = skipped /\ errors' = errors
    BY <1>2, <1>t DEF Main, counters
  <2>. QED
    BY <2>1, <1>o, <1>p
<1>3. ASSUME LookUp(m)  PROVE Goal
  <2>1. CASE Named(Current(m).name) # {}
    <3>1. /\ NextLine(m) /\ created' = created /\ errors' = errors
          /\ skipped'[m] = skipped[m] + 1
      BY <1>3, <2>1, <1>t DEF LookUp, Increment
    <3>. QED
      BY <3>1, <1>n, <1>p
  <2>2. CASE Named(Current(m).name) = {} /\ m \in DryRuns
    <3>1. /\ NextLine(m) /\ skipped' = skipped /\ errors' = errors
          /\ created'[m] = created[m] + 1
      BY <1>3, <2>2, <1>t DEF LookUp, Increment
    <3>. QED
      BY <3>1, <1>n, <1>p
  <2>3. CASE Named(Current(m).name) = {} /\ m \notin DryRuns
    <3>1. /\ at'[m] = "insert" /\ line' = line /\ created' = created /\ skipped' = skipped
          /\ errors' = errors
      BY <1>3, <2>3, <1>t DEF LookUp
    <3>. QED
      BY <3>1, <1>o, <1>p
  <2>. QED
    BY <2>1, <2>2, <2>3
<1>4. ASSUME InsertHotel(m)  PROVE Goal
  <2>1. /\ NextLine(m) /\ skipped' = skipped /\ errors' = errors
        /\ created'[m] = created[m] + 1
    BY <1>4, <1>t DEF InsertHotel, Increment
  <2>. QED
    BY <2>1, <1>n, <1>p
<1>5. ASSUME QueryRejects(m)  PROVE Goal
  <2>1. /\ NextLine(m) /\ created' = created /\ skipped' = skipped
        /\ errors'[m] = errors[m] + 1
    BY <1>5, <1>t DEF QueryRejects, Increment
  <2>. QED
    BY <2>1, <1>n, <1>p
<1>6. ASSUME Kill(m)  PROVE Goal
  <2>1. /\ at[m] \in {"lookup", "insert"} /\ at'[m] = "killed"
        /\ line' = line /\ created' = created /\ skipped' = skipped /\ errors' = errors
    BY <1>6, <1>t DEF Kill, counters
  <2>2. line[m] \in LinesOf(m)
    BY <2>1 DEF PlaceInv
  <2>. QED
    BY <2>1, <2>2, <1>o, <1>p
<1>7. ASSUME Settle(m) \/ UNCHANGED importVars  PROVE Same
  BY <1>7 DEF Settle, importVars, counters
<1>. QED
  <2>. HIDE DEF Same, Goal
  <2>1. Goal
    BY <1>1, <1>2, <1>3, <1>4, <1>5, <1>6, <1>7, <1>s DEF ImportNext
  <2>. QED
    BY <2>1 DEF Goal

\* The three counters of a finished run add up to its file.
THEOREM SummaryIsComplete == ImportSpec => []SummaryComplete
<1>1. ImportInit => PassedInv
  BY DEF ImportInit, PassedInv, Passed
<1>2. ImportInv /\ PassedInv /\ [ImportNext]_importVars => PassedInv'
  BY PassedStep DEF ImportInv
<1>3. ImportInv /\ PassedInv => SummaryComplete
  <2>. SUFFICES ASSUME ImportInv, PassedInv, NEW i \in Runs
       PROVE  /\ at[i] = "finished" => Passed(i) = Len(File[i])
              /\ Cardinality(by[i]) <= Len(File[i])
    BY DEF SummaryComplete, Passed
  <2>t. /\ created[i] \in Nat /\ skipped[i] \in Nat /\ errors[i] \in Nat /\ at[i] \in Places
        /\ Cardinality(by[i]) \in Nat /\ Len(File[i]) \in Nat
    BY Finite, FileAssumption DEF ImportInv, ImportTypeOK
  <2>p. /\ Passed(i) = created[i] + skipped[i] + errors[i]
        /\ line[i] = Passed(i) + 1
        /\ at[i] \in {"unstarted", "refused"} => line[i] = 1
        /\ at[i] = "killed" => line[i] \in LinesOf(i)
        /\ at[i] = "finished" => line[i] = Len(File[i]) + 1
    BY DEF PassedInv, Passed
  <2>1. Cardinality(by[i]) <= created[i] + errors[i] + (IF at[i] = "killed" THEN 1 ELSE 0)
    <3>1. SummaryFits
      BY ImportGoals
    <3>2. i \in DryRuns => Cardinality(by[i]) = 0
      BY FS_EmptySet DEF ImportInv, TallyInv
    <3>. QED
      BY <2>t, <3>1, <3>2 DEF SummaryFits
  <2>2. at[i] \in {"lookup", "insert"} => line[i] \in LinesOf(i)
    BY DEF ImportInv, PlaceInv
  <2>3. CASE at[i] = "killed"
    <3>1. Cardinality(by[i]) <= line[i] /\ line[i] <= Len(File[i])
      BY <2>t, <2>p, <2>1, <2>3 DEF LinesOf
    <3>. QED
      BY <2>t, <2>p, <2>3, <3>1
  <2>4. CASE at[i] # "killed"
    <3>1. Cardinality(by[i]) + 1 <= line[i]
      BY <2>t, <2>p, <2>1, <2>4
    <3>2. line[i] <= Len(File[i]) + 1
      BY <2>t, <2>p, <2>2, <2>4 DEF Places, LinesOf
    <3>. QED
      BY <2>t, <2>p, <3>1, <3>2
  <2>. QED
    BY <2>3, <2>4
<1>. QED
  BY <1>1, <1>2, <1>3, ImportInvariant, PTL DEF ImportSpec

-----------------------------------------------------------------------------
(***************************************************************************)
(* What "safe to re-run" takes: one run at work at a time, and no INSERT   *)
(* that its run has given up and the server has not settled.               *)
(***************************************************************************)

Working(i) == at[i] \in {"lookup", "insert"}

OneByOne ==
    \A i \in Runs : /\ unanswered[i] = {}
                    /\ \A j \in Runs : Working(i) /\ Working(j) => i = j

\* Every name is in the table once.
NamesOnce == \A g, h \in StoredHotels : hotels[g].name = hotels[h].name => g = h

NoRace == raced = {}

\* Runs one after the other, with any files, names repeated within them or not, and
\* with any errors and kills that leave no INSERT to itself, store no name twice.
THEOREM RerunsAreSafe == ImportSpec /\ []OneByOne => []NamesOnce
<1>1. ImportInit => NoRace
  BY DEF ImportInit, NoRace
<1>2. OneByOne /\ NoRace /\ [ImportNext]_importVars => NoRace'
  <2>. SUFFICES ASSUME OneByOne, raced = {}, [ImportNext]_importVars  PROVE raced' = {}
    BY DEF NoRace
  <2>1. ASSUME NEW i \in Runs, LookUp(i)  PROVE raced' = raced
    <3>1. \A j \in Runs : Outstanding(j) = {}
      BY <2>1 DEF OneByOne, Working, Outstanding, LookUp
    <3>. QED
      BY <2>1, <3>1 DEF LookUp
  <2>. QED
    BY <2>1 DEF ImportNext, Main, InsertHotel, QueryRejects, Kill, Settle, importVars
<1>3. NameTwiceOnlyByRace /\ NoRace => NamesOnce
  BY DEF NoRace, NameTwiceOnlyByRace, NamesOnce
<1>. QED
  BY <1>1, <1>2, <1>3, NameTwiceOnlyByRaceHolds, PTL DEF ImportSpec
=============================================================================
