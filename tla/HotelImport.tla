----------------------------- MODULE HotelImport -----------------------------
(***************************************************************************)
(* The hotels table and the tool that fills it from CSV files,             *)
(* tools/import-hotels-from-csv.ts.  Nothing else in the repository writes *)
(* that table once the migrations have run.                                *)
(*                                                                         *)
(* A run of the tool asks for each line whether its name is in the table   *)
(* and inserts it if not: two statements, no transaction, and no unique    *)
(* constraint on the name.  Runs may be killed, their connection may be    *)
(* lost, they may be repeated with the same file, and two may run at once. *)
(*                                                                         *)
(* A text is its rank in the collation, 0 being the empty one.             *)
(***************************************************************************)
EXTENDS Integers, Sequences, FiniteSets

CONSTANTS
    HotelIds,       \* the uuids the database may generate, in their order
    Seeded,         \* the hotels the migrations insert
    Runs,           \* runs of the tool
    File,           \* the data lines of each run's file
    DryRuns,        \* the runs with DRY_RUN set
    NoHotel

\* A cell of a numeric column: nothing where it should be, no characters, a
\* number, or some other text.
Cell == [kind : {"absent", "empty", "other"}] \cup [kind : {"number"}, value : Int]

\* `rest`: description, city and country all have a text.
Line == [name : Nat, location : Nat, rest : BOOLEAN, latitude : Cell, longitude : Cell]

Hotel == [name : Nat, location : Nat, latitude : Int, longitude : Int]

ASSUME IdsAssumption == HotelIds \subseteq Nat /\ IsFiniteSet(HotelIds)
ASSUME FileAssumption == File \in [Runs -> Seq(Line)] /\ DryRuns \subseteq Runs
ASSUME NoHotelAssumption == NoHotel \notin Hotel
ASSUME SeededAssumption ==
    /\ Seeded \in [HotelIds -> Hotel \cup {NoHotel}]
    /\ \A g, h \in HotelIds : Seeded[g] # NoHotel /\ Seeded[h] # NoHotel /\ g # h
                                => Seeded[g].name # Seeded[h].name

VARIABLES
    hotels,     \* the table: the row of each stored hotel, or NoHotel
    at,         \* where each run is
    line,       \* the line each run is at
    created, skipped, errors,   \* its three counters
    unanswered, \* the lines whose INSERT a run will have no answer to: the server is
                \* still to commit it or to give it up
    by,         \* history: the hotels each run has stored
    raced       \* history: names looked for while an INSERT of them was to come

counters == <<created, skipped, errors>>
importVars == <<hotels, at, line, counters, unanswered, by, raced>>

Places == {"unstarted", "lookup", "insert", "finished", "refused", "killed"}

-----------------------------------------------------------------------------
\* Number(cell.trim()): an empty cell is 0, and a missing one is not a number.
IsNumber(cell) == cell.kind \in {"number", "empty"}

NumberOf(cell) == IF cell.kind = "number" THEN cell.value ELSE 0

ValidLine(l) ==
    /\ l.name # 0 /\ l.location # 0 /\ l.rest
    /\ IsNumber(l.latitude) /\ IsNumber(l.longitude)

ParsedHotel(l) == [name |-> l.name, location |-> l.location,
                   latitude |-> NumberOf(l.latitude), longitude |-> NumberOf(l.longitude)]

ParsedFile(i) == File[i] # <<>> /\ \A k \in 1 .. Len(File[i]) : ValidLine(File[i][k])

StoredHotels == {h \in HotelIds : hotels[h] # NoHotel}

Named(n) == {h \in StoredHotels : hotels[h].name = n}

\* The k-th hotel of a run, and the one it is at.
HotelOf(i, k) == ParsedHotel(File[i][k])

Current(i) == HotelOf(i, line[i])

\* The lines a run is about to insert, or has sent and will not hear of.
Outstanding(i) == unanswered[i] \cup (IF at[i] = "insert" THEN {line[i]} ELSE {})

\* The body of the loop is done with a hotel; after the last one the pool ends and
\* the summary is printed.
NextLine(i) ==
    /\ line' = [line EXCEPT ![i] = @ + 1]
    /\ at' = [at EXCEPT ![i] = IF line[i] = Len(File[i]) THEN "finished" ELSE "lookup"]

Increment(counter, i) == counter' = [counter EXCEPT ![i] = @ + 1]

-----------------------------------------------------------------------------
\* Mutant: the first line is imported before the others are looked at.
ImportAsItReads(i) ==
    /\ at[i] = "unstarted"
    /\ at' = [at EXCEPT ![i] = IF File[i] # <<>> /\ ValidLine(File[i][1])
                                  THEN "lookup" ELSE "refused"]
    /\ UNCHANGED <<hotels, line, counters, unanswered, by, raced>>

\* main up to the loop: any bad line, or a file without data lines, exits before a
\* query is made.
Main(i) ==
    /\ at[i] = "unstarted"
    /\ at' = [at EXCEPT ![i] = IF ParsedFile(i) THEN "lookup" ELSE "refused"]
    /\ UNCHANGED <<hotels, line, counters, unanswered, by, raced>>

\* Mutant: a hotel that is there is counted and then inserted all the same.
SkipGoesOn(i) ==
    /\ at[i] = "lookup"
    /\ IF Named(Current(i).name) # {} THEN Increment(skipped, i) ELSE UNCHANGED skipped
    /\ at' = [at EXCEPT ![i] = "insert"]
    /\ UNCHANGED <<hotels, line, created, errors, unanswered, by, raced>>

\* SELECT id FROM hotels WHERE name = $1, and what follows it up to the next query:
\* the hotel is skipped, or only counted in a dry run, or about to be inserted.
LookUp(i) ==
    /\ at[i] = "lookup"
    /\ IF Named(Current(i).name) # {}
         THEN Increment(skipped, i) /\ NextLine(i) /\ UNCHANGED <<created, raced>>
       ELSE IF i \in DryRuns
         THEN Increment(created, i) /\ NextLine(i) /\ UNCHANGED <<skipped, raced>>
       ELSE /\ at' = [at EXCEPT ![i] = "insert"]
            /\ raced' = IF \E j \in Runs : \E k \in Outstanding(j) :
                                HotelOf(j, k).name = Current(i).name
                          THEN raced \cup {Current(i).name} ELSE raced
            /\ UNCHANGED <<line, created, skipped>>
    /\ UNCHANGED <<hotels, errors, unanswered, by>>

\* An INSERT commits, under an id nobody chose.
Store(i, k) ==
    \E h \in HotelIds \ StoredHotels :
       /\ hotels' = [hotels EXCEPT ![h] = HotelOf(i, k)]
       /\ by' = [by EXCEPT ![i] = @ \cup {h}]

InsertHotel(i) ==
    /\ at[i] = "insert"
    /\ Store(i, line[i])
    /\ Increment(created, i) /\ NextLine(i)
    /\ UNCHANGED <<skipped, errors, unanswered, raced>>

\* The query of a run rejects or dies with it: a SELECT is over, an INSERT has failed
\* or is left to the server.
Abandon(i) ==
    \/ UNCHANGED unanswered
    \/ at[i] = "insert" /\ unanswered' = [unanswered EXCEPT ![i] = @ \cup {line[i]}]

\* Mutant: an INSERT that has failed is tried again.
InsertAgain(i) ==
    /\ at[i] \in {"lookup", "insert"}
    /\ Abandon(i)
    /\ IF at[i] = "insert" THEN UNCHANGED <<at, line, errors>>
       ELSE Increment(errors, i) /\ NextLine(i)
    /\ UNCHANGED <<hotels, created, skipped, by, raced>>

\* Mutant: the catch does not count.
ErrorIsSkipped(i) ==
    /\ at[i] \in {"lookup", "insert"}
    /\ Abandon(i)
    /\ Increment(skipped, i) /\ NextLine(i)
    /\ UNCHANGED <<hotels, created, errors, by, raced>>

\* Either query rejects, and the catch goes on with the next hotel.
QueryRejects(i) ==
    /\ at[i] \in {"lookup", "insert"}
    /\ Abandon(i)
    /\ Increment(errors, i) /\ NextLine(i)
    /\ UNCHANGED <<hotels, created, skipped, by, raced>>

\* The tool dies, be it of Ctrl-C or of a lost idle connection.
Kill(i) ==
    /\ at[i] \in {"lookup", "insert"}
    /\ Abandon(i)
    /\ at' = [at EXCEPT ![i] = "killed"]
    /\ UNCHANGED <<hotels, line, counters, by, raced>>

\* The server commits an INSERT nobody waits for, or gives it up.
Settle(i) ==
    \E k \in unanswered[i] :
       /\ unanswered' = [unanswered EXCEPT ![i] = @ \ {k}]
       /\ Store(i, k) \/ UNCHANGED <<hotels, by>>
       /\ UNCHANGED <<at, line, counters, raced>>

-----------------------------------------------------------------------------
ImportInit ==
    /\ hotels = Seeded
    /\ at = [i \in Runs |-> "unstarted"]
    /\ line = [i \in Runs |-> 1]
    /\ created = [i \in Runs |-> 0]
    /\ skipped = [i \in Runs |-> 0]
    /\ errors = [i \in Runs |-> 0]
    /\ unanswered = [i \in Runs |-> {}]
    /\ by = [i \in Runs |-> {}]
    /\ raced = {}

ImportNext ==
    \E i \in Runs : \/ Main(i) \/ LookUp(i) \/ InsertHotel(i)
                    \/ QueryRejects(i) \/ Kill(i) \/ Settle(i)

ImportSpec == ImportInit /\ [][ImportNext]_importVars

-----------------------------------------------------------------------------
(***************************************************************************)
(* Properties                                                              *)
(***************************************************************************)

\* The shape of the table and of the runs.
ImportTypeOK ==
    /\ hotels \in [HotelIds -> Hotel \cup {NoHotel}]
    /\ at \in [Runs -> Places]
    /\ line \in [Runs -> Nat]
    /\ created \in [Runs -> Nat] /\ skipped \in [Runs -> Nat] /\ errors \in [Runs -> Nat]
    /\ unanswered \in [Runs -> SUBSET Nat]
    /\ by \in [Runs -> SUBSET HotelIds]
    /\ raced \subseteq Nat

\* "Skips rows whose name already exists in the table, so it's safe to re-run": a
\* hotel is in the table twice only if it was looked for while an INSERT of its name
\* was still to come, of another run or of a query given up.  However often a run is
\* killed, errs or is repeated, also when a file names a hotel twice, it is stored
\* once otherwise.
NameTwiceOnlyByRace ==
    \A g, h \in StoredHotels : hotels[g].name = hotels[h].name /\ g # h
                                 => hotels[g].name \in raced

\* A writing run that ends without errors has left nothing out: every name of its
\* file is in the table, whoever stored it.
NothingLeftOut ==
    \A i \in Runs : at[i] = "finished" /\ errors[i] = 0 /\ i \notin DryRuns =>
       \A k \in 1 .. Len(File[i]) : Named(File[i][k].name) # {}

\* A file with a bad line is refused as a whole, and nothing is overwritten: the
\* migrations' hotels stay as they are, and whatever else is in the table is as some
\* line has it of a file that has no bad line, and was stored by the run of that file,
\* which is no dry run, and by no other; late INSERTs of runs that are over included.
\* (A good file need not be in the table to its end: queries fail, and runs are killed.)
StoredFromGoodFiles ==
    \A h \in HotelIds :
       IF Seeded[h] # NoHotel THEN hotels[h] = Seeded[h]
       ELSE hotels[h] # NoHotel =>
               \E i \in Runs \ DryRuns :
                  /\ ParsedFile(i)
                  /\ \E k \in 1 .. Len(File[i]) : hotels[h] = HotelOf(i, k)
                  /\ \A j \in Runs : h \in by[j] <=> j = i

\* The summary against the table: at any time a run has stored at least what it
\* counts as created and at most that, its errors and the one INSERT under way when it
\* was killed; a dry run, whatever it counts, has stored nothing.
SummaryFits ==
    \A i \in Runs :
       IF i \in DryRuns THEN by[i] = {}
       ELSE /\ created[i] <= Cardinality(by[i])
            /\ Cardinality(by[i]) <= created[i] + errors[i] + (IF at[i] = "killed" THEN 1 ELSE 0)
=============================================================================
