-------------------------------- MODULE Hotels --------------------------------
(***************************************************************************)
(* HotelsService: searching the hotels table while imports fill it.        *)
(*                                                                         *)
(* A page is answered from two statements that Promise.all runs on two     *)
(* connections, the rows and the count, and every page is a request of its *)
(* own.  One client here walks one search to its end, as pageCount tells   *)
(* it to; reading changes nothing, so this client stands for each of many. *)
(* A map view is a search of one page and no count.                        *)
(***************************************************************************)
EXTENDS HotelImport, HotelMap, Functions

CONSTANTS
    Searches,       \* searches by text: the texts that contain what is looked for
    Points,         \* where guests look for the nearest hotels
    MapViews,       \* the bounds of the maps they look at
    PageSizes,      \* the page sizes they ask for
    MaxPins,        \* LIMIT of a map view, 500 in the code
    InReach(_, _),  \* ST_DWithin 300 km of a point and a hotel
    Nearness(_, _)  \* the distance operator <-> of a point and a hotel

NoQuery == [kind |-> "none"]

Queries == [kind : {"findAll"}, search : Searches]
             \cup [kind : {"findNearest"}, point : Points]
             \cup [kind : {"findWithinBounds"}, bounds : {b \in MapViews : ValidBounds(b)}]

\* The hotels that the table may come to hold.
PossibleHotels ==
    ({Seeded[h] : h \in HotelIds} \ {NoHotel})
      \cup UNION {{ParsedHotel(File[i][k]) : k \in DOMAIN File[i]} : i \in Runs}

ASSUME SearchesAssumption == \A search \in Searches : search \subseteq Nat
ASSUME SizesAssumption == PageSizes \subseteq 1 .. 80 /\ MaxPins \in Nat \ {0}
ASSUME NearnessAssumption ==
    \A point \in Points : \A hotel \in PossibleHotels :
       Nearness(point, hotel) \in Int /\ InReach(point, hotel) \in BOOLEAN

VARIABLES
    phase,      \* of the walk
    query, size,
    page,       \* the page that is asked for
    awaiting,   \* the statements of the request that have not answered
    rows, total,    \* what they have answered
    got,        \* the hotels of the pages before
    again,      \* history: has a page shown a hotel that an earlier one had?
    start,      \* history: what the search would have found when the walk began
    grown,      \* history: has the search come to find more since?
    older       \* history: the statement that answered before the search found more
                \* and the other after it, if the request has such

walkVars == <<phase, query, size, page, awaiting, rows, total, got, again, start>>
vars == <<importVars, walkVars, grown, older>>

-----------------------------------------------------------------------------
\* The WHERE clauses.
Matches(q, hotel) ==
    CASE q.kind = "findAll" -> hotel.name \in q.search \/ hotel.location \in q.search
      [] q.kind = "findNearest" -> InReach(q.point, hotel)
      [] q.kind = "findWithinBounds" -> InBounds(q.bounds, hotel.latitude, hotel.longitude)
      [] OTHER -> FALSE

Selected(q) == {h \in StoredHotels : Matches(q, hotels[h])}

\* Mutant: hotels of one distance in no order.
ByDistanceAlone(q, g, h) ==
    CASE q.kind = "findNearest" -> Nearness(q.point, hotels[g]) < Nearness(q.point, hotels[h])
      [] OTHER -> hotels[g].name < hotels[h].name

\* The ORDER BY clauses: must g come before h?
Before(q, g, h) ==
    CASE q.kind = "findNearest" ->
            \/ Nearness(q.point, hotels[g]) < Nearness(q.point, hotels[h])
            \/ Nearness(q.point, hotels[g]) = Nearness(q.point, hotels[h]) /\ g < h
      [] OTHER -> hotels[g].name < hotels[h].name

\* The orders that the database may put the rows in: where no hotel has to come before
\* the other, it is left to chance.
Orders(q) ==
    {order \in Bijection(1 .. Cardinality(Selected(q)), Selected(q)) :
       \A i, j \in DOMAIN order : i < j => ~ Before(q, order[j], order[i])}

\* Mutant: a LIMIT one too high.
OneMore(q, offset, limit) ==
    {P \in SUBSET Selected(q) : Cardinality(P) \in {limit, limit + 1}}

\* LIMIT and OFFSET: the sets of rows that such an order has after the offset.
Slices(q, offset, limit) ==
    {{order[k] : k \in (offset + 1 .. offset + limit) \cap DOMAIN order} : order \in Orders(q)}

\* Mutant: pages counted from zero.
FromZero(p, s) == p * s

Offset(p, s) == (p - 1) * s

\* Mutant: one page more than full ones.
FullPagesAndOne(n, s) == n \div s + 1

\* Math.ceil(total / pageSize)
PageCount(n, s) == (n + s - 1) \div s

Statements(q) == IF q.kind = "findWithinBounds" THEN {"page"} ELSE {"page", "count"}

-----------------------------------------------------------------------------
\* The client asks for the first page of a search.
Open(q, s) ==
    /\ phase = "idle"
    /\ IF q.kind = "findWithinBounds" THEN s = MaxPins ELSE s \in PageSizes
    /\ phase' = "asking"
    /\ query' = q /\ size' = s /\ page' = 1
    /\ awaiting' = Statements(q)
    /\ start' = Selected(q)
    /\ UNCHANGED <<importVars, rows, total, got, again, grown, older>>

PageQuery ==
    /\ "page" \in awaiting
    /\ awaiting' = awaiting \ {"page"}
    /\ rows' \in Slices(query, Offset(page, size), size)
    /\ UNCHANGED <<importVars, phase, query, size, page, total, got, again, start, grown, older>>

\* Mutant: the count forgets what the search is for.
CountsAll ==
    /\ "count" \in awaiting
    /\ awaiting' = awaiting \ {"count"}
    /\ total' = Cardinality(StoredHotels)
    /\ UNCHANGED <<importVars, phase, query, size, page, rows, got, again, start, grown, older>>

CountQuery ==
    /\ "count" \in awaiting
    /\ awaiting' = awaiting \ {"count"}
    /\ total' = Cardinality(Selected(query))
    /\ UNCHANGED <<importVars, phase, query, size, page, rows, got, again, start, grown, older>>

\* One statement rejects and with it Promise.all: a 500, what the other answers is
\* dropped, and the client asks for the page again.
QueryFails ==
    /\ awaiting # {}
    /\ awaiting' = Statements(query)
    /\ rows' = {} /\ total' = 0 /\ older' = {}
    /\ UNCHANGED <<importVars, phase, query, size, page, got, again, start, grown>>

\* toPaginated, and the client that asks for the next page while there is one.
Answer ==
    /\ phase = "asking" /\ awaiting = {}
    /\ got' = got \cup rows
    /\ again' = (again \/ got \cap rows # {})
    /\ IF "count" \in Statements(query) /\ page < PageCount(total, size)
         THEN /\ page' = page + 1
              /\ awaiting' = Statements(query)
              /\ rows' = {} /\ total' = 0 /\ older' = {}
              /\ UNCHANGED phase
         ELSE phase' = "done" /\ UNCHANGED <<page, awaiting, rows, total, older>>
    /\ UNCHANGED <<importVars, query, size, start, grown>>

\* An import goes on; `grown` and `older` keep a record of what that means for the walk.
Import ==
    /\ ImportNext
    /\ UNCHANGED walkVars
    /\ IF phase = "asking" /\ Selected(query)' # Selected(query)
         THEN /\ grown' = TRUE
              /\ older' = IF awaiting = {} \/ awaiting = Statements(query) THEN older
                          ELSE Statements(query) \ awaiting
         ELSE UNCHANGED <<grown, older>>

-----------------------------------------------------------------------------
Init ==
    /\ ImportInit
    /\ phase = "idle"
    /\ query = NoQuery /\ size = 1 /\ page = 1 /\ awaiting = {}
    /\ rows = {} /\ total = 0 /\ got = {} /\ again = FALSE
    /\ start = {} /\ grown = FALSE /\ older = {}

Next ==
    \/ \E q \in Queries : \E s \in PageSizes \cup {MaxPins} : Open(q, s)
    \/ PageQuery \/ CountQuery \/ QueryFails \/ Answer
    \/ Import

Spec == Init /\ [][Next]_vars

-----------------------------------------------------------------------------
(***************************************************************************)
(* Properties                                                              *)
(***************************************************************************)

\* The types, with the size of a page.
TypeOK ==
    /\ ImportTypeOK
    /\ phase \in {"idle", "asking", "done"}
    /\ query \in Queries \cup {NoQuery}
    /\ size \in Nat \ {0} /\ page \in Nat \ {0}
    /\ awaiting \in SUBSET {"page", "count"}
    /\ rows \subseteq HotelIds /\ Cardinality(rows) <= size
    /\ total \in Nat
    /\ got \subseteq HotelIds /\ start \subseteq HotelIds
    /\ again \in BOOLEAN /\ grown \in BOOLEAN
    /\ older \in SUBSET {"page", "count"}

\* Is h the only one of its name where hotels are in the order of their names?
KeyIsOwn(h) ==
    query.kind = "findNearest"
      \/ \A g \in Selected(query) : hotels[g].name = hotels[h].name => g = h

\* A client that has walked to the end has seen every hotel that was there when it
\* began: hotels that come in between move others to later pages, never back.
\* Excepted are a hotel that shares its name in a search by text, and a walk whose
\* last count was older than its last page: it stops although that page was full.
\* A map view shows all it has room for.
NothingSkipped ==
    phase = "done" =>
       IF query.kind = "findWithinBounds"
         THEN Cardinality(got) < MaxPins => start \subseteq got
         ELSE "count" \notin older => \A h \in start : KeyIsOwn(h) => h \in got

\* "So results are stable across pages": a walk sees a hotel twice only when the
\* search came to find more during it, or in a search by text if two hotels share a
\* name.
RepeatsHaveReason ==
    again => grown \/ \E h \in Selected(query) : ~ KeyIsOwn(h)

\* No page that pageCount promised is empty: only the first page can be.
NoEmptyPage ==
    phase # "idle" /\ "page" \notin awaiting /\ rows = {} => page = 1

Shortest(a, b) == IF a <= b THEN a ELSE b

\* The rows of an answer are those that its total says this page has; if hotels came
\* between the two statements there are more rows when the count is the older one,
\* and fewer when the page is.
PageMatchesCount ==
    LET due == IF total <= Offset(page, size) THEN 0
               ELSE Shortest(size, total - Offset(page, size))
    IN  phase # "idle" /\ awaiting = {} /\ "count" \in Statements(query) =>
          /\ "count" \notin older => Cardinality(rows) <= due
          /\ "page" \notin older => Cardinality(rows) >= due
=============================================================================
