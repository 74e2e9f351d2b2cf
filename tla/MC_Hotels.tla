------------------------------ MODULE MC_Hotels ------------------------------
(***************************************************************************)
(* Two seeded hotels, two imports at once that share a name, a dry run and *)
(* a file that is refused; and the bounded inputs of the pure parts.       *)
(***************************************************************************)
EXTENDS Hotels, HotelInputs, TLC

CONSTANTS one, two, dry, bad

Degrees(n) == [kind |-> "number", value |-> n]

Place(name, location, latitude, longitude) ==
    [name |-> name, location |-> location, latitude |-> latitude, longitude |-> longitude]

Row(name, location, latitude, longitude) ==
    [name |-> name, location |-> location, rest |-> TRUE,
     latitude |-> latitude, longitude |-> longitude]

MCHotelIds == 1 .. 4

MCSeeded == [h \in MCHotelIds |->
               CASE h = 2 -> Place(2, 9, 41, 2)
                 [] h = 3 -> Place(3, 8, 45, 2)
                 [] OTHER -> NoHotel]

\* Both writing runs bring the hotel of name 1, which comes before the seeded ones;
\* the second has it without a longitude, which puts it on the meridian.
MCFile == one :> << Row(1, 8, Degrees(41), Degrees(2)) >>
       @@ two :> << Row(1, 8, Degrees(41), [kind |-> "empty"]) >>
       @@ dry :> << Row(4, 9, Degrees(41), Degrees(2)), Row(1, 9, Degrees(41), Degrees(2)) >>
       @@ bad :> << Row(5, 9, Degrees(41), Degrees(2)), Row(6, 9, [kind |-> "other"], Degrees(2)) >>

\* No search text, which all nine texts match; a text that some contain.
MCSearches == { {1, 2, 8} }

MCPoints == { "here" }

Gap(a, b) == IF a <= b THEN b - a ELSE a - b

\* Kilometres, as if a degree of either were a hundred.
MCNearness(point, hotel) == 100 * (Gap(hotel.latitude, 41) + Gap(hotel.longitude, 2))

MCInReach(point, hotel) == MCNearness(point, hotel) <= 300

MCMapViews == { [swLat |-> 40, swLng |-> 1, neLat |-> 42, neLng |-> 3],
                [swLat |-> 40, swLng |-> 1, neLat |-> 140, neLng |-> 3] }

-----------------------------------------------------------------------------
\* The inputs of the pure parts: records of up to two fields of up to three
\* characters; uuids that differ in their first and last digit, one of whose hashes is
\* the least 32-bit number; and a place with the bounds of a map, refused ones among
\* them.
Fields == UNION {[1 .. n -> Chars] : n \in 0 .. 3}

MCRecords == UNION {[1 .. n -> Fields] : n \in 1 .. 2}

LeastHash ==
    <<54,102,49,99,50,98,57,101,45,52,100,55,97,45,52,99,51,101,45,57,98,53,56,45,
      48,48,48,50,52,57,99,56,54,100,102,99>>

\* The codes of 0 to 9 and a to f.
HexDigits == (48 .. 57) \cup (97 .. 102)

MCIds == {[LeastHash EXCEPT ![1] = first, ![36] = last] : first \in HexDigits, last \in HexDigits}

MCViews == [bounds : Bounds({-90, 45, 140}, {-181, -180, -90, 90, 180}),
            latitude : {-90, 0, 45, 90}, longitude : {-179, -90, 0, 90, 179}]

MCInit == Init /\ InputInit

MCNext == input = NoInput /\ Next /\ UNCHANGED input

MCSpec == MCInit /\ [][MCNext]_<<vars, input>>
=============================================================================
