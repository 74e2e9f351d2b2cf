------------------------------- MODULE HotelMap -------------------------------
(***************************************************************************)
(* The part of GET /hotels/within-bounds that decides which hotels are in  *)
(* view, against what a map shows.  Degrees are integers: only their order *)
(* matters.                                                                *)
(***************************************************************************)
EXTENDS Integers

Lesser(a, b) == IF a <= b THEN a ELSE b
Greater(a, b) == IF a <= b THEN b ELSE a

Bounds(lats, lngs) == [swLat : lats, swLng : lngs, neLat : lats, neLng : lngs]

\* HotelsWithinBoundsQueryDto; any other query is a 400.
ValidBounds(b) ==
    /\ {b.swLat, b.neLat} \subseteq -90 .. 90
    /\ {b.swLng, b.neLng} \subseteq -180 .. 180

LatLo(b) == Greater(-90, Lesser(b.swLat, b.neLat))
LatHi(b) == Lesser(90, Greater(b.swLat, b.neLat))

\* Mutant: one range of longitudes, whatever the order of the corners.
OneRange(b, longitude) == b.swLng <= longitude /\ longitude <= b.neLng

\* lonClause, with the antimeridian between the corners when they come in the
\* wrong order.
LonClause(b, longitude) ==
    IF b.swLng > b.neLng
      THEN longitude >= b.swLng \/ longitude <= b.neLng
      ELSE b.swLng <= longitude /\ longitude <= b.neLng

InBounds(b, latitude, longitude) ==
    /\ LatLo(b) <= latitude /\ latitude <= LatHi(b)
    /\ LonClause(b, longitude)

-----------------------------------------------------------------------------
\* What a map shows: going east from its western edge, the place comes no later
\* than the eastern edge.  A map from -180 to 180 is the whole way round.
EastOf(from, to) == IF from <= to THEN to - from ELSE to - from + 360

Shows(b, latitude, longitude) ==
    /\ \/ b.swLat <= latitude /\ latitude <= b.neLat
       \/ b.neLat <= latitude /\ latitude <= b.swLat
    /\ EastOf(b.swLng, longitude) <= EastOf(b.swLng, b.neLng)

\* A query that is let through finds just the places its map shows, on either side
\* of the antimeridian, and with the corners' latitudes in either order; the
\* antimeridian itself, which has two names, is left out.
FindsWhatItShows(b, latitude, longitude) ==
    ValidBounds(b) /\ latitude \in -90 .. 90 /\ longitude \in -179 .. 179 =>
       (InBounds(b, latitude, longitude) <=> Shows(b, latitude, longitude))
=============================================================================
