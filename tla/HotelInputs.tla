------------------------------ MODULE HotelInputs ------------------------------
(***************************************************************************)
(* The code about hotels that only computes: the bounds of a map view, the *)
(* photo list of an id, the fields of a CSV line.  Each input is a state   *)
(* of its own, and nothing happens to it.                                  *)
(***************************************************************************)
EXTENDS HotelMap, HotelImages, CsvLine

CONSTANTS
    Records,    \* the fields of CSV records
    Ids,        \* the ids of hotels, as sequences of character codes
    Views       \* the bounds of map views, each with a place

\* A record has at least one field: the line of none is that of one empty field.
ASSUME RecordsAssumption == Records \subseteq Seq(Seq(Chars)) \ {<<>>}
ASSUME IdCodesAssumption == Ids \subseteq Seq(Nat)

VARIABLE input

NoInput == [kind |-> "none"]

Inputs == [kind : {"record"}, record : Records]
            \cup [kind : {"id"}, text : Ids]
            \cup [kind : {"view"}, view : Views]

InputInit == input \in Inputs \cup {NoInput}

InputSpec == InputInit /\ [][UNCHANGED input]_input

-----------------------------------------------------------------------------
(***************************************************************************)
(* Properties                                                              *)
(***************************************************************************)

\* splitCsvLine undoes quoting, whatever is in the fields and however they are written.
SplitUndoesQuoting == input.kind = "record" => SplitUndone(input.record)

\* hotelImages makes a sound gallery of every id, also where the hash wraps.
GalleriesSound == input.kind = "id" => GallerySound(HotelImages(input.text))

\* findWithinBounds looks for just the places the map shows.
MapFindsWhatItShows ==
    input.kind = "view" =>
       FindsWhatItShows(input.view.bounds, input.view.latitude, input.view.longitude)
=============================================================================
