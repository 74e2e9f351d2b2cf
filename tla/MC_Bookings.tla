---------------------------- MODULE MC_Bookings ----------------------------
(***************************************************************************)
(* Bookings on one hotel, its host and one guest.                          *)
(***************************************************************************)
EXTENDS Bookings, TLC

CONSTANTS hotel, host, guest, stranger

MCOwner == hotel :> host

Date(d) == [day |-> d, form |-> "date"]

Dto(user, checkIn, checkOut, synthetic) ==
    [user |-> user, hotel |-> hotel, checkIn |-> checkIn, checkOut |-> checkOut,
     synthetic |-> synthetic]

\* A guest's stay of two nights, and the host in the hotel's own room for one.
SafetyDtos ==
    { Dto(guest, [day |-> 0, form |-> "datetime"], Date(2), FALSE),
      Dto(host, Date(1), Date(2), TRUE) }

SafetyAsks == { <<host, "confirmed">>, <<host, "no_show">>, <<guest, "cancelled">> }

\* For the liveness and refinement run: one booking of one night, and asks that
\* meet every refusal.
LiveDtos == { Dto(u, Date(0), Date(1), FALSE) : u \in {guest, host} }

LiveAsks == { <<host, "confirmed">>, <<host, "no_show">>, <<guest, "cancelled">>,
              <<guest, "confirmed">>, <<stranger, "cancelled">> }

\* One day written as a date and as a date with a time.
FormDtos == { Dto(guest, Date(0), [day |-> 0, form |-> "datetime"], FALSE),
              Dto(guest, Date(0), Date(1), FALSE) }

Symmetry == Permutations(Requests) \cup Permutations(BookingIds)
=============================================================================
