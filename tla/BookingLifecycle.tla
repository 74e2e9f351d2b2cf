-------------------------- MODULE BookingLifecycle --------------------------
(***************************************************************************)
(* What the bookings component promises of each booking, whatever requests *)
(* are in flight: it is stored once as pending, its status then moves only *)
(* along the rules, each move being one the rules allow its stored status  *)
(* on some day that has begun, and once removed it never comes back.       *)
(* Bookings implements it.                                                 *)
(***************************************************************************)
EXTENDS BookingStatusRules, FiniteSets

CONSTANTS Users, Hotels, Owner, BookingIds, NoBooking, MaxDay

VARIABLES bookings,   \* the row of each stored booking, or NoBooking
          removed,    \* ids of rows that have been deleted
          today       \* the calendar day

Days == 0 .. MaxDay

Row == [user : Users, hotel : Hotels, checkIn : Days, checkOut : Days,
        status : BookingStatus, synthetic : BOOLEAN]

vars == <<bookings, removed, today>>

Init == /\ bookings = [b \in BookingIds |-> NoBooking]
        /\ removed = {}
        /\ today = 0

Book(b) ==
    /\ bookings[b] = NoBooking /\ b \notin removed
    /\ \E row \in Row : /\ row.status = "pending"
                        /\ bookings' = [bookings EXCEPT ![b] = row]
    /\ UNCHANGED <<removed, today>>

\* Some party to the booking makes a change that the rules allow the stored
\* status on a day that is not in the future.
ChangeStatus(b) ==
    /\ bookings[b] # NoBooking
    /\ \E caller \in Users, day \in 0 .. today, to \in BookingStatus :
          /\ to \in AllowedTo(ActorsOf(caller, bookings[b].user, Owner[bookings[b].hotel]),
                              bookings[b].status, bookings[b].checkIn,
                              bookings[b].checkOut, day)
          /\ bookings' = [bookings EXCEPT ![b].status = to]
    /\ UNCHANGED <<removed, today>>

RemoveSome ==
    \E S \in SUBSET {b \in BookingIds : bookings[b] # NoBooking} :
       /\ bookings' = [b \in BookingIds |-> IF b \in S THEN NoBooking ELSE bookings[b]]
       /\ removed' = removed \cup S
       /\ UNCHANGED today

DayPasses == today' = today + 1 /\ UNCHANGED <<bookings, removed>>

Next == (\E b \in BookingIds : Book(b) \/ ChangeStatus(b)) \/ RemoveSome \/ DayPasses

Spec == Init /\ [][Next]_vars
=============================================================================
