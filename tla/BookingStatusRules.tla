------------------------- MODULE BookingStatusRules -------------------------
(***************************************************************************)
(* The status rules of a booking, src/bookings/booking-status-transitions  *)
(* and the part of BookingsService that applies them.  Everything here is  *)
(* a pure operator.  Days are natural numbers: a date column and a         *)
(* YYYY-MM-DD string written by formatDateOnly order the same way.         *)
(***************************************************************************)
EXTENDS Naturals

BookingStatus == {"pending", "confirmed", "cancelled", "no_show", "completed"}

BookingActor == {"guest", "host"}

\* The table, as the set of <<actor, current status, target>> it allows.
\* A status with no entry is terminal.
ALLOWED_TRANSITIONS ==
    { <<"guest", "pending",   "cancelled">>,
      <<"guest", "confirmed", "cancelled">>,
      <<"host",  "pending",   "confirmed">>,
      <<"host",  "pending",   "cancelled">>,
      <<"host",  "confirmed", "cancelled">>,
      <<"host",  "confirmed", "no_show">> }

TableRow(actor, status) ==
    {to \in BookingStatus : <<actor, status, to>> \in ALLOWED_TRANSITIONS}

\* Every status an actor can ever set, whatever the booking's own status.
TargetsForActor(actor) == UNION {TableRow(actor, from) : from \in BookingStatus}

\* effectiveStatusSql: a stored `confirmed` reads as `completed` once its
\* check-out lies before the database's CURRENT_DATE.
EffectiveStatus(status, checkOut, currentDate) ==
    IF status = "confirmed" /\ checkOut < currentDate THEN "completed" ELSE status

\* Mutant: the branch that drops no_show before check-in is missing.
NoShowBeforeCheckIn(actor, currentStatus, checkIn, checkOut, today) ==
    IF checkOut < today THEN {} ELSE TableRow(actor, currentStatus)

GetAllowedStatusChanges(actor, currentStatus, checkIn, checkOut, today) ==
    IF checkOut < today THEN {}                              \* a past booking
    ELSE IF currentStatus = "confirmed" /\ actor = "host"
        THEN IF today >= checkIn THEN {"no_show"}            \* staying now
                                 ELSE {"cancelled"}          \* not started yet
        ELSE TableRow(actor, currentStatus)

\* Mutant: whoever does not own the hotel is taken for the guest.
HostElseGuest(caller, user, owner) == IF owner = caller THEN {"host"} ELSE {"guest"}

\* Who the caller of updateStatus is to a booking; the owner of a hotel who
\* booked it is both.
ActorsOf(caller, user, owner) ==
    (IF owner = caller THEN {"host"} ELSE {}) \cup (IF user = caller THEN {"guest"} ELSE {})

\* The first check of updateStatus (with the 403 of a stranger): the caller
\* can never set this status.
Forbidden(actors, status) == \A a \in actors : status \notin TargetsForActor(a)

\* The second check of updateStatus: what the caller may set now.
AllowedTo(actors, currentStatus, checkIn, checkOut, today) ==
    UNION {GetAllowedStatusChanges(a, currentStatus, checkIn, checkOut, today) : a \in actors}

\* Mutant: the list takes every caller for the host.
AlwaysHost(user, owner) == "host"

\* The one actor getBookingsByUser computes allowedStatusChanges for.
ListActor(user, owner) == IF user = owner THEN "host" ELSE "guest"

-----------------------------------------------------------------------------
(***************************************************************************)
(* The same rules as docs/guides/booking-status.md words them (lines 13-21 *)
(* and 30-33): the table, minus no_show before check-in, and empty once    *)
(* check_out has passed.                                                   *)
(***************************************************************************)
GuideAllows(actor, currentStatus, checkIn, checkOut, today) ==
    IF checkOut < today THEN {}
    ELSE {to \in TableRow(actor, currentStatus) : to = "no_show" => checkIn <= today}
=============================================================================
