------------------------------ MODULE Bookings ------------------------------
(***************************************************************************)
(* BookingsService and the bookings table (src/bookings/bookings.service). *)
(*                                                                         *)
(* A request is served by callbacks of the app's event loop separated by   *)
(* awaited queries, and each query is one atomic statement at the database *)
(* (no transaction spans two of them).  Every action below is one database *)
(* statement, or one stretch of JavaScript between two awaits, so that any *)
(* other request, a midnight or a lost connection can come in between.     *)
(* A stretch that reads no changing state is merged with the statement     *)
(* before it.                                                              *)
(*                                                                         *)
(* The app and the database each have a clock: `today` in the service is   *)
(* new Date() in the app's timezone, CURRENT_DATE is the database's.       *)
(***************************************************************************)
EXTENDS BookingStatusRules, FiniteSets

CONSTANTS
    Users, Hotels,
    Owner,        \* hotels.owner_id: the user who owns each hotel, or NoOwner
    BookingIds,   \* the uuids the database may generate
    Requests,     \* slots: as many requests, or statements left by them, can be in flight
    CreateDtos,   \* the create requests that clients may send
    Asks,         \* the <<caller, status>> of the PATCH requests they may send
    MaxDay,       \* bound on both calendars
    NoOwner, NoBooking, Idle

Days == 0 .. MaxDay

\* The forms in which @IsDateString lets one calendar day be written:
\* 2026-09-10, 2026-09-10T12:00 and 20260910.
DateForms == {"date", "datetime", "basic"}

DateText == [day : Days, form : DateForms]

CreateDto == [user : Users, hotel : Hotels, checkIn : DateText, checkOut : DateText,
              synthetic : BOOLEAN]

ASSUME OwnerAssumption == Owner \in [Hotels -> Users \cup {NoOwner}] /\ NoOwner \notin Users
ASSUME DtoAssumption == CreateDtos \subseteq CreateDto
ASSUME DayAssumption == MaxDay \in Nat
ASSUME AskAssumption == Asks \subseteq Users \X BookingStatus

Row == [user : Users, hotel : Hotels, checkIn : Days, checkOut : Days,
        status : BookingStatus, synthetic : BOOLEAN]

ASSUME NoBookingAssumption == NoBooking \notin Row

VARIABLES
    bookings,    \* the table: the row of each stored booking, or NoBooking
    issued,      \* ids the table has generated so far; a uuid is never used again
    dbDay,       \* CURRENT_DATE
    appDay,      \* formatDateOnly(new Date()) in the app
    req,         \* what each slot's request awaits, or Idle
    late,        \* slots whose request has failed and whose statement may still run
    announced,   \* bookings whose event was emitted and whose two jobs were added
    pushes,      \* number of "Booking confirmed" pushes handed to sendToUser
    seen         \* history: the bookings of its hotel that were stored when the
                 \* overlap check of this booking's create ran

db == <<bookings, issued>>
clocks == <<dbDay, appDay>>
effects == <<announced, pushes>>
vars == <<bookings, issued, dbDay, appDay, req, late, announced, pushes, seen>>

-----------------------------------------------------------------------------
\* What a slot's request is waiting for.

Overlap  == [phase : {"overlap"}, dto : CreateDtos]
Inserting == [phase : {"insert"}, dto : CreateDtos, seen : SUBSET BookingIds]
Created  == [phase : {"created"}, id : BookingIds]
Select   == [phase : {"select"}, caller : Users, id : BookingIds, status : BookingStatus]
Check    == [phase : {"check"}, caller : Users, id : BookingIds,
             status : BookingStatus, existing : Row \cup {NoBooking}]
Updating == [phase : {"update"}, caller : Users, id : BookingIds,
             status : BookingStatus, from : BookingStatus]
Updated  == [phase : {"updated"}, id : BookingIds, status : BookingStatus]

Request == Overlap \cup Inserting \cup Created \cup Select \cup Check \cup Updating \cup Updated

ASSUME IdleAssumption == Idle \notin Request

InPhase(r, phase) == req[r] # Idle /\ req[r].phase = phase

Goto(r, state) == req' = [req EXCEPT ![r] = state]

-----------------------------------------------------------------------------
\* Dates as text and as database values.

\* Strings compare character by character: '2026-09-10' is a prefix of, so less
\* than, '2026-09-10T12:00', and '-' sorts before the digits, so every dashed
\* date of a year is less than every undashed one.  All days are in one year.
TextKey(text) ==
    (IF text.form = "basic" THEN 2 * (MaxDay + 1) ELSE 0)
    + 2 * text.day + (IF text.form = "datetime" THEN 1 ELSE 0)

TextBefore(a, b) == TextKey(a) < TextKey(b)

Today == [day |-> appDay, form |-> "date"]

\* The cast of a text parameter to a date column drops the time of day.
PgDate(text) == text.day

\* assertCheckInNotInPast and the first test of assertNoOverlap.
DatesAccepted(dto) ==
    /\ ~ TextBefore(dto.checkIn, Today)
    /\ TextBefore(dto.checkIn, dto.checkOut)

Stored == {b \in BookingIds : bookings[b] # NoBooking}

\* Mutant: a booking that is under way when the new one starts is not found.
OverlapsFromStartOnly(row, hotel, checkIn, checkOut) ==
    /\ row.hotel = hotel
    /\ row.checkIn < checkOut
    /\ row.checkIn >= checkIn

\* The WHERE clause of the overlap query.  It does not look at the status.
OverlapsRange(row, hotel, checkIn, checkOut) ==
    /\ row.hotel = hotel
    /\ row.checkIn < checkOut
    /\ row.checkOut > checkIn

\* Mutant: the bookings that end today are left out.
EndsAfterToday(hotel) ==
    {b \in Stored : bookings[b].hotel = hotel /\ bookings[b].checkOut > dbDay}

\* The rows of GET /bookings/hotel/:hotelId, which a client shows as taken.
FindCurrentByHotel(hotel) ==
    {b \in Stored : bookings[b].hotel = hotel /\ bookings[b].checkOut >= dbDay}

\* The status every read but findCurrentByHotel's returns.
ReadStatus(b) == EffectiveStatus(bookings[b].status, bookings[b].checkOut, dbDay)

OwnerOf(row) == Owner[row.hotel]

-----------------------------------------------------------------------------
\* POST /bookings

\* Every create in flight will find a fresh id.  This bounds the model, not the
\* code: uuids do not run out.
IdsLeft ==
    Cardinality({r \in Requests : InPhase(r, "overlap") \/ InPhase(r, "insert")})
        < Cardinality(BookingIds \ issued)

\* The checks before the first await; a refused request (400) changes nothing.
Create(r) ==
    /\ req[r] = Idle
    /\ IdsLeft
    /\ \E dto \in CreateDtos :
          /\ DatesAccepted(dto)
          /\ Goto(r, [phase |-> "overlap", dto |-> dto])
    /\ UNCHANGED <<db, clocks, late, effects, seen>>

\* The overlap query: 409, or go on to the INSERT.
CheckOverlap(r) ==
    /\ InPhase(r, "overlap")
    /\ LET dto == req[r].dto
           overlapping == {b \in Stored : OverlapsRange(bookings[b], dto.hotel,
                                             PgDate(dto.checkIn), PgDate(dto.checkOut))}
       IN  IF overlapping # {}
             THEN Goto(r, Idle)
             ELSE Goto(r, [phase |-> "insert", dto |-> dto,
                           seen |-> {b \in Stored : bookings[b].hotel = dto.hotel}])
    /\ UNCHANGED <<db, clocks, late, effects, seen>>

NewRow(dto, status) ==
    [user |-> dto.user, hotel |-> dto.hotel, checkIn |-> PgDate(dto.checkIn),
     checkOut |-> PgDate(dto.checkOut), status |-> status, synthetic |-> dto.synthetic]

\* The request whose statement has run goes on, unless it has failed already.
Ran(r, state) ==
    /\ Goto(r, IF r \in late THEN Idle ELSE state)
    /\ late' = late \ {r}

\* Mutant: the status column has no default.
InsertWithoutDefault(r) ==
    /\ InPhase(r, "insert")
    /\ \E b \in BookingIds \ issued :
          /\ bookings' = [bookings EXCEPT ![b] = NewRow(req[r].dto, "null")]
          /\ issued' = issued \cup {b}
          /\ seen' = [seen EXCEPT ![b] = req[r].seen]
          /\ Ran(r, [phase |-> "created", id |-> b])
    /\ UNCHANGED <<clocks, effects>>

\* The INSERT commits; the status column defaults to pending.
Insert(r) ==
    /\ InPhase(r, "insert")
    /\ \E b \in BookingIds \ issued :
          /\ bookings' = [bookings EXCEPT ![b] = NewRow(req[r].dto, "pending")]
          /\ issued' = issued \cup {b}
          /\ seen' = [seen EXCEPT ![b] = req[r].seen]
          /\ Ran(r, [phase |-> "created", id |-> b])
    /\ UNCHANGED <<clocks, effects>>

\* The rest of create: emit booking.created, add both jobs, answer 201.
FinishCreate(r) ==
    /\ InPhase(r, "created")
    /\ announced' = announced \cup {req[r].id}
    /\ Goto(r, Idle)
    /\ UNCHANGED <<db, clocks, late, pushes, seen>>

-----------------------------------------------------------------------------
\* GET /bookings/user/:userId, GET /bookings/host/:hostId

\* The status changes of b that a list tells its caller it may make.
ListedChanges(b, actor) ==
    GetAllowedStatusChanges(actor, ReadStatus(b), bookings[b].checkIn,
                            bookings[b].checkOut, appDay)

HintsByUser(caller, b) ==
    IF bookings[b].user = caller
      THEN ListedChanges(b, ListActor(bookings[b].user, OwnerOf(bookings[b]))) ELSE {}

HintsByHost(caller, b) ==
    IF OwnerOf(bookings[b]) = caller THEN ListedChanges(b, "host") ELSE {}

-----------------------------------------------------------------------------
\* PATCH /bookings/:id/status

UpdateStatus(r) ==
    /\ req[r] = Idle
    /\ \E ask \in Asks, b \in BookingIds :
          Goto(r, [phase |-> "select", caller |-> ask[1], id |-> b, status |-> ask[2]])
    /\ UNCHANGED <<db, clocks, late, effects, seen>>

\* The first query of updateStatus, which reads the effective status.
SelectBooking(r) ==
    /\ InPhase(r, "select")
    /\ LET b == req[r].id IN
       Goto(r, [phase |-> "check", caller |-> req[r].caller, id |-> b,
                status |-> req[r].status,
                existing |-> IF b \in Stored
                               THEN [bookings[b] EXCEPT !.status = ReadStatus(b)]
                               ELSE NoBooking])
    /\ UNCHANGED <<db, clocks, late, effects, seen>>

ActorsIn(q) == ActorsOf(q.caller, q.existing.user, OwnerOf(q.existing))

\* The second check, with the app's today.
AllowedNow(q) ==
    q.status \in AllowedTo(ActorsIn(q), q.existing.status, q.existing.checkIn,
                           q.existing.checkOut, appDay)

Accepted(q) ==
    /\ q.existing # NoBooking
    /\ ~ Forbidden(ActorsIn(q), q.status)
    /\ AllowedNow(q)

SendUpdate(r) ==
    Goto(r, [phase |-> "update", caller |-> req[r].caller, id |-> req[r].id,
             status |-> req[r].status, from |-> req[r].existing.status])

\* Mutant: only the first check is left.
CheckActorOnly(r) ==
    /\ InPhase(r, "check")
    /\ IF req[r].existing # NoBooking /\ ~ Forbidden(ActorsIn(req[r]), req[r].status)
         THEN SendUpdate(r) ELSE Goto(r, Idle)
    /\ UNCHANGED <<db, clocks, late, effects, seen>>

\* 404, 403, 403 or 409, or go on to the UPDATE.
CheckTransition(r) ==
    /\ InPhase(r, "check")
    /\ IF Accepted(req[r]) THEN SendUpdate(r) ELSE Goto(r, Idle)
    /\ UNCHANGED <<db, clocks, late, effects, seen>>

SetStatus(r) ==
    /\ bookings' = [bookings EXCEPT ![req[r].id].status = req[r].status]
    /\ Ran(r, [phase |-> "updated", id |-> req[r].id, status |-> req[r].status])

\* Mutant: the UPDATE is guarded by the id alone.
UnguardedUpdate(r) ==
    /\ InPhase(r, "update")
    /\ IF req[r].id \in Stored THEN SetStatus(r)
                               ELSE Ran(r, Idle) /\ UNCHANGED bookings
    /\ UNCHANGED <<issued, clocks, effects, seen>>

\* Mutant: an UPDATE that matches no row leaves the request without an answer.
UnansweredUpdate(r) ==
    /\ InPhase(r, "update")
    /\ req[r].id \in Stored /\ bookings[req[r].id].status = req[r].from
    /\ SetStatus(r)
    /\ UNCHANGED <<issued, clocks, effects, seen>>

\* UPDATE ... WHERE id = $2 AND status = $3: the stored status against the
\* effective one that was read; 409 if no row matches.
GuardedUpdate(r) ==
    /\ InPhase(r, "update")
    /\ IF req[r].id \in Stored /\ bookings[req[r].id].status = req[r].from
         THEN SetStatus(r)
         ELSE Ran(r, Idle) /\ UNCHANGED bookings
    /\ UNCHANGED <<issued, clocks, effects, seen>>

\* The rest of updateStatus: push if the booking was confirmed, answer 200.
FinishUpdate(r) ==
    /\ InPhase(r, "updated")
    /\ pushes' = IF req[r].status = "confirmed"
                   THEN [pushes EXCEPT ![req[r].id] = @ + 1] ELSE pushes
    /\ Goto(r, Idle)
    /\ UNCHANGED <<db, clocks, late, announced, seen>>

-----------------------------------------------------------------------------
\* Deletions, failures, time

\* The DELETE of remove and of removeSynthetic is the whole handler; without a
\* matching row nothing changes (404, and deletedCount 0).
Delete(S) ==
    /\ S # {}
    /\ bookings' = [b \in BookingIds |-> IF b \in S THEN NoBooking ELSE bookings[b]]
    /\ UNCHANGED <<issued, clocks, req, late, effects, seen>>

Remove(b) == b \in Stored /\ Delete({b})

RemoveSynthetic == Delete({b \in Stored : bookings[b].synthetic})

\* An awaited query rejects, and its request with it (500), or the app dies, which keeps
\* nothing else in memory.  The statement never ran, or it ran and its result was lost
\* with the connection; or the database has it and may still run it.
ConnectionLost(r) ==
    /\ req[r] # Idle
    /\ \/ Goto(r, Idle) /\ late' = late \ {r}
       \/ (InPhase(r, "insert") \/ InPhase(r, "update")) /\ late' = late \cup {r} /\ UNCHANGED req
    /\ UNCHANGED <<db, clocks, effects, seen>>

\* Midnight at the database and in the app.  Two timezones are never more than
\* one calendar day apart.
DbMidnight ==
    /\ dbDay < MaxDay /\ dbDay <= appDay
    /\ dbDay' = dbDay + 1
    /\ UNCHANGED <<db, appDay, req, late, effects, seen>>

AppMidnight ==
    /\ appDay < MaxDay /\ appDay <= dbDay
    /\ appDay' = appDay + 1
    /\ UNCHANGED <<db, dbDay, req, late, effects, seen>>

-----------------------------------------------------------------------------
Init ==
    /\ bookings = [b \in BookingIds |-> NoBooking]
    /\ issued = {}
    /\ dbDay = 0 /\ appDay = 0
    /\ req = [r \in Requests |-> Idle]
    /\ late = {}
    /\ announced = {}
    /\ pushes = [b \in BookingIds |-> 0]
    /\ seen = [b \in BookingIds |-> {}]

\* What moves request r on once its query is answered.
Progress(r) ==
    \/ CheckOverlap(r) \/ Insert(r) \/ FinishCreate(r)
    \/ SelectBooking(r) \/ CheckTransition(r) \/ GuardedUpdate(r) \/ FinishUpdate(r)

Next ==
    \/ \E r \in Requests : \/ Create(r) \/ UpdateStatus(r)
                           \/ Progress(r) \/ ConnectionLost(r)
    \/ \E b \in BookingIds : Remove(b)
    \/ RemoveSynthetic
    \/ DbMidnight \/ AppMidnight

Spec == Init /\ [][Next]_vars

\* The database answers every query and the event loop runs every callback.
Fairness == \A r \in Requests : WF_vars(Progress(r))

FairSpec == Spec /\ Fairness

-----------------------------------------------------------------------------
(***************************************************************************)
(* Properties                                                              *)
(***************************************************************************)

\* The shape of the state.
TypeOK ==
    /\ bookings \in [BookingIds -> Row \cup {NoBooking}]
    /\ issued \subseteq BookingIds
    /\ dbDay \in Days /\ appDay \in Days
    /\ req \in [Requests -> Request \cup {Idle}]
    /\ late \subseteq Requests
    /\ announced \subseteq BookingIds
    /\ pushes \in [BookingIds -> Nat]
    /\ seen \in [BookingIds -> SUBSET BookingIds]

Overlapping(a, b) ==
    /\ a \in Stored /\ b \in Stored /\ a # b
    /\ OverlapsRange(bookings[a], bookings[b].hotel, bookings[b].checkIn, bookings[b].checkOut)

\* Two stored bookings of one hotel overlap only if each was stored after the
\* other's overlap check had run: the overlap query finds every earlier
\* booking, and the race between check and INSERT is the only way to book twice.
OverlapOnlyByRace ==
    \A a, b \in BookingIds : Overlapping(a, b) => a \notin seen[b] /\ b \notin seen[a]

\* A booking is marked no_show only once its check-in day has begun in the app,
\* however long the request took and whatever else was in flight.
NoShowOnlyAfterCheckIn ==
    \A b \in Stored : bookings[b].status = "no_show" => bookings[b].checkIn <= appDay

\* The guest is told of a confirmation at most once, though several confirms of
\* one booking may be past their checks together; and a booking whose push has
\* gone out is not pending.
ConfirmedOnce ==
    \A b \in BookingIds :
       /\ pushes[b] <= 1
       /\ pushes[b] = 1 /\ b \in Stored => bookings[b].status # "pending"

\* A change that a list offers its reader is never one updateStatus refuses as
\* impossible for them (403): a list can go stale, but then the guide promises
\* a 409, and what a caller can ever set does not depend on the row's status.
HintNeverForbidden ==
    \A caller \in Users, b \in Stored :
       \A status \in HintsByUser(caller, b) \cup HintsByHost(caller, b) :
          ~ Forbidden(ActorsOf(caller, bookings[b].user, OwnerOf(bookings[b])), status)

\* Whatever a create could collide with is shown as taken: no booking that would
\* make the overlap query answer 409 is missing from findCurrentByHotel, even
\* while the two clocks are on different days.  (Undashed dates escape the
\* check against the past, so they are left out.)
CalendarComplete ==
    \A dto \in CreateDtos :
       DatesAccepted(dto) /\ dto.checkIn.form # "basic" =>
          {b \in Stored : OverlapsRange(bookings[b], dto.hotel,
                             PgDate(dto.checkIn), PgDate(dto.checkOut))}
             \subseteq FindCurrentByHotel(dto.hotel)

\* A stored status changes only by the UPDATE of a request of a party to the
\* booking: the owner of the hotel, or its guest, who can only cancel.
ChangeByParty(b) ==
    b \in Stored /\ b \in Stored' /\ bookings[b].status # bookings'[b].status =>
       \E r \in Requests :
          /\ InPhase(r, "update") /\ req[r].id = b
          /\ \/ req[r].caller = OwnerOf(bookings[b])
             \/ req[r].caller = bookings[b].user /\ bookings'[b].status = "cancelled"

ChangesByParties == [][\A b \in BookingIds : ChangeByParty(b)]_vars

\* Each booking follows its lifecycle, with the app's clock as the calendar.
Lifecycle == INSTANCE BookingLifecycle WITH removed <- issued \ Stored, today <- appDay

\* Concurrent updates, deletions, midnights and lost connections never take a
\* booking off its lifecycle.
ImplementsLifecycle == Lifecycle!Spec

\* Every request is answered, whether its UPDATE found its row or not.
EveryRequestAnswered ==
    \A r \in Requests : req[r] # Idle ~> req[r] = Idle \/ r \in late

-----------------------------------------------------------------------------
(***************************************************************************)
(* What the repository says of itself and the code does not do             *)
(***************************************************************************)

\* The comment in create's overlap check, 'hotel is already booked for the given
\* date range', and the test that expects it: two bookings that both still hold
\* the hotel never overlap.
NoDoubleBooking ==
    \A a, b \in BookingIds :
       ~ /\ Overlapping(a, b)
         /\ {bookings[a].status, bookings[b].status} \subseteq {"pending", "confirmed"}

\* The comment over the UPDATE ("makes the transition atomic") and the guide: a
\* booking that reads as completed can no longer be cancelled or marked no_show.
CompletedIsFinal ==
    [][\A b \in BookingIds :
          b \in Stored /\ b \in Stored' /\ ReadStatus(b) = "completed"
             => ReadStatus(b)' = "completed"]_vars

\* The guide and booking-status-transitions.spec: allowedStatusChanges is the
\* table, minus no_show before check-in, and empty once check_out has passed.
ListsFollowGuide ==
    \A b \in Stored, actor \in BookingActor :
       ListedChanges(b, actor) =
          GuideAllows(actor, ReadStatus(b), bookings[b].checkIn, bookings[b].checkOut, appDay)

\* The message 'checkOut must be after checkIn': every stay has a night.
StayHasNights == \A b \in Stored : bookings[b].checkIn < bookings[b].checkOut
=============================================================================
