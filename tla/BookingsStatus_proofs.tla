----------------------- MODULE BookingsStatus_proofs -----------------------
(***************************************************************************)
(* Proofs about the status changes of Bookings: a request that is past its *)
(* checks carries a permission that no other step can take away, which is  *)
(* what the UPDATE's guard on the status relies on.                        *)
(***************************************************************************)
EXTENDS Bookings_proofs

\* The rules allow caller to change b from one status to another on that day.
AllowedOn(b, caller, from, to, day) ==
    to \in AllowedTo(ActorsOf(caller, bookings[b].user, OwnerOf(bookings[b])), from,
                     bookings[b].checkIn, bookings[b].checkOut, day)

\* The copy a request read still agrees with the row, the status apart.
CopyFaithful(r) ==
    req[r].existing # NoBooking =>
       /\ req[r].id \in issued
       /\ req[r].id \in Stored =>
             /\ bookings[req[r].id].user = req[r].existing.user
             /\ bookings[req[r].id].hotel = req[r].existing.hotel
             /\ bookings[req[r].id].checkIn = req[r].existing.checkIn
             /\ bookings[req[r].id].checkOut = req[r].existing.checkOut

\* A request about to UPDATE was allowed its change on a day that has begun.
UpdateAllowed(r) ==
    /\ req[r].id \in issued
    /\ req[r].id \in Stored =>
          \E day \in 0 .. appDay :
             AllowedOn(req[r].id, req[r].caller, req[r].from, req[r].status, day)

StatusInv ==
    \A r \in Requests : /\ InPhase(r, "check") => CopyFaithful(r)
                        /\ InPhase(r, "update") => UpdateAllowed(r)

\* No request is under way at first.
LEMMA StatusInit == Init => StatusInv
BY DEF Init, StatusInv, InPhase

\* Ids stay issued, days do not go back, and an issued id keeps its stay for as
\* long as it is stored.
LEMMA StepFrame ==
  ASSUME TypeOK, RaceInv, [Next]_vars
  PROVE  /\ issued \subseteq issued'
         /\ appDay' \in Days /\ appDay <= appDay'
         /\ \A b \in issued : b \in Stored' => SameStay(b)
<1>1. appDay' \in Days /\ appDay <= appDay'
  <2>1. appDay' = appDay \/ appDay' = appDay + 1
    BY DEF Next, Progress, Create, CheckOverlap, Insert, FinishCreate, UpdateStatus,
       SelectBooking, CheckTransition, GuardedUpdate, FinishUpdate, ConnectionLost, Remove,
       RemoveSynthetic, Delete, DbMidnight, AppMidnight, vars, clocks
  <2>2. appDay' \in Days
    BY TypeStep DEF TypeOK
  <2>. QED
    BY <2>1, <2>2, DayAssumption DEF TypeOK, Days
<1>2. CASE \E r \in Requests : Insert(r)
  <2>1. PICK r \in Requests : Insert(r)
    BY <1>2
  <2>2. PICK b \in BookingIds \ issued :
          /\ bookings' = [bookings EXCEPT ![b] = NewRow(req[r].dto, "pending")]
          /\ issued' = issued \cup {b}
    BY <2>1 DEF Insert
  <2>3. \A a \in issued : a \in BookingIds /\ bookings'[a] = bookings[a]
    BY <2>2 DEF TypeOK
  <2>. QED
    BY <1>1, <2>2, <2>3 DEF SameStay, Stored
<1>3. CASE ~ \E r \in Requests : Insert(r)
  BY <1>1, <1>3, StaysKept
<1>. QED
  BY <1>2, <1>3

\* The SELECT copies the row it reads.
LEMMA CopyOnSelect ==
  ASSUME TypeOK, RaceInv, NEW s \in Requests, SelectBooking(s)
  PROVE  CopyFaithful(s)'
<1>1. req[s] \in Select
  BY PhaseRecord DEF SelectBooking
<1>. DEFINE b == req[s].id
            copy == IF b \in Stored THEN [bookings[b] EXCEPT !.status = ReadStatus(b)]
                                    ELSE NoBooking
<1>2. /\ req' = [req EXCEPT ![s] = [phase |-> "check", caller |-> req[s].caller, id |-> b,
                                    status |-> req[s].status, existing |-> copy]]
      /\ UNCHANGED <<bookings, issued>>
  BY DEF SelectBooking, Goto, db
<1>3. req'[s].id = b /\ req'[s].existing = copy
  BY <1>2 DEF TypeOK
<1>4. Stored' = Stored
  BY <1>2 DEF Stored
<1>5. CASE b \in Stored
  <2>1. b \in issued /\ bookings[b] \in Row
    BY <1>1, <1>5, StoredRow DEF RaceInv, IssuedOnly, Stored
  <2>. QED
    BY <1>2, <1>3, <1>5, <2>1 DEF CopyFaithful, Row
<1>6. CASE b \notin Stored
  BY <1>3, <1>6 DEF CopyFaithful
<1>. QED
  BY <1>5, <1>6

\* The checks give the permission, on the app's today.
LEMMA AllowedOnCheck ==
  ASSUME TypeOK, StatusInv, NEW s \in Requests, CheckTransition(s), InPhase(s, "update")'
  PROVE  UpdateAllowed(s)'
<1>1. req[s] \in Check
  BY PhaseRecord DEF CheckTransition
<1>2. Accepted(req[s])
  BY DEF CheckTransition, Goto, InPhase, TypeOK
<1>3. /\ req' = [req EXCEPT ![s] = [phase |-> "update", caller |-> req[s].caller,
                    id |-> req[s].id, status |-> req[s].status,
                    from |-> req[s].existing.status]]
      /\ UNCHANGED <<bookings, issued, appDay>>
  BY <1>2 DEF CheckTransition, SendUpdate, Goto, db, clocks
<1>4. /\ req'[s].caller = req[s].caller /\ req'[s].id = req[s].id
      /\ req'[s].status = req[s].status /\ req'[s].from = req[s].existing.status
  BY <1>3 DEF TypeOK
<1>5. CopyFaithful(s) /\ req[s].existing # NoBooking
  BY <1>2 DEF StatusInv, CheckTransition, Accepted
<1>6. appDay \in 0 .. appDay
  BY DayAssumption DEF TypeOK, Days
<1>7. req[s].id \in Stored =>
        AllowedOn(req[s].id, req[s].caller, req[s].existing.status, req[s].status, appDay)
  BY <1>2, <1>5 DEF CopyFaithful, Accepted, AllowedNow, ActorsIn, OwnerOf, AllowedOn
<1>8. Stored' = Stored
  BY <1>3 DEF Stored
<1>. QED
  BY <1>3, <1>4, <1>5, <1>6, <1>7, <1>8 DEF CopyFaithful, UpdateAllowed, AllowedOn, OwnerOf

\* Every step keeps StatusInv, request by request.
LEMMA StatusStep == TypeOK /\ RaceInv /\ StatusInv /\ [Next]_vars => StatusInv'
<1>. SUFFICES ASSUME TypeOK, RaceInv, StatusInv, [Next]_vars, NEW s \in Requests
              PROVE  /\ InPhase(s, "check")' => CopyFaithful(s)'
                     /\ InPhase(s, "update")' => UpdateAllowed(s)'
  BY DEF StatusInv
<1>1. CASE req'[s] # req[s]
  BY <1>1, EnterPhase, CopyOnSelect, AllowedOnCheck
<1>2. CASE req'[s] = req[s]
  <2>1. /\ InPhase(s, "check")' => CopyFaithful(s)
        /\ InPhase(s, "update")' => UpdateAllowed(s)
    BY <1>2 DEF StatusInv, InPhase
  <2>2. ASSUME InPhase(s, "check")', req[s].existing # NoBooking PROVE CopyFaithful(s)'
    BY <1>2, <2>1, <2>2, StepFrame DEF CopyFaithful, SameStay
  <2>3. ASSUME InPhase(s, "update")' PROVE UpdateAllowed(s)'
    <3>1. req[s].id \in issued /\ req'[s].id \in issued'
      BY <1>2, <2>1, <2>3, StepFrame DEF UpdateAllowed
    <3>2. ASSUME req[s].id \in Stored'
          PROVE  \E day \in 0 .. appDay' :
                    AllowedOn(req[s].id, req[s].caller, req[s].from, req[s].status, day)'
      <4>1. SameStay(req[s].id)
        BY <3>1, <3>2, StepFrame
      <4>2. PICK day \in 0 .. appDay :
              AllowedOn(req[s].id, req[s].caller, req[s].from, req[s].status, day)
        BY <2>1, <2>3, <4>1 DEF UpdateAllowed, SameStay
      <4>3. day \in 0 .. appDay'
        BY StepFrame, DayAssumption DEF TypeOK, Days
      <4>4. /\ bookings'[req[s].id].user = bookings[req[s].id].user
            /\ bookings'[req[s].id].hotel = bookings[req[s].id].hotel
            /\ bookings'[req[s].id].checkIn = bookings[req[s].id].checkIn
            /\ bookings'[req[s].id].checkOut = bookings[req[s].id].checkOut
        BY <4>1 DEF SameStay
      <4>. QED
        BY <1>2, <4>2, <4>3, <4>4 DEF AllowedOn, OwnerOf
    <3>. QED
      BY <1>2, <3>1, <3>2 DEF UpdateAllowed, AllowedOn, OwnerOf
  <2>. QED
    BY <1>2, <2>2, <2>3 DEF CopyFaithful
<1>. QED
  BY <1>1, <1>2

\* Every request that is past its checks keeps its permission.
THEOREM StatusInvariant == Spec => []StatusInv
<1>. QED
  BY StatusInit, StatusStep, RaceInvariant, TypeCorrect, PTL DEF Spec

-----------------------------------------------------------------------------
(***************************************************************************)
(* What a change of a stored status says of the request that made it.      *)
(***************************************************************************)

\* r writes its status over the stored status it expected, with permission.
Changes(r, b) ==
    /\ GuardedUpdate(r) /\ req[r].id = b /\ b \in Stored
    /\ bookings[b].status = req[r].from
    /\ bookings' = [bookings EXCEPT ![b] = [bookings[b] EXCEPT !.status = req[r].status]]
    /\ Ran(r, [phase |-> "updated", id |-> b, status |-> req[r].status])
    /\ \E day \in 0 .. appDay :
          AllowedOn(b, req[r].caller, bookings[b].status, req[r].status, day)

\* An UPDATE either changes the row it names or does nothing.
LEMMA UpdateEffect ==
  ASSUME TypeOK, StatusInv, NEW r \in Requests, GuardedUpdate(r)
  PROVE  \/ Changes(r, req[r].id)
         \/ UNCHANGED bookings /\ req' = [req EXCEPT ![r] = Idle]
<1>1. UpdateAllowed(r)
  BY DEF StatusInv, GuardedUpdate
<1>2. CASE req[r].id \in Stored /\ bookings[req[r].id].status = req[r].from /\ SetStatus(r)
  BY <1>1, <1>2 DEF Changes, SetStatus, UpdateAllowed
<1>. QED
  BY <1>2, RanMoves DEF GuardedUpdate

\* Only an UPDATE changes the row of a booking that stays stored.
LEMMA RowChange ==
  ASSUME TypeOK, RaceInv, StatusInv, [Next]_vars, NEW b \in Stored, b \in Stored',
         bookings'[b] # bookings[b]
  PROVE  \E r \in Requests : Changes(r, b)
<1>1. CASE \E r \in Requests : GuardedUpdate(r)
  <2>1. PICK r \in Requests : GuardedUpdate(r)
    BY <1>1
  <2>2. Changes(r, req[r].id)
    BY <2>1, UpdateEffect
  <2>3. req[r].id = b
    BY <2>2 DEF Changes, TypeOK, Stored
  <2>. QED
    BY <2>2, <2>3
<1>2. CASE \E r \in Requests : Insert(r)
  <2>1. PICK r \in Requests, c \in BookingIds \ issued :
          bookings' = [bookings EXCEPT ![c] = NewRow(req[r].dto, "pending")]
    BY <1>2 DEF Insert
  <2>2. b \in BookingIds /\ b \in issued
    BY DEF RaceInv, IssuedOnly, Stored
  <2>. QED
    BY <2>1, <2>2 DEF TypeOK
<1>3. ASSUME NEW S, Delete(S) PROVE FALSE
  BY <1>3 DEF Delete, Stored
<1>4. CASE UNCHANGED bookings
  BY <1>4
<1>. QED
  BY <1>1, <1>2, <1>3, <1>4 DEF Next, Progress, Create, CheckOverlap, FinishCreate,
     UpdateStatus, SelectBooking, CheckTransition, FinishUpdate, ConnectionLost, Remove,
     RemoveSynthetic, DbMidnight, AppMidnight, vars, db

\* What a permitted change is: an entry of the table for the host, who is the
\* owner, or for the guest, who made the booking.
LEMMA PermittedChange ==
  ASSUME TypeOK, NEW r \in Requests, NEW b \in Stored, Changes(r, b)
  PROVE  /\ req[r].status \in BookingStatus
         /\ \/ /\ req[r].caller = OwnerOf(bookings[b])
               /\ req[r].status \in TableRow("host", bookings[b].status)
            \/ /\ req[r].caller = bookings[b].user
               /\ req[r].status \in TableRow("guest", bookings[b].status)
         /\ req[r].status = "no_show" => bookings[b].checkIn <= appDay
<1>1. req[r] \in Updating /\ bookings[b] \in Row
  BY PhaseRecord, StoredRow DEF Changes, GuardedUpdate
<1>2. PICK day \in 0 .. appDay :
        AllowedOn(b, req[r].caller, bookings[b].status, req[r].status, day)
  BY DEF Changes
<1>3. /\ day \in Nat /\ day <= appDay /\ appDay \in Nat
      /\ bookings[b].checkIn \in Nat /\ bookings[b].checkOut \in Nat
      /\ bookings[b].status \in BookingStatus
  BY <1>1, DayAssumption DEF TypeOK, Days, Row
<1>4. PICK actor \in ActorsOf(req[r].caller, bookings[b].user, OwnerOf(bookings[b])) :
        req[r].status \in GetAllowedStatusChanges(actor, bookings[b].status,
                             bookings[b].checkIn, bookings[b].checkOut, day)
  BY <1>2 DEF AllowedOn, AllowedTo
<1>5. /\ actor \in BookingActor
      /\ actor = "host" => req[r].caller = OwnerOf(bookings[b])
      /\ actor = "guest" => req[r].caller = bookings[b].user
  BY <1>4 DEF ActorsOf, BookingActor
<1>6. req[r].status \in TableRow(actor, bookings[b].status)
  BY <1>3, <1>4, <1>5, AllowedIsInTable
<1>7. req[r].status = "no_show" => bookings[b].checkIn <= day
  BY <1>3, <1>4, <1>5, NoShowNeedsCheckIn
<1>. QED
  BY <1>1, <1>3, <1>5, <1>6, <1>7 DEF Updating, BookingActor, Row

\* A guest's entries of the table are cancellations.
LEMMA GuestOnlyCancels ==
  ASSUME NEW status, NEW to \in TableRow("guest", status)
  PROVE  to = "cancelled"
BY DEF TableRow, ALLOWED_TRANSITIONS

\* pending is nobody's target, and confirmed is only reached from pending.
LEMMA TableTargets ==
  ASSUME NEW actor, NEW status, NEW to \in TableRow(actor, status)
  PROVE  to # "pending" /\ (to = "confirmed" => status = "pending")
BY DEF TableRow, ALLOWED_TRANSITIONS

\* A stored status changes only at the hand of a party to the booking.
THEOREM PartiesChange == Spec => ChangesByParties
<1>1. TypeOK /\ RaceInv /\ StatusInv /\ [Next]_vars => [\A b \in BookingIds : ChangeByParty(b)]_vars
  <2>. SUFFICES ASSUME TypeOK, RaceInv, StatusInv, [Next]_vars, NEW b \in Stored, b \in Stored',
                       bookings[b].status # bookings'[b].status
                PROVE  \E r \in Requests :
                          /\ InPhase(r, "update") /\ req[r].id = b
                          /\ \/ req[r].caller = OwnerOf(bookings[b])
                             \/ /\ req[r].caller = bookings[b].user
                                /\ bookings'[b].status = "cancelled"
    BY DEF ChangeByParty
  <2>1. PICK r \in Requests : Changes(r, b)
    BY RowChange
  <2>2. /\ InPhase(r, "update") /\ req[r].id = b
        /\ bookings'[b].status = req[r].status
    BY <2>1, StoredRow DEF Changes, GuardedUpdate, TypeOK, Row
  <2>. QED
    BY <2>1, <2>2, PermittedChange, GuestOnlyCancels
<1>. QED
  BY <1>1, StatusInvariant, RaceInvariant, TypeCorrect, PTL DEF Spec, ChangesByParties

\* No booking is stored as no_show before its check-in day has begun in the app.
THEOREM NoShowAfterCheckIn == Spec => []NoShowOnlyAfterCheckIn
<1>1. Init => NoShowOnlyAfterCheckIn
  BY DEF Init, NoShowOnlyAfterCheckIn, Stored
<1>2. TypeOK /\ TypeOK' /\ RaceInv /\ StatusInv /\ NoShowOnlyAfterCheckIn /\ [Next]_vars
        => NoShowOnlyAfterCheckIn'
  <2>. SUFFICES ASSUME TypeOK, TypeOK', RaceInv, StatusInv, NoShowOnlyAfterCheckIn, [Next]_vars,
                       NEW b \in Stored', bookings'[b].status = "no_show"
                PROVE  bookings'[b].checkIn <= appDay'
    BY DEF NoShowOnlyAfterCheckIn
  <2>1. appDay \in Nat /\ appDay' \in Nat /\ appDay <= appDay' /\ bookings'[b].checkIn \in Nat
    BY StepFrame, StoredRow, DayAssumption DEF TypeOK, Days, Row, Stored
  <2>2. CASE b \in Stored /\ bookings'[b] = bookings[b]
    BY <2>1, <2>2 DEF NoShowOnlyAfterCheckIn
  <2>3. CASE b \in Stored /\ bookings'[b] # bookings[b]
    <3>1. PICK r \in Requests : Changes(r, b)
      BY <2>3, RowChange
    <3>2. bookings'[b] = [bookings[b] EXCEPT !.status = req[r].status] /\ bookings[b] \in Row
      BY <2>3, <3>1, StoredRow DEF Changes, TypeOK
    <3>3. bookings'[b].status = req[r].status /\ bookings'[b].checkIn = bookings[b].checkIn
      BY <3>2 DEF Row
    <3>. QED
      BY <2>1, <2>3, <3>1, <3>3, PermittedChange
  <2>4. CASE b \notin Stored
    <3>1. \E r \in Requests : Insert(r)
      BY <2>4, StaysKept DEF SameStay
    <3>2. PICK r \in Requests, c \in BookingIds \ issued :
            bookings' = [bookings EXCEPT ![c] = NewRow(req[r].dto, "pending")]
      BY <3>1 DEF Insert
    <3>3. bookings'[b].status = "pending"
      BY <2>4, <3>2 DEF TypeOK, Stored, NewRow
    <3>. QED
      BY <3>3
  <2>. QED
    BY <2>2, <2>3, <2>4
<1>. QED
  BY <1>1, <1>2, StatusInvariant, RaceInvariant, TypeCorrect, PTL DEF Spec

-----------------------------------------------------------------------------
(***************************************************************************)
(* The push of a confirmation.  pending is left once and for all, so of    *)
(* all the confirms that are past their checks one UPDATE at most finds    *)
(* its status.                                                             *)
(***************************************************************************)

\* Request r has confirmed b and is about to push.
Confirming(r, b) == InPhase(r, "updated") /\ req[r].id = b /\ req[r].status = "confirmed"

ConfirmInv ==
    \A b \in BookingIds :
       /\ pushes[b] \in {0, 1}
       /\ pushes[b] = 1 \/ (\E r \in Requests : Confirming(r, b)) =>
             b \in issued /\ (b \in Stored => bookings[b].status # "pending")
       /\ \A r \in Requests : Confirming(r, b) => pushes[b] = 0
       /\ \A r, s \in Requests : Confirming(r, b) /\ Confirming(s, b) => r = s

\* At first nothing is confirmed or pushed.
LEMMA ConfirmInit == Init => ConfirmInv
BY DEF Init, ConfirmInv, Confirming, InPhase

\* An UPDATE that changes b: a confirm leaves pending, so it is the first.
LEMMA ConfirmUpdate ==
  ASSUME TypeOK, StatusInv, ConfirmInv, NEW r \in Requests, NEW b \in BookingIds, Changes(r, b)
  PROVE  ConfirmInv'
<1>1. b \in Stored /\ bookings[b] \in Row
  BY StoredRow DEF Changes
<1>2. req[r].status # "pending" /\ (req[r].status = "confirmed" => bookings[b].status = "pending")
  BY <1>1, PermittedChange, TableTargets
<1>3. /\ bookings'[b] = [bookings[b] EXCEPT !.status = req[r].status]
      /\ bookings'[b].status = req[r].status
      /\ \A c \in BookingIds : c # b => bookings'[c] = bookings[c]
  BY <1>1 DEF Changes, TypeOK, Row
<1>4. /\ req'[r] \in {Idle, [phase |-> "updated", id |-> b, status |-> req[r].status]}
      /\ \A s \in Requests : s # r => req'[s] = req[s]
  BY RanMoves DEF Changes
<1>5. pushes' = pushes /\ issued' = issued
  BY DEF Changes, GuardedUpdate, effects
<1>6. ~ InPhase(r, "updated")
  BY DEF Changes, GuardedUpdate, InPhase
<1>7. ASSUME NEW s \in Requests, NEW c \in BookingIds, Confirming(s, c)'
      PROVE  \/ s # r /\ Confirming(s, c)
             \/ s = r /\ c = b /\ req[r].status = "confirmed"
  BY <1>4, <1>7 DEF Confirming, InPhase
<1>8. ASSUME req[r].status = "confirmed"
      PROVE  pushes[b] = 0 /\ \A s \in Requests : ~ Confirming(s, b)
  BY <1>1, <1>2, <1>8 DEF ConfirmInv
<1>9. Stored' \subseteq Stored \cup {b}
  BY <1>3 DEF Stored
<1>10. b \in issued \/ req[r].status # "confirmed"
  BY DEF StatusInv, UpdateAllowed, Changes, GuardedUpdate
<1>. SUFFICES ASSUME NEW c \in BookingIds
     PROVE  /\ pushes'[c] \in {0, 1}
            /\ pushes'[c] = 1 \/ (\E s \in Requests : Confirming(s, c)') =>
                  c \in issued' /\ (c \in Stored' => bookings'[c].status # "pending")
            /\ \A s \in Requests : Confirming(s, c)' => pushes'[c] = 0
            /\ \A s, t \in Requests : Confirming(s, c)' /\ Confirming(t, c)' => s = t
  BY DEF ConfirmInv
<1>11. CASE c = b
  BY <1>2, <1>3, <1>5, <1>7, <1>8, <1>10, <1>11 DEF ConfirmInv
<1>12. CASE c # b
  BY <1>3, <1>5, <1>7, <1>9, <1>12 DEF ConfirmInv
<1>. QED
  BY <1>11, <1>12

\* The push itself: its request was the only one that confirmed b.
LEMMA ConfirmPush ==
  ASSUME TypeOK, ConfirmInv, NEW r \in Requests, FinishUpdate(r)
  PROVE  ConfirmInv'
<1>1. req[r] \in Updated
  BY PhaseRecord DEF FinishUpdate
<1>2. PICK b \in BookingIds : b = req[r].id
  BY <1>1 DEF Updated
<1>3. /\ UNCHANGED <<bookings, issued>> /\ Stored' = Stored
      /\ req' = [req EXCEPT ![r] = Idle]
  BY DEF FinishUpdate, db, Goto, Stored
<1>4. ASSUME NEW s \in Requests, NEW c \in BookingIds, Confirming(s, c)'
      PROVE  s # r /\ Confirming(s, c)
  BY <1>3, <1>4 DEF Confirming, InPhase, TypeOK
<1>5. CASE req[r].status = "confirmed"
  <2>1. Confirming(r, b)
    BY <1>5, <1>2 DEF Confirming, FinishUpdate
  <2>2. pushes'[b] = 1 /\ \A c \in BookingIds : c # b => pushes'[c] = pushes[c]
    BY <1>5, <1>2, <2>1 DEF FinishUpdate, TypeOK, ConfirmInv
  <2>3. \A s \in Requests : ~ Confirming(s, b)'
    BY <1>4, <2>1 DEF ConfirmInv
  <2>4. ASSUME NEW c \in BookingIds
        PROVE  /\ pushes'[c] \in {0, 1}
               /\ pushes'[c] = 1 \/ (\E s \in Requests : Confirming(s, c)') =>
                     c \in issued' /\ (c \in Stored' => bookings'[c].status # "pending")
               /\ \A s \in Requests : Confirming(s, c)' => pushes'[c] = 0
               /\ \A s, t \in Requests : Confirming(s, c)' /\ Confirming(t, c)' => s = t
    <3>1. CASE c = b
      BY <1>3, <2>1, <2>2, <2>3, <3>1 DEF ConfirmInv
    <3>2. CASE c # b
      BY <1>3, <1>4, <2>2, <3>2 DEF ConfirmInv
    <3>. QED
      BY <3>1, <3>2
  <2>. QED
    BY <2>4 DEF ConfirmInv
<1>6. CASE req[r].status # "confirmed"
  <2>1. pushes' = pushes
    BY <1>6 DEF FinishUpdate
  <2>. QED
    BY <1>3, <1>4, <2>1 DEF ConfirmInv
<1>. QED
  BY <1>5, <1>6

\* Every step keeps ConfirmInv.
LEMMA ConfirmStep ==
  ASSUME TypeOK, RaceInv, StatusInv, ConfirmInv, [Next]_vars
  PROVE  ConfirmInv'
<1>1. CASE \E r \in Requests : FinishUpdate(r)
  BY <1>1, ConfirmPush
<1>2. CASE \E r \in Requests : Changes(r, req[r].id)
  <2>1. PICK r \in Requests : Changes(r, req[r].id)
    BY <1>2
  <2>2. req[r].id \in BookingIds
    BY <2>1 DEF Changes, Stored
  <2>. QED
    BY <2>1, <2>2, ConfirmUpdate
<1>3. ASSUME \A r \in Requests : ~ FinishUpdate(r) /\ ~ Changes(r, req[r].id)
      PROVE  ConfirmInv'
  <2>1. pushes' = pushes
    BY <1>3 DEF Next, Progress, Create, CheckOverlap, Insert, FinishCreate, UpdateStatus,
       SelectBooking, CheckTransition, GuardedUpdate, ConnectionLost, Remove, RemoveSynthetic,
       Delete, DbMidnight, AppMidnight, vars, effects
  <2>2. ASSUME NEW s \in Requests, NEW c \in BookingIds, Confirming(s, c)'
        PROVE  Confirming(s, c)
    <3>1. CASE req'[s] = req[s]
      BY <2>2, <3>1 DEF Confirming, InPhase
    <3>2. CASE req'[s] # req[s]
      <4>1. GuardedUpdate(s)
        BY <2>2, <3>2, EnterPhase DEF Confirming
      <4>2. req'[s] = Idle
        BY <1>3, <4>1, UpdateEffect DEF TypeOK
      <4>. QED
        BY <2>2, <4>2 DEF Confirming, InPhase
    <3>. QED
      BY <3>1, <3>2
  <2>3. ASSUME NEW c \in BookingIds, c \in issued, c \in Stored'
        PROVE  c \in Stored /\ bookings'[c] = bookings[c]
    <3>1. c \in Stored
      BY <2>3, StepFrame DEF SameStay
    <3>2. ASSUME NEW r \in Requests, Changes(r, c) PROVE FALSE
      BY <1>3, <3>2 DEF Changes
    <3>. QED
      BY <2>3, <3>1, <3>2, RowChange
  <2>. QED
    BY <2>1, <2>2, <2>3, StepFrame DEF ConfirmInv
<1>. QED
  BY <1>1, <1>2, <1>3

\* A booking's confirmation is pushed once at most.
THEOREM ConfirmationsPushedOnce == Spec => []ConfirmedOnce
<1>1. TypeOK /\ RaceInv /\ StatusInv /\ ConfirmInv /\ [Next]_vars => ConfirmInv'
  BY ConfirmStep
<1>2. ConfirmInv => ConfirmedOnce
  BY DEF ConfirmInv, ConfirmedOnce, Stored
<1>. QED
  BY <1>1, <1>2, ConfirmInit, StatusInvariant, RaceInvariant, TypeCorrect, PTL DEF Spec

-----------------------------------------------------------------------------
(***************************************************************************)
(* What a past booking is safe from.  An UPDATE is guarded by the stored   *)
(* status, which stays confirmed when the day turns: only a change that    *)
(* read the booking on an earlier day of the database can leave completed. *)
(***************************************************************************)

\* The database's day does not turn over a status change between its SELECT and its
\* UPDATE.
QuietMidnight ==
    dbDay' # dbDay => \A r \in Requests : ~ InPhase(r, "check") /\ ~ InPhase(r, "update")

\* A change that read confirmed has read a booking that is not past.
FreshInv ==
    \A r \in Requests :
       /\ InPhase(r, "check") =>
             (req[r].existing # NoBooking /\ req[r].existing.status = "confirmed"
                => req[r].existing.checkOut >= dbDay)
       /\ InPhase(r, "update") =>
             (req[r].id \in Stored /\ req[r].from = "confirmed"
                => bookings[req[r].id].checkOut >= dbDay)

\* The database's day does not go back.
LEMMA DbDayGrows ==
  ASSUME TypeOK, [Next]_vars
  PROVE  dbDay \in Nat /\ dbDay' \in Nat /\ dbDay <= dbDay'
<1>1. dbDay' = dbDay \/ dbDay' = dbDay + 1
  BY DEF Next, Progress, Create, CheckOverlap, Insert, FinishCreate, UpdateStatus,
     SelectBooking, CheckTransition, GuardedUpdate, FinishUpdate, ConnectionLost, Remove,
     RemoveSynthetic, Delete, DbMidnight, AppMidnight, vars, clocks
<1>2. dbDay \in Nat
  BY DayAssumption DEF TypeOK, Days
<1>. QED
  BY <1>1, <1>2

\* What reads as confirmed is not past.
LEMMA FreshOnSelect ==
  ASSUME TypeOK, NEW s \in Requests, SelectBooking(s),
         req'[s].existing # NoBooking, req'[s].existing.status = "confirmed"
  PROVE  req'[s].existing.checkOut >= dbDay'
<1>. DEFINE b == req[s].id
            copy == IF b \in Stored THEN [bookings[b] EXCEPT !.status = ReadStatus(b)]
                                    ELSE NoBooking
<1>1. /\ req' = [req EXCEPT ![s] = [phase |-> "check", caller |-> req[s].caller, id |-> b,
                                    status |-> req[s].status, existing |-> copy]]
      /\ dbDay' = dbDay
  BY DEF SelectBooking, Goto, clocks
<1>2. req'[s].existing = copy
  BY <1>1 DEF TypeOK
<1>3. b \in Stored /\ bookings[b] \in Row
  BY <1>2, StoredRow
<1>4. copy.status = ReadStatus(b) /\ copy.checkOut = bookings[b].checkOut
  BY <1>3 DEF Row
<1>5. bookings[b].checkOut \in Nat /\ dbDay \in Nat
  BY <1>3, DayAssumption DEF TypeOK, Days, Row
<1>6. ReadStatus(b) = "confirmed"
  BY <1>2, <1>4
<1>7. bookings[b].checkOut >= dbDay
  BY <1>5, <1>6 DEF ReadStatus, EffectiveStatus
<1>8. req'[s].existing.checkOut = bookings[b].checkOut
  BY <1>2, <1>4
<1>. QED
  BY <1>1, <1>7, <1>8

\* The request takes what it read along to its UPDATE.
LEMMA FreshOnCheck ==
  ASSUME TypeOK, StatusInv, FreshInv, NEW s \in Requests, CheckTransition(s),
         InPhase(s, "update")', req'[s].id \in Stored', req'[s].from = "confirmed"
  PROVE  bookings'[req'[s].id].checkOut >= dbDay'
<1>1. Accepted(req[s])
  BY DEF CheckTransition, Goto, InPhase, TypeOK
<1>2. /\ req' = [req EXCEPT ![s] = [phase |-> "update", caller |-> req[s].caller,
                    id |-> req[s].id, status |-> req[s].status,
                    from |-> req[s].existing.status]]
      /\ bookings' = bookings /\ dbDay' = dbDay
  BY <1>1 DEF CheckTransition, SendUpdate, Goto, db, clocks
<1>3. req'[s].id = req[s].id /\ req'[s].from = req[s].existing.status
  BY <1>2 DEF TypeOK
<1>4. CopyFaithful(s) /\ req[s].existing # NoBooking /\ InPhase(s, "check")
  BY <1>1 DEF StatusInv, CheckTransition, Accepted
<1>5. req[s].id \in Stored
  BY <1>2, <1>3 DEF Stored
<1>6. bookings[req[s].id].checkOut = req[s].existing.checkOut
  BY <1>4, <1>5 DEF CopyFaithful
<1>. QED
  BY <1>2, <1>3, <1>4, <1>6 DEF FreshInv

\* Without a midnight between a SELECT and its UPDATE, every step keeps FreshInv.
LEMMA FreshStep ==
  ASSUME TypeOK, RaceInv, StatusInv, FreshInv, [Next]_vars, [QuietMidnight]_vars
  PROVE  FreshInv'
<1>. SUFFICES ASSUME NEW s \in Requests
     PROVE  /\ InPhase(s, "check")' =>
                 (req'[s].existing # NoBooking /\ req'[s].existing.status = "confirmed"
                    => req'[s].existing.checkOut >= dbDay')
            /\ InPhase(s, "update")' =>
                 (req'[s].id \in Stored' /\ req'[s].from = "confirmed"
                    => bookings'[req'[s].id].checkOut >= dbDay')
  BY DEF FreshInv
<1>1. CASE req'[s] # req[s]
  BY <1>1, EnterPhase, FreshOnSelect, FreshOnCheck
<1>2. CASE req'[s] = req[s]
  <2>1. ASSUME InPhase(s, "check") \/ InPhase(s, "update")  PROVE dbDay' = dbDay
    BY <2>1 DEF QuietMidnight, vars
  <2>2. /\ InPhase(s, "check")' <=> InPhase(s, "check")
        /\ InPhase(s, "update")' <=> InPhase(s, "update")
    BY <1>2 DEF InPhase
  <2>3. ASSUME InPhase(s, "update"), req[s].id \in Stored'
        PROVE  req[s].id \in Stored
               /\ bookings'[req[s].id].checkOut = bookings[req[s].id].checkOut
    <3>1. req[s].id \in issued
      BY <2>3 DEF StatusInv, UpdateAllowed
    <3>. QED
      BY <2>3, <3>1, StepFrame DEF SameStay
  <2>. QED
    BY <1>2, <2>1, <2>2, <2>3 DEF FreshInv
<1>. QED
  BY <1>1, <1>2

\* What reads as completed stays so in every step of such a run.
LEMMA CompletedStays ==
  ASSUME TypeOK, RaceInv, StatusInv, FreshInv, [Next]_vars,
         NEW b \in Stored, b \in Stored', ReadStatus(b) = "completed"
  PROVE  ReadStatus(b)' = "completed"
<1>1. dbDay \in Nat /\ dbDay' \in Nat /\ dbDay <= dbDay'
  BY DbDayGrows
<1>2. bookings[b].checkOut \in Nat
  BY StoredRow, DayAssumption DEF Row, Days
<1>3. \/ bookings[b].status = "completed"
      \/ bookings[b].status = "confirmed" /\ bookings[b].checkOut < dbDay
  BY DEF ReadStatus, EffectiveStatus
<1>4. bookings'[b] = bookings[b]
  <2>. SUFFICES ASSUME bookings'[b] # bookings[b]  PROVE FALSE
    OBVIOUS
  <2>1. PICK r \in Requests : Changes(r, b)
    BY RowChange
  <2>2. bookings[b].status # "completed"
    BY <2>1, PermittedChange DEF TableRow, ALLOWED_TRANSITIONS
  <2>3. InPhase(r, "update") /\ req[r].id = b /\ req[r].from = bookings[b].status
    BY <2>1 DEF Changes, GuardedUpdate
  <2>. QED
    BY <1>1, <1>2, <1>3, <2>2, <2>3 DEF FreshInv
<1>5. ReadStatus(b)' = EffectiveStatus(bookings[b].status, bookings[b].checkOut, dbDay')
  BY <1>4 DEF ReadStatus, EffectiveStatus
<1>. QED
  BY <1>1, <1>2, <1>3, <1>5 DEF EffectiveStatus

\* As long as no midnight of the database falls between a change's SELECT and its UPDATE,
\* a booking that reads as completed reads so for good.
THEOREM CompletedUnlessMidnight ==
  Spec /\ [][QuietMidnight]_vars => CompletedIsFinal
<1>1. Init => FreshInv
  BY DEF Init, FreshInv, InPhase
<1>2. TypeOK /\ RaceInv /\ StatusInv /\ FreshInv /\ [Next]_vars /\ [QuietMidnight]_vars
        => FreshInv'
  BY FreshStep
<1>3. TypeOK /\ RaceInv /\ StatusInv /\ FreshInv /\ [Next]_vars
        => [\A b \in BookingIds :
              b \in Stored /\ b \in Stored' /\ ReadStatus(b) = "completed"
                 => ReadStatus(b)' = "completed"]_vars
  BY CompletedStays
<1>. QED
  BY <1>1, <1>2, <1>3, StatusInvariant, RaceInvariant, TypeCorrect, PTL
  DEF Spec, CompletedIsFinal

-----------------------------------------------------------------------------
(***************************************************************************)
(* The lists and the calendar.                                             *)
(***************************************************************************)

\* What a list offers its reader, updateStatus never refuses as impossible.
THEOREM HintsNeverForbidden == Spec => []HintNeverForbidden
<1>1. TypeOK => HintNeverForbidden
  <2>. SUFFICES ASSUME TypeOK, NEW caller \in Users, NEW b \in Stored,
                       NEW status \in HintsByUser(caller, b) \cup HintsByHost(caller, b)
                PROVE  ~ Forbidden(ActorsOf(caller, bookings[b].user, OwnerOf(bookings[b])),
                                   status)
    BY DEF HintNeverForbidden
  <2>. DEFINE actors == ActorsOf(caller, bookings[b].user, OwnerOf(bookings[b]))
  <2>1. \E actor \in actors : status \in ListedChanges(b, actor)
    BY DEF HintsByUser, HintsByHost, ListActor, ActorsOf
  <2>2. PICK actor \in actors : status \in ListedChanges(b, actor)
    BY <2>1
  <2>3. actor \in BookingActor
    BY DEF ActorsOf, BookingActor
  <2>4. /\ ReadStatus(b) \in BookingStatus /\ appDay \in Nat
        /\ bookings[b].checkIn \in Nat /\ bookings[b].checkOut \in Nat
    <3>1. ReadStatus(b) \in BookingStatus /\ bookings[b] \in Row
      BY ReadRowType, StoredRow
    <3>. QED
      BY <3>1, DayAssumption DEF TypeOK, Days, Row
  <2>5. status \in TargetsForActor(actor)
    BY <2>2, <2>3, <2>4, AllowedIsNotForbidden DEF ListedChanges
  <2>. QED
    BY <2>2, <2>5 DEF Forbidden
<1>. QED
  BY <1>1, TypeCorrect, PTL

\* The two calendars are never more than a day apart.
SkewInv == dbDay <= appDay + 1 /\ appDay <= dbDay + 1

\* The clocks stay together: a midnight of one waits for the other.
LEMMA SkewInvariant == Spec => []SkewInv
<1>1. Init => SkewInv
  BY DEF Init, SkewInv
<1>2. TypeOK /\ SkewInv /\ [Next]_vars => SkewInv'
  <2>. SUFFICES ASSUME TypeOK, SkewInv, [Next]_vars PROVE SkewInv'
    OBVIOUS
  <2>1. CASE DbMidnight \/ AppMidnight
    BY <2>1, DayAssumption DEF DbMidnight, AppMidnight, TypeOK, Days, SkewInv
  <2>2. CASE UNCHANGED clocks
    BY <2>2 DEF clocks, SkewInv
  <2>. QED
    BY <2>1, <2>2 DEF Next, Progress, Create, CheckOverlap, Insert, FinishCreate, UpdateStatus,
       SelectBooking, CheckTransition, GuardedUpdate, FinishUpdate, ConnectionLost, Remove,
       RemoveSynthetic, Delete, vars, clocks
<1>. QED
  BY <1>1, <1>2, TypeCorrect, PTL DEF Spec

\* Every booking a create could collide with is in the calendar of its hotel: a
\* day of skew is just what the >= of the query and the > of the overlap allow.
THEOREM CalendarIsComplete == Spec => []CalendarComplete
<1>1. TypeOK /\ SkewInv => CalendarComplete
  <2>. SUFFICES ASSUME TypeOK, SkewInv, NEW dto \in CreateDtos, DatesAccepted(dto),
                       dto.checkIn.form # "basic", NEW b \in Stored,
                       OverlapsRange(bookings[b], dto.hotel, PgDate(dto.checkIn),
                                     PgDate(dto.checkOut))
                PROVE  b \in FindCurrentByHotel(dto.hotel)
    BY DEF CalendarComplete
  <2>1. /\ dto.checkIn.day \in Nat /\ appDay \in Nat /\ dbDay \in Nat
        /\ bookings[b].checkOut \in Nat
    BY StoredRow, DtoAssumption, DayAssumption DEF TypeOK, Days, Row, CreateDto, DateText
  <2>2. TextKey(dto.checkIn) <= 2 * dto.checkIn.day + 1
    BY <2>1 DEF TextKey
  <2>3. TextKey(dto.checkIn) >= 2 * appDay
    <3>1. TextKey(Today) = 2 * appDay
      BY <2>1 DEF TextKey, Today
    <3>2. TextKey(dto.checkIn) \in Nat
      BY <2>1 DEF TextKey
    <3>. QED
      BY <2>1, <3>1, <3>2 DEF DatesAccepted, TextBefore
  <2>4. dto.checkIn.day >= appDay
    <3>1. TextKey(dto.checkIn) \in Nat
      BY <2>1 DEF TextKey
    <3>. QED
      BY <2>1, <2>2, <2>3, <3>1
  <2>5. bookings[b].checkOut > dto.checkIn.day /\ bookings[b].hotel = dto.hotel
    BY DEF OverlapsRange, PgDate
  <2>. QED
    BY <2>1, <2>4, <2>5 DEF SkewInv, FindCurrentByHotel
<1>. QED
  BY <1>1, SkewInvariant, TypeCorrect, PTL

-----------------------------------------------------------------------------
(***************************************************************************)
(* Bookings implements BookingLifecycle.                                   *)
(***************************************************************************)

\* The rules the abstract specification uses are the same rules.
LEMMA SameRules ==
  ASSUME NEW caller, NEW user, NEW owner, NEW status, NEW checkIn, NEW checkOut, NEW day
  PROVE  Lifecycle!AllowedTo(Lifecycle!ActorsOf(caller, user, owner), status, checkIn,
                             checkOut, day)
           = AllowedTo(ActorsOf(caller, user, owner), status, checkIn, checkOut, day)
BY DEF Lifecycle!AllowedTo, Lifecycle!ActorsOf, Lifecycle!GetAllowedStatusChanges,
       Lifecycle!TableRow, Lifecycle!ALLOWED_TRANSITIONS, Lifecycle!BookingStatus,
       AllowedTo, ActorsOf, GetAllowedStatusChanges, TableRow, ALLOWED_TRANSITIONS,
       BookingStatus

\* The first states of the service are those of the lifecycle.
LEMMA LifecycleInit == Init => Lifecycle!Init
BY DEF Init, Lifecycle!Init, Stored

\* An INSERT books.
LEMMA InsertBooks ==
  ASSUME TypeOK, RaceInv, NEW r \in Requests, Insert(r)
  PROVE  Lifecycle!Next
<1>1. PICK b \in BookingIds \ issued :
        /\ bookings' = [bookings EXCEPT ![b] = NewRow(req[r].dto, "pending")]
        /\ issued' = issued \cup {b}
  BY DEF Insert
<1>2. req[r].dto \in CreateDtos
  BY PhaseRecord DEF Insert, Inserting
<1>. DEFINE row == NewRow(req[r].dto, "pending")
<1>3. row \in Row /\ row.status = "pending"
  BY <1>2, NewRowType DEF NewRow, BookingStatus
<1>4. row \in Lifecycle!Row
  BY <1>3 DEF Row, Lifecycle!Row, Days, Lifecycle!Days, BookingStatus, Lifecycle!BookingStatus
<1>5. bookings[b] = NoBooking
  BY <1>1 DEF RaceInv, IssuedOnly
<1>6. Stored' = Stored \cup {b}
  BY <1>1, <1>3, NoBookingAssumption DEF Stored, TypeOK
<1>7. issued' \ Stored' = issued \ Stored
  BY <1>1, <1>6
<1>8. appDay' = appDay
  BY DEF Insert, clocks
<1>9. Lifecycle!Book(b)
  BY <1>1, <1>3, <1>4, <1>5, <1>7, <1>8 DEF Lifecycle!Book
<1>. QED
  BY <1>9 DEF Lifecycle!Next

\* An UPDATE that finds its row makes a change the rules allow.
LEMMA UpdateChanges ==
  ASSUME TypeOK, NEW r \in Requests, NEW b \in Stored, Changes(r, b)
  PROVE  Lifecycle!Next
<1>1. req[r] \in Updating /\ b \in BookingIds /\ bookings[b] \in Row
  BY PhaseRecord, StoredRow DEF Changes, GuardedUpdate
<1>2. PICK day \in 0 .. appDay :
        AllowedOn(b, req[r].caller, bookings[b].status, req[r].status, day)
  BY DEF Changes
<1>3. req[r].caller \in Users /\ req[r].status \in Lifecycle!BookingStatus
  BY <1>1 DEF Updating, BookingStatus, Lifecycle!BookingStatus
<1>4. req[r].status \in Lifecycle!AllowedTo(
         Lifecycle!ActorsOf(req[r].caller, bookings[b].user, Owner[bookings[b].hotel]),
         bookings[b].status, bookings[b].checkIn, bookings[b].checkOut, day)
  BY <1>2, SameRules DEF AllowedOn, OwnerOf
<1>5. bookings' = [bookings EXCEPT ![b].status = req[r].status]
  BY DEF Changes
<1>6. [bookings[b] EXCEPT !.status = req[r].status] \in Row
  BY <1>1 DEF Row, Updating
<1>7. Stored' = Stored
  BY <1>1, <1>5, <1>6, NoBookingAssumption DEF Stored, TypeOK
<1>8. issued' \ Stored' = issued \ Stored /\ appDay' = appDay
  BY <1>7 DEF Changes, GuardedUpdate, clocks
<1>9. Lifecycle!ChangeStatus(b)
  BY <1>1, <1>2, <1>3, <1>4, <1>5, <1>8 DEF Lifecycle!ChangeStatus, Stored
<1>. QED
  BY <1>1, <1>9 DEF Lifecycle!Next

\* A DELETE removes.
LEMMA DeleteRemoves ==
  ASSUME TypeOK, RaceInv, NEW S \in SUBSET Stored, Delete(S)
  PROVE  Lifecycle!Next
<1>1. S \in SUBSET {b \in BookingIds : bookings[b] # NoBooking} /\ S \subseteq issued
  BY DEF Stored, RaceInv, IssuedOnly
<1>2. bookings' = [b \in BookingIds |-> IF b \in S THEN NoBooking ELSE bookings[b]]
  BY DEF Delete
<1>3. Stored' = Stored \ S
  BY <1>2 DEF Stored
<1>4. issued' = issued /\ appDay' = appDay
  BY DEF Delete, clocks
<1>5. issued' \ Stored' = (issued \ Stored) \cup S
  BY <1>1, <1>3, <1>4
<1>. QED
  BY <1>1, <1>2, <1>4, <1>5 DEF Lifecycle!Next, Lifecycle!RemoveSome

\* Every step is a step of the lifecycle or leaves it alone.
LEMMA LifecycleStep ==
  ASSUME TypeOK, RaceInv, StatusInv, [Next]_vars
  PROVE  [Lifecycle!Next]_(Lifecycle!vars)
<1>1. CASE \E r \in Requests : Insert(r)
  BY <1>1, InsertBooks
<1>2. ASSUME NEW r \in Requests, GuardedUpdate(r) PROVE [Lifecycle!Next]_(Lifecycle!vars)
  <2>1. CASE Changes(r, req[r].id)
    <3>1. req[r].id \in Stored
      BY <2>1 DEF Changes
    <3>. QED
      BY <2>1, <3>1, UpdateChanges
  <2>2. CASE UNCHANGED bookings
    BY <1>2, <2>2 DEF GuardedUpdate, clocks, Lifecycle!vars, Stored
  <2>. QED
    BY <1>2, <2>1, <2>2, UpdateEffect
<1>3. CASE (\E b \in BookingIds : Remove(b)) \/ RemoveSynthetic
  <2>1. PICK S \in SUBSET Stored : Delete(S)
    BY <1>3 DEF Remove, RemoveSynthetic
  <2>. QED
    BY <2>1, DeleteRemoves
<1>4. CASE AppMidnight
  BY <1>4 DEF AppMidnight, db, Lifecycle!Next, Lifecycle!DayPasses, Stored
<1>5. CASE UNCHANGED <<bookings, issued, appDay>>
  BY <1>5 DEF Lifecycle!vars, Stored
<1>. QED
  BY <1>1, <1>2, <1>3, <1>4, <1>5 DEF Next, Progress, Create, CheckOverlap, FinishCreate,
     UpdateStatus, SelectBooking, CheckTransition, FinishUpdate, ConnectionLost, DbMidnight,
     vars, db, clocks

\* However requests, deletions, midnights and failures interleave, every booking
\* follows its lifecycle.
THEOREM BookingsImplementLifecycle == Spec => ImplementsLifecycle
<1>1. TypeOK /\ RaceInv /\ StatusInv /\ [Next]_vars => [Lifecycle!Next]_(Lifecycle!vars)
  BY LifecycleStep
<1>. QED
  BY <1>1, LifecycleInit, StatusInvariant, RaceInvariant, TypeCorrect, PTL
  DEF Spec, ImplementsLifecycle, Lifecycle!Spec

-----------------------------------------------------------------------------
(***************************************************************************)
(* What BookingJobs takes for granted of the table: its Insert,            *)
(* ChangeStatus and Remove are all that happens to a row.                  *)
(***************************************************************************)

\* A row as BookingJobs sees it.
RowOf(b) ==
    IF b \notin issued THEN "absent" ELSE IF b \in Stored THEN bookings[b].status ELSE "deleted"

RowMoves(b) ==
    \/ RowOf(b)' = RowOf(b)
    \/ RowOf(b) = "absent" /\ RowOf(b)' = "pending"
    \/ RowOf(b) \in BookingStatus /\ \E actor \in BookingActor : RowOf(b)' \in TableRow(actor, RowOf(b))
    \/ RowOf(b) \in BookingStatus /\ RowOf(b)' = "deleted"

\* A booking is stored as pending, and an id is issued with its row.
LEMMA NewRows ==
  ASSUME TypeOK, RaceInv, [Next]_vars, NEW b \in BookingIds
  PROVE  /\ b \in Stored' /\ b \notin Stored
              => b \notin issued /\ b \in issued' /\ bookings'[b].status = "pending"
         /\ b \in issued' /\ b \notin issued => b \in Stored'
<1>1. b \in Stored' /\ b \notin Stored => b \notin issued
  BY StepFrame DEF SameStay
<1>2. CASE \E r \in Requests : Insert(r)
  <2>1. PICK r \in Requests, c \in BookingIds \ issued :
          /\ InPhase(r, "insert")
          /\ bookings' = [bookings EXCEPT ![c] = NewRow(req[r].dto, "pending")]
          /\ issued' = issued \cup {c}
    BY <1>2 DEF Insert
  <2>2. req[r].dto \in CreateDtos
    BY <2>1, PhaseRecord DEF Inserting
  <2>3. NewRow(req[r].dto, "pending") \in Row
    BY <2>2, NewRowType DEF BookingStatus
  <2>4. /\ bookings'[c] = NewRow(req[r].dto, "pending") /\ bookings'[c] # NoBooking
        /\ \A a \in BookingIds : a # c => bookings'[a] = bookings[a]
    BY <2>1, <2>3, NoBookingAssumption DEF TypeOK
  <2>5. bookings'[c].status = "pending"
    BY <2>4 DEF NewRow
  <2>. QED
    BY <1>1, <2>1, <2>4, <2>5 DEF Stored
<1>3. CASE ~ \E r \in Requests : Insert(r)
  BY <1>1, <1>3, StaysKept DEF SameStay
<1>. QED
  BY <1>2, <1>3

\* The two models fit: every step of the service moves each row as the jobs expect.
THEOREM RowsMoveAsJobsExpect ==
  Spec => [](\A b \in BookingIds : RowOf(b) \in BookingStatus \cup {"absent", "deleted"})
            /\ [][\A b \in BookingIds : RowMoves(b)]_vars
<1>1. TypeOK => \A b \in BookingIds : RowOf(b) \in BookingStatus \cup {"absent", "deleted"}
  BY StoredRow DEF RowOf, Row
<1>2. TypeOK /\ RaceInv /\ StatusInv /\ [Next]_vars => [\A b \in BookingIds : RowMoves(b)]_vars
  <2>. SUFFICES ASSUME TypeOK, RaceInv, StatusInv, [Next]_vars, NEW b \in BookingIds
       PROVE  RowMoves(b)
    OBVIOUS
  <2>1. b \in Stored => b \in issued /\ RowOf(b) = bookings[b].status /\ RowOf(b) \in BookingStatus
    BY StoredRow DEF RaceInv, IssuedOnly, Stored, RowOf, Row
  <2>2. b \in issued => b \in issued'
    BY StepFrame
  <2>3. CASE b \in Stored /\ b \in Stored'
    <3>1. RowOf(b)' = bookings'[b].status
      BY <2>1, <2>2, <2>3 DEF RowOf
    <3>2. CASE bookings'[b] = bookings[b]
      BY <2>1, <2>3, <3>1, <3>2 DEF RowMoves
    <3>3. CASE bookings'[b] # bookings[b]
      <4>1. PICK r \in Requests : Changes(r, b)
        BY <2>3, <3>3, RowChange
      <4>2. bookings'[b].status = req[r].status
        BY <2>3, <4>1, StoredRow DEF Changes, TypeOK, Row
      <4>3. \E actor \in BookingActor : req[r].status \in TableRow(actor, bookings[b].status)
        BY <2>3, <4>1, PermittedChange DEF BookingActor
      <4>. QED
        BY <2>1, <2>3, <3>1, <4>2, <4>3 DEF RowMoves
    <3>. QED
      BY <3>2, <3>3
  <2>4. CASE b \in Stored /\ b \notin Stored'
    BY <2>1, <2>2, <2>4 DEF RowMoves, RowOf
  <2>5. CASE b \notin Stored /\ b \in Stored'
    BY <2>5, NewRows DEF RowMoves, RowOf
  <2>6. CASE b \notin Stored /\ b \notin Stored'
    BY <2>2, <2>6, NewRows DEF RowMoves, RowOf
  <2>. QED
    BY <2>3, <2>4, <2>5, <2>6
<1>. QED
  BY <1>1, <1>2, StatusInvariant, RaceInvariant, TypeCorrect, PTL DEF Spec
=============================================================================
