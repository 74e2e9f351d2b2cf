-------------------------- MODULE Bookings_proofs --------------------------
(***************************************************************************)
(* Proofs about Bookings, for any users, hotels, owners, number of         *)
(* requests in flight, create requests and calendar.                       *)
(***************************************************************************)
EXTENDS Bookings, TLAPS

(***************************************************************************)
(* The status rules, for every booking and every day                       *)
(***************************************************************************)

\* The status a read returns is a status.
LEMMA EffectiveStatusType ==
  ASSUME NEW status \in BookingStatus, NEW checkOut \in Nat, NEW day \in Nat
  PROVE  EffectiveStatus(status, checkOut, day) \in BookingStatus
BY DEF EffectiveStatus, BookingStatus

\* What may be set now is in the table: getAllowedStatusChanges only drops
\* entries, it never adds one.
LEMMA AllowedIsInTable ==
  ASSUME NEW actor \in BookingActor, NEW status \in BookingStatus,
         NEW checkIn \in Nat, NEW checkOut \in Nat, NEW today \in Nat
  PROVE  GetAllowedStatusChanges(actor, status, checkIn, checkOut, today)
           \subseteq TableRow(actor, status)
BY DEF GetAllowedStatusChanges, TableRow, ALLOWED_TRANSITIONS, BookingStatus, BookingActor

\* The 409 check of updateStatus is never the one to meet a status that the 403
\* check would have refused: whoever may make a change now is not forbidden it.
THEOREM AllowedIsNotForbidden ==
  ASSUME NEW actor \in BookingActor, NEW status \in BookingStatus,
         NEW checkIn \in Nat, NEW checkOut \in Nat, NEW today \in Nat,
         NEW to \in GetAllowedStatusChanges(actor, status, checkIn, checkOut, today)
  PROVE  to \in TargetsForActor(actor)
<1>1. to \in TableRow(actor, status)
  BY AllowedIsInTable
<1>. QED
  BY <1>1 DEF TargetsForActor

\* no_show is offered, or accepted, only from the check-in day on.
LEMMA NoShowNeedsCheckIn ==
  ASSUME NEW actor \in BookingActor, NEW status \in BookingStatus,
         NEW checkIn \in Nat, NEW checkOut \in Nat, NEW today \in Nat,
         "no_show" \in GetAllowedStatusChanges(actor, status, checkIn, checkOut, today)
  PROVE  checkIn <= today
BY DEF GetAllowedStatusChanges, TableRow, ALLOWED_TRANSITIONS, BookingStatus, BookingActor

\* What the code offers is what docs/guides/booking-status.md describes, except
\* that a host cannot cancel a confirmed booking from its check-in day on.
THEOREM GuideDivergence ==
  ASSUME NEW actor \in BookingActor, NEW status \in BookingStatus,
         NEW checkIn \in Nat, NEW checkOut \in Nat, NEW today \in Nat
  PROVE  GetAllowedStatusChanges(actor, status, checkIn, checkOut, today)
           = GuideAllows(actor, status, checkIn, checkOut, today)
             \ (IF actor = "host" /\ status = "confirmed" /\ checkIn <= today
                  THEN {"cancelled"} ELSE {})
<1>1. CASE checkOut < today
  BY <1>1 DEF GetAllowedStatusChanges, GuideAllows
<1>2. CASE ~ (checkOut < today) /\ actor = "host" /\ status = "confirmed"
  BY <1>2 DEF GetAllowedStatusChanges, GuideAllows, TableRow, ALLOWED_TRANSITIONS, BookingStatus
<1>3. CASE ~ (checkOut < today) /\ ~ (actor = "host" /\ status = "confirmed")
  BY <1>3 DEF GetAllowedStatusChanges, GuideAllows, TableRow, ALLOWED_TRANSITIONS,
              BookingStatus, BookingActor
<1>. QED
  BY <1>1, <1>2, <1>3

-----------------------------------------------------------------------------
(***************************************************************************)
(* The service                                                             *)
(***************************************************************************)

\* A request in flight is of the record type of its phase.
LEMMA PhaseRecord ==
  ASSUME TypeOK, NEW r \in Requests
  PROVE  /\ InPhase(r, "overlap") => req[r] \in Overlap
         /\ InPhase(r, "insert") => req[r] \in Inserting
         /\ InPhase(r, "created") => req[r] \in Created
         /\ InPhase(r, "select") => req[r] \in Select
         /\ InPhase(r, "check") => req[r] \in Check
         /\ InPhase(r, "update") => req[r] \in Updating
         /\ InPhase(r, "updated") => req[r] \in Updated
<1>. SUFFICES ASSUME req[r] # Idle
              PROVE  /\ req[r].phase = "overlap" => req[r] \in Overlap
                     /\ req[r].phase = "insert" => req[r] \in Inserting
                     /\ req[r].phase = "created" => req[r] \in Created
                     /\ req[r].phase = "select" => req[r] \in Select
                     /\ req[r].phase = "check" => req[r] \in Check
                     /\ req[r].phase = "update" => req[r] \in Updating
                     /\ req[r].phase = "updated" => req[r] \in Updated
  BY DEF InPhase
<1>. DEFINE q == req[r]
<1>1. q \in Request
  BY DEF TypeOK
<1>2. /\ q \in Overlap => q.phase = "overlap"
      /\ q \in Inserting => q.phase = "insert"
      /\ q \in Created => q.phase = "created"
      /\ q \in Select => q.phase = "select"
      /\ q \in Check => q.phase = "check"
      /\ q \in Updating => q.phase = "update"
      /\ q \in Updated => q.phase = "updated"
  BY DEF Overlap, Inserting, Created, Select, Check, Updating, Updated
<1>. QED
  BY <1>1, <1>2 DEF Request

\* A statement that has run moves its own request on, or frees the slot it was left in.
LEMMA RanMoves ==
  ASSUME TypeOK, NEW r \in Requests, NEW state, Ran(r, state)
  PROVE  /\ req'[r] \in {Idle, state} /\ (state = Idle => req' = [req EXCEPT ![r] = Idle])
         /\ \A s \in Requests : s # r => req'[s] = req[s]
         /\ late' \subseteq Requests
         /\ state \in Request \cup {Idle} => req' \in [Requests -> Request \cup {Idle}]
BY DEF Ran, Goto, TypeOK

\* The row an INSERT stores is a row.
LEMMA NewRowType ==
  ASSUME NEW dto \in CreateDtos, NEW status \in BookingStatus
  PROVE  NewRow(dto, status) \in Row
<1>1. dto \in CreateDto
  BY DtoAssumption
<1>. QED
  BY <1>1 DEF NewRow, Row, CreateDto, DateText, PgDate

\* A stored booking has a row.
LEMMA StoredRow ==
  ASSUME TypeOK, NEW b \in Stored
  PROVE  b \in BookingIds /\ bookings[b] \in Row
BY DEF TypeOK, Stored

\* The copy that SelectBooking makes is a row with a status.
LEMMA ReadRowType ==
  ASSUME TypeOK, NEW b \in Stored
  PROVE  /\ ReadStatus(b) \in BookingStatus
         /\ [bookings[b] EXCEPT !.status = ReadStatus(b)] \in Row
<1>1. bookings[b] \in Row /\ b \in BookingIds
  BY StoredRow
<1>2. bookings[b].status \in BookingStatus
  BY <1>1 DEF Row
<1>3. ReadStatus(b) \in BookingStatus
  BY <1>2 DEF ReadStatus, EffectiveStatus, BookingStatus
<1>. QED
  BY <1>1, <1>3 DEF Row

\* The initial state is well typed.
LEMMA TypeInit == Init => TypeOK
BY DayAssumption DEF Init, TypeOK, Days

\* So is the state after any step.
LEMMA TypeStep == TypeOK /\ [Next]_vars => TypeOK'
<1>. SUFFICES ASSUME TypeOK, [Next]_vars PROVE TypeOK'
  OBVIOUS
<1>. USE DEF db, clocks, effects, Goto
<1>1. ASSUME NEW r \in Requests, Create(r) PROVE TypeOK'
  <2>1. PICK dto \in CreateDtos : Goto(r, [phase |-> "overlap", dto |-> dto])
    BY <1>1 DEF Create
  <2>2. [phase |-> "overlap", dto |-> dto] \in Request
    BY DEF Request, Overlap
  <2>. QED
    BY <1>1, <2>1, <2>2 DEF Create, TypeOK
<1>2. ASSUME NEW r \in Requests, CheckOverlap(r) PROVE TypeOK'
  <2>1. req[r] \in Overlap
    BY <1>2, PhaseRecord DEF CheckOverlap
  <2>. DEFINE stored == {b \in Stored : bookings[b].hotel = req[r].dto.hotel}
              next == [phase |-> "insert", dto |-> req[r].dto, seen |-> stored]
  <2>2. stored \subseteq BookingIds
    BY DEF Stored
  <2>3. next \in Request
    BY <2>1, <2>2 DEF Request, Inserting, Overlap
  <2>4. req' = [req EXCEPT ![r] = Idle] \/ req' = [req EXCEPT ![r] = next]
    BY <1>2 DEF CheckOverlap
  <2>. QED
    BY <1>2, <2>3, <2>4 DEF CheckOverlap, TypeOK
<1>3. ASSUME NEW r \in Requests, Insert(r) PROVE TypeOK'
  <2>1. req[r] \in Inserting
    BY <1>3, PhaseRecord DEF Insert
  <2>2. PICK b \in BookingIds \ issued :
          /\ bookings' = [bookings EXCEPT ![b] = NewRow(req[r].dto, "pending")]
          /\ issued' = issued \cup {b}
          /\ seen' = [seen EXCEPT ![b] = req[r].seen]
          /\ Ran(r, [phase |-> "created", id |-> b])
    BY <1>3 DEF Insert
  <2>3. NewRow(req[r].dto, "pending") \in Row
    BY <2>1, NewRowType DEF Inserting, BookingStatus
  <2>4. req[r].seen \in SUBSET BookingIds
    BY <2>1 DEF Inserting
  <2>5. [phase |-> "created", id |-> b] \in Request
    BY DEF Request, Created
  <2>6. req' \in [Requests -> Request \cup {Idle}] /\ late' \subseteq Requests
    BY <2>2, <2>5, RanMoves
  <2>. QED
    BY <1>3, <2>2, <2>3, <2>4, <2>6 DEF Insert, TypeOK
<1>4. ASSUME NEW r \in Requests, FinishCreate(r) PROVE TypeOK'
  <2>1. req[r] \in Created
    BY <1>4, PhaseRecord DEF FinishCreate
  <2>. QED
    BY <1>4, <2>1 DEF FinishCreate, TypeOK, Created
<1>5. ASSUME NEW r \in Requests, UpdateStatus(r) PROVE TypeOK'
  <2>1. PICK ask \in Asks, b \in BookingIds :
          req' = [req EXCEPT ![r] = [phase |-> "select", caller |-> ask[1],
                                     id |-> b, status |-> ask[2]]]
    BY <1>5 DEF UpdateStatus
  <2>2. [phase |-> "select", caller |-> ask[1], id |-> b, status |-> ask[2]] \in Request
    BY AskAssumption DEF Request, Select
  <2>. QED
    BY <1>5, <2>1, <2>2 DEF UpdateStatus, TypeOK
<1>6. ASSUME NEW r \in Requests, SelectBooking(r) PROVE TypeOK'
  <2>1. req[r] \in Select
    BY <1>6, PhaseRecord DEF SelectBooking
  <2>. DEFINE copy == IF req[r].id \in Stored
                        THEN [bookings[req[r].id] EXCEPT !.status = ReadStatus(req[r].id)]
                        ELSE NoBooking
              next == [phase |-> "check", caller |-> req[r].caller, id |-> req[r].id,
                       status |-> req[r].status, existing |-> copy]
  <2>2. copy \in Row \cup {NoBooking}
    BY ReadRowType
  <2>3. next \in Check
    BY <2>1, <2>2 DEF Select, Check
  <2>4. next \in Request
    BY <2>3 DEF Request
  <2>5. req' = [req EXCEPT ![r] = next]
    BY <1>6 DEF SelectBooking
  <2>. QED
    BY <1>6, <2>4, <2>5 DEF SelectBooking, TypeOK
<1>7. ASSUME NEW r \in Requests, CheckTransition(r) PROVE TypeOK'
  <2>1. req[r] \in Check
    BY <1>7, PhaseRecord DEF CheckTransition
  <2>. DEFINE next == [phase |-> "update", caller |-> req[r].caller, id |-> req[r].id,
                       status |-> req[r].status, from |-> req[r].existing.status]
  <2>2. CASE Accepted(req[r])
    <3>1. req[r].existing \in Row
      BY <2>1, <2>2 DEF Accepted, Check
    <3>2. next \in Request
      BY <2>1, <3>1 DEF Request, Updating, Check, Row
    <3>. QED
      BY <1>7, <2>2, <3>2 DEF CheckTransition, SendUpdate, TypeOK
  <2>3. CASE ~ Accepted(req[r])
    BY <1>7, <2>3 DEF CheckTransition, TypeOK
  <2>. QED
    BY <2>2, <2>3
<1>8. ASSUME NEW r \in Requests, GuardedUpdate(r) PROVE TypeOK'
  <2>1. req[r] \in Updating
    BY <1>8, PhaseRecord DEF GuardedUpdate
  <2>2. CASE SetStatus(r) /\ req[r].id \in Stored
    <3>1. bookings[req[r].id] \in Row
      BY <2>2, StoredRow
    <3>2. [bookings[req[r].id] EXCEPT !.status = req[r].status] \in Row
      BY <2>1, <3>1 DEF Row, Updating
    <3>3. bookings' = [bookings EXCEPT ![req[r].id] =
                         [bookings[req[r].id] EXCEPT !.status = req[r].status]]
      BY <2>2 DEF SetStatus
    <3>4. [phase |-> "updated", id |-> req[r].id, status |-> req[r].status] \in Request
      BY <2>1 DEF Updating, Updated, Request
    <3>5. req' \in [Requests -> Request \cup {Idle}] /\ late' \subseteq Requests
      BY <2>2, <3>4, RanMoves DEF SetStatus
    <3>. QED
      BY <1>8, <3>2, <3>3, <3>5 DEF GuardedUpdate, TypeOK
  <2>3. CASE Ran(r, Idle) /\ UNCHANGED bookings
    <3>1. req' \in [Requests -> Request \cup {Idle}] /\ late' \subseteq Requests
      BY <2>3, RanMoves
    <3>. QED
      BY <1>8, <2>3, <3>1 DEF GuardedUpdate, TypeOK
  <2>. QED
    BY <1>8, <2>2, <2>3 DEF GuardedUpdate
<1>9. ASSUME NEW r \in Requests, FinishUpdate(r) PROVE TypeOK'
  <2>1. req[r] \in Updated
    BY <1>9, PhaseRecord DEF FinishUpdate
  <2>2. pushes[req[r].id] + 1 \in Nat
    BY <2>1 DEF TypeOK, Updated
  <2>. QED
    BY <1>9, <2>2 DEF FinishUpdate, TypeOK
<1>10. ASSUME NEW r \in Requests, ConnectionLost(r) PROVE TypeOK'
  BY <1>10 DEF ConnectionLost, TypeOK
<1>11. ASSUME NEW S, Delete(S) PROVE TypeOK'
  BY <1>11 DEF Delete, TypeOK
<1>12. ASSUME DbMidnight \/ AppMidnight PROVE TypeOK'
  BY <1>12, DayAssumption DEF DbMidnight, AppMidnight, TypeOK, Days
<1>13. ASSUME UNCHANGED vars PROVE TypeOK'
  BY <1>13 DEF vars, TypeOK
<1>. QED
  BY <1>1, <1>2, <1>3, <1>4, <1>5, <1>6, <1>7, <1>8, <1>9, <1>10, <1>11, <1>12, <1>13
  DEF Next, Progress, Remove, RemoveSynthetic

\* Every reachable state is well typed.
THEOREM TypeCorrect == Spec => []TypeOK
<1>. QED
  BY TypeInit, TypeStep, PTL DEF Spec

-----------------------------------------------------------------------------
\* A step moves one request at most, by one of that request's own actions.
LEMMA OneRequestMoves ==
  ASSUME TypeOK, [Next]_vars, NEW s \in Requests, req'[s] # req[s]
  PROVE  Create(s) \/ UpdateStatus(s) \/ Progress(s) \/ ConnectionLost(s)
<1>1. ASSUME NEW r \in Requests, NEW state, Goto(r, state) PROVE r = s
  BY <1>1 DEF Goto, TypeOK
<1>2. ASSUME NEW r \in Requests, Create(r) PROVE r = s
  <2>1. PICK dto \in CreateDtos : Goto(r, [phase |-> "overlap", dto |-> dto])
    BY <1>2 DEF Create
  <2>. QED
    BY <1>1, <2>1
<1>3. ASSUME NEW r \in Requests, UpdateStatus(r) PROVE r = s
  <2>1. PICK ask \in Asks, b \in BookingIds :
          Goto(r, [phase |-> "select", caller |-> ask[1], id |-> b, status |-> ask[2]])
    BY <1>3 DEF UpdateStatus
  <2>. QED
    BY <1>1, <2>1
<1>4. ASSUME NEW r \in Requests, Progress(r) PROVE r = s
  <2>1. PICK state : Goto(r, state)
    BY <1>4 DEF Progress, CheckOverlap, Insert, FinishCreate, SelectBooking, CheckTransition,
       SendUpdate, GuardedUpdate, SetStatus, FinishUpdate, Ran
  <2>. QED
    BY <1>1, <2>1
<1>5. ASSUME NEW r \in Requests, ConnectionLost(r) PROVE r = s
  BY <1>1, <1>5 DEF ConnectionLost
<1>6. \E r \in Requests : Create(r) \/ UpdateStatus(r) \/ Progress(r) \/ ConnectionLost(r)
  BY DEF Next, Remove, RemoveSynthetic, Delete, DbMidnight, AppMidnight, vars
<1>. QED
  BY <1>2, <1>3, <1>4, <1>5, <1>6

\* The action that brings a request into each of the phases that carry a result.
LEMMA EnterPhase ==
  ASSUME TypeOK, [Next]_vars, NEW s \in Requests, req'[s] # req[s]
  PROVE  /\ InPhase(s, "insert")' => CheckOverlap(s)
         /\ InPhase(s, "check")' => SelectBooking(s)
         /\ InPhase(s, "update")' => CheckTransition(s)
         /\ InPhase(s, "updated")' => GuardedUpdate(s)
<1>1. Create(s) => req'[s].phase = "overlap"
  BY DEF Create, Goto, TypeOK
<1>2. UpdateStatus(s) => req'[s].phase = "select"
  BY DEF UpdateStatus, Goto, TypeOK
<1>3. Insert(s) => req'[s] = Idle \/ req'[s].phase = "created"
  BY RanMoves DEF Insert
<1>4. CheckOverlap(s) => req'[s] = Idle \/ req'[s].phase = "insert"
  BY DEF CheckOverlap, Goto, TypeOK
<1>5. SelectBooking(s) => req'[s].phase = "check"
  BY DEF SelectBooking, Goto, TypeOK
<1>6. CheckTransition(s) => req'[s] = Idle \/ req'[s].phase = "update"
  BY DEF CheckTransition, SendUpdate, Goto, TypeOK
<1>7. GuardedUpdate(s) => req'[s] = Idle \/ req'[s].phase = "updated"
  BY RanMoves DEF GuardedUpdate, SetStatus
<1>8. FinishCreate(s) \/ FinishUpdate(s) \/ ConnectionLost(s) => req'[s] = Idle
  BY DEF FinishCreate, FinishUpdate, ConnectionLost, Goto, TypeOK
<1>. QED
  BY <1>1, <1>2, <1>3, <1>4, <1>5, <1>6, <1>7, <1>8, OneRequestMoves DEF Progress, InPhase

-----------------------------------------------------------------------------
(***************************************************************************)
(* Double booking.  A booking's hotel and dates never change and its id is *)
(* never used again, so what the overlap query found free of overlap stays *)
(* free of overlap with the rows it saw.                                   *)
(***************************************************************************)

\* Row b is one of the rows before the step, its status apart.
SameStay(b) ==
    /\ b \in Stored
    /\ bookings'[b].user = bookings[b].user
    /\ bookings'[b].hotel = bookings[b].hotel
    /\ bookings'[b].checkIn = bookings[b].checkIn
    /\ bookings'[b].checkOut = bookings[b].checkOut

\* A step that is not an INSERT stores nothing new and moves no stay.
LEMMA StaysKept ==
  ASSUME TypeOK, [Next]_vars, ~ \E r \in Requests : Insert(r)
  PROVE  /\ \A b \in Stored' : SameStay(b)
         /\ issued' = issued /\ seen' = seen
<1>. USE DEF db, clocks, effects
<1>1. CASE \E r \in Requests : GuardedUpdate(r)
  <2>1. PICK r \in Requests : GuardedUpdate(r)
    BY <1>1
  <2>2. CASE SetStatus(r) /\ req[r].id \in Stored
    <3>1. bookings[req[r].id] \in Row
      BY <2>2, StoredRow
    <3>2. bookings' = [bookings EXCEPT ![req[r].id] =
                         [bookings[req[r].id] EXCEPT !.status = req[r].status]]
      BY <2>2 DEF SetStatus
    <3>3. \A b \in BookingIds : b # req[r].id => bookings'[b] = bookings[b]
      BY <3>2 DEF TypeOK
    <3>4. /\ bookings'[req[r].id].user = bookings[req[r].id].user
          /\ bookings'[req[r].id].hotel = bookings[req[r].id].hotel
          /\ bookings'[req[r].id].checkIn = bookings[req[r].id].checkIn
          /\ bookings'[req[r].id].checkOut = bookings[req[r].id].checkOut
      BY <2>2, <3>1, <3>2 DEF TypeOK, Row, Stored
    <3>. QED
      BY <2>1, <2>2, <3>3, <3>4 DEF SameStay, Stored, GuardedUpdate
  <2>3. CASE UNCHANGED bookings
    BY <2>1, <2>3 DEF GuardedUpdate, SameStay, Stored
  <2>. QED
    BY <2>1, <2>2, <2>3 DEF GuardedUpdate
<1>2. ASSUME NEW S, Delete(S)
      PROVE  (\A b \in Stored' : SameStay(b)) /\ issued' = issued /\ seen' = seen
  BY <1>2 DEF Delete, SameStay, Stored
<1>3. CASE UNCHANGED <<bookings, issued, seen>>
  BY <1>3 DEF SameStay, Stored
<1>. QED
  BY <1>1, <1>2, <1>3 DEF Next, Progress, Create, CheckOverlap, FinishCreate, UpdateStatus,
     SelectBooking, CheckTransition, FinishUpdate, ConnectionLost, Remove, RemoveSynthetic,
     DbMidnight, AppMidnight, vars

\* Two stays overlap both ways or not at all.
LEMMA OverlapsSymmetric ==
  ASSUME NEW a \in Row, NEW b \in Row
  PROVE  OverlapsRange(a, b.hotel, b.checkIn, b.checkOut)
           <=> OverlapsRange(b, a.hotel, a.checkIn, a.checkOut)
BY DayAssumption DEF OverlapsRange, Row, Days

\* Only ids that were issued are stored, or were seen by a create.
IssuedOnly ==
    \A b \in BookingIds : /\ b \notin issued => bookings[b] = NoBooking
                          /\ seen[b] \subseteq issued

\* What a create about to insert has seen does not overlap its stay.
NoOverlapSeen(r) ==
    \A a \in req[r].seen :
       /\ a \in issued
       /\ a \in Stored => ~ OverlapsRange(bookings[a], req[r].dto.hotel,
                               PgDate(req[r].dto.checkIn), PgDate(req[r].dto.checkOut))

RaceInv ==
    /\ IssuedOnly
    /\ \A r \in Requests : InPhase(r, "insert") => NoOverlapSeen(r)
    /\ OverlapOnlyByRace

\* No booking has been seen or stored at first.
LEMMA RaceInit == Init => RaceInv
BY DEF Init, RaceInv, IssuedOnly, InPhase, OverlapOnlyByRace, Overlapping, Stored

\* A stay that is kept overlaps what it overlapped before.
LEMMA OverlapKept ==
  ASSUME NEW b, SameStay(b), NEW hotel, NEW checkIn, NEW checkOut
  PROVE  OverlapsRange(bookings'[b], hotel, checkIn, checkOut)
           <=> OverlapsRange(bookings[b], hotel, checkIn, checkOut)
BY DEF SameStay, OverlapsRange

\* The step of the INSERT: the new booking overlaps none that its create saw,
\* and no earlier create saw the new booking.
LEMMA RaceInsert ==
  ASSUME TypeOK, RaceInv, NEW r \in Requests, Insert(r)
  PROVE  RaceInv'
<1>1. req[r] \in Inserting
  BY PhaseRecord DEF Insert
<1>2. PICK b \in BookingIds \ issued :
        /\ bookings' = [bookings EXCEPT ![b] = NewRow(req[r].dto, "pending")]
        /\ issued' = issued \cup {b}
        /\ seen' = [seen EXCEPT ![b] = req[r].seen]
        /\ Ran(r, [phase |-> "created", id |-> b])
  BY DEF Insert
<1>. DEFINE new == NewRow(req[r].dto, "pending")
<1>3. new \in Row
  BY <1>1, NewRowType DEF Inserting, BookingStatus
<1>4. /\ bookings'[b] = new /\ seen'[b] = req[r].seen
      /\ \A a \in BookingIds : a # b => bookings'[a] = bookings[a] /\ seen'[a] = seen[a]
  BY <1>2 DEF TypeOK
<1>5. Stored' = Stored \cup {b} /\ b \notin Stored
  BY <1>2, <1>3, <1>4, NoBookingAssumption DEF Stored, RaceInv, IssuedOnly
<1>6. NoOverlapSeen(r)
  BY DEF RaceInv, Insert
<1>7. b \notin req[r].seen /\ req[r].seen \subseteq issued
  BY <1>2, <1>6 DEF NoOverlapSeen
<1>8. IssuedOnly'
  BY <1>2, <1>4, <1>7 DEF RaceInv, IssuedOnly
<1>9. ASSUME NEW s \in Requests, InPhase(s, "insert")' PROVE NoOverlapSeen(s)'
  <2>1. s # r /\ req'[s] = req[s] /\ InPhase(s, "insert")
    BY <1>2, <1>9, RanMoves DEF InPhase
  <2>2. NoOverlapSeen(s)
    BY <2>1 DEF RaceInv
  <2>. QED
    BY <1>2, <1>4, <1>5, <2>1, <2>2 DEF NoOverlapSeen, Stored
<1>10. ASSUME NEW a \in Stored, OverlapsRange(bookings[a], new.hotel, new.checkIn, new.checkOut)
       PROVE  a \notin req[r].seen
  BY <1>6, <1>10 DEF NoOverlapSeen, NewRow
<1>11. ASSUME NEW a \in BookingIds, Overlapping(a, b)' PROVE a \notin seen'[b] /\ b \notin seen'[a]
  <2>1. a # b /\ a \in Stored /\ bookings'[a] = bookings[a] /\ seen'[a] = seen[a]
    BY <1>4, <1>5, <1>11 DEF Overlapping
  <2>2. a \notin req[r].seen
    BY <1>4, <1>10, <1>11, <2>1 DEF Overlapping
  <2>3. b \notin seen[a]
    BY <1>2 DEF RaceInv, IssuedOnly
  <2>. QED
    BY <1>4, <2>1, <2>2, <2>3
<1>12. ASSUME NEW a \in BookingIds, Overlapping(b, a)' PROVE Overlapping(a, b)'
  <2>1. a \in Stored' /\ a # b /\ bookings'[a] \in Row
    BY <1>4, <1>5, <1>12, StoredRow DEF Overlapping
  <2>. QED
    BY <1>3, <1>4, <1>5, <1>12, <2>1, OverlapsSymmetric DEF Overlapping
<1>13. ASSUME NEW a \in BookingIds, NEW c \in BookingIds, a # b, c # b, Overlapping(a, c)'
       PROVE  Overlapping(a, c) /\ seen'[a] = seen[a] /\ seen'[c] = seen[c]
  BY <1>4, <1>5, <1>13 DEF Overlapping
<1>14. OverlapOnlyByRace'
  BY <1>11, <1>12, <1>13 DEF OverlapOnlyByRace, RaceInv
<1>. QED
  BY <1>8, <1>9, <1>14 DEF RaceInv

\* Every other step keeps the stays, and a create that goes on to its INSERT has
\* just found no overlap among all that is stored.
LEMMA RaceStep == TypeOK /\ RaceInv /\ [Next]_vars => RaceInv'
<1>. SUFFICES ASSUME TypeOK, RaceInv, [Next]_vars, ~ \E r \in Requests : Insert(r)
              PROVE  RaceInv'
  BY RaceInsert
<1>1. (\A b \in Stored' : SameStay(b)) /\ issued' = issued /\ seen' = seen
  BY StaysKept
<1>2. IssuedOnly'
  BY <1>1 DEF RaceInv, IssuedOnly, Stored, SameStay
<1>3. ASSUME NEW a \in BookingIds, NEW b \in BookingIds, Overlapping(a, b)'
      PROVE  Overlapping(a, b)
  BY <1>1, <1>3, OverlapKept DEF Overlapping, SameStay
<1>4. OverlapOnlyByRace'
  BY <1>1, <1>3 DEF OverlapOnlyByRace, RaceInv
<1>5. ASSUME NEW s \in Requests, InPhase(s, "insert")' PROVE NoOverlapSeen(s)'
  <2>1. CASE req'[s] = req[s]
    <3>1. InPhase(s, "insert") /\ NoOverlapSeen(s)
      BY <1>5, <2>1 DEF InPhase, RaceInv
    <3>2. ASSUME NEW a \in req[s].seen
          PROVE  /\ a \in issued'
                 /\ a \in Stored' => ~ OverlapsRange(bookings'[a], req[s].dto.hotel,
                        PgDate(req[s].dto.checkIn), PgDate(req[s].dto.checkOut))
      <4>1. a \in issued /\ (a \in Stored => ~ OverlapsRange(bookings[a], req[s].dto.hotel,
                        PgDate(req[s].dto.checkIn), PgDate(req[s].dto.checkOut)))
        BY <3>1 DEF NoOverlapSeen
      <4>2. a \in Stored' => SameStay(a) /\ a \in Stored
        BY <1>1 DEF SameStay
      <4>. QED
        BY <1>1, <4>1, <4>2, OverlapKept
    <3>. QED
      BY <2>1, <3>2 DEF NoOverlapSeen, PgDate
  <2>2. CASE req'[s] # req[s]
    <3>1. CheckOverlap(s)
      BY <1>5, <2>2, EnterPhase
    <3>. DEFINE dto == req[s].dto
                stored == {b \in Stored : bookings[b].hotel = dto.hotel}
    <3>2. /\ req' = [req EXCEPT ![s] = [phase |-> "insert", dto |-> dto, seen |-> stored]]
          /\ \A b \in Stored : ~ OverlapsRange(bookings[b], dto.hotel,
                                    PgDate(dto.checkIn), PgDate(dto.checkOut))
          /\ UNCHANGED <<bookings, issued>>
      BY <1>5, <3>1 DEF CheckOverlap, Goto, InPhase, db, TypeOK, Stored
    <3>3. req'[s].dto = dto /\ req'[s].seen = stored
      BY <3>2 DEF TypeOK
    <3>4. \A b \in Stored : b \in issued
      BY DEF RaceInv, IssuedOnly, Stored
    <3>. QED
      BY <3>2, <3>3, <3>4 DEF NoOverlapSeen, Stored
  <2>. QED
    BY <2>1, <2>2
<1>. QED
  BY <1>2, <1>4, <1>5 DEF RaceInv

\* RaceInv is an invariant.
THEOREM RaceInvariant == Spec => []RaceInv
<1>. QED
  BY RaceInit, RaceStep, TypeCorrect, PTL DEF Spec

\* The race between the overlap check and the INSERT of two creates is the only
\* way to book a hotel twice.
THEOREM OverlapsOnlyByRace == Spec => []OverlapOnlyByRace
<1>1. RaceInv => OverlapOnlyByRace
  BY DEF RaceInv
<1>. QED
  BY <1>1, RaceInvariant, PTL

-----------------------------------------------------------------------------
(***************************************************************************)
(* With one request at a time there is no race: the create has seen every  *)
(* booking of its hotel, so of any two bookings one saw the other.  A      *)
(* request that has failed counts for as long as its INSERT may still run. *)
(***************************************************************************)

Serial == \A r, s \in Requests : r = s

SerialInv ==
    /\ \A r \in Requests : InPhase(r, "insert") =>
          \A b \in Stored : bookings[b].hotel = req[r].dto.hotel => b \in req[r].seen
    /\ \A a, b \in Stored :
          a # b /\ bookings[a].hotel = bookings[b].hotel => a \in seen[b] \/ b \in seen[a]

\* Nothing is stored at first.
LEMMA SerialInit == Init => SerialInv
BY DEF Init, SerialInv, InPhase, Stored

\* With one request in flight at most, each INSERT has seen every booking there is.
LEMMA SerialStep ==
  ASSUME Serial, TypeOK, RaceInv, SerialInv, [Next]_vars
  PROVE  SerialInv'
<1>1. CASE \E r \in Requests : Insert(r)
  <2>1. PICK r \in Requests : Insert(r)
    BY <1>1
  <2>2. PICK b \in BookingIds \ issued :
          /\ bookings' = [bookings EXCEPT ![b] = NewRow(req[r].dto, "pending")]
          /\ seen' = [seen EXCEPT ![b] = req[r].seen]
          /\ Ran(r, [phase |-> "created", id |-> b])
    BY <2>1 DEF Insert
  <2>3. /\ bookings'[b] = NewRow(req[r].dto, "pending") /\ seen'[b] = req[r].seen
        /\ \A a \in BookingIds : a # b => bookings'[a] = bookings[a] /\ seen'[a] = seen[a]
    BY <2>2 DEF TypeOK
  <2>4. Stored' \subseteq Stored \cup {b}
    BY <2>3 DEF Stored
  <2>5. \A s \in Requests : ~ InPhase(s, "insert")'
    BY <2>2, RanMoves DEF InPhase, Serial
  <2>6. ASSUME NEW a \in Stored', a # b, bookings'[a].hotel = bookings'[b].hotel
        PROVE  a \in seen'[b]
    <3>1. a \in Stored /\ bookings'[a] = bookings[a]
      BY <2>3, <2>4, <2>6 DEF Stored
    <3>2. bookings[a].hotel = req[r].dto.hotel
      BY <2>3, <2>6, <3>1 DEF NewRow
    <3>. QED
      BY <2>1, <2>3, <3>1, <3>2 DEF SerialInv, Insert
  <2>7. ASSUME NEW a \in Stored', NEW c \in Stored', a # c,
               bookings'[a].hotel = bookings'[c].hotel
        PROVE  a \in seen'[c] \/ c \in seen'[a]
    <3>1. CASE a # b /\ c # b
      BY <2>3, <2>4, <2>7, <3>1 DEF SerialInv, Stored
    <3>. QED
      BY <2>6, <2>7, <3>1
  <2>. QED
    BY <2>5, <2>7 DEF SerialInv
<1>2. CASE ~ \E r \in Requests : Insert(r)
  <2>1. (\A b \in Stored' : SameStay(b)) /\ issued' = issued /\ seen' = seen
    BY <1>2, StaysKept
  <2>2. ASSUME NEW s \in Requests, InPhase(s, "insert")', NEW b \in Stored',
               bookings'[b].hotel = req'[s].dto.hotel
        PROVE  b \in req'[s].seen
    <3>1. b \in Stored /\ bookings[b].hotel = bookings'[b].hotel
      BY <2>1 DEF SameStay
    <3>2. CASE req'[s] = req[s]
      BY <2>2, <3>1, <3>2 DEF SerialInv, InPhase
    <3>3. CASE req'[s] # req[s]
      <4>1. CheckOverlap(s)
        BY <2>2, <3>3, EnterPhase
      <4>. DEFINE dto == req[s].dto
                  stored == {a \in Stored : bookings[a].hotel = dto.hotel}
      <4>2. req' = [req EXCEPT ![s] = [phase |-> "insert", dto |-> dto, seen |-> stored]]
        BY <2>2, <4>1 DEF CheckOverlap, Goto, InPhase, TypeOK
      <4>3. req'[s].dto = dto /\ req'[s].seen = stored
        BY <4>2 DEF TypeOK
      <4>. QED
        BY <2>2, <3>1, <4>3
    <3>. QED
      BY <3>2, <3>3
  <2>3. ASSUME NEW a \in Stored', NEW c \in Stored', a # c,
               bookings'[a].hotel = bookings'[c].hotel
        PROVE  a \in seen'[c] \/ c \in seen'[a]
    BY <2>1, <2>3 DEF SerialInv, SameStay
  <2>. QED
    BY <2>2, <2>3 DEF SerialInv
<1>. QED
  BY <1>1, <1>2

\* Requests that are served one after the other, each when nothing that the one before it
\* sent can still run, never book a hotel twice.
THEOREM SerialNoDoubleBooking ==
  ASSUME Serial
  PROVE  Spec => []NoDoubleBooking
<1>1. TypeOK /\ RaceInv /\ SerialInv /\ [Next]_vars => SerialInv'
  BY SerialStep
<1>2. RaceInv /\ SerialInv => NoDoubleBooking
  <2>. SUFFICES ASSUME RaceInv, SerialInv, NEW a \in BookingIds, NEW b \in BookingIds,
                       Overlapping(a, b)
                PROVE  FALSE
    BY DEF NoDoubleBooking
  <2>1. a \notin seen[b] /\ b \notin seen[a]
    BY DEF RaceInv, OverlapOnlyByRace
  <2>2. a \in Stored /\ b \in Stored /\ a # b /\ bookings[a].hotel = bookings[b].hotel
    BY DEF Overlapping, OverlapsRange
  <2>. QED
    BY <2>1, <2>2 DEF SerialInv
<1>. QED
  BY <1>1, <1>2, SerialInit, RaceInvariant, TypeCorrect, PTL DEF Spec
-----------------------------------------------------------------------------
(***************************************************************************)
(* Stays without a night.  The dates of a create are compared as text; if  *)
(* it writes both in one form, the text orders them as the database does.  *)
(***************************************************************************)

OneForm == \A dto \in CreateDtos : dto.checkIn.form = dto.checkOut.form

NightInv ==
    /\ StayHasNights
    /\ \A r \in Requests :
          InPhase(r, "overlap") \/ InPhase(r, "insert")
             => req[r].dto.checkIn.day < req[r].dto.checkOut.day

\* Two dates in one form compare as text as their days do.
LEMMA TextOrder ==
  ASSUME OneForm, NEW dto \in CreateDtos, DatesAccepted(dto)
  PROVE  dto.checkIn.day < dto.checkOut.day
<1>1. dto.checkIn.day \in Nat /\ dto.checkOut.day \in Nat
  BY DtoAssumption, DayAssumption DEF CreateDto, DateText, Days
<1>2. dto.checkIn.form = dto.checkOut.form
  BY DEF OneForm
<1>. QED
  BY <1>1, <1>2, DayAssumption DEF DatesAccepted, TextBefore, TextKey

\* With one form for both dates of a create, every step keeps NightInv.
LEMMA NightStep ==
  ASSUME OneForm, TypeOK, NightInv, [Next]_vars
  PROVE  NightInv'
<1>1. ASSUME NEW s \in Requests, InPhase(s, "overlap")' \/ InPhase(s, "insert")'
      PROVE  req'[s].dto.checkIn.day < req'[s].dto.checkOut.day
  <2>1. CASE req'[s] = req[s]
    BY <1>1, <2>1 DEF NightInv, InPhase
  <2>2. CASE req'[s] # req[s]
    <3>1. CASE Create(s)
      <4>1. PICK dto \in CreateDtos :
              DatesAccepted(dto) /\ req' = [req EXCEPT ![s] = [phase |-> "overlap", dto |-> dto]]
        BY <3>1 DEF Create, Goto
      <4>2. req'[s].dto = dto
        BY <4>1 DEF TypeOK
      <4>. QED
        BY <4>1, <4>2, TextOrder
    <3>2. CASE CheckOverlap(s)
      <4>1. req'[s].dto = req[s].dto
        BY <1>1, <3>2 DEF CheckOverlap, Goto, InPhase, TypeOK
      <4>. QED
        BY <3>2, <4>1 DEF NightInv, CheckOverlap
    <3>3. CASE ~ Create(s) /\ ~ CheckOverlap(s)
      <4>1. CASE UpdateStatus(s)
        BY <1>1, <4>1 DEF UpdateStatus, Goto, InPhase, TypeOK
      <4>2. CASE SelectBooking(s) \/ CheckTransition(s)
        BY <1>1, <4>2 DEF SelectBooking, CheckTransition, SendUpdate, Goto, InPhase, TypeOK
      <4>3. CASE Insert(s) \/ GuardedUpdate(s)
        <5>1. req'[s] = Idle \/ req'[s].phase \in {"created", "updated"}
          <6>1. Insert(s) => req'[s] = Idle \/ req'[s].phase = "created"
            BY RanMoves DEF Insert
          <6>2. GuardedUpdate(s) => req'[s] = Idle \/ req'[s].phase = "updated"
            BY RanMoves DEF GuardedUpdate, SetStatus
          <6>. QED
            BY <4>3, <6>1, <6>2
        <5>. QED
          BY <1>1, <5>1 DEF InPhase
      <4>4. CASE FinishCreate(s) \/ FinishUpdate(s) \/ ConnectionLost(s)
        <5>1. req'[s] = Idle
          BY <2>2, <4>4 DEF FinishCreate, FinishUpdate, ConnectionLost, Goto, TypeOK
        <5>. QED
          BY <1>1, <5>1 DEF InPhase
      <4>. QED
        BY <2>2, <3>3, <4>1, <4>2, <4>3, <4>4, OneRequestMoves DEF Progress
    <3>. QED
      BY <3>1, <3>2, <3>3
  <2>. QED
    BY <2>1, <2>2
<1>2. CASE \E r \in Requests : Insert(r)
  <2>1. PICK r \in Requests, b \in BookingIds \ issued :
          InPhase(r, "insert") /\ bookings' = [bookings EXCEPT ![b] = NewRow(req[r].dto, "pending")]
    BY <1>2 DEF Insert
  <2>2. /\ bookings'[b] = NewRow(req[r].dto, "pending")
        /\ \A a \in BookingIds : a # b => bookings'[a] = bookings[a]
    BY <2>1 DEF TypeOK
  <2>3. bookings'[b].checkIn < bookings'[b].checkOut
    BY <2>1, <2>2 DEF NightInv, NewRow, PgDate
  <2>4. \A a \in Stored' : a = b \/ (a \in Stored /\ bookings'[a] = bookings[a])
    BY <2>2 DEF Stored
  <2>. QED
    BY <1>1, <2>3, <2>4 DEF NightInv, StayHasNights
<1>3. CASE ~ \E r \in Requests : Insert(r)
  <2>1. \A b \in Stored' : SameStay(b)
    BY <1>3, StaysKept
  <2>. QED
    BY <1>1, <2>1 DEF NightInv, StayHasNights, SameStay
<1>. QED
  BY <1>2, <1>3

\* If every create writes its two dates in one form, every stay has a night.
THEOREM NightsInOneForm ==
  ASSUME OneForm
  PROVE  Spec => []StayHasNights
<1>1. Init => NightInv
  BY DEF Init, NightInv, StayHasNights, InPhase, Stored
<1>2. TypeOK /\ NightInv /\ [Next]_vars => NightInv'
  BY NightStep
<1>. QED
  BY <1>1, <1>2, TypeCorrect, PTL DEF Spec, NightInv
=============================================================================
