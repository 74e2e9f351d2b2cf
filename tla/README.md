# Verification of the hotels API

TLA+ models of the hotels API (NestJS, Postgres, Bull over Redis, Resend,
Firebase), checked with TLC on small instances and proved with TLAPS for all
values of their constants. Paths below are relative to the repository.

## 1. The system

The API is one Node process. It keeps almost nothing in memory: what lasts is in
Postgres (hotels, bookings, users, roles, push tokens) and in Redis (the jobs of
one Bull queue). Requests are served by callbacks separated by awaited queries,
each query being one statement on a pool connection; no code opens a
transaction, so between two queries of a request anything else may happen. The
queue's worker runs in the same process as the API.

| Part | State | Operations | What is hard | What makes it correct |
|---|---|---|---|---|
| Booking status rules (`src/bookings/booking-status-transitions.ts`) | none | the transition table, the effective status, the changes offered | midnight; the table stated twice (code, guide) | what is offered is never impossible; no `no_show` before check-in |
| Bookings service (`src/bookings/bookings.service.ts`) | `bookings` rows | create, updateStatus, remove, removeSynthetic, four reads | check-then-insert, read-check-update, two clocks, dates as text | overlaps only by the race; each change by a party and along the table; one push per confirmation |
| Event and queue flow (`src/bookings/processors`, `listeners`, `src/queue`) | jobs in Redis, handlers in memory | emit, two adds, two handlers, retry from the Bull Board | nothing is awaited; crashes, locks that run out, ends that are lost, repeated adds, deleted bookings | one job's loss never costs the other; a second mail has a reason; jobs settle |
| Push notifications (`src/push-notifications`) | `device_push_tokens` rows | register, sendToUser, removal of dead tokens | tokens move between users and die while a send is under way; registrations fail or overtake each other | a push follows the device; a failing send never loses a live device |
| Hotels search (`src/hotels`) | none of its own: `hotels` is only read | pages by text, pages by distance, the pins of a map view | page and count are two statements on two connections, each page a request of its own; ties in the order; the antimeridian | a walk through the pages misses nothing and repeats nothing without a reason; a map finds what it shows |
| Hotel images (`src/hotels/hotel-images.ts`) | none | the photo list of an id | a hash that wraps at 32 bits | four to eight photos that exist, none twice |
| CSV import (`tools/import-hotels-from-csv.ts`) | `hotels` rows, three counters | parse, look up a name, insert, dry run, summary | look-up and INSERT are two statements; failing queries, kills, two runs at once | a name is stored twice only by a race; a run without errors leaves nothing out; the summary fits the table |
| Accounts and roles (`src/auth`) | `users`, `user_roles`, `sessions` | sign-up with its hook, sessions with their roles, self-service deletion | the role is stored after the user; requests outlive the user they were let in for | nothing refers to a deleted user; a missing role has a cause; roles are fresh |
| OpenAPI document, wiring, migrations | none | set-up | | |

They interact so: `create` stores a row, emits `booking.created` (one in-process
listener, which logs) and adds two jobs; the mail job reads the booking again
and calls Resend. `updateStatus` to `confirmed` calls `sendToUser`, which reads
`device_push_tokens` and calls Firebase for each token. Users and hotels are
referred to by bookings through foreign keys, users also by push tokens and by
hotels. The import tool is a process of its own that writes the table the hotels
search reads. None of `emit`, `add` and
`sendToUser` is awaited by the request that makes the call.

## 2. Modules

| Module | Models |
|---|---|
| `BookingStatusRules` | the status rules as pure operators; also what the guide says of them |
| `BookingLifecycle` | abstract specification: what one booking goes through |
| `Bookings` | the bookings service, the table, both clocks |
| `BookingJobs` | the end of create, the jobs, the worker, crashes |
| `JobQueue` | abstract specification: a queue that may give a job to a handler more than once, and what that costs |
| `PushNotifications` | the token table and the calls of `sendToUser` |
| `PushDelivery` | abstract specification: what a call may reach, and when a token's row may go |
| `HotelImport` | the hotels table and the import tool |
| `HotelMap` | the bounds of a map view, and what the map shows |
| `Hotels` | a client that walks the pages of a search while imports go on |
| `HotelImages` | the hash and the photo list |
| `CsvLine` | the splitter of CSV lines, and the quoting it undoes |
| `HotelInputs` | the inputs of the hotel code that only computes: map views, ids, CSV records |
| `Accounts` | users, roles, sessions, and the rows that refer to users |
| `MC_Bookings`, `MC_BookingJobs`, `MC_PushNotifications`, `MC_Hotels`, `MC_Accounts` | instances for TLC |
| `Bookings_proofs` (with the rules), `BookingsStatus_proofs`, `BookingJobs_proofs`, `PushNotifications_proofs`, `HotelImport_proofs`, `Hotels_proofs`, `HotelInputs_proofs`, `Accounts_proofs` | theorems |

`Bookings` and `BookingJobs` extend `BookingStatusRules`; `Bookings` instantiates
`BookingLifecycle` under the mapping `removed <- issued \ Stored`,
`today <- appDay`, and `BookingJobs` instantiates `JobQueue` with
`state <- Stage`, `runs <- Runs`, `done <- mailed`. `PushNotifications` instantiates
`PushDelivery` with `open <- reading` and with `audience` and `reached` read off `leg`. `Hotels` composes the search
with the import: it extends `HotelImport` and `HotelMap`, and its step `Import` is
any step of `ImportNext`. `HotelInputs` has the pure parts, whose inputs are the values of
one variable, `input`, which no step changes; `MC_Hotels` checks it beside `Hotels`. An operator whose comment begins with *Mutant* belongs to no
specification: it is a plausible bug in the definition it precedes, and swapping
it in must break the property it is paired with in PROJECT.json.

### Bookings

`bookings` is the table; `req` holds, for each request in flight, the local
variables it needs after its pending await; `dbDay` and `appDay` are
`CURRENT_DATE` and `formatDateOnly(new Date())`; `pushes` counts calls of
`sendToUser`, `announced` the creates that emitted; `seen` is a history variable. `late`
holds the requests that have failed and whose INSERT or UPDATE the database may still run.

| Action | Code |
|---|---|
| `Create`, `CheckOverlap`, `Insert`, `FinishCreate` | `create` up to its first await, the overlap query with its 409, the INSERT, the rest |
| `UpdateStatus`, `SelectBooking`, `CheckTransition`, `GuardedUpdate`, `FinishUpdate` | `updateStatus`: arrival, the SELECT, both checks (404, 403, 403, 409), the UPDATE with its 409, the push |
| `Remove`, `RemoveSynthetic` | the two DELETE handlers |
| `ConnectionLost` | a query that rejects, and a crash, since a request leaves nothing else behind: the statement ran, it never will, or the database has it and runs it at some time, or gives it up |
| `DbMidnight`, `AppMidnight` | the clocks |

`CheckTransition` is kept apart from `SelectBooking` although no await lies
between the answer and the checks: the answer travels, and a midnight can pass
between the statement and the callback that reads the app's clock. A slot of `Requests`
stays taken while a statement of its failed request may still run; `Ran` sends the request
of a statement that has run on its way, or only frees the slot if the request had failed.

What is abstracted: a request refused by its first checks changes nothing and is
not a step. Ids are uuids, so an id is never used twice. A date is a day and the
form it was written in (`2026-09-10`, `2026-09-10T12:00`, `20260910`): enough to
tell how the strings compare and what the `date` cast keeps; all days are in one
year, where the dashed and undashed forms compare as `TextKey` says. A host is
the user in `hotels.owner_id`. `findOne`, the lists and the calendar are operators
on the table; they change nothing.

### BookingJobs

A job is a booking, a kind and a copy: `<<b, "send-confirmation-email", 1>>`.
Copy 2 exists only when the Redis client sent an add again on a new connection.
`job` says where it is, from `adding` (in the memory of the client, which also
queues commands while Redis is away) over `waiting` and `active` to `completed`
or `failed`. Each of the two `@Process` methods gives the worker a loop of its own, and
either loop takes any job, so one job can be run by two of them at a time (`Runners`);
`handler` says how far each has got with it.

| Action | Code |
|---|---|
| `Insert`, `ChangeStatus`, `Remove` | what the requests of `Bookings` do to the row |
| `FinishCreate`, `InsertUnanswered` | the end of `create`; its INSERT's answer never comes |
| `JobAdded`, `JobAnswerLost`, `AddRejects` | an add reaches Redis, is sent twice, rejects into its catch |
| `GetDetails`, `SendBookingConfirmationEmail` | the mail handler's two awaits |
| `HandleGenerateInvoice` | the invoice handler |
| `TakeJob`, `CompleteJob`, `Settle` | Bull: a loop takes a job; a run's handler has settled, and the job is moved, or stays since it is not active any more or Redis refused or lost the write |
| `RecoverStalled`, `RetryJob` | Bull's stalled check; the retry button of its board |
| `Crash`, `Restart` | the process |

Bull and ioredis are libraries; they are modelled from what the code asks of
them (`add` without options, `@Process`, default settings): no `attempts`, so a
rejecting handler fails its job for good; an active job whose lock was not renewed is put
back once (`MaxStalledCount`), and failed the second time; the order of jobs is left open.
The lock is not renewed when the process has died, but also when Redis was out of reach for
longer than the lock lasts while the process lived. The check stops no handler, so the run
left behind may mail after the job was put back, run by the other loop, or even failed;
and since the token of a lock is the process's, the run that ends first ends the job. A
write that ends a run can fail too: the job stays active, and is found stalled later.

### PushNotifications

`table` is `device_push_tokens` (`token` is unique, so it is a function). `leg`
holds where each call of `sendToUser` is with each token. `Register` is the
upsert; `SendToUser`, `GetTokensForUser`, `Send`, `Remove` are `sendToUser` and
`sendToToken` cut at their awaits. `SignIn` and `Die` are the device's side:
somebody signs in and the app posts a registration, which may be served in any
order; a token dies and stays dead. `RegistrationFails` is a registration that is lost, or
whose INSERT rejects, a 500: the row stays with whom it was, and `missed` (history) has the
device if the one who failed is signed in there. The app is not in the repository, and
nothing is assumed of it repeating a failed request.

### HotelImport

`hotels` maps ids to rows. For each run of the tool `at` is its place, `line` the
line of its file it is at, and `created`, `skipped` and `errors` are its counters.
`unanswered` holds the INSERTs the server has received and whose answer nobody will
hear: it may still commit them. `by` and `raced` are history variables.

| Action | Code |
|---|---|
| `Main` | `main` up to the loop: a file without data lines or with one bad line exits before any query |
| `LookUp` | `SELECT id FROM hotels WHERE name = $1` and what follows it: skipped, counted by a dry run, or about to be inserted |
| `InsertHotel` | the INSERT commits and its answer comes |
| `QueryRejects` | either query rejects, into the catch that counts and goes on |
| `Kill` | the tool dies with a query under way |
| `Settle` | the server commits an INSERT nobody waits for, or gives it up |

A text is its rank in the collation, 0 being the empty one; a numeric cell is
missing, empty (which `Number` makes 0), a number, or some other text. An id is
a uuid nobody chose, so an INSERT may take any free one.

### Hotels, HotelMap

A search reads and changes nothing, so one client that walks one search from its
first page to its last stands for any number of them. `query`, `size` and `page`
are what it asks for; `awaiting` holds the statements of the request that have not
answered, `rows` and `total` what they have answered, `got` what it has been shown.
`start`, `grown`, `older` and `again` are history variables.

| Action | Code |
|---|---|
| `Open` | the first request of `findAll`, `findNearest` or `findWithinBounds`, past the checks of its DTO |
| `PageQuery`, `CountQuery` | the two statements of `Promise.all`, in either order |
| `QueryFails` | one of them rejects: a 500, and the client asks again |
| `Answer` | `toPaginated`; the client asks for the next page while `pageCount` has one |
| `Import` | any step of `HotelImport` |

Where ORDER BY leaves two rows equal, `Orders` has both orders, and each statement may
use another: that is what Postgres promises. `HotelMap` has the clamp of the latitudes
and the two longitude clauses, and, independently, which places a map with these
corners shows. Degrees are integers, since only their order matters; which hotels are
within 300 km, and how near, are constants of the model.

### HotelImages, CsvLine

Both are pure. A 32-bit number is a pair of half words, so that `| 0` wraps exactly
and `Math.abs` of the least number is right. The splitter's loop is a recursive
function over the characters with its four local variables as a record; against
it stands the quoting of a field by whatever program wrote the file.

### Accounts

`users`, `user_roles` and `sessions` are the tables; `refs` says which of
`bookings`, `hotels` and `device_push_tokens` have rows of a user. `signUp`,
`booking`, `deleting` and `asking` are requests in flight; `answer` is the last
session of each user that each client got.

| Action | Code |
|---|---|
| `CreateUser`, `AfterCreate` | the user row; the hook `databaseHooks.user.create.after`, which stores the role or fails |
| `GrantRole` | host and admin rows, added by hand |
| `SignIn`, `SignOut` | sessions |
| `ReadSession`, `CustomSession`, `SessionFails` | the library reads the session; `customSession` joins the roles; its query rejects |
| `Guarded`, `InsertBooking` | the guard of POST /bookings; the INSERT some queries later, against the foreign key |
| `RegisterToken`, `OwnHotel`, `Unrefer` | other rows that refer to a user come and go |
| `AskDelete`, `DeleteUser` | `deleteUser`: the DELETE with its cascades, or refused by a foreign key |
| `Crash` | the process |

better-auth is a library. Of it the model has what `auth.ts` configures and relies on:
the user is stored before the hook is called and the sign-up waits for the hook; a
deletion is one DELETE of the user, before which the sessions may be gone already. The
credentials (table `accounts`), which the library also deletes first, are left out: no
property depends on them.

## 3. Properties and runs

| Run | Checks | Bounds |
|---|---|---|
| `bookings_safety` (MC_Bookings.cfg) | `TypeOK`, `OverlapOnlyByRace`, `NoShowOnlyAfterCheckIn`, `ConfirmedOnce`, `HintNeverForbidden`, `CalendarComplete`, `ChangesByParties` | 2 ids, 2 requests in flight, days 0..2, a host and a guest |
| `bookings_live` (MC_BookingsLive.cfg) | `EveryRequestAnswered`, `ImplementsLifecycle` | 1 id, 2 requests, also a stranger |
| `jobs` (MC_BookingJobs.cfg) | `TypeOK`, `OneMailPerRun`, `MailsAreBounded`, `LostOnItsOwn`, `SilentOnceDeleted`, `EveryJobSettles`, `ImplementsQueue` | 1 booking, 1 crash, 1 retry of each job, 1 job in trouble (see below) |
| `push` (MC_PushNotifications.cfg) | `TypeOK`, `AliveKeepsItsRow`, `PushesFollowTheDevice`, `EveryTokenTried`, `ImplementsDelivery` | 2 users, 2 devices, 2 calls, 2 sign-ins on each |
| `hotels` (MC_Hotels.cfg) | `TypeOK`, `NameTwiceOnlyByRace`, `NothingLeftOut`, `SummaryFits`, `StoredFromGoodFiles`, `NothingSkipped`, `RepeatsHaveReason`, `NoEmptyPage`, `PageMatchesCount`, `MapFindsWhatItShows`, `GalleriesSound`, `SplitUndoesQuoting` | 4 ids, 2 of them seeded; two imports that share a name, a dry run, a file refused for its second line; pages of 1 and 2; 3 pins |
| `accounts` (MC_Accounts.cfg) | `TypeOK`, `NoDanglingRows`, `RolelessOnlyByFailure`, `RolesAreFresh` | 1 user, 3 roles, 2 clients |

Why the bounds are enough. A race in `Bookings` is between two requests, and
what the second does to the first does not depend on a third; two ids let two
creates collide and one id already carries every race of two updates. Three days
hold a stay with a day before its end, its check-out day and a day after it, with
the clocks on either side of midnight. One booking's jobs never meet another's:
`EachBookingAlone` proves that what happens to one of any number of bookings is a behaviour
of the module with that booking alone, so that its safety properties, which speak of one
booking or one job at a time, hold of each of them if they hold of one (fairness is not part
of that theorem). The
ways out of the ordinary multiply the states of `jobs`, so `MaxTroubles` bounds them: at most
that many jobs are repeated, stalled under a live handler or retried (`Troubles`), and
crashes count against it where Redis fails over a live process (`RedisFails`). With one job
in trouble, this job meets all of it: its lock runs out under a handler, which goes on beside
the run that follows, again past the stall limit, the end of either run is lost, and it is
retried; and a crash finds every job in any place, and takes any of them to the
stalled check. Two devices of one call can fail apart, and two
calls can meet on one token. Two imports are what a race between a look-up and an
INSERT takes; the hotel they share comes first in the order of names, so that it moves
the seeded ones to later pages, and its second version lies elsewhere, so that the
searches tell the two apart. Pages of one and two rows have full pages, a last page
that is full and one that is not, and with three pins and four ids the LIMIT of a map view
(500 in the code) is met. One user
is enough for the accounts: `EachUserAlone` proves of users what `EachBookingAlone` does of
bookings. The pure parts get records of up to two fields of up to
three characters, map corners on and over every edge, and ids among which is one whose
hash is the least 32-bit number. The proofs below hold without any of these bounds.

What the properties say, beyond their comments in the modules:

- `OverlapOnlyByRace` - the overlap query is right; the only way to book twice is
  that both checks precede both INSERTs.
- `ImplementsLifecycle` - two updates, a deletion, a midnight and a lost
  connection in any order never take a booking off the table of transitions. The
  abstract step allows a change that was permitted on *some* day that has begun,
  because the checks and the UPDATE can be on different days (see `midnight`).
- `CalendarComplete` - with the clocks a day apart, `check_out >= CURRENT_DATE` is
  just wide enough for what the strict overlap test can find.
- `OneMailPerRun`, `LostOnItsOwn` - a lost or doubled mail always has a cause of
  its own: a stall, a retry, a repeated add, a rejected add or a crash.
- `MailsAreBounded` - unless somebody presses retry, a job mails at most twice, because Bull
  puts a stalled job back once. That needs no crash: while Redis is away for longer than a
  lock lasts, a job whose handler is at work is put back too, and both runs mail. What the
  property says is that nothing multiplies further: a job ended by one of two runs, an end
  that was lost, or a job already failed under a live handler.
- `AliveKeepsItsRow`, `PushesFollowTheDevice` - the DELETE of a dead token goes by
  token, and is harmless because dead tokens stay dead; a push can reach a user
  who took over the device only within the call that was already under way.
- `ImplementsQueue` - producer, worker, retries, crashes and a failing Redis together are a
  queue that does a job's work at most once for each time it hands the job out, never before
  its add, and after its end only if it was handed out more than once, so that a run may be
  left behind; that a job and its handlers come to their end at all is `EveryJobSettles`.
- `EveryRequestAnswered` - a request ends with an answer or with its connection, also the
  `updateStatus` whose UPDATE finds no row.
- `ImplementsDelivery` - all the calls, registrations, deaths and crashes together are a
  delivery in which a call picks its audience at one moment, from the devices that are then
  its user's, reaches each of them at most once and nobody else, and a row goes only
  when its device can no longer be reached.
- `StoredFromGoodFiles` - a file is checked to its end before its first query, so no hotel
  in the table comes from a file with a bad line, not even from the good lines before it.
- `NothingSkipped`, `RepeatsHaveReason` - imports only add hotels, so a hotel's place in an
  order moves back, never forward, and a walk cannot step over it: with the id as
  tie-break `findNearest` misses nothing. The two exceptions are real and stated: `findAll`
  orders by name alone, so two hotels of one name may change places between pages, and
  a walk stops early if its last count was older than its last page.
- `PageMatchesCount`, `NoEmptyPage` - how far a page and its total can disagree when a
  hotel is inserted between their statements, and that a client that follows
  `pageCount` never sees an empty page.
- `NameTwiceOnlyByRace` - the tool is safe to re-run, as its header says, unless an INSERT
  of the name is still to come: of another run, or of a query whose connection was
  lost and which the server commits late.
- `NothingLeftOut`, `SummaryFits` - what the printed summary can be trusted for: with no
  errors, every name is in the table; with errors, the table holds at most that many
  hotels more than it says, and one more if the run was killed.
- `NoDanglingRows`, `RolelessOnlyByFailure`, `RolesAreFresh` - a booking let in for a user
  who is deleted before its INSERT is refused by the foreign key; an account stays without
  a role only if its sign-up failed half way (the user row is not taken back); a session's
  roles are read after the session, so a role granted since is in it, and a deleted
  user's answer has none.

### Where the code departs from its own words

Each of these runs finds a counterexample to a statement of the repository.

| Run | Statement | What happens |
|---|---|---|
| `double_booking` | a hotel already booked is refused | two creates check before either inserts |
| `midnight` | `AND status = $3` makes the transition atomic; a past booking can no longer be cancelled | the UPDATE compares stored with effective status; a check-out passing in between is not noticed |
| `guide_table` | a host's list is the table minus `no_show` before check-in | during the stay the host cannot cancel |
| `date_forms` | check-out must be after check-in | a date and a date-time of one day compare as text and are stored as one day |
| `mail_confirmed` | "Your booking ... is confirmed" | the mail goes out for a pending booking |
| `push_owner` | re-registering moves a token to whoever is signed in | the registration that commits last wins, not the one made last, though both succeed |

Some more were met while modelling and have no run of their own:

- The clamp of `findWithinBounds` is said to make `neLat: 140` degrade to everything
  (`src/hotels/hotels.service.ts:108-109`, `docs/logs/008-*:23-24`), but
  `HotelsWithinBoundsQueryDto` refuses such a query with a 400. `ValidBounds` has
  that check, and of the clamp it leaves only the swap of the two corners.
- `docs/logs/008-*:16` calls ORDER BY name a stable result set. With more than 500
  hotels in view and two of one name at the limit it is not; `NothingSkipped` promises
  nothing there.
- `src/auth/auth.ts:52-58` enables deletion by the user, as App Store review
  requires. While the user has a booking, a hotel or a push token, the foreign keys
  of those tables, which do not cascade, refuse it, and the user may be signed out all
  the same (`DeleteUser`).

## 4. Fairness

`bookings_live`: weak fairness of each request's next step (the database answers,
the event loop runs callbacks). `jobs`: weak fairness, for each job, of the steps it has
before it taken together (`Settling`: Redis takes the add in the end, Bull hands the job out
and looks for stalled ones, a handler goes on) while the process is up, and of `Restart` (the
host restarts the service). Taken together, since nothing makes a lock run out under
a handler that works, nor a run end before that; each of these steps uses something up.
Nothing forces a retry, a crash or a lost answer. `push`: Postgres and
Firebase answer, if only with an error. No strong fairness is used. `bookings_safety`,
`hotels` and `accounts` check safety only and assume none.

The two runs of `Bookings` that pass and `accounts` check deadlock. In `jobs`, `push` and `hotels`
the system may come to rest (all jobs settled, all calls over, the walk and
the imports at their ends), so they do not.

## 5. Proofs

All theorems are proved for arbitrary finite or infinite constants, under the named
ASSUMEs of the modules only (ids and owners of the right type, bounds natural
numbers, sentinels outside the types they extend; for the hotels, finitely many ids and
page sizes up to the DTO's 80).

- **Rules** (`Bookings_proofs`, first part): what the second check allows the first
  never forbids; the code and the guide differ by exactly one entry.
- **Bookings** (`Bookings_proofs`): `TypeCorrect`. Then `RaceInv`: every id seen or
  stored was issued, and what a create about to insert has seen does not overlap
  its stay, also when its request has failed and the INSERT is still at the database. `OverlapOnlyByRace` alone is not inductive, since it says nothing of a
  create between check and INSERT.
- **Status** (`BookingsStatus_proofs`): `StatusInv` says that a request past its
  SELECT holds the stay of the row it names (while that is stored), and that one
  past its checks was permitted its change on a day that has begun. From it
  follow `ChangesByParties`, `NoShowOnlyAfterCheckIn` and the refinement
  `BookingsImplementLifecycle`, each step of the service being a step of the
  lifecycle or a stutter. `ConfirmedOnce` needs that a booking in the hands of a
  request about to push is no longer pending and has no other such request.
- **Service and jobs** (`RowsMoveAsJobsExpect`): `BookingJobs` has its own short
  account of what happens to a row. Every step of `Bookings`, seen through
  `RowOf`, stores a row as pending, changes it along the table, deletes it or leaves it, so
  that account leaves out nothing the service does.
- **Jobs** (`BookingJobs_proofs`): `MailInv` says that a job not yet in Redis has no
  handler, that a booking whose create has not gone on has no jobs, that a repeated add
  follows its first, and, in `SentInv`, how mails are paid for: the mails of a job, its runs
  that may still mail, and one more while it is still to be run, are at most one plus its
  put-backs and retries. A run taken turns the place of the waiting job into its own, a mail
  or a failure gives it up, and a stall or a retry brings the place it needs, except past
  the limit, where Bull fails the job. `OneMailPerRun` and `MailsAreBounded` follow (`SentBound`);
  neither is inductive, as both forget the runs that have not mailed yet. `QuietInv` says that
  a job never found stalled has one run at a time, and none once it has ended, which the
  refinement needs.
- **Queue** (`JobsImplementQueue`): every step of `BookingJobs` is a step of `JobQueue`
  under the mapping, or a stutter. A crash or a repeated add touches several jobs at once,
  so the abstract step is stated job by job.
- **One booking, one user** (`EachBookingAlone`, `EachUserAlone`): each module implements
  itself with the set of bookings, or of users, cut down to one, under the mapping that
  restricts every variable to what is that one's. A step of the one is the same step there,
  a step of another is a stutter, and a crash, which is everybody's, is a crash there or, for
  a user with nothing under way, a stutter. The bound on jobs in trouble counts
  over all bookings; that it also bounds those of one needs that they are finitely many
  (`TroubledInv`), since the set of bookings need not be finite.
- **Push** (`PushNotifications_proofs`): `PushInv` says that a row is the last
  registration unless its token is dead, that a refused token is dead, and that
  what is being sent was last registered for the call's user or moved since.
  `NoneIsDropped` is the safety half of `EveryTokenTried`: a message under way ends in an
  answer, a failure or with the process. It needs that a call reads the table once,
  before which it has nothing under way (`UnreadInv`, by `CallsReadOnce`).
  `PushImplementsDelivery` rests on the same, which keeps an audience from being picked twice,
  and on a refused token being dead, without which the DELETE would not be a `Forget`.
- **Import** (`HotelImport_proofs`): `ImportInv` adds to the properties where each run is in
  its file, that what is outstanding is a line already looked up and free of its
  name at that time unless the name is in `raced`, that each line passed without an
  error has its name in the table, and the tally of a run's hotels against its
  counters and outstanding INSERTs. `NameTwiceOnlyByRace` alone is not inductive: it says
  nothing of INSERTs that may still come. `StoredFromGoodFilesHolds` needs that every run past
  `Main` has a good file and that the rows, and the INSERTs that may still come, are lines
  of such files (`GoodFileInv`, `SourceInv`). `SummaryIsComplete` says what the three counters
  promise at the end of a run: each line of the file has been counted exactly once, and no
  run stores more hotels than its file has lines (`PassedInv`).
- **Search** (`Hotels_proofs`): `ImportsUndisturbed` shows that the composition behaves
  like the import alone, so its invariants hold here. `WalkInv` is about places: the place
  of a hotel with a key of its own is one more than the number of hotels before it
  (`PlaceIsRank`), a slice has exactly those places (`SliceIsPage`), and the number
  only grows with the table (`SearchGrows`). So what was there at the start is in
  the pages seen or at a place still to come. The proof is for pages of any size and any
  number of imports; it needs no assumption on the order of names in a search by
  text beyond the exception the property states. `QuietWalkIsExact` puts the parts
  together for a search that nothing is added to: its pages add up to what it found at the
  start, each hotel once.
- **Pure parts** (`HotelInputs_proofs`): for every input, not for bounded ones.
  `MapFindsWhatItShows` for all corners that are let through. `GalleriesSound` for ids
  of any length: `HashId` runs through the characters, and each step takes a pair of half
  words to a pair of half words (`HashStepType`, `HashIdType`), from which four to eight
  different photos follow. `SplitUndoesQuoting` for records of any number of fields of
  any length: reading a plain or a quoted field takes the splitter's state from the
  field's start to its end (`PlainRead`, `QuotedRead`, `FieldRead`), and a record is read
  field by field (`RecordRead`). The library's induction theorems cannot be used, since they
  take an operator as a parameter; `SetInduction` is induction as a fact about a set
  of numbers, proved from the minimum of a nonempty set of them, and `Iteration` applies it
  to the functions that these loops are.
- **Accounts** (`Accounts_proofs`): `AccountInv` says whose rows there are and why a role is
  missing. `RolesAreFresh` needs that what a request held when it was asked for is still
  held, or the user is gone: nothing takes a role away from a user that stays.

### The violations have one cause each

A violation run shows that a statement of the repository can fail. For four of them, and for
the tool's claim to be safe to re-run, a theorem with one hypothesis on the behaviour or the clients shows that it fails for the
reason given and for no other. Each hypothesis is met by ordinary behaviours of the model.

| Statement | Holds if | Theorem |
|---|---|---|
| `NoDoubleBooking` | at most one request is in flight, one that has failed counting while the database may still run its INSERT | `SerialNoDoubleBooking` |
| `CompletedIsFinal` | no midnight of the database falls between the SELECT and the UPDATE of a change, whatever the app's clock shows | `CompletedUnlessMidnight` |
| `StayHasNights` | each create writes its two dates in one form | `NightsInOneForm` |
| `RowFollowsSignIn` | nobody signs in on a device while a registration of it is on its way, be it served or fail in the end | `RowFollowsUnlessOvertaken` |
| safe to re-run (`NamesOnce`) | one run of the tool at work at a time, and no INSERT left without an answer | `RerunsAreSafe` |

`CompletedUnlessMidnight` rests on `FreshInv`: a change that read confirmed read a booking
that is not past; an UPDATE that runs after its request has failed is under its hypothesis like
any other. `RowFollowsSignIn` itself excepts a device whose user's registration failed, for
which nothing else could hold; what it says, and the theorem, is that with
failures set apart overtaking is the only cause. `ListsFollowGuide` has `GuideDivergence` in place of a hypothesis: it says
for which actor, status and days the two differ. `MailSaysConfirmed` has none: its job is
added for every booking, when its row has just been stored as pending.

Model-checked only: the liveness properties `EveryRequestAnswered`, `EveryJobSettles` and
the liveness half of `EveryTokenTried` (TLAPS does not treat liveness under fairness
here), and the violation runs.

## 6. Not modelled

- Bull, ioredis, Resend, Firebase, better-auth and Postgres themselves, beyond what
  is said above. In particular a query is atomic and the pool always has a
  connection in the end.
- Hotels that disappear: nothing in `src/` deletes one. Users that disappear are in
  `Accounts`; `Bookings` need not have them, since a user with a booking cannot be
  deleted and an INSERT for a deleted one is refused.
- `findOne` of a hotel, which is a lookup by primary key; `%` and `_` in a search text,
  which ILIKE takes as wildcards (a search is the set of texts it matches, so the model
  holds for those too); a line break inside a quoted CSV field, where the tool has
  already split the file into lines.
- One model of bookings and push together. `ConfirmedOnce` says that a booking
  calls `sendToUser` at most once, `PushNotifications` starts with such a call, and the two
  share nothing else, so a composition would only multiply their states.
- Registrations by others than the app's after a sign-in. The endpoint takes any user id, and
  such a registration does to the table what one after a sign-in does, so it would change
  nothing but `RowFollowsSignIn`, which is about what the app does.
- `update` of bookings is a placeholder that changes nothing. Wiring, logging, the
  OpenAPI generator and the migrations keep no state of their own.

## 7. Plan

Done, in this order:

1. `BookingStatusRules`, `BookingLifecycle`, `Bookings`: the core, its refinement, its
   proofs.
2. `BookingJobs` and `PushNotifications` with their proofs.
3. `HotelImport`, `HotelMap`, `Hotels`, `HotelImages`, `CsvLine`: the import, the search
   over it, the pure parts; proofs of the import's invariants and of the walk.
4. `Accounts` with its proofs; `JobQueue` and the refinement to it.
5. `HotelInputs` with proofs of the pure parts for every input; the theorems on the causes
   of the violations; the fit of `Bookings` and `BookingJobs`.
6. `PushDelivery` and the refinement to it; the bound on mails, the sources of imported hotels
   and the completeness of the summary; that one booking and one user stand for all.

Left, should the code move there:

- an exclusion constraint on bookings (`docs/plans/payments.md`) would turn
  `NoDoubleBooking` from a violation into an invariant, with `Insert` refused by the
  database;
- a unique index on `hotels.name` would do the same for `NameTwiceOnlyByRace`;
- the payment flow, when it grants host roles, adds a writer to `user_roles` that
  `Accounts` so far has only as `GrantRole`.
