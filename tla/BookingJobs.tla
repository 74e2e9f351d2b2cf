----------------------------- MODULE BookingJobs -----------------------------
(***************************************************************************)
(* What follows a booking: the booking.created event, the two Bull jobs,   *)
(* the worker that runs in the same process as the API, and what a crash   *)
(* of that process or a failing Redis does to them.                        *)
(*                                                                         *)
(* Of the bookings table only what the jobs can tell apart is kept: a row  *)
(* is there or not, and its stored status.  How statuses move is the table *)
(* of BookingStatusRules; Bookings has the requests that move them.        *)
(*                                                                         *)
(* Bull is not under src/.  Of it the model keeps: an added job is in      *)
(* Redis once its write is done; a handler that rejects fails its job,     *)
(* since jobs are added without `attempts`; an active job whose lock was   *)
(* not renewed in time, because the process died or Redis was out of       *)
(* reach, is found stalled and put back, once, whether a handler still     *)
(* works on it or not; and the write that ends a run may be refused or     *)
(* lost.  Each @Process has a loop of its own, and both take any job, so   *)
(* that one job is run twice at a time at most.  The order of the waiting  *)
(* list, and that the loops are shared between the jobs, only delay a job. *)
(***************************************************************************)
EXTENDS BookingStatusRules, FiniteSets

CONSTANTS
    BookingIds,
    MaxCrashes,     \* bound on the number of crashes
    MaxRetries,     \* bound on the retries of one job from the Bull Board
    MaxTroubles     \* bound on the jobs that leave the ordinary way

ASSUME BoundsAssumption == MaxCrashes \in Nat /\ MaxRetries \in Nat /\ MaxTroubles \in Nat

Mail == "send-confirmation-email"
Invoice == "generate-invoice"

Kinds == {Mail, Invoice}

\* Each add makes one job, and a second one when the Redis client sends the same
\* command again on a new connection.
Jobs == BookingIds \X Kinds \X {1, 2}

Repeated(j) == <<j[1], j[2], 2>>

\* The runs that one job may have at a time.
Runners == {1, 2}

\* Bull's default for settings.maxStalledCount.
MaxStalledCount == 1

VARIABLES
    row,         \* each booking's stored status, "absent" before and "deleted" after
    up,          \* the process (API and worker) is running
    creating,    \* bookings whose INSERT has committed and whose create has not gone on
    job,         \* where each job is
    handler,     \* how far each run of each job's handler has got in this process
    mailed,      \* mails Resend has accepted from each job's handler
    stalls,      \* Bull's stalledCounter of each job
    retries,     \* how often each job was retried by hand
    crashes,     \* number of crashes so far
    rejected,    \* history: jobs whose add rejected
    interrupted  \* history: bookings whose create or adds a crash or a lost answer cut off

table == <<row, creating>>
queue == <<job, handler, stalls, retries>>
history == <<rejected, interrupted>>
vars == <<row, up, creating, job, handler, mailed, stalls, retries, crashes,
          rejected, interrupted>>

Rows == BookingStatus \cup {"absent", "deleted"}

\* "adding" is in the memory of the Redis client; waiting, active, completed and
\* failed are in Redis; "lost" is nowhere.
JobStates == {"none", "adding", "lost", "waiting", "active", "completed", "failed"}

HandlerStates == {"idle", "started", "found", "done"}

\* The jobs that were added twice, found stalled or retried, with j one of them: the
\* bounds keep them few.
Troubles(j) ==
    Cardinality({k \in Jobs : \/ k = j
                              \/ k[3] = 2 /\ job[k] # "none"
                              \/ stalls[k] > 0 \/ retries[k] > 0})

\* Redis may be out of reach over job j.
RedisFails(j) == Troubles(j) + crashes <= MaxTroubles

IsStored(b) == row[b] \notin {"absent", "deleted"}

-----------------------------------------------------------------------------
\* The bookings table

\* Mutant: the status column has no default.
InsertWithoutDefault(b) ==
    /\ up /\ row[b] = "absent"
    /\ row' = [row EXCEPT ![b] = "null"]
    /\ creating' = creating \cup {b}
    /\ UNCHANGED <<up, queue, mailed, crashes, history>>

Insert(b) ==
    /\ up /\ row[b] = "absent"
    /\ row' = [row EXCEPT ![b] = "pending"]
    /\ creating' = creating \cup {b}
    /\ UNCHANGED <<up, queue, mailed, crashes, history>>

ChangeStatus(b) ==
    /\ up /\ IsStored(b)
    /\ \E actor \in BookingActor :
       \E to \in TableRow(actor, row[b]) : row' = [row EXCEPT ![b] = to]
    /\ UNCHANGED <<up, creating, queue, mailed, crashes, history>>

Remove(b) ==
    /\ up /\ IsStored(b)
    /\ row' = [row EXCEPT ![b] = "deleted"]
    /\ UNCHANGED <<up, creating, queue, mailed, crashes, history>>

-----------------------------------------------------------------------------
\* The end of create

\* The INSERT has committed but its answer is lost with the connection: create
\* rejects before it adds anything.
InsertUnanswered(b) ==
    /\ up /\ b \in creating
    /\ creating' = creating \ {b}
    /\ interrupted' = interrupted \cup {b}
    /\ UNCHANGED <<row, up, queue, mailed, crashes, rejected>>

\* Mutant: the listener of booking.created sends the mail as well.
ListenerMails(b) ==
    /\ up /\ b \in creating
    /\ creating' = creating \ {b}
    /\ mailed' = [mailed EXCEPT ![<<b, Mail, 1>>] = @ + 1]
    /\ job' = [j \in Jobs |-> IF j[1] = b /\ j[3] = 1 THEN "adding" ELSE job[j]]
    /\ UNCHANGED <<row, up, handler, stalls, retries, crashes, history>>

\* emit() calls the analytics listener, which only sleeps and logs, and both adds
\* are started; none of them is awaited.
FinishCreate(b) ==
    /\ up /\ b \in creating
    /\ creating' = creating \ {b}
    /\ job' = [j \in Jobs |-> IF j[1] = b /\ j[3] = 1 THEN "adding" ELSE job[j]]
    /\ UNCHANGED <<row, up, handler, mailed, stalls, retries, crashes, history>>

\* The write of the job reaches Redis.
JobAdded(j) ==
    /\ up /\ job[j] = "adding"
    /\ job' = [job EXCEPT ![j] = "waiting"]
    /\ UNCHANGED <<table, up, handler, mailed, stalls, retries, crashes, history>>

\* The write reaches Redis and its answer is lost with the connection; the client
\* sends the unanswered command again.
JobAnswerLost(j) ==
    /\ up /\ job[j] = "adding" /\ j[3] = 1
    /\ RedisFails(Repeated(j))
    /\ job' = [job EXCEPT ![j] = "waiting", ![Repeated(j)] = "adding"]
    /\ UNCHANGED <<table, up, handler, mailed, stalls, retries, crashes, history>>

\* Mutant: the adds are awaited one after the other in one try, so that a failing
\* one keeps the other from being made.
AddsInOneTry(j) ==
    /\ up /\ job[j] = "adding"
    /\ job' = [k \in Jobs |-> IF k[1] = j[1] /\ job[k] = "adding" THEN "lost" ELSE job[k]]
    /\ rejected' = rejected \cup {j}
    /\ UNCHANGED <<table, up, handler, mailed, stalls, retries, crashes, interrupted>>

\* queue.add rejects; its catch logs.
AddRejects(j) ==
    /\ up /\ job[j] = "adding"
    /\ job' = [job EXCEPT ![j] = "lost"]
    /\ rejected' = rejected \cup {j}
    /\ UNCHANGED <<table, up, handler, mailed, stalls, retries, crashes, interrupted>>

-----------------------------------------------------------------------------
\* The worker

\* Each job is taken by the first runner that is free.
TakeJob(j, w) ==
    /\ up /\ job[j] = "waiting"
    /\ handler[j][w] = "idle" /\ \A v \in Runners : v < w => handler[j][v] # "idle"
    /\ job' = [job EXCEPT ![j] = "active"]
    /\ handler' = [handler EXCEPT ![j][w] = "started"]
    /\ UNCHANGED <<table, up, mailed, stalls, retries, crashes, history>>

Reach(j, w, step) ==
    /\ handler' = [handler EXCEPT ![j][w] = step]
    /\ UNCHANGED <<table, up, job, stalls, retries, crashes, history>>

\* The handler's promise settles and Bull moves the job if it is active, whichever run
\* took it: the lock names the process.  A job that is no longer active, or whose lock
\* is gone, stays where it is, and so does one when Redis does not answer.
Settle(j, w, states) ==
    /\ \/ job[j] = "active" /\ \E state \in states : job' = [job EXCEPT ![j] = state]
       \/ (job[j] = "active" => RedisFails(j)) /\ UNCHANGED job
    /\ handler' = [handler EXCEPT ![j][w] = "idle"]
    /\ UNCHANGED <<table, up, mailed, stalls, retries, crashes, history>>

\* Mutant: the mail is written from the event, without reading the booking.
DetailsFromEvent(j, w) ==
    /\ up /\ j[2] = Mail /\ handler[j][w] = "started"
    /\ Reach(j, w, "found") /\ UNCHANGED mailed

\* getDetails joins the row of this moment; without one it throws, and a query
\* that fails rejects.
GetDetails(j, w) ==
    /\ up /\ j[2] = Mail /\ handler[j][w] = "started"
    /\ \/ IsStored(j[1]) /\ Reach(j, w, "found") /\ UNCHANGED mailed
       \/ Settle(j, w, {"failed"})

\* The mail is accepted; or not, because there is no RESEND_API_KEY or because
\* the answer holds an error, which nobody looks at; or the call rejects.
SendBookingConfirmationEmail(j, w) ==
    /\ up /\ handler[j][w] = "found"
    /\ \/ Reach(j, w, "done") /\ mailed' = [mailed EXCEPT ![j] = @ + 1]
       \/ Reach(j, w, "done") /\ UNCHANGED mailed
       \/ Settle(j, w, {"failed"})

\* Mutant: the promise of sleep never resolves.
SleepsForever(j, w) == FALSE /\ UNCHANGED vars

\* The handler returns.  When Bull cannot move the job to completed it tries to fail
\* it.
CompleteJob(j, w) ==
    /\ up /\ handler[j][w] = "done"
    /\ Settle(j, w, {"completed", "failed"})

\* Sleeps, logs and returns.
HandleGenerateInvoice(j, w) ==
    /\ up /\ j[2] = Invoice /\ handler[j][w] = "started"
    /\ Settle(j, w, {"completed", "failed"})

\* Mutant: the stalled check does not count.
PutBackUncounted(j) ==
    /\ up /\ job[j] = "active"
    /\ job' = [job EXCEPT ![j] = "waiting"]
    /\ UNCHANGED <<table, up, handler, mailed, stalls, retries, crashes, history>>

\* Mutant: queue.module.ts raises settings.maxStalledCount to 2.
PutBackOnceMore(j) ==
    /\ up /\ job[j] = "active"
    /\ stalls' = [stalls EXCEPT ![j] = @ + 1]
    /\ job' = [job EXCEPT ![j] = IF stalls[j] <= MaxStalledCount THEN "waiting" ELSE "failed"]
    /\ UNCHANGED <<table, up, handler, mailed, retries, crashes, history>>

\* The stalled check finds an active job whose lock has run out.  It does not know
\* whether a handler works on the job, and stops none.
RecoverStalled(j) ==
    /\ up /\ job[j] = "active"
    /\ (\E w \in Runners : handler[j][w] # "idle") => RedisFails(j)
    /\ stalls' = [stalls EXCEPT ![j] = @ + 1]
    /\ job' = [job EXCEPT ![j] = IF stalls[j] < MaxStalledCount THEN "waiting" ELSE "failed"]
    /\ UNCHANGED <<table, up, handler, mailed, retries, crashes, history>>

\* Somebody presses retry on a failed job in the Bull Board.
RetryJob(j) ==
    /\ up /\ job[j] = "failed" /\ retries[j] < MaxRetries /\ Troubles(j) <= MaxTroubles
    /\ retries' = [retries EXCEPT ![j] = @ + 1]
    /\ job' = [job EXCEPT ![j] = "waiting"]
    /\ UNCHANGED <<table, up, handler, mailed, stalls, crashes, history>>

-----------------------------------------------------------------------------
\* The process

\* Everything in memory is gone; Postgres and Redis are not.
Crash ==
    /\ up /\ crashes < MaxCrashes
    /\ up' = FALSE
    /\ crashes' = crashes + 1
    /\ creating' = {}
    /\ job' = [j \in Jobs |-> IF job[j] = "adding" THEN "lost" ELSE job[j]]
    /\ handler' = [j \in Jobs |-> [w \in Runners |-> "idle"]]
    /\ interrupted' = interrupted \cup creating
                        \cup {b \in BookingIds : \E j \in Jobs : j[1] = b /\ job[j] = "adding"}
    /\ UNCHANGED <<row, mailed, stalls, retries, rejected>>

Restart == ~ up /\ up' = TRUE
           /\ UNCHANGED <<table, queue, mailed, crashes, history>>

-----------------------------------------------------------------------------
Init ==
    /\ row = [b \in BookingIds |-> "absent"]
    /\ up = TRUE
    /\ creating = {}
    /\ job = [j \in Jobs |-> "none"]
    /\ handler = [j \in Jobs |-> [w \in Runners |-> "idle"]]
    /\ mailed = [j \in Jobs |-> 0]
    /\ stalls = [j \in Jobs |-> 0]
    /\ retries = [j \in Jobs |-> 0]
    /\ crashes = 0
    /\ rejected = {} /\ interrupted = {}

Running(j, w) ==
    \/ TakeJob(j, w)
    \/ GetDetails(j, w) \/ SendBookingConfirmationEmail(j, w) \/ HandleGenerateInvoice(j, w)
    \/ CompleteJob(j, w)

Settling(j) == JobAdded(j) \/ (\E w \in Runners : Running(j, w)) \/ RecoverStalled(j)

Next ==
    \/ \E b \in BookingIds : \/ Insert(b) \/ ChangeStatus(b) \/ Remove(b)
                             \/ InsertUnanswered(b) \/ FinishCreate(b)
    \/ \E j \in Jobs : Settling(j) \/ JobAnswerLost(j) \/ AddRejects(j) \/ RetryJob(j)
    \/ Crash \/ Restart

Spec == Init /\ [][Next]_vars

\* The event loop runs what is ready; Redis, Resend and Postgres answer or fail while
\* the process is up; Bull looks for stalled jobs; the host restarts a dead process.
\* Of the steps that one job has before it, some one is taken in the end: nothing says
\* that a lock runs out under a handler that works.
Fairness ==
    /\ \A j \in Jobs : WF_vars(Settling(j))
    /\ WF_vars(Restart)

FairSpec == Spec /\ Fairness

-----------------------------------------------------------------------------
(***************************************************************************)
(* Properties                                                              *)
(***************************************************************************)

\* The shape of the state.
TypeOK ==
    /\ row \in [BookingIds -> Rows]
    /\ up \in BOOLEAN
    /\ creating \subseteq BookingIds
    /\ job \in [Jobs -> JobStates]
    /\ handler \in [Jobs -> [Runners -> HandlerStates]]
    /\ mailed \in [Jobs -> Nat]
    /\ stalls \in [Jobs -> Nat] /\ retries \in [Jobs -> Nat]
    /\ crashes \in Nat
    /\ rejected \subseteq Jobs /\ interrupted \subseteq BookingIds

\* A guest gets a second mail for one booking only for a reason: Bull found the job
\* stalled, somebody retried it, or the add itself was sent twice.  Without any, one
\* booking, one mail.
OneMailPerRun ==
    \A j \in Jobs : mailed[j] <= IF job[j] = "none" THEN 0 ELSE 1 + stalls[j] + retries[j]

\* However often the process dies, a lock runs out under a handler that works, or the
\* end of a run is lost, a job mails once more at most: Bull puts a job back one time,
\* and neither the runs that it left behind nor the one that it starts mail twice.
\* Beyond that somebody must press retry for each further mail.
MailsAreBounded ==
    \A j \in Jobs : mailed[j] <= 1 + MaxStalledCount + retries[j]

\* Once a booking is deleted and no handler has its details in hand, no mail goes
\* out for it, though its job may still be waiting, stalled or retried.
SilentOnceDeleted ==
    [][\A j \in Jobs :
          row[j[1]] = "deleted" /\ (\A w \in Runners : handler[j][w] # "found") =>
             (\A w \in Runners : handler'[j][w] # "found") /\ mailed'[j] = mailed[j]]_vars

\* A job of a booking whose create went on is missing from Redis only because
\* its own add rejected or its create was cut off: that one job of the two is lost
\* never costs the other.
LostOnItsOwn ==
    \A b \in BookingIds, k \in Kinds :
       /\ row[b] # "absent" /\ b \notin creating
       /\ job[<<b, k, 1>>] \in {"none", "lost"}
       => b \in interrupted \/ <<b, k, 1>> \in rejected

\* Every job that create adds comes to an end, and so does every handler, in whatever
\* order jobs are taken, although workers die over them, locks run out, the end of a
\* run is lost and failed ones are retried: again and again, nothing is left to do.
EveryJobSettles ==
    []<>(\A j \in Jobs : /\ job[j] \notin {"adding", "waiting", "active"}
                         /\ \A w \in Runners : handler[j][w] = "idle")

\* What a client of the queue sees of a job.
Stage(j) ==
    CASE job[j] = "none" -> "none"
      [] job[j] \in {"adding", "waiting", "active"} -> "open"
      [] OTHER -> "over"

Runs(j) == IF job[j] = "none" THEN 0 ELSE 1 + stalls[j] + retries[j]

Queue == INSTANCE JobQueue WITH
    state <- [j \in Jobs |-> Stage(j)], runs <- [j \in Jobs |-> Runs(j)], done <- mailed

\* The event, both adds, Bull and the worker, with their crashes, keep the promise
\* of a queue: each job is added once, mails at most once for each run, mails after
\* its end only when it was run again, and moves without the others.
ImplementsQueue == Queue!Spec

-----------------------------------------------------------------------------
(***************************************************************************)
(* What the repository says of itself and the code does not do             *)
(***************************************************************************)

\* The mail: "Your booking at ... is confirmed".
MailSaysConfirmed ==
    [][\A j \in Jobs : mailed'[j] # mailed[j] => row[j[1]] = "confirmed"]_vars
=============================================================================
