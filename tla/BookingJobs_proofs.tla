------------------------- MODULE BookingJobs_proofs -------------------------
(***************************************************************************)
(* The jobs after a booking: proofs for any number of bookings, crashes    *)
(* and retries.                                                            *)
(***************************************************************************)
EXTENDS BookingJobs, FiniteSetTheorems, TLAPS

\* The runners of a job.
LEMMA RunnersAre == Runners = {1, 2}
BY DEF Runners

\* Every step keeps the shape of the state.
LEMMA JobsTypeStep ==
  ASSUME TypeOK, [Next]_vars
  PROVE  TypeOK'
<1>. USE DEF TypeOK, Rows, JobStates, HandlerStates
<1>1. ASSUME NEW b \in BookingIds, Insert(b)  PROVE TypeOK'
  BY <1>1 DEF Insert, queue, history, BookingStatus
<1>2. ASSUME NEW b \in BookingIds, ChangeStatus(b)  PROVE TypeOK'
  BY <1>2 DEF ChangeStatus, queue, history, TableRow
<1>3. ASSUME NEW b \in BookingIds, Remove(b)  PROVE TypeOK'
  BY <1>3 DEF Remove, queue, history
<1>4. ASSUME NEW b \in BookingIds, InsertUnanswered(b)  PROVE TypeOK'
  BY <1>4 DEF InsertUnanswered, queue
<1>5. ASSUME NEW b \in BookingIds, FinishCreate(b)  PROVE TypeOK'
  BY <1>5 DEF FinishCreate, history
<1>6. ASSUME NEW j \in Jobs, JobAdded(j)  PROVE TypeOK'
  BY <1>6 DEF JobAdded, table, history
<1>7. ASSUME NEW j \in Jobs, AddRejects(j)  PROVE TypeOK'
  BY <1>7 DEF AddRejects, table
<1>8. ASSUME NEW j \in Jobs, JobAnswerLost(j)  PROVE TypeOK'
  BY <1>8 DEF JobAnswerLost, table, history
<1>9. ASSUME NEW j \in Jobs, NEW w \in Runners, TakeJob(j, w)  PROVE TypeOK'
  BY <1>9 DEF TakeJob, table, history
<1>s. ASSUME NEW j \in Jobs, NEW w \in Runners, NEW S \in SUBSET {"completed", "failed"},
             Settle(j, w, S)
      PROVE  TypeOK'
  <2>1. job' \in [Jobs -> JobStates]
    BY <1>s DEF Settle
  <2>. QED
    BY <1>s, <2>1 DEF Settle, table, history
<1>r. ASSUME NEW j \in Jobs, NEW w \in Runners, NEW step \in {"found", "done"},
             Reach(j, w, step), mailed' = mailed \/ mailed' = [mailed EXCEPT ![j] = @ + 1]
      PROVE  TypeOK'
  <2>1. mailed' \in [Jobs -> Nat]
    BY <1>r
  <2>. QED
    BY <1>r, <2>1 DEF Reach, table, history
<1>10. ASSUME NEW j \in Jobs, NEW w \in Runners, GetDetails(j, w)  PROVE TypeOK'
  BY <1>10, <1>s, <1>r DEF GetDetails
<1>11. ASSUME NEW j \in Jobs, NEW w \in Runners, SendBookingConfirmationEmail(j, w)
       PROVE  TypeOK'
  BY <1>11, <1>s, <1>r DEF SendBookingConfirmationEmail
<1>12. ASSUME NEW j \in Jobs, NEW w \in Runners, HandleGenerateInvoice(j, w) \/ CompleteJob(j, w)
       PROVE  TypeOK'
  BY <1>12, <1>s DEF HandleGenerateInvoice, CompleteJob
<1>13. ASSUME NEW j \in Jobs, RecoverStalled(j)  PROVE TypeOK'
  <2>1. job' \in [Jobs -> JobStates]
    BY <1>13 DEF RecoverStalled
  <2>2. /\ stalls' = [stalls EXCEPT ![j] = @ + 1]
        /\ UNCHANGED <<table, up, handler, mailed, retries, crashes, history>>
    BY <1>13 DEF RecoverStalled
  <2>. QED
    BY <2>1, <2>2 DEF table, history
<1>14. ASSUME NEW j \in Jobs, RetryJob(j)  PROVE TypeOK'
  <2>1. job' \in [Jobs -> JobStates]
    BY <1>14 DEF RetryJob
  <2>2. /\ retries' = [retries EXCEPT ![j] = @ + 1]
        /\ UNCHANGED <<table, up, handler, mailed, stalls, crashes, history>>
    BY <1>14 DEF RetryJob
  <2>. QED
    BY <2>1, <2>2 DEF table, history
<1>15. CASE Crash
  <2>1. job' \in [Jobs -> JobStates] /\ handler' \in [Jobs -> [Runners -> HandlerStates]]
    BY <1>15 DEF Crash
  <2>2. interrupted' \subseteq BookingIds
    BY <1>15 DEF Crash
  <2>3. row' = row /\ mailed' = mailed /\ stalls' = stalls /\ retries' = retries
    BY <1>15 DEF Crash
  <2>4. rejected' \subseteq Jobs /\ creating' \subseteq BookingIds /\ crashes' \in Nat
    BY <1>15 DEF Crash
  <2>5. up' \in BOOLEAN
    BY <1>15, Zenon DEF Crash
  <2>. QED
    BY <2>1, <2>2, <2>3, <2>4, <2>5
<1>16. CASE Restart
  BY <1>16 DEF Restart, table, queue, history
<1>17. CASE UNCHANGED vars
  BY <1>17 DEF vars
<1>. QED
  BY <1>1, <1>2, <1>3, <1>4, <1>5, <1>6, <1>7, <1>8, <1>9, <1>10, <1>11, <1>12, <1>13, <1>14,
     <1>15, <1>16, <1>17
     DEF Next, Settling, Running

\* The shape of the state, for any bookings and bounds.
THEOREM JobsTypeCorrect == Spec => []TypeOK
<1>1. Init => TypeOK
  BY DEF Init, TypeOK, Rows, JobStates, HandlerStates
<1>. QED
  BY <1>1, JobsTypeStep, PTL DEF Spec

-----------------------------------------------------------------------------
(***************************************************************************)
(* One mail for each run of the handler.  A run that may still mail, and a *)
(* job that is still to be run, hold a place among the mails that the      *)
(* job's put-backs and retries allow: what a stall or a retry starts is    *)
(* counted before it mails, however many runs of the job are under way.    *)
(***************************************************************************)

\* A job that is not in Redis yet has no handler.
IdleInv ==
    \A j \in Jobs : job[j] \in {"none", "adding"} => \A w \in Runners : handler[j][w] = "idle"

StoredInv == \A b \in creating : row[b] # "absent"

\* A booking whose create has not gone on has no jobs yet, and a job whose add has
\* not been written has no repetition.
FreshInv ==
    \A j \in Jobs :
       /\ row[j[1]] = "absent" \/ j[1] \in creating => job[j] = "none"
       /\ job[Repeated(j)] = "none" \/ job[<<j[1], j[2], 1>>] \notin {"none", "adding"}

\* How often Bull has put the job back.
PutBacks(j) == IF stalls[j] < MaxStalledCount THEN stalls[j] ELSE MaxStalledCount

\* One for a run that may still mail, and for a job that is to be run.
Pending(j, w) == IF handler[j][w] \in {"started", "found"} THEN 1 ELSE 0

Due(j) == IF job[j] \in {"none", "adding", "waiting"} THEN 1 ELSE 0

SentInv ==
    \A j \in Jobs :
       mailed[j] + Pending(j, 1) + Pending(j, 2) + Due(j) <= 1 + PutBacks(j) + retries[j]

\* Only a job that was found stalled has two runs, or one when it is not active.
QuietInv ==
    \A j \in Jobs :
       stalls[j] = 0 =>
          /\ job[j] # "active" => \A w \in Runners : handler[j][w] = "idle"
          /\ \E v \in Runners : \A w \in Runners : w # v => handler[j][w] = "idle"

UnusedInv == \A j \in Jobs : job[j] = "none" => mailed[j] = 0

MailInv ==
    TypeOK /\ IdleInv /\ StoredInv /\ FreshInv /\ SentInv /\ QuietInv /\ UnusedInv

\* The parts of a job.
LEMMA JobOf ==
  /\ \A b \in BookingIds, k \in Kinds, n \in {1, 2} : <<b, k, n>> \in Jobs
  /\ \A j \in Jobs : /\ j[1] \in BookingIds /\ j[2] \in Kinds /\ j[3] \in {1, 2}
                    /\ j = <<j[1], j[2], j[3]>>
                    /\ Repeated(j) \in Jobs /\ Repeated(j)[1] = j[1]
                    /\ Repeated(j)[2] = j[2] /\ Repeated(j)[3] = 2
BY DEF Jobs, Repeated

\* A create that has not gone on has stored its row.
LEMMA StoredStep ==
  ASSUME TypeOK, StoredInv, [Next]_vars
  PROVE  StoredInv'
<1>. SUFFICES ASSUME NEW c \in creating'  PROVE row'[c] # "absent"
  BY DEF StoredInv
<1>. USE DEF TypeOK, StoredInv
<1>1. ASSUME NEW b \in BookingIds, Insert(b) \/ Remove(b)  PROVE row'[c] # "absent"
  BY <1>1 DEF Insert, Remove
<1>2. ASSUME NEW b \in BookingIds, ChangeStatus(b)  PROVE row'[c] # "absent"
  BY <1>2 DEF ChangeStatus, TableRow, BookingStatus
<1>3. ASSUME NEW b \in BookingIds, InsertUnanswered(b) \/ FinishCreate(b)
      PROVE  row'[c] # "absent"
  BY <1>3 DEF InsertUnanswered, FinishCreate
<1>4. ASSUME NEW j \in Jobs, \/ Settling(j) \/ JobAnswerLost(j) \/ AddRejects(j) \/ RetryJob(j)
      PROVE  row' = row /\ creating' = creating
  BY <1>4 DEF Settling, Running, JobAdded, TakeJob, GetDetails, SendBookingConfirmationEmail,
              HandleGenerateInvoice, CompleteJob, RecoverStalled, JobAnswerLost, AddRejects, RetryJob,
              Reach, Settle, table
<1>5. CASE Crash \/ Restart \/ UNCHANGED vars
  BY <1>5 DEF Crash, Restart, vars, table
<1>. QED
  BY <1>1, <1>2, <1>3, <1>4, <1>5 DEF Next

\* A step of one job moves that job, and never back to its add; only an add that
\* rejects loses it.
LEMMA JobMoves ==
  ASSUME TypeOK, NEW j \in Jobs, Settling(j) \/ AddRejects(j) \/ RetryJob(j),
         NEW i \in Jobs
  PROVE  \/ job'[i] = job[i]
         \/ /\ i = j /\ job[j] # "none" /\ job'[j] \notin {"none", "adding"}
            /\ job'[j] # "lost" \/ AddRejects(j)
<1>. DEFINE Goal == \/ job'[i] = job[i]
                    \/ /\ i = j /\ job[j] # "none" /\ job'[j] \notin {"none", "adding"}
                       /\ job'[j] # "lost" \/ AddRejects(j)
<1>t. job \in [Jobs -> JobStates]
  BY DEF TypeOK
<1>1. CASE JobAdded(j) \/ AddRejects(j) \/ RetryJob(j) \/ RecoverStalled(j)
  BY <1>1, <1>t DEF JobAdded, AddRejects, RetryJob, RecoverStalled
<1>2. ASSUME NEW w \in Runners, TakeJob(j, w)  PROVE Goal
  BY <1>2, <1>t DEF TakeJob
<1>3. ASSUME NEW w \in Runners, NEW S \in SUBSET {"completed", "failed"}, Settle(j, w, S)
      PROVE  Goal
  BY <1>3, <1>t DEF Settle
<1>4. ASSUME NEW w \in Runners,
             \/ GetDetails(j, w) \/ SendBookingConfirmationEmail(j, w)
             \/ HandleGenerateInvoice(j, w) \/ CompleteJob(j, w)
      PROVE  Goal
  <2>1. \/ job' = job \/ \E S \in SUBSET {"completed", "failed"} : Settle(j, w, S)
    BY <1>4 DEF GetDetails, SendBookingConfirmationEmail, HandleGenerateInvoice, CompleteJob, Reach
  <2>. QED
    BY <2>1, <1>3
<1>. QED
  BY <1>1, <1>2, <1>4 DEF Settling, Running

\* A job whose answer was lost is in Redis, and its repetition is new.
LEMMA RepeatIsNew ==
  ASSUME TypeOK, FreshInv, NEW j \in Jobs, JobAnswerLost(j)
  PROVE  /\ job[j] = "adding" /\ j = <<j[1], j[2], 1>> /\ job[Repeated(j)] = "none"
         /\ job'[j] = "waiting" /\ job'[Repeated(j)] = "adding"
         /\ \A i \in Jobs : i # j /\ i # Repeated(j) => job'[i] = job[i]
<1>1. job[j] = "adding" /\ j[3] = 1
      /\ job' = [job EXCEPT ![j] = "waiting", ![Repeated(j)] = "adding"]
  BY DEF JobAnswerLost
<1>2. j = <<j[1], j[2], 1>> /\ Repeated(j) \in Jobs /\ Repeated(j)[3] = 2
  BY <1>1, JobOf
<1>3. job[Repeated(j)] = "none"
  BY <1>1, <1>2 DEF FreshInv
<1>4. job \in [Jobs -> JobStates] /\ j # Repeated(j)
  BY <1>1, <1>2 DEF TypeOK
<1>. QED
  BY <1>1, <1>2, <1>3, <1>4

\* A booking whose create has not gone on has no jobs yet.
LEMMA FreshStep ==
  ASSUME TypeOK, StoredInv, FreshInv, [Next]_vars
  PROVE  FreshInv'
<1>. DEFINE First(i) == <<i[1], i[2], 1>>
<1>. SUFFICES ASSUME NEW i \in Jobs
     PROVE  /\ row'[i[1]] = "absent" \/ i[1] \in creating' => job'[i] = "none"
            /\ job'[Repeated(i)] = "none" \/ job'[First(i)] \notin {"none", "adding"}
  BY DEF FreshInv
<1>i. /\ i[1] \in BookingIds /\ First(i) \in Jobs /\ First(i)[1] = i[1] /\ First(i)[3] = 1
      /\ Repeated(i) \in Jobs /\ Repeated(i)[1] = i[1] /\ Repeated(i)[3] = 2
  BY JobOf
<1>o. /\ row[i[1]] = "absent" \/ i[1] \in creating =>
            job[i] = "none" /\ job[First(i)] = "none" /\ job[Repeated(i)] = "none"
      /\ job[Repeated(i)] = "none" \/ job[First(i)] \notin {"none", "adding"}
  BY <1>i DEF FreshInv
<1>. HIDE DEF First
<1>. USE <1>i DEF TypeOK
<1>1. ASSUME NEW b \in BookingIds,
             Insert(b) \/ ChangeStatus(b) \/ Remove(b) \/ InsertUnanswered(b)
      PROVE  /\ job' = job
             /\ row'[i[1]] = "absent" \/ i[1] \in creating' =>
                   row[i[1]] = "absent" \/ i[1] \in creating
  BY <1>1 DEF Insert, ChangeStatus, Remove, InsertUnanswered, queue, IsStored, TableRow, BookingStatus
<1>2. ASSUME NEW b \in BookingIds, FinishCreate(b)
      PROVE  /\ row'[i[1]] = "absent" \/ i[1] \in creating' => job'[i] = "none"
             /\ job'[Repeated(i)] = "none" \/ job'[First(i)] \notin {"none", "adding"}
  <2>1. /\ b \in creating /\ creating' = creating \ {b} /\ row' = row
        /\ job' = [j \in Jobs |-> IF j[1] = b /\ j[3] = 1 THEN "adding" ELSE job[j]]
    BY <1>2 DEF FinishCreate
  <2>2. row[b] # "absent"
    BY <2>1 DEF StoredInv
  <2>3. CASE i[1] = b
    <3>1. job'[Repeated(i)] = job[Repeated(i)] /\ job[Repeated(i)] = "none"
      BY <2>1, <2>3, <1>o
    <3>. QED
      BY <2>1, <2>2, <2>3, <3>1
  <2>4. CASE i[1] # b
    <3>1. job'[i] = job[i] /\ job'[Repeated(i)] = job[Repeated(i)] /\ job'[First(i)] = job[First(i)]
      BY <2>1, <2>4
    <3>. QED
      BY <2>1, <2>4, <3>1, <1>o
  <2>. QED
    BY <2>3, <2>4
<1>3. ASSUME NEW j \in Jobs, \/ Settling(j) \/ AddRejects(j) \/ RetryJob(j)
      PROVE  /\ row'[i[1]] = "absent" \/ i[1] \in creating' => job'[i] = "none"
             /\ job'[Repeated(i)] = "none" \/ job'[First(i)] \notin {"none", "adding"}
  <2>1. row' = row /\ creating' = creating
    <3>1. ASSUME NEW w \in Runners, NEW step, Reach(j, w, step)  PROVE UNCHANGED table
      BY <3>1 DEF Reach
    <3>2. ASSUME NEW w \in Runners, NEW S, Settle(j, w, S)  PROVE UNCHANGED table
      BY <3>2 DEF Settle
    <3>3. ASSUME NEW w \in Runners, Running(j, w)  PROVE UNCHANGED table
      BY <3>1, <3>2, <3>3 DEF Running, TakeJob, GetDetails, SendBookingConfirmationEmail,
                              HandleGenerateInvoice, CompleteJob
    <3>4. CASE JobAdded(j) \/ AddRejects(j)
      BY <3>4 DEF JobAdded, AddRejects, table
    <3>5. CASE RecoverStalled(j)
      BY <3>5 DEF RecoverStalled, table
    <3>6. CASE RetryJob(j)
      BY <3>6 DEF RetryJob, table
    <3>. QED
      BY <1>3, <3>3, <3>4, <3>5, <3>6 DEF Settling, table
  <2>2. job[i] = "none" => job'[i] = "none"
    BY <1>3, JobMoves
  <2>3. job[Repeated(i)] = "none" => job'[Repeated(i)] = "none"
    BY <1>3, JobMoves
  <2>4. job[First(i)] \notin {"none", "adding"} => job'[First(i)] \notin {"none", "adding"}
    BY <1>3, JobMoves
  <2>. QED
    BY <2>1, <2>2, <2>3, <2>4, <1>o
<1>6. ASSUME NEW j \in Jobs, JobAnswerLost(j)
      PROVE  /\ row'[i[1]] = "absent" \/ i[1] \in creating' => job'[i] = "none"
             /\ job'[Repeated(i)] = "none" \/ job'[First(i)] \notin {"none", "adding"}
  <2>1. row' = row /\ creating' = creating
    BY <1>6 DEF JobAnswerLost, table
  <2>2. /\ job[j] = "adding" /\ j = <<j[1], j[2], 1>> /\ job[Repeated(j)] = "none"
        /\ job'[j] = "waiting" /\ job'[Repeated(j)] = "adding"
        /\ \A k \in Jobs : k # j /\ k # Repeated(j) => job'[k] = job[k]
    BY <1>6, RepeatIsNew
  <2>3. ~ (row[j[1]] = "absent" \/ j[1] \in creating)
    BY <2>2 DEF FreshInv
  <2>4. row[i[1]] = "absent" \/ i[1] \in creating => i[1] # j[1]
    BY <2>3
  <2>5. i[1] # j[1] => i # j /\ i # Repeated(j)
    BY JobOf
  <2>6. First(i) # Repeated(j)
    BY JobOf
  <2>7. Repeated(i) # j
    BY <2>2
  <2>8. Repeated(i) = Repeated(j) => First(i) = j
    BY <2>2 DEF Repeated, First
  <2>. QED
    BY <2>1, <2>2, <2>4, <2>5, <2>6, <2>7, <2>8, <1>o
<1>4. CASE Crash
  <2>1. row' = row /\ creating' = {}
    BY <1>4 DEF Crash
  <2>2. \A k \in Jobs : job'[k] = IF job[k] = "adding" THEN "lost" ELSE job[k]
    BY <1>4 DEF Crash
  <2>. QED
    BY <2>1, <2>2, <1>o
<1>5. CASE Restart \/ UNCHANGED vars
  BY <1>5, <1>o DEF Restart, vars, queue, table
<1>. QED
  BY <1>1, <1>2, <1>3, <1>4, <1>5, <1>6, <1>o DEF Next

\* A job is put back as often as it stalls at most, and no more than Bull allows.
LEMMA PutBacksType ==
  ASSUME TypeOK, NEW j \in Jobs
  PROVE  /\ PutBacks(j) \in Nat /\ PutBacks(j) <= stalls[j]
         /\ PutBacks(j) <= MaxStalledCount
BY DEF TypeOK, PutBacks, MaxStalledCount

(***************************************************************************)
(* What a step does to one job.                                            *)
(***************************************************************************)

Counts(m) == stalls'[m] = stalls[m] /\ retries'[m] = retries[m]

Keeps(m) == mailed'[m] = mailed[m] /\ Counts(m)

Stays(m) == job'[m] = job[m] /\ handler'[m] = handler[m] /\ Keeps(m)

Added(m) == job[m] = "none" /\ job'[m] = "adding" /\ handler'[m] = handler[m] /\ Keeps(m)

Written(m) ==
    job[m] = "adding" /\ job'[m] \in {"waiting", "lost"} /\ handler'[m] = handler[m] /\ Keeps(m)

Taken(m, w) ==
    /\ job[m] = "waiting" /\ job'[m] = "active" /\ Keeps(m)
    /\ handler[m][w] = "idle" /\ handler'[m] = [handler[m] EXCEPT ![w] = "started"]

Found(m, w) ==
    /\ job'[m] = job[m] /\ Keeps(m)
    /\ handler[m][w] = "started" /\ handler'[m] = [handler[m] EXCEPT ![w] = "found"]

Sent(m, w) ==
    /\ job'[m] = job[m] /\ Counts(m) /\ mailed'[m] \in {mailed[m], mailed[m] + 1}
    /\ handler[m][w] = "found" /\ handler'[m] = [handler[m] EXCEPT ![w] = "done"]

Settled(m, w) ==
    /\ job'[m] = job[m] \/ (job[m] = "active" /\ job'[m] \in {"completed", "failed"})
    /\ handler[m][w] # "idle" /\ handler'[m] = [handler[m] EXCEPT ![w] = "idle"]
    /\ Keeps(m)

Stalled(m) ==
    /\ job[m] = "active" /\ handler'[m] = handler[m]
    /\ job'[m] = IF stalls[m] < MaxStalledCount THEN "waiting" ELSE "failed"
    /\ mailed'[m] = mailed[m] /\ retries'[m] = retries[m] /\ stalls'[m] = stalls[m] + 1

Retried(m) ==
    /\ job[m] = "failed" /\ job'[m] = "waiting" /\ handler'[m] = handler[m]
    /\ mailed'[m] = mailed[m] /\ stalls'[m] = stalls[m] /\ retries'[m] = retries[m] + 1

Crashed(m) ==
    /\ job'[m] = (IF job[m] = "adding" THEN "lost" ELSE job[m])
    /\ handler'[m] = [w \in Runners |-> "idle"] /\ Keeps(m)

JobStep(m) ==
    \/ Stays(m) \/ Added(m) \/ Written(m) \/ Stalled(m) \/ Retried(m) \/ Crashed(m)
    \/ \E w \in Runners : Taken(m, w) \/ Found(m, w) \/ Sent(m, w) \/ Settled(m, w)

\* Each step does one of these to each job.
LEMMA JobSteps ==
  ASSUME TypeOK, FreshInv, [Next]_vars, NEW m \in Jobs
  PROVE  JobStep(m)
<1>t. /\ job \in [Jobs -> JobStates] /\ handler \in [Jobs -> [Runners -> HandlerStates]]
      /\ mailed \in [Jobs -> Nat] /\ stalls \in [Jobs -> Nat] /\ retries \in [Jobs -> Nat]
  BY DEF TypeOK
<1>n. Stays(m) => JobStep(m)
  BY DEF JobStep
<1>1. ASSUME NEW b \in BookingIds,
             Insert(b) \/ ChangeStatus(b) \/ Remove(b) \/ InsertUnanswered(b)
      PROVE  JobStep(m)
  <2>1. Stays(m)
    BY <1>1 DEF Insert, ChangeStatus, Remove, InsertUnanswered, queue, Stays, Keeps, Counts
  <2>. QED
    BY <2>1, <1>n
<1>2. ASSUME NEW b \in BookingIds, FinishCreate(b)  PROVE JobStep(m)
  <2>1. m[1] = b => job[m] = "none"
    BY <1>2 DEF FinishCreate, FreshInv
  <2>2. Stays(m) \/ Added(m)
    BY <1>2, <2>1 DEF FinishCreate, Stays, Added, Keeps, Counts
  <2>. QED
    BY <2>2 DEF JobStep
<1>3. ASSUME NEW j \in Jobs, JobAdded(j) \/ AddRejects(j)  PROVE JobStep(m)
  <2>1. Stays(m) \/ Written(m)
    BY <1>3, <1>t DEF JobAdded, AddRejects, Stays, Written, Keeps, Counts
  <2>. QED
    BY <2>1 DEF JobStep
<1>4. ASSUME NEW j \in Jobs, JobAnswerLost(j)  PROVE JobStep(m)
  <2>1. mailed' = mailed /\ stalls' = stalls /\ retries' = retries /\ handler' = handler
    BY <1>4 DEF JobAnswerLost
  <2>2. /\ job[j] = "adding" /\ job[Repeated(j)] = "none"
        /\ job'[j] = "waiting" /\ job'[Repeated(j)] = "adding"
        /\ \A k \in Jobs : k # j /\ k # Repeated(j) => job'[k] = job[k]
    BY <1>4, RepeatIsNew
  <2>3. Stays(m) \/ Written(m) \/ Added(m)
    BY <2>1, <2>2 DEF Stays, Written, Added, Keeps, Counts
  <2>. QED
    BY <2>3 DEF JobStep
<1>5. ASSUME NEW j \in Jobs, NEW w \in Runners, TakeJob(j, w)  PROVE JobStep(m)
  <2>1. CASE j = m
    <3>1. Taken(m, w)
      BY <1>5, <2>1, <1>t DEF TakeJob, Taken, Keeps, Counts
    <3>. QED
      BY <3>1 DEF JobStep
  <2>2. CASE j # m
    BY <1>5, <2>2, <1>t, <1>n DEF TakeJob, Stays, Keeps, Counts
  <2>. QED
    BY <2>1, <2>2
<1>s. ASSUME NEW j \in Jobs, NEW w \in Runners, NEW S \in SUBSET {"completed", "failed"},
             handler[j][w] # "idle", Settle(j, w, S)
      PROVE  JobStep(m)
  <2>1. CASE j = m
    <3>1. job'[m] = job[m] \/ (job[m] = "active" /\ job'[m] \in {"completed", "failed"})
      BY <1>s, <2>1, <1>t DEF Settle
    <3>2. Settled(m, w)
      BY <1>s, <2>1, <3>1, <1>t DEF Settle, Settled, Keeps, Counts
    <3>. QED
      BY <3>2 DEF JobStep
  <2>2. CASE j # m
    <3>1. job'[m] = job[m]
      BY <1>s, <2>2, <1>t DEF Settle
    <3>. QED
      BY <1>s, <2>2, <3>1, <1>t, <1>n DEF Settle, Stays, Keeps, Counts
  <2>. QED
    BY <2>1, <2>2
<1>6. ASSUME NEW j \in Jobs, NEW w \in Runners, GetDetails(j, w)  PROVE JobStep(m)
  <2>1. CASE Settle(j, w, {"failed"})
    BY <1>6, <2>1, <1>s DEF GetDetails
  <2>2. CASE Reach(j, w, "found") /\ UNCHANGED mailed
    <3>1. j = m => Found(m, w)
      BY <1>6, <2>2, <1>t DEF GetDetails, Reach, Found, Keeps, Counts
    <3>2. j # m => Stays(m)
      BY <2>2, <1>t DEF Reach, Stays, Keeps, Counts
    <3>. QED
      BY <3>1, <3>2 DEF JobStep
  <2>. QED
    BY <1>6, <2>1, <2>2 DEF GetDetails
<1>7. ASSUME NEW j \in Jobs, NEW w \in Runners, SendBookingConfirmationEmail(j, w)
      PROVE  JobStep(m)
  <2>1. CASE Settle(j, w, {"failed"})
    BY <1>7, <2>1, <1>s DEF SendBookingConfirmationEmail
  <2>2. ASSUME Reach(j, w, "done"), mailed' = mailed \/ mailed' = [mailed EXCEPT ![j] = @ + 1]
        PROVE  JobStep(m)
    <3>1. j = m => mailed'[m] \in {mailed[m], mailed[m] + 1}
      BY <2>2, <1>t
    <3>2. j = m => Sent(m, w)
      BY <1>7, <2>2, <3>1, <1>t DEF SendBookingConfirmationEmail, Reach, Sent, Counts
    <3>3. j # m => mailed'[m] = mailed[m]
      BY <2>2, <1>t
    <3>4. j # m => Stays(m)
      BY <2>2, <3>3, <1>t DEF Reach, Stays, Keeps, Counts
    <3>. QED
      BY <3>2, <3>4 DEF JobStep
  <2>. QED
    BY <1>7, <2>1, <2>2 DEF SendBookingConfirmationEmail
<1>8. ASSUME NEW j \in Jobs, NEW w \in Runners, HandleGenerateInvoice(j, w) \/ CompleteJob(j, w)
      PROVE  JobStep(m)
  BY <1>8, <1>s DEF HandleGenerateInvoice, CompleteJob
<1>9. ASSUME NEW j \in Jobs, RecoverStalled(j)  PROVE JobStep(m)
  <2>1. j = m => Stalled(m)
    BY <1>9, <1>t DEF RecoverStalled, Stalled
  <2>2. j # m => Stays(m)
    BY <1>9, <1>t DEF RecoverStalled, Stays, Keeps, Counts
  <2>. QED
    BY <2>1, <2>2 DEF JobStep
<1>10. ASSUME NEW j \in Jobs, RetryJob(j)  PROVE JobStep(m)
  <2>1. j = m => Retried(m)
    BY <1>10, <1>t DEF RetryJob, Retried
  <2>2. j # m => Stays(m)
    BY <1>10, <1>t DEF RetryJob, Stays, Keeps, Counts
  <2>. QED
    BY <2>1, <2>2 DEF JobStep
<1>11. CASE Crash
  <2>1. Crashed(m)
    BY <1>11 DEF Crash, Crashed, Keeps, Counts
  <2>. QED
    BY <2>1 DEF JobStep
<1>12. CASE Restart \/ UNCHANGED vars
  BY <1>12, <1>n DEF Restart, vars, queue, Stays, Keeps, Counts
<1>. QED
  BY <1>1, <1>2, <1>3, <1>4, <1>5, <1>6, <1>7, <1>8, <1>9, <1>10, <1>11, <1>12
     DEF Next, Settling, Running

\* A job that is not in Redis has no handler, and has mailed nothing.
LEMMA IdleStep ==
  ASSUME TypeOK, FreshInv, IdleInv, UnusedInv, [Next]_vars
  PROVE  IdleInv' /\ UnusedInv'
<1>. SUFFICES ASSUME NEW m \in Jobs
     PROVE  /\ job'[m] \in {"none", "adding"} => \A w \in Runners : handler'[m][w] = "idle"
            /\ job'[m] = "none" => mailed'[m] = 0
  BY DEF IdleInv, UnusedInv
<1>1. handler[m] \in [Runners -> HandlerStates]
  BY DEF TypeOK
<1>2. /\ job[m] \in {"none", "adding"} => \A w \in Runners : handler[m][w] = "idle"
      /\ job[m] = "none" => mailed[m] = 0
  BY DEF IdleInv, UnusedInv
<1>3. JobStep(m)
  BY JobSteps
<1>. QED
  BY <1>1, <1>2, <1>3
     DEF JobStep, Stays, Added, Written, Taken, Found, Sent, Settled, Stalled, Retried, Crashed,
         Keeps

\* A second run of a job, and one of a job that is not active, come from a stall.
LEMMA QuietStep ==
  ASSUME TypeOK, FreshInv, QuietInv, [Next]_vars
  PROVE  QuietInv'
<1>. DEFINE Single(h) == \E v \in Runners : \A w \in Runners : w # v => h[w] = "idle"
<1>. SUFFICES ASSUME NEW m \in Jobs, stalls'[m] = 0
     PROVE  /\ job'[m] # "active" => \A w \in Runners : handler'[m][w] = "idle"
            /\ Single(handler'[m])
  BY DEF QuietInv
<1>t. stalls[m] \in Nat /\ handler[m] \in [Runners -> HandlerStates]
  BY DEF TypeOK
<1>o. stalls[m] = 0 => /\ job[m] # "active" => \A w \in Runners : handler[m][w] = "idle"
                       /\ Single(handler[m])
  BY DEF QuietInv
<1>s. JobStep(m)
  BY JobSteps
<1>1. CASE Stays(m) \/ Added(m) \/ Written(m) \/ Retried(m)
  BY <1>1, <1>o, <1>t DEF Stays, Added, Written, Retried, Keeps, Counts
<1>2. CASE Crashed(m)
  <2>1. \A w \in Runners : handler'[m][w] = "idle"
    BY <1>2 DEF Crashed
  <2>. QED
    BY <2>1, RunnersAre
<1>3. CASE Stalled(m)
  BY <1>3, <1>t DEF Stalled
<1>4. ASSUME NEW w \in Runners, Taken(m, w)
      PROVE  job'[m] = "active" /\ Single(handler'[m])
  <2>1. \A v \in Runners : handler[m][v] = "idle"
    BY <1>4, <1>o DEF Taken, Keeps, Counts
  <2>2. \A v \in Runners : v # w => handler'[m][v] = "idle"
    BY <1>4, <2>1, <1>t DEF Taken
  <2>. QED
    BY <1>4, <2>2 DEF Taken
<1>5. ASSUME NEW w \in Runners, Found(m, w) \/ Sent(m, w) \/ Settled(m, w)
      PROVE  /\ job'[m] # "active" => \A v \in Runners : handler'[m][v] = "idle"
             /\ Single(handler'[m])
  <2>1. /\ handler[m][w] # "idle" /\ stalls[m] = 0
        /\ \A v \in Runners : v # w => handler'[m][v] = handler[m][v]
    BY <1>5, <1>t DEF Found, Sent, Settled, Keeps, Counts
  <2>2. job[m] = "active" /\ \A v \in Runners : v # w => handler[m][v] = "idle"
    BY <2>1, <1>o
  <2>3. job'[m] # "active" => handler'[m][w] = "idle"
    BY <1>5, <2>2, <1>t DEF Found, Sent, Settled
  <2>. QED
    BY <2>1, <2>2, <2>3
<1>. QED
  BY <1>s, <1>1, <1>2, <1>3, <1>4, <1>5 DEF JobStep

\* What a run may still mail is part of what the put-backs and retries allow.
LEMMA SentStep ==
  ASSUME TypeOK, FreshInv, SentInv, [Next]_vars
  PROVE  SentInv'
<1>. SUFFICES ASSUME NEW m \in Jobs
     PROVE  mailed'[m] + Pending(m, 1)' + Pending(m, 2)' + Due(m)'
               <= 1 + PutBacks(m)' + retries'[m]
  BY DEF SentInv
<1>o. mailed[m] + Pending(m, 1) + Pending(m, 2) + Due(m) <= 1 + PutBacks(m) + retries[m]
  BY DEF SentInv
<1>t. /\ mailed[m] \in Nat /\ stalls[m] \in Nat /\ retries[m] \in Nat /\ PutBacks(m) \in Nat
      /\ handler[m] \in [Runners -> HandlerStates] /\ Runners = {1, 2}
  BY PutBacksType, RunnersAre DEF TypeOK
<1>p. /\ \A w \in Runners : /\ Pending(m, w) \in {0, 1} /\ Pending(m, w)' \in {0, 1}
                            /\ Pending(m, w)' = IF handler'[m][w] \in {"started", "found"}
                                                THEN 1 ELSE 0
                            /\ Pending(m, w) = IF handler[m][w] \in {"started", "found"}
                                               THEN 1 ELSE 0
      /\ Due(m) \in {0, 1} /\ Due(m)' \in {0, 1}
      /\ Due(m) = IF job[m] \in {"none", "adding", "waiting"} THEN 1 ELSE 0
      /\ Due(m)' = IF job'[m] \in {"none", "adding", "waiting"} THEN 1 ELSE 0
  BY DEF Pending, Due
<1>b. Counts(m) => PutBacks(m)' = PutBacks(m) /\ retries'[m] = retries[m]
  BY DEF PutBacks, Counts
<1>h. handler'[m] = handler[m] => \A w \in Runners : Pending(m, w)' = Pending(m, w)
  BY DEF Pending
<1>s. JobStep(m)
  BY JobSteps
<1>1. CASE Stays(m) \/ Added(m) \/ Written(m)
  <2>1. \A w \in Runners : Pending(m, w)' = Pending(m, w)
    BY <1>1, <1>h DEF Stays, Added, Written
  <2>2. Due(m)' <= Due(m)
    BY <1>1, <1>p DEF Stays, Added, Written
  <2>3. mailed'[m] = mailed[m] /\ PutBacks(m)' = PutBacks(m) /\ retries'[m] = retries[m]
    BY <1>1, <1>b DEF Stays, Added, Written, Keeps
  <2>. QED
    BY <2>1, <2>2, <2>3, <1>o, <1>t, <1>p
<1>2. CASE Crashed(m)
  <2>1. \A w \in Runners : Pending(m, w)' = 0
    BY <1>2, <1>p DEF Crashed
  <2>2. Due(m)' <= Due(m)
    BY <1>2, <1>p DEF Crashed
  <2>3. mailed'[m] = mailed[m] /\ PutBacks(m)' = PutBacks(m) /\ retries'[m] = retries[m]
    BY <1>2, <1>b DEF Crashed, Keeps
  <2>. QED
    BY <2>1, <2>2, <2>3, <1>o, <1>t, <1>p
<1>3. CASE Stalled(m)
  <2>1. \A w \in Runners : Pending(m, w)' = Pending(m, w)
    BY <1>3, <1>h DEF Stalled
  <2>2. mailed'[m] = mailed[m] /\ retries'[m] = retries[m] /\ stalls'[m] = stalls[m] + 1
    BY <1>3 DEF Stalled
  <2>3. CASE stalls[m] < MaxStalledCount
    <3>1. PutBacks(m)' = PutBacks(m) + 1
      BY <2>2, <2>3, <1>t DEF PutBacks, MaxStalledCount
    <3>2. Due(m) = 0
      BY <1>3, <1>p DEF Stalled
    <3>. QED
      BY <2>1, <2>2, <3>1, <3>2, <1>o, <1>t, <1>p
  <2>4. CASE ~ (stalls[m] < MaxStalledCount)
    <3>1. PutBacks(m)' = PutBacks(m)
      BY <2>2, <2>4, <1>t DEF PutBacks, MaxStalledCount
    <3>2. Due(m)' = 0
      BY <1>3, <2>4, <1>p DEF Stalled
    <3>. QED
      BY <2>1, <2>2, <3>1, <3>2, <1>o, <1>t, <1>p
  <2>. QED
    BY <2>3, <2>4
<1>4. CASE Retried(m)
  <2>1. \A w \in Runners : Pending(m, w)' = Pending(m, w)
    BY <1>4, <1>h DEF Retried
  <2>2. mailed'[m] = mailed[m] /\ retries'[m] = retries[m] + 1 /\ PutBacks(m)' = PutBacks(m)
    BY <1>4 DEF Retried, PutBacks
  <2>3. Due(m) = 0
    BY <1>4, <1>p DEF Retried
  <2>. QED
    BY <2>1, <2>2, <2>3, <1>o, <1>t, <1>p
<1>5. ASSUME NEW w \in Runners, Taken(m, w) \/ Found(m, w) \/ Sent(m, w) \/ Settled(m, w)
      PROVE  mailed'[m] + Pending(m, 1)' + Pending(m, 2)' + Due(m)'
                <= 1 + PutBacks(m)' + retries'[m]
  <2>1. PutBacks(m)' = PutBacks(m) /\ retries'[m] = retries[m]
    BY <1>5, <1>b DEF Taken, Found, Sent, Settled, Keeps
  <2>2. \A v \in Runners : v # w => Pending(m, v)' = Pending(m, v)
    <3>1. \A v \in Runners : v # w => handler'[m][v] = handler[m][v]
      BY <1>5, <1>t DEF Taken, Found, Sent, Settled
    <3>. QED
      BY <3>1, <1>p
  <2>3. mailed'[m] \in Nat /\ mailed'[m] + Pending(m, w)' + Due(m)' <= mailed[m] + Pending(m, w) + Due(m)
    <3>1. CASE Taken(m, w)
      <4>1. Pending(m, w)' = 1 /\ Due(m) = 1 /\ Due(m)' = 0
        BY <3>1, <1>p, <1>t DEF Taken
      <4>. QED
        BY <3>1, <4>1, <1>p, <1>t DEF Taken, Keeps
    <3>2. CASE Found(m, w)
      <4>1. Pending(m, w) = 1 /\ Due(m)' = Due(m)
        BY <3>2, <1>p DEF Found
      <4>. QED
        BY <3>2, <4>1, <1>p, <1>t DEF Found, Keeps
    <3>3. CASE Sent(m, w)
      <4>1. Pending(m, w) = 1 /\ Pending(m, w)' = 0 /\ Due(m)' = Due(m)
        BY <3>3, <1>p, <1>t DEF Sent
      <4>. QED
        BY <3>3, <4>1, <1>p, <1>t DEF Sent
    <3>4. CASE Settled(m, w)
      <4>1. Pending(m, w)' = 0 /\ Due(m)' <= Due(m)
        BY <3>4, <1>p, <1>t DEF Settled
      <4>. QED
        BY <3>4, <4>1, <1>p, <1>t DEF Settled, Keeps
    <3>. QED
      BY <1>5, <3>1, <3>2, <3>3, <3>4
  <2>4. CASE w = 1
    <3>1. Pending(m, 2)' = Pending(m, 2)
      BY <2>2, <2>4, <1>t
    <3>. QED
      BY <2>1, <2>3, <2>4, <3>1, <1>o, <1>t, <1>p
  <2>5. CASE w = 2
    <3>1. Pending(m, 1)' = Pending(m, 1)
      BY <2>2, <2>5, <1>t
    <3>. QED
      BY <2>1, <2>3, <2>5, <3>1, <1>o, <1>t, <1>p
  <2>. QED
    BY <2>4, <2>5, RunnersAre
<1>. QED
  BY <1>s, <1>1, <1>2, <1>3, <1>4, <1>5 DEF JobStep

\* The inductive invariant of the jobs, for any bookings and bounds.
THEOREM MailInvariant == Spec => []MailInv
<1>1. Init => MailInv
  <2>1. ASSUME Init  PROVE TypeOK
    BY <2>1 DEF Init, TypeOK, Rows, JobStates, HandlerStates
  <2>2. ASSUME Init  PROVE IdleInv /\ StoredInv /\ FreshInv /\ UnusedInv
    BY <2>2, JobOf DEF Init, IdleInv, StoredInv, FreshInv, UnusedInv
  <2>3. ASSUME Init  PROVE SentInv
    <3>. SUFFICES ASSUME NEW j \in Jobs
         PROVE  mailed[j] + Pending(j, 1) + Pending(j, 2) + Due(j) <= 1 + PutBacks(j) + retries[j]
      BY DEF SentInv
    <3>1. mailed[j] = 0 /\ PutBacks(j) = 0 /\ retries[j] = 0
      BY <2>3 DEF Init, PutBacks, MaxStalledCount
    <3>2. Pending(j, 1) = 0 /\ Pending(j, 2) = 0 /\ Due(j) = 1
      BY <2>3, RunnersAre DEF Init, Pending, Due
    <3>. QED
      BY <3>1, <3>2
  <2>4. ASSUME Init  PROVE QuietInv
    BY <2>4, RunnersAre DEF Init, QuietInv
  <2>. QED
    BY <2>1, <2>2, <2>3, <2>4 DEF MailInv
<1>2. MailInv /\ [Next]_vars => MailInv'
  BY JobsTypeStep, IdleStep, StoredStep, FreshStep, SentStep, QuietStep DEF MailInv
<1>. QED
  BY <1>1, <1>2, PTL DEF Spec

\* No more mails than the put-backs and retries allow.
LEMMA SentBound ==
  ASSUME MailInv, NEW j \in Jobs
  PROVE  /\ mailed[j] <= 1 + PutBacks(j) + retries[j]
         /\ \A w \in Runners : handler[j][w] = "found" => mailed[j] <= PutBacks(j) + retries[j]
<1>1. mailed[j] + Pending(j, 1) + Pending(j, 2) + Due(j) <= 1 + PutBacks(j) + retries[j]
  BY DEF MailInv, SentInv
<1>2. mailed[j] \in Nat /\ retries[j] \in Nat /\ PutBacks(j) \in Nat
  BY PutBacksType DEF MailInv, TypeOK
<1>3. Pending(j, 1) \in {0, 1} /\ Pending(j, 2) \in {0, 1} /\ Due(j) \in {0, 1}
  BY DEF Pending, Due
<1>4. ASSUME NEW w \in Runners, handler[j][w] = "found"
      PROVE  Pending(j, 1) = 1 \/ Pending(j, 2) = 1
  BY <1>4, RunnersAre DEF Pending
<1>. QED
  BY <1>1, <1>2, <1>3, <1>4

\* A guest gets no second mail for a booking unless Bull found the job stalled,
\* somebody retried it or the add was sent twice, however the steps mix.
THEOREM MailsAreCounted == Spec => []OneMailPerRun
<1>1. MailInv => OneMailPerRun
  <2>. SUFFICES ASSUME MailInv, NEW j \in Jobs
       PROVE  mailed[j] <= IF job[j] = "none" THEN 0 ELSE 1 + stalls[j] + retries[j]
    BY DEF OneMailPerRun
  <2>1. mailed[j] \in Nat /\ stalls[j] \in Nat /\ retries[j] \in Nat
    BY DEF MailInv, TypeOK
  <2>2. mailed[j] <= 1 + PutBacks(j) + retries[j]
    BY SentBound
  <2>3. job[j] = "none" => mailed[j] = 0
    BY DEF MailInv, UnusedInv
  <2>4. PutBacks(j) \in Nat /\ PutBacks(j) <= stalls[j]
    BY PutBacksType DEF MailInv
  <2>. QED
    BY <2>1, <2>2, <2>3, <2>4
<1>. QED
  BY <1>1, MailInvariant, PTL

\* However many crashes there are, and however often a lock runs out under a handler
\* or the end of a run is lost, a job mails twice at most, but for the retries that
\* somebody asked for.
THEOREM MailsStayBounded == Spec => []MailsAreBounded
<1>1. MailInv => MailsAreBounded
  <2>. SUFFICES ASSUME MailInv, NEW j \in Jobs
       PROVE  mailed[j] <= 1 + MaxStalledCount + retries[j]
    BY DEF MailsAreBounded
  <2>1. mailed[j] \in Nat /\ retries[j] \in Nat /\ MaxStalledCount \in Nat
    BY DEF MailInv, TypeOK, MaxStalledCount
  <2>2. mailed[j] <= 1 + PutBacks(j) + retries[j]
    BY SentBound
  <2>3. PutBacks(j) \in Nat /\ PutBacks(j) <= MaxStalledCount
    BY PutBacksType DEF MailInv
  <2>. QED
    BY <2>1, <2>2, <2>3
<1>. QED
  BY <1>1, MailInvariant, PTL

-----------------------------------------------------------------------------
\* No mail for a deleted booking, unless a handler had read it before.
THEOREM DeletedIsSilent == Spec => SilentOnceDeleted
<1>1. ASSUME MailInv, [Next]_vars
      PROVE  [\A j \in Jobs :
                 row[j[1]] = "deleted" /\ (\A w \in Runners : handler[j][w] # "found") =>
                    (\A w \in Runners : handler'[j][w] # "found") /\ mailed'[j] = mailed[j]]_vars
  <2>. SUFFICES ASSUME NEW m \in Jobs, row[m[1]] = "deleted",
                       \A w \in Runners : handler[m][w] # "found"
       PROVE  (\A w \in Runners : handler'[m][w] # "found") /\ mailed'[m] = mailed[m]
    OBVIOUS
  <2>t. handler[m] \in [Runners -> HandlerStates] /\ handler \in [Jobs -> [Runners -> HandlerStates]]
    BY <1>1 DEF MailInv, TypeOK
  <2>1. JobStep(m)
    BY <1>1, JobSteps DEF MailInv
  <2>2. CASE Stays(m) \/ Added(m) \/ Written(m) \/ Stalled(m) \/ Retried(m) \/ Crashed(m)
    BY <2>2 DEF Stays, Added, Written, Stalled, Retried, Crashed, Keeps
  <2>3. ASSUME NEW w \in Runners, Taken(m, w) \/ Sent(m, w) \/ Settled(m, w)
        PROVE  (\A v \in Runners : handler'[m][v] # "found") /\ mailed'[m] = mailed[m]
    BY <2>3, <2>t DEF Taken, Sent, Settled, Keeps
  <2>4. ASSUME NEW w \in Runners  PROVE ~ Found(m, w)
    <3>. SUFFICES ASSUME Found(m, w)  PROVE FALSE
      OBVIOUS
    <3>1. handler[m][w] = "started" /\ handler'[m][w] = "found"
      BY <2>t DEF Found
    <3>2. ASSUME NEW j \in Jobs, NEW v \in Runners,
                 Reach(j, v, "done") \/ (\E S : Settle(j, v, S))
          PROVE  FALSE
      <4>1. handler' = [handler EXCEPT ![j][v] = "done"] \/ handler' = [handler EXCEPT ![j][v] = "idle"]
        BY <3>2 DEF Reach, Settle
      <4>. QED
        BY <3>1, <4>1, <2>t
    <3>3. ASSUME NEW j \in Jobs, NEW v \in Runners, GetDetails(j, v)  PROVE FALSE
      <4>1. IsStored(j[1]) => j # m
        BY DEF IsStored
      <4>2. CASE Reach(j, v, "found") /\ IsStored(j[1])
        <5>1. handler' = [handler EXCEPT ![j][v] = "found"]
          BY <4>2 DEF Reach
        <5>. QED
          BY <3>1, <4>1, <4>2, <5>1, <2>t
      <4>. QED
        BY <3>2, <3>3, <4>2 DEF GetDetails
    <3>4. ASSUME NEW j \in Jobs, NEW v \in Runners,
                 SendBookingConfirmationEmail(j, v) \/ HandleGenerateInvoice(j, v) \/ CompleteJob(j, v)
          PROVE  FALSE
      BY <3>2, <3>4 DEF SendBookingConfirmationEmail, HandleGenerateInvoice, CompleteJob
    <3>5. ASSUME NEW j \in Jobs, NEW v \in Runners, TakeJob(j, v)  PROVE FALSE
      BY <3>1, <3>5, <2>t DEF TakeJob
    <3>6. ASSUME NEW j \in Jobs, \/ JobAdded(j) \/ RecoverStalled(j) \/ JobAnswerLost(j)
                                 \/ AddRejects(j) \/ RetryJob(j)
          PROVE  FALSE
      BY <3>1, <3>6 DEF JobAdded, RecoverStalled, JobAnswerLost, AddRejects, RetryJob
    <3>7. ASSUME NEW b \in BookingIds, \/ Insert(b) \/ ChangeStatus(b) \/ Remove(b)
                                       \/ InsertUnanswered(b) \/ FinishCreate(b)
          PROVE  FALSE
      BY <3>1, <3>7 DEF Insert, ChangeStatus, Remove, InsertUnanswered, FinishCreate, queue
    <3>8. CASE Crash
      BY <3>1, <3>8 DEF Crash
    <3>9. CASE Restart \/ UNCHANGED vars
      BY <3>1, <3>9 DEF Restart, vars, queue
    <3>. QED
      BY <1>1, <3>3, <3>4, <3>5, <3>6, <3>7, <3>8, <3>9 DEF Next, Settling, Running
  <2>. QED
    BY <2>1, <2>2, <2>3, <2>4 DEF JobStep
<1>. QED
  BY <1>1, MailInvariant, PTL DEF Spec, SilentOnceDeleted

-----------------------------------------------------------------------------
\* A job that is not in Redis has a reason of its own, or its create was cut off.
THEOREM JobsLostAlone == Spec => []LostOnItsOwn
<1>1. Init => LostOnItsOwn
  BY DEF Init, LostOnItsOwn
<1>2. ASSUME MailInv, LostOnItsOwn, [Next]_vars
      PROVE  LostOnItsOwn'
  <2>. SUFFICES ASSUME NEW c \in BookingIds, NEW k \in Kinds, row'[c] # "absent",
                       c \notin creating', job'[<<c, k, 1>>] \in {"none", "lost"}
       PROVE  c \in interrupted' \/ <<c, k, 1>> \in rejected'
    BY DEF LostOnItsOwn
  <2>i. <<c, k, 1>> \in Jobs
    BY JobOf
  <2>t. /\ row \in [BookingIds -> Rows] /\ job \in [Jobs -> JobStates]
        /\ creating \subseteq BookingIds
    BY <1>2 DEF MailInv, TypeOK
  <2>o. row[c] # "absent" /\ c \notin creating /\ job[<<c, k, 1>>] \in {"none", "lost"}
          => c \in interrupted \/ <<c, k, 1>> \in rejected
    BY <1>2 DEF LostOnItsOwn
  <2>1. ASSUME NEW b \in BookingIds, Insert(b) \/ ChangeStatus(b) \/ Remove(b)
        PROVE  /\ row[c] # "absent" /\ c \notin creating /\ job' = job
               /\ interrupted' = interrupted /\ rejected' = rejected
    BY <2>1, <2>t DEF Insert, ChangeStatus, Remove, IsStored, queue, history, TableRow
  <2>2. ASSUME NEW b \in BookingIds, InsertUnanswered(b)
        PROVE  c \in interrupted' \/ <<c, k, 1>> \in rejected'
    BY <2>2, <2>o DEF InsertUnanswered, queue
  <2>3. ASSUME NEW b \in BookingIds, FinishCreate(b)
        PROVE  c \in interrupted' \/ <<c, k, 1>> \in rejected'
    <3>1. c # b
      BY <2>3, <2>i DEF FinishCreate
    <3>. QED
      BY <2>3, <2>o, <2>i, <3>1 DEF FinishCreate, history
  <2>4. ASSUME NEW j \in Jobs, Settling(j) \/ AddRejects(j) \/ RetryJob(j)
        PROVE  c \in interrupted' \/ <<c, k, 1>> \in rejected'
    <3>1. row' = row /\ creating' = creating /\ interrupted' = interrupted
          /\ rejected \subseteq rejected'
      BY <2>4 DEF Settling, Running, JobAdded, TakeJob, GetDetails, SendBookingConfirmationEmail,
                  HandleGenerateInvoice, CompleteJob, RecoverStalled, AddRejects, RetryJob,
                  Reach, Settle, table, history
    <3>2. job'[<<c, k, 1>>] = job[<<c, k, 1>>] \/ <<c, k, 1>> \in rejected'
      <4>1. AddRejects(j) => j \in rejected'
        BY DEF AddRejects
      <4>. QED
        BY <1>2, <2>4, <2>i, <4>1, JobMoves DEF MailInv
    <3>. QED
      BY <3>1, <3>2, <2>o
  <2>7. ASSUME NEW j \in Jobs, JobAnswerLost(j)
        PROVE  c \in interrupted' \/ <<c, k, 1>> \in rejected'
    <3>1. row' = row /\ creating' = creating /\ interrupted' = interrupted /\ rejected' = rejected
      BY <2>7 DEF JobAnswerLost, table, history
    <3>2. /\ job'[j] = "waiting" /\ job'[Repeated(j)] = "adding"
          /\ \A i \in Jobs : i # j /\ i # Repeated(j) => job'[i] = job[i]
      BY <1>2, <2>7, RepeatIsNew DEF MailInv
    <3>. QED
      BY <3>1, <3>2, <2>o, <2>i
  <2>5. CASE Crash
    <3>1. /\ row' = row /\ rejected' = rejected
          /\ job'[<<c, k, 1>>] = IF job[<<c, k, 1>>] = "adding" THEN "lost" ELSE job[<<c, k, 1>>]
      BY <2>5, <2>i DEF Crash
    <3>2. /\ interrupted \subseteq interrupted'
          /\ c \in creating => c \in interrupted'
      BY <2>5 DEF Crash
    <3>3. job[<<c, k, 1>>] = "adding" => c \in interrupted'
      BY <2>5, <2>i DEF Crash
    <3>. QED
      BY <3>1, <3>2, <3>3, <2>o
  <2>6. CASE Restart \/ UNCHANGED vars
    BY <2>6, <2>o DEF Restart, vars, table, queue, history
  <2>. QED
    BY <1>2, <2>1, <2>2, <2>3, <2>4, <2>5, <2>6, <2>7, <2>o DEF Next
<1>. QED
  BY <1>1, <1>2, MailInvariant, PTL DEF Spec

-----------------------------------------------------------------------------
(***************************************************************************)
(* The jobs implement JobQueue: each step is, for each job on its own, a   *)
(* step of the abstract queue or none.                                     *)
(***************************************************************************)

\* Nothing is counted of a job that does not exist.
CountInv == \A j \in Jobs : job[j] = "none" => stalls[j] = 0 /\ retries[j] = 0

\* What a step does to one job, in the terms of the queue.
StageStep(m) ==
    \/ Stage(m) = "none" /\ Stage(m)' = "open" /\ Runs(m)' = 1 /\ mailed'[m] = mailed[m]
    \/ /\ mailed[m] < Runs(m) /\ (Stage(m) = "open" \/ Runs(m) > 1)
       /\ mailed'[m] = mailed[m] + 1 /\ Stage(m)' = Stage(m) /\ Runs(m)' = Runs(m)
    \/ /\ Stage(m) # "none" /\ Stage(m)' = "open"
       /\ Runs(m)' = Runs(m) + 1 /\ mailed'[m] = mailed[m]
    \/ /\ Stage(m) = "open" /\ Stage(m)' = "over"
       /\ Runs(m)' \in {Runs(m), Runs(m) + 1} /\ mailed'[m] = mailed[m]
    \/ Stage(m)' = Stage(m) /\ Runs(m)' = Runs(m) /\ mailed'[m] = mailed[m]

\* Counts are kept of jobs that exist only, and no job stops existing.
LEMMA CountStep ==
  ASSUME TypeOK, FreshInv, CountInv, [Next]_vars
  PROVE  CountInv'
<1>. SUFFICES ASSUME NEW m \in Jobs, job'[m] = "none"
     PROVE  stalls'[m] = 0 /\ retries'[m] = 0
  BY DEF CountInv
<1>1. job[m] = "none" => stalls[m] = 0 /\ retries[m] = 0
  BY DEF CountInv
<1>2. JobStep(m)
  BY JobSteps
<1>. QED
  BY <1>1, <1>2
     DEF JobStep, Stays, Added, Written, Taken, Found, Sent, Settled, Stalled, Retried, Crashed,
         Keeps, Counts

\* Each job takes a step of the queue, or none.
LEMMA EachStageSteps ==
  ASSUME MailInv, CountInv, [Next]_vars, NEW m \in Jobs
  PROVE  StageStep(m)
<1>i. TypeOK /\ FreshInv
  BY DEF MailInv
<1>t. /\ mailed[m] \in Nat /\ stalls[m] \in Nat /\ retries[m] \in Nat
      /\ job[m] \in JobStates
  BY <1>i DEF TypeOK
<1>s. /\ Stage(m) = "none" <=> job[m] = "none"
      /\ Stage(m) = "open" <=> job[m] \in {"adding", "waiting", "active"}
      /\ Stage(m) = "over" <=> job[m] \in {"lost", "completed", "failed"}
      /\ Stage(m)' = "none" <=> job'[m] = "none"
      /\ Stage(m)' = "open" <=> job'[m] \in {"adding", "waiting", "active"}
      /\ job'[m] \in {"lost", "completed", "failed"} => Stage(m)' = "over"
  BY <1>t DEF Stage, JobStates
<1>r. /\ job[m] # "none" => Runs(m) = 1 + stalls[m] + retries[m]
      /\ job[m] = "none" => Runs(m) = 0 /\ stalls[m] = 0 /\ retries[m] = 0
      /\ job'[m] # "none" => Runs(m)' = 1 + stalls'[m] + retries'[m]
  BY DEF Runs, CountInv
<1>k. ASSUME job'[m] = job[m], Counts(m)  PROVE Stage(m)' = Stage(m) /\ Runs(m)' = Runs(m)
  BY <1>k DEF Stage, Runs, Counts
<1>e. ASSUME Stage(m) = "open", job'[m] \in {"lost", "completed", "failed"}, Keeps(m)
      PROVE  StageStep(m)
  BY <1>e, <1>s, <1>r DEF StageStep, Keeps, Counts
<1>o. ASSUME Stage(m) = "open", job'[m] \in {"adding", "waiting", "active"}, Keeps(m)
      PROVE  StageStep(m)
  BY <1>o, <1>s, <1>r DEF StageStep, Keeps, Counts
<1>n. ASSUME job'[m] = job[m], Keeps(m)  PROVE StageStep(m)
  BY <1>n, <1>k DEF StageStep, Keeps
<1>x. JobStep(m)
  BY <1>i, JobSteps
<1>1. CASE Stays(m)
  BY <1>1, <1>n DEF Stays
<1>2. CASE Added(m)
  BY <1>2, <1>s, <1>r DEF StageStep, Added, Keeps, Counts
<1>3. CASE Written(m)
  BY <1>3, <1>s, <1>e, <1>o DEF Written
<1>4. CASE Crashed(m)
  BY <1>4, <1>s, <1>e, <1>n DEF Crashed
<1>5. CASE Stalled(m) \/ Retried(m)
  <2>1. /\ mailed'[m] = mailed[m]
        /\ 1 + stalls'[m] + retries'[m] = 1 + stalls[m] + retries[m] + 1
    BY <1>5, <1>t DEF Stalled, Retried
  <2>2. job[m] \in {"active", "failed"} /\ job'[m] \in {"waiting", "failed"}
    BY <1>5 DEF Stalled, Retried
  <2>3. job[m] = "failed" => job'[m] = "waiting"
    BY <1>5 DEF Stalled, Retried
  <2>4. Runs(m)' = Runs(m) + 1
    BY <2>1, <2>2, <1>r
  <2>. QED
    BY <2>1, <2>2, <2>3, <2>4, <1>s DEF StageStep
<1>6. ASSUME NEW w \in Runners, Taken(m, w) \/ Found(m, w) \/ Settled(m, w)  PROVE StageStep(m)
  BY <1>6, <1>s, <1>e, <1>o, <1>n DEF Taken, Found, Settled
<1>7. ASSUME NEW w \in Runners, Sent(m, w)  PROVE StageStep(m)
  <2>1. handler[m][w] = "found" /\ job[m] # "none"
    BY <1>7 DEF Sent, MailInv, IdleInv
  <2>2. mailed[m] <= PutBacks(m) + retries[m]
    BY <2>1, SentBound
  <2>3. PutBacks(m) \in Nat /\ PutBacks(m) <= stalls[m]
    BY <1>i, PutBacksType
  <2>4. mailed[m] < Runs(m)
    BY <2>1, <2>2, <2>3, <1>t, <1>r
  <2>5. Stage(m) = "open" \/ Runs(m) > 1
    <3>1. stalls[m] = 0 => job[m] = "active"
      BY <2>1 DEF MailInv, QuietInv
    <3>. QED
      BY <2>1, <3>1, <1>t, <1>r, <1>s
  <2>6. Stage(m)' = Stage(m) /\ Runs(m)' = Runs(m)
    BY <1>7, <1>k DEF Sent
  <2>7. mailed'[m] = mailed[m] \/ mailed'[m] = mailed[m] + 1
    BY <1>7 DEF Sent
  <2>. QED
    BY <2>4, <2>5, <2>6, <2>7 DEF StageStep
<1>. QED
  BY <1>x, <1>1, <1>2, <1>3, <1>4, <1>5, <1>6, <1>7 DEF JobStep

\* The end of create, Bull and the worker implement a queue that runs a job at
\* least once, whatever crashes, stalls, repeats or is retried.
THEOREM JobsImplementQueue == Spec => ImplementsQueue
<1>1. Init => CountInv
  BY DEF Init, CountInv
<1>2. MailInv /\ CountInv /\ [Next]_vars => CountInv'
  BY CountStep DEF MailInv
<1>3. Init => Queue!Init
  <2>1. ASSUME Init  PROVE \A j \in Jobs : Stage(j) = "none" /\ Runs(j) = 0
    BY <2>1 DEF Init, Stage, Runs
  <2>. QED
    BY <2>1 DEF Queue!Init, Init
<1>4. MailInv /\ CountInv /\ [Next]_vars => [Queue!Next]_(Queue!vars)
  <2>. SUFFICES ASSUME MailInv, CountInv, [Next]_vars  PROVE Queue!Next
    OBVIOUS
  <2>1. \A m \in Jobs : StageStep(m)
    BY EachStageSteps
  <2>. QED
    BY <2>1 DEF Queue!Next, Queue!Add, Queue!Do, Queue!RunAgain, Queue!End, Queue!Same, StageStep
<1>. QED
  BY <1>1, <1>2, <1>3, <1>4, MailInvariant, PTL DEF Spec, ImplementsQueue, Queue!Spec

-----------------------------------------------------------------------------
(***************************************************************************)
(* One booking at a time: the bookings share the process and the bounds of *)
(* the model, and nothing that happens to one changes what may happen to   *)
(* another.                                                                *)
(***************************************************************************)

\* The jobs, and the part of a function, that are booking b's.
JobsOf(b) == {b} \X Kinds \X {1, 2}

PartOf(b, f) == [j \in JobsOf(b) |-> f[j]]

RowOf(b, rows) == [c \in {b} |-> rows[c]]

\* What the module says of one booking, when the others are not looked at.
One(b) == INSTANCE BookingJobs WITH
    BookingIds <- {b},
    row <- RowOf(b, row), creating <- creating \cap {b}, interrupted <- interrupted \cap {b},
    job <- PartOf(b, job), handler <- PartOf(b, handler), mailed <- PartOf(b, mailed),
    stalls <- PartOf(b, stalls), retries <- PartOf(b, retries),
    rejected <- rejected \cap JobsOf(b)

\* What a step that is not of booking b leaves as it was.
Elsewhere(b) ==
    /\ up' = up /\ crashes' = crashes
    /\ row'[b] = row[b]
    /\ b \in creating' <=> b \in creating
    /\ b \in interrupted' <=> b \in interrupted
    /\ \A j \in JobsOf(b) :
          /\ job'[j] = job[j] /\ handler'[j] = handler[j] /\ mailed'[j] = mailed[j]
          /\ stalls'[j] = stalls[j] /\ retries'[j] = retries[j]
          /\ j \in rejected' <=> j \in rejected

\* Such a step leaves the booking where it was.
LEMMA ElsewhereStutters ==
  ASSUME NEW b \in BookingIds, Elsewhere(b)
  PROVE  UNCHANGED One(b)!vars
<1>1. RowOf(b, row') = RowOf(b, row)
  BY DEF Elsewhere, RowOf
<1>2. creating' \cap {b} = creating \cap {b} /\ interrupted' \cap {b} = interrupted \cap {b}
  BY DEF Elsewhere
<1>3. PartOf(b, job') = PartOf(b, job) /\ PartOf(b, handler') = PartOf(b, handler)
  BY DEF Elsewhere, PartOf
<1>4. /\ PartOf(b, mailed') = PartOf(b, mailed) /\ PartOf(b, stalls') = PartOf(b, stalls)
      /\ PartOf(b, retries') = PartOf(b, retries)
  BY DEF Elsewhere, PartOf
<1>5. rejected' \cap JobsOf(b) = rejected \cap JobsOf(b)
  BY DEF Elsewhere
<1>. QED
  BY <1>1, <1>2, <1>3, <1>4, <1>5 DEF One!vars, Elsewhere

\* A step of another booking's job.
LEMMA JobElsewhere ==
  ASSUME TypeOK, NEW b \in BookingIds, NEW j \in Jobs, j[1] # b,
         Settling(j) \/ JobAnswerLost(j) \/ AddRejects(j) \/ RetryJob(j)
  PROVE  Elsewhere(b)
<1>. USE DEF table, history
<1>0. \A k \in JobsOf(b) : k \in Jobs /\ k # j /\ k # Repeated(j)
  BY DEF JobsOf, Jobs, Repeated
<1>t. /\ job \in [Jobs -> JobStates] /\ handler \in [Jobs -> [Runners -> HandlerStates]]
      /\ mailed \in [Jobs -> Nat] /\ stalls \in [Jobs -> Nat] /\ retries \in [Jobs -> Nat]
  BY DEF TypeOK
<1>1. CASE JobAdded(j) \/ AddRejects(j)
  BY <1>0, <1>1, <1>t DEF JobAdded, AddRejects, Elsewhere
<1>2. ASSUME NEW w \in Runners, TakeJob(j, w)  PROVE Elsewhere(b)
  BY <1>0, <1>2, <1>t DEF TakeJob, Elsewhere
<1>s. ASSUME NEW w \in Runners, NEW S, Settle(j, w, S)  PROVE Elsewhere(b)
  <2>1. \A k \in JobsOf(b) : job'[k] = job[k] /\ handler'[k] = handler[k]
    BY <1>0, <1>s, <1>t DEF Settle
  <2>. QED
    BY <1>s, <2>1 DEF Settle, Elsewhere
<1>r. ASSUME NEW w \in Runners, NEW step, Reach(j, w, step),
             mailed' = mailed \/ mailed' = [mailed EXCEPT ![j] = @ + 1]
      PROVE  Elsewhere(b)
  <2>1. \A k \in JobsOf(b) : mailed'[k] = mailed[k]
    BY <1>0, <1>r, <1>t
  <2>. QED
    BY <1>0, <1>r, <1>t, <2>1 DEF Reach, Elsewhere
<1>3. ASSUME NEW w \in Runners,
             \/ GetDetails(j, w) \/ SendBookingConfirmationEmail(j, w)
             \/ HandleGenerateInvoice(j, w) \/ CompleteJob(j, w)
      PROVE  Elsewhere(b)
  BY <1>3, <1>s, <1>r
     DEF GetDetails, SendBookingConfirmationEmail, HandleGenerateInvoice, CompleteJob
<1>4. CASE RecoverStalled(j) \/ RetryJob(j)
  BY <1>0, <1>4, <1>t DEF RecoverStalled, RetryJob, Elsewhere
<1>5. CASE JobAnswerLost(j)
  BY <1>0, <1>5, <1>t DEF JobAnswerLost, Elsewhere
<1>. QED
  BY <1>1, <1>2, <1>3, <1>4, <1>5 DEF Settling, Running

\* A step of another booking.
LEMMA BookingElsewhere ==
  ASSUME TypeOK, NEW b \in BookingIds, NEW c \in BookingIds, c # b,
         \/ Insert(c) \/ ChangeStatus(c) \/ Remove(c)
         \/ InsertUnanswered(c) \/ FinishCreate(c)
  PROVE  Elsewhere(b)
<1>. USE DEF TypeOK, queue, history
<1>1. CASE Insert(c) \/ ChangeStatus(c) \/ Remove(c)
  BY <1>1 DEF Insert, ChangeStatus, Remove, Elsewhere
<1>2. CASE InsertUnanswered(c)
  BY <1>2 DEF InsertUnanswered, Elsewhere
<1>3. CASE FinishCreate(c)
  <2>1. \A k \in JobsOf(b) : k \in Jobs /\ k[1] # c
    BY DEF JobsOf, Jobs
  <2>2. \A k \in JobsOf(b) : job'[k] = job[k]
    BY <1>3, <2>1 DEF FinishCreate
  <2>. QED
    BY <1>3, <2>2 DEF FinishCreate, Elsewhere
<1>. QED
  BY <1>1, <1>2, <1>3

\* What is the same for one booking as for all.
LEMMA SameNames ==
  ASSUME NEW b \in BookingIds
  PROVE  /\ One(b)!Jobs = JobsOf(b) /\ One(b)!Mail = Mail /\ One(b)!Invoice = Invoice
         /\ One(b)!Kinds = Kinds /\ One(b)!MaxStalledCount = MaxStalledCount
         /\ One(b)!Runners = Runners
         /\ \A j \in JobsOf(b) : One(b)!IsStored(j[1]) = IsStored(j[1])
         /\ \A j : One(b)!Repeated(j) = Repeated(j)
BY DEF One!Jobs, One!Kinds, One!Mail, One!Invoice, One!MaxStalledCount, One!Runners, One!IsStored,
       One!Repeated, JobsOf, Kinds, Mail, Invoice, MaxStalledCount, Runners, IsStored, Repeated, RowOf

\* Sets are counted alike.
LEMMA SameCardinality == \A b : \A S : One(b)!Cardinality(S) = Cardinality(S)
BY DEF One!Cardinality, Cardinality

\* Few jobs leave the ordinary way, so that those of one booking can be counted.
Troubled == {k \in Jobs : (k[3] = 2 /\ job[k] # "none") \/ stalls[k] > 0 \/ retries[k] > 0}

TroubledInv == IsFiniteSet(Troubled)

\* A step troubles one job at most.
LEMMA TroubledStep ==
  ASSUME MailInv, TroubledInv, [Next]_vars
  PROVE  TroubledInv'
<1>t. /\ TypeOK /\ FreshInv
      /\ job \in [Jobs -> JobStates] /\ stalls \in [Jobs -> Nat] /\ retries \in [Jobs -> Nat]
  BY DEF MailInv, TypeOK
<1>a. ASSUME NEW j,
             \A k \in Jobs : k # j => /\ stalls'[k] = stalls[k] /\ retries'[k] = retries[k]
                                      /\ k[3] = 2 /\ job[k] = "none" => job'[k] = "none"
      PROVE  TroubledInv'
  <2>1. Troubled' \subseteq Troubled \cup {j}
    BY <1>a DEF Troubled
  <2>2. IsFiniteSet(Troubled \cup {j})
    BY FS_AddElement DEF TroubledInv
  <2>. QED
    BY <2>1, <2>2, FS_Subset DEF TroubledInv
<1>1. ASSUME NEW j \in Jobs, JobAnswerLost(j)  PROVE TroubledInv'
  <2>1. stalls' = stalls /\ retries' = retries
    BY <1>1 DEF JobAnswerLost
  <2>2. \A k \in Jobs : k # j /\ k # Repeated(j) => job'[k] = job[k]
    BY <1>1, <1>t, RepeatIsNew
  <2>3. job[j] # "none"
    BY <1>1 DEF JobAnswerLost
  <2>. QED
    BY <2>1, <2>2, <2>3, <1>a
<1>2. ASSUME NEW j \in Jobs, Settling(j) \/ AddRejects(j) \/ RetryJob(j)  PROVE TroubledInv'
  <2>1. \A k \in Jobs : k # j => job'[k] = job[k]
    BY <1>2, <1>t, JobMoves
  <2>2. \A k \in Jobs : k # j => stalls'[k] = stalls[k] /\ retries'[k] = retries[k]
    BY <1>2, <1>t DEF Settling, Running, JobAdded, TakeJob, GetDetails,
       SendBookingConfirmationEmail, HandleGenerateInvoice, CompleteJob, RecoverStalled,
       AddRejects, RetryJob, Reach, Settle
  <2>. QED
    BY <2>1, <2>2, <1>a
<1>3. ASSUME NEW b \in BookingIds, FinishCreate(b)  PROVE TroubledInv'
  <2>1. \A k \in Jobs : k[3] = 2 => job'[k] = job[k]
    BY <1>3 DEF FinishCreate
  <2>. QED
    BY <1>3, <2>1, <1>a DEF FinishCreate
<1>4. CASE Crash
  <2>1. \A k \in Jobs : job[k] = "none" => job'[k] = "none"
    BY <1>4 DEF Crash
  <2>. QED
    BY <1>4, <2>1, <1>a DEF Crash
<1>5. ASSUME UNCHANGED <<job, stalls, retries>>  PROVE TroubledInv'
  BY <1>5, <1>a
<1>6. ASSUME NEW b \in BookingIds,
             Insert(b) \/ ChangeStatus(b) \/ Remove(b) \/ InsertUnanswered(b)
      PROVE  TroubledInv'
  BY <1>6, <1>5 DEF Insert, ChangeStatus, Remove, InsertUnanswered, queue
<1>7. CASE Restart \/ UNCHANGED vars
  BY <1>7, <1>5 DEF Restart, vars, queue
<1>. QED
  BY <1>1, <1>2, <1>3, <1>4, <1>6, <1>7 DEF Next

\* The bounds count all bookings, so that they hold for the jobs of one.
LEMMA TroublesHere ==
  ASSUME TroubledInv, NEW b \in BookingIds, NEW j \in JobsOf(b)
  PROVE  /\ Troubles(j) \in Nat /\ One(b)!Troubles(j) \in Nat
         /\ One(b)!Troubles(j) <= Troubles(j)
<1>. DEFINE All == {k \in Jobs : \/ k = j
                                 \/ k[3] = 2 /\ job[k] # "none"
                                 \/ stalls[k] > 0 \/ retries[k] > 0}
            Here == {k \in JobsOf(b) : \/ k = j
                                       \/ k[3] = 2 /\ PartOf(b, job)[k] # "none"
                                       \/ PartOf(b, stalls)[k] > 0 \/ PartOf(b, retries)[k] > 0}
<1>1. IsFiniteSet(All)
  <2>1. All \subseteq Troubled \cup {j}
    BY DEF Troubled
  <2>2. IsFiniteSet(Troubled \cup {j})
    BY FS_AddElement DEF TroubledInv
  <2>. QED
    BY <2>1, <2>2, FS_Subset
<1>2. Here \subseteq All
  BY DEF JobsOf, Jobs, PartOf
<1>3. Troubles(j) = Cardinality(All)
  BY DEF Troubles
<1>4. One(b)!Troubles(j) = Cardinality(Here)
  BY SameNames, SameCardinality DEF One!Troubles
<1>. HIDE DEF All, Here
<1>. QED
  BY <1>1, <1>2, <1>3, <1>4, FS_Subset, FS_CardinalityType

\* What holds of the job of all bookings holds of the same job of one.
LEMMA GuardsHere ==
  ASSUME TypeOK, TroubledInv, NEW b \in BookingIds, NEW j \in JobsOf(b)
  PROVE  /\ RedisFails(j) => One(b)!RedisFails(j)
         /\ Troubles(j) <= MaxTroubles => One(b)!Troubles(j) <= MaxTroubles
<1>1. /\ Troubles(j) \in Nat /\ One(b)!Troubles(j) \in Nat
      /\ One(b)!Troubles(j) <= Troubles(j)
  BY TroublesHere
<1>2. crashes \in Nat /\ MaxTroubles \in Nat
  BY BoundsAssumption DEF TypeOK
<1>. QED
  BY <1>1, <1>2 DEF RedisFails, One!RedisFails

\* A step of the booking's own job.
LEMMA JobHere ==
  ASSUME TypeOK, TroubledInv, NEW b \in BookingIds, NEW j \in JobsOf(b),
         Settling(j) \/ JobAnswerLost(j) \/ AddRejects(j) \/ RetryJob(j)
  PROVE  \/ One(b)!Settling(j) \/ One(b)!JobAnswerLost(j)
         \/ One(b)!AddRejects(j) \/ One(b)!RetryJob(j)
<1>. DEFINE J == PartOf(b, job)
            H == PartOf(b, handler)
            M == PartOf(b, mailed)
            S == PartOf(b, stalls)
            R == PartOf(b, retries)
<1>j. j \in Jobs
  BY DEF JobsOf, Jobs
<1>t. /\ job \in [Jobs -> JobStates] /\ handler \in [Jobs -> [Runners -> HandlerStates]]
      /\ mailed \in [Jobs -> Nat] /\ stalls \in [Jobs -> Nat] /\ retries \in [Jobs -> Nat]
  BY DEF TypeOK
<1>a. J[j] = job[j] /\ \A x : PartOf(b, [job EXCEPT ![j] = x]) = [J EXCEPT ![j] = x]
  BY <1>t, <1>j DEF PartOf, JobsOf, Jobs
<1>b. H[j] = handler[j] /\ \A x : PartOf(b, [handler EXCEPT ![j] = x]) = [H EXCEPT ![j] = x]
  BY <1>t, <1>j DEF PartOf, JobsOf, Jobs
<1>c. M[j] = mailed[j] /\ \A x : PartOf(b, [mailed EXCEPT ![j] = x]) = [M EXCEPT ![j] = x]
  BY <1>t, <1>j DEF PartOf, JobsOf, Jobs
<1>d. S[j] = stalls[j] /\ \A x : PartOf(b, [stalls EXCEPT ![j] = x]) = [S EXCEPT ![j] = x]
  BY <1>t, <1>j DEF PartOf, JobsOf, Jobs
<1>f. R[j] = retries[j] /\ \A x : PartOf(b, [retries EXCEPT ![j] = x]) = [R EXCEPT ![j] = x]
  BY <1>t, <1>j DEF PartOf, JobsOf, Jobs
<1>g. /\ RedisFails(j) => One(b)!RedisFails(j)
      /\ Troubles(j) <= MaxTroubles => One(b)!Troubles(j) <= MaxTroubles
  BY GuardsHere
<1>h. \A w, x : PartOf(b, [handler EXCEPT ![j][w] = x]) = [H EXCEPT ![j][w] = x]
  <2>. SUFFICES ASSUME NEW w, NEW x
       PROVE  PartOf(b, [handler EXCEPT ![j][w] = x]) = [H EXCEPT ![j][w] = x]
    OBVIOUS
  <2>1. [handler EXCEPT ![j][w] = x] = [handler EXCEPT ![j] = [handler[j] EXCEPT ![w] = x]]
    OBVIOUS
  <2>2. [H EXCEPT ![j][w] = x] = [H EXCEPT ![j] = [H[j] EXCEPT ![w] = x]]
    OBVIOUS
  <2>. QED
    BY <2>1, <2>2, <1>b
<1>n. One(b)!Runners = Runners /\ One(b)!Jobs = JobsOf(b) /\ One(b)!MaxStalledCount = MaxStalledCount
      /\ One(b)!Mail = Mail /\ One(b)!Invoice = Invoice /\ One(b)!IsStored(j[1]) = IsStored(j[1])
  BY SameNames
<1>. HIDE DEF J, H, M, S, R
<1>1. JobAdded(j) => One(b)!JobAdded(j)
  BY <1>a DEF JobAdded, One!JobAdded, table, history, One!table, One!history, J, H, M, S, R
<1>2. AddRejects(j) => One(b)!AddRejects(j)
  <2>1. rejected' = rejected \cup {j} => rejected' \cap JobsOf(b) = (rejected \cap JobsOf(b)) \cup {j}
    OBVIOUS
  <2>. QED
    BY <1>a, <2>1 DEF AddRejects, One!AddRejects, table, One!table, J, H, M, S, R
<1>3. ASSUME NEW w \in Runners, TakeJob(j, w)  PROVE One(b)!TakeJob(j, w)
  <2>1. PartOf(b, job') = [J EXCEPT ![j] = "active"]
    BY <1>3, <1>a DEF TakeJob
  <2>2. PartOf(b, handler') = [H EXCEPT ![j][w] = "started"]
    BY <1>3, <1>h DEF TakeJob
  <2>. QED
    BY <1>3, <1>a, <1>b, <1>n, <2>1, <2>2
       DEF TakeJob, One!TakeJob, table, history, One!table, One!history, J, H, M, S, R
<1>r. ASSUME NEW w \in Runners, NEW x, Reach(j, w, x)  PROVE One(b)!Reach(j, w, x)
  <2>1. PartOf(b, handler') = [H EXCEPT ![j][w] = x]
    BY <1>r, <1>h DEF Reach
  <2>. QED
    BY <1>r, <2>1 DEF Reach, One!Reach, table, history, One!table, One!history, J, H, M, S, R
<1>e. ASSUME NEW w \in Runners, NEW X, Settle(j, w, X)  PROVE One(b)!Settle(j, w, X)
  <2>1. PartOf(b, handler') = [H EXCEPT ![j][w] = "idle"]
    BY <1>e, <1>h DEF Settle
  <2>2. \/ J[j] = "active" /\ \E state \in X : PartOf(b, job') = [J EXCEPT ![j] = state]
        \/ (J[j] = "active" => One(b)!RedisFails(j)) /\ PartOf(b, job') = J
    <3>1. CASE job[j] = "active" /\ \E state \in X : job' = [job EXCEPT ![j] = state]
      BY <3>1, <1>a
    <3>2. CASE (job[j] = "active" => RedisFails(j)) /\ job' = job
      BY <3>2, <1>a, <1>g DEF J
    <3>. QED
      BY <1>e, <3>1, <3>2 DEF Settle
  <2>. QED
    BY <1>e, <2>1, <2>2 DEF Settle, One!Settle, table, history, One!table, One!history, J, H, M, S, R
<1>u. mailed' = mailed => PartOf(b, mailed') = PartOf(b, mailed)
  OBVIOUS
<1>4. ASSUME NEW w \in Runners, GetDetails(j, w)  PROVE One(b)!GetDetails(j, w)
  BY <1>4, <1>b, <1>r, <1>e, <1>n, <1>u DEF GetDetails, One!GetDetails, H
<1>m. mailed' = [mailed EXCEPT ![j] = @ + 1] => PartOf(b, mailed') = [M EXCEPT ![j] = @ + 1]
  BY <1>c
<1>5. ASSUME NEW w \in Runners, SendBookingConfirmationEmail(j, w)
      PROVE  One(b)!SendBookingConfirmationEmail(j, w)
  BY <1>5, <1>b, <1>m, <1>r, <1>e, <1>u
     DEF SendBookingConfirmationEmail, One!SendBookingConfirmationEmail, H, M
<1>6. ASSUME NEW w \in Runners, HandleGenerateInvoice(j, w)  PROVE One(b)!HandleGenerateInvoice(j, w)
  BY <1>6, <1>b, <1>e, <1>n DEF HandleGenerateInvoice, One!HandleGenerateInvoice, H
<1>7. ASSUME NEW w \in Runners, CompleteJob(j, w)  PROVE One(b)!CompleteJob(j, w)
  BY <1>7, <1>b, <1>e DEF CompleteJob, One!CompleteJob, H
<1>8. ASSUME RecoverStalled(j)  PROVE One(b)!RecoverStalled(j)
  <2>1. PartOf(b, stalls') = [S EXCEPT ![j] = @ + 1]
    BY <1>8, <1>d DEF RecoverStalled
  <2>2. PartOf(b, job') = [J EXCEPT ![j] = IF S[j] < MaxStalledCount THEN "waiting" ELSE "failed"]
    BY <1>8, <1>a, <1>d DEF RecoverStalled
  <2>3. (\E w \in Runners : H[j][w] # "idle") => One(b)!RedisFails(j)
    BY <1>8, <1>b, <1>g DEF RecoverStalled
  <2>. QED
    BY <1>8, <2>1, <2>2, <2>3, <1>a, <1>n
       DEF RecoverStalled, One!RecoverStalled, table, history, One!table, One!history, J, H, M, S, R
<1>9. ASSUME RetryJob(j)  PROVE One(b)!RetryJob(j)
  <2>1. PartOf(b, retries') = [R EXCEPT ![j] = @ + 1]
    BY <1>9, <1>f DEF RetryJob
  <2>2. PartOf(b, job') = [J EXCEPT ![j] = "waiting"]
    BY <1>9, <1>a DEF RetryJob
  <2>. QED
    BY <1>9, <2>1, <2>2, <1>a, <1>f, <1>g
       DEF RetryJob, One!RetryJob, table, history, One!table, One!history, J, H, M, S, R
<1>10. ASSUME JobAnswerLost(j)  PROVE One(b)!JobAnswerLost(j)
  <2>1. Repeated(j) \in JobsOf(b) /\ Repeated(j) \in Jobs /\ One(b)!Repeated(j) = Repeated(j)
    BY SameNames DEF JobsOf, Jobs, Repeated
  <2>2. One(b)!RedisFails(Repeated(j))
    BY <1>10, <2>1, GuardsHere DEF JobAnswerLost
  <2>3. job' = [job EXCEPT ![j] = "waiting", ![Repeated(j)] = "adding"]
    BY <1>10 DEF JobAnswerLost
  <2>4. PartOf(b, job') = [J EXCEPT ![j] = "waiting", ![Repeated(j)] = "adding"]
    <3>1. [job EXCEPT ![j] = "waiting"] \in [Jobs -> JobStates]
      BY <1>t DEF JobStates
    <3>2. PartOf(b, job') = [PartOf(b, [job EXCEPT ![j] = "waiting"]) EXCEPT ![Repeated(j)] = "adding"]
      BY <2>1, <2>3, <3>1 DEF PartOf, JobsOf, Jobs
    <3>. QED
      BY <3>2, <1>a
  <2>. QED
    BY <1>10, <1>a, <2>1, <2>2, <2>4
       DEF JobAnswerLost, One!JobAnswerLost, table, history, One!table, One!history, J, H, M, S, R
<1>11. ASSUME NEW w \in Runners, Running(j, w)  PROVE One(b)!Running(j, w)
  BY <1>11, <1>3, <1>4, <1>5, <1>6, <1>7 DEF Running, One!Running
<1>. QED
  BY <1>1, <1>2, <1>8, <1>9, <1>10, <1>11, <1>n DEF Settling, One!Settling

\* A step of the booking itself.
LEMMA BookingHere ==
  ASSUME TypeOK, NEW b \in BookingIds
  PROVE  /\ Insert(b) => One(b)!Insert(b)
         /\ ChangeStatus(b) => One(b)!ChangeStatus(b)
         /\ Remove(b) => One(b)!Remove(b)
         /\ InsertUnanswered(b) => One(b)!InsertUnanswered(b)
         /\ FinishCreate(b) => One(b)!FinishCreate(b)
<1>a. /\ RowOf(b, row)[b] = row[b] /\ One(b)!IsStored(b) = IsStored(b)
      /\ \A x : RowOf(b, [row EXCEPT ![b] = x]) = [RowOf(b, row) EXCEPT ![b] = x]
  BY DEF TypeOK, RowOf, IsStored, One!IsStored
<1>b. /\ (creating \cup {b}) \cap {b} = (creating \cap {b}) \cup {b}
      /\ (creating \ {b}) \cap {b} = (creating \cap {b}) \ {b}
      /\ (interrupted \cup {b}) \cap {b} = (interrupted \cap {b}) \cup {b}
      /\ b \in creating => b \in creating \cap {b}
  OBVIOUS
<1>1. Insert(b) => One(b)!Insert(b)
  BY <1>a, <1>b DEF Insert, One!Insert, queue, history, One!queue, One!history
<1>2. ASSUME ChangeStatus(b)  PROVE One(b)!ChangeStatus(b)
  <2>0. PICK actor \in BookingActor : \E to \in TableRow(actor, row[b]) : row' = [row EXCEPT ![b] = to]
    BY <1>2 DEF ChangeStatus
  <2>1. PICK to \in TableRow(actor, row[b]) : row' = [row EXCEPT ![b] = to]
    BY <2>0
  <2>2. actor \in One(b)!BookingActor /\ to \in One(b)!TableRow(actor, RowOf(b, row)[b])
    BY <1>a, <2>0, <2>1 DEF One!BookingActor, BookingActor, One!TableRow, TableRow,
       One!ALLOWED_TRANSITIONS, ALLOWED_TRANSITIONS, One!BookingStatus, BookingStatus
  <2>3. RowOf(b, row') = [RowOf(b, row) EXCEPT ![b] = to]
    BY <1>a, <2>1
  <2>. QED
    BY <1>2, <1>a, <2>2, <2>3
       DEF ChangeStatus, One!ChangeStatus, queue, history, One!queue, One!history
<1>3. Remove(b) => One(b)!Remove(b)
  BY <1>a DEF Remove, One!Remove, queue, history, One!queue, One!history
<1>4. InsertUnanswered(b) => One(b)!InsertUnanswered(b)
  BY <1>b DEF InsertUnanswered, One!InsertUnanswered, queue, One!queue
<1>5. ASSUME FinishCreate(b)  PROVE One(b)!FinishCreate(b)
  <2>1. PartOf(b, job') = [j \in JobsOf(b) |-> IF j[1] = b /\ j[3] = 1 THEN "adding"
                                               ELSE PartOf(b, job)[j]]
    BY <1>5 DEF FinishCreate, PartOf, JobsOf, Jobs
  <2>2. One(b)!Jobs = JobsOf(b)
    BY SameNames
  <2>. QED
    BY <1>5, <1>b, <2>1, <2>2 DEF FinishCreate, One!FinishCreate, history, One!history
<1>. QED
  BY <1>1, <1>2, <1>3, <1>4, <1>5

\* The process is one for all bookings.
LEMMA ProcessHere ==
  ASSUME NEW b \in BookingIds
  PROVE  /\ Crash => One(b)!Crash
         /\ Restart => One(b)!Restart
<1>1. ASSUME Crash  PROVE One(b)!Crash
  <2>1. One(b)!Jobs = JobsOf(b) /\ One(b)!Runners = Runners /\ JobsOf(b) \subseteq Jobs
    BY SameNames DEF JobsOf, Jobs
  <2>2. PartOf(b, job') = [j \in JobsOf(b) |-> IF PartOf(b, job)[j] = "adding" THEN "lost"
                                               ELSE PartOf(b, job)[j]]
    BY <1>1, <2>1 DEF Crash, PartOf
  <2>3. PartOf(b, handler') = [j \in JobsOf(b) |-> [w \in Runners |-> "idle"]]
    BY <1>1, <2>1 DEF Crash, PartOf
  <2>4. interrupted' \cap {b} = (interrupted \cap {b}) \cup (creating \cap {b})
           \cup {c \in {b} : \E j \in JobsOf(b) : j[1] = c /\ PartOf(b, job)[j] = "adding"}
    <3>1. \A j \in Jobs : j[1] = b <=> j \in JobsOf(b)
      BY DEF Jobs, JobsOf
    <3>2. (\E j \in Jobs : j[1] = b /\ job[j] = "adding")
            <=> \E j \in JobsOf(b) : j[1] = b /\ PartOf(b, job)[j] = "adding"
      BY <2>1, <3>1 DEF PartOf
    <3>. QED
      BY <1>1, <3>2 DEF Crash
  <2>5. creating' \cap {b} = {}
    BY <1>1 DEF Crash
  <2>. QED
    BY <1>1, <2>1, <2>2, <2>3, <2>4, <2>5 DEF Crash, One!Crash
<1>2. Restart => One(b)!Restart
  BY DEF Restart, One!Restart, table, queue, history, One!table, One!queue, One!history
<1>. QED
  BY <1>1, <1>2

\* Each booking and its jobs go the way that the module describes for one booking alone,
\* whatever the others do: what holds of one booking holds of each of any number.
THEOREM EachBookingAlone ==
  ASSUME NEW b \in BookingIds
  PROVE  Spec => One(b)!Spec
<1>1. Init => One(b)!Init /\ TroubledInv
  <2>1. ASSUME Init  PROVE One(b)!Init
    BY <2>1 DEF Init, One!Init, PartOf, RowOf, JobsOf, One!Jobs, One!Kinds, One!Mail, One!Invoice,
       One!Runners, Runners, Kinds, Jobs, Mail, Invoice
  <2>2. ASSUME Init  PROVE Troubled = {}
    BY <2>2 DEF Init, Troubled
  <2>. QED
    BY <2>1, <2>2, FS_EmptySet DEF TroubledInv
<1>2. ASSUME MailInv, TroubledInv, [Next]_vars
      PROVE  [One(b)!Next]_(One(b)!vars)
  <2>t. TypeOK
    BY <1>2 DEF MailInv
  <2>1. ASSUME NEW j \in JobsOf(b), Settling(j) \/ JobAnswerLost(j) \/ AddRejects(j) \/ RetryJob(j)
        PROVE  One(b)!Next
    <3>1. One(b)!Jobs = JobsOf(b)
      BY SameNames
    <3>2. \/ One(b)!Settling(j) \/ One(b)!JobAnswerLost(j)
          \/ One(b)!AddRejects(j) \/ One(b)!RetryJob(j)
      BY <1>2, <2>t, <2>1, JobHere
    <3>. QED
      BY <3>1, <3>2 DEF One!Next
  <2>2. ASSUME NEW j \in Jobs, j \notin JobsOf(b),
               Settling(j) \/ JobAnswerLost(j) \/ AddRejects(j) \/ RetryJob(j)
        PROVE  UNCHANGED One(b)!vars
    <3>1. j[1] # b
      BY <2>2 DEF Jobs, JobsOf
    <3>. QED
      BY <2>t, <2>2, <3>1, JobElsewhere, ElsewhereStutters
  <2>3. ASSUME \/ Insert(b) \/ ChangeStatus(b) \/ Remove(b)
               \/ InsertUnanswered(b) \/ FinishCreate(b)
        PROVE  One(b)!Next
    BY <2>t, <2>3, BookingHere DEF One!Next
  <2>4. ASSUME NEW c \in BookingIds, c # b, \/ Insert(c) \/ ChangeStatus(c) \/ Remove(c)
                                            \/ InsertUnanswered(c) \/ FinishCreate(c)
        PROVE  UNCHANGED One(b)!vars
    BY <2>t, <2>4, BookingElsewhere, ElsewhereStutters
  <2>5. CASE Crash \/ Restart
    BY <2>5, ProcessHere DEF One!Next
  <2>6. CASE UNCHANGED vars
    <3>1. Elsewhere(b)
      BY <2>6 DEF vars, Elsewhere
    <3>. QED
      BY <3>1, ElsewhereStutters
  <2>. QED
    BY <1>2, <2>1, <2>2, <2>3, <2>4, <2>5, <2>6 DEF Next
<1>3. MailInv /\ TroubledInv /\ [Next]_vars => [One(b)!Next]_(One(b)!vars) /\ TroubledInv'
  BY <1>2, TroubledStep
<1>. QED
  BY <1>1, <1>3, MailInvariant, PTL DEF Spec, One!Spec
=============================================================================
