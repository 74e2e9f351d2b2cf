------------------------------- MODULE JobQueue -------------------------------
(***************************************************************************)
(* What the queue promises of jobs whose handler does one thing, such as   *)
(* send a mail: a job does it at most once for each time it is given to a  *)
(* handler, and jobs go on independently.  A job that is run again may     *)
(* have left a handler behind, which does its work although the job is     *)
(* over by then; a job that is run once does not.                          *)
(***************************************************************************)
EXTENDS Naturals

CONSTANT Jobs

VARIABLES
    state,  \* "none", "open" from the moment its add is made, or "over"
    runs,   \* how often the job may have been given to a handler
    done    \* how often a handler has done its work

vars == <<state, runs, done>>

Init ==
    /\ state = [j \in Jobs |-> "none"]
    /\ runs = [j \in Jobs |-> 0]
    /\ done = [j \in Jobs |-> 0]

Same(j) == state'[j] = state[j] /\ runs'[j] = runs[j] /\ done'[j] = done[j]

Add(j) ==
    /\ state[j] = "none"
    /\ state'[j] = "open" /\ runs'[j] = 1 /\ done'[j] = done[j]

Do(j) ==
    /\ done[j] < runs[j] /\ (state[j] = "open" \/ runs[j] > 1)
    /\ done'[j] = done[j] + 1 /\ state'[j] = state[j] /\ runs'[j] = runs[j]

\* The job is put back, by the queue or by hand.
RunAgain(j) ==
    /\ state[j] # "none"
    /\ state'[j] = "open" /\ runs'[j] = runs[j] + 1 /\ done'[j] = done[j]

\* The job succeeds, fails or is lost, or is given up when it should run again.
End(j) ==
    /\ state[j] = "open"
    /\ state'[j] = "over" /\ runs'[j] \in {runs[j], runs[j] + 1} /\ done'[j] = done[j]

Next == \A j \in Jobs : Add(j) \/ Do(j) \/ RunAgain(j) \/ End(j) \/ Same(j)

Spec == Init /\ [][Next]_vars
=============================================================================
