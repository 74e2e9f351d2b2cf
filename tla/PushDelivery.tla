----------------------------- MODULE PushDelivery -----------------------------
(***************************************************************************)
(* What push notifications promise.  A device has at most one row, which   *)
(* comes with a registration and goes when the device can no longer be     *)
(* reached.  A call has an audience, the devices that were its user's at   *)
(* one moment after it was made, and reaches some of them, each once, or   *)
(* none if it is given up.  PushNotifications implements it.               *)
(***************************************************************************)
CONSTANTS Users, Tokens, Sends, NoUser

VARIABLES
    table,      \* the user of each token that has a row
    alive,      \* tokens that can be reached
    to,         \* the user each call is for
    open,       \* calls that have no audience yet
    audience,   \* the tokens that each call has to do with
    reached     \* the tokens that each call has reached

vars == <<table, alive, to, open, audience, reached>>

Init ==
    /\ table = [t \in Tokens |-> NoUser]
    /\ alive = Tokens
    /\ to = [s \in Sends |-> NoUser]
    /\ open = {}
    /\ audience = [s \in Sends |-> {}]
    /\ reached = [s \in Sends |-> {}]

Register(t) ==
    /\ \E u \in Users : table' = [table EXCEPT ![t] = u]
    /\ UNCHANGED <<alive, to, open, audience, reached>>

Die(t) ==
    /\ alive' = alive \ {t}
    /\ UNCHANGED <<table, to, open, audience, reached>>

Forget(t) ==
    /\ t \notin alive
    /\ table' = [table EXCEPT ![t] = NoUser]
    /\ UNCHANGED <<alive, to, open, audience, reached>>

Call(s) ==
    /\ to[s] = NoUser
    /\ \E u \in Users : to' = [to EXCEPT ![s] = u]
    /\ open' = open \cup {s}
    /\ UNCHANGED <<table, alive, audience, reached>>

Read(s) ==
    /\ s \in open
    /\ open' = open \ {s}
    /\ audience' = [audience EXCEPT ![s] = {t \in Tokens : table[t] = to[s]}]
    /\ UNCHANGED <<table, alive, to, reached>>

GiveUp ==
    /\ \E S \in SUBSET open : open' = open \ S
    /\ UNCHANGED <<table, alive, to, audience, reached>>

Reach(s, t) ==
    /\ t \in audience[s] /\ t \in alive /\ t \notin reached[s]
    /\ reached' = [reached EXCEPT ![s] = @ \cup {t}]
    /\ UNCHANGED <<table, alive, to, open, audience>>

Next ==
    \/ \E t \in Tokens : Register(t) \/ Die(t) \/ Forget(t)
    \/ \E s \in Sends : Call(s) \/ Read(s)
    \/ \E s \in Sends, t \in Tokens : Reach(s, t)
    \/ GiveUp

Spec == Init /\ [][Next]_vars
=============================================================================
