-------------------------- MODULE PushNotifications --------------------------
(***************************************************************************)
(* Push notifications: the device_push_tokens table, the registrations     *)
(* that devices post, and sendToUser, which reads the tokens of a user and *)
(* then sends to each of them on its own.                                  *)
(*                                                                         *)
(* The mobile app and Firebase are not under src/.  Of the app the model   *)
(* keeps that a device registers its token whenever somebody signs in on   *)
(* it, and that its requests may be lost or overtake each other.  The      *)
(* endpoint takes any user; a registration by somebody else would do to    *)
(* the table what one after a sign-in does, and is left out.  Of Firebase  *)
(* the model keeps that a token dies once, that a send to a dead token is  *)
(* refused as such, and that any other send is accepted or fails.          *)
(***************************************************************************)
EXTENDS Naturals, FiniteSets

CONSTANTS
    Users,
    Tokens,         \* one for each device
    Sends,          \* calls of sendToUser
    NoUser,
    MaxSignIns      \* bound on the sign-ins on one device

ASSUME UsersAssumption == NoUser \notin Users

VARIABLES
    signedIn,   \* the user signed in on each device
    signIns,    \* how often somebody signed in on it
    posted,     \* registrations on their way to the database
    table,      \* device_push_tokens: the user of each token that has a row
    alive,      \* tokens Firebase delivers to
    to,         \* the user each call of sendToUser is for
    reading,    \* calls whose query for the tokens is under way
    leg,        \* where each call is with each token
    last,       \* history: the user of the last registration of each token
    moved,      \* history: tokens registered since each call read the table
    missed      \* history: devices on which the registration of who is signed in failed

device == <<signedIn, signIns, posted>>
sending == <<to, reading, leg>>
vars == <<signedIn, signIns, posted, table, alive, to, reading, leg, last, moved,
          missed>>

\* "refused": Firebase said the token is dead; "lost": the process died over it.
LegStates == {"none", "sending", "refused", "accepted", "failed", "removed", "lost"}

-----------------------------------------------------------------------------
\* Devices

SignIn(t, u) ==
    /\ signIns[t] < MaxSignIns /\ signedIn[t] # u
    /\ signedIn' = [signedIn EXCEPT ![t] = u]
    /\ signIns' = [signIns EXCEPT ![t] = @ + 1]
    /\ posted' = posted \cup {<<t, u>>}
    /\ missed' = missed \ {t}
    /\ UNCHANGED <<table, alive, sending, last, moved>>

\* The app is uninstalled or its token replaced.
Die(t) ==
    /\ t \in alive
    /\ alive' = alive \ {t}
    /\ UNCHANGED <<device, table, sending, last, moved, missed>>

\* Mutant: a registration without a user is stored.
RegisterWithoutUser(t, u) ==
    /\ <<t, u>> \in posted
    /\ posted' = posted \ {<<t, u>>}
    /\ table' = [table EXCEPT ![t] = "null"] /\ last' = [last EXCEPT ![t] = "null"]
    /\ moved' = [s \in Sends |-> moved[s] \cup {t}]
    /\ UNCHANGED <<signedIn, signIns, alive, sending, missed>>

\* Mutant: a token that is already there keeps its user.
DoNothing(t, u) ==
    /\ <<t, u>> \in posted
    /\ posted' = posted \ {<<t, u>>}
    /\ table' = [table EXCEPT ![t] = IF @ = NoUser THEN u ELSE @]
    /\ last' = [last EXCEPT ![t] = u]
    /\ moved' = [s \in Sends |-> moved[s] \cup {t}]
    /\ UNCHANGED <<signedIn, signIns, alive, sending, missed>>

\* POST /push-tokens: one INSERT ... ON CONFLICT (token) DO UPDATE.
Register(t, u) ==
    /\ <<t, u>> \in posted
    /\ posted' = posted \ {<<t, u>>}
    /\ table' = [table EXCEPT ![t] = u]
    /\ last' = [last EXCEPT ![t] = u]
    /\ moved' = [s \in Sends |-> moved[s] \cup {t}]
    /\ UNCHANGED <<signedIn, signIns, alive, sending, missed>>

\* The request is lost on its way, or its INSERT rejects and it is answered with a 500.
RegistrationFails(t, u) ==
    /\ <<t, u>> \in posted
    /\ posted' = posted \ {<<t, u>>}
    /\ missed' = IF u = signedIn[t] THEN missed \cup {t} ELSE missed
    /\ UNCHANGED <<signedIn, signIns, table, alive, sending, last, moved>>

-----------------------------------------------------------------------------
\* A call of sendToUser

\* Without credentials, which is fixed when the process starts, the call returns
\* at once and is not a call of this model.
SendToUser(s, u) ==
    /\ to[s] = NoUser
    /\ to' = [to EXCEPT ![s] = u]
    /\ reading' = reading \cup {s}
    /\ UNCHANGED <<device, table, alive, leg, last, moved, missed>>

\* The query's rows, and a message started for each; or the query fails and with it
\* the call, which its caller only logs.
GetTokensForUser(s) ==
    /\ s \in reading
    /\ reading' = reading \ {s}
    /\ \/ /\ leg' = [leg EXCEPT ![s] =
                        [t \in Tokens |-> IF table[t] = to[s] THEN "sending" ELSE "none"]]
          /\ moved' = [moved EXCEPT ![s] = {}]
       \/ UNCHANGED <<leg, moved>>
    /\ UNCHANGED <<device, table, alive, to, last, missed>>

SetLeg(s, t, state) == leg' = [leg EXCEPT ![s][t] = state]

\* Mutant: the error code is not looked at, and every failure counts as a dead token.
EveryErrorIsFinal(s, t) ==
    /\ leg[s][t] = "sending"
    /\ \/ t \in alive /\ SetLeg(s, t, "accepted")
       \/ SetLeg(s, t, "refused")
    /\ UNCHANGED <<device, table, alive, to, reading, last, moved, missed>>

\* sendToToken up to the answer of messaging.send.  A failure for another reason
\* than a dead token is logged.
Send(s, t) ==
    /\ leg[s][t] = "sending"
    /\ \/ t \in alive /\ SetLeg(s, t, "accepted")
       \/ t \notin alive /\ SetLeg(s, t, "refused")
       \/ SetLeg(s, t, "failed")
    /\ UNCHANGED <<device, table, alive, to, reading, last, moved, missed>>

\* Mutant: the tokens are sent to in one try, which a failing DELETE leaves.
RemoveStopsCall(s, t) ==
    /\ leg[s][t] = "refused"
    /\ \/ table' = [table EXCEPT ![t] = NoUser] /\ SetLeg(s, t, "removed")
       \/ leg' = [leg EXCEPT ![s] = [k \in Tokens |-> IF k = t THEN "failed"
                                      ELSE IF leg[s][k] = "sending" THEN "none" ELSE leg[s][k]]]
          /\ UNCHANGED table
    /\ UNCHANGED <<device, alive, to, reading, last, moved, missed>>

\* Its end for a dead token: the DELETE goes by token, whoever has it by now; or it
\* fails and the call rejects, which stops none of the other sends.
Remove(s, t) ==
    /\ leg[s][t] = "refused"
    /\ \/ table' = [table EXCEPT ![t] = NoUser] /\ SetLeg(s, t, "removed")
       \/ UNCHANGED table /\ SetLeg(s, t, "failed")
    /\ UNCHANGED <<device, alive, to, reading, last, moved, missed>>

\* Mutant: a call that the process died over is made again.
CallsAgain ==
    /\ \/ reading # {}
       \/ \E s \in Sends, t \in Tokens : leg[s][t] \in {"sending", "refused"}
    /\ reading' = reading \cup {s \in Sends : \E t \in Tokens : leg[s][t] \in {"sending", "refused"}}
    /\ UNCHANGED <<device, table, alive, to, leg, last, moved, missed>>

\* The process dies: no call goes on, and none is made again.
Crash ==
    /\ \/ reading # {}
       \/ \E s \in Sends, t \in Tokens : leg[s][t] \in {"sending", "refused"}
    /\ reading' = {}
    /\ leg' = [s \in Sends |-> [t \in Tokens |->
                 IF leg[s][t] \in {"sending", "refused"} THEN "lost" ELSE leg[s][t]]]
    /\ UNCHANGED <<device, table, alive, to, last, moved, missed>>

-----------------------------------------------------------------------------
Init ==
    /\ signedIn = [t \in Tokens |-> NoUser]
    /\ signIns = [t \in Tokens |-> 0]
    /\ posted = {}
    /\ table = [t \in Tokens |-> NoUser]
    /\ alive = Tokens
    /\ to = [s \in Sends |-> NoUser]
    /\ reading = {}
    /\ leg = [s \in Sends |-> [t \in Tokens |-> "none"]]
    /\ last = [t \in Tokens |-> NoUser]
    /\ moved = [s \in Sends |-> {}]
    /\ missed = {}

Next ==
    \/ \E t \in Tokens, u \in Users : SignIn(t, u) \/ Register(t, u) \/ RegistrationFails(t, u)
    \/ \E t \in Tokens : Die(t)
    \/ \E s \in Sends, u \in Users : SendToUser(s, u)
    \/ \E s \in Sends : GetTokensForUser(s)
    \/ \E s \in Sends, t \in Tokens : Send(s, t) \/ Remove(s, t)
    \/ Crash

Spec == Init /\ [][Next]_vars

\* Postgres and Firebase answer, if only with an error.
Fairness ==
    /\ \A s \in Sends : WF_vars(GetTokensForUser(s))
    /\ \A s \in Sends, t \in Tokens : WF_vars(Send(s, t) \/ Remove(s, t))

FairSpec == Spec /\ Fairness

-----------------------------------------------------------------------------
(***************************************************************************)
(* Properties                                                              *)
(***************************************************************************)

\* The shape of the state.
TypeOK ==
    /\ signedIn \in [Tokens -> Users \cup {NoUser}]
    /\ signIns \in [Tokens -> Nat]
    /\ posted \subseteq Tokens \X Users
    /\ table \in [Tokens -> Users \cup {NoUser}]
    /\ alive \subseteq Tokens
    /\ to \in [Sends -> Users \cup {NoUser}]
    /\ reading \subseteq Sends
    /\ leg \in [Sends -> [Tokens -> LegStates]]
    /\ last \in [Tokens -> Users \cup {NoUser}]
    /\ moved \in [Sends -> SUBSET Tokens]
    /\ missed \subseteq Tokens

\* A device that was registered and is still reachable has its row, with the user
\* it was last registered for: no failing send, for whomever and however late its
\* DELETE, costs a user a device.
AliveKeepsItsRow ==
    \A t \in Tokens : t \in alive => table[t] = last[t]

\* A message for one user reaches a device that was last registered for another
\* only if that registration came after the call had read its tokens.
PushesFollowTheDevice ==
    [][\A s \in Sends, t \in Tokens :
          leg[s][t] # "accepted" /\ leg'[s][t] = "accepted" =>
             last[t] = to[s] \/ t \in moved[s]]_vars

\* No token that a call has read is dropped.
NoneDropped ==
    [][\A s \in Sends, t \in Tokens : leg[s][t] = "sending" => leg'[s][t] # "none"]_vars

\* Every token that a call has read gets its message, or a failure of its own,
\* whatever happens to the call's other tokens: none is dropped, and again and again
\* none is left to try.
EveryTokenTried ==
    /\ NoneDropped
    /\ []<>(\A s \in Sends, t \in Tokens : leg[s][t] \notin {"sending", "refused"})

Delivery == INSTANCE PushDelivery WITH
    open <- reading,
    audience <- [s \in Sends |-> {t \in Tokens : leg[s][t] # "none"}],
    reached <- [s \in Sends |-> {t \in Tokens : leg[s][t] = "accepted"}]

\* Registrations, calls, late answers, DELETEs and crashes keep the promise of
\* PushDelivery: a call reaches a device at most once, and only one that was its
\* user's at the one moment it read; a row comes with a registration and goes only
\* when its device can no longer be reached, however late the DELETE.
ImplementsDelivery == Delivery!Spec

-----------------------------------------------------------------------------
(***************************************************************************)
(* What the repository says of itself and the code does not do             *)
(***************************************************************************)

\* push-tokens.service.ts: registering a device moves it "to whichever user is
\* currently signed in".  Once no registration of it is under way, it is there, unless
\* the registration of that user failed.
RowFollowsSignIn ==
    \A t \in alive \ missed :
       (\A u \in Users : <<t, u>> \notin posted) => table[t] = signedIn[t]
=============================================================================
