------------------------------- MODULE Accounts -------------------------------
(***************************************************************************)
(* Accounts: the users table, the roles that a sign-up hook and people add *)
(* to it, sessions, and the rows of other tables that refer to a user.     *)
(*                                                                         *)
(* better-auth is not under src/.  Of it the model keeps what auth.ts      *)
(* relies on: a sign-up stores the user before it calls the hook, and then *)
(* waits for it; a deletion is asked for with a session and ends in one    *)
(* DELETE of the user, before which the library may have deleted the       *)
(* user's sessions (and credentials, which are left out: nothing here      *)
(* reads them); customSession gets a user that was read before it.         *)
(* The two pools of the process are two connections to one database.       *)
(***************************************************************************)
EXTENDS Naturals

CONSTANTS
    UserIds,        \* the uuids the database may generate; none is used again
    Roles, Guest,   \* the rows of roles; role_id 2
    Clients,        \* slots for session requests
    Idle

ASSUME GuestAssumption == Guest \in Roles

\* The tables that refer to users without ON DELETE CASCADE.
Tables == {"bookings", "hotels", "device_push_tokens"}

VARIABLES
    users,      \* "none", "stored" or "deleted"
    signUp,     \* where the sign-up of each user is
    user_roles, \* the roles of each user
    sessions,   \* the users with a session
    refs,       \* <<user, table>>: the table has rows of the user
    booking,    \* users of POST /bookings requests the guard has let through
    deleting,   \* users whose deletion has been asked for
    asking,     \* the session request of each client: whose, and the roles it had then
    answer      \* the last session of each user that each client was answered

tables == <<users, user_roles, sessions, refs>>
requests == <<signUp, booking, deleting, asking, answer>>
vars == <<tables, requests>>

\* "lost": the process died over it.
SignUpStates == {"none", "hook", "made", "failed", "lost"}

Stored(u) == users[u] = "stored"

-----------------------------------------------------------------------------
\* Sign-up

CreateUser(u) ==
    /\ users[u] = "none"
    /\ users' = [users EXCEPT ![u] = "stored"]
    /\ signUp' = [signUp EXCEPT ![u] = "hook"]
    /\ UNCHANGED <<user_roles, sessions, refs, booking, deleting, asking, answer>>

\* Mutant: a role that is not in the roles table.
InsertNoRole(u, role) ==
    /\ Stored(u)
    /\ user_roles' = [user_roles EXCEPT ![u] = @ \cup {Idle}]

InsertRole(u, role) ==
    /\ Stored(u)
    /\ user_roles' = [user_roles EXCEPT ![u] = @ \cup {role}]

\* Mutant: the hook does not wait for its query.
HookNotAwaited(u) ==
    /\ signUp[u] = "hook"
    /\ signUp' = [signUp EXCEPT ![u] = "made"]
    /\ InsertRole(u, Guest) \/ UNCHANGED user_roles
    /\ UNCHANGED <<users, sessions, refs, booking, deleting, asking, answer>>

\* databaseHooks.user.create.after: the role is stored; or the query rejects and
\* the sign-up with it, be it that only the answer was lost.
AfterCreate(u) ==
    /\ signUp[u] = "hook"
    /\ \/ InsertRole(u, Guest) /\ signUp' = [signUp EXCEPT ![u] = "made"]
       \/ /\ InsertRole(u, Guest) \/ UNCHANGED user_roles
          /\ signUp' = [signUp EXCEPT ![u] = "failed"]
    /\ UNCHANGED <<users, sessions, refs, booking, deleting, asking, answer>>

\* Host and admin roles are added by hand.
GrantRole(u, role) ==
    /\ role # Guest /\ role \notin user_roles[u]
    /\ InsertRole(u, role)
    /\ UNCHANGED <<users, sessions, refs, requests>>

\* By password or GitHub, at the end of a sign-up or later; also for the user that
\* a failed sign-up has left.
SignIn(u) ==
    /\ Stored(u) /\ u \notin sessions
    /\ sessions' = sessions \cup {u}
    /\ UNCHANGED <<users, user_roles, refs, requests>>

\* Or the session expires.
SignOut(u) ==
    /\ u \in sessions
    /\ sessions' = sessions \ {u}
    /\ UNCHANGED <<users, user_roles, refs, requests>>

-----------------------------------------------------------------------------
\* The session, and its roles

\* The library has read the session and its user, and calls customSession.
ReadSession(c, u) ==
    /\ asking[c] = Idle /\ u \in sessions
    /\ asking' = [asking EXCEPT ![c] = [user |-> u, held |-> user_roles[u]]]
    /\ UNCHANGED <<tables, signUp, booking, deleting, answer>>

Reply(c, roles) ==
    /\ asking[c] # Idle
    /\ answer' = [answer EXCEPT ![c][asking[c].user] =
                    [roles |-> roles, held |-> asking[c].held, gone |-> ~ Stored(asking[c].user)]]
    /\ asking' = [asking EXCEPT ![c] = Idle]
    /\ UNCHANGED <<tables, signUp, booking, deleting>>

\* Mutant: one role is enough.
OneRole(c) ==
    /\ asking[c] # Idle
    /\ \E roles \in SUBSET user_roles[asking[c].user] :
          /\ roles = {} <=> user_roles[asking[c].user] = {}
          /\ \A r, s \in roles : r = s
          /\ Reply(c, roles)

\* customSession joins the roles of this moment.
CustomSession(c) ==
    /\ asking[c] # Idle
    /\ Reply(c, user_roles[asking[c].user])

\* Its query rejects: the request fails without an answer.
SessionFails(c) ==
    /\ asking[c] # Idle
    /\ asking' = [asking EXCEPT ![c] = Idle]
    /\ UNCHANGED <<tables, signUp, booking, deleting, answer>>

-----------------------------------------------------------------------------
\* Rows that refer to users

\* Mutant: the foreign key is not there.
NoForeignKey(u, table) == refs' = refs \cup {<<u, table>>}

\* A row is inserted, or its foreign key refuses it: a 500.
Refer(u, table) ==
    IF Stored(u) THEN refs' = refs \cup {<<u, table>>} ELSE UNCHANGED refs

\* The guard of POST /bookings finds the session; the INSERT comes some queries later.
Guarded(u) ==
    /\ u \in sessions /\ u \notin booking
    /\ booking' = booking \cup {u}
    /\ UNCHANGED <<tables, signUp, deleting, asking, answer>>

InsertBooking(u) ==
    /\ u \in booking
    /\ booking' = booking \ {u}
    /\ Refer(u, "bookings") \/ UNCHANGED refs
    /\ UNCHANGED <<users, user_roles, sessions, signUp, deleting, asking, answer>>

\* POST /push-tokens has the user in its body, whoever is signed in by now.
RegisterToken(u) ==
    /\ users[u] # "none"
    /\ Refer(u, "device_push_tokens")
    /\ UNCHANGED <<users, user_roles, sessions, requests>>

\* hotels.owner_id is set by hand.
OwnHotel(u) ==
    /\ Stored(u)
    /\ Refer(u, "hotels")
    /\ UNCHANGED <<users, user_roles, sessions, requests>>

\* The last booking is deleted, the token dies or moves to another user, or the hotel
\* gets another owner.
Unrefer(u, table) ==
    /\ <<u, table>> \in refs
    /\ refs' = refs \ {<<u, table>>}
    /\ UNCHANGED <<users, user_roles, sessions, requests>>

-----------------------------------------------------------------------------
\* Self-service deletion

AskDelete(u) ==
    /\ u \in sessions /\ u \notin deleting
    /\ deleting' = deleting \cup {u}
    /\ UNCHANGED <<tables, signUp, booking, asking, answer>>

\* DELETE FROM users, with what cascades.
DeleteRow(u) ==
    /\ users' = [users EXCEPT ![u] = "deleted"]
    /\ sessions' = sessions \ {u}
    /\ user_roles' = [user_roles EXCEPT ![u] = {}]

\* The row goes if nothing refers to it and the query succeeds; otherwise the user
\* stays, with sessions or without.
DeleteUser(u) ==
    /\ u \in deleting
    /\ deleting' = deleting \ {u}
    /\ \/ (\A table \in Tables : <<u, table>> \notin refs) /\ DeleteRow(u)
       \/ sessions' \in {sessions, sessions \ {u}} /\ UNCHANGED <<users, user_roles>>
    /\ UNCHANGED <<refs, signUp, booking, asking, answer>>

-----------------------------------------------------------------------------
\* The process dies.
Crash ==
    /\ \/ booking \cup deleting # {}
       \/ \E u \in UserIds : signUp[u] = "hook"
       \/ \E c \in Clients : asking[c] # Idle
    /\ signUp' = [u \in UserIds |-> IF signUp[u] = "hook" THEN "lost" ELSE signUp[u]]
    /\ booking' = {} /\ deleting' = {}
    /\ asking' = [c \in Clients |-> Idle]
    /\ UNCHANGED <<tables, answer>>

Init ==
    /\ users = [u \in UserIds |-> "none"]
    /\ signUp = [u \in UserIds |-> "none"]
    /\ user_roles = [u \in UserIds |-> {}]
    /\ sessions = {} /\ refs = {} /\ booking = {} /\ deleting = {}
    /\ asking = [c \in Clients |-> Idle]
    /\ answer = [c \in Clients |-> [u \in UserIds |-> Idle]]

Next ==
    \/ \E u \in UserIds :
          \/ CreateUser(u) \/ AfterCreate(u) \/ SignIn(u) \/ SignOut(u)
          \/ Guarded(u) \/ InsertBooking(u) \/ RegisterToken(u) \/ OwnHotel(u)
          \/ AskDelete(u) \/ DeleteUser(u)
    \/ \E u \in UserIds, role \in Roles : GrantRole(u, role)
    \/ \E u \in UserIds, table \in Tables : Unrefer(u, table)
    \/ \E c \in Clients, u \in UserIds : ReadSession(c, u)
    \/ \E c \in Clients : CustomSession(c) \/ SessionFails(c)
    \/ Crash

Spec == Init /\ [][Next]_vars

-----------------------------------------------------------------------------
(***************************************************************************)
(* Properties                                                              *)
(***************************************************************************)

Asked == [user : UserIds, held : SUBSET Roles]
Answer == [roles : SUBSET Roles, held : SUBSET Roles, gone : BOOLEAN]

ASSUME IdleAssumption == Idle \notin Asked /\ Idle \notin Answer

\* The shape of the state.
TypeOK ==
    /\ users \in [UserIds -> {"none", "stored", "deleted"}]
    /\ signUp \in [UserIds -> SignUpStates]
    /\ user_roles \in [UserIds -> SUBSET Roles]
    /\ sessions \subseteq UserIds /\ refs \subseteq UserIds \X Tables
    /\ booking \subseteq UserIds /\ deleting \subseteq UserIds
    /\ asking \in [Clients -> Asked \cup {Idle}]
    /\ answer \in [Clients -> [UserIds -> Answer \cup {Idle}]]

\* A user that is not there has no session, role, booking, hotel or token, although
\* requests that were let in for it run on after its deletion.
NoDanglingRows ==
    \A u \in UserIds : ~ Stored(u) =>
       /\ u \notin sessions /\ user_roles[u] = {}
       /\ \A table \in Tables : <<u, table>> \notin refs

\* "Every new signup gets exactly one row": an account that anybody can use has a
\* role, unless its sign-up failed, was cut off by a crash or is not over yet.
RolelessOnlyByFailure ==
    \A u \in UserIds : Stored(u) /\ user_roles[u] = {} =>
       signUp[u] \in {"hook", "failed", "lost"}

\* "Fresh on each request": a session has every role that its user had when it was
\* asked for, or, if the user was deleted under the request, none.
RolesAreFresh ==
    \A c \in Clients, u \in UserIds : answer[c][u] # Idle =>
       IF answer[c][u].gone THEN answer[c][u].roles = {}
                            ELSE answer[c][u].held \subseteq answer[c][u].roles
=============================================================================
