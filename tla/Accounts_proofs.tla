--------------------------- MODULE Accounts_proofs ---------------------------
(***************************************************************************)
(* Accounts: proofs for any number of users, roles and clients.            *)
(***************************************************************************)
EXTENDS Accounts, TLAPS

\* What a session request holds while customSession joins the roles: its user was
\* there, and still has the roles of that moment unless it was deleted.
AskedInv ==
    \A c \in Clients : asking[c] # Idle =>
       /\ users[asking[c].user] # "none"
       /\ Stored(asking[c].user) => asking[c].held \subseteq user_roles[asking[c].user]

AccountInv ==
    TypeOK /\ NoDanglingRows /\ RolelessOnlyByFailure /\ AskedInv /\ RolesAreFresh

-----------------------------------------------------------------------------
\* Every step keeps the shape of the state.
LEMMA AccountTypeStep ==
  ASSUME TypeOK, [Next]_vars
  PROVE  TypeOK'
<1>. USE GuestAssumption DEF TypeOK, SignUpStates, Tables
<1>1. ASSUME NEW u \in UserIds, CreateUser(u)  PROVE TypeOK'
  BY <1>1 DEF CreateUser
<1>2. ASSUME NEW u \in UserIds, AfterCreate(u)  PROVE TypeOK'
  BY <1>2 DEF AfterCreate, InsertRole
<1>3. ASSUME NEW u \in UserIds, NEW role \in Roles, GrantRole(u, role)  PROVE TypeOK'
  BY <1>3 DEF GrantRole, InsertRole, requests
<1>4. ASSUME NEW u \in UserIds, SignIn(u) \/ SignOut(u)  PROVE TypeOK'
  BY <1>4 DEF SignIn, SignOut, requests
<1>5. ASSUME NEW u \in UserIds, Guarded(u) \/ AskDelete(u)  PROVE TypeOK'
  BY <1>5 DEF Guarded, AskDelete, tables
<1>6. ASSUME NEW u \in UserIds, InsertBooking(u) \/ RegisterToken(u) \/ OwnHotel(u)
      PROVE  TypeOK'
  BY <1>6 DEF InsertBooking, RegisterToken, OwnHotel, Refer, requests
<1>7. ASSUME NEW u \in UserIds, NEW t \in Tables, Unrefer(u, t)  PROVE TypeOK'
  BY <1>7 DEF Unrefer, requests
<1>8. ASSUME NEW u \in UserIds, DeleteUser(u)  PROVE TypeOK'
  BY <1>8 DEF DeleteUser, DeleteRow
<1>9. ASSUME NEW c \in Clients, NEW u \in UserIds, ReadSession(c, u)  PROVE TypeOK'
  BY <1>9 DEF ReadSession, tables, Asked
<1>10. ASSUME NEW c \in Clients, CustomSession(c)  PROVE TypeOK'
  <2>. DEFINE v == asking[c].user
              given == [roles |-> user_roles[v], held |-> asking[c].held, gone |-> ~ Stored(v)]
  <2>1. asking[c] \in Asked /\ v \in UserIds
    BY <1>10 DEF CustomSession, Asked
  <2>2. given \in Answer
    BY <2>1 DEF Asked, Answer, Stored
  <2>3. answer' = [answer EXCEPT ![c] = [answer[c] EXCEPT ![v] = given]]
    BY <1>10 DEF CustomSession, Reply
  <2>. HIDE DEF given, v
  <2>4. answer' \in [Clients -> [UserIds -> Answer \cup {Idle}]]
    BY <2>1, <2>2, <2>3
  <2>. QED
    BY <1>10, <2>4 DEF CustomSession, Reply, tables
<1>11. ASSUME NEW c \in Clients, SessionFails(c)  PROVE TypeOK'
  BY <1>11 DEF SessionFails, tables
<1>12. CASE Crash
  BY <1>12 DEF Crash, tables
<1>13. CASE UNCHANGED vars
  BY <1>13 DEF vars, tables, requests
<1>. QED
  BY <1>1, <1>2, <1>3, <1>4, <1>5, <1>6, <1>7, <1>8, <1>9, <1>10, <1>11, <1>12, <1>13 DEF Next

\* Only a deletion takes a stored user away, and only one that nothing refers to.
LEMMA DanglingStep ==
  ASSUME TypeOK, NoDanglingRows, [Next]_vars
  PROVE  NoDanglingRows'
<1>. SUFFICES ASSUME NEW v \in UserIds, users'[v] # "stored"
     PROVE  /\ v \notin sessions' /\ user_roles'[v] = {}
            /\ \A table \in Tables : <<v, table>> \notin refs'
  BY DEF NoDanglingRows, Stored
<1>o. users[v] # "stored" =>
        /\ v \notin sessions /\ user_roles[v] = {}
        /\ \A table \in Tables : <<v, table>> \notin refs
  BY DEF NoDanglingRows, Stored
<1>. USE <1>o DEF TypeOK, Stored
<1>1. ASSUME NEW u \in UserIds, CreateUser(u) \/ SignIn(u) \/ SignOut(u)
      PROVE  /\ v \notin sessions' /\ user_roles'[v] = {}
             /\ \A table \in Tables : <<v, table>> \notin refs'
  BY <1>1 DEF CreateUser, SignIn, SignOut
<1>2. ASSUME NEW u \in UserIds, AfterCreate(u)
      PROVE  /\ v \notin sessions' /\ user_roles'[v] = {}
             /\ \A table \in Tables : <<v, table>> \notin refs'
  BY <1>2 DEF AfterCreate, InsertRole
<1>3. ASSUME NEW u \in UserIds, NEW role \in Roles, GrantRole(u, role)
      PROVE  /\ v \notin sessions' /\ user_roles'[v] = {}
             /\ \A table \in Tables : <<v, table>> \notin refs'
  BY <1>3 DEF GrantRole, InsertRole
<1>4. ASSUME NEW u \in UserIds, InsertBooking(u) \/ RegisterToken(u) \/ OwnHotel(u)
      PROVE  /\ v \notin sessions' /\ user_roles'[v] = {}
             /\ \A table \in Tables : <<v, table>> \notin refs'
  BY <1>4 DEF InsertBooking, RegisterToken, OwnHotel, Refer
<1>5. ASSUME NEW u \in UserIds, NEW t \in Tables, Unrefer(u, t)
      PROVE  /\ v \notin sessions' /\ user_roles'[v] = {}
             /\ \A table \in Tables : <<v, table>> \notin refs'
  BY <1>5 DEF Unrefer
<1>6. ASSUME NEW u \in UserIds, DeleteUser(u)
      PROVE  /\ v \notin sessions' /\ user_roles'[v] = {}
             /\ \A table \in Tables : <<v, table>> \notin refs'
  BY <1>6 DEF DeleteUser, DeleteRow
<1>7. \/ \E u \in UserIds : Guarded(u) \/ AskDelete(u)
      \/ \E c \in Clients, u \in UserIds : ReadSession(c, u)
      \/ \E c \in Clients : CustomSession(c) \/ SessionFails(c)
      \/ Crash
      => UNCHANGED tables
  BY DEF Guarded, AskDelete, ReadSession, CustomSession, Reply, SessionFails, Crash
<1>8. UNCHANGED vars => UNCHANGED tables
  BY DEF vars
<1>9. UNCHANGED tables => /\ v \notin sessions' /\ user_roles'[v] = {}
                          /\ \A table \in Tables : <<v, table>> \notin refs'
  BY DEF tables
<1>. QED
  BY <1>1, <1>2, <1>3, <1>4, <1>5, <1>6, <1>7, <1>8, <1>9 DEF Next

\* A sign-up that is reported as made has stored its role, and roles go with the
\* user only.
LEMMA RolelessStep ==
  ASSUME TypeOK, RolelessOnlyByFailure, [Next]_vars
  PROVE  RolelessOnlyByFailure'
<1>. SUFFICES ASSUME NEW v \in UserIds, users'[v] = "stored", user_roles'[v] = {}
     PROVE  signUp'[v] \in {"hook", "failed", "lost"}
  BY DEF RolelessOnlyByFailure, Stored
<1>o. users[v] = "stored" /\ user_roles[v] = {} => signUp[v] \in {"hook", "failed", "lost"}
  BY DEF RolelessOnlyByFailure, Stored
<1>a. ASSUME AfterCreate(v)
      PROVE  signUp'[v] = "failed" \/ Guest \in user_roles'[v]
  <2>1. /\ signUp \in [UserIds -> SignUpStates]
        /\ user_roles \in [UserIds -> SUBSET Roles]
    BY DEF TypeOK
  <2>. QED
    BY <1>a, <2>1 DEF AfterCreate, InsertRole
<1>. USE <1>o DEF TypeOK
<1>1. ASSUME NEW u \in UserIds, CreateUser(u) \/ SignIn(u) \/ SignOut(u)
      PROVE  signUp'[v] \in {"hook", "failed", "lost"}
  BY <1>1 DEF CreateUser, SignIn, SignOut, requests
<1>2. ASSUME NEW u \in UserIds, AfterCreate(u)
      PROVE  signUp'[v] \in {"hook", "failed", "lost"}
  <2>1. CASE u = v
    <3>1. signUp'[v] = "failed" \/ Guest \in user_roles'[v]
      BY <1>2, <1>a, <2>1
    <3>. QED
      BY <3>1
  <2>2. CASE u # v
    BY <1>2, <2>2 DEF AfterCreate, InsertRole
  <2>. QED
    BY <2>1, <2>2
<1>3. ASSUME NEW u \in UserIds, NEW role \in Roles, GrantRole(u, role)
      PROVE  signUp'[v] \in {"hook", "failed", "lost"}
  BY <1>3 DEF GrantRole, InsertRole, requests
<1>4. ASSUME NEW u \in UserIds, InsertBooking(u) \/ RegisterToken(u) \/ OwnHotel(u)
      PROVE  signUp'[v] \in {"hook", "failed", "lost"}
  BY <1>4 DEF InsertBooking, RegisterToken, OwnHotel, requests
<1>5. ASSUME NEW u \in UserIds, NEW t \in Tables, Unrefer(u, t)
      PROVE  signUp'[v] \in {"hook", "failed", "lost"}
  BY <1>5 DEF Unrefer, requests
<1>6. ASSUME NEW u \in UserIds, DeleteUser(u)
      PROVE  signUp'[v] \in {"hook", "failed", "lost"}
  BY <1>6 DEF DeleteUser, DeleteRow
<1>7. \/ \E u \in UserIds : Guarded(u) \/ AskDelete(u)
      \/ \E c \in Clients, u \in UserIds : ReadSession(c, u)
      \/ \E c \in Clients : CustomSession(c) \/ SessionFails(c)
      \/ UNCHANGED vars
      => UNCHANGED <<users, user_roles, signUp>>
  BY DEF Guarded, AskDelete, ReadSession, CustomSession, Reply, SessionFails, vars, tables, requests
<1>8. CASE Crash
  BY <1>8 DEF Crash, tables
<1>. QED
  BY <1>1, <1>2, <1>3, <1>4, <1>5, <1>6, <1>7, <1>8 DEF Next

\* Users do not come back, and a user that stays keeps its roles.
LEMMA RolesOnlyGrow ==
  ASSUME TypeOK, [Next]_vars, NEW v \in UserIds, users[v] # "none"
  PROVE  /\ users'[v] # "none"
         /\ users'[v] = "stored" => users[v] = "stored" /\ user_roles[v] \subseteq user_roles'[v]
<1>. USE DEF TypeOK
<1>1. ASSUME NEW u \in UserIds,
             \/ CreateUser(u) \/ SignIn(u) \/ SignOut(u) \/ InsertBooking(u)
             \/ RegisterToken(u) \/ OwnHotel(u) \/ Guarded(u) \/ AskDelete(u)
      PROVE  users'[v] = users[v] /\ user_roles' = user_roles
  BY <1>1 DEF CreateUser, SignIn, SignOut, InsertBooking, RegisterToken, OwnHotel,
              Guarded, AskDelete, tables
<1>2. ASSUME NEW u \in UserIds, AfterCreate(u)
      PROVE  users' = users /\ user_roles[v] \subseteq user_roles'[v]
  BY <1>2 DEF AfterCreate, InsertRole
<1>3. ASSUME NEW u \in UserIds, NEW role \in Roles, GrantRole(u, role)
      PROVE  users' = users /\ user_roles[v] \subseteq user_roles'[v]
  BY <1>3 DEF GrantRole, InsertRole
<1>4. ASSUME NEW u \in UserIds, DeleteUser(u)
      PROVE  /\ users'[v] # "none"
             /\ users'[v] = "stored" => users[v] = "stored" /\ user_roles'[v] = user_roles[v]
  BY <1>4 DEF DeleteUser, DeleteRow
<1>5. \/ \E u \in UserIds, t \in Tables : Unrefer(u, t)
      \/ \E c \in Clients, u \in UserIds : ReadSession(c, u)
      \/ \E c \in Clients : CustomSession(c) \/ SessionFails(c)
      \/ Crash \/ UNCHANGED vars
      => users' = users /\ user_roles' = user_roles
  BY DEF Unrefer, ReadSession, CustomSession, Reply, SessionFails, Crash, vars, tables
<1>. QED
  BY <1>1, <1>2, <1>3, <1>4, <1>5 DEF Next

\* A session request is new, as it was or over.
LEMMA AskedStep ==
  ASSUME TypeOK, NoDanglingRows, AskedInv, [Next]_vars
  PROVE  AskedInv'
<1>. SUFFICES ASSUME NEW d \in Clients, asking'[d] # Idle
     PROVE  /\ users'[asking'[d].user] # "none"
            /\ users'[asking'[d].user] = "stored" =>
                  asking'[d].held \subseteq user_roles'[asking'[d].user]
  BY DEF AskedInv, Stored
<1>1. CASE asking'[d] = asking[d]
  <2>1. asking[d] \in Asked
    BY <1>1 DEF TypeOK
  <2>2. asking[d].user \in UserIds
    BY <2>1 DEF Asked
  <2>3. /\ users[asking[d].user] # "none"
        /\ users[asking[d].user] = "stored" => asking[d].held \subseteq user_roles[asking[d].user]
    BY <1>1 DEF AskedInv, Stored
  <2>. QED
    BY <1>1, <2>2, <2>3, RolesOnlyGrow
<1>2. ASSUME NEW u \in UserIds, ReadSession(d, u)
      PROVE  /\ users'[asking'[d].user] # "none"
             /\ asking'[d].held \subseteq user_roles'[asking'[d].user]
  <2>1. asking'[d] = [user |-> u, held |-> user_roles[u]] /\ users' = users
        /\ user_roles' = user_roles
    BY <1>2 DEF ReadSession, tables, TypeOK
  <2>2. users[u] # "none"
    BY <1>2 DEF ReadSession, NoDanglingRows, Stored
  <2>. QED
    BY <2>1, <2>2
<1>3. ASSUME NEW c \in Clients, NEW u \in UserIds, ReadSession(c, u), c # d
      PROVE  asking'[d] = asking[d]
  BY <1>3 DEF ReadSession, TypeOK
<1>4. ASSUME NEW c \in Clients, CustomSession(c) \/ SessionFails(c)
      PROVE  asking'[d] = asking[d]
  BY <1>4 DEF CustomSession, Reply, SessionFails, TypeOK
<1>5. ASSUME NEW u \in UserIds,
             \/ CreateUser(u) \/ AfterCreate(u) \/ SignIn(u) \/ SignOut(u)
             \/ Guarded(u) \/ InsertBooking(u) \/ RegisterToken(u) \/ OwnHotel(u)
             \/ AskDelete(u) \/ DeleteUser(u)
      PROVE  asking' = asking
  BY <1>5 DEF CreateUser, AfterCreate, SignIn, SignOut, Guarded, InsertBooking, RegisterToken,
              OwnHotel, AskDelete, DeleteUser, requests
<1>6. ASSUME NEW u \in UserIds, \/ \E role \in Roles : GrantRole(u, role)
                                \/ \E t \in Tables : Unrefer(u, t)
      PROVE  asking' = asking
  BY <1>6 DEF GrantRole, Unrefer, requests
<1>7. ~ Crash
  BY DEF Crash
<1>8. UNCHANGED vars => asking' = asking
  BY DEF vars, requests
<1>. QED
  BY <1>1, <1>2, <1>3, <1>4, <1>5, <1>6, <1>7, <1>8 DEF Next

\* An answer is given once and stays.
LEMMA FreshRolesStep ==
  ASSUME TypeOK, NoDanglingRows, AskedInv, RolesAreFresh, [Next]_vars
  PROVE  RolesAreFresh'
<1>. DEFINE Fresh(a) == a # Idle => IF a.gone THEN a.roles = {} ELSE a.held \subseteq a.roles
<1>. SUFFICES ASSUME NEW d \in Clients, NEW u \in UserIds  PROVE Fresh(answer'[d][u])
  BY DEF RolesAreFresh
<1>o. Fresh(answer[d][u])
  BY DEF RolesAreFresh
<1>. HIDE DEF Fresh
<1>1. ASSUME NEW c \in Clients, CustomSession(c)  PROVE Fresh(answer'[d][u])
  <2>. DEFINE v == asking[c].user
              given == [roles |-> user_roles[v], held |-> asking[c].held, gone |-> ~ Stored(v)]
  <2>1. asking[c] # Idle /\ answer' = [answer EXCEPT ![c] = [answer[c] EXCEPT ![v] = given]]
    BY <1>1 DEF CustomSession, Reply
  <2>2. v \in UserIds
    BY <2>1 DEF TypeOK, Asked
  <2>3. Fresh(given)
    <3>1. CASE Stored(v)
      <4>1. asking[c].held \subseteq user_roles[v]
        BY <2>1, <3>1 DEF AskedInv
      <4>2. given = [roles |-> user_roles[v], held |-> asking[c].held, gone |-> FALSE]
        BY <3>1, Zenon
      <4>. QED
        BY <4>1, <4>2 DEF Fresh
    <3>2. CASE ~ Stored(v)
      <4>1. user_roles[v] = {}
        BY <2>2, <3>2 DEF NoDanglingRows
      <4>2. given = [roles |-> user_roles[v], held |-> asking[c].held, gone |-> TRUE]
        BY <3>2, Zenon
      <4>. QED
        BY <4>1, <4>2 DEF Fresh
    <3>. QED
      BY <3>1, <3>2
  <2>4. answer \in [Clients -> [UserIds -> Answer \cup {Idle}]]
    BY DEF TypeOK
  <2>. HIDE DEF given, v
  <2>5. answer'[d][u] = given \/ answer'[d][u] = answer[d][u]
    BY <2>1, <2>2, <2>4
  <2>. QED
    BY <2>3, <2>5, <1>o
<1>2. \/ \E w \in UserIds :
            \/ CreateUser(w) \/ AfterCreate(w) \/ SignIn(w) \/ SignOut(w)
            \/ Guarded(w) \/ InsertBooking(w) \/ RegisterToken(w) \/ OwnHotel(w)
            \/ AskDelete(w) \/ DeleteUser(w)
      \/ \E w \in UserIds, role \in Roles : GrantRole(w, role)
      \/ \E w \in UserIds, t \in Tables : Unrefer(w, t)
      \/ \E c \in Clients, w \in UserIds : ReadSession(c, w)
      \/ \E c \in Clients : SessionFails(c)
      \/ Crash \/ UNCHANGED vars
      => answer' = answer
  BY DEF CreateUser, AfterCreate, SignIn, SignOut, Guarded, InsertBooking, RegisterToken,
         OwnHotel, AskDelete, DeleteUser, GrantRole, Unrefer, ReadSession, SessionFails, Crash,
         vars, requests
<1>. QED
  BY <1>1, <1>2, <1>o DEF Next

-----------------------------------------------------------------------------
\* The inductive invariant of the accounts, for any users, roles and clients.
THEOREM AccountInvariant == Spec => []AccountInv
<1>1. Init => AccountInv
  BY IdleAssumption
     DEF Init, AccountInv, TypeOK, SignUpStates, NoDanglingRows, RolelessOnlyByFailure,
         AskedInv, RolesAreFresh, Stored
<1>2. AccountInv /\ [Next]_vars => AccountInv'
  BY AccountTypeStep, DanglingStep, RolelessStep, AskedStep, FreshRolesStep DEF AccountInv
<1>. QED
  BY <1>1, <1>2, PTL DEF Spec

\* The shape of the state, for any users, roles and clients.
THEOREM AccountsTypeCorrect == Spec => []TypeOK
BY AccountInvariant, PTL DEF AccountInv

\* Sign-ups, bookings, tokens and deletions in any order, with any of them failing or
\* cut off, leave no row of a user that is not there.
THEOREM NothingDangles == Spec => []NoDanglingRows
BY AccountInvariant, PTL DEF AccountInv

\* A user without a role is one whose sign-up has not been reported as made.
THEOREM RolelessByFailure == Spec => []RolelessOnlyByFailure
BY AccountInvariant, PTL DEF AccountInv

\* Roles granted before a session is asked for are in it.
THEOREM SessionRolesFresh == Spec => []RolesAreFresh
BY AccountInvariant, PTL DEF AccountInv

-----------------------------------------------------------------------------
(***************************************************************************)
(* One user at a time: the users share the process, the clients and the    *)
(* tables, and nothing that is done to one changes what may be done to     *)
(* another.                                                                *)
(***************************************************************************)

\* The part of a function that is user v's.
RowsOf(v, f) == [u \in {v} |-> f[u]]

\* A client that asks for another user's session does not ask, as far as v can tell.
AskedOf(v, f) == [c \in Clients |-> IF f[c] # Idle /\ f[c].user = v THEN f[c] ELSE Idle]

AnswersOf(v, f) == [c \in Clients |-> RowsOf(v, f[c])]

\* What the module says of one user, when the others are not looked at.
One(v) == INSTANCE Accounts WITH
    UserIds <- {v},
    users <- RowsOf(v, users), signUp <- RowsOf(v, signUp),
    user_roles <- RowsOf(v, user_roles), sessions <- sessions \cap {v},
    refs <- refs \cap ({v} \X Tables), booking <- booking \cap {v},
    deleting <- deleting \cap {v}, asking <- AskedOf(v, asking), answer <- AnswersOf(v, answer)

\* What a step that is another user's leaves as it was.
Elsewhere(v) ==
    /\ users'[v] = users[v] /\ signUp'[v] = signUp[v] /\ user_roles'[v] = user_roles[v]
    /\ v \in sessions' <=> v \in sessions
    /\ v \in booking' <=> v \in booking
    /\ v \in deleting' <=> v \in deleting
    /\ \A table \in Tables : <<v, table>> \in refs' <=> <<v, table>> \in refs
    /\ AskedOf(v, asking') = AskedOf(v, asking)
    /\ \A c \in Clients : answer'[c][v] = answer[c][v]

\* Such a step leaves the user where it was.
LEMMA ElsewhereStutters ==
  ASSUME NEW v \in UserIds, Elsewhere(v)
  PROVE  UNCHANGED One(v)!vars
<1>1. /\ RowsOf(v, users') = RowsOf(v, users) /\ RowsOf(v, signUp') = RowsOf(v, signUp)
      /\ RowsOf(v, user_roles') = RowsOf(v, user_roles)
  BY DEF Elsewhere, RowsOf
<1>2. /\ sessions' \cap {v} = sessions \cap {v} /\ booking' \cap {v} = booking \cap {v}
      /\ deleting' \cap {v} = deleting \cap {v}
  BY DEF Elsewhere
<1>3. refs' \cap ({v} \X Tables) = refs \cap ({v} \X Tables)
  BY DEF Elsewhere
<1>4. AnswersOf(v, answer') = AnswersOf(v, answer)
  BY DEF Elsewhere, AnswersOf, RowsOf
<1>. QED
  BY <1>1, <1>2, <1>3, <1>4 DEF One!vars, One!tables, One!requests, Elsewhere

\* A step that is one user's.
UserStep(u) ==
    \/ CreateUser(u) \/ AfterCreate(u) \/ SignIn(u) \/ SignOut(u)
    \/ Guarded(u) \/ InsertBooking(u) \/ RegisterToken(u) \/ OwnHotel(u)
    \/ AskDelete(u) \/ DeleteUser(u)
    \/ \E role \in Roles : GrantRole(u, role)
    \/ \E table \in Tables : Unrefer(u, table)

\* A step of another user.
LEMMA UserElsewhere ==
  ASSUME TypeOK, NEW v \in UserIds, NEW u \in UserIds, u # v, UserStep(u)
  PROVE  Elsewhere(v)
<1>. USE DEF TypeOK, requests, tables
<1>1. CASE CreateUser(u) \/ SignIn(u) \/ SignOut(u) \/ Guarded(u) \/ AskDelete(u)
  BY <1>1 DEF CreateUser, SignIn, SignOut, Guarded, AskDelete, Elsewhere
<1>2. CASE AfterCreate(u)
  BY <1>2 DEF AfterCreate, InsertRole, Elsewhere
<1>3. ASSUME NEW role \in Roles, GrantRole(u, role)  PROVE Elsewhere(v)
  BY <1>3 DEF GrantRole, InsertRole, Elsewhere
<1>4. CASE InsertBooking(u) \/ RegisterToken(u) \/ OwnHotel(u)
  <2>1. \A w, table : w # u => (<<w, table>> \in refs' <=> <<w, table>> \in refs)
    BY <1>4 DEF InsertBooking, RegisterToken, OwnHotel, Refer
  <2>. QED
    BY <1>4, <2>1 DEF InsertBooking, RegisterToken, OwnHotel, Elsewhere
<1>5. ASSUME NEW table \in Tables, Unrefer(u, table)  PROVE Elsewhere(v)
  BY <1>5 DEF Unrefer, Elsewhere
<1>6. CASE DeleteUser(u)
  BY <1>6 DEF DeleteUser, DeleteRow, Elsewhere
<1>. QED
  BY <1>1, <1>2, <1>3, <1>4, <1>5, <1>6 DEF UserStep

\* The operators that speak of rows say the same of one user.
LEMMA RowsHere ==
  ASSUME TypeOK, NEW v \in UserIds
  PROVE  /\ RowsOf(v, users)[v] = users[v] /\ RowsOf(v, signUp)[v] = signUp[v]
         /\ RowsOf(v, user_roles)[v] = user_roles[v]
         /\ One(v)!Stored(v) <=> Stored(v)
         /\ One(v)!Tables = Tables
<1>1. /\ RowsOf(v, users)[v] = users[v] /\ RowsOf(v, signUp)[v] = signUp[v]
      /\ RowsOf(v, user_roles)[v] = user_roles[v]
  BY DEF RowsOf
<1>2. (One(v)!Stored(v) <=> Stored(v)) /\ One(v)!Tables = Tables
  BY <1>1 DEF One!Stored, Stored, One!Tables, Tables
<1>. QED
  BY <1>1, <1>2

\* Adding and removing a row of the user, seen among all rows and among the user's.
LEMMA SetsHere ==
  ASSUME NEW v \in UserIds
  PROVE  /\ \A S : /\ (S \cup {v}) \cap {v} = (S \cap {v}) \cup {v}
                   /\ (S \ {v}) \cap {v} = (S \cap {v}) \ {v}
                   /\ v \in S \cap {v} <=> v \in S
         /\ \A R, table \in Tables :
               /\ (R \cup {<<v, table>>}) \cap ({v} \X Tables)
                    = (R \cap ({v} \X Tables)) \cup {<<v, table>>}
               /\ (R \ {<<v, table>>}) \cap ({v} \X Tables)
                    = (R \cap ({v} \X Tables)) \ {<<v, table>>}
               /\ <<v, table>> \in R \cap ({v} \X Tables) <=> <<v, table>> \in R
OBVIOUS

\* A step of the user's own.
LEMMA UserHere ==
  ASSUME TypeOK, NEW v \in UserIds
  PROVE  /\ CreateUser(v) => One(v)!CreateUser(v)
         /\ AfterCreate(v) => One(v)!AfterCreate(v)
         /\ SignIn(v) => One(v)!SignIn(v)
         /\ SignOut(v) => One(v)!SignOut(v)
         /\ Guarded(v) => One(v)!Guarded(v)
         /\ InsertBooking(v) => One(v)!InsertBooking(v)
         /\ RegisterToken(v) => One(v)!RegisterToken(v)
         /\ OwnHotel(v) => One(v)!OwnHotel(v)
         /\ AskDelete(v) => One(v)!AskDelete(v)
         /\ DeleteUser(v) => One(v)!DeleteUser(v)
         /\ \A role \in Roles : GrantRole(v, role) => One(v)!GrantRole(v, role)
         /\ \A table \in Tables : Unrefer(v, table) => One(v)!Unrefer(v, table)
<1>. USE DEF requests, tables, One!requests, One!tables
<1>u. \A x : users' = [users EXCEPT ![v] = x] => RowsOf(v, users') = [RowsOf(v, users) EXCEPT ![v] = x]
  BY DEF RowsOf, TypeOK
<1>s. \A x : signUp' = [signUp EXCEPT ![v] = x]
             => RowsOf(v, signUp') = [RowsOf(v, signUp) EXCEPT ![v] = x]
  BY DEF RowsOf, TypeOK
<1>o. \A x : user_roles' = [user_roles EXCEPT ![v] = x]
             => RowsOf(v, user_roles') = [RowsOf(v, user_roles) EXCEPT ![v] = x]
  BY DEF RowsOf, TypeOK
<1>1. CreateUser(v) => One(v)!CreateUser(v)
  BY RowsHere, <1>u, <1>s DEF CreateUser, One!CreateUser
<1>r. \A role : InsertRole(v, role) => One(v)!InsertRole(v, role)
  <2>. SUFFICES ASSUME NEW role, InsertRole(v, role)  PROVE One(v)!InsertRole(v, role)
    OBVIOUS
  <2>1. RowsOf(v, user_roles')
          = [RowsOf(v, user_roles) EXCEPT ![v] = RowsOf(v, user_roles)[v] \cup {role}]
    BY RowsHere, <1>o DEF InsertRole
  <2>. QED
    BY <2>1, RowsHere DEF InsertRole, One!InsertRole
<1>2. AfterCreate(v) => One(v)!AfterCreate(v)
  BY <1>r, <1>s, RowsHere DEF AfterCreate, One!AfterCreate
<1>3. SignIn(v) => One(v)!SignIn(v)
  BY RowsHere, SetsHere DEF SignIn, One!SignIn
<1>4. SignOut(v) => One(v)!SignOut(v)
  BY RowsHere, SetsHere DEF SignOut, One!SignOut
<1>5. Guarded(v) => One(v)!Guarded(v)
  BY SetsHere DEF Guarded, One!Guarded
<1>f. \A table \in Tables : Refer(v, table) => One(v)!Refer(v, table)
  BY RowsHere, SetsHere DEF Refer, One!Refer
<1>b. "bookings" \in Tables /\ "hotels" \in Tables /\ "device_push_tokens" \in Tables
  BY DEF Tables
<1>6. InsertBooking(v) => One(v)!InsertBooking(v)
  BY <1>f, <1>b, SetsHere DEF InsertBooking, One!InsertBooking
<1>7. RegisterToken(v) => One(v)!RegisterToken(v)
  BY <1>f, <1>b, RowsHere DEF RegisterToken, One!RegisterToken
<1>8. OwnHotel(v) => One(v)!OwnHotel(v)
  BY <1>f, <1>b, RowsHere DEF OwnHotel, One!OwnHotel
<1>9. AskDelete(v) => One(v)!AskDelete(v)
  BY SetsHere DEF AskDelete, One!AskDelete
<1>10. ASSUME DeleteUser(v)  PROVE One(v)!DeleteUser(v)
  <2>1. DeleteRow(v) => One(v)!DeleteRow(v)
    BY <1>u, <1>o, SetsHere DEF DeleteRow, One!DeleteRow
  <2>2. (\A table \in Tables : <<v, table>> \notin refs)
          => \A table \in One(v)!Tables : <<v, table>> \notin refs \cap ({v} \X Tables)
    BY RowsHere
  <2>3. sessions' \in {sessions, sessions \ {v}}
          => sessions' \cap {v} \in {sessions \cap {v}, (sessions \cap {v}) \ {v}}
    BY SetsHere
  <2>4. deleting' \cap {v} = (deleting \cap {v}) \ {v} /\ v \in deleting \cap {v}
    BY <1>10, SetsHere DEF DeleteUser
  <2>5. UNCHANGED <<refs, signUp, booking, asking, answer>>
    BY <1>10 DEF DeleteUser
  <2>6. CASE (\A table \in Tables : <<v, table>> \notin refs) /\ DeleteRow(v)
    BY <2>1, <2>2, <2>4, <2>5, <2>6 DEF One!DeleteUser
  <2>7. CASE sessions' \in {sessions, sessions \ {v}} /\ UNCHANGED <<users, user_roles>>
    BY <2>3, <2>4, <2>5, <2>7 DEF One!DeleteUser
  <2>. QED
    BY <1>10, <2>6, <2>7 DEF DeleteUser
<1>11. \A role \in Roles : GrantRole(v, role) => One(v)!GrantRole(v, role)
  BY <1>r, RowsHere DEF GrantRole, One!GrantRole
<1>12. \A table \in Tables : Unrefer(v, table) => One(v)!Unrefer(v, table)
  BY SetsHere DEF Unrefer, One!Unrefer
<1>. QED
  BY <1>1, <1>2, <1>3, <1>4, <1>5, <1>6, <1>7, <1>8, <1>9, <1>10, <1>11, <1>12

\* A session request begins.
LEMMA ReadHere ==
  ASSUME TypeOK, NEW v \in UserIds, NEW c \in Clients, NEW u \in UserIds, ReadSession(c, u)
  PROVE  IF u = v THEN One(v)!ReadSession(c, v) ELSE Elsewhere(v)
<1>. DEFINE asked == [user |-> u, held |-> user_roles[u]]
<1>1. asking[c] = Idle /\ asking' = [asking EXCEPT ![c] = asked] /\ u \in sessions
  BY DEF ReadSession
<1>2. UNCHANGED <<tables, signUp, booking, deleting, answer>>
  BY DEF ReadSession
<1>3. asked # Idle /\ asked.user = u
  BY IdleAssumption DEF Asked, TypeOK
<1>4. AskedOf(v, asking)[c] = Idle
  BY <1>1 DEF AskedOf
<1>. HIDE DEF asked
<1>5. AskedOf(v, asking') = IF u = v THEN [AskedOf(v, asking) EXCEPT ![c] = asked]
                                     ELSE AskedOf(v, asking)
  BY <1>1, <1>3 DEF AskedOf, TypeOK
<1>6. CASE u = v
  <2>1. asked = [user |-> v, held |-> RowsOf(v, user_roles)[v]]
    BY <1>6, RowsHere DEF asked
  <2>. QED
    BY <1>1, <1>2, <1>4, <1>5, <1>6, <2>1 DEF One!ReadSession, One!tables, tables
<1>7. CASE u # v
  BY <1>2, <1>5, <1>7 DEF Elsewhere, tables
<1>. QED
  BY <1>6, <1>7

\* A session request ends, with an answer or without.
LEMMA AnswerHere ==
  ASSUME TypeOK, NEW v \in UserIds, NEW c \in Clients, CustomSession(c) \/ SessionFails(c)
  PROVE  \/ One(v)!CustomSession(c) \/ One(v)!SessionFails(c)
         \/ Elsewhere(v)
<1>. DEFINE u == asking[c].user
            given == [roles |-> user_roles[u], held |-> asking[c].held, gone |-> ~ Stored(u)]
<1>1. asking[c] # Idle /\ asking' = [asking EXCEPT ![c] = Idle]
  BY DEF CustomSession, Reply, SessionFails
<1>2. UNCHANGED <<tables, signUp, booking, deleting>>
  BY DEF CustomSession, Reply, SessionFails
<1>3. u \in UserIds
  BY <1>1 DEF TypeOK, Asked
<1>4. answer' = answer \/ answer' = [answer EXCEPT ![c] = [answer[c] EXCEPT ![u] = given]]
  BY DEF CustomSession, Reply, SessionFails
<1>5. CASE u # v
  <2>1. AskedOf(v, asking') = AskedOf(v, asking)
    BY <1>1, <1>5 DEF AskedOf, TypeOK
  <2>. HIDE DEF u, given
  <2>2. \A d \in Clients : answer'[d][v] = answer[d][v]
    BY <1>3, <1>4, <1>5 DEF TypeOK
  <2>. QED
    BY <1>2, <2>1, <2>2 DEF Elsewhere, tables
<1>6. CASE u = v
  <2>1. AskedOf(v, asking)[c] = asking[c]
    BY <1>1, <1>6 DEF AskedOf
  <2>2. AskedOf(v, asking') = [AskedOf(v, asking) EXCEPT ![c] = Idle]
    BY <1>1 DEF AskedOf, TypeOK
  <2>3. ASSUME SessionFails(c)  PROVE One(v)!SessionFails(c)
    BY <2>3, <1>1, <1>2, <2>1, <2>2 DEF SessionFails, One!SessionFails, One!tables, tables
  <2>4. ASSUME CustomSession(c)  PROVE One(v)!CustomSession(c)
    <3>. DEFINE oneGiven == [roles |-> RowsOf(v, user_roles)[v], held |-> asking[c].held,
                             gone |-> ~ One(v)!Stored(v)]
    <3>1. given = oneGiven
      <4>1. RowsOf(v, user_roles)[u] = user_roles[u] /\ (One(v)!Stored(u) <=> Stored(u))
        BY <1>6, RowsHere
      <4>. QED
        BY <4>1, <1>6, Zenon
    <3>2. answer' = [answer EXCEPT ![c] = [answer[c] EXCEPT ![u] = given]]
      BY <2>4 DEF CustomSession, Reply
    <3>. HIDE DEF given, u, oneGiven
    <3>3. AnswersOf(v, answer') = [AnswersOf(v, answer) EXCEPT ![c] =
             [AnswersOf(v, answer)[c] EXCEPT ![v] = oneGiven]]
      BY <1>6, <3>1, <3>2 DEF AnswersOf, RowsOf, TypeOK
    <3>4. AskedOf(v, asking)[c].user = v
      BY <1>6, <2>1 DEF u
    <3>. QED
      BY <1>1, <1>2, <2>1, <2>2, <3>3, <3>4
         DEF oneGiven, One!CustomSession, One!Reply, One!tables, tables
  <2>. QED
    BY <2>3, <2>4
<1>. QED
  BY <1>5, <1>6

\* A crash is felt by the users for whom something was under way.
LEMMA CrashHere ==
  ASSUME TypeOK, NEW v \in UserIds, Crash
  PROVE  One(v)!Crash \/ Elsewhere(v)
<1>. DEFINE mine == AskedOf(v, asking)
            busy == \/ v \in booking \/ v \in deleting \/ signUp[v] = "hook"
                    \/ \E c \in Clients : mine[c] # Idle
<1>1. /\ signUp' = [u \in UserIds |-> IF signUp[u] = "hook" THEN "lost" ELSE signUp[u]]
      /\ booking' = {} /\ deleting' = {} /\ asking' = [c \in Clients |-> Idle]
      /\ UNCHANGED <<tables, answer>>
  BY DEF Crash
<1>2. AskedOf(v, asking') = [c \in Clients |-> Idle]
  BY <1>1 DEF AskedOf
<1>3. signUp'[v] = IF signUp[v] = "hook" THEN "lost" ELSE signUp[v]
  BY <1>1
<1>4. CASE busy
  <2>1. \/ (booking \cap {v}) \cup (deleting \cap {v}) # {}
        \/ \E u \in {v} : RowsOf(v, signUp)[u] = "hook"
        \/ \E c \in Clients : mine[c] # Idle
    BY <1>4, RowsHere
  <2>2. RowsOf(v, signUp') = [u \in {v} |-> IF RowsOf(v, signUp)[u] = "hook" THEN "lost"
                                            ELSE RowsOf(v, signUp)[u]]
    BY <1>3 DEF RowsOf
  <2>3. booking' \cap {v} = {} /\ deleting' \cap {v} = {}
    BY <1>1
  <2>. QED
    BY <1>1, <1>2, <2>1, <2>2, <2>3 DEF One!Crash, One!tables, tables
<1>5. CASE ~ busy
  <2>1. mine = [c \in Clients |-> Idle]
    BY <1>5 DEF AskedOf
  <2>. QED
    BY <1>1, <1>2, <1>3, <1>5, <2>1 DEF Elsewhere, tables
<1>. QED
  BY <1>4, <1>5

\* Each account goes the way that the module describes for one account alone, whatever
\* is done to the others: what holds of one user holds of each of any number.
THEOREM EachUserAlone ==
  ASSUME NEW v \in UserIds
  PROVE  Spec => One(v)!Spec
<1>1. Init => One(v)!Init
  BY DEF Init, One!Init, RowsOf, AskedOf, AnswersOf
<1>2. ASSUME TypeOK, [Next]_vars
      PROVE  [One(v)!Next]_(One(v)!vars)
  <2>1. ASSUME UserStep(v)  PROVE One(v)!Next
    <3>1. One(v)!Tables = Tables
      BY <1>2, RowsHere
    <3>2. \/ One(v)!CreateUser(v) \/ One(v)!AfterCreate(v) \/ One(v)!SignIn(v)
          \/ One(v)!SignOut(v) \/ One(v)!Guarded(v) \/ One(v)!InsertBooking(v)
          \/ One(v)!RegisterToken(v) \/ One(v)!OwnHotel(v)
          \/ One(v)!AskDelete(v) \/ One(v)!DeleteUser(v)
          \/ \E role \in Roles : One(v)!GrantRole(v, role)
          \/ \E table \in Tables : One(v)!Unrefer(v, table)
      BY <1>2, <2>1, UserHere DEF UserStep
    <3>. QED
      BY <3>1, <3>2 DEF One!Next
  <2>2. ASSUME NEW u \in UserIds, u # v, UserStep(u)  PROVE UNCHANGED One(v)!vars
    BY <1>2, <2>2, UserElsewhere, ElsewhereStutters
  <2>3. ASSUME NEW c \in Clients, NEW u \in UserIds, ReadSession(c, u)
        PROVE  One(v)!Next \/ UNCHANGED One(v)!vars
    <3>1. One(v)!ReadSession(c, v) \/ Elsewhere(v)
      BY <1>2, <2>3, ReadHere
    <3>. QED
      BY <3>1, ElsewhereStutters DEF One!Next
  <2>4. ASSUME NEW c \in Clients, CustomSession(c) \/ SessionFails(c)
        PROVE  One(v)!Next \/ UNCHANGED One(v)!vars
    <3>1. One(v)!CustomSession(c) \/ One(v)!SessionFails(c) \/ Elsewhere(v)
      BY <1>2, <2>4, AnswerHere
    <3>. QED
      BY <3>1, ElsewhereStutters DEF One!Next
  <2>5. CASE Crash
    <3>1. One(v)!Crash \/ Elsewhere(v)
      BY <1>2, <2>5, CrashHere
    <3>. QED
      BY <3>1, ElsewhereStutters DEF One!Next
  <2>6. CASE UNCHANGED vars
    <3>1. Elsewhere(v)
      BY <2>6 DEF vars, tables, requests, Elsewhere
    <3>. QED
      BY <3>1, ElsewhereStutters
  <2>7. Next => \/ \E u \in UserIds : UserStep(u)
                \/ \E c \in Clients, u \in UserIds : ReadSession(c, u)
                \/ \E c \in Clients : CustomSession(c) \/ SessionFails(c)
                \/ Crash
    BY DEF Next, UserStep
  <2>. QED
    BY <1>2, <2>1, <2>2, <2>3, <2>4, <2>5, <2>6, <2>7
<1>. QED
  BY <1>1, <1>2, AccountsTypeCorrect, PTL DEF Spec, One!Spec
=============================================================================
