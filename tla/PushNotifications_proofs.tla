---------------------- MODULE PushNotifications_proofs ----------------------
(***************************************************************************)
(* Push notifications: proofs for any users, devices and calls.            *)
(***************************************************************************)
EXTENDS PushNotifications, TLAPS

\* SetLeg changes one call's state with one token.
LEMMA SetLegChangesOne ==
  ASSUME leg \in [Sends -> [Tokens -> LegStates]],
         NEW s \in Sends, NEW t \in Tokens, NEW state \in LegStates, SetLeg(s, t, state)
  PROVE  /\ leg' \in [Sends -> [Tokens -> LegStates]]
         /\ \A c \in Sends, d \in Tokens :
               leg'[c][d] = IF c = s /\ d = t THEN state ELSE leg[c][d]
<1>1. leg' = [leg EXCEPT ![s] = [leg[s] EXCEPT ![t] = state]]
  BY DEF SetLeg
<1>2. leg[s] \in [Tokens -> LegStates]
  OBVIOUS
<1>3. [leg[s] EXCEPT ![t] = state] \in [Tokens -> LegStates]
  BY <1>2
<1>. QED
  BY <1>1, <1>2, <1>3

\* What Send and Remove may do: one leg, and at most the row of its token.
LEMMA SendCases ==
  ASSUME TypeOK, NEW s \in Sends, NEW t \in Tokens, Send(s, t)
  PROVE  /\ leg[s][t] = "sending"
         /\ leg' \in [Sends -> [Tokens -> LegStates]]
         /\ \E state \in {"accepted", "refused", "failed"} :
               /\ state = "refused" => t \notin alive
               /\ \A c \in Sends, d \in Tokens :
                     leg'[c][d] = IF c = s /\ d = t THEN state ELSE leg[c][d]
<1>1. PICK state \in {"accepted", "refused", "failed"} :
        SetLeg(s, t, state) /\ (state = "refused" => t \notin alive)
  BY DEF Send
<1>2. leg \in [Sends -> [Tokens -> LegStates]] /\ state \in LegStates
  BY DEF TypeOK, LegStates
<1>. QED
  BY <1>1, <1>2, SetLegChangesOne DEF Send

\* Remove ends a refused leg, with the row gone or not.
LEMMA RemoveCases ==
  ASSUME TypeOK, NEW s \in Sends, NEW t \in Tokens, Remove(s, t)
  PROVE  /\ leg[s][t] = "refused"
         /\ leg' \in [Sends -> [Tokens -> LegStates]]
         /\ \E state \in {"removed", "failed"} : \A c \in Sends, d \in Tokens :
               leg'[c][d] = IF c = s /\ d = t THEN state ELSE leg[c][d]
         /\ table' = table \/ table' = [table EXCEPT ![t] = NoUser]
<1>1. PICK state \in {"removed", "failed"} : SetLeg(s, t, state)
  BY DEF Remove
<1>2. leg \in [Sends -> [Tokens -> LegStates]] /\ state \in LegStates
  BY DEF TypeOK, LegStates
<1>. QED
  BY <1>1, <1>2, SetLegChangesOne DEF Remove

\* GetTokensForUser starts a message for each row of the user, or does nothing.
LEMMA ReadCases ==
  ASSUME TypeOK, NEW s \in Sends, GetTokensForUser(s)
  PROVE  /\ leg' \in [Sends -> [Tokens -> LegStates]] /\ moved' \in [Sends -> SUBSET Tokens]
         /\ \A c \in Sends, t \in Tokens :
              \/ leg'[c][t] = leg[c][t] /\ moved'[c] = moved[c]
              \/ c = s /\ leg'[c][t] = "none"
              \/ c = s /\ leg'[c][t] = "sending" /\ table[t] = to[s]
<1>t. leg \in [Sends -> [Tokens -> LegStates]] /\ moved \in [Sends -> SUBSET Tokens]
  BY DEF TypeOK
<1>1. CASE UNCHANGED <<leg, moved>>
  BY <1>1, <1>t
<1>2. CASE /\ leg' = [leg EXCEPT ![s] =
                        [t \in Tokens |-> IF table[t] = to[s] THEN "sending" ELSE "none"]]
           /\ moved' = [moved EXCEPT ![s] = {}]
  <2>. DEFINE row == [t \in Tokens |-> IF table[t] = to[s] THEN "sending" ELSE "none"]
  <2>1. row \in [Tokens -> LegStates]
    BY DEF LegStates
  <2>2. \A t \in Tokens : row[t] = IF table[t] = to[s] THEN "sending" ELSE "none"
    OBVIOUS
  <2>3. leg' = [leg EXCEPT ![s] = row] /\ moved' = [moved EXCEPT ![s] = {}]
    BY <1>2
  <2>. HIDE DEF row
  <2>. QED
    BY <1>t, <2>1, <2>2, <2>3
<1>. QED
  BY <1>1, <1>2 DEF GetTokensForUser

\* Every step keeps the shape of the state.
LEMMA PushTypeStep ==
  ASSUME TypeOK, [Next]_vars
  PROVE  TypeOK'
<1>1. ASSUME NEW t \in Tokens, NEW u \in Users, SignIn(t, u)  PROVE TypeOK'
  BY <1>1 DEF SignIn, sending, TypeOK
<1>2. ASSUME NEW t \in Tokens, NEW u \in Users, Register(t, u)  PROVE TypeOK'
  BY <1>2 DEF Register, sending, TypeOK
<1>f. ASSUME NEW t \in Tokens, NEW u \in Users, RegistrationFails(t, u)  PROVE TypeOK'
  BY <1>f DEF RegistrationFails, sending, TypeOK
<1>3. ASSUME NEW t \in Tokens, Die(t)  PROVE TypeOK'
  BY <1>3 DEF Die, device, sending, TypeOK
<1>4. ASSUME NEW s \in Sends, NEW u \in Users, SendToUser(s, u)  PROVE TypeOK'
  BY <1>4 DEF SendToUser, device, TypeOK
<1>5. ASSUME NEW s \in Sends, GetTokensForUser(s)  PROVE TypeOK'
  <2>1. leg' \in [Sends -> [Tokens -> LegStates]] /\ moved' \in [Sends -> SUBSET Tokens]
    BY <1>5, ReadCases
  <2>. QED
    BY <1>5, <2>1 DEF GetTokensForUser, device, TypeOK
<1>6. ASSUME NEW s \in Sends, NEW t \in Tokens, Send(s, t)  PROVE TypeOK'
  <2>1. leg' \in [Sends -> [Tokens -> LegStates]]
    BY <1>6, SendCases
  <2>. QED
    BY <1>6, <2>1 DEF Send, device, TypeOK
<1>7. ASSUME NEW s \in Sends, NEW t \in Tokens, Remove(s, t)  PROVE TypeOK'
  <2>1. leg' \in [Sends -> [Tokens -> LegStates]]
    BY <1>7, RemoveCases
  <2>2. table' = table \/ table' = [table EXCEPT ![t] = NoUser]
    BY <1>7, RemoveCases
  <2>3. table' \in [Tokens -> Users \cup {NoUser}]
    BY <2>2 DEF TypeOK
  <2>. QED
    BY <1>7, <2>1, <2>3 DEF Remove, device, TypeOK
<1>8. CASE Crash
  <2>1. leg' \in [Sends -> [Tokens -> LegStates]]
    BY <1>8 DEF Crash, TypeOK, LegStates
  <2>. QED
    BY <1>8, <2>1 DEF Crash, device, TypeOK
<1>9. CASE UNCHANGED vars
  BY <1>9 DEF vars, device, sending, TypeOK
<1>. QED
  BY <1>1, <1>2, <1>f, <1>3, <1>4, <1>5, <1>6, <1>7, <1>8, <1>9 DEF Next

-----------------------------------------------------------------------------
(***************************************************************************)
(* A row is the user of the last registration unless it was removed, which *)
(* takes a dead token, and a token stays dead.  What a call is sending was *)
(* the row of its user when it read, and still is unless it moved.         *)
(***************************************************************************)

RefusedInv ==
    \A s \in Sends, t \in Tokens : leg[s][t] = "refused" => t \notin alive

RowInv ==
    \A t \in Tokens : table[t] = last[t] \/ (table[t] = NoUser /\ t \notin alive)

ReaderInv == \A s \in reading : to[s] # NoUser

UncalledInv ==
    \A s \in Sends : to[s] = NoUser => \A t \in Tokens : leg[s][t] = "none"

LegInv ==
    \A s \in Sends, t \in Tokens :
       leg[s][t] = "sending" => last[t] = to[s] \/ t \in moved[s]

PushInv == TypeOK /\ RefusedInv /\ RowInv /\ ReaderInv /\ UncalledInv /\ LegInv

\* Every step keeps the invariant.
LEMMA PushStep ==
  ASSUME PushInv, [Next]_vars
  PROVE  PushInv'
<1>. DEFINE Rest == RefusedInv /\ RowInv /\ ReaderInv /\ UncalledInv /\ LegInv
<1>t. TypeOK /\ TypeOK'
  BY PushTypeStep DEF PushInv
<1>i. RefusedInv /\ RowInv /\ ReaderInv /\ UncalledInv /\ LegInv
  BY DEF PushInv
<1>. SUFFICES Rest'
  BY <1>t DEF PushInv
<1>. USE <1>i DEF RefusedInv, RowInv, ReaderInv, UncalledInv, LegInv
<1>1. ASSUME NEW t \in Tokens, NEW u \in Users, SignIn(t, u)  PROVE Rest'
  BY <1>1 DEF SignIn, sending
<1>2. ASSUME NEW t \in Tokens, NEW u \in Users, Register(t, u)  PROVE Rest'
  BY <1>t, <1>2 DEF Register, sending, TypeOK
<1>f. ASSUME NEW t \in Tokens, NEW u \in Users, RegistrationFails(t, u)  PROVE Rest'
  BY <1>f DEF RegistrationFails, sending
<1>3. ASSUME NEW t \in Tokens, Die(t)  PROVE Rest'
  BY <1>3 DEF Die, device, sending
<1>4. ASSUME NEW s \in Sends, NEW u \in Users, SendToUser(s, u)  PROVE Rest'
  BY <1>t, <1>4, UsersAssumption DEF SendToUser, device, TypeOK
<1>5. ASSUME NEW s \in Sends, GetTokensForUser(s)  PROVE Rest'
  <2>1. /\ to' = to /\ last' = last /\ table' = table /\ alive' = alive
        /\ reading' = reading \ {s} /\ s \in reading /\ to[s] # NoUser
    BY <1>5 DEF GetTokensForUser, device
  <2>2. \A c \in Sends, t \in Tokens :
              \/ leg'[c][t] = leg[c][t] /\ moved'[c] = moved[c]
              \/ c = s /\ leg'[c][t] = "none"
              \/ c = s /\ leg'[c][t] = "sending" /\ table[t] = to[s]
    BY <1>t, <1>5, ReadCases
  <2>3. RefusedInv' /\ RowInv' /\ ReaderInv' /\ UncalledInv'
    BY <2>1, <2>2
  <2>4. LegInv'
    BY <2>1, <2>2
  <2>. QED
    BY <2>3, <2>4
<1>6. ASSUME NEW s \in Sends, NEW t \in Tokens, Send(s, t)  PROVE Rest'
  <2>1. leg[s][t] = "sending"
    BY <1>t, <1>6, SendCases
  <2>2. PICK state \in {"accepted", "refused", "failed"} :
          /\ state = "refused" => t \notin alive
          /\ \A c \in Sends, d \in Tokens :
                leg'[c][d] = IF c = s /\ d = t THEN state ELSE leg[c][d]
    BY <1>t, <1>6, SendCases
  <2>3. /\ table' = table /\ alive' = alive /\ to' = to /\ reading' = reading
        /\ last' = last /\ moved' = moved
    BY <1>6 DEF Send
  <2>4. RefusedInv' /\ RowInv' /\ ReaderInv'
    BY <2>2, <2>3
  <2>5. to[s] # NoUser
    BY <2>1
  <2>6. UncalledInv' /\ LegInv'
    BY <2>2, <2>3, <2>5
  <2>. QED
    BY <2>4, <2>6
<1>7. ASSUME NEW s \in Sends, NEW t \in Tokens, Remove(s, t)  PROVE Rest'
  <2>1. leg[s][t] = "refused"
    BY <1>t, <1>7, RemoveCases
  <2>2. PICK state \in {"removed", "failed"} : \A c \in Sends, d \in Tokens :
          leg'[c][d] = IF c = s /\ d = t THEN state ELSE leg[c][d]
    BY <1>t, <1>7, RemoveCases
  <2>3. /\ alive' = alive /\ to' = to /\ reading' = reading
        /\ last' = last /\ moved' = moved
    BY <1>7 DEF Remove
  <2>4. table' = table \/ table' = [table EXCEPT ![t] = NoUser]
    BY <1>t, <1>7, RemoveCases
  <2>5. t \notin alive
    BY <2>1
  <2>6. RowInv'
    BY <1>t, <2>3, <2>4, <2>5 DEF TypeOK
  <2>7. RefusedInv' /\ ReaderInv'
    BY <2>2, <2>3
  <2>8. to[s] # NoUser
    BY <2>1
  <2>9. UncalledInv' /\ LegInv'
    BY <2>2, <2>3, <2>8
  <2>. QED
    BY <2>6, <2>7, <2>9
<1>8. CASE Crash
  <2>1. \A s \in Sends, t \in Tokens :
          leg'[s][t] = IF leg[s][t] \in {"sending", "refused"} THEN "lost" ELSE leg[s][t]
    BY <1>8 DEF Crash
  <2>2. \A s \in Sends, t \in Tokens : leg'[s][t] \notin {"sending", "refused"}
                                       /\ (leg[s][t] = "none" => leg'[s][t] = "none")
    BY <2>1
  <2>. QED
    BY <1>8, <2>2 DEF Crash, device
<1>9. CASE UNCHANGED vars
  BY <1>9 DEF vars, device, sending
<1>. QED
  BY <1>1, <1>2, <1>f, <1>3, <1>4, <1>5, <1>6, <1>7, <1>8, <1>9 DEF Next

\* The inductive invariant of the tokens, for any users, devices and calls.
THEOREM PushInvariant == Spec => []PushInv
<1>1. Init => PushInv
  BY DEF Init, PushInv, TypeOK, LegStates, RefusedInv, RowInv, ReaderInv, UncalledInv, LegInv
<1>. QED
  BY <1>1, PushStep, PTL DEF Spec

\* The shape of the state.
THEOREM PushTypeCorrect == Spec => []TypeOK
<1>1. PushInv => TypeOK
  BY DEF PushInv
<1>. QED
  BY <1>1, PushInvariant, PTL

\* No send, for whomever and however late its DELETE, costs a user a live device.
THEOREM RowsOutliveFailures == Spec => []AliveKeepsItsRow
<1>1. PushInv => AliveKeepsItsRow
  BY DEF PushInv, RowInv, AliveKeepsItsRow
<1>. QED
  BY <1>1, PushInvariant, PTL

\* A message reaches another user's device only by a registration that came after
\* its call had read the table.
THEOREM PushesFollow == Spec => PushesFollowTheDevice
<1>1. ASSUME PushInv, [Next]_vars
      PROVE  [\A s \in Sends, t \in Tokens :
                leg[s][t] # "accepted" /\ leg'[s][t] = "accepted" =>
                   last[t] = to[s] \/ t \in moved[s]]_vars
  <2>. SUFFICES ASSUME NEW s \in Sends, NEW t \in Tokens,
                       leg[s][t] # "accepted", leg'[s][t] = "accepted"
       PROVE  leg[s][t] = "sending"
    BY <1>1 DEF PushInv, LegInv
  <2>t. TypeOK
    BY <1>1 DEF PushInv
  <2>1. ASSUME NEW d \in Tokens, NEW u \in Users,
               SignIn(d, u) \/ Register(d, u) \/ RegistrationFails(d, u)
        PROVE  FALSE
    BY <2>1 DEF SignIn, Register, RegistrationFails, sending
  <2>2. ASSUME NEW d \in Tokens, Die(d)  PROVE FALSE
    BY <2>2 DEF Die, sending
  <2>3. ASSUME NEW c \in Sends, NEW u \in Users, SendToUser(c, u)  PROVE FALSE
    BY <2>3 DEF SendToUser
  <2>4. ASSUME NEW c \in Sends, GetTokensForUser(c)  PROVE FALSE
    BY <2>t, <2>4 DEF GetTokensForUser, TypeOK
  <2>5. ASSUME NEW c \in Sends, NEW d \in Tokens, Send(c, d)  PROVE leg[s][t] = "sending"
    BY <2>t, <2>5, SendCases
  <2>6. ASSUME NEW c \in Sends, NEW d \in Tokens, Remove(c, d)  PROVE FALSE
    BY <2>t, <2>6, RemoveCases
  <2>7. CASE Crash
    BY <2>7 DEF Crash
  <2>8. CASE UNCHANGED vars
    BY <2>8 DEF vars, sending
  <2>. QED
    BY <1>1, <2>1, <2>2, <2>3, <2>4, <2>5, <2>6, <2>7, <2>8 DEF Next
<1>. QED
  BY <1>1, PushInvariant, PTL DEF Spec, PushesFollowTheDevice

-----------------------------------------------------------------------------
(***************************************************************************)
(* What a call has read it tries.  Until it has read it has no tokens, and *)
(* it reads once.                                                          *)
(***************************************************************************)

UnreadInv == \A s \in reading, t \in Tokens : leg[s][t] = "none"

\* Every step keeps UnreadInv: only the read begins a leg, and it ends the reading.
LEMMA UnreadStep ==
  ASSUME PushInv, UnreadInv, [Next]_vars
  PROVE  UnreadInv'
<1>t. TypeOK /\ UncalledInv
  BY DEF PushInv
<1>. USE DEF UnreadInv
<1>1. ASSUME NEW t \in Tokens, NEW u \in Users,
             SignIn(t, u) \/ Register(t, u) \/ RegistrationFails(t, u)
      PROVE  UnreadInv'
  BY <1>1 DEF SignIn, Register, RegistrationFails, sending
<1>2. ASSUME NEW t \in Tokens, Die(t)  PROVE UnreadInv'
  BY <1>2 DEF Die, sending
<1>3. ASSUME NEW s \in Sends, NEW u \in Users, SendToUser(s, u)  PROVE UnreadInv'
  BY <1>t, <1>3 DEF SendToUser, UncalledInv
<1>4. ASSUME NEW s \in Sends, GetTokensForUser(s)  PROVE UnreadInv'
  BY <1>t, <1>4, ReadCases DEF GetTokensForUser, TypeOK
<1>5. ASSUME NEW s \in Sends, NEW t \in Tokens, Send(s, t) \/ Remove(s, t)  PROVE UnreadInv'
  <2>1. leg[s][t] \in {"sending", "refused"} /\ reading' = reading
    BY <1>5 DEF Send, Remove
  <2>2. \A c \in Sends, d \in Tokens : c # s => leg'[c][d] = leg[c][d]
    BY <1>t, <1>5, SendCases, RemoveCases
  <2>. QED
    BY <1>t, <2>1, <2>2 DEF TypeOK
<1>6. CASE Crash
  BY <1>6 DEF Crash
<1>7. CASE UNCHANGED vars
  BY <1>7 DEF vars, sending
<1>. QED
  BY <1>1, <1>2, <1>3, <1>4, <1>5, <1>6, <1>7 DEF Next

\* A call reads the table once: until its SELECT is answered nothing of it is under way.
THEOREM CallsReadOnce == Spec => [](PushInv /\ UnreadInv)
<1>1. Init => UnreadInv
  BY DEF Init, UnreadInv
<1>2. PushInv /\ UnreadInv /\ [Next]_vars => UnreadInv'
  BY UnreadStep
<1>. QED
  BY <1>1, <1>2, PushInvariant, PTL DEF Spec

\* The call's message to a token, once it is under way, ends in an answer, in a failure
\* or with the process: nothing makes the call forget the token.
THEOREM NoneIsDropped == Spec => NoneDropped
<1>1. ASSUME PushInv, UnreadInv, [Next]_vars, NEW s \in Sends, NEW t \in Tokens,
             leg[s][t] = "sending"
      PROVE  leg'[s][t] # "none"
  <2>t. TypeOK /\ s \notin reading
    BY <1>1 DEF PushInv, UnreadInv
  <2>1. ASSUME NEW d \in Tokens, NEW u \in Users,
               SignIn(d, u) \/ Register(d, u) \/ RegistrationFails(d, u)
        PROVE  leg' = leg
    BY <2>1 DEF SignIn, Register, RegistrationFails, sending
  <2>2. ASSUME NEW d \in Tokens, Die(d)  PROVE leg' = leg
    BY <2>2 DEF Die, sending
  <2>3. ASSUME NEW c \in Sends, NEW u \in Users, SendToUser(c, u)  PROVE leg' = leg
    BY <2>3 DEF SendToUser
  <2>4. ASSUME NEW c \in Sends, GetTokensForUser(c)  PROVE leg'[s][t] = leg[s][t]
    <3>1. c # s
      BY <2>t, <2>4 DEF GetTokensForUser
    <3>. QED
      BY <2>t, <2>4, <3>1, ReadCases
  <2>5. ASSUME NEW c \in Sends, NEW d \in Tokens, Send(c, d)  PROVE leg'[s][t] # "none"
    BY <1>1, <2>t, <2>5, SendCases
  <2>6. ASSUME NEW c \in Sends, NEW d \in Tokens, Remove(c, d)  PROVE leg'[s][t] # "none"
    BY <1>1, <2>t, <2>6, RemoveCases
  <2>7. CASE Crash
    <3>1. \A c \in Sends, d \in Tokens :
            leg'[c][d] = IF leg[c][d] \in {"sending", "refused"} THEN "lost" ELSE leg[c][d]
      BY <2>7 DEF Crash
    <3>2. leg'[s][t] = "lost"
      BY <1>1, <3>1
    <3>. QED
      BY <3>2
  <2>8. CASE UNCHANGED vars
    BY <1>1, <2>8 DEF vars, sending
  <2>. QED
    BY <1>1, <2>1, <2>2, <2>3, <2>4, <2>5, <2>6, <2>7, <2>8 DEF Next
<1>2. PushInv /\ UnreadInv /\ [Next]_vars
        => [\A s \in Sends, t \in Tokens : leg[s][t] = "sending" => leg'[s][t] # "none"]_vars
  BY <1>1
<1>. QED
  BY <1>2, CallsReadOnce, PTL DEF Spec, NoneDropped

-----------------------------------------------------------------------------
(***************************************************************************)
(* When no registration overtakes another, the row of a device is somebody *)
(* else's than who is signed in only if the registration of that user      *)
(* failed.                                                                 *)
(***************************************************************************)

\* Nobody signs in on a device whose last registration is still on its way: it has been
\* stored, or it has failed.
SignInsWait ==
    \A t \in Tokens : signedIn'[t] # signedIn[t] => \A u \in Users : <<t, u>> \notin posted

\* What is on its way is the registration of who is signed in; with nothing on its way,
\* that registration was the last, or it failed.
InStepInv ==
    \A t \in Tokens :
       /\ \A u \in Users : <<t, u>> \in posted => u = signedIn[t]
       /\ (\A u \in Users : <<t, u>> \notin posted) => last[t] = signedIn[t] \/ t \in missed

\* While sign-ins wait for registrations, every step keeps InStepInv.
LEMMA InStepStep ==
  ASSUME TypeOK, InStepInv, [Next]_vars, [SignInsWait]_vars
  PROVE  InStepInv'
<1>1. ASSUME NEW t \in Tokens, NEW u \in Users, SignIn(t, u)  PROVE InStepInv'
  <2>1. /\ signedIn' = [signedIn EXCEPT ![t] = u] /\ posted' = posted \cup {<<t, u>>}
        /\ last' = last /\ missed' = missed \ {t} /\ signedIn[t] # u
    BY <1>1 DEF SignIn
  <2>2. signedIn'[t] # signedIn[t]
    BY <2>1 DEF TypeOK
  <2>3. \A v \in Users : <<t, v>> \notin posted
    BY <2>2 DEF SignInsWait, vars, device
  <2>4. ASSUME NEW d \in Tokens, d # t  PROVE signedIn'[d] = signedIn[d]
                                              /\ \A v : <<d, v>> \in posted' <=> <<d, v>> \in posted
    BY <2>1, <2>4 DEF TypeOK
  <2>5. signedIn'[t] = u /\ \A v \in Users : <<t, v>> \in posted' <=> v = u
    BY <2>1, <2>3 DEF TypeOK
  <2>. QED
    BY <2>1, <2>4, <2>5 DEF InStepInv
<1>2. ASSUME NEW t \in Tokens, NEW u \in Users, Register(t, u)  PROVE InStepInv'
  <2>1. /\ posted' = posted \ {<<t, u>>} /\ last' = [last EXCEPT ![t] = u]
        /\ signedIn' = signedIn /\ missed' = missed /\ <<t, u>> \in posted
    BY <1>2 DEF Register
  <2>2. u = signedIn[t]
    BY <2>1 DEF InStepInv
  <2>3. last'[t] = signedIn'[t] /\ \A d \in Tokens : d # t => last'[d] = last[d]
    BY <2>1, <2>2 DEF TypeOK
  <2>4. \A d \in Tokens, v \in Users : d # t => (<<d, v>> \in posted' <=> <<d, v>> \in posted)
    BY <2>1
  <2>. QED
    BY <2>1, <2>3, <2>4 DEF InStepInv
<1>3. ASSUME NEW t \in Tokens, NEW u \in Users, RegistrationFails(t, u)  PROVE InStepInv'
  <2>1. /\ posted' = posted \ {<<t, u>>} /\ last' = last /\ signedIn' = signedIn
        /\ <<t, u>> \in posted
        /\ missed' = IF u = signedIn[t] THEN missed \cup {t} ELSE missed
    BY <1>3 DEF RegistrationFails
  <2>2. u = signedIn[t]
    BY <2>1 DEF InStepInv
  <2>3. missed' = missed \cup {t}
    BY <2>1, <2>2
  <2>4. \A d \in Tokens, v \in Users : d # t => (<<d, v>> \in posted' <=> <<d, v>> \in posted)
    BY <2>1
  <2>. QED
    BY <2>1, <2>3, <2>4 DEF InStepInv
<1>4. CASE UNCHANGED <<signedIn, posted, last, missed>>
  BY <1>4 DEF InStepInv
<1>. QED
  BY <1>1, <1>2, <1>3, <1>4 DEF Next, Die, SendToUser, GetTokensForUser, Send, Remove, Crash,
     vars, device

\* While a device's registrations do not overtake each other, the row of a live device is
\* that of who is signed in, unless the registration of that user failed, and whatever
\* sends fail meanwhile and whenever tokens die: a failed DELETE or a send that was late
\* never moves it.
THEOREM RowFollowsUnlessOvertaken ==
  Spec /\ [][SignInsWait]_vars => []RowFollowsSignIn
<1>1. Init => InStepInv
  BY DEF Init, InStepInv
<1>2. TypeOK /\ InStepInv /\ [Next]_vars /\ [SignInsWait]_vars => InStepInv'
  BY InStepStep
<1>3. TypeOK /\ InStepInv /\ AliveKeepsItsRow => RowFollowsSignIn
  BY DEF TypeOK, InStepInv, AliveKeepsItsRow, RowFollowsSignIn
<1>. QED
  BY <1>1, <1>2, <1>3, PushTypeCorrect, RowsOutliveFailures, PTL DEF Spec
-----------------------------------------------------------------------------
(***************************************************************************)
(* The refinement.  A call gets its audience when it has read, which       *)
(* nothing changes after that, and reaches it one live device at a time.   *)
(***************************************************************************)

Audience == [s \in Sends |-> {t \in Tokens : leg[s][t] # "none"}]

Reached == [s \in Sends |-> {t \in Tokens : leg[s][t] = "accepted"}]

\* No token is in another audience or reached after a step that only moves legs
\* between the other states.
LegsMoveOn ==
    \A s \in Sends, t \in Tokens : /\ (leg'[s][t] = "none") = (leg[s][t] = "none")
                                    /\ (leg'[s][t] = "accepted") = (leg[s][t] = "accepted")

\* Legs that go on without an answer leave the audience and what was reached.
LEMMA LegsKept ==
  ASSUME LegsMoveOn
  PROVE  Audience' = Audience /\ Reached' = Reached
<1>1. \A s \in Sends : /\ {t \in Tokens : leg'[s][t] # "none"} = {t \in Tokens : leg[s][t] # "none"}
                       /\ {t \in Tokens : leg'[s][t] = "accepted"} = {t \in Tokens : leg[s][t] = "accepted"}
  BY DEF LegsMoveOn
<1>. QED
  BY <1>1 DEF Audience, Reached

\* What GetTokensForUser and Send do, told of the audiences and what is reached.
LEMMA ReadDelivers ==
  ASSUME PushInv, UnreadInv, NEW s \in Sends, GetTokensForUser(s)
  PROVE  Delivery!Read(s) \/ Delivery!GiveUp
<1>t. leg \in [Sends -> [Tokens -> LegStates]]
  BY DEF PushInv, TypeOK
<1>1. /\ s \in reading /\ reading' = reading \ {s}
      /\ table' = table /\ alive' = alive /\ to' = to
  BY DEF GetTokensForUser, device
<1>2. CASE UNCHANGED leg
  <2>1. {s} \in SUBSET reading
    BY <1>1
  <2>. QED
    BY <1>1, <1>2, <2>1 DEF Delivery!GiveUp
<1>3. CASE leg' = [leg EXCEPT ![s] =
                     [t \in Tokens |-> IF table[t] = to[s] THEN "sending" ELSE "none"]]
  <2>1. \A c \in Sends, t \in Tokens :
          leg'[c][t] = IF c # s THEN leg[c][t]
                       ELSE IF table[t] = to[s] THEN "sending" ELSE "none"
    BY <1>t, <1>3
  <2>2. Audience' = [Audience EXCEPT ![s] = {t \in Tokens : table[t] = to[s]}]
    BY <2>1 DEF Audience
  <2>3. \A t \in Tokens : leg[s][t] = "none"
    BY <1>1 DEF UnreadInv
  <2>4. Reached' = Reached
    BY <2>1, <2>3 DEF Reached
  <2>. QED
    BY <1>1, <2>2, <2>4 DEF Delivery!Read, Audience, Reached
<1>. QED
  BY <1>2, <1>3 DEF GetTokensForUser

\* An accepted message is a step of the delivery, any other answer a stutter.
LEMMA SendDelivers ==
  ASSUME PushInv, NEW s \in Sends, NEW t \in Tokens, Send(s, t)
  PROVE  Delivery!Reach(s, t) \/ UNCHANGED Delivery!vars
<1>t. leg \in [Sends -> [Tokens -> LegStates]]
  BY DEF PushInv, TypeOK
<1>1. /\ leg[s][t] = "sending"
      /\ table' = table /\ alive' = alive /\ to' = to /\ reading' = reading
  BY DEF Send
<1>2. CASE t \in alive /\ SetLeg(s, t, "accepted")
  <2>1. \A c \in Sends, d \in Tokens :
          leg'[c][d] = IF c = s /\ d = t THEN "accepted" ELSE leg[c][d]
    BY <1>t, <1>2, SetLegChangesOne DEF LegStates
  <2>2. Audience' = Audience
    <3>1. \A c \in Sends, d \in Tokens : (leg'[c][d] = "none") = (leg[c][d] = "none")
      BY <1>1, <2>1
    <3>. QED
      BY <3>1 DEF Audience
  <2>3. Reached' = [Reached EXCEPT ![s] = Reached[s] \cup {t}]
    <3>. DEFINE Row(c) == {d \in Tokens : leg[c][d] = "accepted"}
                NewRow(c) == {d \in Tokens : leg'[c][d] = "accepted"}
    <3>1. \A c \in Sends : NewRow(c) = IF c = s THEN Row(s) \cup {t} ELSE Row(c)
      BY <2>1
    <3>2. /\ Reached = [c \in Sends |-> Row(c)]
          /\ Reached' = [c \in Sends |-> NewRow(c)]
      BY DEF Reached
    <3>. HIDE DEF Row, NewRow
    <3>. QED
      BY <3>1, <3>2
  <2>4. t \in Audience[s] /\ t \notin Reached[s]
    BY <1>1 DEF Audience, Reached
  <2>. QED
    BY <1>1, <1>2, <2>2, <2>3, <2>4 DEF Delivery!Reach, Audience, Reached
<1>3. CASE SetLeg(s, t, "refused") \/ SetLeg(s, t, "failed")
  <2>1. PICK state \in {"refused", "failed"} : \A c \in Sends, d \in Tokens :
          leg'[c][d] = IF c = s /\ d = t THEN state ELSE leg[c][d]
    BY <1>t, <1>3, SetLegChangesOne DEF LegStates
  <2>2. LegsMoveOn
    BY <1>1, <2>1 DEF LegsMoveOn
  <2>3. Audience' = Audience /\ Reached' = Reached
    BY <2>2, LegsKept
  <2>. QED
    BY <1>1, <2>3 DEF Delivery!vars, Audience, Reached
<1>. QED
  BY <1>2, <1>3 DEF Send

\* The DELETE takes the row of a device that Firebase had refused as gone.
LEMMA RemoveDelivers ==
  ASSUME PushInv, NEW s \in Sends, NEW t \in Tokens, Remove(s, t)
  PROVE  Delivery!Forget(t) \/ UNCHANGED Delivery!vars
<1>1. TypeOK /\ RefusedInv
  BY DEF PushInv
<1>2. /\ leg[s][t] = "refused" /\ alive' = alive /\ to' = to /\ reading' = reading
      /\ table' = table \/ table' = [table EXCEPT ![t] = NoUser]
  BY DEF Remove
<1>3. PICK state \in {"removed", "failed"} : \A c \in Sends, d \in Tokens :
        leg'[c][d] = IF c = s /\ d = t THEN state ELSE leg[c][d]
  BY <1>1, RemoveCases
<1>a. LegsMoveOn
  BY <1>2, <1>3 DEF LegsMoveOn
<1>4. Audience' = Audience /\ Reached' = Reached
  BY <1>a, LegsKept
<1>5. t \notin alive
  BY <1>1, <1>2 DEF RefusedInv
<1>. QED
  BY <1>2, <1>4, <1>5 DEF Delivery!Forget, Delivery!vars, Audience, Reached

\* A crash gives up the calls that had not read yet.
LEMMA CrashDelivers ==
  ASSUME Crash
  PROVE  Delivery!GiveUp
<1>1. reading' = {} /\ table' = table /\ alive' = alive /\ to' = to
  BY DEF Crash, device
<1>2. \A s \in Sends, t \in Tokens :
        leg'[s][t] = IF leg[s][t] \in {"sending", "refused"} THEN "lost" ELSE leg[s][t]
  BY DEF Crash
<1>a. LegsMoveOn
  BY <1>2 DEF LegsMoveOn
<1>3. Audience' = Audience /\ Reached' = Reached
  BY <1>a, LegsKept
<1>4. \E S \in SUBSET reading : reading' = reading \ S
  <2>. WITNESS reading \in SUBSET reading
  <2>. QED
    BY <1>1
<1>. QED
  BY <1>1, <1>3, <1>4 DEF Delivery!GiveUp, Audience, Reached

\* The table of tokens, sendToUser and its crashes implement PushDelivery: a call reaches
\* each device at most once and only one that was its user's when it read, and no row of a
\* device that can still be reached goes.
THEOREM PushImplementsDelivery == Spec => ImplementsDelivery
<1>1. Init => Delivery!Init
  <2>1. ASSUME Init  PROVE /\ Audience = [s \in Sends |-> {}]
                           /\ Reached = [s \in Sends |-> {}]
    BY <2>1 DEF Init, Audience, Reached
  <2>. QED
    BY <2>1 DEF Init, Delivery!Init, Audience, Reached
<1>2. ASSUME PushInv, UnreadInv, [Next]_vars
      PROVE  [Delivery!Next]_(Delivery!vars)
  <2>1. ASSUME NEW t \in Tokens, NEW u \in Users, SignIn(t, u)
        PROVE  UNCHANGED Delivery!vars
    BY <2>1 DEF SignIn, sending, Delivery!vars
  <2>2. ASSUME NEW t \in Tokens, NEW u \in Users, Register(t, u)
        PROVE  Delivery!Register(t)
    BY <2>2 DEF Register, sending, Delivery!Register
  <2>f. ASSUME NEW t \in Tokens, NEW u \in Users, RegistrationFails(t, u)
        PROVE  UNCHANGED Delivery!vars
    BY <2>f DEF RegistrationFails, sending, Delivery!vars
  <2>3. ASSUME NEW t \in Tokens, Die(t)
        PROVE  Delivery!Die(t)
    BY <2>3 DEF Die, sending, Delivery!Die
  <2>4. ASSUME NEW s \in Sends, NEW u \in Users, SendToUser(s, u)
        PROVE  Delivery!Call(s)
    BY <2>4 DEF SendToUser, Delivery!Call
  <2>5. ASSUME NEW s \in Sends, GetTokensForUser(s)
        PROVE  Delivery!Read(s) \/ Delivery!GiveUp
    BY <1>2, <2>5, ReadDelivers
  <2>6. ASSUME NEW s \in Sends, NEW t \in Tokens, Send(s, t)
        PROVE  Delivery!Reach(s, t) \/ UNCHANGED Delivery!vars
    BY <1>2, <2>6, SendDelivers
  <2>7. ASSUME NEW s \in Sends, NEW t \in Tokens, Remove(s, t)
        PROVE  Delivery!Forget(t) \/ UNCHANGED Delivery!vars
    BY <1>2, <2>7, RemoveDelivers
  <2>8. CASE UNCHANGED vars
    BY <2>8 DEF vars, sending, Delivery!vars
  <2>. QED
    BY <1>2, <2>1, <2>2, <2>f, <2>3, <2>4, <2>5, <2>6, <2>7, <2>8, CrashDelivers
    DEF Next, Delivery!Next
<1>3. PushInv /\ UnreadInv /\ [Next]_vars => [Delivery!Next]_(Delivery!vars)
  BY <1>2
<1>. QED
  BY <1>1, <1>3, CallsReadOnce, PTL DEF Spec, ImplementsDelivery, Delivery!Spec
=============================================================================
