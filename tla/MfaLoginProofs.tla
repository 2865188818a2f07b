---------------------------- MODULE MfaLoginProofs ----------------------------
(***************************************************************************)
(* An authenticator code works once, for any number of logins, secrets and *)
(* time steps, as long as no login meets another writer of                 *)
(* mfaLastUsedStep.                                                        *)
(***************************************************************************)
EXTENDS MfaLogin, TLAPS

(***************************************************************************)
(* The records that the actions build are well formed.                     *)
(***************************************************************************)
LEMMA LoginStates ==
    \A pc \in {"idle", "read", "mark", "open"}, s \in Secret \cup {None},
       last \in Step \cup {Never}, k \in Step \cup {Never} :
          /\ Holding(pc, s, last, k) \in LoginState
          /\ Holding(pc, s, last, k).pc = pc
          /\ Holding(pc, s, last, k).secret = s
          /\ Holding(pc, s, last, k).lastUsed = last
          /\ Holding(pc, s, last, k).step = k
BY DEF Holding, LoginState

(***************************************************************************)
(* A login past verifyTotp has a step, not null.                           *)
(***************************************************************************)
HasStep == \A l \in Login : At(l, "mark") \/ At(l, "open") => login[l].step \in Step

(***************************************************************************)
(* ... and a secret that was enrolled.                                     *)
(***************************************************************************)
HasSecret == \A l \in Login : ~At(l, "idle") => login[l].secret \in issued

TypeInv == TypeOK /\ HasStep /\ HasSecret

(***************************************************************************)
(* What becoming a well-formed state does to the logins' part of TypeInv.  *)
(***************************************************************************)
LEMMA BecomeSound ==
    ASSUME TypeInv, NEW l \in Login, NEW new \in LoginState, Become(l, new),
           issued' = issued,
           new.pc \in {"mark", "open"} => new.step \in Step,
           new.pc # "idle" => new.secret \in issued
    PROVE  /\ login' \in [Login -> LoginState]
           /\ HasStep'
           /\ HasSecret'
BY DEF TypeInv, TypeOK, HasStep, HasSecret, Become, At

(***************************************************************************)
(* Every step keeps the types.                                             *)
(***************************************************************************)
LEMMA TypeStep == TypeInv /\ [Next]_vars => TypeInv'
<1> SUFFICES ASSUME TypeInv, [Next]_vars PROVE TypeInv'
  OBVIOUS
<1> USE StepAssumption, SecretAssumption
<1>0. TypeOK /\ \A l \in Login : login[l] \in LoginState
  BY DEF TypeInv, TypeOK
<1>1. ASSUME NEW l \in Login, Read(l) PROVE TypeInv'
  <2>1. secret \in issued /\ secret \in Secret \cup {None} /\ lastUsed \in Step \cup {Never}
    BY <1>0, <1>1 DEF Read, TypeOK
  <2>2. /\ Holding("read", secret, lastUsed, Never) \in LoginState
        /\ Holding("read", secret, lastUsed, Never).pc = "read"
        /\ Holding("read", secret, lastUsed, Never).secret = secret
    BY <2>1, LoginStates
  <2>3. login' \in [Login -> LoginState] /\ HasStep' /\ HasSecret'
    BY <2>1, <2>2, <1>1, BecomeSound DEF Read
  <2> QED
    BY <2>3, <1>0, <1>1 DEF Read, TypeInv, TypeOK
<1>2. ASSUME NEW l \in Login, NEW k \in Step, Verify(l, k) PROVE TypeInv'
  <2> DEFINE new == Holding("mark", login[l].secret, login[l].lastUsed, k)
  <2>1. login[l].secret \in Secret \cup {None} /\ login[l].lastUsed \in Step \cup {Never}
    BY <1>0 DEF LoginState
  <2>2. new \in LoginState /\ new.pc = "mark" /\ new.secret = login[l].secret /\ new.step = k
    BY <2>1, LoginStates
  <2>3. login[l].secret \in issued
    BY <1>2 DEF Verify, TypeInv, HasSecret, At
  <2>4. login' \in [Login -> LoginState] /\ HasStep' /\ HasSecret'
    <3> HIDE DEF new
    <3>1. Become(l, new) /\ issued' = issued
      BY <1>2 DEF Verify, new
    <3> QED
      BY <2>2, <2>3, <3>1, BecomeSound
  <2> QED
    BY <2>4, <1>0, <1>2 DEF Verify, TypeInv, TypeOK
<1>3. ASSUME NEW l \in Login, Mark(l) PROVE TypeInv'
  <2>1. login[l].step \in Step /\ login[l].secret \in issued
    BY <1>3 DEF Mark, TypeInv, HasStep, HasSecret, At
  <2>2. /\ [login[l] EXCEPT !.pc = "open"] \in LoginState
        /\ [login[l] EXCEPT !.pc = "open"].step = login[l].step
        /\ [login[l] EXCEPT !.pc = "open"].secret = login[l].secret
    BY <1>0 DEF LoginState
  <2>3. login' \in [Login -> LoginState] /\ HasStep' /\ HasSecret'
    BY <2>1, <2>2, <1>3, BecomeSound DEF Mark
  <2> QED
    BY <2>1, <2>3, <1>0, <1>3 DEF Mark, TypeInv, TypeOK
<1>4. Idle \in LoginState /\ Idle.pc = "idle"
  BY LoginStates DEF Idle
<1>5. ASSUME NEW l \in Login, Open(l) PROVE TypeInv'
  <2>1. <<login[l].secret, login[l].step>> \in issued \X Step
    BY <1>5 DEF Open, TypeInv, HasStep, HasSecret, At
  <2>2. login' \in [Login -> LoginState] /\ HasStep' /\ HasSecret'
    BY <1>4, <1>5, BecomeSound DEF Open
  <2> QED
    BY <2>1, <2>2, <1>0, <1>5 DEF Open, TypeInv, TypeOK
<1>6. ASSUME NEW l \in Login, Fail(l) PROVE TypeInv'
  <2>1. login' \in [Login -> LoginState] /\ HasStep' /\ HasSecret'
    BY <1>4, <1>6, BecomeSound DEF Fail
  <2> QED
    BY <2>1, <1>0, <1>6 DEF Fail, TypeInv, TypeOK
<1>7. ASSUME NEW s \in Secret, NEW k \in Step, Enroll(s, k) PROVE TypeInv'
  <2>1. HasStep' /\ HasSecret'
    BY <1>7 DEF Enroll, TypeInv, HasStep, HasSecret, At
  <2> QED
    BY <2>1, <1>0, <1>7 DEF Enroll, TypeInv, TypeOK
<1>8. CASE Tick
  BY <1>8 DEF Tick, TypeInv, TypeOK, HasStep, HasSecret, At
<1>9. CASE UNCHANGED vars
  BY <1>9 DEF vars, TypeInv, TypeOK, HasStep, HasSecret, At
<1> QED
  BY <1>1, <1>2, <1>3, <1>5, <1>6, <1>7, <1>8, <1>9 DEF Next

(***************************************************************************)
(* Before the first enrolment everything has its type.                     *)
(***************************************************************************)
LEMMA TypeInit == Init => TypeInv
<1> SUFFICES ASSUME Init PROVE TypeInv
  OBVIOUS
<1>1. Idle \in LoginState /\ Idle.pc = "idle"
  BY LoginStates DEF Idle
<1>2. login \in [Login -> LoginState] /\ \A l \in Login : login[l].pc = "idle"
  BY <1>1 DEF Init
<1>3. now \in 1..MaxStep
  BY StepAssumption DEF Init
<1>4. accepted \in SUBSET (issued \X Step)
  BY DEF Init
<1> QED
  BY <1>2, <1>3, <1>4 DEF Init, TypeInv, TypeOK, HasStep, HasSecret, At

(***************************************************************************)
(* In every behaviour each variable has its type.                          *)
(***************************************************************************)
THEOREM TypeCorrect == Spec => []TypeOK
<1>1. TypeInv => TypeOK
  BY DEF TypeInv
<1> QED
  BY <1>1, TypeInit, TypeStep, PTL DEF Spec

-----------------------------------------------------------------------------
(***************************************************************************)
(* Why a code works once while no two writers of mfaLastUsedStep meet:     *)
(* every accepted code of the present secret is at or below the last used  *)
(* step; the one login that is checking holds the row as it is; and the    *)
(* codes that are about to open a session are new and all different.       *)
(***************************************************************************)
AcceptedBelow == \A k \in Step : <<secret, k>> \in accepted => k <= lastUsed

CheckingIsCurrent ==
    \A l \in Login : Checking(l) =>
        /\ login[l].secret = secret
        /\ login[l].lastUsed = lastUsed
        /\ At(l, "mark") => login[l].step > lastUsed
        /\ \A m \in Login : Checking(m) => m = l

OpenIsNew ==
    \A l \in Login : At(l, "open") =>
        /\ <<login[l].secret, login[l].step>> \notin accepted
        /\ login[l].secret = secret => login[l].step <= lastUsed
        /\ \A m \in Login \ {l} : At(m, "open") =>
              login[m].secret # login[l].secret \/ login[m].step # login[l].step

Alone == AcceptedBelow /\ CheckingIsCurrent /\ OpenIsNew /\ ~reused

Inv == overlapped \/ Alone

(***************************************************************************)
(* The login that marks its code turns from checking to opening.           *)
(***************************************************************************)
LEMMA MarkStep ==
    ASSUME TypeInv, Alone, NEW l \in Login, Mark(l)
    PROVE  Alone'
<1>1. /\ login[l].secret = secret
      /\ login[l].step \in Step /\ login[l].step > lastUsed
      /\ lastUsed' = login[l].step /\ lastUsed \in Step \cup {Never}
      /\ \A m \in Login : Checking(m) => m = l
  BY DEF Mark, Alone, CheckingIsCurrent, Checking, TypeInv, TypeOK, HasStep
<1>2. /\ login'[l].pc = "open"
      /\ login'[l].secret = login[l].secret
      /\ login'[l].step = login[l].step
      /\ \A m \in Login \ {l} : login'[m] = login[m]
  BY DEF Mark, Become, TypeInv, TypeOK, LoginState
<1>3. UNCHANGED <<secret, accepted, reused>>
  BY DEF Mark
<1>4. \A m \in Login : At(m, "mark") \/ At(m, "open") => login[m].step \in Step
  BY DEF TypeInv, HasStep
<1>5. /\ \A k \in Step : k \in Int
      /\ lastUsed \in Int /\ lastUsed' \in Int /\ lastUsed < lastUsed'
  BY <1>1, StepAssumption DEF Step, Never
<1>6. AcceptedBelow'
  BY <1>1, <1>3, <1>5 DEF Alone, AcceptedBelow
<1>7. CheckingIsCurrent'
  BY <1>1, <1>2 DEF CheckingIsCurrent, Checking, At
<1>8. <<secret, login[l].step>> \notin accepted
  BY <1>1, <1>5 DEF Alone, AcceptedBelow
<1>9. ASSUME NEW m \in Login \ {l}, At(m, "open")
      PROVE  login[m].secret = secret => login[m].step < login[l].step
  <2>1. login[m].secret = secret => login[m].step <= lastUsed
    BY <1>9 DEF Alone, OpenIsNew
  <2>2. login[m].step \in Int /\ login[l].step \in Int
    BY <1>1, <1>4, <1>5, <1>9
  <2> QED
    BY <2>1, <2>2, <1>1, <1>5
<1>10. OpenIsNew'
  <2> SUFFICES ASSUME NEW m \in Login, At(m, "open")'
               PROVE  /\ <<login'[m].secret, login'[m].step>> \notin accepted
                      /\ login'[m].secret = secret => login'[m].step <= lastUsed'
                      /\ \A n \in Login \ {m} : At(n, "open")' =>
                            \/ login'[n].secret # login'[m].secret
                            \/ login'[n].step # login'[m].step
    BY <1>3 DEF OpenIsNew, At
  <2>1. CASE m = l
    BY <2>1, <1>1, <1>2, <1>4, <1>5, <1>8, <1>9 DEF At
  <2>2. CASE m # l
    <3>1. At(m, "open") /\ login'[m] = login[m] /\ login[m].step \in Step
      BY <2>2, <1>2, <1>4 DEF At
    <3>2. /\ <<login[m].secret, login[m].step>> \notin accepted
          /\ login[m].secret = secret => login[m].step <= lastUsed
      BY <3>1 DEF Alone, OpenIsNew
    <3>3. login[m].secret = secret => login[m].step <= lastUsed'
      BY <3>1, <3>2, <1>1, <1>5
    <3>4. ASSUME NEW n \in Login \ {m}, At(n, "open")'
          PROVE  login'[n].secret # login'[m].secret \/ login'[n].step # login'[m].step
      <4>1. CASE n = l
        BY <4>1, <2>2, <3>1, <1>1, <1>2, <1>4, <1>5, <1>9
      <4>2. CASE n # l
        BY <4>2, <3>1, <3>4, <1>2 DEF Alone, OpenIsNew, At
      <4> QED
        BY <4>1, <4>2
    <3> QED
      BY <3>1, <3>2, <3>3, <3>4
  <2> QED
    BY <2>1, <2>2
<1> QED
  BY <1>3, <1>6, <1>7, <1>10 DEF Alone

(***************************************************************************)
(* A login that returns to idle takes no fact about the others with it.    *)
(***************************************************************************)
LEMMA LeaveStep ==
    ASSUME TypeInv, Alone, NEW l \in Login, Become(l, Idle),
           UNCHANGED <<secret, lastUsed>>
    PROVE  /\ CheckingIsCurrent'
           /\ accepted' = accepted => AcceptedBelow' /\ OpenIsNew'
<1>1. login'[l].pc = "idle" /\ \A m \in Login \ {l} : login'[m] = login[m]
  BY DEF Become, TypeInv, TypeOK, Idle, Holding
<1> QED
  BY <1>1 DEF Alone, AcceptedBelow, CheckingIsCurrent, OpenIsNew, Checking, At

(***************************************************************************)
(* Opening the session accepts a code that nobody else holds.              *)
(***************************************************************************)
LEMMA OpenStep ==
    ASSUME TypeInv, Alone, NEW l \in Login, Open(l)
    PROVE  Alone'
<1>1. /\ <<login[l].secret, login[l].step>> \notin accepted
      /\ login[l].secret = secret => login[l].step <= lastUsed
  BY DEF Open, Alone, OpenIsNew
<1>2. /\ accepted' = accepted \cup {<<login[l].secret, login[l].step>>}
      /\ UNCHANGED <<secret, lastUsed>> /\ Become(l, Idle)
  BY DEF Open
<1>3. ~reused'
  BY <1>1 DEF Open, Alone
<1>4. AcceptedBelow'
  BY <1>1, <1>2 DEF Alone, AcceptedBelow
<1>5. login'[l].pc = "idle" /\ \A m \in Login \ {l} : login'[m] = login[m]
  BY <1>2 DEF Become, TypeInv, TypeOK, Idle, Holding
<1>6. At(l, "open")
  BY DEF Open
<1>7. OpenIsNew'
  BY <1>2, <1>5, <1>6 DEF Alone, OpenIsNew, At
<1> QED
  BY <1>2, <1>3, <1>4, <1>7, LeaveStep DEF Alone

(***************************************************************************)
(* An enrolment that no login overlaps starts a secret no code belongs to. *)
(***************************************************************************)
LEMMA EnrollStep ==
    ASSUME TypeInv, Alone, NEW s \in Secret, NEW k \in Step, Enroll(s, k),
           ~overlapped'
    PROVE  Alone'
<1>1. \A l \in Login : ~Checking(l)
  BY DEF Enroll
<1>2. \A i \in Step : <<s, i>> \notin accepted
  BY DEF Enroll, TypeInv, TypeOK
<1>3. /\ secret' = s /\ lastUsed' = k /\ accepted' = accepted \cup {<<s, k>>}
      /\ UNCHANGED <<login, reused>>
  BY DEF Enroll
<1>4. AcceptedBelow'
  BY <1>2, <1>3, StepAssumption DEF AcceptedBelow, Step
<1>5. CheckingIsCurrent'
  BY <1>1, <1>3 DEF CheckingIsCurrent, Checking, At
<1>6. \A l \in Login : At(l, "open") => login[l].secret # s
  BY DEF Enroll, TypeInv, HasSecret, At
<1>7. OpenIsNew'
  BY <1>3, <1>6 DEF Alone, OpenIsNew, At
<1> QED
  BY <1>3, <1>4, <1>5, <1>7 DEF Alone

(***************************************************************************)
(* A code opens at most one session, and none after it has enrolled the    *)
(* authenticator, unless two writers of mfaLastUsedStep met.               *)
(***************************************************************************)
THEOREM CodeOnce == Spec => []CodeWorksOnceAlone
<1>1. Init => Inv
  <2> SUFFICES ASSUME Init PROVE Inv
    OBVIOUS
  <2>1. \A l \in Login : login[l].pc = "idle"
    BY DEF Init, Idle, Holding
  <2> QED
    BY <2>1 DEF Init, Inv, Alone, AcceptedBelow, CheckingIsCurrent, OpenIsNew,
                Checking, At
<1>2. TypeInv /\ Inv /\ [Next]_vars => Inv'
  <2> SUFFICES ASSUME TypeInv, Inv, [Next]_vars, ~overlapped' PROVE Alone'
    BY DEF Inv
  <2>0. Alone
    <3>1. ~overlapped
      BY DEF Next, Read, Verify, Mark, Open, Fail, Enroll, Tick, vars
    <3> QED
      BY <3>1 DEF Inv
  <2>1. ASSUME NEW l \in Login, Read(l) PROVE Alone'
    <3>1. \A m \in Login : ~Checking(m)
      BY <2>1 DEF Read
    <3>2. /\ login'[l].pc = "read" /\ login'[l].secret = secret
          /\ login'[l].lastUsed = lastUsed
          /\ \A m \in Login \ {l} : login'[m] = login[m]
      BY <2>1 DEF Read, Become, TypeInv, TypeOK, Holding
    <3>3. UNCHANGED <<secret, lastUsed, accepted, reused>>
      BY <2>1 DEF Read
    <3>4. CheckingIsCurrent'
      BY <3>1, <3>2, <3>3 DEF CheckingIsCurrent, Checking, At
    <3>5. OpenIsNew'
      BY <2>0, <3>2, <3>3 DEF Alone, OpenIsNew, At
    <3> QED
      BY <2>0, <3>3, <3>4, <3>5 DEF Alone, AcceptedBelow
  <2>2. ASSUME NEW l \in Login, NEW k \in Step, Verify(l, k) PROVE Alone'
    <3>1. At(l, "read") /\ k > login[l].lastUsed
      BY <2>2 DEF Verify
    <3>2. /\ login'[l].pc = "mark" /\ login'[l].secret = login[l].secret
          /\ login'[l].lastUsed = login[l].lastUsed /\ login'[l].step = k
          /\ \A m \in Login \ {l} : login'[m] = login[m]
      BY <2>2 DEF Verify, Become, TypeInv, TypeOK, Holding
    <3>3. UNCHANGED <<secret, lastUsed, accepted, reused>>
      BY <2>2 DEF Verify
    <3>4. CheckingIsCurrent'
      BY <2>0, <3>1, <3>2, <3>3 DEF Alone, CheckingIsCurrent, Checking, At
    <3>5. OpenIsNew'
      BY <2>0, <3>2, <3>3 DEF Alone, OpenIsNew, At
    <3> QED
      BY <2>0, <3>3, <3>4, <3>5 DEF Alone, AcceptedBelow
  <2>3. ASSUME NEW l \in Login, Mark(l) PROVE Alone'
    BY <2>0, <2>3, MarkStep
  <2>4. ASSUME NEW l \in Login, Open(l) PROVE Alone'
    BY <2>0, <2>4, OpenStep
  <2>5. ASSUME NEW l \in Login, Fail(l) PROVE Alone'
    BY <2>0, <2>5, LeaveStep DEF Fail, Alone
  <2>6. ASSUME NEW s \in Secret, NEW k \in Step, Enroll(s, k) PROVE Alone'
    BY <2>0, <2>6, EnrollStep
  <2>7. CASE Tick \/ UNCHANGED vars
    BY <2>0, <2>7 DEF Tick, vars, Alone, AcceptedBelow, CheckingIsCurrent,
                      OpenIsNew, Checking, At
  <2> QED
    BY <2>1, <2>2, <2>3, <2>4, <2>5, <2>6, <2>7 DEF Next
<1>3. Inv => CodeWorksOnceAlone
  BY DEF Inv, Alone, CodeWorksOnceAlone
<1> QED
  BY <1>1, <1>2, <1>3, TypeInit, TypeStep, PTL DEF Spec
=============================================================================
