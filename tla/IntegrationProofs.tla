--------------------------- MODULE IntegrationProofs ---------------------------
(***************************************************************************)
(* What holds of the calls to an integration: of the resilient call for    *)
(* any number of callers, threshold, reset timeout and retry budget, and   *)
(* of one integration for any number of requests that configure and test   *)
(* it at the same time.                                                    *)
(***************************************************************************)
EXTENDS IntegrationTest, TLAPS

-----------------------------------------------------------------------------
(* The resilient call *)

(***************************************************************************)
(* TypeOK is not inductive: NextAttempt counts up, so a call that sleeps   *)
(* must still have a retry left.                                           *)
(***************************************************************************)
RetryLeft == \A c \in Call : At(c, "backoff") => call[c].attempt < Retries

TypeInv == TypeOK /\ RetryLeft

(***************************************************************************)
(* Replacing the state of one call by a well-formed one that keeps to its  *)
(* budget preserves what TypeInv says of the calls.                        *)
(***************************************************************************)
LEMMA BecomeSound ==
    ASSUME TypeInv, NEW c \in Call, NEW new \in CallState, Become(c, new),
           new.pc = "backoff" => new.attempt < Retries
    PROVE  /\ call' \in [Call -> CallState]
           /\ RetryLeft'
BY DEF TypeInv, TypeOK, RetryLeft, Become, At

(***************************************************************************)
(* The call states that the actions build are well formed.                 *)
(***************************************************************************)
LEMMA CallStates ==
    /\ \A r \in Result : Returned(r) \in CallState /\ Returned(r).pc = "idle"
    /\ \A n \in 0..Retries, b \in BOOLEAN :
          Running(n, b) \in CallState /\ Running(n, b).pc = "running"
BY OptionsAssumption DEF Returned, Running, CallState, Result

(***************************************************************************)
(* A failure moves the breaker's own variables within their ranges.        *)
(***************************************************************************)
LEMMA FailureTyped ==
    ASSUME TypeOK, OnFailure
    PROVE  /\ state' \in {"CLOSED", "OPEN", "HALF_OPEN"}
           /\ failures' \in 0..FailureThreshold
           /\ age' \in 0..ResetTimeout
BY OptionsAssumption DEF TypeOK, OnFailure, NextCount

(***************************************************************************)
(* Every step keeps the variables in their ranges: in particular no call   *)
(* is in an attempt past its retry budget.                                 *)
(***************************************************************************)
LEMMA TypeStep == TypeInv /\ [Next]_vars => TypeInv'
<1> SUFFICES ASSUME TypeInv, [Next]_vars PROVE TypeInv'
  OBVIOUS
<1> USE OptionsAssumption
<1>0. TypeOK
  BY DEF TypeInv
<1>1. ASSUME NEW c \in Call PROVE call[c] \in CallState
  BY <1>0, <1>1 DEF TypeOK
<1>2. ASSUME NEW c \in Call, ShortCircuit(c) PROVE TypeInv'
  <2>1. Returned("CIRCUIT_OPEN") \in CallState /\ Returned("CIRCUIT_OPEN").pc = "idle"
    BY CallStates DEF Result
  <2>2. call' \in [Call -> CallState] /\ RetryLeft'
    BY <2>1, <1>2, BecomeSound DEF ShortCircuit
  <2> QED
    BY <2>2, <1>0, <1>2 DEF ShortCircuit, TypeOK, TypeInv
<1>3. ASSUME NEW c \in Call, Start(c) PROVE TypeInv'
  <2>1. /\ Running(0, state # "CLOSED") \in CallState
        /\ Running(0, state # "CLOSED").pc = "running"
    <3>1. 0 \in 0..Retries /\ (state # "CLOSED") \in BOOLEAN
      OBVIOUS
    <3> QED
      BY <3>1, CallStates
  <2>2. call' \in [Call -> CallState] /\ RetryLeft'
    BY <2>1, <1>3, BecomeSound DEF Start
  <2> QED
    BY <2>2, <1>0, <1>3 DEF Start, TypeOK, TypeInv
<1>4. ASSUME NEW c \in Call, Abort(c) PROVE TypeInv'
  <2>1. /\ [call[c] EXCEPT !.aborted = TRUE] \in CallState
        /\ [call[c] EXCEPT !.aborted = TRUE].pc = "running"
    BY <1>1, <1>4 DEF CallState, Abort, At
  <2>2. call' \in [Call -> CallState] /\ RetryLeft'
    BY <2>1, <1>4, BecomeSound DEF Abort
  <2> QED
    BY <2>2, <1>0, <1>4 DEF Abort, TypeOK, TypeInv
<1>5. ASSUME NEW c \in Call, Succeed(c) PROVE TypeInv'
  <2>1. Returned("ok") \in CallState /\ Returned("ok").pc = "idle"
    BY CallStates DEF Result
  <2>2. call' \in [Call -> CallState] /\ RetryLeft'
    BY <2>1, <1>5, BecomeSound DEF Succeed
  <2> QED
    BY <2>2, <1>0, <1>5 DEF Succeed, OnSuccess, TypeOK, TypeInv
<1>6. ASSUME NEW c \in Call, NEW e \in AdapterError, Backoff(c, e) PROVE TypeInv'
  <2>1. /\ [call[c] EXCEPT !.pc = "backoff"] \in CallState
        /\ [call[c] EXCEPT !.pc = "backoff"].attempt < Retries
    BY <1>1, <1>6 DEF CallState, Backoff, GivesUp
  <2>2. call' \in [Call -> CallState] /\ RetryLeft'
    BY <2>1, <1>6, BecomeSound DEF Backoff
  <2> QED
    BY <2>2, <1>0, <1>6 DEF Backoff, TypeOK, TypeInv
<1>7. ASSUME NEW c \in Call, NextAttempt(c) PROVE TypeInv'
  <2>1. call[c].attempt \in 0..Retries /\ call[c].attempt < Retries
        /\ call[c].trial \in BOOLEAN
    BY <1>1, <1>7 DEF NextAttempt, TypeInv, RetryLeft, CallState
  <2>2. /\ Running(call[c].attempt + 1, call[c].trial) \in CallState
        /\ Running(call[c].attempt + 1, call[c].trial).pc = "running"
    <3>1. call[c].attempt + 1 \in 0..Retries
      BY <2>1
    <3> QED
      BY <2>1, <3>1, CallStates
  <2>3. call' \in [Call -> CallState] /\ RetryLeft'
    BY <2>2, <1>7, BecomeSound DEF NextAttempt
  <2> QED
    BY <2>3, <1>0, <1>7 DEF NextAttempt, TypeOK, TypeInv
<1>8. ASSUME NEW c \in Call, NEW e \in AdapterError, GiveUp(c, e) PROVE TypeInv'
  <2>1. Thrown(c, e) \in Result
    BY DEF Thrown, Result
  <2>2. Returned(Thrown(c, e)) \in CallState /\ Returned(Thrown(c, e)).pc = "idle"
    BY <2>1, CallStates
  <2>3. call' \in [Call -> CallState] /\ RetryLeft'
    BY <2>2, <1>8, BecomeSound DEF GiveUp
  <2> QED
    BY <2>3, <1>0, <1>8, FailureTyped DEF GiveUp, TypeOK, TypeInv
<1>9. ASSUME NEW c \in Call, Hang(c) PROVE TypeInv'
  <2>1. Hung(call[c].trial) \in CallState /\ Hung(call[c].trial).pc = "hung"
    <3>1. 0 \in 0..Retries /\ call[c].trial \in BOOLEAN
      BY <1>1 DEF CallState
    <3>2. Running(0, call[c].trial) \in CallState
      BY <3>1, CallStates
    <3> QED
      BY <3>2 DEF CallState, Hung
  <2>2. call' \in [Call -> CallState] /\ RetryLeft'
    BY <2>1, <1>9, BecomeSound DEF Hang
  <2> QED
    BY <2>2, <1>0, <1>9 DEF Hang, TypeOK, TypeInv
<1>10. CASE Elapse
  BY <1>10 DEF Elapse, Blocked, TypeInv, TypeOK, RetryLeft, At
<1>11. CASE UNCHANGED vars
  BY <1>11 DEF vars, TypeInv, TypeOK, RetryLeft, At
<1> QED
  BY <1>2, <1>3, <1>4, <1>5, <1>6, <1>7, <1>8, <1>9, <1>10, <1>11 DEF Next, Settle

(***************************************************************************)
(* A new breaker and callers that have not called yet are well typed.      *)
(***************************************************************************)
LEMMA TypeInit == Init => TypeInv
<1> SUFFICES ASSUME Init PROVE TypeInv
  OBVIOUS
<1>1. Returned("none") \in CallState /\ Returned("none").pc = "idle"
  BY CallStates DEF Result
<1>2. call \in [Call -> CallState] /\ \A c \in Call : call[c].pc = "idle"
  BY <1>1 DEF Init
<1> QED
  BY <1>2, OptionsAssumption DEF Init, TypeInv, TypeOK, RetryLeft, At

(***************************************************************************)
(* In every behaviour each variable has its type.                          *)
(***************************************************************************)
THEOREM TypeCorrect == Spec => []TypeOK
<1>1. TypeInv => TypeOK
  BY DEF TypeInv
<1> QED
  BY <1>1, TypeInit, TypeStep, PTL DEF Spec

(***************************************************************************)
(* The same for the strengthening, which the theorems below start from.    *)
(***************************************************************************)
THEOREM TypeInvariant == Spec => []TypeInv
BY TypeInit, TypeStep, PTL DEF Spec

-----------------------------------------------------------------------------
(***************************************************************************)
(* The breaker is CLOSED exactly while it has counted fewer failures than  *)
(* the threshold, whatever calls overlap.                                  *)
(***************************************************************************)
THEOREM ThresholdDecides == Spec => []ClosedBelowThreshold
<1>1. Init => ClosedBelowThreshold
  BY OptionsAssumption DEF Init, ClosedBelowThreshold
<1>2. TypeInv /\ ClosedBelowThreshold /\ [Next]_vars => ClosedBelowThreshold'
  <2> SUFFICES ASSUME TypeInv, ClosedBelowThreshold, [Next]_vars
               PROVE  ClosedBelowThreshold'
    OBVIOUS
  <2> USE OptionsAssumption DEF ClosedBelowThreshold, TypeInv, TypeOK
  <2>1. ASSUME NEW c \in Call, ShortCircuit(c) \/ Abort(c) \/ Hang(c) \/ NextAttempt(c)
        PROVE  ClosedBelowThreshold'
    BY <2>1 DEF ShortCircuit, Abort, Hang, NextAttempt
  <2>2. ASSUME NEW c \in Call, Start(c) PROVE ClosedBelowThreshold'
    BY <2>2 DEF Start
  <2>3. ASSUME NEW c \in Call, Succeed(c) PROVE ClosedBelowThreshold'
    BY <2>3 DEF Succeed, OnSuccess
  <2>4. ASSUME NEW c \in Call, NEW e \in AdapterError, Backoff(c, e)
        PROVE  ClosedBelowThreshold'
    BY <2>4 DEF Backoff
  <2>5. ASSUME NEW c \in Call, NEW e \in AdapterError, GiveUp(c, e)
        PROVE  ClosedBelowThreshold'
    BY <2>5 DEF GiveUp, OnFailure, NextCount
  <2>6. CASE Elapse
    BY <2>6 DEF Elapse
  <2>7. CASE UNCHANGED vars
    BY <2>7 DEF vars
  <2> QED
    BY <2>1, <2>2, <2>3, <2>4, <2>5, <2>6, <2>7 DEF Next, Settle
<1> QED
  BY <1>1, <1>2, TypeInvariant, PTL DEF Spec

(***************************************************************************)
(* The breaker never waits in HALF_OPEN for a verdict that nobody will     *)
(* give.                                                                   *)
(***************************************************************************)
THEOREM TrialInProgress == Spec => []HalfOpenHasTrial
<1>1. Init => HalfOpenHasTrial
  BY DEF Init, HalfOpenHasTrial
<1>2. TypeInv /\ HalfOpenHasTrial /\ [Next]_vars => HalfOpenHasTrial'
  <2> SUFFICES ASSUME TypeInv, HalfOpenHasTrial, [Next]_vars, state' = "HALF_OPEN"
               PROVE  \E c \in Call : call'[c].pc # "idle" /\ call'[c].trial
    BY DEF HalfOpenHasTrial, At
  <2>0. call \in [Call -> CallState]
    BY DEF TypeInv, TypeOK
  <2>1. ASSUME NEW c \in Call, Start(c)
        PROVE  \E d \in Call : call'[d].pc # "idle" /\ call'[d].trial
    <3>1. call' = [call EXCEPT ![c] = Running(0, state # "CLOSED")]
      BY <2>1 DEF Start, Become
    <3>2. call'[c].pc = "running" /\ call'[c].trial
      BY <2>0, <2>1, <3>1 DEF Start, Running
    <3> QED
      BY <3>2
  <2>2. ASSUME NEW c \in Call, Succeed(c) PROVE FALSE
    BY <2>2 DEF Succeed, OnSuccess
  <2>3. ASSUME NEW c \in Call, NEW e \in AdapterError, GiveUp(c, e) PROVE FALSE
    BY <2>3 DEF GiveUp, OnFailure, NextCount
  \* The remaining steps keep the state, and with it the call that is a trial.
  <2>4. ASSUME NEW c \in Call, NEW new, Become(c, new), state = "HALF_OPEN",
               At(c, "idle") \/ (new.pc # "idle" /\ new.trial = call[c].trial)
        PROVE  \E d \in Call : call'[d].pc # "idle" /\ call'[d].trial
    <3>1. PICK d \in Call : call[d].pc # "idle" /\ call[d].trial
      BY <2>4 DEF HalfOpenHasTrial, At
    <3>2. call'[d].pc # "idle" /\ call'[d].trial
      BY <2>0, <2>4, <3>1 DEF Become, At
    <3> QED
      BY <3>2
  <2>5. ASSUME NEW c \in Call, ShortCircuit(c) PROVE FALSE
    BY <2>5 DEF ShortCircuit, Blocked
  <2>6. ASSUME NEW c \in Call, Abort(c)
        PROVE  \E d \in Call : call'[d].pc # "idle" /\ call'[d].trial
    <3>1. /\ [call[c] EXCEPT !.aborted = TRUE].pc # "idle"
          /\ [call[c] EXCEPT !.aborted = TRUE].trial = call[c].trial
      BY <2>0, <2>6 DEF Abort, At, CallState
    <3> QED
      BY <3>1, <2>6, <2>4 DEF Abort
  <2>7. ASSUME NEW c \in Call, NEW e \in AdapterError, Backoff(c, e)
        PROVE  \E d \in Call : call'[d].pc # "idle" /\ call'[d].trial
    <3>1. /\ [call[c] EXCEPT !.pc = "backoff"].pc # "idle"
          /\ [call[c] EXCEPT !.pc = "backoff"].trial = call[c].trial
      BY <2>0 DEF CallState
    <3> QED
      BY <3>1, <2>7, <2>4 DEF Backoff
  <2>8. ASSUME NEW c \in Call, NextAttempt(c)
        PROVE  \E d \in Call : call'[d].pc # "idle" /\ call'[d].trial
    <3>1. /\ Running(call[c].attempt + 1, call[c].trial).pc # "idle"
          /\ Running(call[c].attempt + 1, call[c].trial).trial = call[c].trial
      BY DEF Running
    <3> QED
      BY <3>1, <2>8, <2>4 DEF NextAttempt
  <2>9. ASSUME NEW c \in Call, Hang(c)
        PROVE  \E d \in Call : call'[d].pc # "idle" /\ call'[d].trial
    <3>1. /\ Hung(call[c].trial).pc # "idle"
          /\ Hung(call[c].trial).trial = call[c].trial
      BY DEF Hung, Running
    <3> QED
      BY <3>1, <2>9, <2>4 DEF Hang
  <2>10. CASE Elapse
    BY <2>10 DEF Elapse, Blocked
  <2>11. CASE UNCHANGED vars
    BY <2>11 DEF vars, HalfOpenHasTrial, At
  <2> QED
    BY <2>1, <2>2, <2>3, <2>5, <2>6, <2>7, <2>8, <2>9, <2>10, <2>11 DEF Next, Settle
<1> QED
  BY <1>1, <1>2, TypeInvariant, PTL DEF Spec

(***************************************************************************)
(* Both together: the state of the breaker is earned, with any number of   *)
(* callers and every threshold.                                            *)
(***************************************************************************)
THEOREM StateEarned == Spec => []StateIsEarned
<1>1. ClosedBelowThreshold /\ HalfOpenHasTrial => StateIsEarned
  BY DEF StateIsEarned
<1> QED
  BY <1>1, ThresholdDecides, TrialInProgress, PTL

-----------------------------------------------------------------------------
(***************************************************************************)
(* With a single caller an OPEN breaker has no call in progress: nothing   *)
(* is left whose late verdict could break the promise.                     *)
(***************************************************************************)
OpenIsQuiet == state = "OPEN" => \A c \in Call : At(c, "idle")

(***************************************************************************)
(* Used by one caller at a time, the breaker implements its contract.      *)
(***************************************************************************)
THEOREM SerialKeepsContract ==
    ASSUME NEW single, Call = {single}
    PROVE  Spec => KeepsContract
<1>1. Init => Contract!Init /\ OpenIsQuiet
  BY DEF Init, Contract!Init, OpenIsQuiet
<1>2. TypeInv /\ OpenIsQuiet /\ [Next]_vars
        => OpenIsQuiet' /\ [Contract!Next]_(Contract!vars)
  <2> SUFFICES ASSUME TypeInv, OpenIsQuiet, [Next]_vars
               PROVE  OpenIsQuiet' /\ [Contract!Next]_(Contract!vars)
    OBVIOUS
  <2> USE OptionsAssumption DEF Contract!vars, TypeInv, TypeOK
  <2>0. Call = {single} /\ single \in Call
    OBVIOUS
  <2>1. ASSUME NEW new \in CallState, Become(single, new), new.pc = "idle"
        PROVE  OpenIsQuiet'
    BY <2>0, <2>1 DEF Become, OpenIsQuiet, At
  <2>2. ASSUME ~At(single, "idle") PROVE state # "OPEN"
    BY <2>2 DEF OpenIsQuiet
  <2>3. CASE ShortCircuit(single)
    <3>1. Returned("CIRCUIT_OPEN") \in CallState /\ Returned("CIRCUIT_OPEN").pc = "idle"
      BY CallStates DEF Result
    <3> QED
      BY <3>1, <2>3, <2>1 DEF ShortCircuit
  <2>4. CASE Start(single)
    <3>1. state' # "OPEN"
      BY <2>4 DEF Start
    <3>2. Contract!Try \/ UNCHANGED <<state, age>>
      BY <2>4 DEF Start, Blocked, Contract!Try
    <3> QED
      BY <3>1, <3>2 DEF OpenIsQuiet, Contract!Next
  <2>5. CASE \/ Abort(single) \/ Hang(single) \/ NextAttempt(single)
             \/ \E e \in AdapterError : Backoff(single, e)
    <3>1. state # "OPEN" /\ UNCHANGED <<state, age>>
      BY <2>5, <2>2 DEF Abort, Hang, NextAttempt, Backoff, At
    <3> QED
      BY <3>1 DEF OpenIsQuiet
  <2>6. CASE Succeed(single)
    <3>1. state \in {"CLOSED", "HALF_OPEN"} /\ state' = "CLOSED" /\ age' = age
      BY <2>6, <2>2 DEF Succeed, OnSuccess, At
    <3> QED
      BY <3>1 DEF OpenIsQuiet, Contract!Next, Contract!Recover
  <2>7. ASSUME NEW e \in AdapterError, GiveUp(single, e)
        PROVE  OpenIsQuiet' /\ [Contract!Next]_(Contract!vars)
    <3>1. Thrown(single, e) \in Result
      BY DEF Thrown, Result
    <3>2. OpenIsQuiet'
      BY <3>1, <2>7, <2>1, CallStates DEF GiveUp
    <3>3. state \in {"CLOSED", "HALF_OPEN"}
      BY <2>7, <2>2 DEF GiveUp, At
    <3>4. Contract!Trip \/ UNCHANGED <<state, age>>
      BY <3>3, <2>7 DEF GiveUp, OnFailure, NextCount, Contract!Trip
    <3> QED
      BY <3>2, <3>4 DEF Contract!Next
  <2>8. CASE Elapse
    BY <2>8 DEF Elapse, Blocked, OpenIsQuiet, At, Contract!Next, Contract!Wait
  <2>9. CASE UNCHANGED vars
    BY <2>9 DEF vars, OpenIsQuiet, At
  <2> QED
    BY <2>0, <2>3, <2>4, <2>5, <2>6, <2>7, <2>8, <2>9 DEF Next, Settle
<1> QED
  BY <1>1, <1>2, TypeInvariant, PTL DEF Spec, KeepsContract, Contract!Spec

-----------------------------------------------------------------------------
(* The connection test and the configuration *)

(***************************************************************************)
(* The properties are not inductive: what the row may say depends on what  *)
(* the requests in progress still have to write.                           *)
(***************************************************************************)
Typed == TypeInv /\ RequestsTyped

\* Who writes a configuration is alone, or it is on record.
Alone ==
    \/ overlapped
    \/ \A c, d \in Call : Stands(c, "upsert") /\ c # d => Stands(d, "idle")

\* A test from the writing of TESTING to the writing of its result.
Underway == {"resolve", "exec", "wait", "connect", "fail"}

Held ==
    row.status = "TESTING" =>
        interrupted \/ overlapped \/ \E c \in Call : req[c].pc \in Underway

Failing == \A c \in Call : Stands(c, "fail") => req[c].status \notin {"TESTING", "CONNECTED"}

\* The status that a configuration has read, and will write back.
Upserting ==
    \A c \in Call : Stands(c, "upsert") =>
        \/ overlapped
        \/ /\ req[c].status = "TESTING" => interrupted
           /\ req[c].status = "CONNECTED" => validated /\ req[c].adapter # "none"

Earned == row.status = "CONNECTED" => validated \/ overlapped

\* The adapter's answer, until it is in the row.
Accepted ==
    \A c \in Call :
        Stands(c, "connect") \/ (Stands(c, "wait") /\ At(c, "idle") /\ call[c].result = "ok")
            => validated \/ overlapped

\* A test that has passed the gates, up to the verdict.
Gated == {"start", "resolve", "exec", "wait"}

Open == row.local /\ ((row.enabled /\ Registered(row.adapter)) \/ overlapped)

Quiet ==
    \A c \in Call : /\ ~At(c, "idle") => Stands(c, "wait")
                    /\ req[c].pc \in Gated => Open

Inv == Typed /\ Alone /\ Held /\ Failing /\ Upserting /\ Earned /\ Accepted /\ Quiet
-----------------------------------------------------------------------------
(***************************************************************************)
(* The states that requests are put into are well formed.                  *)
(***************************************************************************)
LEMMA Codes ==
    \A code : MapConnectionStatusForError(code) \in {"NOT_APPLICABLE", "DEGRADED", "DISCONNECTED"}
BY DEF MapConnectionStatusForError

\* The record of a test at any of its steps, and the fields that its step and status set.
LEMMA TestStates ==
    \A pc \in Testing \cup {"idle", "upsert"}, status \in ConnectionStatus :
        /\ TestAt(pc, status) \in RequestState
        /\ TestAt(pc, status).pc = pc
        /\ TestAt(pc, status).status = status
BY DEF TestAt, Holding, RequestState, AdapterType

\* A request that has ended has its type.
LEMMA IdleState == Idle \in RequestState /\ Idle.pc = "idle"
BY DEF Idle, TestAt, Holding, RequestState, AdapterType, ConnectionStatus

(***************************************************************************)
(* Every step is one of the breaker's, a caller taking its result, or a    *)
(* restart: the breaker stays well typed.                                  *)
(***************************************************************************)
LEMMA BreakerTyped == TypeInv /\ [IntegrationNext]_allVars => TypeInv'
<1> SUFFICES ASSUME TypeInv, [IntegrationNext]_allVars PROVE TypeInv'
  OBVIOUS
<1>1. ASSUME UNCHANGED vars PROVE TypeInv'
  BY <1>1, TypeStep
<1>2. ASSUME NEW c \in Call, Exec(c) PROVE TypeInv'
  BY <1>2, TypeStep DEF Exec, Next
<1>3. ASSUME NEW c \in Call, Verdict(c) PROVE TypeInv'
  <2>1. Returned("none") \in CallState /\ Returned("none").pc = "idle"
    BY CallStates DEF Result
  <2>2. call' \in [Call -> CallState] /\ RetryLeft'
    BY <2>1, <1>3, BecomeSound DEF Verdict
  <2> QED
    BY <2>2, <1>3 DEF Verdict, TypeInv, TypeOK
<1>4. CASE Progress
  BY <1>4, TypeStep DEF Progress, Next
<1>5. CASE Restart
  <2>1. Returned("none") \in CallState /\ Returned("none").pc = "idle"
    BY CallStates DEF Result
  <2>2. call' \in [Call -> CallState] /\ \A c \in Call : call'[c].pc = "idle"
    BY <2>1, <1>5 DEF Restart
  <2> QED
    BY <2>2, <1>5, OptionsAssumption DEF Restart, TypeInv, TypeOK, RetryLeft, At
<1>6. ASSUME NEW c \in Call, TestStep(c) PROVE TypeInv'
  BY <1>1, <1>2, <1>3, <1>6
     DEF TestStep, SetTesting, Resolve, ResolveFails, WriteConnected, Answer, CatchError, Fail
<1>7. ASSUME NEW c \in Call, NEW adapter \in AdapterType, NEW enabled \in BOOLEAN,
             ConfigureRead(c, adapter, enabled)
      PROVE  TypeInv'
  BY <1>1, <1>7 DEF ConfigureRead
<1>8. ASSUME NEW c \in Call, ConfigureUpsert(c) \/ TestRead(c) \/ Die(c) PROVE TypeInv'
  BY <1>1, <1>8 DEF ConfigureUpsert, TestRead, Die
<1>9. CASE UNCHANGED allVars
  BY <1>1, <1>9 DEF allVars
<1> QED
  BY <1>4, <1>5, <1>6, <1>7, <1>8, <1>9 DEF IntegrationNext
(***************************************************************************)
(* Writing the state of one request, and nobody else's.                    *)
(***************************************************************************)
LEMMA PutSound ==
    ASSUME RequestsTyped, NEW c \in Call, NEW q \in RequestState, Put(c, q)
    PROVE  /\ req' \in [Call -> RequestState]
           /\ req'[c] = q
           /\ \A d \in Call : d # c => req'[d] = req[d]
BY DEF RequestsTyped, Put

\* What configureIntegration derives and is about to upsert has its type.
LEMMA DerivedTyped ==
    ASSUME RequestsTyped, NEW c \in Call, NEW adapter \in AdapterType, NEW enabled \in BOOLEAN
    PROVE  /\ Derived(row.status, adapter) \in ConnectionStatus
           /\ Holding("upsert", Derived(row.status, adapter), adapter, enabled) \in RequestState
<1>1. Derived(row.status, adapter) \in ConnectionStatus
  BY DEF Derived, LiveStatus, ConnectionStatus
<1> QED
  BY <1>1 DEF Holding, RequestState

(***************************************************************************)
(* Every step keeps the row and the requests in their types.               *)
(***************************************************************************)
LEMMA RequestsStep == Typed /\ [IntegrationNext]_allVars => Typed'
<1> SUFFICES ASSUME Typed, [IntegrationNext]_allVars PROVE Typed'
  OBVIOUS
<1>0. TypeInv' /\ TypeOK' /\ RequestsTyped
  BY BreakerTyped DEF Typed, TypeInv
<1>1. ASSUME NEW c \in Call, NEW q \in RequestState, Put(c, q), row' \in Row,
             <<validated', overlapped', interrupted'>> \in BOOLEAN \X BOOLEAN \X BOOLEAN
      PROVE  Typed'
  BY <1>0, <1>1, PutSound DEF Typed, RequestsTyped
<1> DEFINE Kept == /\ row' = row
                   /\ validated' \in BOOLEAN /\ overlapped' \in BOOLEAN
                   /\ interrupted' \in BOOLEAN
<1>2. ASSUME NEW c \in Call, NEW q \in RequestState, Put(c, q), Kept PROVE Typed'
  BY <1>0, <1>1, <1>2 DEF RequestsTyped
<1>3. ASSUME NEW c \in Call, NEW adapter \in AdapterType, NEW enabled \in BOOLEAN,
             ConfigureRead(c, adapter, enabled)
      PROVE  Typed'
  <2>1. Kept
    BY <1>0, <1>3 DEF ConfigureRead, RequestsTyped
  <2> QED
    BY <1>0, <1>2, <1>3, <2>1, DerivedTyped DEF ConfigureRead
<1>4. ASSUME NEW c \in Call, ConfigureUpsert(c) PROVE Typed'
  <2>1. row' \in Row
    BY <1>0, <1>4 DEF ConfigureUpsert, RequestsTyped, Row, RequestState
  <2>2. <<validated', overlapped', interrupted'>> \in BOOLEAN \X BOOLEAN \X BOOLEAN
    BY <1>0, <1>4 DEF ConfigureUpsert, RequestsTyped
  <2> QED
    BY <1>1, <1>4, <2>1, <2>2, IdleState DEF ConfigureUpsert
<1>5. ASSUME NEW c \in Call, TestRead(c) PROVE Typed'
  <2>1. Kept
    BY <1>0, <1>5 DEF TestRead, RequestsTyped
  <2>2. PICK pc \in Testing, status \in ConnectionStatus : Put(c, TestAt(pc, status))
    BY <1>5 DEF TestRead, Testing, ConnectionStatus
  <2> QED
    BY <1>2, <2>1, <2>2, TestStates
<1>6. ASSUME NEW c \in Call, NEW status \in ConnectionStatus,
             row' = [row EXCEPT !.status = status],
             UNCHANGED <<validated, overlapped, interrupted>>,
             NEW pc \in Testing, Put(c, TestAt(pc, status)) \/ Put(c, Idle)
      PROVE  Typed'
  <2>1. row' \in Row
    BY <1>0, <1>6 DEF RequestsTyped, Row
  <2>2. <<validated', overlapped', interrupted'>> \in BOOLEAN \X BOOLEAN \X BOOLEAN
    BY <1>0, <1>6 DEF RequestsTyped
  <2> QED
    BY <1>1, <1>6, <2>1, <2>2, IdleState, TestStates
<1>7. ASSUME NEW c \in Call, SetTesting(c) \/ WriteConnected(c) PROVE Typed'
  BY <1>6, <1>7 DEF SetTesting, WriteConnected, Testing, ConnectionStatus
<1>8. ASSUME NEW c \in Call, Fail(c) PROVE Typed'
  <2>1. req[c].status \in ConnectionStatus /\ "fail" \in Testing
    BY <1>0 DEF RequestsTyped, RequestState, Testing
  <2> QED
    BY <1>6, <1>8, <2>1 DEF Fail
<1>9. ASSUME NEW c \in Call, NEW code,
             Resolve(c) \/ ResolveFails(c, code) \/ Exec(c) \/ Verdict(c) \/ CatchError(c)
      PROVE  Typed'
  <2>1. Kept
    BY <1>0, <1>9 DEF Resolve, ResolveFails, Exec, Verdict, CatchError, RequestsTyped
  <2>2. PICK pc \in Testing, status \in ConnectionStatus : Put(c, TestAt(pc, status))
    BY <1>9, Codes
       DEF Resolve, ResolveFails, Exec, Verdict, CatchError, Testing, ConnectionStatus
  <2> QED
    BY <1>2, <2>1, <2>2, TestStates
<1>10. ASSUME NEW c \in Call, Answer(c) \/ Die(c) PROVE Typed'
  <2>1. Kept /\ Put(c, Idle)
    BY <1>0, <1>10 DEF Answer, Die, RequestsTyped
  <2> QED
    BY <1>2, <2>1, IdleState
<1>11. CASE Progress
  <2>1. validated' \in BOOLEAN /\ UNCHANGED <<row, req, overlapped, interrupted>>
    BY <1>0, <1>11 DEF Progress, RequestsTyped
  <2> QED
    BY <1>0, <2>1 DEF Typed, RequestsTyped
<1>12. CASE Restart
  BY <1>0, <1>12, IdleState DEF Restart, Typed, RequestsTyped
<1>13. CASE UNCHANGED allVars
  BY <1>0, <1>13 DEF allVars, requestVars, Typed, RequestsTyped
<1> QED
  BY <1>3, <1>4, <1>5, <1>7, <1>8, <1>9, <1>10, <1>11, <1>12, <1>13 DEF IntegrationNext, TestStep
-----------------------------------------------------------------------------
(***************************************************************************)
(* A request that only moves on, to where it neither holds a configuration *)
(* nor an answer of the adapter, disturbs nothing.                         *)
(***************************************************************************)
LEMMA RequestMoves ==
    ASSUME Inv, Typed', NEW c \in Call, NEW q \in RequestState, Put(c, q),
           UNCHANGED <<vars, row, validated, overlapped>>, interrupted => interrupted',
           req[c].pc \notin {"idle", "wait"}, q.pc \notin {"upsert", "wait", "connect"},
           req[c].pc \in Underway => q.pc \in Underway \/ interrupted',
           q.pc = "fail" => q.status \notin {"TESTING", "CONNECTED"},
           q.pc \in Gated => req[c].pc \in Gated
    PROVE  Inv'
<1> USE DEF Stands, At
<1>1. /\ req'[c] = q
      /\ \A d \in Call : d # c => req'[d] = req[d]
  BY PutSound DEF Inv, Typed
<1>2. Alone'
  BY <1>1 DEF Inv, Alone
<1>3. Held'
  BY <1>1 DEF Inv, Held
<1>4. Failing'
  BY <1>1 DEF Inv, Failing
<1>5. Upserting'
  BY <1>1 DEF Inv, Upserting
<1>6. Earned'
  BY DEF Inv, Earned
<1>7. Accepted'
  BY <1>1 DEF Inv, Accepted, vars
<1>8. Quiet'
  BY <1>1 DEF Inv, Quiet, Open, vars
<1> QED
  BY <1>2, <1>3, <1>4, <1>5, <1>6, <1>7, <1>8 DEF Inv

\* A step that moves one request on, or ends it, without writing to the row.
LEMMA MovingOn ==
    ASSUME Inv, Typed', NEW c \in Call, NEW code,
           Resolve(c) \/ ResolveFails(c, code) \/ Answer(c) \/ CatchError(c) \/ Die(c)
    PROVE  Inv'
<1> USE DEF Stands
<1>1. CASE Resolve(c)
  <2>1. "TESTING" \in ConnectionStatus /\ "exec" \in Testing
    BY DEF ConnectionStatus, Testing
  <2> QED
    BY <1>1, <2>1, TestStates, RequestMoves DEF Resolve, Underway, Gated
<1>2. ASSUME NEW e, Put(c, TestAt("fail", MapConnectionStatusForError(e))),
             UNCHANGED <<vars, row, validated, overlapped, interrupted>>,
             req[c].pc \in {"resolve", "connect", "succeeded"}
      PROVE  Inv'
  <2>1. /\ MapConnectionStatusForError(e) \in ConnectionStatus \ {"TESTING", "CONNECTED"}
        /\ "fail" \in Testing
    BY Codes DEF ConnectionStatus, Testing
  <2> QED
    BY <1>2, <2>1, TestStates, RequestMoves DEF Underway, Gated
<1>3. CASE ResolveFails(c, code)
  BY <1>2, <1>3 DEF ResolveFails
<1>4. CASE CatchError(c)
  BY <1>2, <1>4 DEF CatchError
<1>5. CASE Answer(c)
  BY <1>5, IdleState, RequestMoves DEF Answer, Underway, Gated
<1>6. CASE Die(c)
  BY <1>6, IdleState, RequestMoves DEF Die, Underway, Gated
<1> QED
  BY <1>1, <1>3, <1>4, <1>5, <1>6
(***************************************************************************)
(* A configuration reads the row ...                                       *)
(***************************************************************************)
LEMMA ReadingConfiguration ==
    ASSUME Inv, Typed', NEW c \in Call, NEW adapter \in AdapterType, NEW enabled \in BOOLEAN,
           ConfigureRead(c, adapter, enabled)
    PROVE  Inv'
<1> USE DEF Stands, At
<1> DEFINE derived == Derived(row.status, adapter)
<1>1. PICK q \in RequestState :
          q.pc = "upsert" /\ q.status = derived /\ q.adapter = adapter /\ Put(c, q)
  BY DerivedTyped DEF Inv, Typed, ConfigureRead, Holding
<1>2. /\ req'[c] = q
      /\ \A d \in Call : d # c => req'[d] = req[d]
  BY <1>1, PutSound DEF Inv, Typed
<1>3. /\ UNCHANGED <<vars, row, validated, interrupted>>
      /\ req[c].pc = "idle" /\ overlapped' = (overlapped \/ Busy # {})
  BY DEF ConfigureRead
<1>4. ~overlapped' => ~overlapped /\ \A d \in Call : req[d].pc = "idle"
  BY <1>3 DEF Busy
<1>5. Alone'
  BY <1>2, <1>4 DEF Alone
<1>6. Held'
  BY <1>2, <1>3 DEF Inv, Held, Underway
<1>7. Failing'
  BY <1>1, <1>2 DEF Inv, Failing
<1>8. Upserting'
  <2>1. derived = "TESTING" => row.status = "TESTING"
    BY DEF Derived, LiveStatus
  <2>2. derived = "CONNECTED" => row.status = "CONNECTED" /\ adapter # "none"
    <3>1. CASE adapter = "none"
      BY <3>1 DEF Derived
    <3>2. CASE adapter # "none"
      BY <3>2 DEF Derived, LiveStatus
    <3> QED
      BY <3>1, <3>2
  <2>3. CASE overlapped'
    BY <2>3 DEF Upserting
  <2>4. CASE ~overlapped'
    <3>1. row.status = "TESTING" => interrupted'
      BY <1>3, <1>4, <2>4 DEF Inv, Held, Underway
    <3>2. row.status = "CONNECTED" => validated'
      BY <1>3, <1>4, <2>4 DEF Inv, Earned
    <3>3. \A d \in Call : d # c => req'[d].pc # "upsert"
      BY <1>2, <1>4, <2>4
    <3> QED
      BY <1>1, <1>2, <2>1, <2>2, <3>1, <3>2, <3>3 DEF Upserting
  <2> QED
    BY <2>3, <2>4
<1>9. Earned'
  BY <1>3 DEF Inv, Earned
<1>10. Accepted'
  BY <1>1, <1>2, <1>3 DEF Inv, Accepted, vars
<1>11. Quiet'
  BY <1>1, <1>2, <1>3 DEF Inv, Quiet, Open, Gated, vars
<1> QED
  BY <1>5, <1>6, <1>7, <1>8, <1>9, <1>10, <1>11 DEF Inv

(***************************************************************************)
(* ... and writes it back.                                                 *)
(***************************************************************************)
LEMMA WritingConfiguration ==
    ASSUME Inv, Typed', NEW c \in Call, ConfigureUpsert(c)
    PROVE  Inv'
<1> USE DEF Stands, At
<1>1. /\ req'[c].pc = "idle"
      /\ \A d \in Call : d # c => req'[d] = req[d]
  BY IdleState, PutSound DEF Inv, Typed, ConfigureUpsert
<1>2. /\ UNCHANGED <<vars, overlapped, interrupted>> /\ req[c].pc = "upsert"
      /\ validated' = (validated /\ req[c].adapter # "none")
      /\ row'.status = req[c].status /\ row'.local = row.local
  BY DEF ConfigureUpsert, Inv, Typed, RequestsTyped, Row
<1>3. ~overlapped => \A d \in Call : req'[d].pc = "idle"
  BY <1>1, <1>2 DEF Inv, Alone
<1>4. Alone'
  BY <1>2, <1>3 DEF Alone
<1>5. Held'
  BY <1>2 DEF Inv, Upserting, Held
<1>6. Failing'
  BY <1>1 DEF Inv, Failing
<1>7. Upserting'
  BY <1>2, <1>3 DEF Upserting
<1>8. Earned'
  BY <1>2 DEF Inv, Upserting, Earned
<1>9. Accepted'
  BY <1>2, <1>3 DEF Accepted
<1>10. Quiet'
  BY <1>1, <1>2, <1>3 DEF Inv, Quiet, Open, Gated, vars
<1> QED
  BY <1>4, <1>5, <1>6, <1>7, <1>8, <1>9, <1>10 DEF Inv

(***************************************************************************)
(* A test passes the gates, or not.                                        *)
(***************************************************************************)
LEMMA ReadingTest ==
    ASSUME Inv, Typed', NEW c \in Call, TestRead(c)
    PROVE  Inv'
<1> USE DEF Stands, At
<1>1. PICK pc \in {"start", "fail"}, status \in ConnectionStatus :
          /\ Put(c, TestAt(pc, status))
          /\ pc = "start" => row.local /\ row.enabled /\ Registered(row.adapter)
          /\ pc = "fail" => status \notin {"TESTING", "CONNECTED"}
  BY DEF TestRead, ConnectionStatus, Inv, Typed, RequestsTyped, Row
<1>2. /\ req'[c].pc = pc /\ req'[c].status = status
      /\ \A d \in Call : d # c => req'[d] = req[d]
  BY <1>1, TestStates, PutSound DEF Inv, Typed, Testing
<1>3. /\ UNCHANGED <<vars, row, validated, interrupted>> /\ req[c].pc = "idle"
      /\ overlapped' = (overlapped \/ \E d \in Call : req[d].pc = "upsert")
  BY DEF TestRead
<1>4. Alone'
  BY <1>2, <1>3 DEF Alone
<1>5. Held'
  BY <1>2, <1>3 DEF Inv, Held, Underway
<1>6. Failing'
  BY <1>1, <1>2 DEF Inv, Failing
<1>7. Upserting'
  BY <1>2, <1>3 DEF Inv, Upserting
<1>8. Earned'
  BY <1>3 DEF Inv, Earned
<1>9. Accepted'
  BY <1>2, <1>3 DEF Inv, Accepted, vars
<1>10. Quiet'
  BY <1>1, <1>2, <1>3 DEF Inv, Quiet, Open, Gated, vars
<1> QED
  BY <1>4, <1>5, <1>6, <1>7, <1>8, <1>9, <1>10 DEF Inv
(***************************************************************************)
(* A test marks the row.                                                   *)
(***************************************************************************)
LEMMA Marking ==
    ASSUME Inv, Typed', NEW c \in Call, SetTesting(c)
    PROVE  Inv'
<1> USE DEF Stands, At
<1>1. "TESTING" \in ConnectionStatus /\ "resolve" \in Testing
  BY DEF ConnectionStatus, Testing
<1>2. /\ req'[c].pc = "resolve"
      /\ \A d \in Call : d # c => req'[d] = req[d]
  BY <1>1, TestStates, PutSound DEF Inv, Typed, SetTesting
<1>3. /\ UNCHANGED <<vars, validated, overlapped, interrupted>> /\ req[c].pc = "start"
      /\ row'.status = "TESTING" /\ row'.local = row.local
      /\ row'.enabled = row.enabled /\ row'.adapter = row.adapter
  BY DEF SetTesting, Inv, Typed, RequestsTyped, Row
<1>4. Alone'
  BY <1>2, <1>3 DEF Inv, Alone
<1>5. Held'
  BY <1>2 DEF Held, Underway
<1>6. Failing'
  BY <1>2 DEF Inv, Failing
<1>7. Upserting'
  BY <1>2, <1>3 DEF Inv, Upserting
<1>8. Earned'
  BY <1>3 DEF Earned
<1>9. Accepted'
  BY <1>2, <1>3 DEF Inv, Accepted, vars
<1>10. Quiet'
  BY <1>2, <1>3 DEF Inv, Quiet, Open, Gated, vars
<1> QED
  BY <1>4, <1>5, <1>6, <1>7, <1>8, <1>9, <1>10 DEF Inv

(***************************************************************************)
(* A test writes its result, good or bad.                                  *)
(***************************************************************************)
LEMMA Reporting ==
    ASSUME Inv, Typed', NEW c \in Call, WriteConnected(c) \/ Fail(c)
    PROVE  Inv'
<1> USE DEF Stands, At
<1>1. "CONNECTED" \in ConnectionStatus /\ "succeeded" \in Testing
  BY DEF ConnectionStatus, Testing
<1>2. /\ req'[c].pc \in {"succeeded", "idle"}
      /\ \A d \in Call : d # c => req'[d] = req[d]
  BY <1>1, TestStates, IdleState, PutSound DEF Inv, Typed, WriteConnected, Fail
<1>3. /\ UNCHANGED <<vars, validated, overlapped, interrupted>>
      /\ req[c].pc \in {"connect", "fail"}
      /\ row'.local = row.local /\ row'.enabled = row.enabled /\ row'.adapter = row.adapter
  BY DEF WriteConnected, Fail, Inv, Typed, RequestsTyped, Row
<1>4. /\ row'.status # "TESTING"
      /\ row'.status = "CONNECTED" => validated \/ overlapped
  BY DEF WriteConnected, Fail, Inv, Typed, RequestsTyped, Row, Failing, Accepted
<1>5. Alone'
  BY <1>2, <1>3 DEF Inv, Alone
<1>6. Held'
  BY <1>4 DEF Held
<1>7. Failing'
  BY <1>2 DEF Inv, Failing
<1>8. Upserting'
  BY <1>2, <1>3 DEF Inv, Upserting
<1>9. Earned'
  BY <1>3, <1>4 DEF Earned
<1>10. Accepted'
  BY <1>2, <1>3 DEF Inv, Accepted, vars
<1>11. Quiet'
  BY <1>2, <1>3 DEF Inv, Quiet, Open, Gated, vars
<1> QED
  BY <1>5, <1>6, <1>7, <1>8, <1>9, <1>10, <1>11 DEF Inv

(***************************************************************************)
(* A test calls the adapter through the breaker ...                        *)
(***************************************************************************)
LEMMA Calling ==
    ASSUME Inv, Typed', NEW c \in Call, Exec(c)
    PROVE  Inv'
<1> USE DEF Stands, At
<1>1. "TESTING" \in ConnectionStatus /\ "wait" \in Testing
  BY DEF ConnectionStatus, Testing
<1>2. /\ req'[c].pc = "wait"
      /\ \A d \in Call : d # c => req'[d] = req[d]
  BY <1>1, TestStates, PutSound DEF Inv, Typed, Exec
<1>3. UNCHANGED <<row, validated, overlapped, interrupted>> /\ req[c].pc = "exec"
  BY DEF Exec
<1>4. /\ call'[c].result # "ok"
      /\ \A d \in Call : d # c => call'[d] = call[d]
  <2>1. call \in [Call -> CallState]
    BY DEF Inv, Typed, TypeInv, TypeOK
  <2> QED
    BY <2>1 DEF Exec, Start, ShortCircuit, Become, Running, Returned
<1>5. Alone'
  BY <1>2, <1>3 DEF Inv, Alone
<1>6. Held'
  BY <1>2, <1>3 DEF Inv, Held, Underway
<1>7. Failing'
  BY <1>2 DEF Inv, Failing
<1>8. Upserting'
  BY <1>2, <1>3 DEF Inv, Upserting
<1>9. Earned'
  BY <1>3 DEF Inv, Earned
<1>10. Accepted'
  BY <1>2, <1>3, <1>4 DEF Inv, Accepted
<1>11. Quiet'
  BY <1>2, <1>3, <1>4 DEF Inv, Quiet, Open, Gated
<1> QED
  BY <1>5, <1>6, <1>7, <1>8, <1>9, <1>10, <1>11 DEF Inv

(***************************************************************************)
(* ... the call goes on, or time passes ...                                *)
(***************************************************************************)
LEMMA Progressing ==
    ASSUME Inv, Typed', Progress
    PROVE  Inv'
<1> USE DEF Stands, At
<1>1. /\ UNCHANGED <<row, req, overlapped, interrupted>>
      /\ validated => validated'
  BY DEF Progress
<1>2. \A d \in Call : /\ call'[d].pc # "idle" => call[d].pc # "idle"
                      /\ call'[d].pc = "idle" /\ call'[d].result = "ok"
                            => validated' \/ call'[d] = call[d]
  <2>0. call \in [Call -> CallState]
    BY DEF Inv, Typed, TypeInv, TypeOK
  <2>1. CASE Elapse
    BY <2>1 DEF Elapse
  <2>2. ASSUME NEW c \in Call, Abort(c) \/ Hang(c) \/ NextAttempt(c)
        PROVE  call'[c].pc # "idle" /\ call[c].pc # "idle"
                   /\ \A d \in Call : d # c => call'[d] = call[d]
    BY <2>0, <2>2 DEF Abort, Hang, NextAttempt, Become, Running, Hung, CallState
  <2>3. ASSUME NEW c \in Call, Succeed(c)
        PROVE  call[c].pc # "idle" /\ validated'
                   /\ \A d \in Call : d # c => call'[d] = call[d]
    <3>1. validated'
      BY <2>3 DEF Progress
    <3> QED
      BY <2>0, <2>3, <3>1 DEF Succeed, Become
  <2>4. ASSUME NEW c \in Call, NEW e \in AdapterError, Backoff(c, e)
        PROVE  call'[c].pc # "idle" /\ call[c].pc # "idle"
                   /\ \A d \in Call : d # c => call'[d] = call[d]
    BY <2>0, <2>4 DEF Backoff, Become, CallState
  <2>5. ASSUME NEW c \in Call, NEW e \in AdapterError, GiveUp(c, e)
        PROVE  call[c].pc # "idle" /\ call'[c].result # "ok"
                   /\ \A d \in Call : d # c => call'[d] = call[d]
    BY <2>0, <2>5 DEF GiveUp, Become, Returned, Thrown, AdapterError
  <2> QED
    BY <2>1, <2>2, <2>3, <2>4, <2>5 DEF Progress, Settle
<1>3. Alone'
  BY <1>1 DEF Inv, Alone
<1>4. Held'
  BY <1>1 DEF Inv, Held
<1>5. Failing'
  BY <1>1 DEF Inv, Failing
<1>6. Upserting'
  BY <1>1 DEF Inv, Upserting
<1>7. Earned'
  BY <1>1 DEF Inv, Earned
<1>8. Accepted'
  BY <1>1, <1>2 DEF Inv, Accepted
<1>9. Quiet'
  BY <1>1, <1>2 DEF Inv, Quiet, Open
<1> QED
  BY <1>3, <1>4, <1>5, <1>6, <1>7, <1>8, <1>9 DEF Inv
(***************************************************************************)
(* ... and its result is taken.                                            *)
(***************************************************************************)
LEMMA Judging ==
    ASSUME Inv, Typed', NEW c \in Call, Verdict(c)
    PROVE  Inv'
<1> USE DEF Stands, At
<1>1. PICK pc \in {"connect", "fail"}, status \in ConnectionStatus :
          /\ Put(c, TestAt(pc, status))
          /\ pc = "connect" => call[c].result = "ok"
          /\ pc = "fail" => status \notin {"TESTING", "CONNECTED"}
  BY Codes DEF Verdict, ConnectionStatus
<1>2. /\ req'[c].pc = pc /\ req'[c].status = status
      /\ \A d \in Call : d # c => req'[d] = req[d]
  BY <1>1, TestStates, PutSound DEF Inv, Typed, Testing
<1>3. /\ UNCHANGED <<row, validated, overlapped, interrupted>>
      /\ req[c].pc = "wait" /\ call[c].pc = "idle"
  BY DEF Verdict
<1>4. call'[c].pc = "idle" /\ \A d \in Call : d # c => call'[d] = call[d]
  <2>1. call \in [Call -> CallState]
    BY DEF Inv, Typed, TypeInv, TypeOK
  <2> QED
    BY <2>1 DEF Verdict, Become, Returned
<1>5. Alone'
  BY <1>2, <1>3 DEF Inv, Alone
<1>6. Held'
  BY <1>2, <1>3 DEF Inv, Held, Underway
<1>7. Failing'
  BY <1>1, <1>2 DEF Inv, Failing
<1>8. Upserting'
  BY <1>2, <1>3 DEF Inv, Upserting
<1>9. Earned'
  BY <1>3 DEF Inv, Earned
<1>10. Accepted'
  BY <1>1, <1>2, <1>3, <1>4 DEF Inv, Accepted
<1>11. Quiet'
  BY <1>2, <1>3, <1>4 DEF Inv, Quiet, Open, Gated
<1> QED
  BY <1>5, <1>6, <1>7, <1>8, <1>9, <1>10, <1>11 DEF Inv

(***************************************************************************)
(* A restart leaves the row, and no request.                               *)
(***************************************************************************)
LEMMA Restarting ==
    ASSUME Inv, Typed', Restart
    PROVE  Inv'
<1> USE DEF Stands, At
<1>1. \A c \in Call : req'[c].pc = "idle" /\ call'[c].pc = "idle"
  BY IdleState DEF Restart, Returned
<1>2. UNCHANGED <<row, validated, overlapped>> /\ interrupted'
  BY DEF Restart
<1> QED
  BY <1>1, <1>2
     DEF Inv, Alone, Held, Failing, Upserting, Earned, Accepted, Quiet, Gated

-----------------------------------------------------------------------------
(***************************************************************************)
(* The invariant is inductive.                                             *)
(***************************************************************************)
LEMMA InvInit == IntegrationInit => Inv
<1> SUFFICES ASSUME IntegrationInit PROVE Inv
  OBVIOUS
<1>1. TypeInv /\ TypeOK
  BY TypeInit DEF IntegrationInit, TypeInv
<1>2. \A c \in Call : req[c].pc = "idle" /\ call[c].pc = "idle"
  BY IdleState DEF IntegrationInit, Init, Returned
<1>3. row \in Row /\ row.status = "ABSENT"
  BY DEF IntegrationInit, Row, AdapterType
<1>4. Typed
  BY <1>1, <1>3, IdleState DEF IntegrationInit, Typed, RequestsTyped
<1> QED
  BY <1>2, <1>3, <1>4
     DEF Inv, Alone, Held, Failing, Upserting, Earned, Accepted, Quiet, Gated, Stands, At

\* Every step of the requests and of the breaker under them keeps Inv.
LEMMA InvStep == Inv /\ [IntegrationNext]_allVars => Inv'
<1> SUFFICES ASSUME Inv, [IntegrationNext]_allVars PROVE Inv'
  OBVIOUS
<1>1. Typed'
  BY RequestsStep DEF Inv
<1>2. ASSUME NEW c \in Call, TestStep(c) PROVE Inv'
  BY <1>1, <1>2, MovingOn, Marking, Reporting, Calling, Judging DEF TestStep
<1>3. ASSUME NEW c \in Call, NEW adapter \in AdapterType, NEW enabled \in BOOLEAN,
             ConfigureRead(c, adapter, enabled)
      PROVE  Inv'
  BY <1>1, <1>3, ReadingConfiguration
<1>4. ASSUME NEW c \in Call, ConfigureUpsert(c) \/ TestRead(c) \/ Die(c) PROVE Inv'
  BY <1>1, <1>4, WritingConfiguration, ReadingTest, MovingOn
<1>5. CASE Progress
  BY <1>1, <1>5, Progressing
<1>6. CASE Restart
  BY <1>1, <1>6, Restarting
<1>7. CASE UNCHANGED allVars
  BY <1>1, <1>7
     DEF allVars, vars, requestVars, Inv, Alone, Held, Failing, Upserting, Earned, Accepted,
         Quiet, Open, Stands, At
<1> QED
  BY <1>2, <1>3, <1>4, <1>5, <1>6, <1>7 DEF IntegrationNext

\* Inv holds through every request, death and restart: the strengthening of the two theorems below.
THEOREM Invariant == IntegrationSpec => []Inv
BY InvInit, InvStep, PTL DEF IntegrationSpec

-----------------------------------------------------------------------------
(***************************************************************************)
(* In every behaviour each variable has its type: the breaker, embedded in *)
(* requests that die and a process that restarts, keeps the types that it  *)
(* has alone.                                                              *)
(***************************************************************************)
THEOREM RequestsTypeCorrect == IntegrationSpec => []RequestsTyped
<1>1. Inv => RequestsTyped
  BY DEF Inv, Typed
<1> QED
  BY <1>1, Invariant, PTL

(***************************************************************************)
(* The status in the row can be believed, however many tests and           *)
(* configurations run together, die half way or are cut off by a restart.  *)
(***************************************************************************)
THEOREM StatusEarned == IntegrationSpec => []StatusIsEarned
<1>1. Inv => StatusIsEarned
  BY DEF Inv, Held, Earned, StatusIsEarned, Underway, Testing
<1> QED
  BY <1>1, Invariant, PTL

(***************************************************************************)
(* No adapter is called, or called again, for an integration that is       *)
(* disabled, unconfigured or of another environment.                       *)
(***************************************************************************)
THEOREM DisabledStaysQuiet == IntegrationSpec => []DisabledIsQuiet
<1>1. Inv => DisabledIsQuiet
  BY DEF Inv, Quiet, Open, DisabledIsQuiet, Stands, Gated
<1> QED
  BY <1>1, Invariant, PTL
================================================================================
