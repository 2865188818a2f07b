---------------------------- MODULE ResilientCall ----------------------------
(***************************************************************************)
(* What the Integration Layer wraps around every adapter call: a circuit   *)
(* breaker, inside it the retries, inside each attempt the timeout         *)
(* (apps/api/src/integration/policies.ts, composed by testConnection in    *)
(* integration.service.ts).  One breaker serves one integration; any       *)
(* number of calls may run through it at the same time, because the        *)
(* breaker's state is looked at before the adapter is awaited and written  *)
(* after it.                                                               *)
(*                                                                         *)
(* The code compares now() - openedAt with resetTimeoutMs and failures     *)
(* with failureThreshold, and nothing else, so both are counted up to      *)
(* that limit; this loses no behaviour and bounds nothing.                 *)
(***************************************************************************)
EXTENDS Naturals

CONSTANTS
    Call,               \* the callers of exec
    FailureThreshold,   \* CircuitBreakerOptions.failureThreshold
    ResetTimeout,       \* CircuitBreakerOptions.resetTimeoutMs, in clock steps
    Retries             \* RetryOptions.retries

VARIABLES
    state,      \* CircuitBreaker.state
    failures,   \* CircuitBreaker.failures, up to FailureThreshold
    age,        \* time since openedAt while OPEN, up to ResetTimeout
    call        \* call[c]: where call c stands in exec

vars == <<state, failures, age, call>>

ASSUME OptionsAssumption ==
    /\ FailureThreshold \in Nat \ {0}
    /\ ResetTimeout \in Nat
    /\ Retries \in Nat

\* How an attempt may fail: one error that is worth retrying, one that is not.
AdapterError == {"NETWORK", "UNAUTHORIZED"}

Retryable(e) == e \in {"NETWORK", "TIMEOUT"}

\* What exec gave its caller last; "none" before the first call returns.
Result == {"none", "ok", "TIMEOUT", "CIRCUIT_OPEN"} \cup AdapterError

(***************************************************************************)
(* A running call is in its attempt-th retry; aborted says that the timer  *)
(* of this attempt has fired; a hung one awaits an attempt that will never *)
(* settle.  trial is history: the call passed the breaker when it was not  *)
(* CLOSED.                                                                 *)
(***************************************************************************)
CallState ==
    [pc: {"idle", "running", "hung", "backoff"}, attempt: 0..Retries,
     aborted: BOOLEAN, trial: BOOLEAN, result: Result]

Running(n, trial) ==
    [pc |-> "running", attempt |-> n, aborted |-> FALSE, trial |-> trial,
     result |-> "none"]

\* How far a hung call had come makes no difference any more.
Hung(trial) == [Running(0, trial) EXCEPT !.pc = "hung"]

Returned(result) ==
    [pc |-> "idle", attempt |-> 0, aborted |-> FALSE, trial |-> FALSE,
     result |-> result]

(***************************************************************************)
(* The types, of which one is no formality: no call is ever in an attempt  *)
(* past its retry budget, the first one and retries more.                  *)
(***************************************************************************)
TypeOK ==
    /\ state \in {"CLOSED", "OPEN", "HALF_OPEN"}
    /\ failures \in 0..FailureThreshold
    /\ age \in 0..ResetTimeout
    /\ call \in [Call -> CallState]

-----------------------------------------------------------------------------
At(c, pc) == call[c].pc = pc

Become(c, new) == call' = [call EXCEPT ![c] = new]

Blocked == state = "OPEN" /\ age < ResetTimeout

\* Mutant: a success closes the breaker but does not clear the count.
OnSuccessKeepsCount ==
    /\ state' = "CLOSED"
    /\ UNCHANGED <<failures, age>>

OnSuccess ==
    /\ failures' = 0
    /\ state' = "CLOSED"
    /\ UNCHANGED age

\* The count after one more failure.
NextCount == IF failures < FailureThreshold THEN failures + 1 ELSE failures

OnFailure ==
    /\ failures' = NextCount
    /\ IF state = "HALF_OPEN" \/ NextCount = FailureThreshold
         THEN state' = "OPEN" /\ age' = 0
         ELSE UNCHANGED <<state, age>>

\* Mutant: a refused call counts as a failure.
ShortCircuitCounts(c) ==
    /\ At(c, "idle")
    /\ Blocked
    /\ OnFailure
    /\ Become(c, Returned("CIRCUIT_OPEN"))

(* CircuitBreaker.exec while the breaker is OPEN: CIRCUIT_OPEN at once. *)
ShortCircuit(c) ==
    /\ At(c, "idle")
    /\ Blocked
    /\ Become(c, Returned("CIRCUIT_OPEN"))
    /\ UNCHANGED <<state, failures, age>>

(* exec lets the call through; in HALF_OPEN it does so unconditionally. *)
Start(c) ==
    /\ At(c, "idle")
    /\ ~Blocked
    /\ state' = IF state = "OPEN" THEN "HALF_OPEN" ELSE state
    /\ Become(c, Running(0, state # "CLOSED"))
    /\ UNCHANGED <<failures, age>>

(* The attempt's timer fires: the signal is aborted, the task goes on. *)
Abort(c) ==
    /\ At(c, "running")
    /\ ~call[c].aborted
    /\ Become(c, [call[c] EXCEPT !.aborted = TRUE])
    /\ UNCHANGED <<state, failures, age>>

(* The attempt never settles, timer or not: withTimeout awaits the task    *)
(* itself, the one registered adapter does not pass the signal on, and a   *)
(* response that is cut after its headers neither resolves nor rejects.    *)
Hang(c) ==
    /\ At(c, "running")
    /\ Become(c, Hung(call[c].trial))
    /\ UNCHANGED <<state, failures, age>>

(* The adapter resolves, in time or not: withTimeout returns its value. *)
Succeed(c) ==
    /\ At(c, "running")
    /\ OnSuccess
    /\ Become(c, Returned("ok"))

\* What withTimeout makes of an attempt that rejects with e.
Thrown(c, e) == IF call[c].aborted THEN "TIMEOUT" ELSE e

\* Mutant: one retry too many.
GivesUpLate(c, e) == ~Retryable(Thrown(c, e)) \/ call[c].attempt > Retries

GivesUp(c, e) == ~Retryable(Thrown(c, e)) \/ call[c].attempt = Retries

(* withRetry: the attempt rejects and the call sleeps before the next one; *)
(* the breaker is not told.                                                *)
Backoff(c, e) ==
    /\ At(c, "running")
    /\ ~GivesUp(c, e)
    /\ Become(c, [call[c] EXCEPT !.pc = "backoff"])
    /\ UNCHANGED <<state, failures, age>>

\* Mutant: the attempt is not counted.
NextAttemptForgets(c) ==
    /\ At(c, "backoff")
    /\ Become(c, Running(call[c].attempt, call[c].trial))
    /\ UNCHANGED <<state, failures, age>>

NextAttempt(c) ==
    /\ At(c, "backoff")
    /\ Become(c, Running(call[c].attempt + 1, call[c].trial))
    /\ UNCHANGED <<state, failures, age>>

(* withRetry rethrows, and exec counts one failure. *)
GiveUp(c, e) ==
    /\ At(c, "running")
    /\ GivesUp(c, e)
    /\ OnFailure
    /\ Become(c, Returned(Thrown(c, e)))

(* Time passes; only an OPEN breaker looks at the clock. *)
Elapse ==
    /\ Blocked
    /\ age' = age + 1
    /\ UNCHANGED <<state, failures, call>>

Init ==
    /\ state = "CLOSED"
    /\ failures = 0
    /\ age = 0
    /\ call = [c \in Call |-> Returned("none")]

Settle(c) == Succeed(c) \/ \E e \in AdapterError : Backoff(c, e) \/ GiveUp(c, e)

Next ==
    \/ \E c \in Call :
        \/ ShortCircuit(c)
        \/ Start(c)
        \/ Abort(c)
        \/ Hang(c)
        \/ Settle(c)
        \/ NextAttempt(c)
    \/ Elapse

Spec == Init /\ [][Next]_vars

(***************************************************************************)
(* The clock and the timers of the event loop do not stop.  An attempt     *)
(* that has not hung settles after its time is up, but not because of the  *)
(* signal: the stock adapter gives timeoutMs to SafeHttpClient, whose own  *)
(* timer of that length ends every request but one that has been cut       *)
(* (Hang); the mock adapter rejects on the signal, the noop at once.  No   *)
(* caller is assumed to try again.                                         *)
(***************************************************************************)
Fairness ==
    /\ WF_vars(Elapse)
    /\ \A c \in Call :
        /\ WF_vars(Abort(c))
        /\ WF_vars(call[c].aborted /\ Settle(c))
        /\ WF_vars(NextAttempt(c))

FairSpec == Spec /\ Fairness
-----------------------------------------------------------------------------
(* Properties *)

(***************************************************************************)
(* However late the verdicts of overlapping calls arrive, the breaker      *)
(* passes calls without a condition exactly while fewer than               *)
(* failureThreshold failures followed the last success: a late failure     *)
(* never leaves it closed over the threshold, a late success never leaves  *)
(* it open with a cleared count.                                           *)
(***************************************************************************)
ClosedBelowThreshold == state = "CLOSED" <=> failures < FailureThreshold

(***************************************************************************)
(* HALF_OPEN is never left behind: while the breaker waits for a trial's   *)
(* verdict, a call that passed as a trial is still in progress, hung or on *)
(* its way to give one.                                                    *)
(***************************************************************************)
HalfOpenHasTrial ==
    state = "HALF_OPEN" => \E c \in Call : ~At(c, "idle") /\ call[c].trial

(***************************************************************************)
(* The state that CircuitBreaker holds is explained by its failure count   *)
(* and by the calls in progress, however onSuccess and onFailure of        *)
(* overlapping calls interleave: both of the above.                        *)
(***************************************************************************)
StateIsEarned == ClosedBelowThreshold /\ HalfOpenHasTrial

(***************************************************************************)
(* An OPEN breaker does not stay closed to trials: resetTimeoutMs passes,  *)
(* although every late failure starts it again.                            *)
(***************************************************************************)
BecomesReady == state = "OPEN" ~> ~Blocked

(***************************************************************************)
(* Every call returns after finitely many attempts, unless one of them     *)
(* hangs.                                                                  *)
(***************************************************************************)
CallsReturn == \A c \in Call : ~At(c, "idle") ~> At(c, "idle") \/ At(c, "hung")

Contract == INSTANCE BreakerContract

(***************************************************************************)
(* Used by one caller at a time, the breaker keeps the promise of its      *)
(* comment, whatever the retries and timeouts inside the call do.          *)
(***************************************************************************)
KeepsContract == Contract!Spec

(***************************************************************************)
(* The comment at policies.ts:73-75: the breaker "then allows a single      *)
(* HALF_OPEN trial".                                                       *)
(***************************************************************************)
SingleTrial ==
    \A c, d \in Call :
        ~At(c, "idle") /\ call[c].trial /\ ~At(d, "idle") /\ call[d].trial => c = d
=============================================================================
