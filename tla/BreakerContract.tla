--------------------------- MODULE BreakerContract ---------------------------
(***************************************************************************)
(* What the comment on CircuitBreaker promises (policies.ts:72-76): after  *)
(* enough failures the breaker opens; it stays open until the reset        *)
(* timeout has elapsed; then one trial decides whether it closes or opens  *)
(* again.  Nothing is said of who calls, of retries or of timeouts.        *)
(***************************************************************************)
EXTENDS Naturals

CONSTANT ResetTimeout

VARIABLES
    state,  \* "CLOSED", "OPEN" or "HALF_OPEN"
    age     \* how long it has been OPEN, up to ResetTimeout

vars == <<state, age>>

Init == state = "CLOSED" /\ age = 0

Trip ==
    /\ state \in {"CLOSED", "HALF_OPEN"}
    /\ state' = "OPEN"
    /\ age' = 0

Wait ==
    /\ state = "OPEN"
    /\ age < ResetTimeout
    /\ age' = age + 1
    /\ UNCHANGED state

Try ==
    /\ state = "OPEN"
    /\ age = ResetTimeout
    /\ state' = "HALF_OPEN"
    /\ UNCHANGED age

Recover ==
    /\ state = "HALF_OPEN"
    /\ state' = "CLOSED"
    /\ UNCHANGED age

Next == Trip \/ Wait \/ Try \/ Recover

Spec == Init /\ [][Next]_vars
=============================================================================
