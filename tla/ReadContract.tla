----------------------------- MODULE ReadContract -----------------------------
(***************************************************************************)
(* What a read of the Stock Management adapter promises (apps/api/src/     *)
(* integration/adapter/stock-management/stockManagementAdapter.ts:88, "a   *)
(* single bounded re-auth on 401, never unlimited retries"; auth.ts:60):   *)
(* it presents at most two credentials, the second only after the first    *)
(* was refused, and a login's token that was refused is not presented      *)
(* again.                                                                  *)
(***************************************************************************)
EXTENDS Naturals, Sequences

CONSTANT
    Renewable(_)   \* a login's token: a fresh one can be had

VARIABLES
    open,          \* the read is in progress
    presented,     \* the credentials it has presented, in order
    refused        \* upstream refused the last one

contractVars == <<open, presented, refused>>

Closed == ~open /\ presented = <<>> /\ ~refused

Open ==
    /\ ~open
    /\ open'
    /\ Len(presented') <= 1
    /\ ~refused'

\* The one presented last, after nothing or after a refusal.
Present ==
    /\ open
    /\ Len(presented') = Len(presented) + 1
    /\ presented' = Append(presented, presented'[Len(presented')])
    /\ \/ presented = <<>>
       \/ /\ Len(presented) = 1 /\ refused
          /\ Renewable(presented'[2]) => presented'[2] # presented[1]
    /\ ~refused'
    /\ UNCHANGED open

Refuse ==
    /\ open /\ presented # <<>> /\ ~refused
    /\ refused'
    /\ UNCHANGED <<open, presented>>

Close ==
    /\ open
    /\ Closed'

ContractNext == Open \/ Present \/ Refuse \/ Close

ContractSpec == Closed /\ [][ContractNext]_contractVars
=============================================================================
