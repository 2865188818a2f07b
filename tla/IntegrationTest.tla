--------------------------- MODULE IntegrationTest ---------------------------
(***************************************************************************)
(* One ApplicationIntegration row, the requests that configure it and the  *)
(* requests that test it (apps/api/src/integration/integration.service.ts).*)
(* A request is a process: one action per database call, and the adapter   *)
(* call goes through the breaker, retry and timeout of ResilientCall, one  *)
(* caller of which is one request.                                         *)
(***************************************************************************)
EXTENDS ResilientCall

VARIABLES
    row,        \* the row: connectionStatus, adapterType, enabled, environment
    req,        \* req[c]: where request c stands, and what it will write
    validated,  \* history: the adapter accepted since one was configured
    overlapped, \* history: a configuration ran together with another request
    interrupted \* history: a request died half way

requestVars == <<row, req, validated, overlapped, interrupted>>

allVars == <<vars, requestVars>>

\* "none" is null, "mock" stands for the types that have an adapter in the
\* registry, "http" for those that have none.
AdapterType == {"none", "mock", "http"}

Registered(type) == type = "mock"

ConnectionStatus ==
    {"NOT_CONFIGURED", "CONFIGURED", "TESTING", "CONNECTED", "DEGRADED",
     "DISCONNECTED", "NOT_APPLICABLE"}

LiveStatus == {"TESTING", "CONNECTED", "DEGRADED", "DISCONNECTED"}

\* Before the first configuration there is no row; local says whether the
\* row's environment is the server's runtime environment.
Row ==
    [status: ConnectionStatus \cup {"ABSENT"}, adapter: AdapterType,
     enabled: BOOLEAN, local: BOOLEAN]

Testing == {"start", "resolve", "exec", "wait", "connect", "succeeded", "fail"}

\* status, adapter and enabled are what the request will write.
RequestState ==
    [pc: Testing \cup {"idle", "upsert"}, status: ConnectionStatus,
     adapter: AdapterType, enabled: BOOLEAN]

Holding(pc, status, adapter, enabled) ==
    [pc |-> pc, status |-> status, adapter |-> adapter, enabled |-> enabled]

\* A test writes nothing but the status.
TestAt(pc, status) == Holding(pc, status, "none", FALSE)

Idle == TestAt("idle", "NOT_CONFIGURED")

RequestsTyped ==
    /\ TypeOK
    /\ row \in Row
    /\ req \in [Call -> RequestState]
    /\ <<validated, overlapped, interrupted>> \in BOOLEAN \X BOOLEAN \X BOOLEAN

Stands(c, pc) == req[c].pc = pc

Put(c, q) == req' = [req EXCEPT ![c] = q]

Busy == {c \in Call : ~Stands(c, "idle")}

-----------------------------------------------------------------------------
(* configureIntegration *)

\* Mutant: a live status survives the removal of the adapter.
DerivedKeepsLive(status, adapter) ==
    IF status \in LiveStatus THEN status
    ELSE IF adapter = "none" THEN "NOT_CONFIGURED"
    ELSE "CONFIGURED"

\* The status derived from the configuration and the status that was read.
Derived(status, adapter) ==
    IF adapter = "none" THEN "NOT_CONFIGURED"
    ELSE IF status \in LiveStatus THEN status
    ELSE "CONFIGURED"

(* The row is read; a field that the input leaves out keeps its value. *)
ConfigureRead(c, adapter, enabled) ==
    /\ Stands(c, "idle")
    /\ Put(c, Holding("upsert", Derived(row.status, adapter), adapter, enabled))
    /\ overlapped' = (overlapped \/ Busy # {})
    /\ UNCHANGED <<vars, row, validated, interrupted>>

(* ... and written back later, status included. *)
ConfigureUpsert(c) ==
    /\ Stands(c, "upsert")
    /\ row' = [row EXCEPT !.status = req[c].status, !.adapter = req[c].adapter,
                          !.enabled = req[c].enabled]
    /\ validated' = (validated /\ req[c].adapter # "none")
    /\ Put(c, Idle)
    /\ UNCHANGED <<vars, overlapped, interrupted>>

-----------------------------------------------------------------------------
(* testConnection *)

MapConnectionStatusForError(code) ==
    CASE code = "NOT_SUPPORTED" -> "NOT_APPLICABLE"
      [] code \in {"TIMEOUT", "NETWORK", "CIRCUIT_OPEN"} -> "DEGRADED"
      [] OTHER -> "DISCONNECTED"

\* Mutant: no kill switch.
TestReadAnyway(c) ==
    /\ Stands(c, "idle")
    /\ row.status # "ABSENT"
    /\ Put(c,
         CASE ~row.local -> TestAt("fail", "DISCONNECTED")
           [] row.local /\ ~Registered(row.adapter)
                -> TestAt("fail", "NOT_APPLICABLE")
           [] OTHER -> TestAt("start", "TESTING"))
    /\ overlapped' = (overlapped \/ \E d \in Call : Stands(d, "upsert"))
    /\ UNCHANGED <<vars, row, validated, interrupted>>

(* The gates, on the row as it was read; the adapter is chosen here. *)
TestRead(c) ==
    /\ Stands(c, "idle")
    /\ row.status # "ABSENT"
    /\ Put(c,
         CASE ~row.local -> TestAt("fail", "DISCONNECTED")
           [] row.local /\ ~row.enabled -> TestAt("fail", "CONFIGURED")
           [] row.local /\ row.enabled /\ ~Registered(row.adapter)
                -> TestAt("fail", "NOT_APPLICABLE")
           [] OTHER -> TestAt("start", "TESTING"))
    /\ overlapped' = (overlapped \/ \E d \in Call : Stands(d, "upsert"))
    /\ UNCHANGED <<vars, row, validated, interrupted>>

SetTesting(c) ==
    /\ Stands(c, "start")
    /\ row' = [row EXCEPT !.status = "TESTING"]
    /\ Put(c, TestAt("resolve", "TESTING"))
    /\ UNCHANGED <<vars, validated, overlapped, interrupted>>

(* Every credential resolves and the base URL is allowed ... *)
Resolve(c) ==
    /\ Stands(c, "resolve")
    /\ Put(c, TestAt("exec", "TESTING"))
    /\ UNCHANGED <<vars, row, validated, overlapped, interrupted>>

(* ... or not: revoked, missing or foreign credential, blocked URL; a      *)
(* provider that is not implemented; a database call that rejects.         *)
ResolveFails(c, code) ==
    /\ Stands(c, "resolve")
    /\ Put(c, TestAt("fail", MapConnectionStatusForError(code)))
    /\ UNCHANGED <<vars, row, validated, overlapped, interrupted>>

(* breaker.exec, which may refuse at once. *)
Exec(c) ==
    /\ Stands(c, "exec")
    /\ Start(c) \/ ShortCircuit(c)
    /\ Put(c, TestAt("wait", "TESTING"))
    /\ UNCHANGED <<row, validated, overlapped, interrupted>>

(* The steps of a call in progress, and the clock. *)
Progress ==
    /\ \/ Elapse
       \/ \E c \in Call : Abort(c) \/ NextAttempt(c) \/ Hang(c) \/ Settle(c)
    /\ validated' = (validated \/ \E c \in Call : Succeed(c))
    /\ UNCHANGED <<row, req, overlapped, interrupted>>

\* Mutant: CIRCUIT_OPEN is rethrown to the client.
VerdictThrows(c) ==
    /\ Stands(c, "wait")
    /\ At(c, "idle")
    /\ Put(c, CASE call[c].result = "ok" -> TestAt("connect", "CONNECTED")
               [] call[c].result = "CIRCUIT_OPEN" -> Idle
               [] OTHER -> TestAt("fail", MapConnectionStatusForError(call[c].result)))
    /\ Become(c, Returned("none"))
    /\ UNCHANGED <<state, failures, age>>
    /\ UNCHANGED <<row, validated, overlapped, interrupted>>

(* exec has returned or thrown. *)
Verdict(c) ==
    /\ Stands(c, "wait")
    /\ At(c, "idle")
    /\ Put(c, IF call[c].result = "ok"
                THEN TestAt("connect", "CONNECTED")
                ELSE TestAt("fail", MapConnectionStatusForError(call[c].result)))
    /\ Become(c, Returned("none"))
    /\ UNCHANGED <<state, failures, age>>
    /\ UNCHANGED <<row, validated, overlapped, interrupted>>

WriteConnected(c) ==
    /\ Stands(c, "connect")
    /\ row' = [row EXCEPT !.status = "CONNECTED"]
    /\ Put(c, TestAt("succeeded", "CONNECTED"))
    /\ UNCHANGED <<vars, validated, overlapped, interrupted>>

(* The success event is recorded and the request answers. *)
Answer(c) ==
    /\ Stands(c, "succeeded")
    /\ Put(c, Idle)
    /\ UNCHANGED <<vars, row, validated, overlapped, interrupted>>

(* A database call of the try block rejects, maybe after CONNECTED was     *)
(* written: the catch takes it for a NETWORK failure of the test.          *)
CatchError(c) ==
    /\ Stands(c, "connect") \/ Stands(c, "succeeded")
    /\ Put(c, TestAt("fail", MapConnectionStatusForError("NETWORK")))
    /\ UNCHANGED <<vars, row, validated, overlapped, interrupted>>

(* fail: the status is set whatever it is by now. *)
Fail(c) ==
    /\ Stands(c, "fail")
    /\ row' = [row EXCEPT !.status = req[c].status]
    /\ Put(c, Idle)
    /\ UNCHANGED <<vars, validated, overlapped, interrupted>>

-----------------------------------------------------------------------------
(* A database call outside the try block rejects: the request is over. *)
Die(c) ==
    /\ req[c].pc \in {"upsert", "start", "resolve", "fail"}
    /\ Put(c, Idle)
    /\ interrupted' = TRUE
    /\ UNCHANGED <<vars, row, validated, overlapped>>

(* The process restarts: requests and breakers are gone, the row is not. *)
Restart ==
    /\ Busy # {}
    /\ req' = [c \in Call |-> Idle]
    /\ state' = "CLOSED"
    /\ failures' = 0
    /\ age' = 0
    /\ call' = [c \in Call |-> Returned("none")]
    /\ interrupted' = TRUE
    /\ UNCHANGED <<row, validated, overlapped>>

IntegrationInit ==
    /\ Init
    /\ row \in [status: {"ABSENT"}, adapter: {"none"}, enabled: {FALSE},
               local: BOOLEAN]
    /\ req = [c \in Call |-> Idle]
    /\ validated = FALSE
    /\ overlapped = FALSE
    /\ interrupted = FALSE

TestStep(c) ==
    \/ SetTesting(c)
    \/ Resolve(c)
    \/ \E code \in {"CREDENTIAL_REVOKED", "NOT_SUPPORTED", "NETWORK"} :
          ResolveFails(c, code)
    \/ Exec(c)
    \/ Verdict(c)
    \/ WriteConnected(c)
    \/ Answer(c)
    \/ CatchError(c)
    \/ Fail(c)

IntegrationNext ==
    \/ \E c \in Call :
        \/ \E adapter \in AdapterType, enabled \in BOOLEAN :
              ConfigureRead(c, adapter, enabled)
        \/ ConfigureUpsert(c)
        \/ TestRead(c)
        \/ TestStep(c)
        \/ Die(c)
    \/ Progress
    \/ Restart

IntegrationSpec == IntegrationInit /\ [][IntegrationNext]_allVars

(***************************************************************************)
(* A request whose database call or timer is due goes on, and an attempt   *)
(* that does not hang settles after its time is up (ResilientCall's        *)
(* Fairness says why).  Nobody has to test or configure.                   *)
(***************************************************************************)
IntegrationFairness ==
    \A c \in Call :
        /\ WF_allVars(TestStep(c))
        /\ WF_allVars(Progress /\ Abort(c))
        /\ WF_allVars(Progress /\ call[c].aborted /\ Settle(c))
        /\ WF_allVars(Progress /\ NextAttempt(c))

FairIntegrationSpec == IntegrationSpec /\ IntegrationFairness
-----------------------------------------------------------------------------
(* Properties *)

(***************************************************************************)
(* An integration that is disabled, has no registered adapter or belongs   *)
(* to another environment has no adapter call in progress, first attempt   *)
(* or retry, unless (but for the environment) a configuration overlapped.  *)
(***************************************************************************)
DisabledIsQuiet ==
    (\E c \in Call : ~At(c, "idle")) =>
        /\ row.local
        /\ (row.enabled /\ Registered(row.adapter)) \/ overlapped
(***************************************************************************)
(* The status in the row can be believed.  TESTING stands for a test in    *)
(* progress, however many overlap, unless a request died half way or a     *)
(* configuration wrote an old status back.  CONNECTED was earned: an       *)
(* adapter accepted the connection after the last configuration that had   *)
(* removed it, unless a configuration overlapped another request.          *)
(***************************************************************************)
StatusIsEarned ==
    /\ row.status = "TESTING" =>
          \/ \E c \in Call : req[c].pc \in Testing \ {"start"}
          \/ interrupted
          \/ overlapped
    /\ row.status = "CONNECTED" => validated \/ overlapped

(***************************************************************************)
(* A test ends: TESTING is left, unless a request died half way, a         *)
(* configuration wrote an old status back or an attempt hangs.             *)
(***************************************************************************)
TestingEnds ==
    row.status = "TESTING" ~>
        \/ row.status # "TESTING"
        \/ interrupted
        \/ overlapped
        \/ \E c \in Call : At(c, "hung")
=============================================================================
