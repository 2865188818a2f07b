------------------------------ MODULE StockRead ------------------------------
(***************************************************************************)
(* Reads of the Stock Management adapter (apps/api/src/integration/        *)
(* adapter/stock-management): the authentication provider with its cached  *)
(* token and single-flight login (auth.ts), the loop that presents a       *)
(* credential and re-authenticates once (stockManagementAdapter.ts), every *)
(* request through SafeHttp.  A step runs from one await to the next.      *)
(***************************************************************************)
EXTENDS SafeHttp, FiniteSets

CONSTANTS
    Provider,      \* PasswordLoginAuthProvider objects
    Shared,        \* TRUE: reads may share one; FALSE: one per read
    BaseHost,      \* the host of the configured base URL
    MaxReads       \* bound: how many reads are begun

ASSUME StockAssumption == BaseHost \in Target /\ Shared \in BOOLEAN /\ MaxReads \in Nat

VARIABLES
    read,          \* read[r]: the adapter call of reader r
    provider,      \* provider[p]: token, whether its time is left, inflight
    granted,       \* tokens granted so far, the name of the last one
    begun          \* reads begun, bounded by MaxReads

stockVars == <<http, read, provider, granted, begun>>

Reader == Caller

\* What a request presents: nothing, the configured token, a login's token.
Anonymous == 0

StaticToken == 1

Token == 2..(1 + 2 * MaxReads)

Renewable(t) == t > StaticToken

\* A read chooses its provider by the credentials it was given;
\* without any, and in validateConnection's /health, nothing is presented.
Kind == {"none", "static", "password"}

Nobody == "nobody"

NoToken == 0

ReadState ==
    [pc: {"idle", "login", "await", "get"}, kind: Kind,
     provider: Provider \cup {Nobody}, attempt: 0..1,
     presented: UNION {[1..n -> {Anonymous, StaticToken} \cup Token] : n \in 0..2}]

ProviderState ==
    [token: {NoToken} \cup Token, current: BOOLEAN, inflight: Reader \cup {Nobody}]

\* The read returned data or threw: errorForStatus(status), a login error,
\* MALFORMED_RESPONSE, or what the HTTP client threw.
Finished ==
    [pc |-> "idle", kind |-> "none", provider |-> Nobody, attempt |-> 0,
     presented |-> <<>>]

NewProvider == [token |-> NoToken, current |-> FALSE, inflight |-> Nobody]

StockInit ==
    /\ HttpInit
    /\ read = [r \in Reader |-> Finished]
    /\ provider = [p \in Provider |-> NewProvider]
    /\ granted = 0
    /\ begun = 0

ReadAt(r, pc) == read[r].pc = pc

-----------------------------------------------------------------------------
(* The provider *)

OnUnauthorized(provs, p) ==
    [provs EXCEPT ![p].token = NoToken, ![p].current = FALSE]

Sends(q, token) == [q EXCEPT !.pc = "get", !.presented = Append(q.presented, token)]

PresentAtOnce(r, q, token) ==
    /\ read' = [read EXCEPT ![r] = Sends(q, token)]
    /\ Becomes(r, Issued(BaseHost))

(* The cached token, the login in flight, or a login of its own. *)
GetAccessToken(r, q, provs) ==
    LET p == q.provider
    IN  \/ /\ provs[p].token # NoToken /\ provs[p].current
           /\ PresentAtOnce(r, q, provs[p].token)
           /\ provider' = provs
        \/ /\ ~(provs[p].token # NoToken /\ provs[p].current)
           /\ provs[p].inflight # Nobody
           /\ read' = [read EXCEPT ![r] = [q EXCEPT !.pc = "await"]]
           /\ provider' = provs
           /\ UNCHANGED http
        \/ /\ ~(provs[p].token # NoToken /\ provs[p].current)
           /\ provs[p].inflight = Nobody
           /\ read' = [read EXCEPT ![r] = [q EXCEPT !.pc = "login"]]
           /\ provider' = [provs EXCEPT ![p].inflight = r]
           /\ Becomes(r, Issued(BaseHost))

(* One turn of the loop in get(). *)
Attempt(r, q, provs) ==
    IF q.kind = "password"
      THEN GetAccessToken(r, q, provs)
      ELSE /\ PresentAtOnce(r, q, IF q.kind = "static" THEN StaticToken ELSE Anonymous)
           /\ provider' = provs

Callers(p) == {r \in Reader : read[r].pc \in {"login", "await"} /\ read[r].provider = p}

(* The login's answer: inflight is cleared either way, and everyone who    *)
(* waited goes on with the token or fails with the login's error.          *)
LoginSettles(r) ==
    LET p == read[r].provider
        out == http[r].result
    IN  /\ ReadAt(r, "login") /\ HttpAt(r, "idle")
        /\ IF out = "ok"
             THEN /\ granted' = granted + 1
                  /\ provider' = [provider EXCEPT ![p] =
                         [token |-> granted + 2, current |-> TRUE, inflight |-> Nobody]]
                  /\ read' = [s \in Reader |->
                         IF s \in Callers(p) THEN Sends(read[s], granted + 2) ELSE read[s]]
                  /\ http' = [s \in Reader |->
                         IF s \in Callers(p) THEN Issued(BaseHost) ELSE http[s]]
             ELSE /\ provider' = [provider EXCEPT ![p].inflight = Nobody]
                  /\ read' = [s \in Reader |->
                         IF s \in Callers(p) THEN Finished ELSE read[s]]
                  /\ Becomes(r, Settled("none"))
                  /\ UNCHANGED granted
        /\ UNCHANGED begun

(* The time of the cached token has run out. *)
Expire(p) ==
    /\ provider[p].current
    /\ provider' = [provider EXCEPT ![p].current = FALSE]
    /\ UNCHANGED <<http, read, granted, begun>>

-----------------------------------------------------------------------------
(* The adapter *)

Starting(kind, p) ==
    [pc |-> "get", kind |-> kind, provider |-> p, attempt |-> 0,
     presented |-> <<>>]

(* getStatistics, getUsers, getApplicationInfo and validateConnection. *)
Begin(r, kind, p) ==
    /\ ReadAt(r, "idle") /\ begun < MaxReads
    /\ (kind = "password") = (p # Nobody)
    /\ p # Nobody /\ ~Shared => \A s \in Reader : read[s].provider # p
    /\ Attempt(r, Starting(kind, p),
               IF p = Nobody \/ Shared THEN provider
                 ELSE [provider EXCEPT ![p] = NewProvider])
    /\ begun' = begun + 1
    /\ UNCHANGED granted

RenewsOnce(r) ==
    http[r].result = "401" /\ read[r].attempt = 0 /\ read[r].kind \in {"static", "password"}

\* Mutant: the attempt is not counted.
RenewAgain(r) ==
    /\ ReadAt(r, "get") /\ HttpAt(r, "idle") /\ RenewsOnce(r)
    /\ Attempt(r, read[r],
               IF read[r].kind = "password"
                 THEN OnUnauthorized(provider, read[r].provider) ELSE provider)
    /\ UNCHANGED <<granted, begun>>

(* The first 401: the provider forgets its token, whoever obtained it, and *)
(* the loop goes round once more.                                          *)
Renew(r) ==
    /\ ReadAt(r, "get") /\ HttpAt(r, "idle") /\ RenewsOnce(r)
    /\ Attempt(r, [read[r] EXCEPT !.attempt = 1],
               IF read[r].kind = "password"
                 THEN OnUnauthorized(provider, read[r].provider) ELSE provider)
    /\ UNCHANGED <<granted, begun>>

Finish(r) ==
    /\ ReadAt(r, "get") /\ HttpAt(r, "idle") /\ ~RenewsOnce(r)
    /\ read' = [read EXCEPT ![r] = Finished]
    /\ Becomes(r, Settled("none"))
    /\ UNCHANGED <<provider, granted, begun>>

Unheard == UNCHANGED <<read, provider, granted, begun>>

Outbound(r) == HttpStep(r) /\ Unheard

StockNext ==
    \/ \E r \in Reader :
        \/ \E kind \in Kind, p \in Provider \cup {Nobody} : Begin(r, kind, p)
        \/ LoginSettles(r)
        \/ Renew(r)
        \/ Finish(r)
        \/ Outbound(r)
    \/ \E p \in Provider : Expire(p)

StockSpec == StockInit /\ [][StockNext]_stockVars

MovesOn(r) ==
    \/ LoginSettles(r) \/ Renew(r) \/ Finish(r)
    \/ (Timer(r) \/ AbortTransport(r) \/ ResolverAnswers(r)) /\ Unheard

(***************************************************************************)
(* Timers fire, a resolver answers in the end, an aborted transport        *)
(* rejects, and a continuation that is due runs: a read that one of these  *)
(* can move on is moved on.  Upstream may stay silent.                     *)
(***************************************************************************)
StockFairness ==
    \A r \in Reader : WF_stockVars(MovesOn(r))

FairStockSpec == StockSpec /\ StockFairness
-----------------------------------------------------------------------------
(* Properties *)

StockTypeOK ==
    /\ http \in [Caller -> HttpState]
    /\ read \in [Reader -> ReadState]
    /\ provider \in [Provider -> ProviderState]
    /\ granted \in 0..(2 * MaxReads)
    /\ begun \in 0..MaxReads

(***************************************************************************)
(* The adapter implements ReadContract: at most two credentials per read,  *)
(* the second after a refusal and, from a login, another one.              *)
(***************************************************************************)
ReadPromise(r) == INSTANCE ReadContract WITH
    Renewable <- Renewable,
    open <- ~ReadAt(r, "idle"),
    presented <- read[r].presented,
    refused <- /\ read[r].presented # <<>>
               /\ \/ ReadAt(r, "get") /\ http[r].result = "401"
                  \/ Len(read[r].presented) = read[r].attempt

RereadsAreBounded ==
    /\ \A r \in Reader : ReadPromise(r)!Closed
    /\ [][\A r \in Reader :
              ReadPromise(r)!ContractNext \/ UNCHANGED ReadPromise(r)!contractVars]_stockVars

(***************************************************************************)
(* Every read ends, or a body was cut off (see Cut) in its own request or  *)
(* in the login it waits for.                                              *)
(***************************************************************************)
ReadEnds ==
    \A r \in Reader : ~ReadAt(r, "idle") ~> ReadAt(r, "idle") \/ \E c \in Caller : HttpAt(c, "cut")
=============================================================================
