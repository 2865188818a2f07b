---------------------------- MODULE KeycloakClient ----------------------------
(***************************************************************************)
(* kcRequest (apps/api/src/modules/identity/keycloakAdmin.client.ts): the  *)
(* service account's token is cached and fetched by whoever finds none, a  *)
(* 401 drops it and the request, POST included, is sent once more.  The    *)
(* timer of a fetch is cleared when the headers are there: the body that   *)
(* follows is read for as long as it takes.                                *)
(*                                                                         *)
(* The provider is outside: it performs a request whose token it accepts,  *)
(* and answers any status; what it cannot be reached for it may yet do.    *)
(***************************************************************************)
EXTENDS Naturals, Sequences

CONSTANTS
    KcCaller,      \* requests that may be in progress at the same time
    MaxGrants      \* bound: how many tokens are granted

ASSUME GrantsAssumption == MaxGrants \in Nat

VARIABLES
    kc,            \* kc[r]: where request r stands, the tokens it presented
    cachedToken,   \* the cached token; fresh: more than 15 s are left of it
    accepted,      \* the tokens that the provider still accepts
    kcGranted,     \* tokens granted so far, the name of the last one
    done           \* history: done[r], how often r's present request took effect

kcVars == <<kc, cachedToken, accepted, kcGranted, done>>

KcToken == 1..MaxGrants

\* Statuses of the provider: "4xx" is 404 or 409, "bad" any other error.
KcStatus == {"ok", "401", "4xx", "bad"}

\* KeycloakAdminError and AppError: what the client of the API is answered.
Answer == {"none", "200", "401", "4xx", "5xx"}

UpstreamAnswer(status) == IF status = "4xx" THEN "4xx" ELSE "5xx"

KcState ==
    [pc: {"idle", "grant", "token", "sent", "body"},
     granted: 0..MaxGrants, presented: UNION {[1..n -> KcToken] : n \in 0..2},
     status: KcStatus, answer: Answer]

KcOver(answer) ==
    [pc |-> "idle", granted |-> 0, presented |-> <<>>, status |-> "ok", answer |-> answer]

NoCache == [value |-> 0, fresh |-> FALSE]

KcInit ==
    /\ kc = [r \in KcCaller |-> KcOver("none")]
    /\ cachedToken = NoCache
    /\ accepted = {}
    /\ kcGranted = 0
    /\ done = [r \in KcCaller |-> 0]

KcAt(r, pc) == kc[r].pc = pc

KcBecomes(r, q) == kc' = [kc EXCEPT ![r] = q]

Sending(q, token) == [q EXCEPT !.pc = "sent", !.presented = Append(q.presented, token)]

\* getAccessToken, and the send that follows it.
SendAuthorized(r, q, cache) ==
    KcBecomes(r, IF cache.fresh THEN Sending(q, cache.value) ELSE [q EXCEPT !.pc = "grant"])

KcBegin(r) ==
    /\ KcAt(r, "idle")
    /\ SendAuthorized(r, KcOver("none"), cachedToken)
    /\ done' = [done EXCEPT ![r] = 0]
    /\ UNCHANGED <<cachedToken, accepted, kcGranted>>

(* The token endpoint answers with an error, or grants. *)
GrantRefused(r, status) ==
    /\ KcAt(r, "grant") /\ status # "ok"
    /\ KcBecomes(r, KcOver(UpstreamAnswer(status)))
    /\ UNCHANGED <<cachedToken, accepted, kcGranted, done>>

Grant(r) ==
    /\ KcAt(r, "grant") /\ kcGranted < MaxGrants
    /\ kcGranted' = kcGranted + 1
    /\ accepted' = accepted \cup {kcGranted + 1}
    /\ KcBecomes(r, [kc[r] EXCEPT !.pc = "token", !.granted = kcGranted + 1])
    /\ UNCHANGED <<cachedToken, done>>

(* Its body has been read.  Whoever is last decides what stays cached. *)
CacheToken(r) ==
    /\ KcAt(r, "token")
    /\ cachedToken' = [value |-> kc[r].granted, fresh |-> TRUE]
    /\ KcBecomes(r, Sending(kc[r], kc[r].granted))
    /\ UNCHANGED <<accepted, kcGranted, done>>

(* The provider performs the request or refuses its token; the headers of  *)
(* its answer are there.                                                   *)
Perform(r, status, effect) ==
    /\ KcAt(r, "sent")
    /\ LET taken == kc[r].presented[Len(kc[r].presented)] \in accepted
       IN  (status = "401") = ~taken /\ (effect = 1 => taken)
    /\ status = "ok" => effect = 1
    /\ done' = [done EXCEPT ![r] = done[r] + effect]
    /\ KcBecomes(r, [kc[r] EXCEPT !.pc = "body", !.status = status])
    /\ UNCHANGED <<cachedToken, accepted, kcGranted>>

Refused(r) == KcAt(r, "body") /\ kc[r].status = "401"

(* The first 401: no one's token is cached any more, and once more. *)
Refresh(r) ==
    /\ Refused(r) /\ Len(kc[r].presented) = 1
    /\ cachedToken' = NoCache
    /\ SendAuthorized(r, kc[r], NoCache)
    /\ UNCHANGED <<accepted, kcGranted, done>>

(* The body has been read: data, the error that goes with the status, or   *)
(* a body that is no JSON, which comes too late to undo anything.          *)
BodyRead(r, parsed) ==
    /\ KcAt(r, "body") /\ ~(Refused(r) /\ Len(kc[r].presented) = 1)
    /\ KcBecomes(r, KcOver(IF kc[r].status # "ok" THEN UpstreamAnswer(kc[r].status)
                           ELSE IF parsed THEN "200"
                           ELSE "5xx"))
    /\ UNCHANGED <<cachedToken, accepted, kcGranted, done>>

\* Mutant: what did not answer in time is sent again.
TimeoutSendsAgain(r, effect) ==
    /\ (KcAt(r, "grant") /\ effect = 0) \/ KcAt(r, "sent")
    /\ done' = [done EXCEPT ![r] = done[r] + effect]
    /\ UNCHANGED <<kc, cachedToken, accepted, kcGranted>>

(* No headers in time, or no connection: the request may take effect.      *)
Unreachable(r, effect) ==
    /\ (KcAt(r, "grant") /\ effect = 0) \/ KcAt(r, "sent")
    /\ effect = 1 => kc[r].presented[Len(kc[r].presented)] \in accepted
    /\ done' = [done EXCEPT ![r] = done[r] + effect]
    /\ KcBecomes(r, KcOver("5xx"))
    /\ UNCHANGED <<cachedToken, accepted, kcGranted>>

TokenExpires ==
    /\ cachedToken' = [cachedToken EXCEPT !.fresh = FALSE]
    /\ UNCHANGED <<kc, accepted, kcGranted, done>>

(* The provider revokes, rotates its keys or restarts. *)
TokenRevoked(token) ==
    /\ accepted' = accepted \ {token}
    /\ UNCHANGED <<kc, cachedToken, kcGranted, done>>

KcStep(r) ==
    \/ KcBegin(r)
    \/ \E status \in KcStatus : GrantRefused(r, status)
    \/ Grant(r)
    \/ CacheToken(r)
    \/ \E status \in KcStatus, effect \in {0, 1} : Perform(r, status, effect)
    \/ Refresh(r)
    \/ \E parsed \in BOOLEAN : BodyRead(r, parsed)
    \/ \E effect \in {0, 1} : Unreachable(r, effect)

KcNext ==
    \/ \E r \in KcCaller : KcStep(r)
    \/ TokenExpires
    \/ \E token \in accepted : TokenRevoked(token)

\* A fetch is aborted when its timer fires, and a continuation that is due
\* runs; nothing bounds the time a body takes.
KcFairness ==
    \A r \in KcCaller : WF_kcVars(Refresh(r) \/ \E effect \in {0, 1} : Unreachable(r, effect))

KcSpec == KcInit /\ [][KcNext]_kcVars /\ KcFairness
-----------------------------------------------------------------------------
(* Properties *)

KcTypeOK ==
    /\ kc \in [KcCaller -> KcState]
    /\ cachedToken \in [value: 0..MaxGrants, fresh: BOOLEAN]
    /\ accepted \subseteq KcToken
    /\ kcGranted \in 0..MaxGrants
    /\ done \in [KcCaller -> Nat]

(***************************************************************************)
(* kcRequest sends a POST twice, and answers "unreachable" to what may     *)
(* have been done; still the provider performs a request at most once, and *)
(* has performed it when the caller is told so.  A refusal of Central      *)
(* Admin's own token, or of its client secret, is never answered as a 401, *)
(* which would tell the administrator that his own session has ended.      *)
(***************************************************************************)
AnswerIsTrue ==
    \A r \in KcCaller :
        /\ done[r] <= 1 /\ (kc[r].answer = "200" => done[r] = 1)
        /\ kc[r].answer # "401"

\* Every token can be renewed.
AnyToken(token) == TRUE

(***************************************************************************)
(* kcRequest implements ReadContract: at most two tokens are presented,    *)
(* the second after a refusal and another one, whatever other requests     *)
(* cache meanwhile.                                                        *)
(***************************************************************************)
KcPromise(r) == INSTANCE ReadContract WITH
    Renewable <- AnyToken,
    open <- ~KcAt(r, "idle"),
    presented <- kc[r].presented,
    refused <- kc[r].presented # <<>> /\ (Refused(r) \/ (~KcAt(r, "sent") /\ kc[r].status = "401"))

ResendIsBounded ==
    /\ \A r \in KcCaller : KcPromise(r)!Closed
    /\ [][\A r \in KcCaller :
              KcPromise(r)!ContractNext \/ UNCHANGED KcPromise(r)!contractVars]_kcVars

(***************************************************************************)
(* A request ends in time unless a body does not: only its headers and     *)
(* those of the token endpoint are timed.                                  *)
(***************************************************************************)
KcRequestEnds ==
    \A r \in KcCaller :
        ~KcAt(r, "idle") ~> KcAt(r, "idle") \/ KcAt(r, "token") \/ KcAt(r, "body")
=============================================================================
