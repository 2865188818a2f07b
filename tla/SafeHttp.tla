------------------------------- MODULE SafeHttp -------------------------------
(***************************************************************************)
(* SafeHttpClient.request (apps/api/src/integration/http/                  *)
(* safeHttpClient.ts): per hop the host is checked against the allow-list, *)
(* resolved, every answer validated, and the first one connected to; one   *)
(* timer for all the hops aborts the transport, and only the transport.    *)
(* A caller has one request in progress at a time.                         *)
(***************************************************************************)
EXTENDS Ssrf

CONSTANTS
    Caller,        \* who issues requests
    Host,          \* the allow-listed hosts
    Resolution,    \* what a name may resolve to: sequences of addresses
    MaxRedirects

ASSUME RedirectsAssumption == MaxRedirects \in Nat

VARIABLE http      \* http[c]: the request of caller c

\* Hosts that are not on the list are all alike.
Target == Host \cup {"foreign"}

\* A good answer, a 401, any other answer: another status, a body that is no
\* JSON or has another shape.  Then the errors, which are all passed on alike.
Status == {"ok", "401", "other"}

NoAddress == NotAnIp

Address == {NoAddress} \cup UNION {{r[i] : i \in DOMAIN r} : r \in Resolution}

ASSUME ResolutionAssumption ==
    Resolution \subseteq Seq(Address) /\ \A ip \in Address : Spelled(ip)

HttpState ==
    [pc: {"idle", "resolve", "transport", "cut"}, host: Target \cup {"none"},
     hop: 0..MaxRedirects, fired: BOOLEAN, pinned: Address,
     result: {"none", "failed"} \cup Status]

\* The request is over; "none" once its caller has taken the result.
Settled(result) ==
    [pc |-> "idle", host |-> "none", hop |-> 0, fired |-> FALSE,
     pinned |-> NoAddress, result |-> result]

\* SSRF_BLOCKED, NETWORK, TIMEOUT or MALFORMED_RESPONSE.
Failed == Settled("failed")

\* assertAllowedOutboundUrl, at the top of every iteration.
Hop(host, hop, fired) ==
    IF host \in Host
      THEN [pc |-> "resolve", host |-> host, hop |-> hop, fired |-> fired,
            pinned |-> NoAddress, result |-> "none"]
      ELSE Failed

\* request(): the timer is armed and the first hop begins.
Issued(host) == Hop(host, 0, FALSE)

HttpInit == http = [c \in Caller |-> Settled("none")]

HttpAt(c, pc) == http[c].pc = pc

Becomes(c, h) == http' = [http EXCEPT ![c] = h]

\* Mutant: the first answer is validated, the others are not ... and the
\* last one is used.
PinDestinationLast(c, ips) ==
    /\ HttpAt(c, "resolve")
    /\ Becomes(c, IF ips # <<>> /\ ~IsBlockedIp(ips[1])
                    THEN [http[c] EXCEPT !.pc = "transport", !.pinned = ips[Len(ips)]]
                    ELSE Failed)

(* The resolver answers, however late: the timer does not interrupt it. *)
PinDestination(c, ips) ==
    /\ HttpAt(c, "resolve")
    /\ Becomes(c, IF ResolvedIpsAllowed(ips)
                    THEN [http[c] EXCEPT !.pc = "transport", !.pinned = ips[1]]
                    ELSE Failed)

ResolveRejects(c) ==
    /\ HttpAt(c, "resolve")
    /\ Becomes(c, Failed)

ResolverAnswers(c) ==
    /\ HttpAt(c, "resolve")
    /\ (\E ips \in Resolution : PinDestination(c, ips)) \/ ResolveRejects(c)

(* setTimeout, once for the request. *)
Timer(c) ==
    /\ ~HttpAt(c, "idle")
    /\ ~http[c].fired
    /\ Becomes(c, [http[c] EXCEPT !.fired = TRUE])

\* Mutant: the abort reaches the first hop only.
AbortFirstHop(c) ==
    /\ HttpAt(c, "transport")
    /\ http[c].fired /\ http[c].hop = 0
    /\ Becomes(c, Failed)

(* A transport whose signal is aborted, before or after it started. *)
AbortTransport(c) ==
    /\ HttpAt(c, "transport")
    /\ http[c].fired
    /\ Becomes(c, Failed)

(* A complete answer that is no redirect. *)
Respond(c, status) ==
    /\ HttpAt(c, "transport")
    /\ ~http[c].fired
    /\ Becomes(c, Settled(status))

(* A redirect; the request, body included, is repeated at the next host. *)
Redirect(c, host) ==
    /\ HttpAt(c, "transport")
    /\ ~http[c].fired
    /\ Becomes(c, IF http[c].hop = MaxRedirects
                    THEN Failed
                    ELSE Hop(host, http[c].hop + 1, FALSE))

(* A connection error, too many bytes, a redirect without a location. *)
TransportFails(c) ==
    /\ HttpAt(c, "transport")
    /\ ~http[c].fired
    /\ Becomes(c, Failed)

(***************************************************************************)
(* The connection closes after the headers and before the end of the body. *)
(* The response has no "error" or "aborted" listener and "end" is not      *)
(* emitted: the promise of the transport is never settled, and the abort   *)
(* finds a request that is already destroyed.                              *)
(***************************************************************************)
Cut(c) ==
    /\ HttpAt(c, "transport")
    /\ ~http[c].fired
    /\ Becomes(c, [http[c] EXCEPT !.pc = "cut"])

HttpStep(c) ==
    \/ ResolverAnswers(c)
    \/ Timer(c)
    \/ AbortTransport(c)
    \/ \E status \in Status : Respond(c, status)
    \/ \E host \in Target : Redirect(c, host)
    \/ TransportFails(c)
    \/ Cut(c)

(***************************************************************************)
(* Every address connected to is public, whatever the resolver answered    *)
(* for any hop (safeHttpClient.ts:14-22).                                  *)
(***************************************************************************)
ContactedIsPublic ==
    \A c \in Caller : HttpAt(c, "transport") => Public(http[c].pinned)
=============================================================================
