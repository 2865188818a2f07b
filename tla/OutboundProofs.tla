---------------------------- MODULE OutboundProofs ----------------------------
(***************************************************************************)
(* What holds of Central Admin's calls to the outside, for any number of   *)
(* callers: no address but a public one is connected to, whatever names    *)
(* resolve to; the adapter's reads and the requests to Keycloak implement  *)
(* ReadContract, whatever other requests do to the credentials they share; *)
(* and what the Keycloak client, the sign-in flow and the Firebase bridge  *)
(* promise.                                                                *)
(***************************************************************************)
EXTENDS OutboundMC, FiniteSetTheorems, TLAPS

-----------------------------------------------------------------------------
(* Addresses *)

(***************************************************************************)
(* The computation of ssrf.ts on four octets leaves only what the address  *)
(* plan calls public.                                                      *)
(***************************************************************************)
LEMMA AllowedIpv4IsPublic ==
    ASSUME NEW octets \in Seq(Nat), ~IsBlockedIpv4(octets)
    PROVE  PublicV4(octets)
<1> DEFINE a == octets[1]
           b == octets[2]
<1>1. Len(octets) = 4 /\ \A i \in 1..4 : octets[i] \in Octet
    BY DEF IsBlockedIpv4
<1>2. a \in 0..255 /\ b \in 0..255
    BY <1>1 DEF Octet
<1>3. /\ a \notin {0, 10, 127}
      /\ ~(a = 169 /\ b = 254) /\ ~(a = 192 /\ b = 168)
      /\ ~(a = 172 /\ b \in 16..31)
      /\ ~(a = 100 /\ b \in 64..127)
    BY DEF IsBlockedIpv4
<1>4. Prefix(octets) = a * 256 + b
    BY DEF Prefix
<1> HIDE DEF a, b
<1>5. /\ a * 256 + b \notin 0..255
      /\ a * 256 + b \notin 2560..2815
      /\ a * 256 + b \notin 32512..32767
    BY <1>2, <1>3
<1>6. a * 256 + b # 43518 /\ a * 256 + b # 49320
    BY <1>2, <1>3
<1>7. a * 256 + b \notin 44048..44063
    BY <1>2, <1>3
<1>8. a * 256 + b \notin 25664..25727
    BY <1>2, <1>3
<1> QED
    BY <1>4, <1>5, <1>6, <1>7, <1>8 DEF PublicV4

\* The masks of the code and the ranges of the plan.
LEMMA Masks ==
    ASSUME NEW x \in Nat
    PROVE  /\ x \in 65152..65215 => Masked(x, 64) = 65152
           /\ x \in 64512..65023 => Masked(x, 512) = 64512
<1>1. ASSUME x \in 65152..65215 PROVE Masked(x, 64) = 65152
  <2>1. x % 64 = x - 65152
    BY <1>1, SMTT(30)
  <2> QED
    BY <1>1, <2>1 DEF Masked
<1>2. ASSUME x \in 64512..65023 PROVE Masked(x, 512) = 64512
  <2>1. x % 512 = x - 64512
    BY <1>2, SMTT(30)
  <2> QED
    BY <1>2, <2>1 DEF Masked
<1> QED
    BY <1>1, <1>2

\* A group of an IPv6 address is a number.
LEMMA GroupsAreNumbers == \A x \in Hextet : x \in Nat
<1>1. SUFFICES ASSUME NEW x \in 0..65535 PROVE x \in Nat
    BY DEF Hextet
<1> QED
    OBVIOUS

\* Its two octets are numbers.
LEMMA HalvesOfAGroup ==
    ASSUME NEW x \in Nat
    PROVE  x \div 256 \in Nat /\ x % 256 \in Nat
<1>1. x % 256 \in Nat
    BY SMTT(30)
<1>2. x \div 256 \in Nat
    BY SMTT(30)
<1> QED
    BY <1>1, <1>2

\* The same of the eight groups of an IPv6 address, embedded IPv4 included.
LEMMA AllowedIpv6IsPublic ==
    ASSUME NEW h, \A i \in 1..8 : h[i] \in Hextet, ~IsBlockedIpv6(h)
    PROVE  PublicV6(h)
<1>1. h[1] \in Nat /\ h[6] \in Nat /\ h[7] \in Nat /\ h[8] \in Nat
  <2>1. h[1] \in Hextet /\ h[6] \in Hextet /\ h[7] \in Hextet /\ h[8] \in Hextet
    <3>1. 1 \in 1..8 /\ 6 \in 1..8 /\ 7 \in 1..8 /\ 8 \in 1..8
      OBVIOUS
    <3> QED
      BY <3>1
  <2>2. \A x \in Hextet : x \in Nat
    BY GroupsAreNumbers
  <2> QED
    BY <2>1, <2>2
<1>2. CASE \A i \in 1..5 : h[i] = 0
  <2>1. h[1] = 0
    BY <1>2
  <2>2. ASSUME h[6] \in {0, 65535}
        PROVE  PublicV4(<<h[7] \div 256, h[7] % 256>>)
    <3> DEFINE v4 == EmbeddedIpv4(h[7], h[8])
    <3>1. ~IsBlockedIpv4(v4)
      BY <1>2, <2>2 DEF IsBlockedIpv6
    <3>2. h[7] \div 256 \in Nat /\ h[7] % 256 \in Nat /\ h[8] \div 256 \in Nat /\ h[8] % 256 \in Nat
      BY <1>1, HalvesOfAGroup
    <3>3. v4 \in Seq(Nat) /\ v4[1] = h[7] \div 256 /\ v4[2] = h[7] % 256
      BY <3>2 DEF EmbeddedIpv4
    <3> HIDE DEF v4
    <3>4. PublicV4(v4)
      BY <3>1, <3>3, AllowedIpv4IsPublic
    <3>5. Prefix(<<h[7] \div 256, h[7] % 256>>) = Prefix(v4)
      BY <3>3 DEF Prefix
    <3> QED
      BY <3>4, <3>5 DEF PublicV4
  <2> QED
    BY <2>1, <2>2 DEF PublicV6
<1>3. CASE ~\A i \in 1..5 : h[i] = 0
  <2>1. Masked(h[1], 64) # 65152 /\ Masked(h[1], 512) # 64512
    BY <1>3 DEF IsBlockedIpv6
  <2>2. /\ h[1] \in 65152..65215 => Masked(h[1], 64) = 65152
        /\ h[1] \in 64512..65023 => Masked(h[1], 512) = 64512
    <3>1. h[1] \in Nat
      BY <1>1
    <3> DEFINE x == h[1]
    <3>2. x \in Nat
      BY <3>1
    <3> HIDE DEF x
    <3>3. /\ x \in 65152..65215 => Masked(x, 64) = 65152
          /\ x \in 64512..65023 => Masked(x, 512) = 64512
      BY <3>2, Masks
    <3> QED
      BY <3>3 DEF x
  <2>3. h[1] \notin 65152..65215 /\ h[1] \notin 64512..65023
    BY <2>1, <2>2
  <2> QED
    BY <1>3, <2>3 DEF PublicV6
<1> QED
    BY <1>2, <1>3

\* A text that can be parsed has eight groups of sixteen bits.
LEMMA ExpandedIpv6 ==
    ASSUME NEW text, {text.head, text.tail, text.dotted} \subseteq Seq(Nat),
           text.double \in BOOLEAN, Len(text.dotted) \in {0, 4},
           ExpandIpv6(text) # <<>>
    PROVE  \A i \in 1..8 : ExpandIpv6(text)[i] \in Hextet
<1>0. \A x, y \in Nat : x * 256 + y \in Nat
    OBVIOUS
<1> DEFINE head == IF text.double THEN text.head ELSE text.head \o Hexed(text.dotted)
           tail == IF text.double THEN text.tail \o Hexed(text.dotted) ELSE <<>>
           missing == 8 - (Len(head) + Len(tail))
           middle == IF text.double THEN Zeros(missing) ELSE <<>>
           groups == head \o middle \o tail
<1>1. Hexed(text.dotted) \in Seq(Nat)
  <2>1. CASE text.dotted = <<>>
    BY <2>1 DEF Hexed
  <2>2. CASE text.dotted # <<>>
    <3>1. Len(text.dotted) = 4
      BY <2>2
    <3>2. /\ text.dotted[1] \in Nat /\ text.dotted[2] \in Nat
          /\ text.dotted[3] \in Nat /\ text.dotted[4] \in Nat
      BY <3>1
    <3>3. text.dotted[1] * 256 + text.dotted[2] \in Nat
      BY <1>0, <3>2
    <3>4. text.dotted[3] * 256 + text.dotted[4] \in Nat
      BY <1>0, <3>2
    <3> QED
      BY <2>2, <3>3, <3>4 DEF Hexed
  <2> QED
    BY <2>1, <2>2
<1>2. head \in Seq(Nat) /\ tail \in Seq(Nat)
    BY <1>1
<1>3. ExpandIpv6(text) =
          IF /\ IF text.double THEN missing >= 1 ELSE missing = 0
             /\ \A i \in 1..Len(text.dotted) : text.dotted[i] \in Octet
             /\ \A i \in 1..Len(groups) : groups[i] \in Hextet
            THEN groups ELSE <<>>
    BY DEF ExpandIpv6
<1>4. /\ IF text.double THEN missing >= 1 ELSE missing = 0
      /\ \A i \in 1..Len(groups) : groups[i] \in Hextet
      /\ ExpandIpv6(text) = groups
    BY <1>3
<1> HIDE DEF head, tail
<1>5. missing \in Nat
    BY <1>2, <1>4
<1>6. middle \in Seq(Nat) /\ Len(middle) = missing
  <2>1. CASE text.double
    BY <1>5, <2>1 DEF Zeros
  <2>2. CASE ~text.double
    BY <1>4, <2>2
  <2> QED
    BY <2>1, <2>2
<1> HIDE DEF middle
<1>7. Len(groups) = Len(head) + Len(middle) + Len(tail)
    BY <1>2, <1>6
<1>8. Len(groups) = 8
    BY <1>2, <1>5, <1>6, <1>7
<1> QED
    BY <1>4, <1>8
\* Which answers of the resolver pass.
LEMMA AllowedIsPublic ==
    ASSUME NEW ip, Spelled(ip), ~IsBlockedIp(ip)
    PROVE  Public(ip)
<1>1. CASE ip = NotAnIp
    BY <1>1 DEF NotAnIp, IsBlockedIp
<1>2. CASE ip.family = 4 /\ ip.octets \in Seq(Nat)
  <2>1. ~IsBlockedIpv4(ip.octets)
    BY <1>2 DEF IsBlockedIp
  <2>2. PublicV4(ip.octets)
    BY <1>2, <2>1, AllowedIpv4IsPublic
  <2> QED
    BY <1>2, <2>2 DEF Public
<1>3. CASE /\ ip.family = 6
           /\ {ip.head, ip.tail, ip.dotted} \subseteq Seq(Nat)
           /\ ip.double \in BOOLEAN /\ Len(ip.dotted) \in {0, 4}
  <2>1. ExpandIpv6(ip) # <<>> /\ ~IsBlockedIpv6(ExpandIpv6(ip))
    BY <1>3 DEF IsBlockedIp
  <2>2. \A i \in 1..8 : ExpandIpv6(ip)[i] \in Hextet
    BY <1>3, <2>1, ExpandedIpv6
  <2>3. PublicV6(ExpandIpv6(ip))
    BY <2>1, <2>2, AllowedIpv6IsPublic
  <2> QED
    BY <1>3, <2>3 DEF Public
<1> QED
    BY <1>1, <1>2, <1>3 DEF Spelled

-----------------------------------------------------------------------------
(* Requests through SafeHttp *)

(***************************************************************************)
(* A request has a result when it is over, and what it connects to was     *)
(* validated on the way there.                                             *)
(***************************************************************************)
RequestInv ==
    /\ http \in [Caller -> HttpState]
    /\ \A c \in Caller : HttpAt(c, "idle") \/ http[c].result = "none"
    /\ ContactedIsPublic

\* A request that pinned nothing but a public address keeps the invariant of the requests.
LEMMA Requested ==
    ASSUME NEW c \in Caller, NEW h \in HttpState, RequestInv, Becomes(c, h),
           h.pc # "idle" => h.result = "none",
           h.pc = "transport" => Public(h.pinned)
    PROVE  RequestInv' /\ http' = [http EXCEPT ![c] = http'[c]]
<1>1. http' = [http EXCEPT ![c] = h] /\ http'[c] = h
    BY DEF Becomes, RequestInv
<1>2. http' \in [Caller -> HttpState]
    BY <1>1 DEF RequestInv
<1>3. \A d \in Caller \ {c} : http'[d] = http[d]
    BY <1>1 DEF RequestInv
<1>4. \A d \in Caller : HttpAt(d, "idle")' \/ http'[d].result = "none"
    BY <1>1, <1>3 DEF RequestInv, HttpAt
<1>5. ContactedIsPublic'
    BY <1>1, <1>3 DEF RequestInv, ContactedIsPublic, HttpAt
<1> QED
    BY <1>1, <1>2, <1>4, <1>5 DEF RequestInv

\* Having pinned nothing yet is a value of the type.
LEMMA NothingPinned == NoAddress \in Address
    BY DEF Address

\* A request that has ended holds its result and nothing else.
LEMMA SettledSound ==
    ASSUME NEW result \in {"none", "failed"} \cup Status
    PROVE  /\ Settled(result) \in HttpState
           /\ Settled(result).pc = "idle" /\ Settled(result).result = result
<1>1. 0 \in 0..MaxRedirects
    BY RedirectsAssumption
<1>2. NoAddress \in Address
    BY NothingPinned
<1> QED
    BY <1>1, <1>2 DEF Settled, HttpState

\* A hop starts with the resolution of its host, or has failed already.
LEMMA HopSound ==
    ASSUME NEW host \in Target, NEW hop \in 0..MaxRedirects, NEW fired \in BOOLEAN
    PROVE  /\ Hop(host, hop, fired) \in HttpState
           /\ \/ Hop(host, hop, fired).pc = "resolve" /\ Hop(host, hop, fired).result = "none"
              \/ Hop(host, hop, fired).pc = "idle" /\ Hop(host, hop, fired).result = "failed"
<1>1. NoAddress \in Address
    BY NothingPinned
<1>2. Failed \in HttpState /\ Failed.pc = "idle" /\ Failed.result = "failed"
    BY SettledSound DEF Failed
<1>3. CASE host \in Host
    BY <1>1, <1>3 DEF Hop, HttpState
<1>4. CASE host \notin Host
    BY <1>2, <1>4 DEF Hop
<1> QED
    BY <1>3, <1>4

\* So does the first hop, to the host of the base URL.
LEMMA IssuedSound ==
    /\ Issued(BaseHost) \in HttpState
    /\ \/ Issued(BaseHost).pc = "resolve" /\ Issued(BaseHost).result = "none"
       \/ Issued(BaseHost).pc = "idle" /\ Issued(BaseHost).result = "failed"
<1>1. 0 \in 0..MaxRedirects /\ BaseHost \in Target
    BY RedirectsAssumption, StockAssumption
<1> QED
    BY <1>1, HopSound DEF Issued

\* What validateDestination lets through, and what of it is connected to.
LEMMA PinnedIsPublic ==
    ASSUME NEW ips \in Resolution, ResolvedIpsAllowed(ips)
    PROVE  ips[1] \in Address /\ Public(ips[1])
<1>1. ips \in Seq(Address) /\ ips # <<>>
    BY ResolutionAssumption DEF ResolvedIpsAllowed
<1>2. 1 \in 1..Len(ips) /\ ips[1] \in Address
    BY <1>1
<1>3. ~IsBlockedIp(ips[1])
    BY <1>2 DEF ResolvedIpsAllowed
<1>4. Spelled(ips[1])
    BY <1>2, ResolutionAssumption
<1> QED
    BY <1>2, <1>3, <1>4, AllowedIsPublic

(***************************************************************************)
(* A request goes on: no other request is touched.                         *)
(***************************************************************************)
LEMMA HttpMoves ==
    ASSUME NEW c \in Caller, RequestInv, HttpStep(c)
    PROVE  /\ RequestInv' /\ ~HttpAt(c, "idle")
           /\ http' = [http EXCEPT ![c] = http'[c]]
<1> DEFINE Sound(h) == /\ h \in HttpState
                       /\ h.pc # "idle" => h.result = "none"
                       /\ h.pc = "transport" => Public(h.pinned)
<1>1. Sound(Failed)
    BY SettledSound DEF Failed
<1>2. http[c] \in HttpState
    BY DEF RequestInv
<1>3. ~HttpAt(c, "idle") /\ \E h : Sound(h) /\ Becomes(c, h)
  <2>1. CASE ResolverAnswers(c)
    <3>1. HttpAt(c, "resolve") /\ http[c].result = "none" /\ ~HttpAt(c, "idle")
      BY <2>1 DEF ResolverAnswers, HttpAt, RequestInv
    <3>2. CASE ResolveRejects(c)
      BY <1>1, <3>1, <3>2 DEF ResolveRejects
    <3>3. ASSUME NEW ips \in Resolution, PinDestination(c, ips)
          PROVE  \E h : Sound(h) /\ Becomes(c, h)
      <4> DEFINE h == [http[c] EXCEPT !.pc = "transport", !.pinned = ips[1]]
      <4>1. CASE ResolvedIpsAllowed(ips)
        <5>1. ips[1] \in Address /\ Public(ips[1])
          BY <4>1, PinnedIsPublic
        <5>2. h \in HttpState /\ h.result = "none" /\ h.pinned = ips[1]
          BY <1>2, <3>1, <5>1 DEF HttpState
        <5>3. Becomes(c, h)
          BY <3>3, <4>1 DEF PinDestination
        <5> QED
          BY <5>1, <5>2, <5>3
      <4>2. CASE ~ResolvedIpsAllowed(ips)
        BY <1>1, <3>3, <4>2 DEF PinDestination
      <4> QED
        BY <4>1, <4>2
    <3> QED
      BY <2>1, <3>1, <3>2, <3>3 DEF ResolverAnswers
  <2>2. CASE Timer(c)
    <3> DEFINE h == [http[c] EXCEPT !.fired = TRUE]
    <3>1. h \in HttpState /\ h.pc = http[c].pc /\ h.result = http[c].result /\ h.pinned = http[c].pinned
      BY <1>2 DEF HttpState
    <3>2. Sound(h)
      BY <3>1 DEF RequestInv, HttpAt, ContactedIsPublic
    <3> QED
      BY <2>2, <3>2 DEF Timer
  <2>3. CASE AbortTransport(c) \/ TransportFails(c)
    BY <1>1, <2>3 DEF AbortTransport, TransportFails, HttpAt
  <2>4. ASSUME NEW status \in Status, Respond(c, status)
        PROVE  ~HttpAt(c, "idle") /\ \E h : Sound(h) /\ Becomes(c, h)
    <3>1. Sound(Settled(status))
      BY SettledSound
    <3> QED
      BY <2>4, <3>1 DEF Respond, HttpAt
  <2>5. ASSUME NEW host \in Target, Redirect(c, host)
        PROVE  ~HttpAt(c, "idle") /\ \E h : Sound(h) /\ Becomes(c, h)
    <3>1. CASE http[c].hop = MaxRedirects
      BY <1>1, <2>5, <3>1 DEF Redirect, HttpAt
    <3>2. CASE http[c].hop # MaxRedirects
      <4>1. http[c].hop + 1 \in 0..MaxRedirects
        BY <1>2, <3>2, RedirectsAssumption DEF HttpState
      <4>2. Sound(Hop(host, http[c].hop + 1, FALSE))
        BY <4>1, HopSound
      <4> QED
        BY <2>5, <3>2, <4>2 DEF Redirect, HttpAt
    <3> QED
      BY <3>1, <3>2
  <2>6. CASE Cut(c)
    <3> DEFINE h == [http[c] EXCEPT !.pc = "cut"]
    <3>1. HttpAt(c, "transport") /\ Becomes(c, h)
      BY <2>6 DEF Cut
    <3>2. h \in HttpState /\ h.pc = "cut" /\ h.result = http[c].result
      BY <1>2 DEF HttpState
    <3>3. Sound(h)
      BY <3>1, <3>2 DEF RequestInv, HttpAt
    <3> QED
      BY <3>1, <3>3 DEF HttpAt
  <2> QED
    BY <2>1, <2>2, <2>3, <2>4, <2>5, <2>6 DEF HttpStep, Timer, HttpAt
<1>4. PICK h : Sound(h) /\ Becomes(c, h)
    BY <1>3
<1> QED
    BY <1>3, <1>4, Requested
-----------------------------------------------------------------------------
(* Reads of the Stock Management adapter *)

ReadRecord ==
    [pc: {"idle", "login", "await", "get"}, kind: Kind,
     provider: Provider \cup {Nobody}, attempt: 0..1, presented: Seq(Nat)]

ProviderRecord == [token: Nat, current: BOOLEAN, inflight: Reader \cup {Nobody}]

\* Tokens are numbered as they are granted: whatever is around is older than
\* the next one.
Held(provs) == provs \in [Provider -> ProviderRecord] /\ \A p \in Provider : provs[p].token <= granted + 1

(***************************************************************************)
(* attempt counts the credentials that were refused: between the turns of  *)
(* the loop it is all that were presented, while a request is out one      *)
(* more was.                                                               *)
(***************************************************************************)
Counted(q) ==
    /\ q.pc = "idle" => q.presented = <<>>
    /\ q.pc \in {"login", "await"} => Len(q.presented) = q.attempt
    /\ q.pc = "get" => Len(q.presented) = q.attempt + 1
    /\ q.pc \in {"login", "await"} \/ q.kind = "password" => q.provider \in Provider

ReadInv ==
    /\ RequestInv
    /\ read \in [Reader -> ReadRecord]
    /\ granted \in Nat /\ Held(provider)
    /\ \A r \in Reader :
        /\ Counted(read[r])
        /\ \A i \in 1..Len(read[r].presented) : read[r].presented[i] <= granted + 1

\* What ReadContract lets reader r do.
Promised(r) == ReadPromise(r)!ContractNext \/ UNCHANGED ReadPromise(r)!contractVars

\* A reader that a step does not touch stutters in its contract.
LEMMA Bystander ==
    ASSUME NEW s \in Reader, read'[s] = read[s], http'[s] = http[s]
    PROVE  Promised(s)
<1>1. ReadAt(s, "idle")' <=> ReadAt(s, "idle")
    BY DEF ReadAt
<1>2. UNCHANGED ReadPromise(s)!contractVars
    BY <1>1 DEF ReadPromise!contractVars, ReadAt
<1> QED
    BY <1>2 DEF Promised

\* One reader's record changes, and no token is granted.
LEMMA OneReader ==
    ASSUME NEW r \in Reader, ReadInv, RequestInv', granted' = granted, Held(provider'),
           NEW q \in ReadRecord, read' = [read EXCEPT ![r] = q], Counted(q),
           \A i \in 1..Len(q.presented) : q.presented[i] <= granted + 1
    PROVE  ReadInv' /\ read'[r] = q /\ \A s \in Reader \ {r} : read'[s] = read[s]
<1>1. read' \in [Reader -> ReadRecord] /\ read'[r] = q
    BY DEF ReadInv
<1>2. \A s \in Reader \ {r} : read'[s] = read[s]
    BY DEF ReadInv
<1>3. Held(provider)'
    BY DEF Held
<1>4. \A s \in Reader : Counted(read'[s]) /\ \A i \in 1..Len(read'[s].presented) : read'[s].presented[i] <= granted + 1
    BY <1>1, <1>2 DEF ReadInv
<1>5. \A s \in Reader : Counted(read[s])'
    BY <1>4 DEF Counted
<1> QED
    BY <1>1, <1>2, <1>3, <1>4, <1>5 DEF ReadInv

\* Sending a token appends it to those presented, and keeps the count.
LEMMA PresentedNext ==
    ASSUME NEW q \in ReadRecord, NEW t \in Nat, Len(q.presented) = q.attempt,
           q.kind = "password" => q.provider \in Provider, t <= granted + 1,
           \A i \in 1..Len(q.presented) : q.presented[i] <= granted + 1
    PROVE  /\ Sends(q, t) \in ReadRecord /\ Counted(Sends(q, t))
           /\ Sends(q, t).pc = "get" /\ Sends(q, t).attempt = q.attempt
           /\ Sends(q, t).kind = q.kind /\ Sends(q, t).presented = Append(q.presented, t)
           /\ \A i \in 1..Len(Sends(q, t).presented) : Sends(q, t).presented[i] <= granted + 1
<1>1. q.presented \in Seq(Nat) /\ q.attempt \in 0..1
    BY DEF ReadRecord
<1>2. /\ Append(q.presented, t) \in Seq(Nat)
      /\ Len(Append(q.presented, t)) = q.attempt + 1
      /\ \A i \in 1..(q.attempt + 1) : Append(q.presented, t)[i] <= granted + 1
    BY <1>1
<1>3. /\ Sends(q, t).pc = "get" /\ Sends(q, t).attempt = q.attempt
      /\ Sends(q, t).kind = q.kind /\ Sends(q, t).provider = q.provider
      /\ Sends(q, t).presented = Append(q.presented, t)
      /\ Sends(q, t) \in ReadRecord
    BY <1>2 DEF Sends, ReadRecord
<1> HIDE DEF Sends
<1>4. Counted(Sends(q, t))
    BY <1>2, <1>3 DEF Counted
<1> QED
    BY <1>2, <1>3, <1>4

\* The request of r goes out.
LEMMA GoesOut ==
    ASSUME NEW r \in Reader, RequestInv, Becomes(r, Issued(BaseHost))
    PROVE  /\ RequestInv' /\ http'[r].result # "401"
           /\ \A s \in Reader \ {r} : http'[s] = http[s]
<1>1. RequestInv'
    BY IssuedSound, Requested DEF Reader
<1>2. http'[r] = Issued(BaseHost) /\ \A s \in Reader \ {r} : http'[s] = http[s]
    BY DEF Becomes, RequestInv, Reader
<1> QED
    BY <1>1, <1>2, IssuedSound

(***************************************************************************)
(* One turn of the loop: a credential is presented, or a login is awaited  *)
(* and nothing is.                                                         *)
(***************************************************************************)
Turned(r, q, provs) ==
    \E n \in ReadRecord :
        /\ read' = [read EXCEPT ![r] = n] /\ Counted(n)
        /\ \A i \in 1..Len(n.presented) : n.presented[i] <= granted + 1
        /\ n.attempt = q.attempt
        /\ \/ n.pc \in {"login", "await"} /\ n.presented = q.presented
           \/ /\ n.pc = "get" /\ http'[r].result # "401"
              /\ \E t \in Nat :
                    /\ n.presented = Append(q.presented, t)
                    /\ Renewable(t) => q.kind = "password" /\ provs[q.provider].token # NoToken

\* An attempt presents a token, waits for a login or fails, whatever the provider holds.
LEMMA Turning ==
    ASSUME NEW r \in Reader, NEW q \in ReadRecord, NEW provs, ReadInv, Held(provs),
           Len(q.presented) = q.attempt,
           q.kind = "password" => q.provider \in Provider,
           \A i \in 1..Len(q.presented) : q.presented[i] <= granted + 1,
           Attempt(r, q, provs)
    PROVE  /\ Turned(r, q, provs) /\ RequestInv' /\ Held(provider')
           /\ \A s \in Reader \ {r} : http'[s] = http[s]
<1> USE DEF ReadInv
<1>1. ASSUME NEW t \in Nat, t <= granted + 1, PresentAtOnce(r, q, t),
             Renewable(t) => q.kind = "password" /\ provs[q.provider].token # NoToken
      PROVE  Turned(r, q, provs) /\ RequestInv' /\ \A s \in Reader \ {r} : http'[s] = http[s]
  <2>1. RequestInv' /\ http'[r].result # "401" /\ \A s \in Reader \ {r} : http'[s] = http[s]
    BY <1>1, GoesOut DEF PresentAtOnce
  <2>2. read' = [read EXCEPT ![r] = Sends(q, t)]
    BY <1>1 DEF PresentAtOnce
  <2>3. /\ Sends(q, t) \in ReadRecord /\ Counted(Sends(q, t))
        /\ Sends(q, t).pc = "get" /\ Sends(q, t).attempt = q.attempt
        /\ Sends(q, t).presented = Append(q.presented, t)
        /\ \A i \in 1..Len(Sends(q, t).presented) : Sends(q, t).presented[i] <= granted + 1
    BY <1>1, PresentedNext
  <2> QED
    BY <1>1, <2>1, <2>2, <2>3 DEF Turned
<1>2. ASSUME NEW pc \in {"login", "await"}, q.provider \in Provider,
             read' = [read EXCEPT ![r] = [q EXCEPT !.pc = pc]]
      PROVE  Turned(r, q, provs)
  <2> DEFINE n == [q EXCEPT !.pc = pc]
  <2>1. /\ n \in ReadRecord /\ n.pc = pc /\ n.presented = q.presented
        /\ n.attempt = q.attempt /\ n.provider = q.provider
    BY DEF ReadRecord
  <2>2. Counted(n)
    BY <1>2, <2>1 DEF Counted
  <2> QED
    BY <1>2, <2>1, <2>2 DEF Turned
<1>3. CASE q.kind # "password"
  <2>1. PICK t \in {Anonymous, StaticToken} : PresentAtOnce(r, q, t)
    BY <1>3 DEF Attempt
  <2>2. t \in Nat /\ t <= granted + 1 /\ ~Renewable(t)
    BY DEF Anonymous, StaticToken, Renewable
  <2>3. provider' = provs
    BY <1>3 DEF Attempt
  <2> QED
    BY <1>1, <2>1, <2>2, <2>3
<1>4. CASE q.kind = "password"
  <2> DEFINE p == q.provider
  <2>0. p \in Provider /\ provs[p] \in ProviderRecord /\ provs[p].token \in Nat /\ provs[p].token <= granted + 1
    BY <1>4 DEF Held, ProviderRecord
  <2>1. CASE provs[p].token # NoToken /\ PresentAtOnce(r, q, provs[p].token) /\ provider' = provs
    BY <1>1, <1>4, <2>0, <2>1
  <2>2. CASE read' = [read EXCEPT ![r] = [q EXCEPT !.pc = "await"]] /\ provider' = provs /\ UNCHANGED http
    <3>1. RequestInv'
      BY <2>2 DEF RequestInv, ContactedIsPublic, HttpAt
    <3> QED
      BY <1>2, <2>0, <2>2, <3>1
  <2>3. CASE /\ read' = [read EXCEPT ![r] = [q EXCEPT !.pc = "login"]]
             /\ provider' = [provs EXCEPT ![p].inflight = r]
             /\ Becomes(r, Issued(BaseHost))
    <3>1. Held(provider')
      <4>1. provider' = [provs EXCEPT ![p] = [provs[p] EXCEPT !.inflight = r]]
        BY <2>3
      <4>2. [provs[p] EXCEPT !.inflight = r] \in ProviderRecord /\ [provs[p] EXCEPT !.inflight = r].token = provs[p].token
        BY <2>0 DEF ProviderRecord
      <4> QED
        BY <2>0, <4>1, <4>2 DEF Held
    <3> QED
      BY <1>2, <2>0, <2>3, <3>1, GoesOut
  <2> QED
    BY <1>4, <2>1, <2>2, <2>3 DEF Attempt, GetAccessToken
<1> QED
    BY <1>3, <1>4
-----------------------------------------------------------------------------
(* A read begins, goes round once more, ends *)

\* Each of the four actions of the contract is a step of it.
LEMMA Promising ==
    ASSUME NEW r \in Reader,
           \/ ReadPromise(r)!Open \/ ReadPromise(r)!Refuse \/ ReadPromise(r)!Close
           \/ ReadPromise(r)!Present
    PROVE  Promised(r)
    BY DEF Promised, ReadPromise!ContractNext

\* The start of a read opens its contract.
LEMMA BeginSound ==
    ASSUME ReadInv, NEW r \in Reader, NEW kind \in Kind, NEW p \in Provider \cup {Nobody},
           Begin(r, kind, p)
    PROVE  ReadInv' /\ \A s \in Reader : Promised(s)
<1> DEFINE q == Starting(kind, p)
           provs == IF p = Nobody \/ Shared THEN provider ELSE [provider EXCEPT ![p] = NewProvider]
<1>1. /\ q \in ReadRecord /\ q.attempt = 0 /\ q.presented = <<>>
      /\ q.kind = kind /\ q.provider = p
    BY DEF Starting, ReadRecord
<1>2. Held(provs)
  <2>1. NewProvider \in ProviderRecord /\ NewProvider.token = 0
    BY DEF NewProvider, ProviderRecord, NoToken
  <2> QED
    BY <2>1 DEF ReadInv, Held
<1>3. q.kind = "password" => q.provider \in Provider
    BY <1>1 DEF Begin
<1>4. Attempt(r, q, provs) /\ granted' = granted /\ ReadAt(r, "idle")
    BY DEF Begin
<1> HIDE DEF q, provs
<1>5. /\ Turned(r, q, provs) /\ RequestInv' /\ Held(provider')
      /\ \A s \in Reader \ {r} : http'[s] = http[s]
    BY <1>1, <1>2, <1>3, <1>4, Turning
<1>6. PICK n \in ReadRecord :
        /\ read' = [read EXCEPT ![r] = n] /\ Counted(n)
        /\ \A i \in 1..Len(n.presented) : n.presented[i] <= granted + 1
        /\ n.attempt = q.attempt
        /\ \/ n.pc \in {"login", "await"} /\ n.presented = q.presented
           \/ /\ n.pc = "get" /\ http'[r].result # "401"
              /\ \E t \in Nat : n.presented = Append(q.presented, t)
    BY <1>5 DEF Turned
<1>7. ReadInv' /\ read'[r] = n /\ \A s \in Reader \ {r} : read'[s] = read[s]
    BY <1>4, <1>5, <1>6, OneReader
<1>8. Len(n.presented) <= 1 /\ n.pc # "idle" /\ (n.pc = "get" => Len(n.presented) = 1)
  <2>1. CASE n.pc \in {"login", "await"} /\ n.presented = q.presented
    BY <1>1, <2>1
  <2>2. ASSUME n.pc = "get", NEW t \in Nat, n.presented = Append(q.presented, t)
        PROVE  Len(n.presented) = 1
    <3>1. n.presented = Append(<<>>, t)
      BY <1>1, <2>2
    <3> QED
      BY <3>1
  <2> QED
    BY <1>6, <2>1, <2>2
<1>9. ReadPromise(r)!Open
  <2>1. ReadAt(r, "idle") /\ ~ReadAt(r, "idle")'
    BY <1>4, <1>7, <1>8 DEF ReadAt
  <2>2. CASE n.pc # "get"
    BY <1>1, <1>6, <1>7, <2>1, <2>2 DEF ReadPromise!Open
  <2>3. CASE n.pc = "get"
    <3>1. http'[r].result # "401" /\ Len(n.presented) = 1 /\ n.attempt = 0
      BY <1>1, <1>6, <1>8, <2>3
    <3> QED
      BY <1>7, <2>1, <3>1 DEF ReadPromise!Open
  <2> QED
    BY <2>2, <2>3
<1> QED
    BY <1>5, <1>7, <1>9, Bystander, Promising

\* After a 401 a read presents another token, or gives up.
LEMMA RenewSound ==
    ASSUME ReadInv, NEW r \in Reader, Renew(r)
    PROVE  ReadInv' /\ \A s \in Reader : Promised(s)
<1> DEFINE q == [read[r] EXCEPT !.attempt = 1]
           provs == IF read[r].kind = "password" THEN OnUnauthorized(provider, read[r].provider) ELSE provider
<1>1. /\ ReadAt(r, "get") /\ http[r].result = "401" /\ read[r].attempt = 0
      /\ read[r].kind \in {"static", "password"}
      /\ Attempt(r, q, provs) /\ granted' = granted
    BY DEF Renew, RenewsOnce
<1>2. read[r] \in ReadRecord /\ Counted(read[r])
    BY DEF ReadInv
<1>3. /\ q \in ReadRecord /\ q.attempt = 1 /\ q.presented = read[r].presented
      /\ q.kind = read[r].kind /\ q.provider = read[r].provider
    BY <1>2 DEF ReadRecord
<1>4. Len(q.presented) = 1 /\ q.presented \in Seq(Nat) /\ (q.kind = "password" => q.provider \in Provider)
    BY <1>1, <1>2, <1>3 DEF Counted, ReadAt, ReadRecord
<1>5. Held(provs) /\ (q.kind = "password" => provs[q.provider].token = NoToken)
  <2>1. CASE q.kind # "password"
    BY <1>3, <2>1 DEF ReadInv
  <2>2. CASE q.kind = "password"
    <3> DEFINE p == q.provider
    <3>1. provider \in [Provider -> ProviderRecord] /\ p \in Provider
      BY <1>4, <2>2 DEF ReadInv, Held
    <3>2. provs = OnUnauthorized(provider, p)
      BY <1>3, <2>2
    <3>3. /\ provs[p] \in ProviderRecord /\ provs[p].token = 0
          /\ \A o \in Provider \ {p} : provs[o] = provider[o]
          /\ provs \in [Provider -> ProviderRecord]
      <4> DEFINE forgotten == [provider[p] EXCEPT !.token = NoToken, !.current = FALSE]
      <4>1. provider[p] \in ProviderRecord
        BY <3>1
      <4>2. forgotten \in ProviderRecord /\ forgotten.token = 0
        BY <4>1 DEF ProviderRecord, NoToken
      <4>3. provs = [provider EXCEPT ![p] = forgotten]
        BY <3>1, <3>2, <4>1 DEF OnUnauthorized, ProviderRecord
      <4> HIDE DEF forgotten, provs, p
      <4> QED
        BY <3>1, <4>2, <4>3
    <3> HIDE DEF p, provs
    <3>4. Held(provs)
      BY <3>3 DEF Held, ReadInv
    <3> QED
      BY <3>3, <3>4 DEF p, NoToken
  <2> QED
    BY <2>1, <2>2
<1>6. \A i \in 1..Len(q.presented) : q.presented[i] <= granted + 1
    BY <1>3 DEF ReadInv
<1> HIDE DEF q, provs
<1>7. /\ Turned(r, q, provs) /\ RequestInv' /\ Held(provider')
      /\ \A s \in Reader \ {r} : http'[s] = http[s]
    BY <1>1, <1>3, <1>4, <1>5, <1>6, Turning
<1>8. PICK n \in ReadRecord :
        /\ read' = [read EXCEPT ![r] = n] /\ Counted(n)
        /\ \A i \in 1..Len(n.presented) : n.presented[i] <= granted + 1
        /\ n.attempt = q.attempt
        /\ \/ n.pc \in {"login", "await"} /\ n.presented = q.presented
           \/ /\ n.pc = "get" /\ http'[r].result # "401"
              /\ \E t \in Nat :
                    /\ n.presented = Append(q.presented, t)
                    /\ Renewable(t) => q.kind = "password" /\ provs[q.provider].token # NoToken
    BY <1>7 DEF Turned
<1>9. ReadInv' /\ read'[r] = n /\ \A s \in Reader \ {r} : read'[s] = read[s]
    BY <1>1, <1>7, <1>8, OneReader
<1>10. Promised(r)
  <2>1. ~ReadAt(r, "idle") /\ ~ReadAt(r, "idle")' /\ read[r].presented # <<>>
    <3>1. read[r].presented # <<>>
      <4>1. Len(read[r].presented) = 1 /\ Len(<<>>) = 0
        BY <1>3, <1>4
      <4> QED
        BY <4>1
    <3>2. n.pc # "idle"
      BY <1>8
    <3> QED
      BY <1>1, <1>9, <3>1, <3>2 DEF ReadAt
  <2>2. CASE n.pc # "get"
    <3>1. read'[r].presented = read[r].presented /\ Len(read'[r].presented) = read'[r].attempt
      BY <1>3, <1>4, <1>8, <1>9, <2>2
    <3>2. UNCHANGED ReadPromise(r)!contractVars
      BY <1>1, <2>1, <3>1 DEF ReadPromise!contractVars
    <3> QED
      BY <3>2 DEF Promised
  <2>3. CASE n.pc = "get"
    <3>1. PICK t \in Nat : n.presented = Append(q.presented, t) /\ ~Renewable(t)
      BY <1>5, <1>8, <2>3
    <3>2. /\ Len(n.presented) = 2 /\ n.presented[2] = t /\ http'[r].result # "401"
          /\ n.attempt = 1
      BY <1>3, <1>4, <1>8, <2>3, <3>1
    <3>3. ReadPromise(r)!Present
      BY <1>1, <1>3, <1>4, <1>9, <2>1, <3>1, <3>2 DEF ReadPromise!Present, ReadAt
    <3> QED
      BY <3>3, Promising
  <2> QED
    BY <2>2, <2>3
<1> QED
    BY <1>7, <1>9, <1>10, Bystander

\* The end of a read closes its contract.
LEMMA FinishSound ==
    ASSUME ReadInv, NEW r \in Reader, Finish(r)
    PROVE  ReadInv' /\ \A s \in Reader : Promised(s)
<1>1. /\ ReadAt(r, "get") /\ read' = [read EXCEPT ![r] = Finished]
      /\ Becomes(r, Settled("none")) /\ provider' = provider /\ granted' = granted
    BY DEF Finish
<1>2. Finished \in ReadRecord /\ Counted(Finished) /\ Finished.presented = <<>> /\ Finished.pc = "idle"
    BY DEF Finished, ReadRecord, Counted, Kind
<1>3. RequestInv' /\ \A s \in Reader \ {r} : http'[s] = http[s]
  <2>1. RequestInv'
    BY <1>1, SettledSound, Requested DEF Reader, ReadInv
  <2> QED
    BY <1>1, <2>1 DEF Becomes, RequestInv, Reader, ReadInv
<1>4. ReadInv' /\ read'[r] = Finished /\ \A s \in Reader \ {r} : read'[s] = read[s]
  <2>1. Held(provider')
    BY <1>1 DEF ReadInv
  <2>2. \A i \in 1..Len(Finished.presented) : Finished.presented[i] <= granted + 1
    BY <1>2
  <2> QED
    BY <1>1, <1>2, <1>3, <2>1, <2>2, OneReader
<1>5. ReadPromise(r)!Close
    BY <1>1, <1>2, <1>4 DEF ReadPromise!Close, ReadPromise!Closed, ReadAt
<1> QED
    BY <1>3, <1>4, <1>5, Bystander, Promising
(***************************************************************************)
(* A login settles: the readers it was for go on together or fail together,*)
(* and nobody else is touched.                                             *)
(***************************************************************************)
LEMMA CallersTyped ==
    ASSUME ReadInv, NEW p, NEW s \in Callers(p)
    PROVE  /\ s \in Reader /\ read[s] \in ReadRecord /\ Counted(read[s])
           /\ ~ReadAt(s, "idle") /\ ~ReadAt(s, "get")
           /\ Len(read[s].presented) = read[s].attempt
           /\ read[s].provider \in Provider
           /\ \A i \in 1..Len(read[s].presented) : read[s].presented[i] <= granted + 1
    BY DEF Callers, ReadInv, Counted, ReadAt

\* A granted login serves all who wait for it, each with one token presented.
LEMMA GrantedSound ==
    ASSUME ReadInv, NEW r \in Reader, LoginSettles(r), http[r].result = "ok"
    PROVE  ReadInv' /\ \A s \in Reader : Promised(s)
<1>0. PICK p : p = read[r].provider
    OBVIOUS
<1>1. /\ granted' = granted + 1 /\ ReadAt(r, "login") /\ HttpAt(r, "idle")
      /\ provider' = [provider EXCEPT ![p] =
                         [token |-> granted + 2, current |-> TRUE, inflight |-> Nobody]]
      /\ read' = [s \in Reader |->
                     IF s \in Callers(p) THEN Sends(read[s], granted + 2) ELSE read[s]]
      /\ http' = [s \in Reader |->
                     IF s \in Callers(p) THEN Issued(BaseHost) ELSE http[s]]
    BY <1>0 DEF LoginSettles
<1>2. granted \in Nat /\ granted' \in Nat /\ RequestInv
    BY <1>1 DEF ReadInv
<1>3. Held(provider)'
  <2>1. provider \in [Provider -> ProviderRecord] /\ \A o \in Provider : provider[o].token <= granted + 1
    BY DEF ReadInv, Held
  <2>2. \A o \in Provider : provider[o].token \in Nat
    BY <2>1 DEF ProviderRecord
  <2> DEFINE fresh == [token |-> granted + 2, current |-> TRUE, inflight |-> Nobody]
  <2>3. fresh \in ProviderRecord /\ fresh.token = granted + 2
    BY <1>2 DEF ProviderRecord
  <2>4. provider' = [provider EXCEPT ![p] = fresh]
    BY <1>1
  <2> HIDE DEF fresh
  <2>5. provider' \in [Provider -> ProviderRecord]
    BY <2>1, <2>3, <2>4
  <2>6. \A o \in Provider : provider'[o].token = granted + 2 \/ provider'[o].token = provider[o].token
    BY <2>1, <2>3, <2>4
  <2>7. \A o \in Provider : provider'[o].token <= granted' + 1
    BY <1>1, <1>2, <2>1, <2>2, <2>6
  <2> QED
    BY <2>5, <2>7 DEF Held
<1>4. RequestInv'
  <2>1. http' \in [Caller -> HttpState]
    BY <1>1, IssuedSound DEF Reader, ReadInv, RequestInv
  <2>2. \A s \in Caller : http'[s] = Issued(BaseHost) \/ http'[s] = http[s]
    BY <1>1 DEF Reader
  <2>3. \A s \in Caller : HttpAt(s, "idle")' \/ http'[s].result = "none"
    BY <1>2, <2>2, IssuedSound DEF RequestInv, HttpAt
  <2>4. ContactedIsPublic'
    BY <1>2, <2>2, IssuedSound DEF RequestInv, ContactedIsPublic, HttpAt
  <2> QED
    BY <2>1, <2>3, <2>4 DEF RequestInv
<1>5. ASSUME NEW s \in Callers(p)
      PROVE  /\ s \in Reader /\ Promised(s) /\ read'[s] \in ReadRecord /\ Counted(read'[s])
             /\ \A i \in 1..Len(read'[s].presented) : read'[s].presented[i] <= granted' + 1
  <2>1. /\ s \in Reader /\ read[s] \in ReadRecord /\ Counted(read[s])
        /\ ~ReadAt(s, "idle") /\ ~ReadAt(s, "get")
        /\ Len(read[s].presented) = read[s].attempt
        /\ read[s].provider \in Provider
        /\ \A i \in 1..Len(read[s].presented) : read[s].presented[i] <= granted + 1
    BY CallersTyped
  <2>2. read[s].presented \in Seq(Nat) /\ read[s].attempt \in 0..1
    BY <2>1 DEF ReadRecord
  <2> DEFINE t == granted + 2
  <2>3. t \in Nat
    BY <1>2
  <2>4. read'[s] = Sends(read[s], t) /\ http'[s] = Issued(BaseHost)
    BY <1>1, <2>1
  <2>5. /\ Append(read[s].presented, t) \in Seq(Nat)
        /\ Len(Append(read[s].presented, t)) = read[s].attempt + 1
        /\ Append(read[s].presented, t)[read[s].attempt + 1] = t
        /\ \A i \in 1..read[s].attempt : Append(read[s].presented, t)[i] = read[s].presented[i]
    BY <2>1, <2>2, <2>3
  <2>6. /\ read'[s] \in ReadRecord /\ read'[s].pc = "get" /\ read'[s].attempt = read[s].attempt
        /\ read'[s].presented = Append(read[s].presented, t)
        /\ read'[s].provider = read[s].provider
    BY <2>1, <2>4, <2>5 DEF Sends, ReadRecord
  <2>7. Counted(read'[s])
    BY <2>1, <2>5, <2>6 DEF Counted
  <2>8. \A i \in 1..Len(read'[s].presented) : read'[s].presented[i] <= granted' + 1
    <3>1. SUFFICES ASSUME NEW i \in 1..Len(read'[s].presented) PROVE read'[s].presented[i] <= granted' + 1
      OBVIOUS
    <3>2. CASE i = read[s].attempt + 1
      BY <1>1, <1>2, <2>5, <2>6, <3>2
    <3>3. CASE i # read[s].attempt + 1
      <4>1. i \in 1..read[s].attempt
        BY <2>2, <2>5, <2>6, <3>3
      <4>2. read'[s].presented[i] = read[s].presented[i] /\ read[s].presented[i] <= granted + 1
        BY <2>1, <2>5, <2>6, <4>1
      <4>3. read[s].presented[i] \in Nat
        BY <2>1, <2>2, <4>1
      <4> QED
        BY <1>1, <1>2, <4>2, <4>3
    <3> QED
      BY <3>2, <3>3
  <2>9. ReadPromise(s)!Present
    <3>1. http'[s].result # "401"
      BY <2>4, IssuedSound
    <3>2. ~ReadAt(s, "idle")'
      BY <2>6 DEF ReadAt
    <3>3. /\ Len(read'[s].presented) = Len(read[s].presented) + 1
          /\ read'[s].presented = Append(read[s].presented, read'[s].presented[Len(read'[s].presented)])
      BY <2>1, <2>2, <2>5, <2>6
    <3>4. \/ read[s].presented = <<>>
          \/ /\ Len(read[s].presented) = 1 /\ read[s].presented # <<>>
             /\ read'[s].presented[2] # read[s].presented[1]
      <4>1. CASE read[s].attempt = 0
        BY <2>1, <2>2, <4>1
      <4>2. CASE read[s].attempt = 1
        <5>1. read'[s].presented[2] = t /\ read[s].presented[1] <= granted + 1 /\ read[s].presented[1] \in Nat
          BY <2>1, <2>2, <2>5, <2>6, <4>2
        <5>2. Len(<<>>) = 0
          OBVIOUS
        <5> QED
          BY <1>2, <2>1, <4>2, <5>1, <5>2
      <4> QED
        BY <2>2, <4>1, <4>2
    <3>5. Len(read'[s].presented) # read'[s].attempt
      BY <2>2, <2>5, <2>6
    <3> QED
      BY <2>1, <3>1, <3>2, <3>3, <3>4, <3>5 DEF ReadPromise!Present
  <2> QED
    BY <2>1, <2>6, <2>7, <2>8, <2>9, Promising
<1>6. ASSUME NEW s \in Reader, s \notin Callers(p)
      PROVE  /\ Promised(s) /\ read'[s] \in ReadRecord /\ Counted(read'[s])
             /\ \A i \in 1..Len(read'[s].presented) : read'[s].presented[i] <= granted' + 1
  <2>1. read'[s] = read[s] /\ http'[s] = http[s]
    BY <1>1, <1>6
  <2>2. /\ read[s] \in ReadRecord /\ Counted(read[s])
        /\ \A i \in 1..Len(read[s].presented) : read[s].presented[i] <= granted + 1
    BY DEF ReadInv
  <2>3. \A i \in 1..Len(read[s].presented) : read[s].presented[i] \in Nat
    BY <2>2 DEF ReadRecord
  <2>4. \A i \in 1..Len(read[s].presented) : read[s].presented[i] <= granted' + 1
    BY <1>1, <1>2, <2>2, <2>3
  <2> QED
    BY <2>1, <2>2, <2>4, Bystander
<1>7. read' \in [Reader -> ReadRecord]
    BY <1>1, <1>5, <1>6
<1>8. \A s \in Reader : Counted(read[s])'
    BY <1>5, <1>6 DEF Counted
<1> QED
    BY <1>2, <1>3, <1>4, <1>5, <1>6, <1>7, <1>8 DEF ReadInv

\* A failed login ends them all.
LEMMA LoginFailedSound ==
    ASSUME ReadInv, NEW r \in Reader, LoginSettles(r), http[r].result # "ok"
    PROVE  ReadInv' /\ \A s \in Reader : Promised(s)
<1>0. PICK p : p = read[r].provider
    OBVIOUS
<1>1. /\ granted' = granted /\ ReadAt(r, "login")
      /\ provider' = [provider EXCEPT ![p].inflight = Nobody]
      /\ read' = [s \in Reader |-> IF s \in Callers(p) THEN Finished ELSE read[s]]
      /\ Becomes(r, Settled("none"))
    BY <1>0 DEF LoginSettles
<1>2. Finished \in ReadRecord /\ Counted(Finished) /\ Finished.presented = <<>> /\ Finished.pc = "idle"
    BY DEF Finished, ReadRecord, Counted, Kind
<1>3. RequestInv' /\ \A s \in Reader \ {r} : http'[s] = http[s]
  <2>1. RequestInv'
    BY <1>1, SettledSound, Requested DEF Reader, ReadInv
  <2> QED
    BY <1>1, <2>1 DEF Becomes, RequestInv, Reader, ReadInv
<1>4. Held(provider)'
  <2>1. provider \in [Provider -> ProviderRecord] /\ \A o \in Provider : provider[o].token <= granted + 1
    BY DEF ReadInv, Held
  <2>2. \A o \in Provider : /\ [provider[o] EXCEPT !.inflight = Nobody] \in ProviderRecord
                            /\ [provider[o] EXCEPT !.inflight = Nobody].token = provider[o].token
    BY <2>1 DEF ProviderRecord
  <2>3. provider' = [provider EXCEPT ![p] = [provider[p] EXCEPT !.inflight = Nobody]]
    BY <1>1
  <2>4. \A o \in Provider : provider'[o] \in ProviderRecord /\ provider'[o].token = provider[o].token
    BY <2>1, <2>2, <2>3
  <2> QED
    BY <1>1, <2>1, <2>3, <2>4 DEF Held
<1>5. r \in Callers(p)
    BY <1>0, <1>1 DEF Callers, ReadAt
<1>6. \A s \in Reader : read'[s] = Finished \/ read'[s] = read[s]
    BY <1>1
<1>7. read' \in [Reader -> ReadRecord]
    BY <1>1, <1>2 DEF ReadInv
<1>8. \A s \in Reader :
        Counted(read'[s]) /\ \A i \in 1..Len(read'[s].presented) : read'[s].presented[i] <= granted' + 1
  <2>1. \A i \in 1..Len(Finished.presented) : Finished.presented[i] <= granted' + 1
    BY <1>2
  <2> QED
    BY <1>1, <1>2, <1>6, <2>1 DEF ReadInv
<1>9. \A s \in Reader : Counted(read[s])'
    BY <1>8 DEF Counted
<1>10. ReadInv'
    BY <1>1, <1>3, <1>4, <1>7, <1>8, <1>9 DEF ReadInv
<1>11. ASSUME NEW s \in Callers(p) PROVE Promised(s)
  <2>1. s \in Reader /\ ~ReadAt(s, "idle")
    BY CallersTyped
  <2>2. read'[s] = Finished
    BY <1>1, <2>1
  <2>3. ReadPromise(s)!Close
    BY <1>2, <2>1, <2>2 DEF ReadPromise!Close, ReadPromise!Closed, ReadAt
  <2> QED
    BY <2>1, <2>3, Promising
<1>12. ASSUME NEW s \in Reader, s \notin Callers(p) PROVE Promised(s)
  <2>1. read'[s] = read[s] /\ http'[s] = http[s]
    BY <1>1, <1>3, <1>5, <1>12
  <2> QED
    BY <2>1, Bystander
<1> QED
    BY <1>10, <1>11, <1>12
\* The steps of the request below change no credential; its refusal is the contract's.
LEMMA OutboundSound ==
    ASSUME ReadInv, NEW r \in Reader, Outbound(r)
    PROVE  ReadInv' /\ \A s \in Reader : Promised(s)
<1>1. HttpStep(r) /\ UNCHANGED <<read, provider, granted, begun>> /\ RequestInv
    BY DEF Outbound, Unheard, ReadInv
<1>2. /\ RequestInv' /\ ~HttpAt(r, "idle")
      /\ http' = [http EXCEPT ![r] = http'[r]]
    BY <1>1, HttpMoves DEF Reader
<1>3. \A s \in Reader \ {r} : http'[s] = http[s]
    BY <1>1, <1>2 DEF RequestInv, Reader
<1>4. ReadInv'
  <2>1. Held(provider)' /\ \A s \in Reader : Counted(read[s])'
    BY <1>1 DEF ReadInv, Held, Counted
  <2> QED
    BY <1>1, <1>2, <2>1 DEF ReadInv
<1>5. Promised(r)
  <2>1. http[r].result = "none"
    BY <1>1, <1>2 DEF RequestInv, Reader
  <2>2. (ReadAt(r, "idle") <=> ReadAt(r, "idle")') /\ (ReadAt(r, "get") <=> ReadAt(r, "get")')
    BY <1>1 DEF ReadAt
  <2>3. CASE ReadAt(r, "get") /\ http'[r].result = "401"
    <3>1. /\ Len(read[r].presented) = read[r].attempt + 1 /\ read[r].attempt \in 0..1
          /\ read[r].presented \in Seq(Nat)
      BY <2>3 DEF ReadInv, Counted, ReadAt, ReadRecord
    <3>2. read[r].presented # <<>> /\ Len(read[r].presented) # read[r].attempt
      <4>1. Len(<<>>) = 0
        OBVIOUS
      <4> QED
        BY <3>1, <4>1
    <3>3. ~ReadAt(r, "idle")
      BY <2>3 DEF ReadAt
    <3>4. ReadPromise(r)!Refuse
      BY <1>1, <2>1, <2>2, <2>3, <3>2, <3>3 DEF ReadPromise!Refuse
    <3> QED
      BY <3>4, Promising
  <2>4. CASE ~(ReadAt(r, "get") /\ http'[r].result = "401")
    <3>1. UNCHANGED ReadPromise(r)!contractVars
      BY <1>1, <2>1, <2>2, <2>4 DEF ReadPromise!contractVars
    <3> QED
      BY <3>1 DEF Promised
  <2> QED
    BY <2>3, <2>4
<1> QED
    BY <1>1, <1>3, <1>4, <1>5, Bystander

\* The expiry of a cached token concerns no read in progress.
LEMMA QuietSound ==
    ASSUME ReadInv, UNCHANGED <<http, read, granted>>,
           UNCHANGED provider \/ \E p \in Provider : Expire(p)
    PROVE  ReadInv' /\ \A s \in Reader : Promised(s)
<1>1. Held(provider)'
  <2>1. CASE UNCHANGED provider
    BY <2>1 DEF Held, ReadInv
  <2>2. ASSUME NEW p \in Provider, Expire(p) PROVE Held(provider)'
    <3>1. provider[p] \in ProviderRecord
      BY DEF Held, ReadInv
    <3>2. provider' = [provider EXCEPT ![p] = [provider[p] EXCEPT !.current = FALSE]]
      BY <2>2 DEF Expire
    <3>3. /\ [provider[p] EXCEPT !.current = FALSE] \in ProviderRecord
          /\ [provider[p] EXCEPT !.current = FALSE].token = provider[p].token
      BY <3>1 DEF ProviderRecord
    <3> QED
      BY <3>2, <3>3 DEF Held, ReadInv
  <2> QED
    BY <2>1, <2>2
<1>2. RequestInv' /\ \A s \in Reader : Counted(read[s])'
    BY DEF ReadInv, RequestInv, ContactedIsPublic, HttpAt, Counted
<1> QED
    BY <1>1, <1>2, Bystander DEF ReadInv

\* Every step keeps ReadInv and is a step, or a stutter, of every reader's contract.
LEMMA ReadStep == ReadInv /\ [StockNext]_stockVars => ReadInv' /\ \A s \in Reader : Promised(s)
<1> SUFFICES ASSUME ReadInv, [StockNext]_stockVars PROVE ReadInv' /\ \A s \in Reader : Promised(s)
    OBVIOUS
<1>1. ASSUME NEW r \in Reader, NEW kind \in Kind, NEW p \in Provider \cup {Nobody}, Begin(r, kind, p)
      PROVE  ReadInv' /\ \A s \in Reader : Promised(s)
    BY <1>1, BeginSound
<1>2. ASSUME NEW r \in Reader, LoginSettles(r)
      PROVE  ReadInv' /\ \A s \in Reader : Promised(s)
    BY <1>2, GrantedSound, LoginFailedSound
<1>3. ASSUME NEW r \in Reader, Renew(r) \/ Finish(r) \/ Outbound(r)
      PROVE  ReadInv' /\ \A s \in Reader : Promised(s)
    BY <1>3, RenewSound, FinishSound, OutboundSound
<1>4. ASSUME NEW p \in Provider, Expire(p)
      PROVE  ReadInv' /\ \A s \in Reader : Promised(s)
  <2>1. UNCHANGED <<http, read, granted>>
    BY <1>4 DEF Expire
  <2> QED
    BY <1>4, <2>1, QuietSound
<1>5. CASE UNCHANGED stockVars
    BY <1>5, QuietSound DEF stockVars
<1> QED
    BY <1>1, <1>2, <1>3, <1>4, <1>5 DEF StockNext

\* At the start no contract is open.
LEMMA ReadInit == StockInit => ReadInv /\ \A r \in Reader : ReadPromise(r)!Closed
<1> SUFFICES ASSUME StockInit PROVE ReadInv /\ \A r \in Reader : ReadPromise(r)!Closed
    OBVIOUS
<1>1. RequestInv
  <2>1. /\ Settled("none") \in HttpState /\ Settled("none").pc = "idle"
        /\ http = [c \in Caller |-> Settled("none")]
    BY SettledSound DEF StockInit, HttpInit
  <2>2. \A c \in Caller : http[c].pc = "idle"
    BY <2>1
  <2> QED
    BY <2>1, <2>2 DEF RequestInv, ContactedIsPublic, HttpAt
<1>2. Finished \in ReadRecord /\ Counted(Finished) /\ Finished.presented = <<>> /\ Finished.pc = "idle"
    BY DEF Finished, ReadRecord, Counted, Kind
<1>3. read = [r \in Reader |-> Finished] /\ granted = 0
    BY DEF StockInit
<1>4. Held(provider)
  <2>1. NewProvider \in ProviderRecord /\ NewProvider.token = 0
    BY DEF NewProvider, ProviderRecord, NoToken
  <2> QED
    BY <1>3, <2>1 DEF StockInit, Held
<1>5. \A r \in Reader : read[r] = Finished /\ Len(read[r].presented) = 0
    BY <1>2, <1>3
<1>6. ReadInv
    BY <1>1, <1>2, <1>3, <1>4, <1>5 DEF ReadInv
<1> QED
    BY <1>2, <1>5, <1>6 DEF ReadPromise!Closed, ReadAt

\* ReadInv holds of any number of reads over any number of providers.
THEOREM ReadInvariant == StockSpec => []ReadInv
<1>1. StockInit => ReadInv
    BY ReadInit
<1>2. ReadInv /\ [StockNext]_stockVars => ReadInv'
    BY ReadStep
<1> QED
    BY <1>1, <1>2, PTL DEF StockSpec

(***************************************************************************)
(* Whatever names resolve to, and whatever redirects lead to, no request   *)
(* of any number of concurrent reads is connected to an address that is    *)
(* not public (ssrf.ts, safeHttpClient.ts:14-22).                          *)
(***************************************************************************)
THEOREM ContactedPublic == StockSpec => []ContactedIsPublic
<1>1. ReadInv => ContactedIsPublic
    BY DEF ReadInv, RequestInv
<1> QED
    BY <1>1, ReadInvariant, PTL

(***************************************************************************)
(* Whichever reads share a provider, whoever refreshes its token and       *)
(* whoever waits for whose login, every read presents at most two          *)
(* credentials, the second after a refusal and never the token that was    *)
(* refused (auth.ts:60, stockManagementAdapter.ts:88): the adapter         *)
(* implements ReadContract.                                                *)
(***************************************************************************)
THEOREM RereadsBounded == StockSpec => RereadsAreBounded
<1>1. StockInit => \A r \in Reader : ReadPromise(r)!Closed
    BY ReadInit
<1>2. ReadInv /\ [StockNext]_stockVars =>
          [\A r \in Reader :
              ReadPromise(r)!ContractNext \/ UNCHANGED ReadPromise(r)!contractVars]_stockVars
    BY ReadStep DEF Promised
<1> QED
    BY <1>1, <1>2, ReadInvariant, PTL DEF StockSpec, RereadsAreBounded

(***************************************************************************)
(* A read logs in at most twice, once in each turn of the loop: the tokens *)
(* granted, the logins under way and the second turns still to come are    *)
(* never more than two for each read that was begun.                       *)
(***************************************************************************)
LoggingIn == {r \in Reader : read[r].pc = "login"}

FirstTurn == {r \in Reader : read[r].pc # "idle" /\ read[r].attempt = 0}

Allotted ==
    /\ begun \in 0..MaxReads
    /\ IsFiniteSet(LoggingIn) /\ IsFiniteSet(FirstTurn)
    /\ granted + Cardinality(LoggingIn) + Cardinality(FirstTurn) <= 2 * begun
    /\ \A p \in Provider : provider[p].token # StaticToken

\* No read presents more than two credentials.
LEMMA TwoAtMost ==
    ASSUME NEW q \in ReadRecord, Counted(q) PROVE Len(q.presented) \in 0..2
<1>1. /\ q.pc \in {"idle", "login", "await", "get"} /\ q.attempt \in {0, 1}
      /\ q.presented \in Seq(Nat) /\ Len(q.presented) \in Nat
    BY DEF ReadRecord
<1>2. q.pc = "idle" => Len(q.presented) = 0
    BY DEF Counted
<1>3. q.pc \in {"login", "await"} => Len(q.presented) = q.attempt
    BY DEF Counted
<1>4. q.pc = "get" => Len(q.presented) = q.attempt + 1
    BY DEF Counted
<1>5. q.attempt \in Nat /\ q.attempt <= 1
    BY <1>1
<1>6. Len(q.presented) <= 2
    BY <1>1, <1>2, <1>3, <1>4, <1>5
<1> DEFINE n == Len(q.presented)
<1>7. n \in Nat /\ n <= 2
    BY <1>1, <1>6
<1> HIDE DEF n
<1>8. n \in 0..2
    BY <1>7
<1> QED
    BY <1>8 DEF n

\* Within the allotment the tokens have their types.
LEMMA StockFits == ReadInv /\ Allotted => StockTypeOK
<1> SUFFICES ASSUME ReadInv, Allotted PROVE StockTypeOK
    OBVIOUS
<1>1. /\ Cardinality(LoggingIn) \in Nat /\ Cardinality(FirstTurn) \in Nat
      /\ begun \in 0..MaxReads /\ MaxReads \in Nat /\ granted \in Nat
    BY FS_CardinalityType, StockAssumption DEF Allotted, ReadInv
<1>2. granted \in 0..(2 * MaxReads)
    BY <1>1 DEF Allotted
<1>3. ASSUME NEW r \in Reader PROVE read[r] \in ReadState
  <2> DEFINE q == read[r]
             n == Len(q.presented)
             Values == {Anonymous, StaticToken} \cup Token
  <2>1. q \in ReadRecord /\ Counted(q) /\ q.presented \in Seq(Nat)
    BY <1>3 DEF ReadInv, ReadRecord
  <2>2. n \in 0..2
    BY <2>1, TwoAtMost
  <2>3. ASSUME NEW i \in 1..n PROVE q.presented[i] \in Values
    <3>1. q.presented[i] \in Nat /\ q.presented[i] <= granted + 1
      BY <1>3, <2>1, <2>3 DEF ReadInv
    <3>2. q.presented[i] <= 2 * MaxReads + 1
      BY <1>1, <1>2, <3>1
    <3> HIDE DEF q
    <3> QED
      BY <1>1, <3>1, <3>2 DEF Anonymous, StaticToken, Token
  <2>4. q.presented \in [1..n -> Values]
    BY <2>1, <2>3
  <2>5. q.presented \in UNION {[1..m -> Values] : m \in 0..2}
    BY <2>2, <2>4
  <2> HIDE DEF n
  <2> QED
    BY <2>1, <2>5 DEF ReadRecord, ReadState
<1>4. ASSUME NEW p \in Provider PROVE provider[p] \in ProviderState
  <2>1. /\ provider[p] \in ProviderRecord /\ provider[p].token <= granted + 1
        /\ provider[p].token # StaticToken
    BY <1>4 DEF ReadInv, Held, Allotted
  <2>2. provider[p].token \in Nat
    BY <2>1 DEF ProviderRecord
  <2>3. provider[p].token \in {NoToken} \cup Token
    BY <1>1, <1>2, <2>1, <2>2 DEF NoToken, StaticToken, Token
  <2> QED
    BY <2>1, <2>3 DEF ProviderRecord, ProviderState
<1> QED
    BY <1>1, <1>2, <1>3, <1>4 DEF ReadInv, Held, RequestInv, StockTypeOK

\* A set loses an element, or gains one, and with it one of its number.
LEMMA OneMoreOrLess ==
    ASSUME NEW S, IsFiniteSet(S), NEW x
    PROVE  /\ IsFiniteSet(S \ {x}) /\ IsFiniteSet(S \cup {x})
           /\ Cardinality(S) \in Nat /\ Cardinality(S \ {x}) \in Nat
           /\ Cardinality(S \cup {x}) \in Nat
           /\ Cardinality(S \ {x}) <= Cardinality(S)
           /\ x \in S => Cardinality(S \ {x}) = Cardinality(S) - 1
           /\ Cardinality(S \cup {x}) <= Cardinality(S) + 1
<1>1. /\ IsFiniteSet(S \ {x})
      /\ Cardinality(S \ {x}) = IF x \in S THEN Cardinality(S) - 1 ELSE Cardinality(S)
    BY FS_RemoveElement
<1>2. /\ IsFiniteSet(S \cup {x})
      /\ Cardinality(S \cup {x}) = IF x \in S THEN Cardinality(S) ELSE Cardinality(S) + 1
    BY FS_AddElement
<1>3. /\ Cardinality(S) \in Nat /\ Cardinality(S \ {x}) \in Nat
      /\ Cardinality(S \cup {x}) \in Nat
    BY <1>1, <1>2, FS_CardinalityType
<1> QED
    BY <1>1, <1>2, <1>3

(***************************************************************************)
(* One reader changes: the logins under way and the first turns are those  *)
(* of the others, and its own.                                             *)
(***************************************************************************)
LEMMA OneMoves ==
    ASSUME ReadInv, Allotted, NEW r \in Reader, NEW q, read' = [read EXCEPT ![r] = q]
    PROVE  /\ IsFiniteSet(LoggingIn') /\ IsFiniteSet(FirstTurn')
           /\ Cardinality(LoggingIn) \in Nat /\ Cardinality(LoggingIn') \in Nat
           /\ Cardinality(FirstTurn) \in Nat /\ Cardinality(FirstTurn') \in Nat
           /\ Cardinality(LoggingIn') <= Cardinality(LoggingIn) + 1
           /\ q.pc # "login" => Cardinality(LoggingIn') <= Cardinality(LoggingIn)
           /\ Cardinality(FirstTurn') <= Cardinality(FirstTurn) + 1
           /\ q.pc = "idle" => Cardinality(FirstTurn') <= Cardinality(FirstTurn)
           /\ r \in FirstTurn /\ q.attempt # 0 =>
                 Cardinality(FirstTurn') = Cardinality(FirstTurn) - 1
<1>1. IsFiniteSet(LoggingIn) /\ IsFiniteSet(FirstTurn)
    BY DEF Allotted
<1>2. /\ LoggingIn' \in {LoggingIn \ {r}, LoggingIn \cup {r}}
      /\ q.pc # "login" => LoggingIn' = LoggingIn \ {r}
    BY DEF ReadInv, LoggingIn
<1>3. /\ FirstTurn' \in {FirstTurn \ {r}, FirstTurn \cup {r}}
      /\ q.pc = "idle" \/ q.attempt # 0 => FirstTurn' = FirstTurn \ {r}
    BY DEF ReadInv, FirstTurn
<1>4. /\ IsFiniteSet(LoggingIn') /\ Cardinality(LoggingIn) \in Nat
      /\ Cardinality(LoggingIn') \in Nat
      /\ Cardinality(LoggingIn') <= Cardinality(LoggingIn) + 1
      /\ q.pc # "login" => Cardinality(LoggingIn') <= Cardinality(LoggingIn)
  <2>1. /\ IsFiniteSet(LoggingIn \ {r}) /\ IsFiniteSet(LoggingIn \cup {r})
        /\ Cardinality(LoggingIn) \in Nat /\ Cardinality(LoggingIn \ {r}) \in Nat
        /\ Cardinality(LoggingIn \cup {r}) \in Nat
        /\ Cardinality(LoggingIn \ {r}) <= Cardinality(LoggingIn)
        /\ r \in LoggingIn => Cardinality(LoggingIn \ {r}) = Cardinality(LoggingIn) - 1
        /\ Cardinality(LoggingIn \cup {r}) <= Cardinality(LoggingIn) + 1
    BY <1>1, OneMoreOrLess
  <2>2. CASE LoggingIn' = LoggingIn \ {r}
    BY <2>1, <2>2
  <2>3. CASE LoggingIn' = LoggingIn \cup {r}
    BY <1>2, <1>3, <2>1, <2>3
  <2> QED
    BY <1>2, <2>2, <2>3
<1>5. /\ IsFiniteSet(FirstTurn') /\ Cardinality(FirstTurn) \in Nat
      /\ Cardinality(FirstTurn') \in Nat
      /\ Cardinality(FirstTurn') <= Cardinality(FirstTurn) + 1
      /\ q.pc = "idle" => Cardinality(FirstTurn') <= Cardinality(FirstTurn)
      /\ r \in FirstTurn /\ q.attempt # 0 =>
            Cardinality(FirstTurn') = Cardinality(FirstTurn) - 1
  <2>1. /\ IsFiniteSet(FirstTurn \ {r}) /\ IsFiniteSet(FirstTurn \cup {r})
        /\ Cardinality(FirstTurn) \in Nat /\ Cardinality(FirstTurn \ {r}) \in Nat
        /\ Cardinality(FirstTurn \cup {r}) \in Nat
        /\ Cardinality(FirstTurn \ {r}) <= Cardinality(FirstTurn)
        /\ r \in FirstTurn => Cardinality(FirstTurn \ {r}) = Cardinality(FirstTurn) - 1
        /\ Cardinality(FirstTurn \cup {r}) <= Cardinality(FirstTurn) + 1
    BY <1>1, OneMoreOrLess
  <2>2. CASE FirstTurn' = FirstTurn \ {r}
    BY <2>1, <2>2
  <2>3. CASE FirstTurn' = FirstTurn \cup {r}
    BY <1>2, <1>3, <2>1, <2>3
  <2> QED
    BY <1>3, <2>2, <2>3
<1> QED
    BY <1>4, <1>5

\* A turn of the loop leaves the reader in it, and forges no configured token.
LEMMA TurnsOnce ==
    ASSUME NEW r \in Reader, NEW q \in ReadRecord, NEW provs, Attempt(r, q, provs),
           q.kind = "password" => q.provider \in Provider,
           provs \in [Provider -> ProviderRecord],
           \A p \in Provider : provs[p].token # StaticToken
    PROVE  /\ \E n : /\ read' = [read EXCEPT ![r] = n] /\ n.attempt = q.attempt
                     /\ n.pc \in {"get", "login", "await"}
           /\ \A p \in Provider : provider'[p].token # StaticToken
<1>1. ASSUME NEW token, PresentAtOnce(r, q, token)
      PROVE  \E n : /\ read' = [read EXCEPT ![r] = n] /\ n.attempt = q.attempt
                    /\ n.pc \in {"get", "login", "await"}
  <2>1. Sends(q, token).pc = "get" /\ Sends(q, token).attempt = q.attempt
    BY DEF Sends, ReadRecord
  <2> QED
    BY <1>1, <2>1 DEF PresentAtOnce
<1>2. ASSUME NEW pc \in {"login", "await"}, read' = [read EXCEPT ![r] = [q EXCEPT !.pc = pc]]
      PROVE  \E n : /\ read' = [read EXCEPT ![r] = n] /\ n.attempt = q.attempt
                    /\ n.pc \in {"get", "login", "await"}
  <2>1. [q EXCEPT !.pc = pc].pc = pc /\ [q EXCEPT !.pc = pc].attempt = q.attempt
    BY DEF ReadRecord
  <2> QED
    BY <1>2, <2>1
<1>3. CASE q.kind # "password"
  <2>1. provider' = provs /\ \E token : PresentAtOnce(r, q, token)
    BY <1>3 DEF Attempt
  <2> QED
    BY <1>1, <2>1
<1>4. CASE q.kind = "password"
  <2> DEFINE p == q.provider
  <2>1. GetAccessToken(r, q, provs) /\ p \in Provider
    BY <1>4 DEF Attempt
  <2>2. CASE provider' = provs /\ PresentAtOnce(r, q, provs[p].token)
    BY <1>1, <2>2
  <2>3. CASE provider' = provs /\ read' = [read EXCEPT ![r] = [q EXCEPT !.pc = "await"]]
    BY <1>2, <2>3
  <2>4. CASE /\ read' = [read EXCEPT ![r] = [q EXCEPT !.pc = "login"]]
             /\ provider' = [provs EXCEPT ![p].inflight = r]
    <3>1. \A o \in Provider : provider'[o].token = provs[o].token
      BY <2>1, <2>4 DEF ProviderRecord
    <3> QED
      BY <1>2, <2>4, <3>1
  <2> QED
    BY <2>1, <2>2, <2>3, <2>4 DEF GetAccessToken
<1> QED
    BY <1>3, <1>4

\* Every step of the adapter, of another request and of the clock keeps the allotment.
LEMMA AllottedKept == ReadInv /\ Allotted /\ [StockNext]_stockVars => Allotted'
<1> SUFFICES ASSUME ReadInv, Allotted, [StockNext]_stockVars PROVE Allotted'
    OBVIOUS
<1>0. /\ read \in [Reader -> ReadRecord] /\ provider \in [Provider -> ProviderRecord]
      /\ \A r \in Reader : Counted(read[r])
      /\ granted \in Nat /\ begun \in 0..MaxReads /\ MaxReads \in Nat
      /\ IsFiniteSet(LoggingIn) /\ IsFiniteSet(FirstTurn)
      /\ granted + Cardinality(LoggingIn) + Cardinality(FirstTurn) <= 2 * begun
      /\ \A p \in Provider : provider[p].token # StaticToken
    BY StockAssumption DEF ReadInv, Held, Allotted
<1>1. ASSUME NEW r \in Reader, NEW k \in Kind, NEW p \in Provider \cup {Nobody}, Begin(r, k, p)
      PROVE  Allotted'
  <2> DEFINE provs == IF p = Nobody \/ Shared THEN provider
                        ELSE [provider EXCEPT ![p] = NewProvider]
             q == Starting(k, p)
  <2>1. /\ q \in ReadRecord /\ q.attempt = 0 /\ q.kind = k /\ q.provider = p
        /\ q.kind = "password" => q.provider \in Provider
    BY <1>1 DEF Starting, ReadRecord, Begin
  <2>2. /\ provs \in [Provider -> ProviderRecord]
        /\ \A o \in Provider : provs[o].token # StaticToken
    BY <1>0, <1>1 DEF NewProvider, ProviderRecord, NoToken, StaticToken
  <2>3. /\ Attempt(r, q, provs) /\ read[r].pc = "idle" /\ begun < MaxReads
        /\ begun' = begun + 1 /\ granted' = granted
    BY <1>1 DEF Begin, ReadAt
  <2> HIDE DEF provs, q
  <2>4. PICK n : /\ read' = [read EXCEPT ![r] = n] /\ n.attempt = 0
                 /\ n.pc \in {"get", "login", "await"}
    BY <2>1, <2>2, <2>3, TurnsOnce
  <2>5. \A o \in Provider : provider'[o].token # StaticToken
    BY <2>1, <2>2, <2>3, TurnsOnce
  <2>6. r \notin LoggingIn /\ r \notin FirstTurn
    BY <2>3 DEF LoggingIn, FirstTurn
  <2>7. /\ IsFiniteSet(LoggingIn') /\ IsFiniteSet(FirstTurn')
        /\ Cardinality(LoggingIn) \in Nat /\ Cardinality(LoggingIn') \in Nat
        /\ Cardinality(FirstTurn) \in Nat /\ Cardinality(FirstTurn') \in Nat
        /\ Cardinality(LoggingIn') <= Cardinality(LoggingIn) + 1
        /\ Cardinality(FirstTurn') <= Cardinality(FirstTurn) + 1
    BY <2>4, <2>6, OneMoves
  <2> QED
    BY <1>0, <2>3, <2>5, <2>7 DEF Allotted
<1>2. ASSUME NEW r \in Reader, LoginSettles(r) PROVE Allotted'
  <2> DEFINE p == read[r].provider
  <2>0. /\ read[r].pc = "login" /\ begun' = begun /\ r \in LoggingIn /\ p \in Provider
        /\ r \in Callers(p)
    BY <1>0, <1>2 DEF LoginSettles, ReadAt, LoggingIn, Callers, Counted
  <2>1. CASE http[r].result = "ok"
    <3>1. /\ granted' = granted + 1
          /\ provider' = [provider EXCEPT ![p] =
                 [token |-> granted + 2, current |-> TRUE, inflight |-> Nobody]]
          /\ read' = [s \in Reader |->
                 IF s \in Callers(p) THEN Sends(read[s], granted + 2) ELSE read[s]]
      BY <1>2, <2>1 DEF LoginSettles
    <3>2. \A s \in Reader : /\ Sends(read[s], granted + 2).pc = "get"
                            /\ Sends(read[s], granted + 2).attempt = read[s].attempt
      BY <1>0 DEF Sends, ReadRecord
    <3>3. LoggingIn' \subseteq LoggingIn \ {r}
      BY <2>0, <3>1, <3>2 DEF LoggingIn
    <3>4. FirstTurn' \subseteq FirstTurn
      BY <2>0, <3>1, <3>2 DEF FirstTurn, Callers
    <3>5. \A o \in Provider : provider'[o].token # StaticToken
      BY <1>0, <3>1 DEF StaticToken
    <3>6. /\ IsFiniteSet(LoggingIn \ {r}) /\ Cardinality(LoggingIn) \in Nat
          /\ Cardinality(LoggingIn \ {r}) = Cardinality(LoggingIn) - 1
      BY <1>0, <2>0, FS_RemoveElement, FS_CardinalityType
    <3>7. /\ IsFiniteSet(LoggingIn') /\ Cardinality(LoggingIn') \in Nat
          /\ Cardinality(LoggingIn') <= Cardinality(LoggingIn) - 1
      BY <3>3, <3>6, FS_Subset, FS_CardinalityType
    <3>8. /\ IsFiniteSet(FirstTurn') /\ Cardinality(FirstTurn') \in Nat
          /\ Cardinality(FirstTurn) \in Nat /\ Cardinality(FirstTurn') <= Cardinality(FirstTurn)
      BY <1>0, <3>4, FS_Subset, FS_CardinalityType
    <3> QED
      BY <1>0, <2>0, <3>1, <3>5, <3>6, <3>7, <3>8 DEF Allotted
  <2>2. CASE http[r].result # "ok"
    <3>1. /\ granted' = granted
          /\ provider' = [provider EXCEPT ![p].inflight = Nobody]
          /\ read' = [s \in Reader |-> IF s \in Callers(p) THEN Finished ELSE read[s]]
      BY <1>2, <2>2 DEF LoginSettles
    <3>2. LoggingIn' \subseteq LoggingIn /\ FirstTurn' \subseteq FirstTurn
      BY <3>1 DEF LoggingIn, FirstTurn, Finished
    <3>3. \A o \in Provider : provider'[o].token # StaticToken
      BY <1>0, <3>1 DEF ProviderRecord
    <3>4. /\ IsFiniteSet(LoggingIn') /\ IsFiniteSet(FirstTurn')
          /\ Cardinality(LoggingIn) \in Nat /\ Cardinality(LoggingIn') \in Nat
          /\ Cardinality(FirstTurn) \in Nat /\ Cardinality(FirstTurn') \in Nat
          /\ Cardinality(LoggingIn') <= Cardinality(LoggingIn)
          /\ Cardinality(FirstTurn') <= Cardinality(FirstTurn)
      BY <1>0, <3>2, FS_Subset, FS_CardinalityType
    <3> QED
      BY <1>0, <2>0, <3>1, <3>3, <3>4 DEF Allotted
  <2> QED
    BY <2>1, <2>2
<1>3. ASSUME NEW r \in Reader, Renew(r) PROVE Allotted'
  <2> DEFINE provs == IF read[r].kind = "password"
                        THEN OnUnauthorized(provider, read[r].provider) ELSE provider
             q == [read[r] EXCEPT !.attempt = 1]
  <2>0. /\ read[r] \in ReadRecord
        /\ read[r].kind = "password" => read[r].provider \in Provider
    BY <1>0, <1>3 DEF Counted
  <2>1. /\ q \in ReadRecord /\ q.attempt = 1
        /\ q.kind = "password" => q.provider \in Provider
    BY <2>0 DEF ReadRecord
  <2>2. /\ provs \in [Provider -> ProviderRecord]
        /\ \A o \in Provider : provs[o].token # StaticToken
    <3>1. ASSUME NEW o \in Provider
          PROVE  /\ OnUnauthorized(provider, o) \in [Provider -> ProviderRecord]
                 /\ \A p \in Provider : OnUnauthorized(provider, o)[p].token # StaticToken
      <4>1. OnUnauthorized(provider, o) =
                [provider EXCEPT ![o] = [provider[o] EXCEPT !.token = NoToken,
                                                            !.current = FALSE]]
        BY <1>0, <3>1 DEF OnUnauthorized
      <4>2. /\ [provider[o] EXCEPT !.token = NoToken, !.current = FALSE] \in ProviderRecord
            /\ [provider[o] EXCEPT !.token = NoToken, !.current = FALSE].token = NoToken
        BY <1>0, <3>1 DEF ProviderRecord, NoToken
      <4> QED
        BY <1>0, <3>1, <4>1, <4>2 DEF NoToken, StaticToken
    <3> QED
      BY <1>0, <2>0, <3>1
  <2>3. /\ Attempt(r, q, provs) /\ read[r].pc = "get" /\ read[r].attempt = 0
        /\ begun' = begun /\ granted' = granted
    BY <1>3 DEF Renew, RenewsOnce, ReadAt
  <2> HIDE DEF provs, q
  <2>4. PICK n : /\ read' = [read EXCEPT ![r] = n] /\ n.attempt = 1
                 /\ n.pc \in {"get", "login", "await"}
    BY <2>1, <2>2, <2>3, TurnsOnce
  <2>5. \A o \in Provider : provider'[o].token # StaticToken
    BY <2>1, <2>2, <2>3, TurnsOnce
  <2>6. r \notin LoggingIn /\ r \in FirstTurn
    BY <2>3 DEF LoggingIn, FirstTurn
  <2>7. /\ IsFiniteSet(LoggingIn') /\ IsFiniteSet(FirstTurn')
        /\ Cardinality(LoggingIn) \in Nat /\ Cardinality(LoggingIn') \in Nat
        /\ Cardinality(FirstTurn) \in Nat /\ Cardinality(FirstTurn') \in Nat
        /\ Cardinality(LoggingIn') <= Cardinality(LoggingIn) + 1
        /\ Cardinality(FirstTurn') = Cardinality(FirstTurn) - 1
    <3>1. n.attempt # 0
      BY <2>4
    <3> QED
      BY <2>4, <2>6, <3>1, OneMoves
  <2> QED
    BY <1>0, <2>3, <2>5, <2>7 DEF Allotted
<1>4. ASSUME NEW r \in Reader, Finish(r) PROVE Allotted'
  <2>1. /\ read' = [read EXCEPT ![r] = Finished] /\ Finished.pc = "idle"
        /\ UNCHANGED <<provider, granted, begun>>
    BY <1>4 DEF Finish, Finished
  <2>2. /\ IsFiniteSet(LoggingIn') /\ IsFiniteSet(FirstTurn')
        /\ Cardinality(LoggingIn) \in Nat /\ Cardinality(LoggingIn') \in Nat
        /\ Cardinality(FirstTurn) \in Nat /\ Cardinality(FirstTurn') \in Nat
        /\ Cardinality(LoggingIn') <= Cardinality(LoggingIn)
        /\ Cardinality(FirstTurn') <= Cardinality(FirstTurn)
    BY <2>1, OneMoves
  <2> QED
    BY <1>0, <2>1, <2>2 DEF Allotted
<1>5. ASSUME UNCHANGED <<read, granted, begun>>,
             \A p \in Provider : provider'[p].token = provider[p].token
      PROVE  Allotted'
    BY <1>5 DEF Allotted, LoggingIn, FirstTurn
<1>6. ASSUME NEW r \in Reader, Outbound(r) PROVE Allotted'
    BY <1>5, <1>6 DEF Outbound, Unheard
<1>7. ASSUME NEW p \in Provider, Expire(p) PROVE Allotted'
  <2>1. \A o \in Provider : provider'[o].token = provider[o].token
    BY <1>0, <1>7 DEF Expire, ProviderRecord
  <2> QED
    BY <1>5, <1>7, <2>1 DEF Expire
<1>8. CASE UNCHANGED stockVars
    BY <1>5, <1>8 DEF stockVars
<1> QED
    BY <1>1, <1>2, <1>3, <1>4, <1>6, <1>7, <1>8 DEF StockNext

(***************************************************************************)
(* Of any number of reads, each presents at most two credentials, and all  *)
(* of them together take no more than two tokens for each read from the    *)
(* provider: the loop of stockManagementAdapter.ts turns at most twice,    *)
(* and logs in at most once in each turn.                                  *)
(***************************************************************************)
THEOREM StockTypeCorrect == StockSpec => []StockTypeOK
<1>1. StockInit => Allotted
  <2> SUFFICES ASSUME StockInit PROVE Allotted
    OBVIOUS
  <2>1. LoggingIn = {} /\ FirstTurn = {}
    BY DEF StockInit, Finished, LoggingIn, FirstTurn
  <2>2. \A p \in Provider : provider[p].token # StaticToken
    BY DEF StockInit, NewProvider, NoToken, StaticToken
  <2> QED
    BY <2>1, <2>2, FS_EmptySet, StockAssumption DEF StockInit, Allotted
<1> QED
    BY <1>1, ReadInvariant, AllottedKept, StockFits, PTL DEF StockSpec
-----------------------------------------------------------------------------
(* Requests to Keycloak *)

KcRecord ==
    [pc: {"idle", "grant", "token", "sent", "body"}, granted: Nat,
     presented: Seq(Nat), status: KcStatus, answer: Answer]

(***************************************************************************)
(* What a request knows of its effect d: none before the headers of the    *)
(* answer that counts, none after a refusal, and one after an "ok".        *)
(***************************************************************************)
Effective(q, d) ==
    /\ d \in {0, 1}
    /\ q.pc \in {"grant", "token", "sent"} => d = 0
    /\ q.pc = "body" /\ q.status = "401" => d = 0
    /\ q.pc = "body" /\ q.status = "ok" => d = 1
    /\ q.pc # "idle" => q.answer = "none"
    /\ q.answer = "200" => d = 1
    /\ q.answer # "401"

\* A second token is fetched only for a request whose first one was refused.
Refetched(q) ==
    /\ q.pc = "idle" => q.presented = <<>>
    /\ q.pc \in {"grant", "token"} => Len(q.presented) = 0 \/ (Len(q.presented) = 1 /\ q.status = "401")
    /\ q.pc \in {"sent", "body"} => Len(q.presented) \in {1, 2}

\* Tokens are numbered as they are granted.
Older(q, last) ==
    /\ \A i \in 1..Len(q.presented) : q.presented[i] <= last
    /\ q.pc = "token" =>
          q.granted <= last /\ \A i \in 1..Len(q.presented) : q.presented[i] < q.granted

Fit(q, d, last) == q \in KcRecord /\ Effective(q, d) /\ Refetched(q) /\ Older(q, last)

CacheFit(cache, last) == cache \in [value: Nat, fresh: BOOLEAN] /\ cache.value <= last

KcInv ==
    /\ kc \in [KcCaller -> KcRecord]
    /\ done \in [KcCaller -> {0, 1}]
    /\ kcGranted \in Nat
    /\ CacheFit(cachedToken, kcGranted)
    /\ \A r \in KcCaller : Fit(kc[r], done[r], kcGranted)

KcPromised(r) == KcPromise(r)!ContractNext \/ UNCHANGED KcPromise(r)!contractVars

\* Each action of the contract, and a stutter, is a step that it allows.
LEMMA KcPromising ==
    ASSUME NEW r \in KcCaller,
           \/ KcPromise(r)!Open \/ KcPromise(r)!Refuse \/ KcPromise(r)!Close
           \/ KcPromise(r)!Present \/ UNCHANGED KcPromise(r)!contractVars
    PROVE  KcPromised(r)
    BY DEF KcPromised, KcPromise!ContractNext

\* A request that a step does not touch stutters in its contract.
LEMMA KcBystander ==
    ASSUME NEW s \in KcCaller, kc'[s] = kc[s]
    PROVE  KcPromised(s)
<1>1. /\ KcAt(s, "idle")' <=> KcAt(s, "idle")
      /\ KcAt(s, "sent")' <=> KcAt(s, "sent")
      /\ Refused(s)' <=> Refused(s)
    BY DEF KcAt, Refused
<1>2. UNCHANGED KcPromise(s)!contractVars
    BY <1>1 DEF KcPromise!contractVars
<1> QED
    BY <1>2, KcPromising

\* One request's record changes, and tokens at most are granted.
LEMMA OneRequest ==
    ASSUME KcInv, NEW r \in KcCaller, NEW q, NEW d \in {0, 1},
           kcGranted' \in Nat, kcGranted' >= kcGranted, CacheFit(cachedToken', kcGranted'),
           KcBecomes(r, q), done' = [done EXCEPT ![r] = d], Fit(q, d, kcGranted')
    PROVE  KcInv' /\ kc'[r] = q /\ \A s \in KcCaller \ {r} : KcPromised(s)
<1>1. /\ kc' = [kc EXCEPT ![r] = q] /\ q \in KcRecord /\ kc' \in [KcCaller -> KcRecord]
      /\ kc'[r] = q /\ \A s \in KcCaller \ {r} : kc'[s] = kc[s]
    BY DEF KcBecomes, KcInv, Fit
<1>2. done' \in [KcCaller -> {0, 1}] /\ done'[r] = d /\ \A s \in KcCaller \ {r} : done'[s] = done[s]
    BY DEF KcInv
<1>3. ASSUME NEW s \in KcCaller PROVE Fit(kc'[s], done'[s], kcGranted')
  <2>1. CASE s = r
    BY <1>1, <1>2, <2>1
  <2>2. CASE s # r
    <3>1. Fit(kc[s], done[s], kcGranted) /\ kc'[s] = kc[s] /\ done'[s] = done[s]
      BY <1>1, <1>2, <2>2 DEF KcInv
    <3>2. kcGranted \in Nat /\ kc[s].granted \in Nat /\ kc[s].presented \in Seq(Nat)
      BY DEF KcInv, KcRecord
    <3>3. \A i \in 1..Len(kc[s].presented) : kc[s].presented[i] \in Nat
      BY <3>2
    <3>4. Older(kc[s], kcGranted')
      BY <3>1, <3>2, <3>3 DEF Fit, Older
    <3> QED
      BY <3>1, <3>4 DEF Fit
  <2> QED
    BY <2>1, <2>2
<1>4. KcInv'
    BY <1>1, <1>2, <1>3 DEF KcInv
<1> QED
    BY <1>1, <1>4, KcBystander

\* What KcInv says of one request, of its types first.
LEMMA RequestTyped ==
    ASSUME KcInv, NEW r \in KcCaller
    PROVE  /\ kc[r] \in KcRecord /\ done[r] \in {0, 1} /\ kcGranted \in Nat
           /\ kc[r].presented \in Seq(Nat) /\ kc[r].granted \in Nat
           /\ \A i \in 1..Len(kc[r].presented) : kc[r].presented[i] \in Nat
           /\ done = [done EXCEPT ![r] = done[r]]
           /\ Fit(kc[r], done[r], kcGranted) /\ CacheFit(cachedToken, kcGranted)
<1>1. kc[r] \in KcRecord /\ done[r] \in {0, 1} /\ kcGranted \in Nat
    BY DEF KcInv
<1>2. kc[r].presented \in Seq(Nat) /\ kc[r].granted \in Nat
    BY <1>1 DEF KcRecord
<1>3. \A i \in 1..Len(kc[r].presented) : kc[r].presented[i] \in Nat
    BY <1>2
<1> QED
    BY <1>1, <1>2, <1>3 DEF KcInv

\* A request that has ended with a true answer is as it should be.
LEMMA Over ==
    ASSUME NEW answer \in Answer \ {"401"}, NEW d \in {0, 1}, answer = "200" => d = 1, NEW last \in Nat
    PROVE  Fit(KcOver(answer), d, last) /\ KcOver(answer).pc = "idle" /\ KcOver(answer).presented = <<>>
<1>1. /\ KcOver(answer) \in KcRecord /\ KcOver(answer).pc = "idle" /\ KcOver(answer).presented = <<>>
      /\ KcOver(answer).answer = answer /\ Len(KcOver(answer).presented) = 0
    BY DEF KcOver, KcRecord, KcStatus
<1> QED
    BY <1>1 DEF Fit, Effective, Refetched, Older

\* The request ends with an answer.
LEMMA Ending ==
    ASSUME KcInv, NEW r \in KcCaller, ~KcAt(r, "idle"), NEW answer \in Answer \ {"401"},
           NEW d \in {0, 1}, answer = "200" => d = 1,
           KcBecomes(r, KcOver(answer)), done' = [done EXCEPT ![r] = d],
           UNCHANGED <<cachedToken, kcGranted>>
    PROVE  KcInv' /\ \A s \in KcCaller : KcPromised(s)
<1>1. kcGranted \in Nat /\ CacheFit(cachedToken, kcGranted)
    BY DEF KcInv
<1>2. Fit(KcOver(answer), d, kcGranted') /\ KcOver(answer).pc = "idle" /\ KcOver(answer).presented = <<>>
    BY <1>1, Over
<1>3. KcInv' /\ kc'[r] = KcOver(answer) /\ \A s \in KcCaller \ {r} : KcPromised(s)
  <2>1. kcGranted' \in Nat /\ kcGranted' >= kcGranted /\ CacheFit(cachedToken', kcGranted')
    BY <1>1
  <2> QED
    BY <1>2, <2>1, OneRequest
<1>4. KcPromise(r)!Close
    BY <1>2, <1>3 DEF KcPromise!Close, KcPromise!Closed, KcAt
<1> QED
    BY <1>3, <1>4, KcPromising
\* A request is sent with a token: the first, or a later one than was refused.
LEMMA SendingFit ==
    ASSUME NEW q \in KcRecord, NEW t \in Nat, NEW last \in Nat, t <= last, Older(q, last),
           q.answer = "none",
           Len(q.presented) = 0 \/ Len(q.presented) = 1
    PROVE  /\ Fit(Sending(q, t), 0, last)
           /\ Sending(q, t).pc = "sent" /\ Sending(q, t).presented = Append(q.presented, t)
           /\ Len(Sending(q, t).presented) = Len(q.presented) + 1
<1>1. q.presented \in Seq(Nat)
    BY DEF KcRecord
<1>2. Append(q.presented, t) \in Seq(Nat) /\ Len(Append(q.presented, t)) = Len(q.presented) + 1
    BY <1>1
<1>3. /\ Sending(q, t) \in KcRecord /\ Sending(q, t).pc = "sent"
      /\ Sending(q, t).presented = Append(q.presented, t)
      /\ Sending(q, t).answer = "none"
    BY <1>2 DEF Sending, KcRecord
<1> HIDE DEF Sending
<1>4. \A i \in 1..Len(Append(q.presented, t)) : Append(q.presented, t)[i] <= last
    BY <1>1, <1>2 DEF Older
<1>5. Effective(Sending(q, t), 0)
    BY <1>3 DEF Effective
<1>6. Refetched(Sending(q, t))
  <2>1. Len(Sending(q, t).presented) \in {1, 2}
    BY <1>2, <1>3
  <2> QED
    BY <1>3, <2>1 DEF Refetched
<1>7. Older(Sending(q, t), last)
    BY <1>3, <1>4 DEF Older
<1> QED
    BY <1>2, <1>3, <1>5, <1>6, <1>7 DEF Fit

\* A request starts with the cached token, or asks for one.
LEMMA KcBeginSound ==
    ASSUME KcInv, NEW r \in KcCaller, KcBegin(r)
    PROVE  KcInv' /\ \A s \in KcCaller : KcPromised(s)
<1>1. kcGranted \in Nat /\ kcGranted' = kcGranted /\ CacheFit(cachedToken, kcGranted) /\ cachedToken' = cachedToken
    BY DEF KcBegin, KcInv
<1>2. KcAt(r, "idle") /\ done' = [done EXCEPT ![r] = 0] /\ SendAuthorized(r, KcOver("none"), cachedToken)
    BY DEF KcBegin
<1>3. /\ KcOver("none") \in KcRecord /\ KcOver("none").answer = "none"
      /\ KcOver("none").presented = <<>> /\ Len(KcOver("none").presented) = 0
    BY DEF KcOver, KcRecord, KcStatus, Answer
<1>4. kcGranted' >= kcGranted /\ kcGranted' \in Nat /\ CacheFit(cachedToken', kcGranted')
    BY <1>1
<1>5. CASE cachedToken.fresh
  <2> DEFINE t == cachedToken.value
             q == Sending(KcOver("none"), t)
  <2>1. t \in Nat /\ t <= kcGranted
    BY <1>1 DEF CacheFit
  <2>2. Older(KcOver("none"), kcGranted)
    BY <1>3 DEF Older, KcOver
  <2>3. Fit(q, 0, kcGranted) /\ q.pc = "sent" /\ Len(q.presented) = 1
    <3> DEFINE first == KcOver("none")
    <3>1. /\ first \in KcRecord /\ Older(first, kcGranted) /\ first.answer = "none"
          /\ Len(first.presented) = 0 /\ q = Sending(first, t)
      BY <1>3, <2>2
    <3> HIDE DEF first, q, t
    <3>2. Fit(q, 0, kcGranted) /\ q.pc = "sent" /\ Len(q.presented) = Len(first.presented) + 1
      BY <1>1, <2>1, <3>1, SendingFit
    <3> QED
      BY <3>1, <3>2
  <2>4. KcBecomes(r, q)
    BY <1>2, <1>5 DEF SendAuthorized
  <2> HIDE DEF q, t
  <2>5. KcInv' /\ kc'[r] = q /\ \A s \in KcCaller \ {r} : KcPromised(s)
    BY <1>1, <1>2, <1>4, <2>3, <2>4, OneRequest
  <2>6. KcPromise(r)!Open
    <3>1. KcAt(r, "idle") /\ ~KcAt(r, "idle")' /\ KcAt(r, "sent")' /\ ~Refused(r)'
      BY <1>2, <2>3, <2>5 DEF KcAt, Refused
    <3>2. Len(kc'[r].presented) <= 1
      <4>1. kc'[r] = q
        BY <2>5
      <4>2. Len(kc'[r].presented) = 1
        BY <2>3, <4>1
      <4> QED
        BY <4>2
    <3>3. ~(Refused(r) \/ (~KcAt(r, "sent") /\ kc[r].status = "401"))'
      BY <3>1
    <3> QED
      BY <3>1, <3>2, <3>3 DEF KcPromise!Open
  <2> QED
    BY <2>5, <2>6, KcPromising
<1>6. CASE ~cachedToken.fresh
  <2> DEFINE q == [KcOver("none") EXCEPT !.pc = "grant"]
  <2>1. q \in KcRecord /\ q.pc = "grant" /\ q.answer = "none" /\ q.presented = <<>> /\ Len(q.presented) = 0
    BY <1>3 DEF KcRecord
  <2>2. Fit(q, 0, kcGranted')
    BY <2>1 DEF Fit, Effective, Refetched, Older
  <2>3. KcBecomes(r, q)
    BY <1>2, <1>6 DEF SendAuthorized
  <2> HIDE DEF q
  <2>4. KcInv' /\ kc'[r] = q /\ \A s \in KcCaller \ {r} : KcPromised(s)
    BY <1>2, <1>4, <2>2, <2>3, OneRequest
  <2>5. KcPromise(r)!Open
    BY <1>2, <2>1, <2>4 DEF KcPromise!Open, KcAt
  <2> QED
    BY <2>4, <2>5, KcPromising
<1> QED
    BY <1>5, <1>6

\* A refused grant is never answered as a 401.
LEMMA GrantRefusedSound ==
    ASSUME KcInv, NEW r \in KcCaller, NEW status \in KcStatus, GrantRefused(r, status)
    PROVE  KcInv' /\ \A s \in KcCaller : KcPromised(s)
<1>1. /\ ~KcAt(r, "idle") /\ KcBecomes(r, KcOver(UpstreamAnswer(status)))
      /\ UNCHANGED <<cachedToken, kcGranted>> /\ done' = done
    BY DEF GrantRefused, KcAt
<1>2. UpstreamAnswer(status) \in Answer \ {"401"} /\ UpstreamAnswer(status) # "200"
    BY DEF UpstreamAnswer, Answer
<1>3. done[r] \in {0, 1} /\ done = [done EXCEPT ![r] = done[r]]
    BY RequestTyped
<1> QED
    BY <1>1, <1>2, <1>3, Ending

\* A grant is newer than any token presented before.
LEMMA GrantSound ==
    ASSUME KcInv, NEW r \in KcCaller, Grant(r)
    PROVE  KcInv' /\ \A s \in KcCaller : KcPromised(s)
<1> DEFINE q == [kc[r] EXCEPT !.pc = "token", !.granted = kcGranted + 1]
<1>1. /\ kc[r] \in KcRecord /\ done[r] \in {0, 1} /\ kcGranted \in Nat
      /\ kc[r].presented \in Seq(Nat)
      /\ \A i \in 1..Len(kc[r].presented) : kc[r].presented[i] \in Nat
      /\ done = [done EXCEPT ![r] = done[r]]
      /\ Fit(kc[r], done[r], kcGranted) /\ CacheFit(cachedToken, kcGranted)
    BY RequestTyped
<1>2. /\ kc[r].pc = "grant" /\ kcGranted' = kcGranted + 1 /\ KcBecomes(r, q)
      /\ done' = done /\ cachedToken' = cachedToken
    BY DEF Grant, KcAt
<1>3. /\ q \in KcRecord /\ q.pc = "token" /\ q.presented = kc[r].presented /\ q.status = kc[r].status
      /\ q.granted = kcGranted + 1 /\ q.answer = kc[r].answer
  <2>1. kcGranted + 1 \in Nat
    BY <1>1
  <2> QED
    BY <1>1, <2>1 DEF KcRecord
<1> HIDE DEF q
<1>4. Fit(q, done[r], kcGranted')
  <2>1. Effective(q, done[r]) /\ Refetched(q)
    BY <1>1, <1>2, <1>3 DEF Fit, Effective, Refetched
  <2>2. \A i \in 1..Len(q.presented) : q.presented[i] <= kcGranted /\ q.presented[i] \in Nat
    BY <1>1, <1>3 DEF Fit, Older
  <2>3. Older(q, kcGranted')
    BY <1>1, <1>2, <1>3, <2>2 DEF Older
  <2> QED
    BY <1>3, <2>1, <2>3 DEF Fit
<1>5. kcGranted' \in Nat /\ kcGranted' >= kcGranted /\ CacheFit(cachedToken', kcGranted')
    BY <1>1, <1>2 DEF CacheFit
<1>6. KcInv' /\ kc'[r] = q /\ \A s \in KcCaller \ {r} : KcPromised(s)
    BY <1>1, <1>2, <1>4, <1>5, OneRequest
<1>7. UNCHANGED KcPromise(r)!contractVars
  <2>1. /\ ~KcAt(r, "idle") /\ ~KcAt(r, "idle")' /\ ~KcAt(r, "sent") /\ ~KcAt(r, "sent")'
        /\ ~Refused(r) /\ ~Refused(r)'
    BY <1>2, <1>3, <1>6 DEF KcAt, Refused
  <2> QED
    BY <1>3, <1>6, <2>1 DEF KcPromise!contractVars
<1> QED
    BY <1>6, <1>7, KcPromising

\* The token that a request caches is presented next.
LEMMA CacheTokenSound ==
    ASSUME KcInv, NEW r \in KcCaller, CacheToken(r)
    PROVE  KcInv' /\ \A s \in KcCaller : KcPromised(s)
<1> DEFINE t == kc[r].granted
           q == Sending(kc[r], t)
<1>1. /\ kc[r] \in KcRecord /\ done[r] \in {0, 1} /\ kcGranted \in Nat
      /\ kc[r].presented \in Seq(Nat) /\ t \in Nat
      /\ \A i \in 1..Len(kc[r].presented) : kc[r].presented[i] \in Nat
      /\ done = [done EXCEPT ![r] = done[r]]
      /\ Fit(kc[r], done[r], kcGranted)
    BY RequestTyped
<1>2. /\ kc[r].pc = "token" /\ kcGranted' = kcGranted /\ KcBecomes(r, q)
      /\ done' = done /\ cachedToken' = [value |-> t, fresh |-> TRUE]
    BY DEF CacheToken, KcAt
<1>3. /\ done[r] = 0 /\ kc[r].answer = "none" /\ t <= kcGranted /\ Older(kc[r], kcGranted)
      /\ Len(kc[r].presented) = 0 \/ (Len(kc[r].presented) = 1 /\ kc[r].status = "401")
      /\ \A i \in 1..Len(kc[r].presented) : kc[r].presented[i] < t
    BY <1>1, <1>2 DEF Fit, Effective, Refetched, Older
<1>4. /\ Fit(q, 0, kcGranted) /\ q.pc = "sent" /\ q.presented = Append(kc[r].presented, t)
      /\ Len(q.presented) = Len(kc[r].presented) + 1
    BY <1>1, <1>3, SendingFit
<1>5. kcGranted' \in Nat /\ kcGranted' >= kcGranted /\ CacheFit(cachedToken', kcGranted')
    BY <1>1, <1>2, <1>3 DEF CacheFit
<1> HIDE DEF q, t
<1>6. KcInv' /\ kc'[r] = q /\ \A s \in KcCaller \ {r} : KcPromised(s)
    BY <1>1, <1>2, <1>3, <1>4, <1>5, OneRequest
<1>7. KcPromise(r)!Present
  <2>1. ~KcAt(r, "idle") /\ ~KcAt(r, "idle")' /\ ~KcAt(r, "sent") /\ KcAt(r, "sent")' /\ ~Refused(r)'
    BY <1>2, <1>4, <1>6 DEF KcAt, Refused
  <2>2. q.presented = Append(kc[r].presented, q.presented[Len(q.presented)])
    BY <1>1, <1>4
  <2>3. \/ kc[r].presented = <<>>
        \/ /\ Len(kc[r].presented) = 1 /\ kc[r].presented # <<>> /\ kc[r].status = "401"
           /\ q.presented[2] # kc[r].presented[1]
    <3>1. CASE Len(kc[r].presented) = 0
      BY <1>1, <3>1
    <3>2. CASE Len(kc[r].presented) = 1 /\ kc[r].status = "401"
      <4>1. q.presented[2] = t /\ kc[r].presented[1] < t /\ kc[r].presented[1] \in Nat
        BY <1>1, <1>3, <1>4, <3>2
      <4>2. Len(<<>>) = 0
        OBVIOUS
      <4> QED
        BY <1>1, <3>2, <4>1, <4>2
    <3> QED
      BY <1>3, <3>1, <3>2
  <2> QED
    BY <1>4, <1>6, <2>1, <2>2, <2>3 DEF KcPromise!Present, AnyToken
<1> QED
    BY <1>6, <1>7, KcPromising

\* The provider performs a request when it accepts its token, and only then.
LEMMA PerformSound ==
    ASSUME KcInv, NEW r \in KcCaller, NEW status \in KcStatus, NEW effect \in {0, 1},
           Perform(r, status, effect)
    PROVE  KcInv' /\ \A s \in KcCaller : KcPromised(s)
<1> DEFINE q == [kc[r] EXCEPT !.pc = "body", !.status = status]
<1>1. /\ kc[r] \in KcRecord /\ done[r] \in {0, 1} /\ kcGranted \in Nat
      /\ kc[r].presented \in Seq(Nat)
      /\ Fit(kc[r], done[r], kcGranted) /\ CacheFit(cachedToken, kcGranted)
    BY RequestTyped
<1>2. /\ kc[r].pc = "sent" /\ KcBecomes(r, q) /\ done' = [done EXCEPT ![r] = done[r] + effect]
      /\ kcGranted' = kcGranted /\ cachedToken' = cachedToken
      /\ status = "401" => effect = 0
      /\ status = "ok" => effect = 1
    BY DEF Perform, KcAt
<1>3. done[r] = 0 /\ kc[r].answer = "none" /\ Len(kc[r].presented) \in {1, 2} /\ Older(kc[r], kcGranted)
    BY <1>1, <1>2 DEF Fit, Effective, Refetched
<1>4. /\ q \in KcRecord /\ q.pc = "body" /\ q.status = status /\ q.presented = kc[r].presented
      /\ q.answer = "none"
    BY <1>1, <1>3 DEF KcRecord
<1> HIDE DEF q
<1>5. Fit(q, effect, kcGranted)
    BY <1>2, <1>3, <1>4 DEF Fit, Effective, Refetched, Older
<1>6. done' = [done EXCEPT ![r] = effect]
    BY <1>2, <1>3
<1>7. kcGranted' \in Nat /\ kcGranted' >= kcGranted /\ CacheFit(cachedToken', kcGranted')
    BY <1>1, <1>2
<1>8. KcInv' /\ kc'[r] = q /\ \A s \in KcCaller \ {r} : KcPromised(s)
    BY <1>2, <1>5, <1>6, <1>7, OneRequest
<1>9. kc[r].presented # <<>>
  <2>1. Len(<<>>) = 0
    OBVIOUS
  <2>2. ASSUME kc[r].presented = <<>> PROVE FALSE
    <3>1. Len(kc[r].presented) = 0 /\ Len(kc[r].presented) \in {1, 2}
      BY <1>3, <2>1, <2>2
    <3> QED
      BY <3>1
  <2> QED
    BY <2>2
<1>10. /\ ~KcAt(r, "idle") /\ ~KcAt(r, "idle")' /\ KcAt(r, "sent") /\ ~Refused(r)
       /\ Refused(r)' <=> status = "401"
       /\ kc'[r].presented = kc[r].presented /\ ~KcAt(r, "sent")' /\ kc'[r].status = status
    BY <1>2, <1>4, <1>8 DEF KcAt, Refused
<1>11. CASE status = "401"
  <2>1. KcPromise(r)!Refuse
    BY <1>9, <1>10, <1>11 DEF KcPromise!Refuse
  <2> QED
    BY <1>8, <2>1, KcPromising
<1>12. CASE status # "401"
  <2>1. UNCHANGED KcPromise(r)!contractVars
    BY <1>10, <1>12 DEF KcPromise!contractVars
  <2> QED
    BY <1>8, <2>1, KcPromising
<1> QED
    BY <1>11, <1>12

\* After the first 401 a request drops the cached token and asks for another one.
LEMMA RefreshSound ==
    ASSUME KcInv, NEW r \in KcCaller, Refresh(r)
    PROVE  KcInv' /\ \A s \in KcCaller : KcPromised(s)
<1> DEFINE q == [kc[r] EXCEPT !.pc = "grant"]
<1>1. /\ kc[r] \in KcRecord /\ done[r] \in {0, 1} /\ kcGranted \in Nat
      /\ kc[r].presented \in Seq(Nat)
      /\ done = [done EXCEPT ![r] = done[r]]
      /\ Fit(kc[r], done[r], kcGranted)
    BY RequestTyped
<1>2. /\ kc[r].pc = "body" /\ kc[r].status = "401" /\ Len(kc[r].presented) = 1
      /\ KcBecomes(r, q) /\ done' = done /\ kcGranted' = kcGranted /\ cachedToken' = NoCache
    BY DEF Refresh, Refused, KcAt, SendAuthorized, NoCache
<1>3. /\ q \in KcRecord /\ q.pc = "grant" /\ q.status = "401" /\ q.presented = kc[r].presented
      /\ q.answer = kc[r].answer
    BY <1>1, <1>2 DEF KcRecord
<1> HIDE DEF q
<1>4. Fit(q, done[r], kcGranted)
    BY <1>1, <1>2, <1>3 DEF Fit, Effective, Refetched, Older
<1>5. kcGranted' \in Nat /\ kcGranted' >= kcGranted /\ CacheFit(cachedToken', kcGranted')
    BY <1>1, <1>2 DEF CacheFit, NoCache
<1>6. KcInv' /\ kc'[r] = q /\ \A s \in KcCaller \ {r} : KcPromised(s)
    BY <1>1, <1>2, <1>4, <1>5, OneRequest
<1>7. UNCHANGED KcPromise(r)!contractVars
  <2>1. /\ ~KcAt(r, "idle") /\ ~KcAt(r, "idle")' /\ Refused(r) /\ ~KcAt(r, "sent")'
        /\ kc'[r].status = "401" /\ kc'[r].presented = kc[r].presented
    BY <1>2, <1>3, <1>6 DEF KcAt, Refused
  <2> QED
    BY <2>1 DEF KcPromise!contractVars
<1> QED
    BY <1>6, <1>7, KcPromising

\* The answer that the caller gets once the body is read.
LEMMA BodyReadSound ==
    ASSUME KcInv, NEW r \in KcCaller, NEW parsed \in BOOLEAN, BodyRead(r, parsed)
    PROVE  KcInv' /\ \A s \in KcCaller : KcPromised(s)
<1> DEFINE answer == IF kc[r].status # "ok" THEN UpstreamAnswer(kc[r].status)
                     ELSE IF parsed THEN "200" ELSE "5xx"
<1>1. /\ kc[r].pc = "body" /\ KcBecomes(r, KcOver(answer))
      /\ UNCHANGED <<cachedToken, kcGranted>> /\ done' = done
    BY DEF BodyRead, KcAt
<1>2. done[r] \in {0, 1} /\ done = [done EXCEPT ![r] = done[r]] /\ Fit(kc[r], done[r], kcGranted)
    BY RequestTyped
<1>3. answer \in Answer \ {"401"} /\ (answer = "200" => done[r] = 1)
    BY <1>1, <1>2 DEF UpstreamAnswer, Answer, Fit, Effective
<1>4. ~KcAt(r, "idle")
    BY <1>1 DEF KcAt
<1> HIDE DEF answer
<1> QED
    BY <1>1, <1>2, <1>3, <1>4, Ending

\* A fetch that breaks off, performed or not, is answered as unreachable.
LEMMA UnreachableSound ==
    ASSUME KcInv, NEW r \in KcCaller, NEW effect \in {0, 1}, Unreachable(r, effect)
    PROVE  KcInv' /\ \A s \in KcCaller : KcPromised(s)
<1>1. /\ kc[r].pc \in {"grant", "sent"} /\ KcBecomes(r, KcOver("5xx"))
      /\ UNCHANGED <<cachedToken, kcGranted>> /\ done' = [done EXCEPT ![r] = done[r] + effect]
    BY DEF Unreachable, KcAt
<1>2. done[r] = 0
    BY <1>1, RequestTyped DEF Fit, Effective
<1>3. done' = [done EXCEPT ![r] = effect] /\ ~KcAt(r, "idle") /\ "5xx" \in Answer \ {"401"}
    BY <1>1, <1>2 DEF KcAt, Answer
<1> QED
    BY <1>1, <1>3, Ending
\* Nothing but the provider's state or the cache changes.
LEMMA KcQuietSound ==
    ASSUME KcInv, UNCHANGED <<kc, kcGranted, done>>, CacheFit(cachedToken', kcGranted)
    PROVE  KcInv' /\ \A s \in KcCaller : KcPromised(s)
    BY KcBystander DEF KcInv

\* Every step keeps KcInv and is a step, or a stutter, of every request's contract.
LEMMA KcStepSound == KcInv /\ [KcNext]_kcVars => KcInv' /\ \A s \in KcCaller : KcPromised(s)
<1> SUFFICES ASSUME KcInv, [KcNext]_kcVars PROVE KcInv' /\ \A s \in KcCaller : KcPromised(s)
    OBVIOUS
<1>0. CacheFit(cachedToken, kcGranted)
    BY DEF KcInv
<1>1. ASSUME NEW r \in KcCaller, KcStep(r)
      PROVE  KcInv' /\ \A s \in KcCaller : KcPromised(s)
  <2>1. CASE KcBegin(r)
    BY <2>1, KcBeginSound
  <2>2. ASSUME NEW status \in KcStatus, GrantRefused(r, status)
        PROVE  KcInv' /\ \A s \in KcCaller : KcPromised(s)
    BY <2>2, GrantRefusedSound
  <2>3. CASE Grant(r)
    BY <2>3, GrantSound
  <2>4. CASE CacheToken(r)
    BY <2>4, CacheTokenSound
  <2>5. ASSUME NEW status \in KcStatus, NEW effect \in {0, 1}, Perform(r, status, effect)
        PROVE  KcInv' /\ \A s \in KcCaller : KcPromised(s)
    BY <2>5, PerformSound
  <2>6. CASE Refresh(r)
    BY <2>6, RefreshSound
  <2>7. ASSUME NEW parsed \in BOOLEAN, BodyRead(r, parsed)
        PROVE  KcInv' /\ \A s \in KcCaller : KcPromised(s)
    BY <2>7, BodyReadSound
  <2>8. ASSUME NEW effect \in {0, 1}, Unreachable(r, effect)
        PROVE  KcInv' /\ \A s \in KcCaller : KcPromised(s)
    BY <2>8, UnreachableSound
  <2> QED
    BY <1>1, <2>1, <2>2, <2>3, <2>4, <2>5, <2>6, <2>7, <2>8 DEF KcStep
<1>2. CASE TokenExpires
  <2>1. UNCHANGED <<kc, kcGranted, done>> /\ cachedToken' = [cachedToken EXCEPT !.fresh = FALSE]
    BY <1>2 DEF TokenExpires
  <2>2. CacheFit(cachedToken', kcGranted)
    BY <1>0, <2>1 DEF CacheFit
  <2> QED
    BY <2>1, <2>2, KcQuietSound
<1>3. ASSUME NEW token \in accepted, TokenRevoked(token)
      PROVE  KcInv' /\ \A s \in KcCaller : KcPromised(s)
  <2>1. UNCHANGED <<kc, kcGranted, done, cachedToken>>
    BY <1>3 DEF TokenRevoked
  <2> QED
    BY <1>0, <2>1, KcQuietSound
<1>4. CASE UNCHANGED kcVars
  <2>1. UNCHANGED <<kc, kcGranted, done, cachedToken>>
    BY <1>4 DEF kcVars
  <2> QED
    BY <1>0, <2>1, KcQuietSound
<1> QED
    BY <1>1, <1>2, <1>3, <1>4 DEF KcNext

\* At the start no contract is open.
LEMMA KcInitSound == KcInit => KcInv /\ \A r \in KcCaller : KcPromise(r)!Closed
<1> SUFFICES ASSUME KcInit PROVE KcInv /\ \A r \in KcCaller : KcPromise(r)!Closed
    OBVIOUS
<1>1. Fit(KcOver("none"), 0, 0) /\ KcOver("none").pc = "idle" /\ KcOver("none").presented = <<>>
    BY Over DEF Answer
<1>2. KcOver("none") \in KcRecord
    BY <1>1 DEF Fit
<1>3. /\ kc = [r \in KcCaller |-> KcOver("none")] /\ kcGranted = 0
      /\ done = [r \in KcCaller |-> 0] /\ cachedToken = NoCache
    BY DEF KcInit
<1>4. KcInv
    BY <1>1, <1>2, <1>3 DEF KcInv, CacheFit, NoCache
<1> QED
    BY <1>1, <1>3, <1>4 DEF KcPromise!Closed, KcAt

\* KcInv holds of any number of requests over the one cached token.
THEOREM KcInvariant == KcSpec => []KcInv
<1>1. KcInit => KcInv
    BY KcInitSound
<1>2. KcInv /\ [KcNext]_kcVars => KcInv'
    BY KcStepSound
<1> QED
    BY <1>1, <1>2, PTL DEF KcSpec

(***************************************************************************)
(* Whatever is sent again and whatever is revoked meanwhile, the provider  *)
(* performs a request at most once, has performed it when the caller is    *)
(* told so, and a refusal of Central Admin's own token is never passed on  *)
(* as a 401 (keycloakAdmin.client.ts, kcRequest).                          *)
(***************************************************************************)
THEOREM AnswersTrue == KcSpec => []AnswerIsTrue
<1>1. KcInv => AnswerIsTrue
  <2>1. SUFFICES ASSUME KcInv, NEW r \in KcCaller
                 PROVE  done[r] <= 1 /\ (kc[r].answer = "200" => done[r] = 1) /\ kc[r].answer # "401"
    BY DEF AnswerIsTrue
  <2>2. Effective(kc[r], done[r])
    BY <2>1 DEF KcInv, Fit
  <2> QED
    BY <2>2 DEF Effective
<1> QED
    BY <1>1, KcInvariant, PTL

(***************************************************************************)
(* For any number of requests that share the cached token, drop it and     *)
(* replace it, each presents at most two tokens, the second after a        *)
(* refusal and another one: kcRequest implements ReadContract.             *)
(***************************************************************************)
THEOREM ResendBounded == KcSpec => ResendIsBounded
<1>1. KcInit => \A r \in KcCaller : KcPromise(r)!Closed
    BY KcInitSound
<1>2. KcInv /\ [KcNext]_kcVars =>
          [\A r \in KcCaller :
              KcPromise(r)!ContractNext \/ UNCHANGED KcPromise(r)!contractVars]_kcVars
    BY KcStepSound DEF KcPromised
<1> QED
    BY <1>1, <1>2, KcInvariant, PTL DEF KcSpec, ResendIsBounded

(***************************************************************************)
(* Tokens have numbers from 1 on: whoever presents one, or is about to,    *)
(* was granted it, and so was the cache while it counts as fresh.          *)
(***************************************************************************)
Numbered(q, last) ==
    /\ q.granted <= last /\ (q.pc = "token" => q.granted >= 1)
    /\ \A i \in 1..Len(q.presented) : q.presented[i] >= 1

KcNumbers ==
    /\ kcGranted <= MaxGrants /\ accepted \subseteq 1..kcGranted
    /\ cachedToken.fresh => cachedToken.value >= 1
    /\ \A r \in KcCaller : Numbered(kc[r], kcGranted)

\* What is numbered has its type.
LEMMA KcFits == KcInv /\ KcNumbers => KcTypeOK
<1> SUFFICES ASSUME KcInv, KcNumbers PROVE KcTypeOK
    OBVIOUS
<1>0. kcGranted \in 0..MaxGrants /\ KcToken = 1..MaxGrants /\ MaxGrants \in Nat /\ kcGranted \in Nat
    BY GrantsAssumption DEF KcInv, KcNumbers, KcToken
<1>1. ASSUME NEW r \in KcCaller PROVE kc[r] \in KcState
  <2> DEFINE q == kc[r]
             n == Len(q.presented)
  <2>1. /\ q \in KcRecord /\ Refetched(q) /\ Older(q, kcGranted) /\ Numbered(q, kcGranted)
        /\ q.presented \in Seq(Nat) /\ q.granted \in Nat
    BY <1>1, RequestTyped DEF KcInv, KcNumbers, Fit
  <2>2. n \in 0..2
    BY <2>1 DEF Refetched, KcRecord
  <2>3. \A i \in 1..n : q.presented[i] \in KcToken
    BY <1>0, <2>1 DEF Older, Numbered
  <2>4. q.presented \in [1..n -> KcToken]
    BY <2>1, <2>3
  <2>5. q.presented \in UNION {[1..m -> KcToken] : m \in 0..2}
    BY <2>2, <2>4
  <2>6. q.granted \in 0..MaxGrants
    BY <1>0, <2>1 DEF Numbered
  <2> HIDE DEF n
  <2> QED
    BY <2>1, <2>5, <2>6 DEF KcRecord, KcState
<1>2. kc \in [KcCaller -> KcState]
    BY <1>1 DEF KcInv
<1>3. cachedToken \in [value: 0..MaxGrants, fresh: BOOLEAN]
    BY <1>0 DEF KcInv, CacheFit
<1>4. accepted \subseteq KcToken /\ done \in [KcCaller -> Nat]
    BY <1>0 DEF KcInv, KcNumbers
<1> QED
    BY <1>0, <1>2, <1>3, <1>4 DEF KcTypeOK

\* One request changes.
LEMMA OneNumbered ==
    ASSUME KcInv, KcNumbers, NEW r \in KcCaller, NEW q, KcBecomes(r, q),
           kcGranted' \in Nat, kcGranted' >= kcGranted, kcGranted' <= MaxGrants,
           accepted' \subseteq 1..kcGranted', cachedToken'.fresh => cachedToken'.value >= 1,
           Numbered(q, kcGranted')
    PROVE  KcNumbers'
<1>1. kcGranted \in Nat /\ kc' = [kc EXCEPT ![r] = q] /\ kc \in [KcCaller -> KcRecord]
    BY DEF KcInv, KcBecomes
<1>2. ASSUME NEW s \in KcCaller \ {r} PROVE Numbered(kc'[s], kcGranted')
  <2>1. kc'[s] = kc[s] /\ Numbered(kc[s], kcGranted) /\ kc[s].granted \in Nat
    BY <1>1, <1>2 DEF KcNumbers, KcRecord
  <2> QED
    BY <1>1, <2>1 DEF Numbered
<1>3. Numbered(kc'[r], kcGranted')
    BY <1>1
<1> QED
    BY <1>2, <1>3 DEF KcNumbers

\* A request that has ended has no numbers.
LEMMA OverNumbered ==
    ASSUME NEW answer, NEW last \in Nat PROVE Numbered(KcOver(answer), last)
    BY DEF Numbered, KcOver

\* What is sent has a number, too.
LEMMA SendingNumbered ==
    ASSUME NEW q \in KcRecord, NEW last \in Nat, Numbered(q, last), NEW t \in Nat, t >= 1
    PROVE  Numbered(Sending(q, t), last)
<1>1. q.presented \in Seq(Nat)
    BY DEF KcRecord
<1>2. /\ Sending(q, t).granted = q.granted /\ Sending(q, t).pc = "sent"
      /\ Sending(q, t).presented = Append(q.presented, t)
    BY DEF Sending, KcRecord
<1>3. \A i \in 1..Len(Append(q.presented, t)) : Append(q.presented, t)[i] >= 1
    BY <1>1 DEF Numbered
<1> QED
    BY <1>2, <1>3 DEF Numbered

\* Asking for a token, or sending the cached one, keeps the numbers.
LEMMA AuthorizedNumbered ==
    ASSUME KcInv, NEW r \in KcCaller, NEW q \in KcRecord, Numbered(q, kcGranted), NEW cache,
           cache.value \in Nat, cache.fresh => cache.value >= 1, SendAuthorized(r, q, cache)
    PROVE  \E n : KcBecomes(r, n) /\ Numbered(n, kcGranted)
<1>0. kcGranted \in Nat
    BY DEF KcInv
<1>1. CASE cache.fresh
    BY <1>0, <1>1, SendingNumbered DEF SendAuthorized
<1>2. CASE ~cache.fresh
  <2>1. Numbered([q EXCEPT !.pc = "grant"], kcGranted)
    BY DEF Numbered, KcRecord
  <2> QED
    BY <1>2, <2>1 DEF SendAuthorized
<1> QED
    BY <1>1, <1>2

\* Every step of a request and of the realm keeps the numbers.
LEMMA KcNumbersKept == KcInv /\ KcNumbers /\ [KcNext]_kcVars => KcNumbers'
<1> SUFFICES ASSUME KcInv, KcNumbers, [KcNext]_kcVars PROVE KcNumbers'
    OBVIOUS
<1>0. /\ kcGranted \in Nat /\ kcGranted <= MaxGrants /\ accepted \subseteq 1..kcGranted
      /\ MaxGrants \in Nat /\ cachedToken.value \in Nat
      /\ cachedToken \in [value: Nat, fresh: BOOLEAN]
      /\ cachedToken.fresh => cachedToken.value >= 1
    BY GrantsAssumption DEF KcInv, KcNumbers, CacheFit
<1>1. ASSUME NEW r \in KcCaller, KcStep(r) PROVE KcNumbers'
  <2>0. kc[r] \in KcRecord /\ Numbered(kc[r], kcGranted) /\ kc[r].granted \in Nat
    BY <1>1, RequestTyped DEF KcNumbers
  <2>1. CASE KcBegin(r)
    <3>1. KcOver("none") \in KcRecord /\ Numbered(KcOver("none"), kcGranted)
      BY <1>0, OverNumbered DEF KcOver, KcRecord, KcStatus, Answer
    <3>2. PICK n : KcBecomes(r, n) /\ Numbered(n, kcGranted)
      BY <1>0, <1>1, <2>1, <3>1, AuthorizedNumbered DEF KcBegin
    <3> QED
      BY <1>0, <1>1, <2>1, <3>2, OneNumbered DEF KcBegin
  <2>2. ASSUME NEW status \in KcStatus, GrantRefused(r, status) PROVE KcNumbers'
    BY <1>0, <1>1, <2>2, OverNumbered, OneNumbered DEF GrantRefused
  <2>3. CASE Grant(r)
    <3> DEFINE q == [kc[r] EXCEPT !.pc = "token", !.granted = kcGranted + 1]
    <3>1. Numbered(q, kcGranted + 1)
      BY <1>0, <2>0 DEF Numbered, KcRecord
    <3>2. /\ KcBecomes(r, q) /\ kcGranted' = kcGranted + 1 /\ kcGranted < MaxGrants
          /\ accepted' = accepted \cup {kcGranted + 1} /\ cachedToken' = cachedToken
      BY <2>3 DEF Grant
    <3>3. accepted' \subseteq 1..kcGranted'
      BY <1>0, <3>2
    <3> HIDE DEF q
    <3> QED
      BY <1>0, <1>1, <3>1, <3>2, <3>3, OneNumbered
  <2>4. CASE CacheToken(r)
    <3>1. kc[r].granted >= 1 /\ cachedToken' = [value |-> kc[r].granted, fresh |-> TRUE]
      BY <2>0, <2>4 DEF CacheToken, KcAt, Numbered
    <3>2. Numbered(Sending(kc[r], kc[r].granted), kcGranted)
      BY <1>0, <2>0, <3>1, SendingNumbered
    <3> QED
      BY <1>0, <1>1, <2>4, <3>1, <3>2, OneNumbered DEF CacheToken
  <2>5. ASSUME NEW status \in KcStatus, NEW effect \in {0, 1}, Perform(r, status, effect)
        PROVE  KcNumbers'
    <3>1. Numbered([kc[r] EXCEPT !.pc = "body", !.status = status], kcGranted)
      BY <2>0 DEF Numbered, KcRecord
    <3> QED
      BY <1>0, <1>1, <2>5, <3>1, OneNumbered DEF Perform
  <2>6. CASE Refresh(r)
    <3>1. cachedToken' = NoCache /\ NoCache.value = 0 /\ NoCache.fresh = FALSE
      BY <2>6 DEF Refresh, NoCache
    <3>2. PICK n : KcBecomes(r, n) /\ Numbered(n, kcGranted)
      BY <1>1, <2>0, <2>6, <3>1, AuthorizedNumbered DEF Refresh
    <3> QED
      BY <1>0, <1>1, <2>6, <3>1, <3>2, OneNumbered DEF Refresh
  <2>7. ASSUME NEW parsed \in BOOLEAN, BodyRead(r, parsed) PROVE KcNumbers'
    BY <1>0, <1>1, <2>7, OverNumbered, OneNumbered DEF BodyRead
  <2>8. ASSUME NEW effect \in {0, 1}, Unreachable(r, effect) PROVE KcNumbers'
    BY <1>0, <1>1, <2>8, OverNumbered, OneNumbered DEF Unreachable
  <2> QED
    BY <1>1, <2>1, <2>2, <2>3, <2>4, <2>5, <2>6, <2>7, <2>8 DEF KcStep
<1>2. CASE TokenExpires
  <2>1. cachedToken'.fresh = FALSE /\ UNCHANGED <<kc, accepted, kcGranted>>
    BY <1>0, <1>2 DEF TokenExpires
  <2> QED
    BY <1>0, <2>1 DEF KcNumbers
<1>3. ASSUME NEW token \in accepted, TokenRevoked(token) PROVE KcNumbers'
    BY <1>3 DEF TokenRevoked, KcNumbers
<1>4. CASE UNCHANGED kcVars
    BY <1>4 DEF kcVars, KcNumbers
<1> QED
    BY <1>1, <1>2, <1>3, <1>4 DEF KcNext

(***************************************************************************)
(* Each request sends at most twice, with tokens that the realm has        *)
(* granted, and the cache of keycloakAdmin.client.ts holds one that was    *)
(* granted whenever it counts as fresh.                                    *)
(***************************************************************************)
THEOREM KcTypeCorrect == KcSpec => []KcTypeOK
<1>1. KcInit => KcNumbers
  <2> SUFFICES ASSUME KcInit PROVE KcNumbers
    OBVIOUS
  <2>1. \A r \in KcCaller : kc[r] = KcOver("none")
    BY DEF KcInit
  <2> QED
    BY <2>1, OverNumbered, GrantsAssumption DEF KcInit, KcNumbers, NoCache
<1> QED
    BY <1>1, KcInvariant, KcNumbersKept, KcFits, PTL DEF KcSpec
-----------------------------------------------------------------------------
(* The browser's way through the sign-in flow *)

\* The record of a tab; which transactions there are does not matter.
TabRecord(transactions) ==
    [pc: {"page", "login", "provider", "callback", "app", "failed"},
     txn: transactions, sent: transactions,
     code: {"none", "good", "denied", "used"}, met: BOOLEAN,
     fate: {"none", "denied", "protocol", "provider", "account"}]

Shaped(q) == \E transactions : NoTransaction \in transactions /\ q \in TabRecord(transactions)

Flowing(q) == q.pc \in {"login", "provider", "callback"}

(***************************************************************************)
(* A sign-in that met no other is the only one in progress; until its      *)
(* callback is sent the cookie is its own, and from then on what was sent. *)
(***************************************************************************)
Undisturbed(q, jar) ==
    /\ q.pc = "provider" => jar = q.txn
    /\ q.pc = "callback" => q.sent = q.txn /\ q.code # "used"

OidcInv ==
    /\ tab = [t \in Tab |-> tab[t]]
    /\ \A t \in Tab :
        /\ Shaped(tab[t])
        /\ ~tab[t].met /\ Flowing(tab[t]) =>
              /\ Undisturbed(tab[t], cookie)
              /\ \A u \in Tab \ {t} : ~Flowing(tab[u])
        /\ tab[t].fate = "protocol" => tab[t].met

\* A tab on a page of its own is in no flow.
LEMMA PageShape ==
    /\ \A transactions : NoTransaction \in transactions => OnPage \in TabRecord(transactions)
    /\ Shaped(OnPage) /\ ~Flowing(OnPage) /\ OnPage.fate = "none"
<1>1. ASSUME NEW transactions, NoTransaction \in transactions
      PROVE  OnPage \in TabRecord(transactions)
    BY <1>1 DEF OnPage, TabRecord
<1>2. Shaped(OnPage)
  <2>1. OnPage \in TabRecord({NoTransaction})
    BY <1>1
  <2> QED
    BY <2>1 DEF Shaped
<1> QED
    BY <1>1, <1>2 DEF OnPage, Flowing

\* Neither is one whose flow has failed.
LEMMA FailedShape ==
    ASSUME NEW q, Shaped(q), NEW fate \in {"none", "denied", "protocol", "provider", "account"}
    PROVE  /\ Shaped(FailedWith(q, fate)) /\ FailedWith(q, fate).met = q.met
           /\ FailedWith(q, fate).fate = fate /\ ~Flowing(FailedWith(q, fate))
<1>1. PICK transactions : NoTransaction \in transactions /\ q \in TabRecord(transactions)
    BY DEF Shaped
<1>2. /\ FailedWith(q, fate) \in TabRecord(transactions) /\ FailedWith(q, fate).met = q.met
      /\ FailedWith(q, fate).fate = fate /\ FailedWith(q, fate).pc = "failed"
    BY <1>1, PageShape DEF FailedWith, TabRecord
<1> QED
    BY <1>1, <1>2 DEF Shaped, Flowing

(***************************************************************************)
(* One tab takes a step: it is out of the flow afterwards, or it is the    *)
(* only one in it that met no other, with its own cookie.                  *)
(***************************************************************************)
LEMMA OneTab ==
    ASSUME OidcInv, NEW t \in Tab, NEW q, Shaped(q), TabBecomes(t, q),
           q.fate = "protocol" => q.met,
           \/ cookie' = cookie \/ Flowing(tab[t]),
           Flowing(q) => Flowing(tab[t]) /\ (~q.met => ~tab[t].met),
           Flowing(q) /\ ~q.met => Undisturbed(q, cookie')
    PROVE  OidcInv'
<1>1. /\ tab' = [tab EXCEPT ![t] = q] /\ tab'[t] = q
      /\ \A u \in Tab \ {t} : tab'[u] = tab[u]
    BY DEF OidcInv, TabBecomes
<1>2. tab' = [u \in Tab |-> tab'[u]]
    BY <1>1 DEF OidcInv
<1>3. ASSUME NEW u \in Tab
      PROVE  /\ Shaped(tab'[u])
             /\ ~tab'[u].met /\ Flowing(tab'[u]) =>
                   Undisturbed(tab'[u], cookie') /\ \A v \in Tab \ {u} : ~Flowing(tab'[v])
             /\ tab'[u].fate = "protocol" => tab'[u].met
  <2>1. CASE u = t
    <3>1. ~q.met /\ Flowing(q) => \A v \in Tab \ {u} : ~Flowing(tab'[v])
      BY <1>1, <2>1 DEF OidcInv
    <3> QED
      BY <1>1, <2>1, <3>1
  <2>2. CASE u # t
    <3>1. tab'[u] = tab[u] /\ Shaped(tab[u]) /\ (tab[u].fate = "protocol" => tab[u].met)
      BY <1>1, <2>2 DEF OidcInv
    <3>2. ASSUME ~tab[u].met, Flowing(tab[u])
          PROVE  Undisturbed(tab'[u], cookie') /\ \A v \in Tab \ {u} : ~Flowing(tab'[v])
      <4>1. Undisturbed(tab[u], cookie) /\ \A v \in Tab \ {u} : ~Flowing(tab[v])
        BY <3>2 DEF OidcInv
      <4>2. cookie' = cookie /\ ~Flowing(q)
        BY <2>2, <4>1
      <4> QED
        BY <1>1, <3>1, <4>1, <4>2
    <3> QED
      BY <3>1, <3>2
  <2> QED
    BY <2>1, <2>2
<1> QED
    BY <1>2, <1>3 DEF OidcInv, Shaped, TabRecord, Flowing, Undisturbed
\* Those in out leave the flow; the others stay as they are.
LEMMA Leaving ==
    ASSUME OidcInv, NEW out \in SUBSET Tab,
           tab' = [t \in Tab |-> IF t \in out THEN FailedWith(tab[t], "provider") ELSE tab[t]],
           cookie' = cookie \/ \E t \in out : Flowing(tab[t])
    PROVE  OidcInv'
<1>1. ASSUME NEW t \in out
      PROVE  Shaped(tab'[t]) /\ ~Flowing(tab'[t]) /\ tab'[t].fate # "protocol"
  <2>1. tab'[t] = FailedWith(tab[t], "provider") /\ Shaped(tab[t])
    BY DEF OidcInv
  <2> QED
    BY <2>1, FailedShape
<1>2. \A t \in Tab \ out : tab'[t] = tab[t]
    OBVIOUS
<1>3. ASSUME NEW t \in Tab
      PROVE  /\ Shaped(tab'[t])
             /\ ~tab'[t].met /\ Flowing(tab'[t]) =>
                   Undisturbed(tab'[t], cookie') /\ \A u \in Tab \ {t} : ~Flowing(tab'[u])
             /\ tab'[t].fate = "protocol" => tab'[t].met
  <2>1. CASE t \in out
    BY <1>1, <2>1
  <2>2. CASE t \notin out
    <3>1. tab'[t] = tab[t] /\ Shaped(tab[t]) /\ (tab[t].fate = "protocol" => tab[t].met)
      BY <1>2, <2>2 DEF OidcInv
    <3>2. ASSUME ~tab[t].met, Flowing(tab[t])
          PROVE  Undisturbed(tab'[t], cookie') /\ \A u \in Tab \ {t} : ~Flowing(tab'[u])
      <4>1. Undisturbed(tab[t], cookie) /\ \A u \in Tab \ {t} : ~Flowing(tab[u])
        BY <3>2 DEF OidcInv
      <4>2. cookie' = cookie
        BY <2>2, <4>1
      <4> QED
        BY <1>1, <1>2, <3>1, <4>1, <4>2
    <3> QED
      BY <3>1, <3>2
  <2> QED
    BY <2>1, <2>2
<1>4. tab' = [t \in Tab |-> tab'[t]]
    OBVIOUS
<1> QED
    BY <1>3, <1>4 DEF OidcInv, Shaped, TabRecord, Flowing, Undisturbed

\* A tab that starts a sign-in meets those that are in a flow.
LEMMA PressSound ==
    ASSUME OidcInv, NEW t \in Tab, Press(t)
    PROVE  OidcInv'
<1> DEFINE crowd == InFlow # {}
           own == [OnPage EXCEPT !.pc = "login", !.met = crowd]
<1>1. /\ tab' = [u \in Tab |-> IF u = t THEN own
                               ELSE IF u \in InFlow THEN [tab[u] EXCEPT !.met = TRUE] ELSE tab[u]]
      /\ cookie' = cookie /\ tab[t].pc = "page"
    BY DEF Press, TabAt
<1>2. \A u \in Tab : u \in InFlow <=> Flowing(tab[u])
    BY DEF InFlow, Flowing
<1>3. Shaped(own) /\ own.met = crowd /\ own.pc = "login" /\ own.fate = "none"
  <2>1. OnPage \in TabRecord({NoTransaction}) /\ OnPage.fate = "none"
    BY PageShape
  <2>2. ASSUME NEW m \in BOOLEAN
        PROVE  /\ [OnPage EXCEPT !.pc = "login", !.met = m] \in TabRecord({NoTransaction})
               /\ [OnPage EXCEPT !.pc = "login", !.met = m].met = m
               /\ [OnPage EXCEPT !.pc = "login", !.met = m].pc = "login"
               /\ [OnPage EXCEPT !.pc = "login", !.met = m].fate = "none"
    BY <2>1 DEF TabRecord
  <2>3. crowd \in BOOLEAN
    OBVIOUS
  <2> QED
    BY <2>2, <2>3 DEF Shaped
<1>4. t \notin InFlow
    BY <1>1, <1>2 DEF Flowing
<1> HIDE DEF own
<1>5. ASSUME NEW u \in Tab \ {t}
      PROVE  /\ Shaped(tab'[u]) /\ tab'[u].fate = tab[u].fate
             /\ Flowing(tab'[u]) => u \in InFlow /\ tab'[u].met
             /\ tab[u].met => tab'[u].met
  <2>1. PICK transactions : NoTransaction \in transactions /\ tab[u] \in TabRecord(transactions)
    BY DEF OidcInv, Shaped
  <2>2. CASE u \in InFlow
    <3>1. tab'[u] = [tab[u] EXCEPT !.met = TRUE]
      BY <1>1, <2>2
    <3>2. tab'[u] \in TabRecord(transactions) /\ tab'[u].met = TRUE /\ tab'[u].fate = tab[u].fate
      BY <2>1, <3>1 DEF TabRecord
    <3> QED
      BY <2>1, <2>2, <3>2 DEF Shaped
  <2>3. CASE u \notin InFlow
    BY <1>1, <1>2, <2>3 DEF OidcInv
  <2> QED
    BY <2>2, <2>3
<1>6. tab'[t] = own /\ tab' = [u \in Tab |-> tab'[u]]
    BY <1>1
<1>7. ASSUME NEW u \in Tab
      PROVE  /\ Shaped(tab'[u])
             /\ ~tab'[u].met /\ Flowing(tab'[u]) =>
                   Undisturbed(tab'[u], cookie') /\ \A v \in Tab \ {u} : ~Flowing(tab'[v])
             /\ tab'[u].fate = "protocol" => tab'[u].met
  <2>1. CASE u = t
    <3>1. ASSUME ~crowd PROVE \A v \in Tab \ {u} : ~Flowing(tab'[v])
      BY <1>5, <2>1, <3>1
    <3>2. Undisturbed(own, cookie')
      BY <1>3 DEF Undisturbed
    <3> QED
      BY <1>3, <1>6, <2>1, <3>1, <3>2
  <2>2. CASE u # t
    BY <1>5, <2>2 DEF OidcInv
  <2> QED
    BY <2>1, <2>2
<1> QED
    BY <1>6, <1>7 DEF OidcInv, Shaped, TabRecord, Flowing, Undisturbed

\* The cookie that expires was of a sign-in that is noted as met.
LEMMA ExpiredSound ==
    ASSUME OidcInv, CookieExpires
    PROVE  OidcInv'
<1>1. tab' = [t \in Tab |-> IF t \in InFlow THEN [tab[t] EXCEPT !.met = TRUE] ELSE tab[t]]
    BY DEF CookieExpires
<1>2. ASSUME NEW u \in Tab
      PROVE  /\ Shaped(tab'[u]) /\ tab'[u].fate = tab[u].fate
             /\ Flowing(tab'[u]) => tab'[u].met
             /\ tab[u].met => tab'[u].met
  <2>1. PICK transactions : NoTransaction \in transactions /\ tab[u] \in TabRecord(transactions)
    BY DEF OidcInv, Shaped
  <2>2. CASE u \in InFlow
    <3>1. tab'[u] = [tab[u] EXCEPT !.met = TRUE]
      BY <1>1, <2>2
    <3>2. tab'[u] \in TabRecord(transactions) /\ tab'[u].met = TRUE /\ tab'[u].fate = tab[u].fate
      BY <2>1, <3>1 DEF TabRecord
    <3> QED
      BY <2>1, <3>2 DEF Shaped
  <2>3. CASE u \notin InFlow
    BY <1>1, <2>3 DEF OidcInv, InFlow, Flowing
  <2> QED
    BY <2>2, <2>3
<1>3. tab' = [t \in Tab |-> tab'[t]]
    BY <1>1
<1>4. \A u \in Tab : tab'[u].fate = "protocol" => tab'[u].met
    BY <1>2 DEF OidcInv
<1> QED
    BY <1>2, <1>3, <1>4 DEF OidcInv, Shaped, TabRecord, Flowing, Undisturbed

\* The other steps of a tab's flow.
LEMMA TabStepSound ==
    ASSUME OidcInv, NEW t \in Tab, TabStep(t)
    PROVE  OidcInv'
<1>0. PICK transactions : NoTransaction \in transactions /\ tab[t] \in TabRecord(transactions)
    BY DEF OidcInv, Shaped
<1>1. CASE Press(t)
    BY <1>1, PressSound
<1>2. CASE Redirected(t)
  <2>1. PICK n : cookie' = n /\ TabBecomes(t, [tab[t] EXCEPT !.pc = "provider", !.txn = n]) /\ tab[t].pc = "login"
    BY <1>2 DEF Redirected, TabAt
  <2> DEFINE q == [tab[t] EXCEPT !.pc = "provider", !.txn = n]
  <2>2. /\ q \in TabRecord(transactions \cup {n}) /\ q.pc = "provider" /\ q.txn = n
        /\ q.met = tab[t].met /\ q.fate = tab[t].fate
    BY <1>0 DEF TabRecord
  <2>3. TabBecomes(t, q)
    BY <2>1
  <2> HIDE DEF q
  <2>4. Shaped(q) /\ Undisturbed(q, cookie') /\ Flowing(tab[t])
    BY <1>0, <2>1, <2>2 DEF Shaped, Undisturbed, Flowing
  <2>5. q.fate = "protocol" => q.met
    BY <2>2 DEF OidcInv
  <2> QED
    BY <2>2, <2>3, <2>4, <2>5, OneTab
<1>3. ASSUME NEW ok \in BOOLEAN, Authenticate(t, ok)
      PROVE  OidcInv'
  <2> DEFINE code == IF ok THEN "good" ELSE "denied"
             q == [tab[t] EXCEPT !.pc = "callback", !.sent = cookie, !.code = code]
  <2>1. tab[t].pc = "provider" /\ TabBecomes(t, q) /\ cookie' = cookie
    BY <1>3 DEF Authenticate, TabAt
  <2>2. code \in {"good", "denied"}
    OBVIOUS
  <2> HIDE DEF code
  <2>3. /\ q \in TabRecord(transactions \cup {cookie}) /\ q.pc = "callback" /\ q.sent = cookie
        /\ q.txn = tab[t].txn /\ q.code = code /\ q.met = tab[t].met /\ q.fate = tab[t].fate
    BY <1>0, <2>2 DEF TabRecord
  <2> HIDE DEF q
  <2>4. Shaped(q) /\ Flowing(tab[t])
    BY <1>0, <2>1, <2>3 DEF Shaped, Flowing
  <2>5. ~q.met => Undisturbed(q, cookie')
  <3>1. ~tab[t].met => cookie = tab[t].txn
    BY <2>1, <2>4 DEF OidcInv, Undisturbed
  <3> QED
    BY <2>2, <2>3, <3>1 DEF Undisturbed
  <2>6. q.fate = "protocol" => q.met
    BY <2>3 DEF OidcInv
  <2> QED
    BY <2>1, <2>3, <2>4, <2>5, <2>6, OneTab
<1>4. ASSUME NEW used \in BOOLEAN, Reload(t, used)
      PROVE  OidcInv'
  <2> DEFINE code == IF used THEN "used" ELSE tab[t].code
             q == [tab[t] EXCEPT !.sent = cookie, !.met = TRUE, !.code = code]
  <2>1. tab[t].pc = "callback" /\ TabBecomes(t, q) /\ cookie' = cookie
    BY <1>4 DEF Reload, TabAt
  <2>2. code \in {"none", "good", "denied", "used"}
    BY <1>0 DEF TabRecord
  <2> HIDE DEF code
  <2>3. q \in TabRecord(transactions \cup {cookie}) /\ q.met = TRUE
    BY <1>0, <2>2 DEF TabRecord
  <2> HIDE DEF q
  <2>4. Shaped(q) /\ Flowing(tab[t])
    BY <1>0, <2>1, <2>3 DEF Shaped, Flowing
  <2> QED
    BY <2>1, <2>3, <2>4, OneTab
<1>5. CASE CallbackSucceeds(t)
  <2> DEFINE q == [OnPage EXCEPT !.pc = "app"]
  <2>1. tab[t].pc = "callback" /\ TabBecomes(t, q)
    BY <1>5 DEF CallbackSucceeds, CallbackBegins, TabAt
  <2>2. q \in TabRecord({NoTransaction}) /\ q.pc = "app" /\ q.fate = "none"
    BY PageShape DEF TabRecord
  <2> HIDE DEF q
  <2>3. Shaped(q) /\ ~Flowing(q) /\ Flowing(tab[t])
    BY <2>1, <2>2 DEF Shaped, Flowing
  <2> QED
    BY <2>1, <2>2, <2>3, OneTab
<1>6. ASSUME NEW fate \in {"denied", "protocol", "provider", "account"}, CallbackFails(t, fate)
      PROVE  OidcInv'
  <2> DEFINE q == FailedWith(tab[t], fate)
  <2>1. /\ tab[t].pc = "callback" /\ TabBecomes(t, q)
        /\ fate = "protocol" => tab[t].sent # tab[t].txn \/ tab[t].code = "used"
    BY <1>6 DEF CallbackFails, CallbackBegins, TabAt
  <2>2. Shaped(q) /\ ~Flowing(q) /\ q.met = tab[t].met /\ q.fate = fate
    BY <1>0, FailedShape DEF Shaped
  <2> HIDE DEF q
  <2>3. Flowing(tab[t])
    BY <2>1 DEF Flowing
  <2>4. fate = "protocol" => tab[t].met
    BY <2>1, <2>3 DEF OidcInv, Undisturbed
  <2> QED
    BY <2>1, <2>2, <2>3, <2>4, OneTab
<1>7. CASE Again(t)
  <2>1. TabBecomes(t, OnPage) /\ cookie' = cookie
    BY <1>7 DEF Again
  <2> QED
    BY <2>1, PageShape, OneTab
<1> QED
    BY <1>1, <1>2, <1>3, <1>4, <1>5, <1>6, <1>7 DEF TabStep

\* Every step keeps OidcInv.
LEMMA OidcStep == OidcInv /\ [OidcNext]_oidcVars => OidcInv'
<1> SUFFICES ASSUME OidcInv, [OidcNext]_oidcVars PROVE OidcInv'
    OBVIOUS
<1>1. ASSUME NEW t \in Tab, TabStep(t) PROVE OidcInv'
    BY <1>1, TabStepSound
<1>2. CASE DiscoveryFails
  <2>1. tab' = [t \in Tab |-> IF t \in Awaiting THEN FailedWith(tab[t], "provider") ELSE tab[t]]
    BY <1>2 DEF DiscoveryFails
  <2>2. Awaiting \in SUBSET Tab /\ \A t \in Awaiting : Flowing(tab[t])
    BY DEF Awaiting, TabAt, Flowing
  <2>3. cookie' = cookie \/ \E t \in Awaiting : Flowing(tab[t])
    BY <1>2, <2>2 DEF DiscoveryFails
  <2> HIDE DEF Awaiting
  <2> QED
    BY <2>1, <2>2, <2>3, Leaving
<1>3. CASE Restart
  <2> DEFINE out == {t \in Tab : TabAt(t, "login") \/ TabAt(t, "callback")}
  <2>1. tab' = [t \in Tab |-> IF t \in out THEN FailedWith(tab[t], "provider") ELSE tab[t]]
    BY <1>3 DEF Restart
  <2>2. out \in SUBSET Tab /\ cookie' = cookie
    BY <1>3 DEF Restart
  <2> HIDE DEF out
  <2> QED
    BY <2>1, <2>2, Leaving
<1>4. CASE CookieExpires
    BY <1>4, ExpiredSound
<1>5. CASE DiscoverySucceeds \/ ProviderUpOrDown \/ UNCHANGED oidcVars
  <2>1. tab' = tab /\ cookie' = cookie
    BY <1>5 DEF DiscoverySucceeds, ProviderUpOrDown, oidcVars
  <2> QED
    BY <2>1 DEF OidcInv, Shaped, TabRecord, Flowing, Undisturbed
<1> QED
    BY <1>1, <1>2, <1>3, <1>4, <1>5 DEF OidcNext

\* OidcInv holds of any number of tabs over one cookie.
THEOREM OidcInvariant == OidcSpec => []OidcInv
<1>1. OidcInit => OidcInv
    BY PageShape DEF OidcInit, OidcInv
<1> QED
    BY <1>1, OidcStep, PTL DEF OidcSpec

(***************************************************************************)
(* In any number of tabs, with any number of restarts of the process and   *)
(* outages of the provider, a sign-in fails for its transaction only if    *)
(* another one of the same browser, a reload or ten minutes were in the    *)
(* way (oidc.controller.ts).  Nothing is assumed of the random values.     *)
(***************************************************************************)
THEOREM LoneSignIn == OidcSpec => []LoneSignInSucceeds
<1>1. OidcInv => LoneSignInSucceeds
    BY DEF OidcInv, LoneSignInSucceeds
<1> QED
    BY <1>1, OidcInvariant, PTL

(***************************************************************************)
(* Before the redirect a tab has no transaction.                           *)
(***************************************************************************)
OidcTyped ==
    /\ OidcTypeOK
    /\ \A t \in Tab :
        TabAt(t, "login") => tab[t].txn = NoTransaction /\ tab[t].sent = NoTransaction

\* What a function makes of a finite set has no more elements.
LEMMA ImageFinite ==
    ASSUME NEW S, IsFiniteSet(S), NEW f
    PROVE  /\ IsFiniteSet({f[x] : x \in S})
           /\ Cardinality({f[x] : x \in S}) <= Cardinality(S)
<1> DEFINE T == {f[x] : x \in S}
           g == [x \in S |-> f[x]]
<1>1. g \in Surjection(S, T)
    BY DEF Surjection
<1> QED
    BY <1>1, FS_Surjection

(***************************************************************************)
(* Whatever the other tabs and the cookie hold, a new transaction is       *)
(* unlike it.                                                              *)
(***************************************************************************)
LEMMA RandomIsNew ==
    ASSUME OidcTyped, NEW t \in Tab, TabAt(t, "login")
    PROVE  Random \in Transaction
<1> DEFINE rest == Tab \ {t}
           txns == {[u \in rest |-> tab[u].txn][v] : v \in rest}
           sents == {[u \in rest |-> tab[u].sent][v] : v \in rest}
           taken == (txns \cup sents) \cup {cookie}
<1>1. /\ IsFiniteSet(rest) /\ Cardinality(rest) = Cardinality(Tab) - 1
      /\ Cardinality(Tab) \in Nat /\ Cardinality(rest) \in Nat
    BY RandomAssumption, FS_RemoveElement, FS_CardinalityType
<1>2. /\ IsFiniteSet(txns) /\ Cardinality(txns) <= Cardinality(rest)
      /\ IsFiniteSet(sents) /\ Cardinality(sents) <= Cardinality(rest)
    BY <1>1, ImageFinite
<1> HIDE DEF rest, txns, sents
<1>3. /\ IsFiniteSet(txns \cup sents)
      /\ Cardinality(txns \cup sents) <= 2 * Cardinality(rest)
  <2>1. /\ IsFiniteSet(txns \cup sents) /\ IsFiniteSet(txns \cap sents)
        /\ Cardinality(txns \cup sents) =
              Cardinality(txns) + Cardinality(sents) - Cardinality(txns \cap sents)
    BY <1>2, FS_Union, FS_Intersection
  <2>2. /\ Cardinality(txns) \in Nat /\ Cardinality(sents) \in Nat
        /\ Cardinality(txns \cap sents) \in Nat
    BY <1>2, <2>1, FS_CardinalityType
  <2> QED
    BY <1>1, <1>2, <2>1, <2>2
<1>4. IsFiniteSet(taken) /\ Cardinality(taken) < 2 * Cardinality(Tab)
  <2>1. Cardinality(txns \cup sents) \in Nat
    BY <1>3, FS_CardinalityType
  <2>2. /\ IsFiniteSet(taken)
        /\ Cardinality(taken) = IF cookie \in txns \cup sents
                                  THEN Cardinality(txns \cup sents)
                                  ELSE Cardinality(txns \cup sents) + 1
    BY <1>3, FS_AddElement
  <2> HIDE DEF taken
  <2> QED
    BY <1>1, <1>3, <2>1, <2>2
<1>5. PICK n \in Transaction : n \notin taken
  <2>1. ASSUME Transaction \subseteq taken PROVE FALSE
    <3>1. IsFiniteSet(Transaction) /\ Cardinality(Transaction) <= Cardinality(taken)
      BY <1>4, <2>1, FS_Subset
    <3>2. /\ Cardinality(Transaction) \in Nat /\ Cardinality(taken) \in Nat
          /\ Cardinality(Transaction) >= 2 * Cardinality(Tab)
      BY <1>4, <3>1, FS_CardinalityType, RandomAssumption
    <3> QED
      BY <1>1, <1>4, <3>1, <3>2
  <2> QED
    BY <2>1
<1>6. n # cookie /\ \A u \in Tab : n \notin {tab[u].txn, tab[u].sent}
  <2>1. ASSUME NEW u \in rest PROVE tab[u].txn \in txns /\ tab[u].sent \in sents
    BY <2>1 DEF txns, sents
  <2>2. tab[t].txn = NoTransaction /\ tab[t].sent = NoTransaction /\ n # NoTransaction
    BY <1>5, FlowAssumption DEF OidcTyped
  <2>3. \A u \in Tab : u = t \/ u \in rest
    BY DEF rest
  <2> QED
    BY <1>5, <2>1, <2>2, <2>3
<1> QED
    BY <1>6 DEF Random

\* A tab on a page and one that has failed have their types, and are not about to be redirected.
LEMMA PagesTyped ==
    /\ OnPage \in TabState /\ OnPage.pc = "page"
    /\ \A q \in TabState, fate \in {"none", "denied", "protocol", "provider", "account"} :
          FailedWith(q, fate) \in TabState /\ FailedWith(q, fate).pc = "failed"
    BY DEF OnPage, FailedWith, TabState

\* One tab takes a step.
LEMMA OneTyped ==
    ASSUME OidcTyped, NEW t \in Tab, NEW q \in TabState, TabBecomes(t, q),
           q.pc = "login" => q.txn = NoTransaction /\ q.sent = NoTransaction,
           cookie' \in Transaction \cup {NoTransaction},
           discovery' \in {"none", "pending", "ready"}, UNCHANGED <<up, restarts>>
    PROVE  OidcTyped'
    BY DEF OidcTyped, OidcTypeOK, TabBecomes, TabAt

\* Every step of a tab and of the clock keeps the types.
LEMMA OidcTypedKept == OidcTyped /\ [OidcNext]_oidcVars => OidcTyped'
<1> SUFFICES ASSUME OidcTyped, [OidcNext]_oidcVars PROVE OidcTyped'
    OBVIOUS
<1>0. /\ tab \in [Tab -> TabState] /\ cookie \in Transaction \cup {NoTransaction}
      /\ discovery \in {"none", "pending", "ready"} /\ up \in BOOLEAN
      /\ restarts \in 0..MaxRestarts /\ MaxRestarts \in Nat
      /\ Awaited \in {"none", "pending", "ready"}
    BY FlowAssumption DEF OidcTyped, OidcTypeOK, Awaited
<1>1. ASSUME NEW t \in Tab, TabStep(t) PROVE OidcTyped'
  <2>0. tab[t] \in TabState
    BY <1>0
  <2>1. CASE Press(t)
    <3> DEFINE crowd == InFlow # {}
               n == [OnPage EXCEPT !.pc = "login", !.met = crowd]
    <3>1. n \in TabState /\ n.txn = NoTransaction /\ n.sent = NoTransaction
      BY DEF OnPage, TabState
    <3>2. \A q \in TabState :
              /\ [q EXCEPT !.met = TRUE] \in TabState
              /\ [q EXCEPT !.met = TRUE].pc = q.pc /\ [q EXCEPT !.met = TRUE].txn = q.txn
              /\ [q EXCEPT !.met = TRUE].sent = q.sent
      BY DEF TabState
    <3>3. /\ tab' = [u \in Tab |-> IF u = t THEN n
                                   ELSE IF u \in InFlow THEN [tab[u] EXCEPT !.met = TRUE]
                                   ELSE tab[u]]
          /\ discovery' = Awaited /\ UNCHANGED <<cookie, up, restarts>>
      BY <2>1 DEF Press
    <3> HIDE DEF n
    <3> QED
      BY <1>0, <3>1, <3>2, <3>3 DEF OidcTyped, OidcTypeOK, TabAt
  <2>2. CASE Redirected(t)
    <3>1. Random \in Transaction
      BY <1>1, <2>2, RandomIsNew DEF Redirected
    <3>2. /\ [tab[t] EXCEPT !.pc = "provider", !.txn = Random] \in TabState
          /\ [tab[t] EXCEPT !.pc = "provider", !.txn = Random].pc = "provider"
      BY <2>0, <3>1 DEF TabState
    <3> QED
      BY <1>0, <1>1, <2>2, <3>1, <3>2, OneTyped DEF Redirected
  <2>3. ASSUME NEW good \in BOOLEAN, Authenticate(t, good) PROVE OidcTyped'
    <3> DEFINE n == [tab[t] EXCEPT !.pc = "callback", !.sent = cookie,
                                   !.code = IF good THEN "good" ELSE "denied"]
    <3>1. n \in TabState /\ n.pc = "callback"
      BY <1>0, <2>0 DEF TabState
    <3>2. TabBecomes(t, n) /\ UNCHANGED <<cookie, up, restarts>> /\ CallbackSent
      BY <2>3 DEF Authenticate
    <3> HIDE DEF n
    <3> QED
      BY <1>0, <1>1, <3>1, <3>2, OneTyped DEF CallbackSent
  <2>4. ASSUME NEW used \in BOOLEAN, Reload(t, used) PROVE OidcTyped'
    <3> DEFINE n == [tab[t] EXCEPT !.sent = cookie, !.met = TRUE,
                                   !.code = IF used THEN "used" ELSE tab[t].code]
    <3>1. n \in TabState /\ n.pc = "callback"
      BY <1>0, <2>0, <2>4 DEF TabState, Reload, TabAt
    <3>2. TabBecomes(t, n) /\ UNCHANGED <<cookie, up, restarts>> /\ CallbackSent
      BY <2>4 DEF Reload
    <3> HIDE DEF n
    <3> QED
      BY <1>0, <1>1, <3>1, <3>2, OneTyped DEF CallbackSent
  <2>5. CASE CallbackSucceeds(t)
    <3>1. [OnPage EXCEPT !.pc = "app"] \in TabState /\ [OnPage EXCEPT !.pc = "app"].pc = "app"
      BY DEF OnPage, TabState
    <3> QED
      BY <1>0, <1>1, <2>5, <3>1, OneTyped DEF CallbackSucceeds
  <2>6. ASSUME NEW fate \in {"denied", "protocol", "provider", "account"},
               CallbackFails(t, fate)
        PROVE  OidcTyped'
    <3>1. FailedWith(tab[t], fate) \in TabState /\ FailedWith(tab[t], fate).pc = "failed"
      BY <2>0, PagesTyped
    <3> QED
      BY <1>0, <1>1, <2>6, <3>1, OneTyped DEF CallbackFails
  <2>7. CASE Again(t)
    BY <1>0, <1>1, <2>7, PagesTyped, OneTyped DEF Again
  <2> QED
    BY <1>1, <2>1, <2>2, <2>3, <2>4, <2>5, <2>6, <2>7 DEF TabStep
<1>2. CASE DiscoveryFails
  <2>1. \A q \in TabState :
            FailedWith(q, "provider") \in TabState /\ FailedWith(q, "provider").pc = "failed"
    BY PagesTyped
  <2> QED
    BY <1>0, <1>2, <2>1 DEF DiscoveryFails, OidcTyped, OidcTypeOK, TabAt
<1>3. CASE DiscoverySucceeds
    BY <1>0, <1>3 DEF DiscoverySucceeds, OidcTyped, OidcTypeOK, TabAt
<1>4. CASE CookieExpires
  <2>1. \A q \in TabState :
            /\ [q EXCEPT !.met = TRUE] \in TabState
            /\ [q EXCEPT !.met = TRUE].pc = q.pc /\ [q EXCEPT !.met = TRUE].txn = q.txn
            /\ [q EXCEPT !.met = TRUE].sent = q.sent
    BY DEF TabState
  <2> QED
    BY <1>0, <1>4, <2>1 DEF CookieExpires, OidcTyped, OidcTypeOK, TabAt
<1>5. CASE Restart
  <2>1. \A q \in TabState :
            FailedWith(q, "provider") \in TabState /\ FailedWith(q, "provider").pc = "failed"
    BY PagesTyped
  <2> QED
    BY <1>0, <1>5, <2>1 DEF Restart, OidcTyped, OidcTypeOK, TabAt
<1>6. CASE ProviderUpOrDown
    BY <1>0, <1>6 DEF ProviderUpOrDown, OidcTyped, OidcTypeOK, TabAt
<1>7. CASE UNCHANGED oidcVars
    BY <1>7 DEF oidcVars, OidcTyped, OidcTypeOK, TabAt
<1> QED
    BY <1>1, <1>2, <1>3, <1>4, <1>5, <1>6, <1>7 DEF OidcNext

(***************************************************************************)
(* The cookie, the tabs and the redirects of oidc.controller.ts hold       *)
(* transactions that oidcClient.ts made at random, and a tab is redirected *)
(* only with one that it was given: there is always one that no tab and no *)
(* cookie holds.                                                           *)
(***************************************************************************)
THEOREM OidcTypeCorrect == OidcSpec => []OidcTypeOK
<1>1. OidcInit => OidcTyped
    BY PagesTyped, FlowAssumption DEF OidcInit, OidcTyped, OidcTypeOK, TabAt
<1>2. OidcTyped => OidcTypeOK
    BY DEF OidcTyped
<1> QED
    BY <1>1, <1>2, OidcTypedKept, PTL DEF OidcSpec
-----------------------------------------------------------------------------
(* The Firebase bridge *)

(***************************************************************************)
(* Roles of one application are all that a token, an exchange, a custom    *)
(* token and a session ever carry there, and none at all where no          *)
(* administrator signs in.                                                 *)
(***************************************************************************)
OwnRoles(a, roles) == roles \in RolesAt({a}) /\ (a \notin SignInApp => roles = {})

BridgeInv ==
    /\ BridgeTypeOK
    /\ SignOutIsTrue
    /\ \A token \in issued : token.roles \in RolesAt({token.azp})
    /\ \A a \in BridgeApp : OwnRoles(a, minting[a]) /\ OwnRoles(a, custom[a])

\* The roles of one application are among those of all.
LEMMA RolesWithin ==
    ASSUME NEW a \in BridgeApp
    PROVE  /\ RolesAt({a}) \subseteq RolesAt(BridgeApp)
           /\ {} \in RolesAt({a}) /\ {} \in RolesAt(BridgeApp)
    BY DEF RolesAt

\* A sign-out, done or due, leaves a person the roles of the one application.
LEMMA UserSound ==
    ASSUME NEW a \in BridgeApp, NEW user \in FirebaseUser, OwnRoles(a, user.roles), NEW signOut \in {"sweep", "logout"}
    PROVE  /\ SignedOut(user) \in FirebaseUser /\ OwnRoles(a, SignedOut(user).roles)
           /\ SignedOut(user).due = {}
           /\ Due(user, signOut) \in FirebaseUser /\ OwnRoles(a, Due(user, signOut).roles)
           /\ Due(user, signOut).due \subseteq user.due \cup {signOut}
<1>1. {} \in RolesAt({a}) /\ {} \in RolesAt(BridgeApp)
    BY RolesWithin
<1>2. /\ SignedOut(user) \in FirebaseUser /\ SignedOut(user).roles = {} /\ SignedOut(user).due = {}
    BY <1>1 DEF SignedOut, FirebaseUser
<1> DEFINE owed == user.due \cup (IF user.roles # {} THEN {signOut} ELSE {})
<1>3. owed \in SUBSET {"sweep", "logout"} /\ owed \subseteq user.due \cup {signOut}
    BY DEF FirebaseUser
<1>4. Due(user, signOut) = [user EXCEPT !.due = owed]
    BY DEF Due
<1> HIDE DEF owed
<1>5. /\ Due(user, signOut) \in FirebaseUser /\ Due(user, signOut).roles = user.roles
      /\ Due(user, signOut).due = owed
    BY <1>3, <1>4 DEF FirebaseUser
<1> QED
    BY <1>1, <1>2, <1>3, <1>5 DEF OwnRoles

\* What happens in Firebase: one application's user changes.
LEMMA OneUser ==
    ASSUME BridgeInv, NEW a \in BridgeApp, NEW user \in FirebaseUser, OwnRoles(a, user.roles),
           firebase' = [firebase EXCEPT ![a] = user]
    PROVE  /\ firebase' \in [BridgeApp -> FirebaseUser] /\ firebase'[a] = user
           /\ \A b \in BridgeApp \ {a} : firebase'[b] = firebase[b]
           /\ \A b \in BridgeApp : OwnRoles(b, firebase'[b].roles)
<1>1. /\ firebase \in [BridgeApp -> FirebaseUser]
      /\ \A b \in BridgeApp : OwnRoles(b, firebase[b].roles)
    BY DEF BridgeInv, BridgeTypeOK, OwnRoles
<1> QED
    BY <1>1

\* BridgeInv of the next state, from what a step can change of it.
LEMMA BridgeKept ==
    ASSUME issued' \subseteq IdpToken, \A token \in issued' : token.roles \in RolesAt({token.azp}),
           minting' \in [BridgeApp -> RolesAt(BridgeApp)], custom' \in [BridgeApp -> RolesAt(BridgeApp)],
           \A a \in BridgeApp : OwnRoles(a, minting'[a]) /\ OwnRoles(a, custom'[a]),
           firebase' \in [BridgeApp -> FirebaseUser], \A a \in BridgeApp : OwnRoles(a, firebase'[a].roles),
           sweep' \in [running : BOOLEAN, todo : SUBSET BridgeApp, failed : SUBSET BridgeApp],
           sweep'.todo # {} => sweep'.running,
           answered' \in [BridgeApp -> {"none", "200", "400"}],
           \A a \in BridgeApp :
               /\ "sweep" \in firebase'[a].due => a \in sweep'.todo \cup sweep'.failed
               /\ answered'[a] = "200" => "logout" \notin firebase'[a].due
    PROVE  BridgeInv'
<1>1. BridgeTypeOK'
    BY DEF BridgeTypeOK, OwnRoles
<1> QED
    BY <1>1 DEF BridgeInv, SignOutIsTrue, OwnRoles

\* Every exchange, sweep and back-channel logout keeps BridgeInv.
LEMMA BridgeStep == BridgeInv /\ [BridgeNext]_bridgeVars => BridgeInv'
<1> SUFFICES ASSUME BridgeInv, [BridgeNext]_bridgeVars PROVE BridgeInv'
    OBVIOUS
<1>1. /\ issued \subseteq IdpToken /\ \A token \in issued : token.roles \in RolesAt({token.azp})
      /\ minting \in [BridgeApp -> RolesAt(BridgeApp)] /\ custom \in [BridgeApp -> RolesAt(BridgeApp)]
      /\ \A a \in BridgeApp : OwnRoles(a, minting[a]) /\ OwnRoles(a, custom[a])
      /\ firebase \in [BridgeApp -> FirebaseUser] /\ \A a \in BridgeApp : OwnRoles(a, firebase[a].roles)
      /\ answered \in [BridgeApp -> {"none", "200", "400"}]
    BY DEF BridgeInv, BridgeTypeOK, OwnRoles
<1>2. /\ sweep \in [running : BOOLEAN, todo : SUBSET BridgeApp, failed : SUBSET BridgeApp]
      /\ sweep.todo # {} => sweep.running
      /\ \A a \in BridgeApp :
            /\ "sweep" \in firebase[a].due => a \in sweep.todo \cup sweep.failed
            /\ answered[a] = "200" => "logout" \notin firebase[a].due
    BY DEF BridgeInv, BridgeTypeOK, SignOutIsTrue
<1>3. ASSUME NEW token \in IdpToken, token.roles \in RolesAt({token.azp}),
             Issue(token.azp, token.aud, token.roles)
      PROVE  BridgeInv'
  <2>1. issued' = {token}
    BY <1>3 DEF Issue, IdpToken
  <2>2. UNCHANGED <<minting, custom, firebase, sweep, answered>>
    BY <1>3 DEF Issue
  <2> QED
    BY <1>1, <1>2, <1>3, <2>1, <2>2, BridgeKept
<1>4. CASE TokenLapses
    BY <1>1, <1>2, <1>4, BridgeKept DEF TokenLapses
<1>5. ASSUME NEW a \in BridgeApp, NEW token \in issued, Exchange(a, token)
      PROVE  BridgeInv'
  <2>1. /\ a \in SignInApp /\ token.azp = a /\ minting' = [minting EXCEPT ![a] = token.roles]
        /\ UNCHANGED <<issued, custom, firebase, sweep, answered>>
    BY <1>5 DEF Exchange, VerifyIdpToken
  <2>2. OwnRoles(a, token.roles) /\ token.roles \in RolesAt(BridgeApp)
    BY <1>1, <2>1, RolesWithin DEF OwnRoles
  <2>3. minting' \in [BridgeApp -> RolesAt(BridgeApp)] /\ \A b \in BridgeApp : OwnRoles(b, minting'[b])
    BY <1>1, <2>1, <2>2
  <2> QED
    BY <1>1, <1>2, <2>1, <2>3, BridgeKept
<1>6. ASSUME NEW a \in BridgeApp, Mint(a)
      PROVE  BridgeInv'
  <2>1. /\ custom' = [custom EXCEPT ![a] = minting[a]] /\ minting' = [minting EXCEPT ![a] = {}]
        /\ UNCHANGED <<issued, firebase, sweep, answered>>
    BY <1>6 DEF Mint
  <2>2. OwnRoles(a, {}) /\ {} \in RolesAt(BridgeApp)
    BY RolesWithin DEF OwnRoles
  <2>3. custom' \in [BridgeApp -> RolesAt(BridgeApp)] /\ minting' \in [BridgeApp -> RolesAt(BridgeApp)]
    BY <1>1, <2>1, <2>2
  <2>4. \A b \in BridgeApp : OwnRoles(b, minting'[b]) /\ OwnRoles(b, custom'[b])
    BY <1>1, <2>1, <2>2
  <2> QED
    BY <1>1, <1>2, <2>1, <2>3, <2>4, BridgeKept
<1>7. ASSUME NEW a \in BridgeApp, SignInWithCustomToken(a)
      PROVE  BridgeInv'
  <2> DEFINE user == [known |-> TRUE, roles |-> custom[a], due |-> {}]
  <2>1. /\ firebase' = [firebase EXCEPT ![a] = user] /\ custom' = [custom EXCEPT ![a] = {}]
        /\ UNCHANGED <<issued, minting, sweep, answered>>
    BY <1>7 DEF SignInWithCustomToken
  <2>2. OwnRoles(a, {}) /\ {} \in RolesAt(BridgeApp)
    BY RolesWithin DEF OwnRoles
  <2>3. user \in FirebaseUser /\ OwnRoles(a, user.roles) /\ user.due = {}
    BY <1>1 DEF FirebaseUser
  <2> HIDE DEF user
  <2>4. custom' \in [BridgeApp -> RolesAt(BridgeApp)] /\ \A b \in BridgeApp : OwnRoles(b, custom'[b])
    BY <1>1, <2>1, <2>2
  <2>5. /\ firebase' \in [BridgeApp -> FirebaseUser] /\ firebase'[a] = user
        /\ \A b \in BridgeApp \ {a} : firebase'[b] = firebase[b]
        /\ \A b \in BridgeApp : OwnRoles(b, firebase'[b].roles)
    BY <2>1, <2>3, OneUser
  <2>6. \A b \in BridgeApp :
            /\ "sweep" \in firebase'[b].due => b \in sweep.todo \cup sweep.failed
            /\ answered[b] = "200" => "logout" \notin firebase'[b].due
    BY <1>2, <2>3, <2>5
  <2> QED
    BY <1>1, <1>2, <2>1, <2>4, <2>5, <2>6, BridgeKept
<1>8. ASSUME NEW a \in BridgeApp, NEW works \in BOOLEAN, SweepApp(a, works)
      PROVE  BridgeInv'
  <2>0. sweep.running /\ a \in sweep.todo /\ UNCHANGED <<issued, minting, custom, answered>>
    BY <1>8 DEF SweepApp
  <2>1. CASE works
    <3>1. /\ firebase' = [firebase EXCEPT ![a] = SignedOut(firebase[a])]
          /\ sweep' = [sweep EXCEPT !.todo = sweep.todo \ {a}]
      BY <1>8, <2>1 DEF SweepApp
    <3>2. /\ SignedOut(firebase[a]) \in FirebaseUser /\ OwnRoles(a, SignedOut(firebase[a]).roles)
          /\ SignedOut(firebase[a]).due = {}
      BY <1>1, UserSound
    <3>3. /\ firebase' \in [BridgeApp -> FirebaseUser] /\ firebase'[a].due = {}
          /\ \A b \in BridgeApp \ {a} : firebase'[b] = firebase[b]
          /\ \A b \in BridgeApp : OwnRoles(b, firebase'[b].roles)
      BY <3>1, <3>2, OneUser
    <3>4. /\ sweep' \in [running : BOOLEAN, todo : SUBSET BridgeApp, failed : SUBSET BridgeApp]
          /\ sweep'.running /\ sweep'.todo = sweep.todo \ {a} /\ sweep'.failed = sweep.failed
      BY <1>2, <2>0, <3>1
    <3>5. \A b \in BridgeApp :
              /\ "sweep" \in firebase'[b].due => b \in sweep'.todo \cup sweep'.failed
              /\ answered[b] = "200" => "logout" \notin firebase'[b].due
      BY <1>2, <3>3, <3>4
    <3> QED
      BY <1>1, <2>0, <3>3, <3>4, <3>5, BridgeKept
  <2>2. CASE ~works
    <3>1. /\ firebase' = firebase
          /\ sweep' = [sweep EXCEPT !.todo = sweep.todo \ {a}, !.failed = sweep.failed \cup {a}]
      BY <1>8, <2>2 DEF SweepApp
    <3>2. /\ sweep' \in [running : BOOLEAN, todo : SUBSET BridgeApp, failed : SUBSET BridgeApp]
          /\ sweep'.running /\ sweep'.todo = sweep.todo \ {a} /\ sweep'.failed = sweep.failed \cup {a}
      BY <1>2, <2>0, <3>1
    <3> QED
      BY <1>1, <1>2, <2>0, <3>1, <3>2, BridgeKept
  <2> QED
    BY <2>1, <2>2
<1>9. ASSUME NEW a \in BridgeApp, NEW works \in BOOLEAN, BackchannelLogout(a, works)
      PROVE  BridgeInv'
  <2> DEFINE user == IF works THEN SignedOut(firebase[a]) ELSE Due(firebase[a], "logout")
  <2>1. /\ answered' = [answered EXCEPT ![a] = IF works THEN "200" ELSE "400"]
        /\ firebase' = [firebase EXCEPT ![a] = user]
        /\ UNCHANGED <<issued, minting, custom, sweep>>
    BY <1>9 DEF BackchannelLogout
  <2>2. /\ user \in FirebaseUser /\ OwnRoles(a, user.roles) /\ (works => user.due = {})
        /\ user.due \subseteq firebase[a].due \cup {"logout"}
  <3>1. firebase[a] \in FirebaseUser /\ OwnRoles(a, firebase[a].roles)
    BY <1>1
  <3>2. CASE works
    BY <3>1, <3>2, UserSound
  <3>3. CASE ~works
    BY <3>1, <3>3, UserSound
  <3> QED
    BY <3>2, <3>3
  <2> HIDE DEF user
  <2>3. /\ firebase' \in [BridgeApp -> FirebaseUser] /\ firebase'[a] = user
        /\ \A b \in BridgeApp \ {a} : firebase'[b] = firebase[b]
        /\ \A b \in BridgeApp : OwnRoles(b, firebase'[b].roles)
    BY <2>1, <2>2, OneUser
  <2>4. /\ answered' \in [BridgeApp -> {"none", "200", "400"}]
        /\ answered'[a] = "200" => works
        /\ \A b \in BridgeApp \ {a} : answered'[b] = answered[b]
    BY <1>1, <2>1
  <2>5. \A b \in BridgeApp :
            /\ "sweep" \in firebase'[b].due => b \in sweep.todo \cup sweep.failed
            /\ answered'[b] = "200" => "logout" \notin firebase'[b].due
    BY <1>2, <2>2, <2>3, <2>4
  <2> QED
    BY <1>1, <1>2, <2>1, <2>3, <2>4, <2>5, BridgeKept
<1>10. CASE SweepBegin
  <2>1. /\ sweep' = [running |-> TRUE, todo |-> BridgeApp, failed |-> {}]
        /\ firebase' = [a \in BridgeApp |-> Due(firebase[a], "sweep")]
        /\ UNCHANGED <<issued, minting, custom, answered>>
    BY <1>10 DEF SweepBegin
  <2>2. \A a \in BridgeApp :
            /\ firebase'[a] \in FirebaseUser /\ OwnRoles(a, firebase'[a].roles)
            /\ firebase'[a].due \subseteq firebase[a].due \cup {"sweep"}
    BY <1>1, <2>1, UserSound
  <2>3. firebase' \in [BridgeApp -> FirebaseUser]
    BY <2>1, <2>2
  <2>4. /\ sweep' \in [running : BOOLEAN, todo : SUBSET BridgeApp, failed : SUBSET BridgeApp]
        /\ sweep'.running /\ sweep'.todo = BridgeApp
    BY <2>1
  <2>5. \A a \in BridgeApp :
            /\ "sweep" \in firebase'[a].due => a \in sweep'.todo \cup sweep'.failed
            /\ answered[a] = "200" => "logout" \notin firebase'[a].due
    BY <1>2, <2>2, <2>4
  <2> QED
    BY <1>1, <2>1, <2>2, <2>3, <2>4, <2>5, BridgeKept
<1>11. CASE SweepEnd
  <2>1. /\ sweep.todo = {} /\ sweep' = [sweep EXCEPT !.running = FALSE]
        /\ UNCHANGED <<issued, minting, custom, firebase, answered>>
    BY <1>11 DEF SweepEnd
  <2>2. /\ sweep' \in [running : BOOLEAN, todo : SUBSET BridgeApp, failed : SUBSET BridgeApp]
        /\ sweep'.todo = {} /\ sweep'.failed = sweep.failed
    BY <1>2, <2>1
  <2> QED
    BY <1>1, <1>2, <2>1, <2>2, BridgeKept
<1>12. CASE UNCHANGED bridgeVars
    BY <1>1, <1>2, <1>12, BridgeKept DEF bridgeVars
<1> QED
    BY <1>3, <1>4, <1>5, <1>6, <1>7, <1>8, <1>9, <1>10, <1>11, <1>12 DEF BridgeNext

\* The bridge starts with nothing due.
LEMMA BridgeStart == BridgeInit => BridgeInv
<1> SUFFICES ASSUME BridgeInit PROVE BridgeInv
    OBVIOUS
<1>1. \A a \in BridgeApp : {} \in RolesAt({a}) /\ {} \in RolesAt(BridgeApp)
    BY RolesWithin
<1>2. BridgeTypeOK
    BY <1>1 DEF BridgeInit, BridgeTypeOK, FirebaseUser, NoSweep
<1> QED
    BY <1>1, <1>2 DEF BridgeInit, BridgeInv, SignOutIsTrue, OwnRoles

\* BridgeInv holds of any set of applications.
THEOREM BridgeInvariant == BridgeSpec => []BridgeInv
    BY BridgeStart, BridgeStep, PTL DEF BridgeSpec

(***************************************************************************)
(* A session has roles of its own application only, whatever tokens list   *)
(* (firebaseBridge.service.ts:79-82), for any set of applications.         *)
(***************************************************************************)
THEOREM BridgeTypeCorrect == BridgeSpec => []BridgeTypeOK
<1>1. BridgeInv => BridgeTypeOK
    BY DEF BridgeInv
<1> QED
    BY <1>1, BridgeInvariant, PTL

(***************************************************************************)
(* For any set of applications, failures in any of them and sign-ins       *)
(* meanwhile: a sign-out everywhere ends every session that was open when  *)
(* it began, but for those it says it failed to end, and 200 answers only  *)
(* a back-channel logout that was done (firebaseBridge.service.ts).        *)
(***************************************************************************)
THEOREM SignOutTrue == BridgeSpec => []SignOutIsTrue
<1>1. BridgeInv => SignOutIsTrue
    BY DEF BridgeInv
<1> QED
    BY <1>1, BridgeInvariant, PTL
-----------------------------------------------------------------------------
(* Together *)

(***************************************************************************)
(* Side by side, each of the callers does what it does alone, so that what *)
(* is proved of one holds beside the others.                               *)
(***************************************************************************)
THEOREM OutboundComponents ==
    OutboundSpec => FairSpec /\ FairStockSpec /\ KcSpec /\ OidcSpec /\ BridgeSpec
<1>1. OutboundInit => Init /\ StockInit /\ KcInit /\ OidcInit /\ BridgeInit
    BY DEF OutboundInit
<1>2. [OutboundNext]_<<vars, stockVars, kcVars, oidcVars, bridgeVars, focus>> =>
          /\ [Next]_vars /\ [StockNext]_stockVars /\ [KcNext]_kcVars
          /\ [OidcNext]_oidcVars /\ [BridgeNext]_bridgeVars
    BY DEF OutboundNext, Frame
<1> QED
    BY <1>1, <1>2, PTL DEF OutboundSpec, FairSpec, Spec, FairStockSpec, StockSpec, KcSpec,
            OidcSpec, BridgeSpec

(***************************************************************************)
(* The types of everything that an outbound call reads or writes, which no *)
(* interleaving of them leaves.                                            *)
(***************************************************************************)
THEOREM OutboundTypes == OutboundSpec => []OutboundTypeOK
<1>1. StockTypeOK /\ KcTypeOK /\ OidcTypeOK /\ BridgeTypeOK => OutboundTypeOK
    BY DEF OutboundTypeOK
<1> QED
    BY <1>1, OutboundComponents, StockTypeCorrect, KcTypeCorrect, OidcTypeCorrect,
       BridgeTypeCorrect, PTL DEF FairStockSpec

(***************************************************************************)
(* Side by side, the adapter's reads and the requests to Keycloak keep the *)
(* one contract: one repetition after a 401, with another token.           *)
(***************************************************************************)
THEOREM RetriesBounded == OutboundSpec => RetriesAreBounded
    BY OutboundComponents, RereadsBounded, ResendBounded
       DEF FairStockSpec, RetriesAreBounded

(***************************************************************************)
(* All that is claimed of the outbound calls holds of them together: where *)
(* they connect to, what Keycloak's answers are taken for, whose sign-in   *)
(* succeeds, whose sessions a sign-out ends and what is sent again.        *)
(***************************************************************************)
THEOREM OutboundKeeps ==
    OutboundSpec =>
        /\ [](ContactedIsPublic /\ AnswerIsTrue /\ LoneSignInSucceeds /\ SignOutIsTrue)
        /\ RetriesAreBounded
    BY OutboundComponents, ContactedPublic, AnswersTrue, LoneSignIn, SignOutTrue,
       RetriesBounded, PTL DEF FairStockSpec
=============================================================================
