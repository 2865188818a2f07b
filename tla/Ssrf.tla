--------------------------------- MODULE Ssrf ---------------------------------
(***************************************************************************)
(* Which addresses an outbound call may reach                              *)
(* (apps/api/src/integration/ssrf.ts), as functions on numbers: an IPv4    *)
(* address is its four octets, an IPv6 address the groups of its text.     *)
(* PublicV4 and PublicV6 say the same in the words of the address plan,    *)
(* as ranges, and are what the computations are checked against.           *)
(***************************************************************************)
EXTENDS Integers, Sequences

Octet == 0..255

Hextet == 0..65535

\* An address as text: the groups before and after "::" (double), and a
\* dotted IPv4 suffix or none.
V4(octets) == [family |-> 4, octets |-> octets]

V6(head, double, tail, dotted) ==
    [family |-> 6, head |-> head, double |-> double, tail |-> tail, dotted |-> dotted]

NotAnIp == [family |-> 0]

\* What the resolver hands over: of any length, with numbers of any size.
Spelled(ip) ==
    \/ ip = NotAnIp
    \/ ip.family = 4 /\ ip.octets \in Seq(Nat)
    \/ /\ ip.family = 6
       /\ {ip.head, ip.tail, ip.dotted} \subseteq Seq(Nat)
       /\ ip.double \in BOOLEAN /\ Len(ip.dotted) \in {0, 4}

IsBlockedIpv4(ip) ==
    \/ Len(ip) # 4
    \/ \E i \in 1..Len(ip) : ip[i] \notin Octet
    \/ ip[1] \in {0, 10, 127}
    \/ <<ip[1], ip[2]>> \in {<<169, 254>>, <<192, 168>>}
    \/ ip[1] = 172 /\ ip[2] \in 16..31
    \/ ip[1] = 100 /\ ip[2] \in 64..127

EmbeddedIpv4(hi, lo) == <<hi \div 256, hi % 256, lo \div 256, lo % 256>>

\* x & ~(2^k - 1), the masks of the code.
Masked(x, block) == x - (x % block)

IsBlockedIpv6(h) ==
    IF \A i \in 1..5 : h[i] = 0
      THEN CASE h[6] = 65535 -> IsBlockedIpv4(EmbeddedIpv4(h[7], h[8]))
             [] h[6] = 0     -> \/ h[7] = 0 /\ h[8] \in {0, 1}
                                \/ IsBlockedIpv4(EmbeddedIpv4(h[7], h[8]))
             [] OTHER        -> FALSE
      ELSE \/ Masked(h[1], 64) = 65152      \* fe80::/10
           \/ Masked(h[1], 512) = 64512     \* fc00::/7

Zeros(n) == [i \in 1..n |-> 0]

\* The two groups a dotted suffix stands for.
Hexed(dotted) ==
    IF dotted = <<>> THEN <<>>
      ELSE <<dotted[1] * 256 + dotted[2], dotted[3] * 256 + dotted[4]>>

\* <<>> is null: the text cannot be parsed.
ExpandIpv6(text) ==
    LET head == IF text.double THEN text.head ELSE text.head \o Hexed(text.dotted)
        tail == IF text.double THEN text.tail \o Hexed(text.dotted) ELSE <<>>
        missing == 8 - (Len(head) + Len(tail))
        groups == head \o (IF text.double THEN Zeros(missing) ELSE <<>>) \o tail
    IN  IF /\ IF text.double THEN missing >= 1 ELSE missing = 0
           /\ \A i \in 1..Len(text.dotted) : text.dotted[i] \in Octet
           /\ \A i \in 1..Len(groups) : groups[i] \in Hextet
          THEN groups ELSE <<>>

IsBlockedIp(ip) ==
    CASE ip.family = 4 -> IsBlockedIpv4(ip.octets)
      [] ip.family = 6 -> \/ ExpandIpv6(ip) = <<>>
                          \/ IsBlockedIpv6(ExpandIpv6(ip))
      [] OTHER         -> TRUE

\* assertResolvedIpsAllowed: nothing resolved, or any blocked address, refuses.
ResolvedIpsAllowed(ips) ==
    /\ ips # <<>>
    /\ \A i \in 1..Len(ips) : ~IsBlockedIp(ips[i])

-----------------------------------------------------------------------------
(* The reference: the ranges of RFC 1122, 1918, 3927, 4193, 4291 and 6598. *)

Prefix(octets) == octets[1] * 256 + octets[2]

PublicV4(octets) ==
    Prefix(octets) \notin
        0..255 \cup 2560..2815 \cup 25664..25727 \cup 32512..32767
               \cup {43518} \cup 44048..44063 \cup {49320}

PublicV6(h) ==
    /\ h[1] \notin 64512..65023
    /\ h[1] \notin 65152..65215
    /\ (\A i \in 1..5 : h[i] = 0) /\ h[6] \in {0, 65535} =>
          PublicV4(<<h[7] \div 256, h[7] % 256>>)

Public(ip) ==
    CASE ip.family = 4 -> PublicV4(ip.octets)
      [] ip.family = 6 -> PublicV6(ExpandIpv6(ip))
      [] OTHER         -> FALSE
=============================================================================
