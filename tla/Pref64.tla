------------------------------- MODULE Pref64 -------------------------------
(***************************************************************************)
(* IPv4-embedded IPv6 addresses, src/config/pref64.go: validating a NAT64  *)
(* prefix, embedding an IPv4 address and extracting it.  NAT64 extracts    *)
(* the destination of every flow and embeds the source of every reply;     *)
(* DNS64 embeds the addresses of the A records it synthesises from.        *)
(***************************************************************************)
EXTENDS Integers

Octet == 0..255
V6 == [0..15 -> Octet]
V4 == [1..4 -> Octet]

pref64UByte == 8

Lengths == {32, 40, 48, 56, 64, 96}

pref64V4Offsets(bits) ==
  IF bits = 32 THEN <<4, 5, 6, 7>>
  ELSE IF bits = 40 THEN <<5, 6, 7, 9>>
  ELSE IF bits = 48 THEN <<6, 7, 9, 10>>
  ELSE IF bits = 56 THEN <<7, 9, 10, 11>>
  ELSE IF bits = 64 THEN <<9, 10, 11, 12>>
  ELSE <<12, 13, 14, 15>>

InV4(bits, i) == \E k \in 1..4 : pref64V4Offsets(bits)[k] = i

\* net.IP.To4 has an answer: the address is an IPv4-mapped one.
V4Mapped(a) == (\A i \in 0..9 : a[i] = 0) /\ a[10] = 255 /\ a[11] = 255

\* The length is one of RFC 6052, what is neither prefix nor embedded address
\* is zero, and the address is not IPv4 in disguise.
Valid(addr, bits) ==
  /\ ~V4Mapped(addr)
  /\ bits \in Lengths
  /\ \A i \in (bits \div 8)..15 : InV4(bits, i) \/ addr[i] = 0

\* The pool of a valid prefix: net.ParseCIDR clears the host bits.
ParsePref64(addr, bits) ==
  [net |-> [i \in 0..15 |-> IF i < bits \div 8 THEN addr[i] ELSE 0], bits |-> bits]

\* net.IPNet.Contains looks at an IPv4-mapped address as four octets, which no
\* IPv6 network contains.
Contains(p, a) ==
  /\ ~V4Mapped(a)
  /\ \A i \in 0..15 : i < p.bits \div 8 => a[i] = p.net[i]

embedInto(p, v4) ==
  LET offs == pref64V4Offsets(p.bits)
  IN  [i \in 0..15 |->
         IF InV4(p.bits, i) THEN v4[CHOOSE k \in 1..4 : offs[k] = i]
         ELSE IF i = pref64UByte /\ p.bits < 96 THEN 0
         ELSE p.net[i]]

Embed(p, v4) == embedInto(p, v4)

AtOffsets(p, a) == [k \in 1..4 |-> a[pref64V4Offsets(p.bits)[k]]]

\* Extract's answer and its flag: the address must be in the pool and in the
\* one form that Embed builds.
Extracts(p, a) == Contains(p, a) /\ a = embedInto(p, AtOffsets(p, a))
Extract(p, a) == AtOffsets(p, a)
=============================================================================
