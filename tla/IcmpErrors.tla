----------------------------- MODULE IcmpErrors -----------------------------
(***************************************************************************)
(* Translation of ICMPv4 errors, src/nat64/icmperr.go: an error that       *)
(* quotes a packet of a live session becomes one ICMPv6 error to the       *)
(* session's client.  A quoted packet is a record of the header fields the *)
(* code reads; quoted is the number of octets there are of it.  The budget *)
(* of injectICMPv6, which may drop an error, and the checksums are left    *)
(* out.                                                                    *)
(***************************************************************************)
EXTENDS Integers

UDP == 17
ICMP == 1
TCP == 6

\* An ICMPv6 type and code; Drop is the pair returned with ok = false.
Drop == <<0, 0>>

translateICMPv4ErrorType(typ, code) ==
  IF typ = 3 /\ code \in {0, 1, 5, 6, 7, 8, 11, 12} THEN <<1, 0>>
  ELSE IF typ = 3 /\ code = 2 THEN <<4, 1>>
  ELSE IF typ = 3 /\ code = 3 THEN <<1, 4>>
  ELSE IF typ = 3 /\ code = 4 THEN <<2, 0>>
  ELSE IF typ = 3 /\ code \in {9, 10, 13, 15} THEN <<1, 1>>
  ELSE IF typ = 11 /\ code <= 1 THEN <<3, code>>
  ELSE IF typ = 12 /\ code \in {0, 2} THEN <<4, 0>>
  ELSE Drop

\* -1 stands for ok = false.
remapV4ParamProblemPointer(p) ==
  IF p = 0 THEN 0
  ELSE IF p = 1 THEN 1
  ELSE IF p \in 2..3 THEN 4
  ELSE IF p = 8 THEN 7
  ELSE IF p = 9 THEN 6
  ELSE IF p \in 12..15 THEN 8
  ELSE IF p \in 16..19 THEN 24
  ELSE -1

rfc1191Plateaus == {65535, 32000, 17914, 8166, 4352, 2002, 1492, 1006, 508, 296, 68}

\* The greatest plateau below the datagram's length, but no less than 1280.
Plateau(totalLen) ==
  LET below == {p \in rfc1191Plateaus : p < totalLen /\ p > 1280}
  IN  IF below = {} THEN 1280 ELSE CHOOSE p \in below : \A q \in below : q <= p

ptbIPv6MTU(v4MTU, innerTotalLen, v6NextHopMTU) ==
  LET m   == IF v4MTU <= 0 THEN Plateau(innerTotalLen) ELSE v4MTU
      mtu == IF v6NextHopMTU > 0 /\ v6NextHopMTU < m + 20 THEN v6NextHopMTU ELSE m + 20
  IN  IF mtu < 1280 THEN 1280 ELSE mtu

\* The quoted packet is one that parseICMPv4InnerPacket accepts.
UsableQuote(q) ==
  /\ q.quoted >= 20 /\ q.version = 4
  /\ 4 * q.ihl >= 20 /\ 4 * q.ihl <= q.quoted
  /\ q.proto \in {UDP, ICMP, TCP}
  /\ q.quoted - 4 * q.ihl >= 8 /\ q.totalLen >= 4 * q.ihl

\* The type-specific word of the ICMPv6 error, -1 to drop the error.
Extra(e, v6, nextHop) ==
  IF v6[1] = 2 THEN ptbIPv6MTU(e.mtu, e.inner.totalLen, nextHop)
  ELSE IF v6 = <<4, 1>> THEN 6
  ELSE IF v6[1] = 4 THEN remapV4ParamProblemPointer(e.pointer)
  ELSE 0

icmpErrMaxPacket == 1280
icmpErrFixedLen == 88

\* The length of the packet with a quote of l4 octets.
PacketLen(l4) ==
  LET room == icmpErrMaxPacket - icmpErrFixedLen
  IN  icmpErrFixedLen + (IF l4 > room THEN room ELSE l4)

\* The sessions a quoted packet may be taken to belong to.
UdpOwners(q, sessions) ==
  {s \in sessions : /\ q.proto = UDP
                    /\ s.localPort = q.sport /\ s.localIP = q.src
                    /\ s.dstAddr = q.dst /\ s.dstPort = q.dport}

EchoOwners(q, slots) ==
  {s \in slots : q.proto = ICMP /\ q.l4type = 8 /\ s.dstAddr = q.dst /\ s.allocID = q.id}

\* The error sent to the owner; id is the port or identifier it is known by.
ErrorTo(e, v6, nextHop, client, id) ==
  [to |-> client, type |-> v6[1], code |-> v6[2], extra |-> Extra(e, v6, nextHop), id |-> id,
   len |-> PacketLen(e.inner.quoted - 4 * e.inner.ihl)]

\* What handleICMPv4Error may inject for error e: nothing, or one of these.
handleICMPv4Error(e, sessions, slots, nextHop) ==
  LET v6 == translateICMPv4ErrorType(e.type, e.code)
      q  == e.inner
  IN  IF v6 = Drop \/ ~UsableQuote(q) \/ Extra(e, v6, nextHop) < 0 THEN {}
      ELSE {ErrorTo(e, v6, nextHop, s.client, s.srcPort) : s \in UdpOwners(q, sessions)}
             \cup {ErrorTo(e, v6, nextHop, s.client, s.clientID) : s \in EchoOwners(q, slots)}
=============================================================================
