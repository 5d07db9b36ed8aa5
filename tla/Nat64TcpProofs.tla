---------------------------- MODULE Nat64TcpProofs ----------------------------
(***************************************************************************)
(* Proofs about Nat64Tcp, for every number of connections, sources and     *)
(* concurrent handlers and every capacity: the semaphore and the           *)
(* per-source counts are exact, a source overshoots its ceiling by no more *)
(* than the other handlers, and a finished connection leaves nothing       *)
(* behind.  Also the proofs about IcmpErrors, the translation of ICMP      *)
(* errors that quote a packet of a session.                                *)
(***************************************************************************)
EXTENDS Nat64Tcp, IcmpErrors, FiniteSetTheorems, TLAPS

(***************************************************************************)
(* The translation of ICMPv4 errors of module IcmpErrors, for every error, *)
(* every quoted packet and every set of sessions.                          *)
(***************************************************************************)

\* The estimate is 1280 or a plateau below the length of the datagram.
LEMMA PlateauIs ==
  ASSUME NEW n \in Nat
  PROVE  \/ Plateau(n) = 1280
         \/ Plateau(n) \in rfc1191Plateaus /\ Plateau(n) < n /\ Plateau(n) > 1280
<1> DEFINE below == {p \in rfc1191Plateaus : p < n /\ p > 1280}
           greatest(p) == p \in below /\ \A q \in below : q <= p
<1>1. CASE below = {}
  BY <1>1 DEF Plateau
<1>2. CASE below # {}
  <2>1. n > 1492
    BY <1>2 DEF rfc1191Plateaus
  <2>2. CASE n > 65535
    <3>1. greatest(65535)
      BY <2>2 DEF rfc1191Plateaus
    <3> QED BY <1>2, <3>1 DEF Plateau
  <2>3. CASE n <= 65535 /\ n > 32000
    <3>1. greatest(32000)
      BY <2>3 DEF rfc1191Plateaus
    <3> QED BY <1>2, <3>1 DEF Plateau
  <2>4. CASE n <= 32000 /\ n > 17914
    <3>1. greatest(17914)
      BY <2>4 DEF rfc1191Plateaus
    <3> QED BY <1>2, <3>1 DEF Plateau
  <2>5. CASE n <= 17914 /\ n > 8166
    <3>1. greatest(8166)
      BY <2>5 DEF rfc1191Plateaus
    <3> QED BY <1>2, <3>1 DEF Plateau
  <2>6. CASE n <= 8166 /\ n > 4352
    <3>1. greatest(4352)
      BY <2>6 DEF rfc1191Plateaus
    <3> QED BY <1>2, <3>1 DEF Plateau
  <2>7. CASE n <= 4352 /\ n > 2002
    <3>1. greatest(2002)
      BY <2>7 DEF rfc1191Plateaus
    <3> QED BY <1>2, <3>1 DEF Plateau
  <2>8. CASE n <= 2002 /\ n > 1492
    <3>1. greatest(1492)
      BY <2>8 DEF rfc1191Plateaus
    <3> QED BY <1>2, <3>1 DEF Plateau
  <2> QED BY <2>1, <2>2, <2>3, <2>4, <2>5, <2>6, <2>7, <2>8
<1> QED BY <1>1, <1>2

\* The MTU of a Packet Too Big is at least the minimum of IPv6 and at most
\* that of the Yggdrasil link, whatever the IPv4 router says.
THEOREM MtuInRange ==
  ASSUME NEW mtu \in Nat, NEW len \in Nat, NEW nextHop \in Nat
  PROVE  /\ ptbIPv6MTU(mtu, len, nextHop) >= 1280
         /\ nextHop >= 1280 => ptbIPv6MTU(mtu, len, nextHop) <= nextHop
<1>1. Plateau(len) \in Int
  BY PlateauIs DEF rfc1191Plateaus
<1> DEFINE m == IF mtu <= 0 THEN Plateau(len) ELSE mtu
<1>2. m \in Int
  BY <1>1
<1> HIDE DEF m
<1> QED BY <1>2 DEF ptbIPv6MTU, m

\* A router that does not tell its MTU still makes the sender converge: the
\* MTU reported is below the size the refused datagram has in IPv6, until it
\* is within 20 octets of the minimum.
THEOREM UnknownMtuConverges ==
  ASSUME NEW len \in Nat, NEW nextHop \in Nat
  PROVE  ptbIPv6MTU(0, len, nextHop) < len + 20 \/ ptbIPv6MTU(0, len, nextHop) <= 1300
<1>1. Plateau(len) = 1280 \/ (Plateau(len) \in Int /\ Plateau(len) < len /\ Plateau(len) > 1280)
  BY PlateauIs DEF rfc1191Plateaus
<1> QED BY <1>1 DEF ptbIPv6MTU

\* The translated type is one of the four ICMPv6 errors with a code of its.
LEMMA TypeIs ==
  ASSUME NEW typ \in 0..255, NEW code \in 0..255
  PROVE  LET v == translateICMPv4ErrorType(typ, code)
         IN  v = Drop \/ v \in ({1} \X {0, 1, 4}) \cup {<<2, 0>>} \cup ({3} \X {0, 1})
                               \cup ({4} \X {0, 1})
BY DEF translateICMPv4ErrorType, Drop

\* An error that is injected is a well-formed ICMPv6 error: a Packet Too Big
\* carries an MTU no host may ignore, a Parameter Problem points into the
\* IPv6 header, and the packet fits the minimum MTU, so that it is never
\* fragmented itself.
THEOREM ErrorsWellFormed ==
  ASSUME NEW e, NEW sessions, NEW echoes, NEW nextHop \in Nat,
         e.type \in 0..255, e.code \in 0..255, e.mtu \in Nat, e.pointer \in 0..255,
         e.inner.totalLen \in Nat, e.inner.quoted \in Nat, e.inner.ihl \in Nat,
         NEW r \in handleICMPv4Error(e, sessions, echoes, nextHop)
  PROVE  /\ r.type \in 1..4
         /\ r.type = 2 => r.extra >= 1280
         /\ r.type = 4 => r.extra \in 0..39
         /\ r.type \in {1, 3} => r.extra = 0
         /\ r.len \in 96..1280
<1> DEFINE v == translateICMPv4ErrorType(e.type, e.code)
           l4 == e.inner.quoted - 4 * e.inner.ihl
           x == Extra(e, v, nextHop)
<1>1. v # Drop /\ UsableQuote(e.inner) /\ ~(x < 0)
  BY Zenon DEF handleICMPv4Error
<1>2. PICK client, id : r = ErrorTo(e, v, nextHop, client, id)
  BY Zenon, <1>1 DEF handleICMPv4Error
<1>3. r.type = v[1] /\ r.extra = x /\ r.len = PacketLen(l4)
  BY Zenon, <1>2 DEF ErrorTo
<1>4. l4 \in Nat /\ l4 >= 8
  BY <1>1 DEF UsableQuote
<1>5. PacketLen(l4) \in 96..1280
  <2> HIDE DEF l4
  <2> QED BY <1>4 DEF PacketLen, icmpErrMaxPacket, icmpErrFixedLen
<1>6. v \in ({1} \X {0, 1, 4}) \cup {<<2, 0>>} \cup ({3} \X {0, 1}) \cup ({4} \X {0, 1})
  BY Zenon, <1>1, TypeIs
<1>7. v[1] \in 1..4
  <2> HIDE DEF v
  <2> QED BY <1>6
<1>8. v[1] = 2 => x >= 1280
  BY MtuInRange DEF Extra
<1>9. v[1] = 4 => x \in 0..39
  BY <1>1 DEF Extra, remapV4ParamProblemPointer
<1>10. v[1] \in {1, 3} => x = 0
  <2> HIDE DEF v
  <2> QED BY <1>6 DEF Extra
<1> HIDE DEF v, x, l4
<1> QED BY <1>3, <1>5, <1>7, <1>8, <1>9, <1>10

\* An error is sent to no one but the client whose session sent the quoted
\* packet, under the port or the identifier the client itself used, if the
\* sessions of one external port are one client's, which the operating system
\* sees to while their sockets are open, and every slot is one query's
\* (QueryHasSlot in Nat64Icmp).
THEOREM ErrorsReachOwner ==
  ASSUME NEW e, NEW sessions, NEW echoes, NEW nextHop,
         \A s, t \in sessions :
           s.localPort = t.localPort /\ s.localIP = t.localIP
             => s.client = t.client /\ s.srcPort = t.srcPort,
         \A s, t \in echoes :
           s.dstAddr = t.dstAddr /\ s.allocID = t.allocID => s = t,
         NEW r \in handleICMPv4Error(e, sessions, echoes, nextHop)
  PROVE  /\ handleICMPv4Error(e, sessions, echoes, nextHop) = {r}
         /\ \/ \E s \in sessions : /\ r.to = s.client /\ r.id = s.srcPort
                                   /\ s.dstAddr = e.inner.dst /\ s.localPort = e.inner.sport
            \/ \E s \in echoes : /\ r.to = s.client /\ r.id = s.clientID
                                /\ s.dstAddr = e.inner.dst /\ s.allocID = e.inner.id
<1> DEFINE v == translateICMPv4ErrorType(e.type, e.code)
           q == e.inner
           U == {ErrorTo(e, v, nextHop, s.client, s.srcPort) : s \in UdpOwners(q, sessions)}
           E == {ErrorTo(e, v, nextHop, s.client, s.clientID) : s \in EchoOwners(q, echoes)}
<1>1. handleICMPv4Error(e, sessions, echoes, nextHop) = U \cup E
  BY Zenon DEF handleICMPv4Error
<1>2. \A s, t \in UdpOwners(q, sessions) : s.client = t.client /\ s.srcPort = t.srcPort
  BY Zenon DEF UdpOwners
<1>3. \A s, t \in EchoOwners(q, echoes) : s = t
  BY Zenon DEF EchoOwners
<1>4. UdpOwners(q, sessions) = {} \/ EchoOwners(q, echoes) = {}
  BY DEF UdpOwners, EchoOwners, UDP, ICMP
<1>5. CASE r \in U
  <2>1. PICK s \in UdpOwners(q, sessions) : r = ErrorTo(e, v, nextHop, s.client, s.srcPort)
    BY Zenon, <1>5
  <2>2. E = {}
    BY Zenon, <1>4, <2>1
  <2>3. U = {r}
    BY <1>2, <2>1
  <2>4. r.to = s.client /\ r.id = s.srcPort
    BY Zenon, <2>1 DEF ErrorTo
  <2>5. s \in sessions /\ s.dstAddr = q.dst /\ s.localPort = q.sport
    BY Zenon DEF UdpOwners
  <2> QED BY Zenon, <1>1, <2>2, <2>3, <2>4, <2>5
<1>6. CASE r \in E
  <2>1. PICK s \in EchoOwners(q, echoes) : r = ErrorTo(e, v, nextHop, s.client, s.clientID)
    BY Zenon, <1>6
  <2>2. U = {}
    BY Zenon, <1>4, <2>1
  <2>3. E = {r}
    BY Zenon, <1>3, <2>1
  <2>4. r.to = s.client /\ r.id = s.clientID
    BY Zenon, <2>1 DEF ErrorTo
  <2>5. s \in echoes /\ s.dstAddr = q.dst /\ s.allocID = q.id
    BY Zenon DEF EchoOwners
  <2> QED BY Zenon, <1>1, <2>2, <2>3, <2>4, <2>5
<1> QED BY Zenon, <1>1, <1>5, <1>6

-----------------------------------------------------------------------------
(***************************************************************************)
(* Nat64Tcp.                                                               *)
(***************************************************************************)

USE TcpConstants

Pc == {"none"} \cup HandlerPc \cup ProxyPc

\* The cleaner has a target while it closes a pair.
TargetOK == cl.pc \in {"closeA", "closeB"} => cl.target \in Conn

TypeInv == TypeOK /\ TargetOK

-----------------------------------------------------------------------------
(***************************************************************************)
(* Type correctness.                                                       *)
(***************************************************************************)

\* The initial state is well typed.
LEMMA TypeInit == Init => TypeInv
<1> SUFFICES ASSUME Init PROVE TypeInv
  OBVIOUS
<1>1. ConnOK
  BY DEF Init, ConnOK, HandlerPc, ProxyPc, Leg
<1>2. cl \in ClState /\ TargetOK
  BY DEF Init, NoPass, ClState, TargetOK
<1>3. settings \in Setting
  BY Zenon DEF Init
<1> QED
  BY <1>1, <1>2, <1>3 DEF Init, TypeInv, TypeOK

\* Goto keeps pc well typed, and changes it for its connection only.
LEMMA GotoType ==
  ASSUME ConnOK, NEW c \in Conn, NEW l \in Pc, Goto(c, l)
  PROVE  pc' \in [Conn -> Pc] /\ pc'[c] = l /\ \A d \in Conn : d # c => pc'[d] = pc[d]
  BY Zenon DEF ConnOK, Goto, Pc

\* Setting one leg keeps both well typed.
LEMMA LegType ==
  ASSUME ConnOK, NEW c \in Conn, NEW x \in Leg,
         NEW v \in {"none", "open", "fin", "closed"}, SetLeg(c, x, v)
  PROVE  leg' \in [Conn -> [Leg -> {"none", "open", "fin", "closed"}]]
<1>1. leg[c] \in [Leg -> {"none", "open", "fin", "closed"}]
  BY Zenon DEF ConnOK
<1>2. [leg[c] EXCEPT ![x] = v] \in [Leg -> {"none", "open", "fin", "closed"}]
  BY Zenon, <1>1
<1>3. leg' = [leg EXCEPT ![c] = [leg[c] EXCEPT ![x] = v]]
  BY Zenon DEF SetLeg
<1> QED
  BY Zenon, <1>2, <1>3 DEF ConnOK

\* Moving one copying goroutine keeps both well typed.
LEMMA CopyType ==
  ASSUME ConnOK, NEW c \in Conn, NEW x \in Leg,
         NEW v \in {"none", "read", "write", "done"}, cp' = [cp EXCEPT ![c][x] = v]
  PROVE  cp' \in [Conn -> [Leg -> {"none", "read", "write", "done"}]]
<1>1. cp[c] \in [Leg -> {"none", "read", "write", "done"}]
  BY Zenon DEF ConnOK
<1>2. [cp[c] EXCEPT ![x] = v] \in [Leg -> {"none", "read", "write", "done"}]
  BY Zenon, <1>1
<1>3. cp' = [cp EXCEPT ![c] = [cp[c] EXCEPT ![x] = v]]
  OBVIOUS
<1> QED
  BY Zenon, <1>2, <1>3 DEF ConnOK

\* The counters stay natural numbers: releaseTCP does not run on an empty
\* channel and remove never goes below zero.
LEMMA SlotType ==
  ASSUME TypeInv, NEW c \in Conn, NEW from, NEW to \in Pc,
         ReleaseTCP(c, from, to) \/ RemoveSource(c, from, to)
  PROVE  TypeInv'
<1>1. pc' \in [Conn -> Pc] /\ UNCHANGED <<now, settings, ends, lastSeen, tcpConns, cl>>
  BY Zenon, GotoType DEF ReleaseTCP, RemoveSource, TypeInv, TypeOK
<1>2. tcpSem' \in Nat /\ srcCounts' \in [Src -> Nat]
  <2>1. CASE ReleaseTCP(c, from, to)
    BY <2>1 DEF ReleaseTCP, TypeInv, TypeOK
  <2>2. CASE RemoveSource(c, from, to)
    BY <2>2 DEF RemoveSource, TypeInv, TypeOK
  <2> QED BY Zenon, <2>1, <2>2
<1> QED
  BY Zenon, <1>1, <1>2 DEF TypeInv, TypeOK, ConnOK, TargetOK, ends, Pc

\* The steps of one connection keep the types.
LEMMA ConnType ==
  ASSUME TypeInv, NEW c \in Conn, HandleTCP(c) \/ Progress(c)
  PROVE  TypeInv'
<1> USE DEF TypeInv, TypeOK
<1>l. {"none", "check", "acquire", "add", "endpoint", "unacquire", "unadd", "dial",
       "track", "proxy", "untrack", "closeB", "closeA", "release", "remove"} \subseteq Pc
  BY Zenon DEF Pc, HandlerPc, ProxyPc
<1>1. CASE HandleTCP(c) \/ CheckSource(c) \/ CopiesDone(c)
  <2>1. pc' \in [Conn -> Pc]
    BY Zenon, <1>1, <1>l, GotoType DEF HandleTCP, CheckSource, CopiesDone
  <2>2. UNCHANGED <<now, settings, ends, lastSeen, tcpConns, slots, cl>>
    BY Zenon, <1>1 DEF HandleTCP, CheckSource, CopiesDone
  <2> QED
    BY Zenon, <2>1, <2>2 DEF ConnOK, TargetOK, ends, slots, Pc
<1>2. CASE TryAcquireTCP(c) \/ AddSource(c)
  <2>1. pc' \in [Conn -> Pc]
    BY Zenon, <1>2, <1>l, GotoType DEF TryAcquireTCP, AddSource
  <2>2. tcpSem' \in Nat /\ srcCounts' \in [Src -> Nat]
    BY <1>2 DEF TryAcquireTCP, AddSource
  <2>3. UNCHANGED <<now, settings, ends, lastSeen, tcpConns, cl>>
    BY Zenon, <1>2 DEF TryAcquireTCP, AddSource
  <2> QED
    BY Zenon, <2>1, <2>2, <2>3 DEF ConnOK, TargetOK, ends, Pc
<1>3. CASE CreateEndpoint(c) \/ Dial(c)
  <2>1. pc' \in [Conn -> Pc]
    BY Zenon, <1>3, <1>l, GotoType DEF CreateEndpoint, Dial
  <2>2. leg' \in [Conn -> [Leg -> {"none", "open", "fin", "closed"}]]
    <3>1. UNCHANGED leg \/ (\E x \in Leg : SetLeg(c, x, "open"))
      BY Zenon, <1>3 DEF CreateEndpoint, Dial, Leg
    <3> QED
      BY Zenon, <3>1, LegType DEF ConnOK
  <2>3. peer' \in [Conn -> [Leg -> {"live", "eof", "dead"}]]
    <3>1. [x \in Leg |-> "live"] \in [Leg -> {"live", "eof", "dead"}]
      OBVIOUS
    <3>2. UNCHANGED peer \/ peer' = [peer EXCEPT ![c] = [x \in Leg |-> "live"]]
      BY Zenon, <1>3 DEF CreateEndpoint, Dial
    <3> QED
      BY Zenon, <3>1, <3>2 DEF ConnOK
  <2>4. UNCHANGED <<now, settings, cp, lastSeen, tcpConns, slots, cl>>
    BY Zenon, <1>3 DEF CreateEndpoint, Dial
  <2> QED
    BY Zenon, <2>1, <2>2, <2>3, <2>4 DEF ConnOK, TargetOK, slots, Pc
<1>4. CASE TrackTCP(c) \/ UntrackTCP(c)
  <2>1. pc' \in [Conn -> Pc]
    BY Zenon, <1>4, <1>l, GotoType DEF TrackTCP, UntrackTCP
  <2>2. cp' \in [Conn -> [Leg -> {"none", "read", "write", "done"}]]
    <3>1. [x \in Leg |-> "read"] \in [Leg -> {"none", "read", "write", "done"}]
      OBVIOUS
    <3>2. UNCHANGED cp \/ cp' = [cp EXCEPT ![c] = [x \in Leg |-> "read"]]
      BY Zenon, <1>4 DEF TrackTCP, UntrackTCP, ends
    <3> QED
      BY Zenon, <3>1, <3>2 DEF ConnOK
  <2>3. lastSeen' \in [Conn -> 0..MaxTime] /\ tcpConns' \subseteq Conn
    <3>1. UNCHANGED lastSeen \/ lastSeen' = [lastSeen EXCEPT ![c] = now]
      BY Zenon, <1>4 DEF TrackTCP, UntrackTCP
    <3>2. tcpConns' \subseteq tcpConns \cup {c}
      BY Zenon, <1>4 DEF TrackTCP, UntrackTCP
    <3>3. lastSeen' \in [Conn -> 0..MaxTime]
      BY Zenon, <3>1 DEF ConnOK
    <3> QED
      BY Zenon, <3>2, <3>3
  <2>4. UNCHANGED <<now, settings, leg, peer, slots, cl>>
    BY Zenon, <1>4 DEF TrackTCP, UntrackTCP, ends
  <2> QED
    BY Zenon, <2>1, <2>2, <2>3, <2>4 DEF ConnOK, TargetOK, slots, Pc
<1>5. CASE HandshakeFailed(c)
  BY Zenon, <1>5, <1>l, SlotType DEF HandshakeFailed
<1>6. CASE Deferred(c)
  <2>1. ASSUME NEW x \in Leg, NEW from, NEW to \in Pc, DeferredClose(c, x, from, to)
        PROVE  TypeInv'
    <3>1. pc' \in [Conn -> Pc]
      BY Zenon, <2>1, GotoType DEF DeferredClose
    <3>2. leg' \in [Conn -> [Leg -> {"none", "open", "fin", "closed"}]]
      BY Zenon, <2>1, LegType DEF DeferredClose, Close
    <3> QED
      BY Zenon, <2>1, <3>1, <3>2 DEF DeferredClose, ConnOK, TargetOK, slots, Pc
  <2> QED
    BY Zenon, <1>6, <1>l, <2>1, SlotType DEF Deferred, Leg
<1> QED
  BY Zenon, <1>1, <1>2, <1>3, <1>4, <1>5, <1>6 DEF Progress

\* The copying goroutines and the peers keep the types.
LEMMA CopyStepType ==
  ASSUME TypeInv, NEW c \in Conn, NEW x \in Leg,
         CopyRead(c, x) \/ CopyWrite(c, x) \/ CopyEnds(c, x) \/ PeerEnds(c, x)
  PROVE  TypeInv'
<1> USE DEF TypeInv, TypeOK
<1>1. CASE CopyRead(c, x) \/ CopyWrite(c, x)
  <2>1. cp' \in [Conn -> [Leg -> {"none", "read", "write", "done"}]]
    BY Zenon, <1>1, CopyType DEF CopyRead, CopyWrite
  <2>2. lastSeen' \in [Conn -> 0..MaxTime]
    BY Zenon, <1>1 DEF CopyRead, CopyWrite, ConnOK
  <2> QED
    BY Zenon, <1>1, <2>1, <2>2 DEF CopyRead, CopyWrite, ConnOK, TargetOK, slots
<1>2. CASE CopyEnds(c, x)
  <2>1. cp' \in [Conn -> [Leg -> {"none", "read", "write", "done"}]]
    BY Zenon, <1>2, CopyType DEF CopyEnds, CopyEOF, CopyFails
  <2>2. leg[c][x] \in {"none", "open", "fin", "closed"}
    BY DEF ConnOK
  <2>3. leg' \in [Conn -> [Leg -> {"none", "open", "fin", "closed"}]]
    BY <1>2, <2>2, LegType DEF CopyEnds, CopyEOF, CopyFails, Close, AfterEOF
  <2> QED
    BY Zenon, <1>2, <2>1, <2>3 DEF CopyEnds, CopyEOF, CopyFails, ConnOK, TargetOK, slots
<1>3. CASE PeerEnds(c, x)
  <2>1. PICK v \in {"eof", "dead"} : peer' = [peer EXCEPT ![c][x] = v]
    BY Zenon, <1>3 DEF PeerEnds
  <2>2. [peer[c] EXCEPT ![x] = v] \in [Leg -> {"live", "eof", "dead"}]
    BY Zenon DEF ConnOK
  <2>3. peer' = [peer EXCEPT ![c] = [peer[c] EXCEPT ![x] = v]]
    BY Zenon, <2>1
  <2>4. peer' \in [Conn -> [Leg -> {"live", "eof", "dead"}]]
    BY Zenon, <2>2, <2>3 DEF ConnOK
  <2> QED
    BY Zenon, <1>3, <2>4 DEF PeerEnds, ConnOK, TargetOK, slots
<1> QED
  BY Zenon, <1>1, <1>2, <1>3

\* The cleaner, reloads and the clock keep the types.
LEMMA CleanupType ==
  ASSUME TypeInv, CleanupTick \/ Shutdown \/ CleanupStep \/ Reload \/ Advance
  PROVE  TypeInv'
<1> USE DEF TypeInv, TypeOK
<1>c. cl = [pc |-> cl.pc, cutoff |-> cl.cutoff, todo |-> cl.todo,
            target |-> cl.target, final |-> cl.final]
  BY Zenon DEF ClState
<1>1. CASE CleanupTick
  <2>1. cl' = [pc |-> "range", cutoff |-> now - settings.timeout, todo |-> Conn,
               target |-> cl.target, final |-> cl.final]
    BY Zenon, <1>1 DEF CleanupTick, ClState
  <2>2. cl' \in ClState /\ TargetOK'
    BY <2>1 DEF ClState, TargetOK, Setting
  <2> QED
    BY Zenon, <1>1, <2>2 DEF CleanupTick, ConnOK, ends, slots
<1>2. CASE Shutdown
  <2>1. cl' = [pc |-> "range", cutoff |-> cl.cutoff, todo |-> Conn,
               target |-> cl.target, final |-> TRUE]
    BY ZenonT(60), <1>2 DEF Shutdown, ClState
  <2>2. cl' \in ClState /\ TargetOK'
    BY Zenon, <2>1 DEF ClState, TargetOK
  <2> QED
    BY Zenon, <1>2, <2>2 DEF Shutdown, ConnOK, ends, slots
<1>3. CASE RangePairs
  <2>1. ASSUME NEW c \in cl.todo,
               \/ cl' = [cl EXCEPT !.pc = "closeA", !.target = c, !.todo = @ \ {c}]
               \/ cl.pc = "range" /\ cl' = [cl EXCEPT !.todo = @ \ {c}]
        PROVE  cl' \in ClState /\ TargetOK'
    <3>1. \/ cl' = [pc |-> "closeA", cutoff |-> cl.cutoff, todo |-> cl.todo \ {c},
                    target |-> c, final |-> cl.final]
          \/ /\ cl.pc = "range"
             /\ cl' = [pc |-> cl.pc, cutoff |-> cl.cutoff, todo |-> cl.todo \ {c},
                       target |-> cl.target, final |-> cl.final]
      BY ZenonT(60), <2>1 DEF ClState
    <3> QED
      BY <3>1 DEF ClState, TargetOK
  <2>2. ASSUME cl' = [NoPass EXCEPT !.pc = IF cl.final THEN "stopped" ELSE "idle",
                                    !.final = cl.final]
        PROVE  cl' \in ClState /\ TargetOK'
    <3> DEFINE l == IF cl.final THEN "stopped" ELSE "idle"
    <3>1. cl' = [pc |-> l, cutoff |-> 0, todo |-> {}, target |-> None, final |-> cl.final]
      BY Zenon, <2>2 DEF NoPass
    <3>2. l \in {"stopped", "idle"} /\ cl.final \in BOOLEAN
      BY Zenon DEF ClState
    <3> HIDE DEF l
    <3> QED
      BY <3>1, <3>2 DEF ClState, TargetOK
  <2>3. cl' \in ClState /\ TargetOK'
    BY Zenon, <1>3, <2>1, <2>2 DEF RangePairs
  <2> QED
    BY Zenon, <1>3, <2>3 DEF RangePairs, ConnOK, ends, slots
<1>4. CASE ClosePair
  <2>1. cl.target \in Conn
    BY Zenon, <1>4 DEF ClosePair, TargetOK
  <2>2. leg' \in [Conn -> [Leg -> {"none", "open", "fin", "closed"}]]
    BY Zenon, <1>4, <2>1, LegType DEF ClosePair, Close, Leg
  <2>3. \/ cl' = [pc |-> "closeB", cutoff |-> cl.cutoff, todo |-> cl.todo,
                  target |-> cl.target, final |-> cl.final]
        \/ cl' = [pc |-> "range", cutoff |-> cl.cutoff, todo |-> cl.todo,
                  target |-> None, final |-> cl.final]
    BY ZenonT(60), <1>4 DEF ClosePair, ClState
  <2>4. cl' \in ClState /\ TargetOK'
    BY <2>1, <2>3 DEF ClState, TargetOK
  <2> QED
    BY Zenon, <1>4, <2>2, <2>4 DEF ClosePair, ConnOK, slots
<1>5. CASE Reload \/ Advance
  BY <1>5 DEF Reload, Advance, ConnOK, TargetOK, ends, slots
<1> QED
  BY Zenon, <1>1, <1>2, <1>3, <1>4, <1>5 DEF CleanupStep

\* Every step keeps the types.
LEMMA TypeStep == TypeInv /\ [Next]_vars => TypeInv'
<1> SUFFICES ASSUME TypeInv, [Next]_vars PROVE TypeInv'
  OBVIOUS
<1>1. CASE UNCHANGED vars
  BY Zenon, <1>1 DEF vars, ends, slots, TypeInv, TypeOK, ConnOK, TargetOK
<1> QED
  BY Zenon, <1>1, ConnType, CopyStepType, CleanupType DEF Next

\* Type correctness: in particular tcpSem and the per-source counts are never
\* negative.
THEOREM TypeCorrect == Spec => []TypeOK
<1>1. TypeInv => TypeOK
  BY Zenon DEF TypeInv
<1> QED
  BY <1>1, TypeInit, TypeStep, PTL DEF Spec

-----------------------------------------------------------------------------
(***************************************************************************)
(* The semaphore and the per-source counts.  Both are exact by themselves: *)
(* every path from tryAcquireTCP and srcCounts.add leads through           *)
(* releaseTCP and srcCounts.remove once.                                   *)
(***************************************************************************)

\* How a step of one connection changes the set of slot holders.
LEMMA HoldersMove ==
  ASSUME TypeInv, NEW c \in Conn, NEW l \in Pc, Goto(c, l)
  PROVE  /\ Cardinality(Holders) \in Nat
         /\ (pc[c] \in Holding <=> l \in Holding) => Holders' = Holders
         /\ pc[c] \notin Holding /\ l \in Holding =>
              Cardinality(Holders') = Cardinality(Holders) + 1
         /\ pc[c] \in Holding /\ l \notin Holding =>
              Cardinality(Holders') = Cardinality(Holders) - 1
<1>1. pc'[c] = l /\ \A d \in Conn : d # c => pc'[d] = pc[d]
  BY Zenon, GotoType DEF TypeInv, TypeOK
<1>2. IsFiniteSet(Holders) /\ Cardinality(Holders) \in Nat
  BY Zenon, FS_Subset, FS_CardinalityType DEF Holders
<1>3. (pc[c] \in Holding <=> l \in Holding) => Holders' = Holders
  BY Zenon, <1>1 DEF Holders
<1>4. ASSUME pc[c] \notin Holding, l \in Holding
      PROVE  Cardinality(Holders') = Cardinality(Holders) + 1
  <2>1. Holders' = Holders \cup {c} /\ c \notin Holders
    BY Zenon, <1>1, <1>4 DEF Holders
  <2> QED BY Zenon, <1>2, <2>1, FS_AddElement
<1>5. ASSUME pc[c] \in Holding, l \notin Holding
      PROVE  Cardinality(Holders') = Cardinality(Holders) - 1
  <2>1. Holders' = Holders \ {c} /\ c \in Holders
    BY Zenon, <1>1, <1>5 DEF Holders
  <2> QED BY Zenon, <1>2, <2>1, FS_RemoveElement
<1> QED
  BY Zenon, <1>2, <1>3, <1>4, <1>5

\* How a step of one connection changes the counted ones of a source.
LEMMA CountedMove ==
  ASSUME TypeInv, NEW c \in Conn, NEW l \in Pc, Goto(c, l), NEW s \in Src
  PROVE  /\ Cardinality(CountedOf(s)) \in Nat
         /\ s # SrcOf[c] \/ (pc[c] \in Counted <=> l \in Counted) =>
              CountedOf(s)' = CountedOf(s)
         /\ s = SrcOf[c] /\ pc[c] \notin Counted /\ l \in Counted =>
              Cardinality(CountedOf(s)') = Cardinality(CountedOf(s)) + 1
         /\ s = SrcOf[c] /\ pc[c] \in Counted /\ l \notin Counted =>
              Cardinality(CountedOf(s)') = Cardinality(CountedOf(s)) - 1
<1>1. pc'[c] = l /\ \A d \in Conn : d # c => pc'[d] = pc[d]
  BY Zenon, GotoType DEF TypeInv, TypeOK
<1>2. IsFiniteSet(CountedOf(s)) /\ Cardinality(CountedOf(s)) \in Nat
  BY Zenon, FS_Subset, FS_CardinalityType DEF CountedOf
<1>3. s # SrcOf[c] \/ (pc[c] \in Counted <=> l \in Counted) => CountedOf(s)' = CountedOf(s)
  BY Zenon, <1>1 DEF CountedOf
<1>4. ASSUME s = SrcOf[c], pc[c] \notin Counted, l \in Counted
      PROVE  Cardinality(CountedOf(s)') = Cardinality(CountedOf(s)) + 1
  <2>1. CountedOf(s)' = CountedOf(s) \cup {c} /\ c \notin CountedOf(s)
    BY Zenon, <1>1, <1>4 DEF CountedOf
  <2> QED BY Zenon, <1>2, <2>1, FS_AddElement
<1>5. ASSUME s = SrcOf[c], pc[c] \in Counted, l \notin Counted
      PROVE  Cardinality(CountedOf(s)') = Cardinality(CountedOf(s)) - 1
  <2>1. CountedOf(s)' = CountedOf(s) \ {c} /\ c \in CountedOf(s)
    BY Zenon, <1>1, <1>5 DEF CountedOf
  <2> QED BY ZenonT(60), <1>2, <2>1, FS_RemoveElement
<1> QED
  BY Zenon, <1>2, <1>3, <1>4, <1>5

Exact == SlotsExact /\ SourcesExact

\* A step that leaves a connection where it is, as far as the slots go, keeps
\* the counters exact.
LEMMA ExactKept ==
  ASSUME TypeInv, Exact, NEW c \in Conn, NEW l \in Pc, Goto(c, l), UNCHANGED slots,
         pc[c] \in Holding <=> l \in Holding, pc[c] \in Counted <=> l \in Counted
  PROVE  Exact'
<1>1. Holders' = Holders
  BY Zenon, HoldersMove
<1>2. \A s \in Src : CountedOf(s)' = CountedOf(s)
  BY Zenon, CountedMove
<1> QED
  BY Zenon, <1>1, <1>2 DEF Exact, SlotsExact, SourcesExact, slots

\* releaseTCP gives back the slot of a holder, srcCounts.remove the count of a
\* counted connection.
LEMMA ExactRelease ==
  ASSUME TypeInv, Exact, NEW c \in Conn, NEW from, NEW to \in Pc,
         \/ /\ ReleaseTCP(c, from, to) /\ from \in Holding /\ to \notin Holding
            /\ from \in Counted /\ to \in Counted
         \/ /\ RemoveSource(c, from, to) /\ from \in Counted /\ to \notin Counted
            /\ from \notin Holding /\ to \notin Holding
  PROVE  Exact'
<1>1. CASE ReleaseTCP(c, from, to) /\ from \in Holding /\ to \notin Holding
           /\ from \in Counted /\ to \in Counted
  <2>1. Cardinality(Holders') = Cardinality(Holders) - 1 /\ Cardinality(Holders) \in Nat
    BY Zenon, <1>1, HoldersMove DEF ReleaseTCP
  <2>2. \A s \in Src : CountedOf(s)' = CountedOf(s)
    BY Zenon, <1>1, CountedMove DEF ReleaseTCP
  <2> QED
    BY Zenon, <1>1, <2>1, <2>2 DEF ReleaseTCP, Exact, SlotsExact, SourcesExact, TypeInv, TypeOK
<1>2. CASE RemoveSource(c, from, to) /\ from \in Counted /\ to \notin Counted
           /\ from \notin Holding /\ to \notin Holding
  <2>1. Holders' = Holders
    BY Zenon, <1>2, HoldersMove DEF RemoveSource
  <2>2. ASSUME NEW s \in Src PROVE srcCounts'[s] = Cardinality(CountedOf(s)')
    <3>1. CASE s = SrcOf[c]
      <4>1. /\ Cardinality(CountedOf(s)') = Cardinality(CountedOf(s)) - 1
            /\ Cardinality(CountedOf(s)) \in Nat
        BY Zenon, <1>2, <3>1, CountedMove DEF RemoveSource
      <4>2. IsFiniteSet(CountedOf(s)') /\ Cardinality(CountedOf(s)') \in Nat
        BY Zenon, FS_Subset, FS_CardinalityType DEF CountedOf
      <4> QED
        BY <1>2, <3>1, <4>1, <4>2 DEF RemoveSource, Exact, SourcesExact, TypeInv, TypeOK
    <3>2. CASE s # SrcOf[c]
      <4>1. CountedOf(s)' = CountedOf(s)
        BY Zenon, <1>2, <3>2, CountedMove DEF RemoveSource
      <4> QED
        BY Zenon, <1>2, <3>2, <4>1 DEF RemoveSource, Exact, SourcesExact, TypeInv, TypeOK
    <3> QED BY Zenon, <3>1, <3>2
  <2> QED
    BY Zenon, <1>2, <2>1, <2>2 DEF RemoveSource, Exact, SlotsExact, SourcesExact
<1> QED
  BY Zenon, <1>1, <1>2

\* The semaphore never holds more tokens than its capacity.
Within == Capacity > 0 => tcpSem <= Capacity

\* Every step of a connection keeps the counters exact, and the semaphore
\* within its capacity.
LEMMA ExactConn ==
  ASSUME TypeInv, Exact, Within, NEW c \in Conn, HandleTCP(c) \/ Progress(c)
  PROVE  Exact' /\ Within'
<1>l. {"none", "check", "acquire", "add", "endpoint", "unacquire", "unadd", "dial",
       "track", "proxy", "untrack", "closeB", "closeA", "release", "remove"} \subseteq Pc
  BY Zenon DEF Pc, HandlerPc, ProxyPc
<1> USE DEF Holding, Counted, ProxyPc
<1>1. CASE HandleTCP(c) \/ CheckSource(c) \/ CopiesDone(c)
  <2>1. PICK l \in {"none", "check", "acquire", "untrack"} :
          Goto(c, l) /\ (l = "untrack" <=> pc[c] = "proxy")
    BY Zenon, <1>1 DEF HandleTCP, CheckSource, CopiesDone
  <2>2. pc[c] \in {"none", "check", "proxy"} /\ UNCHANGED slots
    BY Zenon, <1>1 DEF HandleTCP, CheckSource, CopiesDone
  <2> QED
    BY Zenon, <1>l, <2>1, <2>2, ExactKept DEF Within, slots
<1>2. CASE TryAcquireTCP(c)
  <2>1. CASE Goto(c, "none") /\ UNCHANGED tcpSem
    BY Zenon, <1>2, <1>l, <2>1, ExactKept DEF TryAcquireTCP, Within, slots
  <2>2. CASE /\ ~Full /\ Goto(c, "add")
             /\ tcpSem' = IF Capacity > 0 THEN tcpSem + 1 ELSE tcpSem
    <3>1. Cardinality(Holders') = Cardinality(Holders) + 1 /\ Cardinality(Holders) \in Nat
      BY Zenon, <1>2, <1>l, <2>2, HoldersMove DEF TryAcquireTCP
    <3>2. \A s \in Src : CountedOf(s)' = CountedOf(s)
      BY <1>2, <1>l, <2>2, CountedMove DEF TryAcquireTCP
    <3>3. UNCHANGED srcCounts
      BY Zenon, <1>2 DEF TryAcquireTCP
    <3> QED
      BY <2>2, <3>1, <3>2, <3>3 DEF Exact, SlotsExact, SourcesExact, Within, TypeInv, TypeOK,
                                    Full
  <2> QED
    BY Zenon, <1>2, <2>1, <2>2 DEF TryAcquireTCP
<1>3. CASE AddSource(c)
  <2>1. Goto(c, "endpoint") /\ pc[c] = "add"
    BY Zenon, <1>3 DEF AddSource
  <2>2. Holders' = Holders
    BY Zenon, <1>l, <2>1, HoldersMove
  <2>3. ASSUME NEW s \in Src PROVE srcCounts'[s] = Cardinality(CountedOf(s)')
    <3>1. CASE s = SrcOf[c]
      <4>1. /\ Cardinality(CountedOf(s)') = Cardinality(CountedOf(s)) + 1
            /\ Cardinality(CountedOf(s)) \in Nat
        BY Zenon, <1>l, <2>1, <3>1, CountedMove
      <4> QED
        BY Zenon, <1>3, <3>1, <4>1 DEF AddSource, Exact, SourcesExact, TypeInv, TypeOK
    <3>2. CASE s # SrcOf[c]
      <4>1. CountedOf(s)' = CountedOf(s)
        BY Zenon, <1>l, <2>1, <3>2, CountedMove
      <4> QED
        BY Zenon, <1>3, <3>2, <4>1 DEF AddSource, Exact, SourcesExact, TypeInv, TypeOK
    <3> QED BY Zenon, <3>1, <3>2
  <2> QED
    BY Zenon, <1>3, <2>2, <2>3 DEF AddSource, Exact, SlotsExact, SourcesExact, Within
<1>4. CASE CreateEndpoint(c) \/ Dial(c) \/ TrackTCP(c) \/ UntrackTCP(c)
  <2>1. PICK l \in {"unacquire", "dial", "closeA", "track", "proxy", "closeB"} : Goto(c, l)
    BY Zenon, <1>4 DEF CreateEndpoint, Dial, TrackTCP, UntrackTCP
  <2>2. pc[c] \in {"endpoint", "dial", "track", "untrack"} /\ UNCHANGED slots
    BY Zenon, <1>4 DEF CreateEndpoint, Dial, TrackTCP, UntrackTCP
  <2> QED
    BY Zenon, <1>l, <2>1, <2>2, ExactKept DEF Within, slots
<1>5. CASE HandshakeFailed(c)
  <2>1. Exact'
    BY <1>5, <1>l, ExactRelease DEF HandshakeFailed
  <2>2. Within'
    BY <1>5 DEF HandshakeFailed, ReleaseTCP, RemoveSource, Within, TypeInv, TypeOK
  <2> QED BY Zenon, <2>1, <2>2
<1>6. CASE Deferred(c)
  <2>1. CASE \E x \in Leg : \/ DeferredClose(c, x, "closeB", "closeA")
                            \/ DeferredClose(c, x, "closeA", "release")
    <3>1. PICK l \in {"closeA", "release"} : Goto(c, l)
      BY Zenon, <2>1 DEF DeferredClose
    <3>2. pc[c] \in {"closeB", "closeA"} /\ UNCHANGED slots
      BY Zenon, <2>1 DEF DeferredClose
    <3> QED
      BY Zenon, <1>l, <3>1, <3>2, ExactKept DEF Within, slots
  <2>2. CASE ReleaseTCP(c, "release", "remove") \/ RemoveSource(c, "remove", "none")
    <3>1. Exact'
      BY <1>l, <2>2, ExactRelease
    <3>2. Within'
      BY <2>2 DEF ReleaseTCP, RemoveSource, Within, TypeInv, TypeOK
    <3> QED BY Zenon, <3>1, <3>2
  <2> QED
    BY Zenon, <1>6, <2>1, <2>2 DEF Deferred, Leg
<1> QED
  BY Zenon, <1>1, <1>2, <1>3, <1>4, <1>5, <1>6 DEF Progress

\* Initially no slot is held, and no other step touches one.
LEMMA ExactStep ==
  /\ Init => Exact /\ Within
  /\ TypeInv /\ Exact /\ Within /\ [Next]_vars => Exact' /\ Within'
<1>1. ASSUME Init PROVE Exact /\ Within
  <2>1. Holders = {} /\ \A s \in Src : CountedOf(s) = {}
    BY Zenon, <1>1 DEF Init, Holders, CountedOf, Holding, Counted, ProxyPc
  <2> QED
    BY <1>1, <2>1, FS_EmptySet DEF Init, Exact, SlotsExact, SourcesExact, Within
<1>2. ASSUME TypeInv, Exact, Within, [Next]_vars PROVE Exact' /\ Within'
  <2>1. CASE UNCHANGED <<pc, slots>>
    <3>1. Holders' = Holders /\ \A s \in Src : CountedOf(s)' = CountedOf(s)
      BY Zenon, <2>1 DEF Holders, CountedOf
    <3> QED
      BY Zenon, <1>2, <2>1, <3>1 DEF Exact, SlotsExact, SourcesExact, Within, slots
  <2>2. ASSUME NEW c \in Conn, NEW x \in Leg,
               CopyRead(c, x) \/ CopyWrite(c, x) \/ CopyEnds(c, x) \/ PeerEnds(c, x)
        PROVE  UNCHANGED <<pc, slots>>
    BY Zenon, <2>2 DEF CopyRead, CopyWrite, CopyEnds, CopyEOF, CopyFails, PeerEnds
  <2>3. CASE CleanupTick \/ Shutdown \/ CleanupStep \/ Reload \/ Advance
    BY Zenon, <2>1, <2>3 DEF CleanupTick, Shutdown, CleanupStep, RangePairs, ClosePair, Reload,
        Advance
  <2>4. CASE UNCHANGED vars
    BY Zenon, <2>1, <2>4 DEF vars
  <2> QED
    BY Zenon, <1>2, <2>1, <2>2, <2>3, <2>4, ExactConn DEF Next
<1> QED
  BY Zenon, <1>1, <1>2

\* The exact counters hold of every behaviour.
LEMMA ExactCorrect == Spec => [](TypeInv /\ Exact /\ Within)
<1>1. Init => TypeInv /\ Exact /\ Within
  BY Zenon, TypeInit, ExactStep
<1>2. TypeInv /\ Exact /\ Within /\ [Next]_vars => (TypeInv /\ Exact /\ Within)'
  BY Zenon, TypeStep, ExactStep
<1> QED
  BY <1>1, <1>2, PTL DEF Spec

\* tcpSem holds one token per connection between tryAcquireTCP and
\* releaseTCP, so slots are neither leaked nor released twice.
THEOREM SlotsAreExact == Spec => []SlotsExact
<1>1. Exact => SlotsExact
  BY Zenon DEF Exact
<1> QED
  BY <1>1, ExactCorrect, PTL

\* srcCounts of a source is the number of its connections between add and
\* remove.
THEOREM SourcesAreExact == Spec => []SourcesExact
<1>1. Exact => SourcesExact
  BY Zenon DEF Exact
<1> QED
  BY <1>1, ExactCorrect, PTL

\* Nat64MaxTCPConnections bounds the connections dialled or proxied at once.
THEOREM CapacityRespected == Spec => []ProxiedBounded
<1>1. ASSUME TypeInv, Exact, Within PROVE ProxiedBounded
  <2> DEFINE P == {c \in Conn : pc[c] \in ProxyPc \ {"remove"}}
  <2>1. IsFiniteSet(Holders) /\ P \subseteq Holders
    BY Zenon, FS_Subset DEF Holders, Holding
  <2>2. /\ Cardinality(P) <= Cardinality(Holders)
        /\ Cardinality(P) \in Nat /\ Cardinality(Holders) \in Nat
    BY Zenon, <2>1, FS_Subset, FS_CardinalityType
  <2> QED
    BY <1>1, <2>2 DEF Exact, Within, SlotsExact, ProxiedBounded, TypeInv, TypeOK
<1> QED
  BY <1>1, ExactCorrect, PTL

-----------------------------------------------------------------------------
(***************************************************************************)
(* The per-source ceiling.  What a source can be charged is what it is     *)
(* charged now and what its handlers are about to charge: those past the   *)
(* test and short of srcCounts.add.  A handler that passes the test finds  *)
(* the count below the ceiling and at most Handlers - 1 others past it;    *)
(* every later step only moves a connection from the second kind to the    *)
(* first or takes it away.                                                 *)
(***************************************************************************)
Running == {c \in Conn : pc[c] \in HandlerPc}

Passed == {"acquire", "add"}
PassedOf(s) == {c \in Conn : SrcOf[c] = s /\ pc[c] \in Passed}

Bounded(s) ==
  \E v \in Settings : srcCounts[s] + Cardinality(PassedOf(s)) <= v.perSrc + Handlers - 1

Ceiling ==
  /\ settings \in Settings
  /\ Cardinality(Running) <= Handlers
  /\ (\A v \in Settings : v.perSrc > 0) => \A s \in Src : Bounded(s)

\* A finite set that gains at most one element grows by at most one.
LEMMA OneMore ==
  ASSUME NEW S, NEW T, NEW x, IsFiniteSet(S), T \subseteq S \cup {x}
  PROVE  Cardinality(T) <= Cardinality(S) + 1
<1>1. /\ IsFiniteSet(S \cup {x})
      /\ \/ Cardinality(S \cup {x}) = Cardinality(S)
         \/ Cardinality(S \cup {x}) = Cardinality(S) + 1
  BY Zenon, FS_AddElement
<1>2. IsFiniteSet(T) /\ Cardinality(T) <= Cardinality(S \cup {x})
  BY Zenon, <1>1, FS_Subset
<1>3. Cardinality(S) \in Nat /\ Cardinality(T) \in Nat
  BY Zenon, <1>2, FS_CardinalityType
<1> QED
  BY <1>1, <1>2, <1>3

\* How a step of one connection changes the set of running handlers.
LEMMA RunningMove ==
  ASSUME TypeInv, NEW c \in Conn, NEW l \in Pc, Goto(c, l)
  PROVE  /\ Cardinality(Running) \in Nat /\ Cardinality(Running') \in Nat
         /\ pc[c] \in HandlerPc \/ l \notin HandlerPc =>
              Cardinality(Running') <= Cardinality(Running)
         /\ Cardinality(Running') <= Cardinality(Running) + 1
<1>1. pc'[c] = l /\ \A d \in Conn : d # c => pc'[d] = pc[d]
  BY Zenon, GotoType DEF TypeInv, TypeOK
<1>2. IsFiniteSet(Running) /\ Cardinality(Running) \in Nat
  BY Zenon, FS_Subset, FS_CardinalityType DEF Running
<1>3. IsFiniteSet(Running') /\ Cardinality(Running') \in Nat
  BY Zenon, FS_Subset, FS_CardinalityType DEF Running
<1>4. ASSUME pc[c] \in HandlerPc \/ l \notin HandlerPc
      PROVE  Cardinality(Running') <= Cardinality(Running)
  <2>1. Running' \subseteq Running
    BY Zenon, <1>1, <1>4 DEF Running
  <2> QED BY Zenon, <1>2, <2>1, FS_Subset
<1>5. Cardinality(Running') <= Cardinality(Running) + 1
  <2>1. Running' \subseteq Running \cup {c}
    BY Zenon, <1>1 DEF Running
  <2> QED BY Zenon, <1>2, <2>1, OneMore
<1> QED
  BY Zenon, <1>2, <1>3, <1>4, <1>5

\* How a step of one connection changes the handlers of a source that are past
\* the test.
LEMMA PassedMove ==
  ASSUME TypeInv, NEW c \in Conn, NEW l \in Pc, Goto(c, l), NEW s \in Src
  PROVE  /\ Cardinality(PassedOf(s)) \in Nat /\ Cardinality(PassedOf(s)') \in Nat
         /\ s # SrcOf[c] \/ pc[c] \in Passed \/ l \notin Passed =>
              Cardinality(PassedOf(s)') <= Cardinality(PassedOf(s))
         /\ s = SrcOf[c] /\ pc[c] \in Passed /\ l \notin Passed =>
              Cardinality(PassedOf(s)') = Cardinality(PassedOf(s)) - 1
         /\ Cardinality(PassedOf(s)') <= Cardinality(PassedOf(s)) + 1
<1>1. pc'[c] = l /\ \A d \in Conn : d # c => pc'[d] = pc[d]
  BY Zenon, GotoType DEF TypeInv, TypeOK
<1>2. IsFiniteSet(PassedOf(s)) /\ Cardinality(PassedOf(s)) \in Nat
  BY Zenon, FS_Subset, FS_CardinalityType DEF PassedOf
<1>3. IsFiniteSet(PassedOf(s)') /\ Cardinality(PassedOf(s)') \in Nat
  BY Zenon, FS_Subset, FS_CardinalityType DEF PassedOf
<1>4. ASSUME s # SrcOf[c] \/ pc[c] \in Passed \/ l \notin Passed
      PROVE  Cardinality(PassedOf(s)') <= Cardinality(PassedOf(s))
  <2>1. PassedOf(s)' \subseteq PassedOf(s)
    BY Zenon, <1>1, <1>4 DEF PassedOf
  <2> QED BY Zenon, <1>2, <2>1, FS_Subset
<1>5. ASSUME s = SrcOf[c], pc[c] \in Passed, l \notin Passed
      PROVE  Cardinality(PassedOf(s)') = Cardinality(PassedOf(s)) - 1
  <2>1. PassedOf(s)' = PassedOf(s) \ {c} /\ c \in PassedOf(s)
    BY Zenon, <1>1, <1>5 DEF PassedOf
  <2> QED BY ZenonT(60), <1>2, <2>1, FS_RemoveElement
<1>6. Cardinality(PassedOf(s)') <= Cardinality(PassedOf(s)) + 1
  <2>1. PassedOf(s)' \subseteq PassedOf(s) \cup {c}
    BY Zenon, <1>1 DEF PassedOf
  <2> QED BY Zenon, <1>2, <2>1, OneMore
<1> QED
  BY Zenon, <1>2, <1>3, <1>4, <1>5, <1>6

\* A handler at the test leaves room for Handlers - 1 others past it.
LEMMA OthersPassed ==
  ASSUME TypeInv, Ceiling, NEW c \in Conn, pc[c] = "check", NEW s \in Src
  PROVE  Cardinality(PassedOf(s)) <= Handlers - 1
<1>1. IsFiniteSet(Running) /\ Cardinality(Running) \in Nat
  BY Zenon, FS_Subset, FS_CardinalityType DEF Running
<1>2. c \in Running /\ PassedOf(s) \subseteq Running \ {c}
  BY Zenon DEF Running, PassedOf, Passed, HandlerPc
<1>3. IsFiniteSet(Running \ {c}) /\ Cardinality(Running \ {c}) = Cardinality(Running) - 1
  BY Zenon, <1>1, <1>2, FS_RemoveElement
<1>4. Cardinality(PassedOf(s)) <= Cardinality(Running \ {c})
  BY Zenon, <1>2, <1>3, FS_Subset
<1>5. Cardinality(PassedOf(s)) \in Nat
  BY Zenon, FS_Subset, FS_CardinalityType DEF PassedOf
<1> QED
  BY <1>1, <1>3, <1>4, <1>5 DEF Ceiling

\* A step that does not pass a handler through the test keeps the bound: what a
\* source is charged and about to be charged does not grow.
LEMMA CeilingKept ==
  ASSUME TypeInv, TypeInv', Ceiling, NEW c \in Conn, NEW l \in Pc, Goto(c, l),
         UNCHANGED settings, pc[c] \in HandlerPc \/ l \notin HandlerPc,
         pc[c] \in Passed \/ l \notin Passed,
         \A s \in Src : \/ srcCounts'[s] <= srcCounts[s]
                        \/ /\ s = SrcOf[c] /\ pc[c] \in Passed /\ l \notin Passed
                           /\ srcCounts'[s] = srcCounts[s] + 1
  PROVE  Ceiling'
<1>1. Cardinality(Running') <= Handlers
  BY RunningMove DEF Ceiling
<1>2. ASSUME NEW s \in Src, Bounded(s) PROVE Bounded(s)'
  <2>1. /\ Cardinality(PassedOf(s)) \in Nat /\ Cardinality(PassedOf(s)') \in Nat
        /\ Cardinality(PassedOf(s)') <= Cardinality(PassedOf(s))
        /\ s = SrcOf[c] /\ pc[c] \in Passed /\ l \notin Passed =>
             Cardinality(PassedOf(s)') = Cardinality(PassedOf(s)) - 1
    BY Zenon, PassedMove
  <2>2. srcCounts[s] \in Nat /\ srcCounts'[s] \in Nat
    BY Zenon DEF TypeInv, TypeOK
  <2>3. srcCounts'[s] + Cardinality(PassedOf(s)') <= srcCounts[s] + Cardinality(PassedOf(s))
    BY <2>1, <2>2
  <2>4. PICK v \in Settings :
          srcCounts[s] + Cardinality(PassedOf(s)) <= v.perSrc + Handlers - 1
    BY Zenon, <1>2 DEF Bounded
  <2>5. v.perSrc \in Int
    BY Zenon DEF Setting
  <2>6. srcCounts'[s] + Cardinality(PassedOf(s)') <= v.perSrc + Handlers - 1
    BY <2>1, <2>2, <2>3, <2>4, <2>5
  <2> QED BY Zenon, <2>6 DEF Bounded
<1> QED
  BY Zenon, <1>1, <1>2 DEF Ceiling

\* Every step of a connection's goroutine keeps the bound.
LEMMA CeilingConn ==
  ASSUME TypeInv, TypeInv', Ceiling, NEW c \in Conn, HandleTCP(c) \/ Progress(c)
  PROVE  Ceiling'
<1>l. {"none", "check", "acquire", "add", "endpoint", "unacquire", "unadd", "dial",
       "track", "proxy", "untrack", "closeB", "closeA", "release", "remove"} \subseteq Pc
  BY Zenon DEF Pc, HandlerPc, ProxyPc
<1>n. \A s \in Src : srcCounts[s] \in Nat
  BY Zenon DEF TypeInv, TypeOK
<1>k. ASSUME NEW l \in Pc, Goto(c, l), UNCHANGED <<settings, srcCounts>>,
             pc[c] \in HandlerPc \/ l \notin HandlerPc, pc[c] \in Passed \/ l \notin Passed
      PROVE  Ceiling'
  <2>1. \A s \in Src : srcCounts'[s] <= srcCounts[s]
    BY <1>k, <1>n
  <2> QED BY Zenon, <1>k, <2>1, CeilingKept
<1>1. CASE HandleTCP(c)
  <2>1. Goto(c, "check") /\ UNCHANGED <<settings, srcCounts>> /\ pc[c] = "none"
        /\ Cardinality(Running) < Handlers
    BY Zenon, <1>1 DEF HandleTCP, slots, Running
  <2>2. Cardinality(Running') <= Handlers
    BY <1>l, <2>1, RunningMove
  <2>3. ASSUME NEW s \in Src PROVE PassedOf(s)' = PassedOf(s)
    <3>1. pc'[c] = "check" /\ \A d \in Conn : d # c => pc'[d] = pc[d]
      BY Zenon, <1>l, <2>1, GotoType DEF TypeInv, TypeOK
    <3> QED BY Zenon, <2>1, <3>1 DEF PassedOf, Passed
  <2> QED
    BY Zenon, <2>1, <2>2, <2>3 DEF Ceiling, Bounded
<1>2. CASE CheckSource(c)
  <2>1. pc[c] = "check" /\ UNCHANGED <<settings, srcCounts>>
    BY Zenon, <1>2 DEF CheckSource, slots
  <2>2. CASE OverSource(c)
    BY Zenon, <1>2, <1>k, <1>l, <2>1, <2>2 DEF CheckSource, HandlerPc, Passed
  <2>3. CASE ~OverSource(c)
    <3>1. Goto(c, "acquire")
      BY Zenon, <1>2, <2>3 DEF CheckSource
    <3>2. Cardinality(Running') <= Handlers
      BY <1>l, <2>1, <3>1, RunningMove DEF Ceiling, HandlerPc
    <3>3. ASSUME \A v \in Settings : v.perSrc > 0, NEW s \in Src PROVE Bounded(s)'
      <4>1. CASE s = SrcOf[c]
        <5>1. settings \in Settings /\ settings.perSrc \in Int
          BY Zenon DEF Ceiling, TypeInv, TypeOK, Setting
        <5>2. srcCounts[s] < settings.perSrc
          BY <1>n, <2>3, <3>3, <4>1, <5>1 DEF OverSource
        <5>3. /\ Cardinality(PassedOf(s)) \in Nat /\ Cardinality(PassedOf(s)') \in Nat
              /\ Cardinality(PassedOf(s)') <= Cardinality(PassedOf(s)) + 1
          BY Zenon, <1>l, <3>1, PassedMove
        <5>4. Cardinality(PassedOf(s)) <= Handlers - 1
          BY Zenon, <2>1, OthersPassed
        <5>5. srcCounts[s] + Cardinality(PassedOf(s)') <= settings.perSrc + Handlers - 1
          BY <1>n, <5>1, <5>2, <5>3, <5>4
        <5> QED BY Zenon, <2>1, <5>1, <5>5 DEF Bounded
      <4>2. CASE s # SrcOf[c]
        <5>1. /\ Cardinality(PassedOf(s)) \in Nat /\ Cardinality(PassedOf(s)') \in Nat
              /\ Cardinality(PassedOf(s)') <= Cardinality(PassedOf(s))
          BY Zenon, <1>l, <3>1, <4>2, PassedMove
        <5>2. PICK v \in Settings :
                srcCounts[s] + Cardinality(PassedOf(s)) <= v.perSrc + Handlers - 1
          BY Zenon, <3>3 DEF Ceiling, Bounded
        <5>3. v.perSrc \in Int
          BY Zenon DEF Setting
        <5>4. srcCounts[s] + Cardinality(PassedOf(s)') <= v.perSrc + Handlers - 1
          BY <1>n, <5>1, <5>2, <5>3
        <5> QED BY Zenon, <2>1, <5>4 DEF Bounded
      <4> QED BY Zenon, <4>1, <4>2
    <3> QED
      BY Zenon, <2>1, <3>2, <3>3 DEF Ceiling
  <2> QED BY Zenon, <2>2, <2>3
<1>3. CASE TryAcquireTCP(c)
  <2>1. PICK l \in {"none", "add"} : Goto(c, l)
    BY Zenon, <1>3 DEF TryAcquireTCP
  <2>2. pc[c] = "acquire" /\ UNCHANGED <<settings, srcCounts>>
    BY Zenon, <1>3 DEF TryAcquireTCP
  <2> QED BY Zenon, <1>k, <1>l, <2>1, <2>2 DEF HandlerPc, Passed
<1>4. CASE AddSource(c)
  <2>1. pc[c] = "add" /\ Goto(c, "endpoint") /\ UNCHANGED settings
    BY Zenon, <1>4 DEF AddSource
  <2>2. \A s \in Src : \/ srcCounts'[s] <= srcCounts[s]
                       \/ s = SrcOf[c] /\ srcCounts'[s] = srcCounts[s] + 1
    BY <1>4, <1>n DEF AddSource, TypeInv, TypeOK
  <2> QED BY <1>l, <2>1, <2>2, CeilingKept DEF HandlerPc, Passed
<1>5. CASE CreateEndpoint(c) \/ Dial(c) \/ TrackTCP(c) \/ CopiesDone(c) \/ UntrackTCP(c)
  <2>1. PICK l \in {"unacquire", "dial", "closeA", "track", "proxy", "untrack", "closeB"} :
          Goto(c, l) /\ (l = "unacquire" => pc[c] = "endpoint")
    BY Zenon, <1>5 DEF CreateEndpoint, Dial, TrackTCP, CopiesDone, UntrackTCP
  <2>2. UNCHANGED <<settings, srcCounts>>
    BY Zenon, <1>5 DEF CreateEndpoint, Dial, TrackTCP, CopiesDone, UntrackTCP, slots
  <2> QED BY Zenon, <1>k, <1>l, <2>1, <2>2 DEF HandlerPc, Passed
<1>6. ASSUME NEW from, NEW to \in {"unadd", "remove", "none"},
             to = "unadd" => from = "unacquire",
             ReleaseTCP(c, from, to) \/ RemoveSource(c, from, to)
      PROVE  Ceiling'
  <2>1. pc[c] = from /\ Goto(c, to) /\ UNCHANGED settings
    BY Zenon, <1>6 DEF ReleaseTCP, RemoveSource
  <2>2. \A s \in Src : srcCounts'[s] <= srcCounts[s]
    BY <1>6, <1>n DEF ReleaseTCP, RemoveSource, TypeInv, TypeOK
  <2> QED BY Zenon, <1>6, <1>l, <2>1, <2>2, CeilingKept DEF HandlerPc, Passed
<1>7. CASE HandshakeFailed(c)
  BY Zenon, <1>6, <1>7 DEF HandshakeFailed
<1>8. CASE Deferred(c)
  <2>1. CASE \E x \in Leg : \/ DeferredClose(c, x, "closeB", "closeA")
                            \/ DeferredClose(c, x, "closeA", "release")
    <3>1. PICK l \in {"closeA", "release"} : Goto(c, l)
      BY Zenon, <2>1 DEF DeferredClose
    <3>2. UNCHANGED <<settings, srcCounts>>
      BY Zenon, <2>1 DEF DeferredClose, slots
    <3> QED BY Zenon, <1>k, <1>l, <3>1, <3>2 DEF HandlerPc, Passed
  <2>2. CASE ReleaseTCP(c, "release", "remove") \/ RemoveSource(c, "remove", "none")
    BY Zenon, <1>6, <2>2
  <2> QED
    BY Zenon, <1>8, <2>1, <2>2 DEF Deferred, Leg
<1> QED
  BY Zenon, <1>1, <1>2, <1>3, <1>4, <1>5, <1>7, <1>8 DEF Progress

\* Initially no source is charged, and no step outside the connections' own
\* charges one.
LEMMA CeilingStep ==
  /\ Init => Ceiling
  /\ TypeInv /\ TypeInv' /\ Ceiling /\ [Next]_vars => Ceiling'
<1>1. ASSUME Init PROVE Ceiling
  <2>1. Running = {} /\ \A s \in Src : PassedOf(s) = {}
    BY Zenon, <1>1 DEF Init, Running, PassedOf, Passed, HandlerPc
  <2>2. Cardinality({}) = 0
    BY Zenon, FS_EmptySet
  <2>3. settings \in Settings /\ settings.perSrc \in Int
    BY Zenon, <1>1 DEF Init, Setting
  <2>4. ASSUME NEW s \in Src, settings.perSrc > 0 PROVE Bounded(s)
    <3>1. srcCounts[s] = 0 /\ Cardinality(PassedOf(s)) = 0
      BY Zenon, <1>1, <2>1, <2>2 DEF Init
    <3>2. srcCounts[s] + Cardinality(PassedOf(s)) <= settings.perSrc + Handlers - 1
      BY <2>3, <2>4, <3>1
    <3> QED BY Zenon, <2>3, <3>2 DEF Bounded
  <2> QED
    BY <2>1, <2>2, <2>3, <2>4 DEF Ceiling
<1>2. ASSUME TypeInv, TypeInv', Ceiling, [Next]_vars PROVE Ceiling'
  <2>1. ASSUME UNCHANGED <<pc, slots>>, settings' \in Settings PROVE Ceiling'
    <3>1. Running' = Running /\ \A s \in Src : PassedOf(s)' = PassedOf(s)
      BY Zenon, <2>1 DEF Running, PassedOf
    <3> QED
      BY Zenon, <1>2, <2>1, <3>1 DEF Ceiling, Bounded, slots
  <2>2. ASSUME NEW c \in Conn, NEW x \in Leg,
               CopyRead(c, x) \/ CopyWrite(c, x) \/ CopyEnds(c, x) \/ PeerEnds(c, x)
        PROVE  UNCHANGED <<pc, slots, settings>>
    BY Zenon, <2>2 DEF CopyRead, CopyWrite, CopyEnds, CopyEOF, CopyFails, PeerEnds
  <2>3. CASE CleanupTick \/ Shutdown \/ CleanupStep \/ Advance \/ UNCHANGED vars
    <3>1. UNCHANGED <<pc, slots, settings>>
      BY Zenon, <2>3 DEF CleanupTick, Shutdown, CleanupStep, RangePairs, ClosePair,
                         Advance, vars
    <3> QED BY Zenon, <1>2, <2>1, <3>1 DEF Ceiling
  <2>4. CASE Reload
    BY Zenon, <2>1, <2>4 DEF Reload
  <2>5. ASSUME UNCHANGED <<pc, slots, settings>> PROVE Ceiling'
    BY Zenon, <1>2, <2>1, <2>5 DEF Ceiling
  <2> QED
    BY Zenon, <1>2, <2>2, <2>3, <2>4, <2>5, CeilingConn DEF Next
<1> QED
  BY Zenon, <1>1, <1>2

\* However many handlers run at once and however the settings are reloaded, a
\* source is never charged for more than some configured ceiling and the
\* handlers less one.
THEOREM OvershootBounded == Spec => []SourceOvershoot
<1>1. ASSUME TypeInv, Ceiling PROVE SourceOvershoot
  <2> SUFFICES ASSUME \A v \in Settings : v.perSrc > 0, NEW s \in Src
               PROVE  \E v \in Settings : srcCounts[s] <= v.perSrc + Handlers - 1
    BY Zenon DEF SourceOvershoot
  <2>1. PICK v \in Settings :
          srcCounts[s] + Cardinality(PassedOf(s)) <= v.perSrc + Handlers - 1
    BY Zenon, <1>1 DEF Ceiling, Bounded
  <2>2. v.perSrc \in Int /\ srcCounts[s] \in Nat /\ Cardinality(PassedOf(s)) \in Nat
    BY Zenon, <1>1, FS_Subset, FS_CardinalityType DEF Setting, TypeInv, TypeOK, PassedOf
  <2> QED BY <2>1, <2>2
<1>2. Init => TypeInv /\ Ceiling
  BY Zenon, TypeInit, CeilingStep
<1>3. TypeInv /\ Ceiling /\ [Next]_vars => (TypeInv /\ Ceiling)'
  BY Zenon, TypeStep, CeilingStep
<1> QED
  BY <1>1, <1>2, <1>3, PTL DEF Spec

-----------------------------------------------------------------------------
(***************************************************************************)
(* The legs.  NothingLeft becomes inductive when every open leg, tracked   *)
(* pair and running copy is placed between the steps that make and unmake  *)
(* it.                                                                     *)
(***************************************************************************)
LegInv ==
  \A c \in Conn :
    /\ Open(c, "a") => pc[c] \in {"dial", "track", "proxy", "untrack", "closeB", "closeA"}
    /\ Open(c, "b") => pc[c] \in {"track", "proxy", "untrack", "closeB"}
    /\ pc[c] = "dial" => leg[c]["a"] # "none"
    /\ pc[c] \in {"track", "proxy"} => \A x \in Leg : leg[c][x] # "none"
    /\ c \in tcpConns => pc[c] \in {"proxy", "untrack"}
    /\ \A x \in Leg : cp[c][x] \in {"read", "write"} => pc[c] = "proxy"

\* SetLeg changes one leg of one connection.
LEMMA LegMove ==
  ASSUME TypeInv, NEW c \in Conn, NEW x \in Leg, NEW v, SetLeg(c, x, v)
  PROVE  /\ leg'[c][x] = v /\ leg'[c][Other(x)] = leg[c][Other(x)]
         /\ \A d \in Conn : d # c => leg'[d] = leg[d]
  BY DEF SetLeg, TypeInv, TypeOK, ConnOK, Other, Leg

\* Every step of a connection's goroutine keeps the legs where they belong.
LEMMA LegConn ==
  ASSUME TypeInv, LegInv, NEW c \in Conn, HandleTCP(c) \/ Progress(c)
  PROVE  LegInv'
<1>l. {"none", "check", "acquire", "add", "endpoint", "unacquire", "unadd", "dial",
       "track", "proxy", "untrack", "closeB", "closeA", "release", "remove"} \subseteq Pc
  BY Zenon DEF Pc, HandlerPc, ProxyPc
<1>g. \A l \in Pc : Goto(c, l) => pc'[c] = l /\ \A d \in Conn : d # c => pc'[d] = pc[d]
  BY Zenon, GotoType DEF TypeInv, TypeOK
<1>1. ASSUME NEW l \in Pc, Goto(c, l), UNCHANGED <<ends, tcpConns>>,
             \/ pc[c] \in {"none", "remove", "release"} \cup HandlerPc
                /\ l \in {"none", "remove"} \cup HandlerPc
             \/ pc[c] = "proxy" /\ l = "untrack" /\ \A x \in Leg : cp[c][x] = "done"
      PROVE  LegInv'
  BY <1>1, <1>g DEF LegInv, Open, ends, HandlerPc
<1>2. CASE HandleTCP(c) \/ CheckSource(c) \/ CopiesDone(c) \/ TryAcquireTCP(c) \/ AddSource(c)
  BY Zenon, <1>1, <1>2, <1>l DEF HandleTCP, CheckSource, CopiesDone, TryAcquireTCP, AddSource,
      HandlerPc
<1>3. CASE HandshakeFailed(c)
  BY Zenon, <1>1, <1>3, <1>l DEF HandshakeFailed, ReleaseTCP, RemoveSource, HandlerPc
<1>4. CASE CreateEndpoint(c)
  <2>1. CASE Goto(c, "unacquire") /\ UNCHANGED <<leg, peer>>
    BY Zenon, <1>1, <1>4, <1>l, <2>1 DEF CreateEndpoint, HandlerPc, ends
  <2>2. CASE Goto(c, "dial") /\ SetLeg(c, "a", "open")
    <3>1. /\ leg'[c]["a"] = "open" /\ leg'[c]["b"] = leg[c]["b"]
          /\ \A d \in Conn : d # c => leg'[d] = leg[d]
      BY Zenon, <2>2, LegMove DEF Leg, Other
    <3>2. pc[c] = "endpoint" /\ UNCHANGED <<cp, tcpConns>>
      BY Zenon, <1>4 DEF CreateEndpoint
    <3> QED
      BY <1>g, <1>l, <2>2, <3>1, <3>2 DEF LegInv, Open, Leg
  <2> QED
    BY Zenon, <1>4, <2>1, <2>2 DEF CreateEndpoint
<1>5. CASE Dial(c)
  <2>1. pc[c] = "dial" /\ UNCHANGED <<cp, tcpConns>>
    BY Zenon, <1>5 DEF Dial
  <2>2. CASE Goto(c, "closeA") /\ UNCHANGED leg
    BY <1>g, <1>l, <2>1, <2>2 DEF LegInv, Open, Leg
  <2>3. CASE Goto(c, "track") /\ SetLeg(c, "b", "open")
    <3>1. /\ leg'[c]["b"] = "open" /\ leg'[c]["a"] = leg[c]["a"]
          /\ \A d \in Conn : d # c => leg'[d] = leg[d]
      BY Zenon, <2>3, LegMove DEF Leg, Other
    <3> QED
      BY <1>g, <1>l, <2>1, <2>3, <3>1 DEF LegInv, Open, Leg
  <2> QED
    BY Zenon, <1>5, <2>2, <2>3 DEF Dial
<1>6. CASE TrackTCP(c)
  <2>1. /\ pc[c] = "track" /\ Goto(c, "proxy") /\ UNCHANGED leg
        /\ tcpConns' = tcpConns \cup {c}
        /\ \A d \in Conn : d # c => cp'[d] = cp[d]
    BY Zenon, <1>6 DEF TrackTCP, TypeInv, TypeOK, ConnOK
  <2> QED
    BY <1>g, <1>l, <2>1 DEF LegInv, Open
<1>7. CASE UntrackTCP(c)
  <2>1. pc[c] = "untrack" /\ Goto(c, "closeB") /\ tcpConns' = tcpConns \ {c}
        /\ UNCHANGED <<leg, cp>>
    BY Zenon, <1>7 DEF UntrackTCP, ends
  <2> QED
    BY Zenon, <1>g, <1>l, <2>1 DEF LegInv, Open
<1>8. CASE Deferred(c)
  <2>1. ASSUME NEW x \in Leg, NEW l \in Pc,
               \/ x = "b" /\ pc[c] = "closeB" /\ l = "closeA"
               \/ x = "a" /\ pc[c] = "closeA" /\ l = "release",
               Goto(c, l), Close(c, x), UNCHANGED <<cp, tcpConns>>
        PROVE  LegInv'
    <3>1. /\ leg'[c][x] = "closed" /\ leg'[c][Other(x)] = leg[c][Other(x)]
          /\ \A d \in Conn : d # c => leg'[d] = leg[d]
      BY Zenon, <2>1, LegMove DEF Close
    <3> QED
      BY <1>g, <2>1, <3>1 DEF LegInv, Open, Leg, Other
  <2>2. CASE DeferredClose(c, "b", "closeB", "closeA") \/ DeferredClose(c, "a", "closeA", "release")
    BY Zenon, <1>l, <2>1, <2>2 DEF DeferredClose, Leg
  <2>3. CASE ReleaseTCP(c, "release", "remove") \/ RemoveSource(c, "remove", "none")
    BY Zenon, <1>1, <1>l, <2>3 DEF ReleaseTCP, RemoveSource
  <2> QED
    BY Zenon, <1>8, <2>2, <2>3 DEF Deferred
<1> QED
  BY Zenon, <1>2, <1>3, <1>4, <1>5, <1>6, <1>7, <1>8 DEF Progress

\* The copies, the peers and the cleaner close legs but open none.
LEMMA LegOthers ==
  ASSUME TypeInv, LegInv,
         \/ \E c \in Conn, x \in Leg :
              CopyRead(c, x) \/ CopyWrite(c, x) \/ CopyEnds(c, x) \/ PeerEnds(c, x)
         \/ CleanupTick \/ Shutdown \/ CleanupStep \/ Reload \/ Advance
         \/ UNCHANGED vars
  PROVE  LegInv'
<1>1. ASSUME UNCHANGED <<pc, leg, cp, tcpConns>> PROVE LegInv'
  BY Zenon, <1>1 DEF LegInv, Open
<1>2. ASSUME NEW c \in Conn, NEW x \in Leg, NEW v \in {"fin", "closed"},
             v = "fin" => leg[c][x] \in {"open", "fin"}, SetLeg(c, x, v),
             UNCHANGED <<pc, tcpConns>>,
             UNCHANGED cp \/ cp' = [cp EXCEPT ![c][x] = "done"]
      PROVE  LegInv'
  <2>1. /\ leg'[c][x] = v /\ leg'[c][Other(x)] = leg[c][Other(x)]
        /\ \A d \in Conn : d # c => leg'[d] = leg[d]
    BY Zenon, <1>2, LegMove
  <2>2. \A d \in Conn, y \in Leg : cp'[d][y] \in {"read", "write"} => cp[d][y] = cp'[d][y]
    BY <1>2 DEF TypeInv, TypeOK, ConnOK
  <2>3. \A d \in Conn, y \in Leg : Open(d, y)' => Open(d, y)
    BY Zenon, <1>2, <2>1 DEF Open, Leg, Other
  <2>4. \A d \in Conn, y \in Leg : leg[d][y] # "none" => leg'[d][y] # "none"
    BY Zenon, <1>2, <2>1 DEF Leg, Other
  <2> QED
    BY <1>2, <2>2, <2>3, <2>4 DEF LegInv, Leg
<1>3. ASSUME NEW c \in Conn, NEW x \in Leg, CopyRead(c, x) \/ CopyWrite(c, x)
      PROVE  LegInv'
  <2>1. /\ cp[c][x] \in {"read", "write"}
        /\ UNCHANGED <<pc, leg, tcpConns>>
        /\ \A d \in Conn, y \in Leg : <<d, y>> # <<c, x>> => cp'[d][y] = cp[d][y]
    BY <1>3 DEF CopyRead, CopyWrite, TypeInv, TypeOK, ConnOK
  <2> QED
    BY <2>1 DEF LegInv, Open
<1>4. ASSUME NEW c \in Conn, NEW x \in Leg, CopyEOF(c, x) PROVE LegInv'
  <2>1. /\ SetLeg(c, x, AfterEOF(c, x)) /\ cp' = [cp EXCEPT ![c][x] = "done"]
        /\ UNCHANGED <<pc, tcpConns>> /\ cp[c][x] = "read"
    BY Zenon, <1>4 DEF CopyEOF
  <2>2. leg[c][x] # "none" /\ leg[c][x] \in {"none", "open", "fin", "closed"}
    BY <2>1 DEF LegInv, TypeInv, TypeOK, ConnOK
  <2>3. /\ AfterEOF(c, x) \in {"fin", "closed"}
        /\ AfterEOF(c, x) = "fin" => leg[c][x] \in {"open", "fin"}
    BY Zenon, <2>2 DEF AfterEOF
  <2> QED
    BY Zenon, <1>2, <2>1, <2>3
<1>5. ASSUME NEW c \in Conn, NEW x \in Leg, CopyFails(c, x) PROVE LegInv'
  BY ZenonT(60), <1>2, <1>5 DEF CopyFails, Close
<1>6. CASE ClosePair
  <2>1. cl.target \in Conn
    BY Zenon, <1>6 DEF ClosePair, TypeInv, TargetOK
  <2> QED
    BY Zenon, <1>2, <1>6, <2>1 DEF ClosePair, Close, Leg
<1>7. ASSUME NEW c \in Conn, NEW x \in Leg, PeerEnds(c, x) PROVE LegInv'
  BY Zenon, <1>1, <1>7 DEF PeerEnds
<1>8. CASE CleanupTick \/ Shutdown \/ RangePairs \/ Reload \/ Advance \/ UNCHANGED vars
  BY Zenon, <1>1, <1>8 DEF CleanupTick, Shutdown, RangePairs, Reload, Advance, vars, ends
<1> QED
  BY Zenon, <1>3, <1>4, <1>5, <1>6, <1>7, <1>8 DEF CopyEnds, CleanupStep

\* The legs stay where they belong in every behaviour.
LEMMA LegCorrect == Spec => [](TypeInv /\ LegInv)
<1>1. Init => TypeInv /\ LegInv
  BY TypeInit DEF Init, LegInv, Open, Leg
<1>2. TypeInv /\ LegInv /\ [Next]_vars => (TypeInv /\ LegInv)'
  BY Zenon, TypeStep, LegConn, LegOthers DEF Next
<1> QED
  BY <1>1, <1>2, PTL DEF Spec

\* When a connection's goroutine is over its legs are closed and the reaper
\* no longer knows it.
THEOREM NothingIsLeft == Spec => []NothingLeft
<1>1. LegInv => NothingLeft
  BY Zenon DEF LegInv, NothingLeft, HandlerPc, Leg
<1> QED
  BY <1>1, LegCorrect, PTL

\* proxyTCP never closes a leg because the other direction ended cleanly.
THEOREM HalfCloses == Spec => HalfClosePreserved
<1> DEFINE Reason == \A c \in Conn, x \in Leg :
             Open(c, x) /\ leg'[c][x] = "closed" =>
               \/ pc[c] # "proxy"
               \/ \E y \in Leg : peer[c][y] = "dead" \/ leg[c][y] = "closed"
               \/ cl.target = c
<1>1. ASSUME TypeInv, LegInv, [Next]_vars PROVE Reason
  <2> SUFFICES ASSUME NEW c \in Conn, NEW x \in Leg, Open(c, x), leg'[c][x] = "closed",
                      pc[c] = "proxy", cl.target # c,
                      \A y \in Leg : peer[c][y] # "dead" /\ leg[c][y] # "closed"
               PROVE  FALSE
    OBVIOUS
  <2>1. leg[c][x] # "closed" /\ leg'[c] # leg[c]
    BY Zenon DEF Open
  <2>2. ASSUME NEW d \in Conn, NEW y \in Leg, NEW v, SetLeg(d, y, v) PROVE d = c /\ y = x /\ v = "closed"
    BY <1>1, <2>1, <2>2, LegMove DEF Leg, Other
  <2>3. ASSUME NEW d \in Conn, HandleTCP(d) \/ Progress(d) PROVE FALSE
    BY Zenon, <2>1, <2>2, <2>3 DEF HandleTCP, Progress, CheckSource, TryAcquireTCP, AddSource,
       CreateEndpoint, HandshakeFailed, ReleaseTCP, RemoveSource, Dial, TrackTCP,
       CopiesDone, UntrackTCP, Deferred, DeferredClose, Close, ends, Leg
  <2>4. ASSUME NEW d \in Conn, NEW y \in Leg, CopyEOF(d, y) PROVE FALSE
    BY <2>2, <2>4 DEF CopyEOF, AfterEOF, Open
  <2>5. ASSUME NEW d \in Conn, NEW y \in Leg, CopyFails(d, y) PROVE FALSE
    <3>1. d = c /\ y = x
      BY Zenon, <2>2, <2>5 DEF CopyFails, Close
    <3>2. \A z \in Leg : Open(c, z)
      BY <1>1 DEF LegInv, Open, TypeInv, TypeOK, ConnOK
    <3> QED
      BY Zenon, <2>5, <3>1, <3>2 DEF CopyFails, Failed, Leg, Other
  <2>6. CASE ClosePair
    <3>1. cl.target \in Conn
      BY Zenon, <1>1, <2>6 DEF ClosePair, TypeInv, TargetOK
    <3> QED
      BY Zenon, <2>2, <2>6, <3>1 DEF ClosePair, Close, Leg
  <2>7. ASSUME UNCHANGED leg PROVE FALSE
    BY Zenon, <2>1, <2>7
  <2>8. ASSUME NEW d \in Conn, NEW y \in Leg, CopyRead(d, y) \/ CopyWrite(d, y) \/ PeerEnds(d, y)
        PROVE  FALSE
    BY Zenon, <2>7, <2>8 DEF CopyRead, CopyWrite, PeerEnds
  <2>9. CASE CleanupTick \/ Shutdown \/ RangePairs \/ Reload \/ Advance \/ UNCHANGED vars
    BY ZenonT(60), <2>7, <2>9 DEF CleanupTick, Shutdown, RangePairs, Reload, Advance, vars, ends
  <2> QED
    BY Zenon, <1>1, <2>3, <2>4, <2>5, <2>6, <2>8, <2>9 DEF Next, CopyEnds, CleanupStep
<1>2. TypeInv /\ LegInv /\ [Next]_vars => [Reason]_vars
  BY Zenon, <1>1
<1> QED
  BY <1>2, LegCorrect, PTL DEF Spec, HalfClosePreserved
=============================================================================
