-------------------------- MODULE Dns64ServerProofs --------------------------
(***************************************************************************)
(* Proofs about Dns64Server, for every number of queries, connections and  *)
(* pipelined messages and every limit.  Shape, what is known of the        *)
(* program counters, is inductive by itself; on top of it stand three      *)
(* exact counts: of the query semaphore, of each connection's slots and    *)
(* wait group, and of the service's wait group.                            *)
(***************************************************************************)
EXTENDS Dns64Server, FiniteSetTheorems, TLAPS

USE ServerConstants

UdpPc == {"idle", "start", "run", "release", "wgdone"}
Busy == {"read", "slot", "wait", "check", "add", "close", "join", "release"}
RdPc == {"idle", "wgdone"} \cup Busy
HPc == {"idle", "run", "lock", "write", "slot", "hdone", "wgdone"}

\* The type invariant without the counters, and: the connection for which
\* the accept loop has acquired a slot is not being served yet.
Shape ==
  /\ listening \in BOOLEAN
  /\ uloop \in {"read", "add", "exit"}
  /\ udp \in [Query -> UdpPc]
  /\ tloop \in [pc : {"accept", "add", "exit"}, conn : Conn \cup {Free}]
  /\ rd \in [Conn -> RdPc]
  /\ open \in [Conn -> BOOLEAN] /\ broken \in [Conn -> BOOLEAN]
  /\ writeMu \in [Conn -> Msg \cup {Free}]
  /\ h \in [Conn -> [Msg -> HPc]]
  /\ drain \in {"no", "wait", "done", "late"}
  /\ \A c \in Conn : tloop = [pc |-> "add", conn |-> c] => rd[c] = "idle"

\* Moving one pipelined query changes nothing else of h.
LEMMA HType ==
  ASSUME h \in [Conn -> [Msg -> HPc]], NEW c \in Conn, NEW m \in Msg, NEW v \in HPc,
         H(c, m, v)
  PROVE  /\ h' \in [Conn -> [Msg -> HPc]]
         /\ h'[c][m] = v
         /\ \A n \in Msg : n # m => h'[c][n] = h[c][n]
         /\ \A d \in Conn : d # c => h'[d] = h[d]
<1>1. h[c] \in [Msg -> HPc] /\ h' = [h EXCEPT ![c] = [h[c] EXCEPT ![m] = v]]
  BY Zenon DEF H
<1>2. [h[c] EXCEPT ![m] = v] \in [Msg -> HPc]
  BY Zenon, <1>1
<1> QED BY Zenon, <1>1, <1>2

\* The initial state has the shape.
LEMMA ShapeInit == Init => Shape
  BY DEF Init, Shape, UdpPc, RdPc, HPc

\* The loops and the UDP queries keep the shape.
LEMMA ShapeUdp ==
  ASSUME Shape, LoopStep \/ DrainStep \/ \E q \in Query : UdpSpawn(q) \/ QueryStep(q)
  PROVE  Shape'
<1>1. CASE UdpRead BY Zenon, <1>1 DEF Shape, UdpRead, connVars
<1>2. CASE TcpExit BY Zenon, <1>2 DEF Shape, TcpExit, connVars, udpVars
<1>3. ASSUME NEW c \in Conn, TcpAccept(c) PROVE Shape'
  BY Zenon, <1>3 DEF Shape, TcpAccept, connVars, udpVars
<1>4. ASSUME NEW c \in Conn, TcpSpawn(c) PROVE Shape'
  BY Zenon, <1>4 DEF Shape, TcpSpawn, Rd, RdPc, Busy, udpVars
<1>5. CASE DrainStep
  BY Zenon, <1>5 DEF Shape, DrainStep, Shutdown, DrainStart, DrainDone, DrainTimeout, connVars,
      udpVars
<1>6. ASSUME NEW q \in Query, UdpSpawn(q) \/ QueryStep(q) PROVE Shape'
  <2>1. \E v \in UdpPc : udp' = [udp EXCEPT ![q] = v]
    BY Zenon, <1>6 DEF UdpSpawn, QueryStep, UdpDrop, UdpAcquire, UdpAnswer, UdpRelease, UdpDone,
        Udp, UdpPc
  <2>2. udp' \in [Query -> UdpPc]
    BY Zenon, <2>1 DEF Shape
  <2>3. uloop' \in {"read", "add", "exit"} /\ UNCHANGED <<listening, tloop, connVars, drain>>
    BY Zenon, <1>6 DEF UdpSpawn, QueryStep, UdpDrop, UdpAcquire, UdpAnswer, UdpRelease, UdpDone,
        Shape
  <2> QED BY Zenon, <2>2, <2>3 DEF Shape, connVars
<1> QED BY Zenon, <1>1, <1>2, <1>3, <1>4, <1>5, <1>6 DEF LoopStep

\* A connection's reader keeps the shape.
LEMMA ShapeReader ==
  ASSUME Shape, NEW c \in Conn, ReaderStep(c)
  PROVE  Shape'
<1>1. rd[c] # "idle" /\ \E v \in RdPc : rd' = [rd EXCEPT ![c] = v]
  BY Zenon DEF ReaderStep, ConnRead, ConnReadFails, TakeSlot, AwaitSlot, SlotTimeout, CheckBroken,
         Dispatch, CloseConn, AwaitHandlers, ReleaseConn, ConnDone, Rd, RdPc, Busy
<1>2. rd' \in [Conn -> RdPc] /\ \A d \in Conn : d # c => rd'[d] = rd[d]
  BY <1>1 DEF Shape
<1>3. UNCHANGED <<listening, udpVars, tloop, broken, writeMu, drain>>
  BY Zenon DEF ReaderStep, ConnRead, ConnReadFails, TakeSlot, AwaitSlot, SlotTimeout, CheckBroken,
         Dispatch, CloseConn, AwaitHandlers, ReleaseConn, ConnDone
<1>4. open' \in [Conn -> BOOLEAN]
  BY Zenon DEF ReaderStep, ConnRead, ConnReadFails, TakeSlot, AwaitSlot, SlotTimeout, CheckBroken,
         Dispatch, CloseConn, AwaitHandlers, ReleaseConn, ConnDone, Shape
<1>5. h' \in [Conn -> [Msg -> HPc]]
  <2>1. ASSUME NEW m \in Msg, Dispatch(c, m) PROVE h' \in [Conn -> [Msg -> HPc]]
    BY Zenon, <2>1, HType DEF Dispatch, H, HPc, Shape
  <2>2. UNCHANGED h \/ \E m \in Msg : Dispatch(c, m)
    BY Zenon DEF ReaderStep, ConnRead, ConnReadFails, TakeSlot, AwaitSlot, SlotTimeout, CheckBroken,
           CloseConn, AwaitHandlers, ReleaseConn, ConnDone
  <2> QED BY Zenon, <2>1, <2>2 DEF Shape
<1> QED BY Zenon, <1>1, <1>2, <1>3, <1>4, <1>5 DEF Shape, udpVars

\* A pipelined query keeps the shape.
LEMMA ShapeHandler ==
  ASSUME Shape, NEW c \in Conn, NEW m \in Msg, HandlerStep(c, m)
  PROVE  Shape'
<1>1. \E v \in HPc : H(c, m, v)
  BY Zenon DEF HandlerStep, Handle, LockWriter, WriteMsg, WriteFails, LeaveSlot, HandlerDone,
         QueryDone, HPc
<1>2. h' \in [Conn -> [Msg -> HPc]]
  BY Zenon, <1>1, HType DEF Shape
<1>3. UNCHANGED <<listening, udpVars, tloop, rd, drain>>
  BY Zenon DEF HandlerStep, Handle, LockWriter, WriteMsg, WriteFails, LeaveSlot, HandlerDone,
      QueryDone
<1>4. /\ UNCHANGED open \/ open' = [open EXCEPT ![c] = FALSE]
      /\ UNCHANGED broken \/ broken' = [broken EXCEPT ![c] = TRUE]
  BY Zenon DEF HandlerStep, Handle, LockWriter, WriteMsg, WriteFails, LeaveSlot, HandlerDone,
      QueryDone
<1>5. \/ UNCHANGED writeMu
      \/ \E v \in {m, Free} : writeMu' = [writeMu EXCEPT ![c] = v]
  BY Zenon DEF HandlerStep, Handle, LockWriter, WriteMsg, WriteFails, LeaveSlot, HandlerDone,
      QueryDone
<1>6. open' \in [Conn -> BOOLEAN] /\ broken' \in [Conn -> BOOLEAN]
  BY Zenon, <1>4 DEF Shape
<1>7. writeMu' \in [Conn -> Msg \cup {Free}]
  BY ZenonT(60), <1>5 DEF Shape
<1> QED BY Zenon, <1>2, <1>3, <1>6, <1>7 DEF Shape, udpVars

\* Every step keeps the shape.
LEMMA ShapeNext == Shape /\ [Next]_vars => Shape'
<1>1. CASE UNCHANGED vars BY Zenon, <1>1 DEF vars, udpVars, connVars, Shape
<1> QED BY Zenon, <1>1, ShapeUdp, ShapeReader, ShapeHandler DEF Next
-----------------------------------------------------------------------------
(***************************************************************************)
(* Counting.                                                               *)
(***************************************************************************)

\* A set that gains or loses one member, and one that stays finite.
LEMMA Gain ==
  ASSUME NEW S, NEW T, NEW x, IsFiniteSet(S), x \notin S, T = S \cup {x}
  PROVE  IsFiniteSet(T) /\ Cardinality(T) = Cardinality(S) + 1
  BY Zenon, FS_AddElement

\* The same for a member lost.
LEMMA Lose ==
  ASSUME NEW S, NEW T, NEW x, IsFiniteSet(S), x \in S, T = S \ {x}
  PROVE  IsFiniteSet(T) /\ Cardinality(T) = Cardinality(S) - 1
  BY Zenon, FS_RemoveElement, FS_CardinalityType

\* The sets that are counted are finite.
LEMMA Finite ==
  /\ IsFiniteSet(HoldUdp) /\ IsFiniteSet(HoldConn)
  /\ Cardinality(HoldUdp) \in Nat /\ Cardinality(HoldConn) \in Nat
<1>1. HoldUdp \subseteq Query /\ HoldConn \subseteq Conn
  BY Zenon DEF HoldUdp, HoldConn
<1> QED BY Zenon, <1>1, FS_Subset, FS_CardinalityType

\* The reader's steps between the first read and the release of its slot.
ReaderBusy(c) ==
  \/ ConnRead(c) \/ ConnReadFails(c) \/ TakeSlot(c) \/ AwaitSlot(c) \/ SlotTimeout(c)
  \/ CheckBroken(c) \/ (\E m \in Msg : Dispatch(c, m)) \/ CloseConn(c) \/ AwaitHandlers(c)

\* During them the connection is busy before and after.
LEMMA BusyStep ==
  ASSUME Shape, NEW c \in Conn, ReaderBusy(c)
  PROVE  /\ rd[c] \in Busy /\ rd'[c] \in Busy
         /\ \A d \in Conn : d # c => rd'[d] = rd[d]
         /\ UNCHANGED <<sem, udpVars, tloop, drain>>
<1>1. rd[c] \in Busy /\ (\E v \in Busy : rd' = [rd EXCEPT ![c] = v])
  BY Zenon DEF ReaderBusy, ConnRead, ConnReadFails, TakeSlot, AwaitSlot, SlotTimeout, CheckBroken,
         Dispatch, CloseConn, AwaitHandlers, Rd, Busy
<1>2. UNCHANGED <<sem, udpVars, tloop, drain>>
  BY Zenon DEF ReaderBusy, ConnRead, ConnReadFails, TakeSlot, AwaitSlot, SlotTimeout, CheckBroken,
         Dispatch, CloseConn, AwaitHandlers
<1> QED BY Zenon, <1>1, <1>2 DEF Shape
-----------------------------------------------------------------------------
(***************************************************************************)
(* The query semaphore.                                                    *)
(***************************************************************************)

\* A step that changes neither the semaphore nor its holders keeps the count.
LEMMA SemKept ==
  ASSUME QuerySemExact, sem' = sem, HoldUdp' = HoldUdp, HoldConn' = HoldConn
  PROVE  QuerySemExact'
  BY Zenon DEF QuerySemExact

\* Every step keeps the semaphore exact.
LEMMA SemStep ==
  ASSUME Shape, Shape', QuerySemExact, Next
  PROVE  QuerySemExact'
<1> USE Finite
<1>1. ASSUME NEW q \in Query, UdpAcquire(q) PROVE QuerySemExact'
  <2>1. HoldUdp' = HoldUdp \cup {q} /\ q \notin HoldUdp
    BY <1>1 DEF UdpAcquire, Udp, HoldUdp, Shape
  <2>2. HoldConn' = HoldConn
    BY Zenon, <1>1 DEF UdpAcquire, HoldConn, connVars
  <2>3. Cardinality(HoldUdp') = Cardinality(HoldUdp) + 1
    BY Zenon, <2>1, Gain
  <2>4. sem' = sem + 1 /\ ~Full
    BY Zenon, <1>1 DEF UdpAcquire
  <2> QED BY <2>2, <2>3, <2>4 DEF QuerySemExact, Full
<1>2. ASSUME NEW q \in Query, UdpRelease(q) PROVE QuerySemExact'
  <2>1. HoldUdp' = HoldUdp \ {q} /\ q \in HoldUdp
    BY Zenon, <1>2 DEF UdpRelease, Udp, HoldUdp, Shape
  <2>2. HoldConn' = HoldConn
    BY Zenon, <1>2 DEF UdpRelease, HoldConn, connVars
  <2>3. Cardinality(HoldUdp') = Cardinality(HoldUdp) - 1
    BY ZenonT(60), <2>1, Lose
  <2>4. sem' = sem - 1
    BY Zenon, <1>2 DEF UdpRelease
  <2> QED BY <2>2, <2>3, <2>4 DEF QuerySemExact
<1>3. ASSUME NEW q \in Query, UdpSpawn(q) \/ UdpDrop(q) \/ UdpAnswer(q) \/ UdpDone(q)
      PROVE  QuerySemExact'
  <2>1. HoldUdp' = HoldUdp
    BY <1>3 DEF UdpSpawn, UdpDrop, UdpAnswer, UdpDone, Udp, HoldUdp, Shape
  <2>2. HoldConn' = HoldConn /\ sem' = sem
    BY Zenon, <1>3 DEF UdpSpawn, UdpDrop, UdpAnswer, UdpDone, HoldConn, connVars
  <2> QED BY Zenon, <2>1, <2>2, SemKept
<1>4. ASSUME NEW c \in Conn, TcpAccept(c) PROVE QuerySemExact'
  <2>1. HoldConn' = HoldConn \cup {c} /\ c \notin HoldConn
    BY <1>4 DEF TcpAccept, HoldConn, connVars, Shape
  <2>2. HoldUdp' = HoldUdp
    BY Zenon, <1>4 DEF TcpAccept, HoldUdp, udpVars
  <2>3. Cardinality(HoldConn') = Cardinality(HoldConn) + 1
    BY Zenon, <2>1, Gain
  <2>4. sem' = sem + 1 /\ ~Full
    BY Zenon, <1>4 DEF TcpAccept
  <2> QED BY <2>2, <2>3, <2>4 DEF QuerySemExact, Full
<1>5. ASSUME NEW c \in Conn, TcpSpawn(c) PROVE QuerySemExact'
  <2>1. HoldConn' = HoldConn
    <3>1. rd' = [rd EXCEPT ![c] = "read"] /\ tloop' = [pc |-> "accept", conn |-> Free]
          /\ tloop = [pc |-> "add", conn |-> c]
      BY Zenon, <1>5 DEF TcpSpawn, Rd
    <3>2. \A d \in Conn : d # c => rd'[d] = rd[d] /\ tloop # [pc |-> "add", conn |-> d]
      BY Zenon, <3>1 DEF Shape
    <3>3. rd'[c] = "read"
      BY Zenon, <3>1 DEF Shape
    <3> QED BY Zenon, <3>1, <3>2, <3>3 DEF HoldConn
  <2>2. HoldUdp' = HoldUdp /\ sem' = sem
    BY Zenon, <1>5 DEF TcpSpawn, HoldUdp, udpVars
  <2> QED BY Zenon, <2>1, <2>2, SemKept
<1>6. CASE UdpRead \/ TcpExit \/ DrainStep
  <2>1. HoldConn' = HoldConn /\ HoldUdp' = HoldUdp /\ sem' = sem
    BY <1>6 DEF UdpRead, TcpExit, DrainStep, Shutdown, DrainStart, DrainDone, DrainTimeout,
                HoldConn, HoldUdp, connVars, udpVars, Shape
  <2> QED BY Zenon, <2>1, SemKept
<1>7. ASSUME NEW c \in Conn, ReaderBusy(c) PROVE QuerySemExact'
  <2>1. HoldConn' = HoldConn
    BY Zenon, <1>7, BusyStep DEF HoldConn, Busy
  <2>2. HoldUdp' = HoldUdp /\ sem' = sem
    BY Zenon, <1>7, BusyStep DEF HoldUdp, udpVars
  <2> QED BY Zenon, <2>1, <2>2, SemKept
<1>8. ASSUME NEW c \in Conn, ReleaseConn(c) PROVE QuerySemExact'
  <2>1. HoldConn' = HoldConn \ {c} /\ c \in HoldConn
    BY Zenon, <1>8 DEF ReleaseConn, Rd, HoldConn, Shape
  <2>2. HoldUdp' = HoldUdp
    BY Zenon, <1>8 DEF ReleaseConn, HoldUdp, udpVars
  <2>3. Cardinality(HoldConn') = Cardinality(HoldConn) - 1
    BY Zenon, <2>1, Lose
  <2>4. sem' = sem - 1
    BY Zenon, <1>8 DEF ReleaseConn
  <2> QED BY <2>2, <2>3, <2>4 DEF QuerySemExact
<1>9. ASSUME NEW c \in Conn, ConnDone(c) PROVE QuerySemExact'
  <2>1. HoldConn' = HoldConn
    BY Zenon, <1>9 DEF ConnDone, Rd, HoldConn, Shape
  <2>2. HoldUdp' = HoldUdp /\ sem' = sem
    BY Zenon, <1>9 DEF ConnDone, HoldUdp, udpVars
  <2> QED BY Zenon, <2>1, <2>2, SemKept
<1>10. ASSUME NEW c \in Conn, NEW m \in Msg, HandlerStep(c, m) PROVE QuerySemExact'
  <2>1. HoldConn' = HoldConn /\ HoldUdp' = HoldUdp /\ sem' = sem
    BY Zenon, <1>10 DEF HandlerStep, Handle, LockWriter, WriteMsg, WriteFails, LeaveSlot,
        HandlerDone,
                 QueryDone, HoldConn, HoldUdp, udpVars
  <2> QED BY Zenon, <2>1, SemKept
<1>11. ASSUME NEW c \in Conn, ReaderStep(c) PROVE QuerySemExact'
  BY Zenon, <1>7, <1>8, <1>9, <1>11 DEF ReaderStep, ReaderBusy
<1>12. ASSUME NEW q \in Query, UdpSpawn(q) \/ QueryStep(q) PROVE QuerySemExact'
  BY Zenon, <1>1, <1>2, <1>3, <1>12 DEF QueryStep
<1> QED
  BY Zenon, <1>4, <1>5, <1>6, <1>10, <1>11, <1>12 DEF Next, LoopStep

\* The program counters keep their shape for ever.
THEOREM ShapeAlways == Spec => []Shape
  BY ShapeInit, ShapeNext, PTL DEF Spec

\* The slots of querySem are exactly those of the admitted queries and
\* connections, within the limit, at every step of serveUDP, serveTCP and
\* serveTCPConn.
THEOREM QuerySem == Spec => []QuerySemExact
<1>1. Init => QuerySemExact
  <2> SUFFICES ASSUME Init PROVE QuerySemExact
    OBVIOUS
  <2>1. HoldUdp = {} /\ HoldConn = {} /\ sem = 0
    BY Zenon DEF Init, HoldUdp, HoldConn
  <2> QED BY <2>1, FS_EmptySet DEF QuerySemExact
<1>2. Shape /\ Shape' /\ QuerySemExact /\ [Next]_vars => QuerySemExact'
  <2>1. ASSUME QuerySemExact, UNCHANGED vars PROVE QuerySemExact'
    BY Zenon, <2>1 DEF vars, udpVars, connVars, QuerySemExact, HoldUdp, HoldConn
  <2> QED BY Zenon, <2>1, SemStep
<1> QED BY <1>1, <1>2, ShapeAlways, PTL DEF Spec
-----------------------------------------------------------------------------
(***************************************************************************)
(* A connection's slots, wait group and writer.                            *)
(***************************************************************************)
Active(c) == {m \in Msg : h[c][m] \in {"run", "lock", "write", "slot", "hdone"}}

\* The slot the reader holds for the query it is about to start.
Holding(c) == IF rd[c] \in {"check", "add"} THEN 1 ELSE 0

\* Slots are held by working queries and the reader, handlers counts the
\* active ones, a connection that has left its wait has none, the holder of
\* writeMu is the one writer, and a broken connection has none.
ConnOK(c) ==
  /\ slots[c] = Cardinality(Working(c)) + Holding(c)
  /\ slots[c] <= InFlight
  /\ handlers[c] = Cardinality(Active(c))
  /\ rd[c] \in {"idle", "release", "wgdone"} => Active(c) = {}
  /\ \A m \in Msg : h[c][m] = "write" <=> writeMu[c] = m
  /\ broken[c] => writeMu[c] = Free

ConnInv ==
  /\ slots \in [Conn -> Int] /\ handlers \in [Conn -> Int]
  /\ \A c \in Conn : ConnOK(c)

\* The sets of a connection's queries are finite.
LEMMA ConnFinite ==
  ASSUME NEW c \in Conn
  PROVE  /\ IsFiniteSet(Working(c)) /\ IsFiniteSet(Active(c))
         /\ Cardinality(Working(c)) \in Nat /\ Cardinality(Active(c)) \in Nat
<1>1. Working(c) \subseteq Msg /\ Active(c) \subseteq Msg
  BY Zenon DEF Working, Active
<1> QED BY Zenon, <1>1, FS_Subset, FS_CardinalityType

\* A connection nothing happens to keeps its part of the invariant.
LEMMA ConnKept ==
  ASSUME NEW d \in Conn, ConnOK(d),
         rd'[d] = rd[d], slots'[d] = slots[d], handlers'[d] = handlers[d], h'[d] = h[d],
         writeMu'[d] = writeMu[d], broken'[d] = broken[d]
  PROVE  ConnOK(d)'
<1>1. Working(d)' = Working(d) /\ Active(d)' = Active(d) /\ Holding(d)' = Holding(d)
  BY Zenon DEF Working, Active, Holding
<1> QED BY Zenon, <1>1 DEF ConnOK

\* What moving query m does to the sets that are counted.
LEMMA Moved ==
  ASSUME Shape, NEW c \in Conn, NEW m \in Msg, NEW v \in HPc, H(c, m, v)
  PROVE  /\ Working(c)' = IF v \in {"run", "lock", "write", "slot"}
                          THEN Working(c) \cup {m} ELSE Working(c) \ {m}
         /\ Active(c)' = IF v \in {"run", "lock", "write", "slot", "hdone"}
                         THEN Active(c) \cup {m} ELSE Active(c) \ {m}
<1>1. h'[c][m] = v /\ \A n \in Msg : n # m => h'[c][n] = h[c][n]
  BY HType DEF Shape
<1> QED BY Zenon, <1>1 DEF Working, Active

\* A pipelined query keeps the invariant of its connection.
LEMMA ConnHandler ==
  ASSUME Shape, ConnInv, NEW c \in Conn, NEW m \in Msg, HandlerStep(c, m)
  PROVE  ConnInv'
<1>0. ConnOK(c) /\ rd' = rd
  BY Zenon DEF ConnInv, HandlerStep, Handle, LockWriter, WriteMsg, WriteFails, LeaveSlot,
      HandlerDone,
         QueryDone
<1>a. PICK v \in HPc : H(c, m, v)
  BY Zenon DEF HandlerStep, Handle, LockWriter, WriteMsg, WriteFails, LeaveSlot, HandlerDone,
         QueryDone, HPc
<1>b. /\ h'[c][m] = v
      /\ \A n \in Msg : n # m => h'[c][n] = h[c][n]
      /\ \A d \in Conn : d # c => h'[d] = h[d]
  BY <1>a, HType DEF Shape
<1>c. ASSUME NEW d \in Conn, d # c PROVE ConnOK(d)'
  <2>1. /\ slots'[d] = slots[d] /\ handlers'[d] = handlers[d]
        /\ writeMu'[d] = writeMu[d] /\ broken'[d] = broken[d]
    BY Zenon, <1>c DEF HandlerStep, Handle, LockWriter, WriteMsg, WriteFails, LeaveSlot,
        HandlerDone,
           QueryDone, Shape, ConnInv
  <2> QED BY Zenon, <1>0, <1>b, <1>c, <2>1, ConnKept DEF ConnInv
<1>d. slots' \in [Conn -> Int] /\ handlers' \in [Conn -> Int]
  BY DEF HandlerStep, Handle, LockWriter, WriteMsg, WriteFails, LeaveSlot, HandlerDone,
         QueryDone, ConnInv
<1>e. Holding(c)' = Holding(c)
  BY Zenon, <1>0 DEF Holding
<1>1. ASSUME Handle(c, m) \/ LockWriter(c, m) \/ WriteMsg(c, m) \/ WriteFails(c, m)
             \/ QueryDone(c, m)
      PROVE  ConnOK(c)'
  <2>1. Working(c)' = Working(c) /\ Active(c)' = Active(c)
    BY <1>1, <1>b DEF Handle, LockWriter, WriteMsg, WriteFails, QueryDone, H, Working, Active, Shape
  <2>2. slots' = slots /\ handlers' = handlers
    BY Zenon, <1>1 DEF Handle, LockWriter, WriteMsg, WriteFails, QueryDone
  <2>3. \A n \in Msg : h'[c][n] = "write" <=> writeMu'[c] = n
    BY <1>1, <1>0, <1>b DEF Handle, LockWriter, WriteMsg, WriteFails, QueryDone, H, Shape, ConnOK
  <2>4. broken'[c] => writeMu'[c] = Free
    BY Zenon, <1>1, <1>0 DEF Handle, LockWriter, WriteMsg, WriteFails, QueryDone, Abandons,
        Shape, ConnOK
  <2> QED BY Zenon, <1>0, <1>e, <2>1, <2>2, <2>3, <2>4 DEF ConnOK
<1>2. ASSUME LeaveSlot(c, m) PROVE ConnOK(c)'
  <2>1. H(c, m, "hdone") /\ m \in Working(c) /\ m \in Active(c) /\ h[c][m] = "slot"
    BY Zenon, <1>2 DEF LeaveSlot, Working, Active
  <2>2. Working(c)' = Working(c) \ {m} /\ Active(c)' = Active(c)
    BY <2>1, Moved DEF HPc
  <2>3. Cardinality(Working(c)') = Cardinality(Working(c)) - 1
    BY Zenon, <2>1, <2>2, ConnFinite, Lose
  <2>4. slots'[c] = slots[c] - 1 /\ UNCHANGED <<handlers, writeMu, broken>>
    BY Zenon, <1>2 DEF LeaveSlot, ConnInv
  <2>5. \A n \in Msg : h'[c][n] = "write" <=> h[c][n] = "write"
    BY Zenon, <1>b, <2>1 DEF H, Shape
  <2> QED
    BY <1>0, <1>e, <2>2, <2>3, <2>4, <2>5, ConnFinite DEF ConnOK, Holding
<1>3. ASSUME HandlerDone(c, m) PROVE ConnOK(c)'
  <2>1. H(c, m, "wgdone") /\ m \notin Working(c) /\ m \in Active(c) /\ h[c][m] = "hdone"
    BY Zenon, <1>3 DEF HandlerDone, Working, Active
  <2>2. Working(c)' = Working(c) /\ Active(c)' = Active(c) \ {m}
    BY <2>1, Moved DEF HPc
  <2>3. Cardinality(Active(c)') = Cardinality(Active(c)) - 1
    BY ZenonT(60), <2>1, <2>2, ConnFinite, Lose
  <2>4. handlers'[c] = handlers[c] - 1 /\ UNCHANGED <<slots, writeMu, broken>>
    BY Zenon, <1>3 DEF HandlerDone, ConnInv
  <2>5. \A n \in Msg : h'[c][n] = "write" <=> h[c][n] = "write"
    BY <1>b, <2>1 DEF H, Shape
  <2> QED
    BY Zenon, <1>0, <1>e, <2>1, <2>2, <2>3, <2>4, <2>5, ConnFinite DEF ConnOK
<1>4. ConnOK(c)'
  BY Zenon, <1>1, <1>2, <1>3 DEF HandlerStep
<1> QED BY Zenon, <1>4, <1>c, <1>d DEF ConnInv

\* A reader keeps the invariant of its connection.
LEMMA ConnReader ==
  ASSUME Shape, Shape', ConnInv, NEW c \in Conn, ReaderStep(c)
  PROVE  ConnInv'
<1>0. ConnOK(c) /\ UNCHANGED <<broken, writeMu>>
  BY Zenon DEF ConnInv, ReaderStep, ConnRead, ConnReadFails, TakeSlot, AwaitSlot, SlotTimeout,
         CheckBroken, Dispatch, CloseConn, AwaitHandlers, ReleaseConn, ConnDone
<1>a. ASSUME NEW d \in Conn, d # c PROVE ConnOK(d)'
  <2>1. rd'[d] = rd[d] /\ slots'[d] = slots[d] /\ handlers'[d] = handlers[d]
    BY <1>a DEF ReaderStep, ConnRead, ConnReadFails, TakeSlot, AwaitSlot, SlotTimeout, CheckBroken,
           Dispatch, CloseConn, AwaitHandlers, ReleaseConn, ConnDone, Rd, Shape, ConnInv
  <2>2. h'[d] = h[d]
    BY Zenon, <1>a DEF ReaderStep, ConnRead, ConnReadFails, TakeSlot, AwaitSlot, SlotTimeout,
        CheckBroken,
           Dispatch, CloseConn, AwaitHandlers, ReleaseConn, ConnDone, Shape
  <2> QED BY Zenon, <1>0, <2>1, <2>2, ConnKept DEF ConnInv
<1>b. slots' \in [Conn -> Int] /\ handlers' \in [Conn -> Int]
  BY DEF ReaderStep, ConnRead, ConnReadFails, TakeSlot, AwaitSlot, SlotTimeout, CheckBroken,
         Dispatch, CloseConn, AwaitHandlers, ReleaseConn, ConnDone, ConnInv
<1>1. ASSUME h' = h PROVE Working(c)' = Working(c) /\ Active(c)' = Active(c)
  BY Zenon, <1>1 DEF Working, Active
<1>2. ASSUME ConnRead(c) \/ ConnReadFails(c) \/ AwaitSlot(c) \/ SlotTimeout(c) \/ CloseConn(c)
             \/ ReleaseConn(c) \/ ConnDone(c)
      PROVE  ConnOK(c)'
  <2>1. /\ UNCHANGED <<slots, handlers, h>>
        /\ rd[c] \notin {"check", "add"} /\ rd'[c] \notin {"check", "add"}
        /\ rd'[c] \in {"idle", "release", "wgdone"} => rd[c] \in {"idle", "release", "wgdone"}
    BY <1>2 DEF ConnRead, ConnReadFails, AwaitSlot, SlotTimeout, CloseConn, ReleaseConn, ConnDone,
                Rd, Shape
  <2> QED BY Zenon, <1>0, <1>1, <2>1 DEF ConnOK, Holding
<1>3. ASSUME AwaitHandlers(c) PROVE ConnOK(c)'
  <2>1. UNCHANGED <<slots, handlers, h>> /\ rd[c] = "join" /\ rd'[c] = "release" /\ handlers[c] = 0
    BY Zenon, <1>3 DEF AwaitHandlers, Joined, Rd, Shape
  <2>2. Active(c) = {}
    BY ZenonT(60), <1>0, <2>1, ConnFinite, FS_EmptySet DEF ConnOK
  <2> QED BY ZenonT(60), <1>0, <1>1, <2>1, <2>2 DEF ConnOK, Holding
<1>4. ASSUME TakeSlot(c) PROVE ConnOK(c)'
  <2>1. /\ UNCHANGED <<handlers, h>> /\ rd[c] \in {"slot", "wait"} /\ rd'[c] = "check"
        /\ slots'[c] = slots[c] + 1 /\ slots[c] < InFlight
    BY Zenon, <1>4 DEF TakeSlot, SlotFree, Rd, Shape, ConnInv
  <2> QED BY <1>0, <1>1, <2>1, ConnFinite DEF ConnOK, Holding, ConnInv
<1>5. ASSUME CheckBroken(c) PROVE ConnOK(c)'
  <2>1. /\ UNCHANGED <<handlers, h>> /\ rd[c] = "check"
        /\ \/ rd'[c] = "close" /\ slots'[c] = slots[c] - 1
           \/ rd'[c] = "add" /\ slots'[c] = slots[c]
    BY Zenon, <1>5 DEF CheckBroken, Rd, Shape, ConnInv
  <2> QED BY <1>0, <1>1, <2>1, ConnFinite DEF ConnOK, Holding, ConnInv
<1>6. ASSUME NEW m \in Msg, Dispatch(c, m) PROVE ConnOK(c)'
  <2>1. /\ H(c, m, "run") /\ h[c][m] = "idle" /\ rd[c] = "add" /\ rd'[c] = "read"
        /\ handlers'[c] = handlers[c] + 1 /\ slots' = slots
    BY Zenon, <1>6 DEF Dispatch, H, Rd, Shape, ConnInv
  <2>2. /\ Working(c)' = Working(c) \cup {m} /\ m \notin Working(c)
        /\ Active(c)' = Active(c) \cup {m} /\ m \notin Active(c)
    <3>1. m \notin Working(c) /\ m \notin Active(c)
      BY Zenon, <2>1 DEF Working, Active
    <3> QED BY Zenon, <2>1, <3>1, Moved DEF HPc
  <2>3. /\ Cardinality(Working(c)') = Cardinality(Working(c)) + 1
        /\ Cardinality(Active(c)') = Cardinality(Active(c)) + 1
    BY ZenonT(60), <2>2, ConnFinite, Gain
  <2>4. \A n \in Msg : h'[c][n] = "write" <=> h[c][n] = "write"
    <3>1. h'[c][m] = "run" /\ \A n \in Msg : n # m => h'[c][n] = h[c][n]
      BY Zenon, <2>1, HType DEF Shape, HPc
    <3> QED BY Zenon, <2>1, <3>1
  <2> QED BY <1>0, <2>1, <2>3, <2>4, ConnFinite DEF ConnOK, Holding
<1>7. ConnOK(c)'
  BY Zenon, <1>2, <1>3, <1>4, <1>5, <1>6 DEF ReaderStep
<1> QED BY Zenon, <1>7, <1>a, <1>b DEF ConnInv

\* Every step keeps the invariant of every connection.
LEMMA ConnStep == Shape /\ Shape' /\ ConnInv /\ [Next]_vars => ConnInv'
<1> SUFFICES ASSUME Shape, Shape', ConnInv, [Next]_vars PROVE ConnInv'
  OBVIOUS
<1>1. ASSUME UNCHANGED connVars PROVE ConnInv'
  <2>1. \A d \in Conn : ConnOK(d)'
    BY Zenon, <1>1, ConnKept DEF ConnInv, connVars
  <2> QED BY Zenon, <1>1, <2>1 DEF ConnInv, connVars
<1>2. ASSUME NEW c \in Conn, TcpSpawn(c) PROVE ConnInv'
  <2>1. /\ rd[c] = "idle" /\ rd'[c] = "read" /\ broken'[c] = FALSE
        /\ UNCHANGED <<slots, handlers, h, writeMu>>
        /\ \A d \in Conn : d # c => rd'[d] = rd[d] /\ broken'[d] = broken[d]
    BY <1>2 DEF TcpSpawn, Rd, Shape
  <2>2. ConnOK(c)'
    <3>1. Working(c)' = Working(c) /\ Active(c)' = Active(c) /\ Holding(c)' = Holding(c)
      BY Zenon, <2>1 DEF Working, Active, Holding
    <3> QED BY Zenon, <2>1, <3>1 DEF ConnOK, ConnInv
  <2>3. ASSUME NEW d \in Conn, d # c PROVE ConnOK(d)'
    BY Zenon, <2>1, <2>3, ConnKept DEF ConnInv
  <2> QED BY Zenon, <2>1, <2>2, <2>3 DEF ConnInv
<1>3. ASSUME LoopStep \/ DrainStep \/ \E q \in Query : UdpSpawn(q) \/ QueryStep(q)
      PROVE  UNCHANGED connVars \/ \E c \in Conn : TcpSpawn(c)
  BY Zenon, <1>3 DEF LoopStep, DrainStep, QueryStep, UdpRead, TcpExit, TcpAccept, Shutdown,
      DrainStart,
              DrainDone, DrainTimeout, UdpSpawn, UdpDrop, UdpAcquire, UdpAnswer, UdpRelease, UdpDone
<1>4. CASE UNCHANGED vars
  BY Zenon, <1>1, <1>4 DEF vars
<1> QED BY Zenon, <1>1, <1>2, <1>3, <1>4, ConnReader, ConnHandler DEF Next

\* The invariant of the connections holds always.
THEOREM ConnAlways == Spec => []ConnInv
<1>1. Init => ConnInv
  <2> SUFFICES ASSUME Init PROVE ConnInv
    OBVIOUS
  <2>1. ASSUME NEW c \in Conn PROVE ConnOK(c)
    <3>1. Working(c) = {} /\ Active(c) = {} /\ Holding(c) = 0
      BY Zenon DEF Init, Working, Active, Holding
    <3> QED BY <3>1, FS_EmptySet DEF Init, ConnOK
  <2> QED BY <2>1 DEF Init, ConnInv
<1> QED BY <1>1, ConnStep, ShapeAlways, PTL DEF Spec

\* A connection has at most maxTCPQueriesInFlight queries at work, and has
\* any only while it holds its slot of querySem.
THEOREM WorkIsAdmitted == Spec => []WorkAdmitted
<1>1. Shape /\ ConnInv => WorkAdmitted
  <2> SUFFICES ASSUME Shape, ConnInv, NEW c \in Conn
               PROVE  /\ Cardinality(Working(c)) <= InFlight
                      /\ Working(c) # {} => c \in HoldConn
    BY Zenon DEF WorkAdmitted
  <2>1. Cardinality(Working(c)) <= InFlight
    BY ConnFinite DEF ConnInv, ConnOK, Holding
  <2>2. Working(c) \subseteq Active(c)
    BY Zenon DEF Working, Active
  <2> QED BY Zenon, <2>1, <2>2 DEF ConnInv, ConnOK, HoldConn
<1> QED BY <1>1, ShapeAlways, ConnAlways, PTL

\* One goroutine writes at a time, and none after a write has failed:
\* writeResponse looks at broken under the lock under which it was set.
THEOREM NoWriteAfter == Spec => []NoWriteAfterFailure
<1>1. Shape /\ ConnInv => NoWriteAfterFailure
  <2> SUFFICES ASSUME Shape, ConnInv, NEW c \in Conn
               PROVE  LET W == {m \in Msg : h[c][m] = "write"}
                      IN  Cardinality(W) <= 1 /\ (broken[c] => W = {})
    BY Zenon DEF NoWriteAfterFailure
  <2> DEFINE W == {m \in Msg : h[c][m] = "write"}
  <2>1. W = {} \/ W = {writeMu[c]}
    BY DEF ConnInv, ConnOK
  <2>2. broken[c] => W = {}
    BY DEF ConnInv, ConnOK
  <2>3. Cardinality(W) <= 1
    <3>1. Cardinality({}) = 0 /\ Cardinality({writeMu[c]}) = 1
      BY Zenon, FS_EmptySet, FS_Singleton
    <3> HIDE DEF W
    <3> QED BY <2>1, <3>1
  <2> QED BY Zenon, <2>2, <2>3
<1> QED BY <1>1, ShapeAlways, ConnAlways, PTL
-----------------------------------------------------------------------------
(***************************************************************************)
(* The service's wait group.                                               *)
(***************************************************************************)
LiveUdp == {q \in Query : udp[q] # "idle"}
LiveConn == {c \in Conn : rd[c] # "idle"}
LiveMsg == {x \in Conn \X Msg : h[x[1]][x[2]] # "idle"}

\* s.wg counts every goroutine that has been started and has not ended.
WgExact == wg = Cardinality(LiveUdp) + Cardinality(LiveConn) + Cardinality(LiveMsg)

\* The goroutines are finitely many.
LEMMA WgFinite ==
  /\ IsFiniteSet(LiveUdp) /\ IsFiniteSet(LiveConn) /\ IsFiniteSet(LiveMsg)
  /\ Cardinality(LiveUdp) \in Nat /\ Cardinality(LiveConn) \in Nat
  /\ Cardinality(LiveMsg) \in Nat
<1>1. LiveUdp \subseteq Query /\ LiveConn \subseteq Conn /\ LiveMsg \subseteq Conn \X Msg
  BY Zenon DEF LiveUdp, LiveConn, LiveMsg
<1>2. IsFiniteSet(Conn \X Msg)
  BY Zenon, FS_Product
<1> QED BY Zenon, <1>1, <1>2, FS_Subset, FS_CardinalityType

\* A step that starts and ends no goroutine keeps the count.
LEMMA WgKept ==
  ASSUME WgExact, wg' = wg, LiveUdp' = LiveUdp, LiveConn' = LiveConn, LiveMsg' = LiveMsg
  PROVE  WgExact'
  BY Zenon DEF WgExact

\* Moving a pipelined query: the set of live ones.
LEMMA MovedLive ==
  ASSUME Shape, NEW c \in Conn, NEW m \in Msg, NEW v \in HPc, H(c, m, v)
  PROVE  LiveMsg' = IF v = "idle" THEN LiveMsg \ {<<c, m>>} ELSE LiveMsg \cup {<<c, m>>}
<1>1. /\ h'[c][m] = v
      /\ \A n \in Msg : n # m => h'[c][n] = h[c][n]
      /\ \A d \in Conn : d # c => h'[d] = h[d]
  BY HType DEF Shape
<1>2. ASSUME NEW d \in Conn, NEW n \in Msg, <<d, n>> # <<c, m>>
      PROVE  h'[d][n] = h[d][n]
  BY Zenon, <1>1, <1>2
<1>3. ASSUME NEW x \in Conn \X Msg, x # <<c, m>> PROVE x \in LiveMsg' <=> x \in LiveMsg
  <2>1. PICK d \in Conn, n \in Msg : x = <<d, n>>
    OBVIOUS
  <2> QED BY Zenon, <1>2, <1>3, <2>1 DEF LiveMsg
<1>4. <<c, m>> \in LiveMsg' <=> v # "idle"
  BY Zenon, <1>1 DEF LiveMsg
<1>5. LiveMsg \subseteq Conn \X Msg /\ LiveMsg' \subseteq Conn \X Msg
  BY Zenon DEF LiveMsg
<1> HIDE DEF LiveMsg
<1> QED BY Zenon, <1>3, <1>4, <1>5

\* The loops and the UDP queries keep the count.
LEMMA WgUdp ==
  ASSUME Shape, WgExact,
         LoopStep \/ DrainStep \/ \E q \in Query : UdpSpawn(q) \/ QueryStep(q)
  PROVE  WgExact'
<1> USE WgFinite
<1>1. ASSUME NEW q \in Query, UdpSpawn(q) PROVE WgExact'
  <2>1. LiveUdp' = LiveUdp \cup {q} /\ q \notin LiveUdp
    BY <1>1 DEF UdpSpawn, Udp, LiveUdp, Shape
  <2>2. LiveConn' = LiveConn /\ LiveMsg' = LiveMsg /\ wg' = wg + 1
    BY Zenon, <1>1 DEF UdpSpawn, LiveConn, LiveMsg, connVars
  <2>3. Cardinality(LiveUdp') = Cardinality(LiveUdp) + 1
    BY Zenon, <2>1, Gain
  <2> QED BY <2>2, <2>3 DEF WgExact
<1>2. ASSUME NEW q \in Query, UdpDone(q) PROVE WgExact'
  <2>1. LiveUdp' = LiveUdp \ {q} /\ q \in LiveUdp
    BY Zenon, <1>2 DEF UdpDone, Udp, LiveUdp, Shape
  <2>2. LiveConn' = LiveConn /\ LiveMsg' = LiveMsg /\ wg' = wg - 1
    BY Zenon, <1>2 DEF UdpDone, LiveConn, LiveMsg, connVars
  <2>3. Cardinality(LiveUdp') = Cardinality(LiveUdp) - 1
    BY Zenon, <2>1, Lose
  <2> QED BY <2>2, <2>3 DEF WgExact
<1>3. ASSUME NEW q \in Query, UdpDrop(q) \/ UdpAcquire(q) \/ UdpAnswer(q) \/ UdpRelease(q)
      PROVE  WgExact'
  <2>1. LiveUdp' = LiveUdp
    BY Zenon, <1>3 DEF UdpDrop, UdpAcquire, UdpAnswer, UdpRelease, Udp, LiveUdp, Shape
  <2>2. LiveConn' = LiveConn /\ LiveMsg' = LiveMsg /\ wg' = wg
    BY Zenon, <1>3 DEF UdpDrop, UdpAcquire, UdpAnswer, UdpRelease, LiveConn, LiveMsg, connVars
  <2> QED BY Zenon, <2>1, <2>2, WgKept
<1>4. ASSUME NEW c \in Conn, TcpSpawn(c) PROVE WgExact'
  <2>1. LiveConn' = LiveConn \cup {c} /\ c \notin LiveConn
    BY <1>4 DEF TcpSpawn, Rd, LiveConn, Shape
  <2>2. LiveUdp' = LiveUdp /\ LiveMsg' = LiveMsg /\ wg' = wg + 1
    BY Zenon, <1>4 DEF TcpSpawn, LiveUdp, LiveMsg, udpVars
  <2>3. Cardinality(LiveConn') = Cardinality(LiveConn) + 1
    BY ZenonT(60), <2>1, Gain
  <2> QED BY <2>2, <2>3 DEF WgExact
<1>5. ASSUME UdpRead \/ TcpExit \/ DrainStep \/ \E c \in Conn : TcpAccept(c) PROVE WgExact'
  <2>1. wg' = wg /\ LiveUdp' = LiveUdp /\ LiveConn' = LiveConn /\ LiveMsg' = LiveMsg
    BY Zenon, <1>5 DEF UdpRead, TcpExit, TcpAccept, DrainStep, Shutdown, DrainStart, DrainDone,
                DrainTimeout, LiveUdp, LiveConn, LiveMsg, udpVars, connVars
  <2> QED BY Zenon, <2>1, WgKept
<1> QED BY Zenon, <1>1, <1>2, <1>3, <1>4, <1>5 DEF LoopStep, QueryStep

\* A connection and its pipelined queries keep the count.
LEMMA WgConn ==
  ASSUME Shape, WgExact, NEW c \in Conn, ReaderStep(c) \/ \E m \in Msg : HandlerStep(c, m)
  PROVE  WgExact'
<1> USE WgFinite
<1>1. ASSUME NEW m \in Msg, Dispatch(c, m) PROVE WgExact'
  <2>1. H(c, m, "run") /\ <<c, m>> \notin LiveMsg /\ wg' = wg + 1
    BY Zenon, <1>1 DEF Dispatch, H, Counted, LiveMsg
  <2>2. LiveMsg' = LiveMsg \cup {<<c, m>>}
    BY Zenon, <2>1, MovedLive DEF HPc
  <2>3. LiveUdp' = LiveUdp /\ LiveConn' = LiveConn
    BY Zenon, <1>1, BusyStep DEF ReaderBusy, Busy, LiveUdp, LiveConn, udpVars
  <2>4. Cardinality(LiveMsg') = Cardinality(LiveMsg) + 1
    BY ZenonT(60), <2>1, <2>2, Gain
  <2> QED BY <2>1, <2>3, <2>4 DEF WgExact
<1>2. ASSUME ReaderBusy(c), ~\E m \in Msg : Dispatch(c, m) PROVE WgExact'
  <2>1. wg' = wg /\ h' = h
    BY Zenon, <1>2 DEF ReaderBusy, ConnRead, ConnReadFails, TakeSlot, AwaitSlot, SlotTimeout,
        CheckBroken,
                CloseConn, AwaitHandlers
  <2>2. LiveUdp' = LiveUdp /\ LiveConn' = LiveConn /\ LiveMsg' = LiveMsg
    BY Zenon, <1>2, <2>1, BusyStep DEF Busy, LiveUdp, LiveConn, LiveMsg, udpVars
  <2> QED BY Zenon, <2>1, <2>2, WgKept
<1>3. ASSUME ReleaseConn(c) PROVE WgExact'
  <2>1. wg' = wg /\ LiveUdp' = LiveUdp /\ LiveConn' = LiveConn /\ LiveMsg' = LiveMsg
    BY Zenon, <1>3 DEF ReleaseConn, Rd, LiveUdp, LiveConn, LiveMsg, udpVars, Shape
  <2> QED BY Zenon, <2>1, WgKept
<1>4. ASSUME ConnDone(c) PROVE WgExact'
  <2>1. LiveConn' = LiveConn \ {c} /\ c \in LiveConn
    BY Zenon, <1>4 DEF ConnDone, Rd, LiveConn, Shape
  <2>2. LiveUdp' = LiveUdp /\ LiveMsg' = LiveMsg /\ wg' = wg - 1
    BY Zenon, <1>4 DEF ConnDone, LiveUdp, LiveMsg, udpVars
  <2>3. Cardinality(LiveConn') = Cardinality(LiveConn) - 1
    BY ZenonT(60), <2>1, Lose
  <2> QED BY <2>2, <2>3 DEF WgExact
<1>5. ASSUME NEW m \in Msg, HandlerStep(c, m) PROVE WgExact'
  <2>1. LiveUdp' = LiveUdp /\ LiveConn' = LiveConn
    BY ZenonT(60), <1>5 DEF HandlerStep, Handle, LockWriter, WriteMsg, WriteFails, LeaveSlot,
        HandlerDone,
                QueryDone, LiveUdp, LiveConn, udpVars
  <2>2. h[c][m] # "idle"
    BY Zenon, <1>5 DEF HandlerStep, Handle, LockWriter, WriteMsg, WriteFails, LeaveSlot,
        HandlerDone,
                QueryDone
  <2>3. <<c, m>> \in LiveMsg
    BY Zenon, <2>2 DEF LiveMsg
  <2>4. CASE QueryDone(c, m)
    <3>1. LiveMsg' = LiveMsg \ {<<c, m>>} /\ wg' = wg - 1
      BY Zenon, <2>4, MovedLive DEF QueryDone, HPc
    <3>2. Cardinality(LiveMsg') = Cardinality(LiveMsg) - 1
      BY Zenon, <2>3, <3>1, Lose
    <3> QED BY <2>1, <3>1, <3>2 DEF WgExact
  <2>5. CASE ~QueryDone(c, m)
    <3>1. wg' = wg /\ \E v \in HPc \ {"idle"} : H(c, m, v)
      BY Zenon, <1>5, <2>5 DEF HandlerStep, Handle, LockWriter, WriteMsg, WriteFails, LeaveSlot,
                        HandlerDone, HPc
    <3>2. LiveMsg' = LiveMsg
      BY <2>3, <3>1, MovedLive
    <3> QED BY Zenon, <2>1, <3>1, <3>2, WgKept
  <2> QED BY Zenon, <2>4, <2>5
<1> QED BY Zenon, <1>1, <1>2, <1>3, <1>4, <1>5 DEF ReaderStep, ReaderBusy

\* s.wg is exact at every step.
THEOREM WgAlways == Spec => []WgExact
<1>1. Init => WgExact
  <2> SUFFICES ASSUME Init PROVE WgExact
    OBVIOUS
  <2>1. LiveUdp = {} /\ LiveConn = {} /\ LiveMsg = {} /\ wg = 0
    BY Zenon DEF Init, LiveUdp, LiveConn, LiveMsg
  <2> QED BY <2>1, FS_EmptySet DEF WgExact
<1>2. Shape /\ WgExact /\ [Next]_vars => WgExact'
  <2>1. ASSUME WgExact, UNCHANGED vars PROVE WgExact'
    <3>1. wg' = wg /\ LiveUdp' = LiveUdp /\ LiveConn' = LiveConn /\ LiveMsg' = LiveMsg
      BY Zenon, <2>1 DEF vars, udpVars, connVars, LiveUdp, LiveConn, LiveMsg
    <3> QED BY Zenon, <2>1, <3>1, WgKept
  <2> QED BY Zenon, <2>1, WgUdp, WgConn DEF Next
<1> QED BY <1>1, <1>2, ShapeAlways, PTL DEF Spec

\* Drain reports completion only when no query goroutine, connection or
\* pipelined query is left.
THEOREM DrainIsComplete == Spec => DrainComplete
<1>1. Shape /\ WgExact /\ [Next]_vars => [drain = "wait" /\ drain' = "done" => Resting]_vars
  <2> SUFFICES ASSUME Shape, WgExact, Next, drain = "wait", drain' = "done" PROVE Resting
    OBVIOUS
  <2>1. drain' = drain \/ DrainStep
    <3>1. ASSUME NEW c \in Conn, NEW m \in Msg, HandlerStep(c, m) PROVE drain' = drain
      BY Zenon, <3>1 DEF HandlerStep, Handle, LockWriter, WriteMsg, WriteFails, LeaveSlot,
          HandlerDone,
                  QueryDone
    <3>2. ASSUME NEW c \in Conn, ReaderStep(c) PROVE drain' = drain
      BY Zenon, <3>2, BusyStep DEF ReaderStep, ReaderBusy, ReleaseConn, ConnDone
    <3>3. ASSUME NEW q \in Query, UdpSpawn(q) \/ QueryStep(q) PROVE drain' = drain
      BY Zenon, <3>3 DEF QueryStep, UdpSpawn, UdpDrop, UdpAcquire, UdpAnswer, UdpRelease, UdpDone
    <3>4. ASSUME LoopStep PROVE drain' = drain
      BY Zenon, <3>4 DEF LoopStep, UdpRead, TcpExit, TcpAccept, TcpSpawn
    <3> QED BY Zenon, <3>1, <3>2, <3>3, <3>4 DEF Next
  <2>5. wg = 0
    BY Zenon, <2>1 DEF DrainStep, Shutdown, DrainStart, DrainDone, DrainTimeout
  <2>2. Cardinality(LiveUdp) = 0 /\ Cardinality(LiveConn) = 0 /\ Cardinality(LiveMsg) = 0
    <3> DEFINE a == Cardinality(LiveUdp)
               b == Cardinality(LiveConn)
               k == Cardinality(LiveMsg)
    <3>1. a + b + k = 0
      BY Zenon, <2>5 DEF WgExact
    <3>2. a \in Nat /\ b \in Nat /\ k \in Nat
      BY Zenon, WgFinite
    <3> HIDE DEF a, b, k
    <3>3. a = 0 /\ b = 0 /\ k = 0
      BY <3>1, <3>2
    <3> QED BY Zenon, <3>3 DEF a, b, k
  <2>3. LiveUdp = {} /\ LiveConn = {} /\ LiveMsg = {}
    BY Zenon, <2>2, WgFinite, FS_EmptySet
  <2>4. ASSUME NEW c \in Conn, NEW m \in Msg PROVE h[c][m] = "idle"
    <3>1. <<c, m>> \in Conn \X Msg
      OBVIOUS
    <3> QED BY <2>3, <3>1 DEF LiveMsg
  <2> QED BY Zenon, <2>3, <2>4 DEF Resting, LiveUdp, LiveConn
<1> QED BY <1>1, ShapeAlways, WgAlways, PTL DEF Spec, DrainComplete

\* Type correctness, the counters included: none of them becomes negative.
THEOREM TypeCorrect == Spec => []TypeOK
<1>1. Shape /\ ConnInv /\ QuerySemExact /\ WgExact => TypeOK
  <2> SUFFICES ASSUME Shape, ConnInv, QuerySemExact, WgExact PROVE TypeOK
    OBVIOUS
  <2>1. sem \in Nat /\ wg \in Nat
    BY Finite, WgFinite DEF QuerySemExact, WgExact
  <2>2. \A c \in Conn : slots[c] \in Nat /\ handlers[c] \in Nat
    BY ConnFinite DEF ConnInv, ConnOK, Holding
  <2>3. slots \in [Conn -> Nat] /\ handlers \in [Conn -> Nat]
    BY Zenon, <2>2 DEF ConnInv
  <2> QED BY Zenon, <2>1, <2>3 DEF Shape, TypeOK, UdpPc, RdPc, Busy, HPc
<1> QED BY <1>1, ShapeAlways, ConnAlways, QuerySem, WgAlways, PTL
==============================================================================
