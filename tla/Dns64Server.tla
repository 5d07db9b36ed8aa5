----------------------------- MODULE Dns64Server -----------------------------
(***************************************************************************)
(* The two listeners of src/dns64/server.go: the UDP loop and its query    *)
(* goroutines, the TCP accept loop, and per TCP connection a reader with   *)
(* pipelined query goroutines that share one writer.  Counted here are the *)
(* query semaphore, the per-connection slots and wait group, and the       *)
(* service's wait group that Drain waits on.                               *)
(*                                                                         *)
(* What a query is answered is left to Dns64; source filter and rate limit *)
(* are arbitrary decisions.  Deadlines may pass at any time.               *)
(***************************************************************************)
EXTENDS Integers, FiniteSets

CONSTANTS
  Query,       \* UDP query goroutines
  Conn,        \* TCP connections
  Msg,         \* query goroutines of one connection
  MaxQueries,  \* cap(querySem); 0: no semaphore
  InFlight,    \* maxTCPQueriesInFlight
  Free         \* no holder of a lock, no connection in hand

ASSUME ServerConstants ==
  /\ IsFiniteSet(Query) /\ IsFiniteSet(Conn) /\ IsFiniteSet(Msg)
  /\ MaxQueries \in Nat /\ InFlight \in Nat \ {0}
  /\ Free \notin Conn \cup Msg

VARIABLES
  listening,  \* the sockets are open: the context is not cancelled
  sem,        \* len(querySem), counted even without a limit
  wg,         \* s.wg
  uloop,      \* serveUDP: "read", "add" or "exit"
  tloop,      \* serveTCP: "accept", "exit" or "add" with a connection
  udp,        \* UDP query goroutines
  rd,         \* connection readers
  open,       \* connections not closed
  broken,
  writeMu,    \* holder of a connection's writeMu
  slots,      \* len(slots) of a connection
  handlers,   \* a connection's wait group
  h,          \* pipelined query goroutines
  drain       \* Drain: "no", "wait", "done" or "late"

udpVars == <<uloop, udp>>
connVars == <<rd, open, broken, writeMu, slots, handlers, h>>
vars == <<listening, sem, wg, udpVars, tloop, connVars, drain>>

Init ==
  /\ listening = TRUE
  /\ sem = 0 /\ wg = 0
  /\ uloop = "read" /\ udp = [q \in Query |-> "idle"]
  /\ tloop = [pc |-> "accept", conn |-> Free]
  /\ rd = [c \in Conn |-> "idle"]
  /\ open = [c \in Conn |-> FALSE] /\ broken = [c \in Conn |-> FALSE]
  /\ writeMu = [c \in Conn |-> Free]
  /\ slots = [c \in Conn |-> 0] /\ handlers = [c \in Conn |-> 0]
  /\ h = [c \in Conn |-> [m \in Msg |-> "idle"]]
  /\ drain = "no"

Full == MaxQueries > 0 /\ sem >= MaxQueries
-----------------------------------------------------------------------------
(***************************************************************************)
(* UDP.                                                                    *)
(***************************************************************************)
Udp(q, pc) == udp' = [udp EXCEPT ![q] = pc]

\* A datagram passes the source filter and the rate limit, or the socket is
\* closed.  Denied datagrams leave no trace.
UdpRead ==
  /\ uloop = "read"
  /\ uloop' \in IF listening THEN {"add"} ELSE {"add", "exit"}
  /\ UNCHANGED <<listening, sem, wg, udp, tloop, connVars, drain>>

UdpSpawn(q) ==
  /\ uloop = "add" /\ udp[q] = "idle"
  /\ wg' = wg + 1
  /\ Udp(q, "start")
  /\ uloop' = "read"
  /\ UNCHANGED <<listening, sem, tloop, connVars, drain>>

\* An unparsable query is dropped, one over the limit is shed with SERVFAIL.
UdpDrop(q) ==
  /\ udp[q] = "start"
  /\ Udp(q, "wgdone")
  /\ UNCHANGED <<listening, sem, wg, uloop, tloop, connVars, drain>>

UdpAcquire(q) ==
  /\ udp[q] = "start"
  /\ ~Full
  /\ sem' = sem + 1
  /\ Udp(q, "run")
  /\ UNCHANGED <<listening, wg, uloop, tloop, connVars, drain>>

\* The query is handled and answered, or the answer cannot be packed or sent.
UdpAnswer(q) ==
  /\ udp[q] = "run"
  /\ Udp(q, "release")
  /\ UNCHANGED <<listening, sem, wg, uloop, tloop, connVars, drain>>

\* Mutant of UdpRelease: a missing release.
UdpReleaseNot(q) ==
  /\ udp[q] = "release"
  /\ Udp(q, "wgdone")
  /\ UNCHANGED <<listening, sem, wg, uloop, tloop, connVars, drain>>

UdpRelease(q) ==
  /\ udp[q] = "release"
  /\ sem' = sem - 1
  /\ Udp(q, "wgdone")
  /\ UNCHANGED <<listening, wg, uloop, tloop, connVars, drain>>

UdpDone(q) ==
  /\ udp[q] = "wgdone"
  /\ wg' = wg - 1
  /\ Udp(q, "idle")
  /\ UNCHANGED <<listening, sem, uloop, tloop, connVars, drain>>
-----------------------------------------------------------------------------
(***************************************************************************)
(* TCP: accepting and reading.                                             *)
(***************************************************************************)
Rd(c, pc) == rd' = [rd EXCEPT ![c] = pc]

\* A connection is accepted within the limit; denied and shed ones are
\* closed at once and leave no trace.
TcpAccept(c) ==
  /\ tloop.pc = "accept" /\ rd[c] = "idle"
  /\ ~Full
  /\ sem' = sem + 1
  /\ tloop' = [pc |-> "add", conn |-> c]
  /\ UNCHANGED <<listening, wg, udpVars, connVars, drain>>

TcpExit ==
  /\ tloop.pc = "accept" /\ ~listening
  /\ tloop' = [tloop EXCEPT !.pc = "exit"]
  /\ UNCHANGED <<listening, sem, wg, udpVars, connVars, drain>>

\* The connection's goroutine starts serveTCPConn, with its locals fresh.
TcpSpawn(c) ==
  /\ tloop = [pc |-> "add", conn |-> c]
  /\ wg' = wg + 1
  /\ tloop' = [pc |-> "accept", conn |-> Free]
  /\ Rd(c, "read")
  /\ open' = [open EXCEPT ![c] = TRUE]
  /\ broken' = [broken EXCEPT ![c] = FALSE]
  /\ UNCHANGED <<listening, sem, udpVars, writeMu, slots, handlers, h, drain>>

\* A complete message arrives and is within the rate limit.
ConnRead(c) ==
  /\ rd[c] = "read" /\ open[c]
  /\ Rd(c, "slot")
  /\ UNCHANGED <<listening, sem, wg, udpVars, tloop, open, broken, writeMu, slots, handlers, h, drain>>

\* The read fails (idle deadline, closed by either side), or the message is
\* over the rate limit.
ConnReadFails(c) ==
  /\ rd[c] = "read"
  /\ Rd(c, "close")
  /\ UNCHANGED <<listening, sem, wg, udpVars, tloop, open, broken, writeMu, slots, handlers, h, drain>>

SlotFree(c) == slots[c] < InFlight

TakeSlot(c) ==
  /\ rd[c] \in {"slot", "wait"} /\ SlotFree(c)
  /\ slots' = [slots EXCEPT ![c] = @ + 1]
  /\ Rd(c, "check")
  /\ UNCHANGED <<listening, sem, wg, udpVars, tloop, open, broken, writeMu, handlers, h, drain>>

AwaitSlot(c) ==
  /\ rd[c] = "slot" /\ ~SlotFree(c)
  /\ Rd(c, "wait")
  /\ UNCHANGED <<listening, sem, wg, udpVars, tloop, open, broken, writeMu, slots, handlers, h, drain>>

\* The backpressure timer fires, possibly as a slot becomes free.
SlotTimeout(c) ==
  /\ rd[c] = "wait"
  /\ Rd(c, "close")
  /\ UNCHANGED <<listening, sem, wg, udpVars, tloop, open, broken, writeMu, slots, handlers, h, drain>>

\* Under writeMu: a broken connection gives its slot back and ends.
CheckBroken(c) ==
  /\ rd[c] = "check" /\ writeMu[c] = Free
  /\ slots' = [slots EXCEPT ![c] = IF broken[c] THEN @ - 1 ELSE @]
  /\ Rd(c, IF broken[c] THEN "close" ELSE "add")
  /\ UNCHANGED <<listening, sem, wg, udpVars, tloop, open, broken, writeMu, handlers, h, drain>>

\* s.wg.Add(1) for a pipelined query.
Counted == wg + 1

Dispatch(c, m) ==
  /\ rd[c] = "add" /\ h[c][m] = "idle"
  /\ wg' = Counted
  /\ handlers' = [handlers EXCEPT ![c] = @ + 1]
  /\ h' = [h EXCEPT ![c][m] = "run"]
  /\ Rd(c, "read")
  /\ UNCHANGED <<listening, sem, udpVars, tloop, open, broken, writeMu, slots, drain>>
-----------------------------------------------------------------------------
(***************************************************************************)
(* TCP: the pipelined query goroutines and the shared writer.              *)
(***************************************************************************)
H(c, m, pc) == h' = [h EXCEPT ![c][m] = pc]

Handle(c, m) ==
  /\ h[c][m] = "run"
  /\ H(c, m, "lock")
  /\ UNCHANGED <<listening, sem, wg, udpVars, tloop, rd, open, broken, writeMu, slots, handlers, drain>>

\* Mutant of Abandons: the flag is not looked at again under the lock.
AbandonsNever(c) == FALSE

\* writeResponse gives up on a connection that has failed.
Abandons(c) == broken[c]

LockWriter(c, m) ==
  /\ h[c][m] = "lock" /\ writeMu[c] = Free
  /\ IF Abandons(c)
     THEN H(c, m, "slot") /\ UNCHANGED writeMu
     ELSE H(c, m, "write") /\ writeMu' = [writeMu EXCEPT ![c] = m]
  /\ UNCHANGED <<listening, sem, wg, udpVars, tloop, rd, open, broken, slots, handlers, drain>>

WriteMsg(c, m) ==
  /\ h[c][m] = "write" /\ open[c]
  /\ writeMu' = [writeMu EXCEPT ![c] = Free]
  /\ H(c, m, "slot")
  /\ UNCHANGED <<listening, sem, wg, udpVars, tloop, rd, open, broken, slots, handlers, drain>>

\* Mutant of WriteFails: the mutex is not released on the error path.
WriteFailsHolding(c, m) ==
  /\ h[c][m] = "write"
  /\ broken' = [broken EXCEPT ![c] = TRUE]
  /\ open' = [open EXCEPT ![c] = FALSE]
  /\ H(c, m, "slot")
  /\ UNCHANGED <<listening, sem, wg, udpVars, tloop, rd, writeMu, slots, handlers, drain>>

\* The write fails: the connection is marked broken and closed.
WriteFails(c, m) ==
  /\ h[c][m] = "write"
  /\ broken' = [broken EXCEPT ![c] = TRUE]
  /\ open' = [open EXCEPT ![c] = FALSE]
  /\ writeMu' = [writeMu EXCEPT ![c] = Free]
  /\ H(c, m, "slot")
  /\ UNCHANGED <<listening, sem, wg, udpVars, tloop, rd, slots, handlers, drain>>

\* The deferred calls of a query goroutine, last in first out.
LeaveSlot(c, m) ==
  /\ h[c][m] = "slot"
  /\ slots' = [slots EXCEPT ![c] = @ - 1]
  /\ H(c, m, "hdone")
  /\ UNCHANGED <<listening, sem, wg, udpVars, tloop, rd, open, broken, writeMu, handlers, drain>>

HandlerDone(c, m) ==
  /\ h[c][m] = "hdone"
  /\ handlers' = [handlers EXCEPT ![c] = @ - 1]
  /\ H(c, m, "wgdone")
  /\ UNCHANGED <<listening, sem, wg, udpVars, tloop, rd, open, broken, writeMu, slots, drain>>

QueryDone(c, m) ==
  /\ h[c][m] = "wgdone"
  /\ wg' = wg - 1
  /\ H(c, m, "idle")
  /\ UNCHANGED <<listening, sem, udpVars, tloop, rd, open, broken, writeMu, slots, handlers, drain>>
-----------------------------------------------------------------------------
(***************************************************************************)
(* TCP: the deferred calls of a connection, and shutdown.                  *)
(***************************************************************************)
CloseConn(c) ==
  /\ rd[c] = "close"
  /\ open' = [open EXCEPT ![c] = FALSE]
  /\ Rd(c, "join")
  /\ UNCHANGED <<listening, sem, wg, udpVars, tloop, broken, writeMu, slots, handlers, h, drain>>

Joined(c) == handlers[c] = 0

AwaitHandlers(c) ==
  /\ rd[c] = "join" /\ Joined(c)
  /\ Rd(c, "release")
  /\ UNCHANGED <<listening, sem, wg, udpVars, tloop, open, broken, writeMu, slots, handlers, h, drain>>

ReleaseConn(c) ==
  /\ rd[c] = "release"
  /\ sem' = sem - 1
  /\ Rd(c, "wgdone")
  /\ UNCHANGED <<listening, wg, udpVars, tloop, open, broken, writeMu, slots, handlers, h, drain>>

ConnDone(c) ==
  /\ rd[c] = "wgdone"
  /\ wg' = wg - 1
  /\ Rd(c, "idle")
  /\ UNCHANGED <<listening, sem, udpVars, tloop, open, broken, writeMu, slots, handlers, h, drain>>

\* The context is cancelled: both sockets are closed, connections are not.
Shutdown ==
  /\ listening
  /\ listening' = FALSE
  /\ UNCHANGED <<sem, wg, udpVars, tloop, connVars, drain>>

DrainStart ==
  /\ ~listening /\ drain = "no"
  /\ drain' = "wait"
  /\ UNCHANGED <<listening, sem, wg, udpVars, tloop, connVars>>

DrainDone ==
  /\ drain = "wait" /\ wg = 0
  /\ drain' = "done"
  /\ UNCHANGED <<listening, sem, wg, udpVars, tloop, connVars>>

DrainTimeout ==
  /\ drain = "wait"
  /\ drain' = "late"
  /\ UNCHANGED <<listening, sem, wg, udpVars, tloop, connVars>>

QueryStep(q) == UdpDrop(q) \/ UdpAcquire(q) \/ UdpAnswer(q) \/ UdpRelease(q) \/ UdpDone(q)

HandlerStep(c, m) ==
  \/ Handle(c, m) \/ LockWriter(c, m) \/ WriteMsg(c, m) \/ WriteFails(c, m)
  \/ LeaveSlot(c, m) \/ HandlerDone(c, m) \/ QueryDone(c, m)

ReaderStep(c) ==
  \/ ConnRead(c) \/ ConnReadFails(c) \/ TakeSlot(c) \/ AwaitSlot(c) \/ SlotTimeout(c)
  \/ CheckBroken(c) \/ (\E m \in Msg : Dispatch(c, m))
  \/ CloseConn(c) \/ AwaitHandlers(c) \/ ReleaseConn(c) \/ ConnDone(c)

LoopStep == UdpRead \/ TcpExit \/ \E c \in Conn : TcpAccept(c) \/ TcpSpawn(c)

DrainStep == Shutdown \/ DrainStart \/ DrainDone \/ DrainTimeout

Next ==
  \/ LoopStep \/ DrainStep
  \/ \E q \in Query : UdpSpawn(q) \/ QueryStep(q)
  \/ \E c \in Conn : ReaderStep(c) \/ \E m \in Msg : HandlerStep(c, m)

Spec == Init /\ [][Next]_vars

\* Goroutines run; a lookup, a read and a write end at the latest at their
\* deadline, and a mutex is not withheld from a waiting goroutine for ever.
\* Nothing is assumed of clients or of when shutdown comes.
FairSpec ==
  /\ Spec
  /\ \A q \in Query : WF_vars(QueryStep(q))
  /\ \A c \in Conn :
       /\ WF_vars(ReaderStep(c)) /\ SF_vars(CheckBroken(c))
       /\ WF_vars(TcpSpawn(c))
       /\ \A m \in Msg : WF_vars(HandlerStep(c, m)) /\ SF_vars(LockWriter(c, m))
-----------------------------------------------------------------------------
(***************************************************************************)
(* Properties.                                                             *)
(***************************************************************************)
TypeOK ==
  /\ listening \in BOOLEAN
  /\ sem \in Nat /\ wg \in Nat
  /\ uloop \in {"read", "add", "exit"}
  /\ udp \in [Query -> {"idle", "start", "run", "release", "wgdone"}]
  /\ tloop \in [pc : {"accept", "add", "exit"}, conn : Conn \cup {Free}]
  /\ rd \in [Conn -> {"idle", "read", "slot", "wait", "check", "add", "close", "join", "release",
                      "wgdone"}]
  /\ open \in [Conn -> BOOLEAN] /\ broken \in [Conn -> BOOLEAN]
  /\ writeMu \in [Conn -> Msg \cup {Free}]
  /\ slots \in [Conn -> Nat] /\ handlers \in [Conn -> Nat]
  /\ h \in [Conn -> [Msg -> {"idle", "run", "lock", "write", "slot", "hdone", "wgdone"}]]
  /\ drain \in {"no", "wait", "done", "late"}

\* Holders of the semaphore: query goroutines, connections, and the one
\* connection the accept loop has acquired a slot for.
HoldUdp == {q \in Query : udp[q] \in {"run", "release"}}
HoldConn == {c \in Conn : rd[c] \notin {"idle", "wgdone"} \/ tloop = [pc |-> "add", conn |-> c]}

\* Every slot of querySem is held by exactly one admitted query or
\* connection, and there are never more of them than the configured limit:
\* no path through shedding, failures and shutdown loses or keeps a slot.
QuerySemExact ==
  /\ sem = Cardinality(HoldUdp) + Cardinality(HoldConn)
  /\ MaxQueries > 0 => sem <= MaxQueries

Working(c) == {m \in Msg : h[c][m] \in {"run", "lock", "write", "slot"}}

\* A connection never has more than maxTCPQueriesInFlight queries at work,
\* and works only while it holds its slot of querySem: the limit that
\* admitted the connection bounds all its work, also after it is closed.
WorkAdmitted ==
  \A c \in Conn :
    /\ Cardinality(Working(c)) <= InFlight
    /\ Working(c) # {} => c \in HoldConn

\* After the first failed write no reply is attempted on the connection any
\* more, and at most one goroutine writes at any time.
NoWriteAfterFailure ==
  \A c \in Conn :
    LET W == {m \in Msg : h[c][m] = "write"}
    IN  Cardinality(W) <= 1 /\ (broken[c] => W = {})

Resting ==
  /\ \A q \in Query : udp[q] = "idle"
  /\ \A c \in Conn : rd[c] = "idle" /\ \A m \in Msg : h[c][m] = "idle"

\* Drain returns before its deadline only when every query goroutine,
\* connection and pipelined query that was counted has finished.
DrainComplete == [][drain = "wait" /\ drain' = "done" => Resting]_vars

\* A connection that is closed, by the writer or by its own reader, gives
\* back its slot of querySem: no handler, lock or slot can hold it up.
ClosedConnReleased ==
  \A c \in Conn : (rd[c] # "idle" /\ ~open[c]) ~> (rd[c] = "idle")
=============================================================================
