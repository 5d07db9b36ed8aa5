------------------------------- MODULE Nat64Tcp -------------------------------
(***************************************************************************)
(* NAT64 TCP of src/nat64/tcp.go: admission (per-source ceiling and global *)
(* semaphore), the handshake, the dial, the two copying goroutines of      *)
(* proxyTCP with their half-closes, the idle reaper and the shutdown sweep.*)
(*                                                                         *)
(* A Conn is the *tcpPair of one SYN, with the goroutine that handles it;  *)
(* it may serve another SYN once nothing refers to it.  Leg "a" is the     *)
(* Yggdrasil side, leg "b" the IPv4 side.                                  *)
(***************************************************************************)
EXTENDS Integers, FiniteSets

CONSTANTS
  Conn,      \* proxied connections
  Src,       \* client addresses
  SrcOf,     \* the client of a connection
  Capacity,  \* Nat64MaxTCPConnections: the capacity of tcpSem, 0 for none
  Settings,  \* the nat64Settings a reload can install
  Handlers,  \* handleTCP calls the forwarder runs at once
  MaxTime,   \* bound on the clock
  MayStop,   \* the context is cancelled in some behaviours
  None

Setting == [perSrc : Int, timeout : Int]

ASSUME TcpConstants ==
  /\ SrcOf \in [Conn -> Src]
  /\ Capacity \in Nat /\ Handlers \in Nat \ {0} /\ MaxTime \in Nat
  /\ Settings \subseteq Setting
  /\ MayStop \in BOOLEAN
  /\ None \notin Conn
  /\ IsFiniteSet(Conn)

VARIABLES
  now,
  settings,
  pc,        \* control state of a connection's goroutine
  leg,       \* our end of each leg: "none", "open", "fin" (CloseWrite) or "closed"
  peer,      \* the far end: "live", "eof" (it sent a FIN) or "dead"
  cp,        \* the goroutine that copies to a leg
  lastSeen,  \* pair.lastSeen
  tcpConns,  \* s.tcpConns
  tcpSem,    \* tokens in s.tcpSem
  srcCounts, \* s.srcCounts, kind srcTCP
  cl         \* locals of cleanupSessions and reapIdleTCP

ends  == <<leg, peer, cp>>
slots == <<tcpSem, srcCounts>>
vars == <<now, settings, pc, ends, lastSeen, tcpConns, slots, cl>>

Leg == {"a", "b"}
Other(x) == IF x = "a" THEN "b" ELSE "a"

HandlerPc == {"check", "acquire", "add", "endpoint", "unacquire", "unadd"}
ProxyPc   == {"dial", "track", "proxy", "untrack", "closeB", "closeA", "release",
              "remove"}

NoPass == [pc |-> "idle", cutoff |-> 0, todo |-> {}, target |-> None, final |-> FALSE]

Init ==
  /\ now = 0
  /\ settings \in Settings
  /\ pc = [c \in Conn |-> "none"]
  /\ leg = [c \in Conn |-> [x \in Leg |-> "none"]]
  /\ peer = [c \in Conn |-> [x \in Leg |-> "live"]]
  /\ cp = [c \in Conn |-> [x \in Leg |-> "none"]]
  /\ lastSeen = [c \in Conn |-> 0]
  /\ tcpConns = {}
  /\ tcpSem = 0
  /\ srcCounts = [s \in Src |-> 0]
  /\ cl = NoPass

Goto(c, l) == pc' = [pc EXCEPT ![c] = l]
Open(c, x) == leg[c][x] \in {"open", "fin"}
SetLeg(c, x, v) == leg' = [leg EXCEPT ![c][x] = v]

\* net.Conn.Close, on whichever leg; closing twice is an ignored error.
Close(c, x) == SetLeg(c, x, "closed")
-----------------------------------------------------------------------------
(***************************************************************************)
(* handleTCP, for a SYN whose addresses passed the filters.                *)
(***************************************************************************)
HandleTCP(c) ==
  /\ pc[c] = "none" /\ cl.target # c
  /\ Cardinality({d \in Conn : pc[d] \in HandlerPc}) < Handlers
  /\ Goto(c, "check")
  /\ UNCHANGED <<now, settings, ends, lastSeen, tcpConns, slots, cl>>

\* Mutant of OverSource: the ceiling is ignored.
OverSourceNever(c) == FALSE

OverSource(c) == settings.perSrc > 0 /\ srcCounts[SrcOf[c]] >= settings.perSrc

CheckSource(c) ==
  /\ pc[c] = "check"
  /\ Goto(c, IF OverSource(c) THEN "none" ELSE "acquire")
  /\ UNCHANGED <<now, settings, ends, lastSeen, tcpConns, slots, cl>>

Full == Capacity > 0 /\ tcpSem >= Capacity

TryAcquireTCP(c) ==
  /\ pc[c] = "acquire"
  /\ IF Full
     THEN Goto(c, "none") /\ UNCHANGED tcpSem
     ELSE /\ Goto(c, "add")
          /\ tcpSem' = IF Capacity > 0 THEN tcpSem + 1 ELSE tcpSem
  /\ UNCHANGED <<now, settings, ends, lastSeen, tcpConns, srcCounts, cl>>

AddSource(c) ==
  /\ pc[c] = "add"
  /\ Goto(c, "endpoint")
  /\ srcCounts' = [srcCounts EXCEPT ![SrcOf[c]] = @ + 1]
  /\ UNCHANGED <<now, settings, ends, lastSeen, tcpConns, tcpSem, cl>>

\* The handshake succeeds or fails.
CreateEndpoint(c) ==
  /\ pc[c] = "endpoint"
  /\ \/ Goto(c, "unacquire") /\ UNCHANGED <<leg, peer>>
     \/ /\ Goto(c, "dial")
        /\ SetLeg(c, "a", "open")
        /\ peer' = [peer EXCEPT ![c] = [x \in Leg |-> "live"]]
  /\ UNCHANGED <<now, settings, cp, lastSeen, tcpConns, slots, cl>>

\* releaseTCP blocks on an empty channel.
ReleaseTCP(c, from, to) ==
  /\ pc[c] = from
  /\ Capacity > 0 => tcpSem > 0
  /\ tcpSem' = IF Capacity > 0 THEN tcpSem - 1 ELSE tcpSem
  /\ Goto(c, to)
  /\ UNCHANGED <<now, settings, ends, lastSeen, tcpConns, srcCounts, cl>>

RemoveSource(c, from, to) ==
  /\ pc[c] = from
  /\ srcCounts' = [srcCounts EXCEPT ![SrcOf[c]] = IF @ > 0 THEN @ - 1 ELSE @]
  /\ Goto(c, to)
  /\ UNCHANGED <<now, settings, ends, lastSeen, tcpConns, tcpSem, cl>>

\* Mutant of HandshakeFailed: the source keeps its count.
HandshakeFailedKept(c) == ReleaseTCP(c, "unacquire", "none")

HandshakeFailed(c) ==
  ReleaseTCP(c, "unacquire", "unadd") \/ RemoveSource(c, "unadd", "none")
-----------------------------------------------------------------------------
(***************************************************************************)
(* The connection's goroutine.                                             *)
(***************************************************************************)
Dial(c) ==
  /\ pc[c] = "dial"
  /\ \/ Goto(c, "closeA") /\ UNCHANGED leg
     \/ Goto(c, "track") /\ SetLeg(c, "b", "open")
  /\ UNCHANGED <<now, settings, peer, cp, lastSeen, tcpConns, slots, cl>>

TrackTCP(c) ==
  /\ pc[c] = "track"
  /\ Goto(c, "proxy")
  /\ lastSeen' = [lastSeen EXCEPT ![c] = now]
  /\ tcpConns' = tcpConns \cup {c}
  /\ cp' = [cp EXCEPT ![c] = [x \in Leg |-> "read"]]
  /\ UNCHANGED <<now, settings, leg, peer, slots, cl>>

\* The read and the write of io.Copy, each through activityConn.
CopyRead(c, x) ==
  /\ cp[c][x] = "read" /\ Open(c, Other(x)) /\ peer[c][Other(x)] = "live"
  /\ cp' = [cp EXCEPT ![c][x] = "write"]
  /\ lastSeen' = [lastSeen EXCEPT ![c] = now]
  /\ UNCHANGED <<now, settings, pc, leg, peer, tcpConns, slots, cl>>

CopyWrite(c, x) ==
  /\ cp[c][x] = "write" /\ Open(c, x) /\ peer[c][x] # "dead"
  /\ cp' = [cp EXCEPT ![c][x] = "read"]
  /\ lastSeen' = [lastSeen EXCEPT ![c] = now]
  /\ UNCHANGED <<now, settings, pc, leg, peer, tcpConns, slots, cl>>

\* Mutant of AfterEOF: end of file closes the leg altogether.
AfterEOFClosed(c, x) == "closed"

\* What CloseWrite leaves of a leg.
AfterEOF(c, x) == IF leg[c][x] = "open" THEN "fin" ELSE leg[c][x]

CopyEOF(c, x) ==
  /\ cp[c][x] = "read" /\ Open(c, Other(x)) /\ peer[c][Other(x)] = "eof"
  /\ SetLeg(c, x, AfterEOF(c, x))
  /\ cp' = [cp EXCEPT ![c][x] = "done"]
  /\ UNCHANGED <<now, settings, pc, peer, lastSeen, tcpConns, slots, cl>>

Failed(c, x) == ~Open(c, x) \/ peer[c][x] = "dead"

CopyFails(c, x) ==
  /\ \/ cp[c][x] = "read" /\ Failed(c, Other(x))
     \/ cp[c][x] = "write" /\ Failed(c, x)
  /\ Close(c, x)
  /\ cp' = [cp EXCEPT ![c][x] = "done"]
  /\ UNCHANGED <<now, settings, pc, peer, lastSeen, tcpConns, slots, cl>>

CopiesDone(c) ==
  /\ pc[c] = "proxy" /\ \A x \in Leg : cp[c][x] = "done"
  /\ Goto(c, "untrack")
  /\ UNCHANGED <<now, settings, ends, lastSeen, tcpConns, slots, cl>>

\* The deferred calls, last first.
UntrackTCP(c) ==
  /\ pc[c] = "untrack"
  /\ Goto(c, "closeB")
  /\ tcpConns' = tcpConns \ {c}
  /\ UNCHANGED <<now, settings, ends, lastSeen, slots, cl>>

DeferredClose(c, x, from, to) ==
  /\ pc[c] = from
  /\ Close(c, x)
  /\ Goto(c, to)
  /\ UNCHANGED <<now, settings, peer, cp, lastSeen, tcpConns, slots, cl>>

\* Mutant of Deferred: the semaphore is released after the dial as well.
DeferredTwice(c) ==
  \/ DeferredClose(c, "b", "closeB", "closeA")
  \/ DeferredClose(c, "a", "closeA", "release")
  \/ ReleaseTCP(c, "release", "remove")
  \/ ReleaseTCP(c, "remove", "none")

Deferred(c) ==
  \/ DeferredClose(c, "b", "closeB", "closeA")
  \/ DeferredClose(c, "a", "closeA", "release")
  \/ ReleaseTCP(c, "release", "remove")
  \/ RemoveSource(c, "remove", "none")

\* The far ends: a FIN, or a reset or the end of the keepalive budget.
PeerEnds(c, x) ==
  /\ Open(c, x)
  /\ \/ peer[c][x] = "live" /\ peer' = [peer EXCEPT ![c][x] = "eof"]
     \/ peer[c][x] # "dead" /\ peer' = [peer EXCEPT ![c][x] = "dead"]
  /\ UNCHANGED <<now, settings, pc, leg, cp, lastSeen, tcpConns, slots, cl>>
-----------------------------------------------------------------------------
(***************************************************************************)
(* cleanupSessions: reapIdleTCP on a tick, the sweep on cancellation.      *)
(***************************************************************************)
CleanupTick ==
  /\ cl.pc = "idle" /\ settings.timeout > 0
  /\ cl' = [cl EXCEPT !.pc = "range", !.todo = Conn, !.cutoff = now - settings.timeout]
  /\ UNCHANGED <<now, settings, pc, ends, lastSeen, tcpConns, slots>>

Shutdown ==
  /\ MayStop /\ cl.pc = "idle"
  /\ cl' = [cl EXCEPT !.pc = "range", !.todo = Conn, !.final = TRUE]
  /\ UNCHANGED <<now, settings, pc, ends, lastSeen, tcpConns, slots>>

\* Mutant of Reapable: pairs are reaped while they are active.
ReapableActive(c) == c \in tcpConns /\ (cl.final \/ lastSeen[c] > cl.cutoff)

\* Mutant of Reapable: the sweep closes idle connections only.
ReapableIdle(c) == c \in tcpConns /\ lastSeen[c] < cl.cutoff

Reapable(c) == c \in tcpConns /\ (cl.final \/ lastSeen[c] < cl.cutoff)

\* The sweep passes over a connection that is not tracked when Range gets to
\* it.  In a tick's pass what is not idle now is not idle later.
RangePairs ==
  /\ cl.pc = "range"
  /\ \/ \E c \in cl.todo :
          /\ Reapable(c)
          /\ cl' = [cl EXCEPT !.pc = "closeA", !.target = c, !.todo = @ \ {c}]
     \/ \E c \in cl.todo :
          /\ cl.final /\ c \notin tcpConns
          /\ cl' = [cl EXCEPT !.todo = @ \ {c}]
     \/ /\ \A c \in cl.todo : ~cl.final /\ ~Reapable(c)
        /\ cl' = [NoPass EXCEPT !.pc = IF cl.final THEN "stopped" ELSE "idle",
                                !.final = cl.final]
  /\ UNCHANGED <<now, settings, pc, ends, lastSeen, tcpConns, slots>>

ClosePair ==
  /\ \/ /\ cl.pc = "closeA"
        /\ Close(cl.target, "a")
        /\ cl' = [cl EXCEPT !.pc = "closeB"]
     \/ /\ cl.pc = "closeB"
        /\ Close(cl.target, "b")
        /\ cl' = [cl EXCEPT !.pc = "range", !.target = None]
  /\ UNCHANGED <<now, settings, pc, peer, cp, lastSeen, tcpConns, slots>>

Reload ==
  /\ settings' \in Settings \ {settings}
  /\ UNCHANGED <<now, pc, ends, lastSeen, tcpConns, slots, cl>>

Advance ==
  /\ now < MaxTime
  /\ now' = now + 1
  /\ UNCHANGED <<settings, pc, ends, lastSeen, tcpConns, slots, cl>>

\* The steps of one connection that nothing outside can hold up for good.
Progress(c) ==
  \/ CheckSource(c) \/ TryAcquireTCP(c) \/ AddSource(c) \/ CreateEndpoint(c)
  \/ HandshakeFailed(c) \/ Dial(c) \/ TrackTCP(c)
  \/ CopiesDone(c) \/ UntrackTCP(c) \/ Deferred(c)

CopyEnds(c, x) == CopyEOF(c, x) \/ CopyFails(c, x)

CleanupStep == RangePairs \/ ClosePair

Next ==
  \/ \E c \in Conn :
       \/ HandleTCP(c) \/ Progress(c)
       \/ \E x \in Leg : \/ CopyRead(c, x) \/ CopyWrite(c, x) \/ CopyEnds(c, x)
                         \/ PeerEnds(c, x)
  \/ CleanupTick \/ Shutdown \/ CleanupStep
  \/ Reload \/ Advance

Spec == Init /\ [][Next]_vars

\* Goroutines that can run do run: the handshake and the dial have timeouts,
\* a read or write on a finished or closed connection returns, and the ticker
\* fires.  Peers owe nothing: they may stay silent, or stop reading, for ever.
Fairness ==
  /\ \A c \in Conn : WF_vars(Progress(c)) /\ \A x \in Leg : WF_vars(CopyEnds(c, x))
  /\ WF_vars(CleanupTick) /\ WF_vars(CleanupStep)

FairSpec == Spec /\ Fairness
-----------------------------------------------------------------------------
ConnOK ==
  /\ pc \in [Conn -> {"none"} \cup HandlerPc \cup ProxyPc]
  /\ leg \in [Conn -> [Leg -> {"none", "open", "fin", "closed"}]]
  /\ peer \in [Conn -> [Leg -> {"live", "eof", "dead"}]]
  /\ cp \in [Conn -> [Leg -> {"none", "read", "write", "done"}]]
  /\ lastSeen \in [Conn -> 0..MaxTime]

ClState ==
  [pc : {"idle", "range", "closeA", "closeB", "stopped"}, cutoff : Int,
   todo : SUBSET Conn, target : Conn \cup {None}, final : BOOLEAN]

\* Every variable holds a value of the type the code gives it.
TypeOK ==
  /\ now \in 0..MaxTime /\ settings \in Setting
  /\ ConnOK
  /\ tcpConns \subseteq Conn
  /\ tcpSem \in Nat /\ srcCounts \in [Src -> Nat]
  /\ cl \in ClState

Holding == {"add", "endpoint", "unacquire"} \cup (ProxyPc \ {"remove"})
Counted == {"endpoint", "unacquire", "unadd"} \cup ProxyPc

Holders == {c \in Conn : pc[c] \in Holding}

CountedOf(s) == {c \in Conn : SrcOf[c] = s /\ pc[c] \in Counted}

(***************************************************************************)
(* tcpSem holds exactly one token per connection between tryAcquireTCP and *)
(* releaseTCP, on the failing paths too: none is leaked or returned twice, *)
(* so releaseTCP never blocks.                                             *)
(***************************************************************************)
SlotsExact == Capacity > 0 => tcpSem = Cardinality(Holders)

(***************************************************************************)
(* Nat64MaxTCPConnections bounds the connections being dialled or proxied, *)
(* however many handlers run at once.                                      *)
(***************************************************************************)
ProxiedBounded ==
  Capacity > 0 => Cardinality({c \in Conn : pc[c] \in ProxyPc \ {"remove"}}) <= Capacity

(***************************************************************************)
(* "TCP slots are added synchronously next to tryAcquireTCP and removed at *)
(* every releaseTCP call site": a source's count is the number of its      *)
(* connections between the two.                                            *)
(***************************************************************************)
SourcesExact == \A s \in Src : srcCounts[s] = Cardinality(CountedOf(s))

(***************************************************************************)
(* The per-source ceiling is tested and charged in two steps, so handlers  *)
(* that run at once can pass it together, but never by more than the       *)
(* number of handlers less one.                                            *)
(***************************************************************************)
SourceOvershoot ==
  (\A v \in Settings : v.perSrc > 0) =>
    \A s \in Src : \E v \in Settings : srcCounts[s] <= v.perSrc + Handlers - 1

(***************************************************************************)
(* A connection's goroutine leaves nothing behind: when it is over both    *)
(* legs are closed and the pair is not tracked.                            *)
(***************************************************************************)
NothingLeft ==
  \A c \in Conn : pc[c] \in {"none"} \cup HandlerPc =>
                    c \notin tcpConns /\ \A x \in Leg : ~Open(c, x)

(***************************************************************************)
(* "A clean EOF on one direction half-closes it": while both peers are     *)
(* alive a leg is closed only by the cleaner or after both directions have *)
(* ended, never because one direction has.                                 *)
(***************************************************************************)
HalfClosePreserved ==
  [][\A c \in Conn, x \in Leg :
       Open(c, x) /\ leg'[c][x] = "closed" =>
         \/ pc[c] # "proxy"
         \/ \E y \in Leg : peer[c][y] = "dead" \/ leg[c][y] = "closed"
         \/ cl.target = c]_vars

(***************************************************************************)
(* A connection idle for longer than Nat64TcpTimeout gives up its slots,   *)
(* although its peers neither close nor read: the reaper closes the legs,  *)
(* the copies fail and the deferred calls run.                             *)
(***************************************************************************)
IdleReleased ==
  \A c \in Conn :
    (pc[c] = "proxy" /\ settings.timeout > 0 /\ lastSeen[c] + settings.timeout < now)
      ~> (pc[c] = "none" \/ lastSeen[c] + settings.timeout >= now \/ cl.final)

(***************************************************************************)
(* "Session cleanup closes their connections on ctx cancellation", which   *)
(* Drain relies on: a connection that is tracked when the shutdown sweep   *)
(* has yet to pass it is closed and its goroutine ends, silent peers or    *)
(* not.  (One that is tracked behind the sweep is not: it was being dialled*)
(* when the context was cancelled.)                                        *)
(***************************************************************************)
TrackedSwept ==
  \A c \in Conn : (cl.final /\ c \in cl.todo \cap tcpConns) ~> (pc[c] = "none")
=============================================================================
