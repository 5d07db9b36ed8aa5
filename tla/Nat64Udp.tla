------------------------------ MODULE Nat64Udp ------------------------------
(***************************************************************************)
(* NAT64 UDP state of src/nat64/udp.go: the session table, the Binding     *)
(* Information Base (one shared IPv4 socket per client socket), the        *)
(* occupancy counters and the goroutines that race on them.                *)
(*                                                                         *)
(* A Flow is one accepted forwarder request.  It names the gVisor endpoint *)
(* created for it, its *udpSession, the goroutine that sets it up and then *)
(* runs udpForwardLoop, and the *udpBIB that goroutine may create, so a    *)
(* BIB object is named by the flow that created it.                        *)
(***************************************************************************)
EXTENDS Integers, FiniteSets

CONSTANTS
  Flow,          \* forwarder requests (finite in a model)
  Sock,          \* client sockets: bibKey, a Yggdrasil address and port
  Src,           \* Yggdrasil addresses
  SrcOf,         \* the address of a client socket
  Tuple,         \* v4Tuple: IPv4 destinations, address and port
  Addr,          \* IPv4 addresses
  AddrOf,        \* the address of a destination
  Settings,      \* the nat64Settings a reload can install
  AdmitAttempts, \* eviction attempts of one admission (8 in the code)
  Stride,        \* how far the clock moves in one step
  MaxTime,       \* bound on the clock
  MaxFatal,      \* bound on fatal read errors of BIB sockets
  MayStop,       \* the context is cancelled in some behaviours
  Nic,           \* the NIC read loop, the one caller of handleUDPForward
  None

Key == [sock : Sock, dst : Tuple]

FilterMode == {"address-dependent", "address-and-port-dependent",
               "endpoint-independent"}

Setting == [max : Int, perSrc : Int, timeout : Nat, filter : FilterMode]

ASSUME ConstantsOK ==
  /\ SrcOf \in [Sock -> Src] /\ AddrOf \in [Tuple -> Addr]
  /\ Settings \subseteq Setting
  /\ AdmitAttempts \in Nat /\ Stride \in Nat /\ MaxTime \in Nat /\ MaxFatal \in Nat
  /\ MayStop \in BOOLEAN
  /\ Nic \notin Flow /\ None \notin Flow /\ None \notin Key
  /\ IsFiniteSet(Flow) /\ IsFiniteSet(Key)

VARIABLES
  now,         \* wall clock, in units of which a timeout is a few
  settings,    \* s.settings
  pc,          \* control state of every flow's goroutine and of the NIC loop
  nic,         \* locals of handleUDPForward and admitUDPSession
  key,         \* flow.key
  ep,          \* the flow's conn6: its gVisor endpoint
  queued,      \* the endpoint's receive buffer holds a datagram
  bibOf,       \* sess.bib
  seen,        \* sess.lastSeenNs
  sock,        \* bib.uconn
  bibSeen,     \* bib.lastSeenNs
  loop,        \* the BIB's udpReplyLoop is running
  flows,       \* bib.flows
  bibs,        \* s.bibs
  sessions,    \* s.sessions
  udpSessions, \* s.udpSessions
  srcCounts,   \* s.srcCounts, kind srcUDP
  cl,          \* locals of cleanupSessions
  fatal        \* number of fatal socket read errors so far

flowVars == <<key, ep, queued, bibOf, seen>>
bibVars  == <<sock, bibSeen, loop, flows, bibs>>
tabVars  == <<sessions, udpSessions, srcCounts>>
vars == <<now, settings, pc, nic, flowVars, bibVars, tabVars, cl, fatal>>

DeletePc == {"close", "cad", "dec", "rem", "unflow"}
SetupPc  == {"bib", "listen", "register", "replace", "count", "src", "flow"}
FlowPc   == {"free", "read", "write", "done"} \cup SetupPc \cup DeletePc
NicPc    == {"idle", "admit", "create"} \cup DeletePc
CleanPc  == {"idle", "sess", "closeSess", "bib", "closeBib", "cadBib", "stopped"}

FlowOrNone == Flow \cup {None}

NoCall == [key |-> None, max |-> 0, tries |-> 0, victim |-> None]

NoPass == [pc |-> "idle", cutoff |-> 0, todo |-> {}, target |-> None,
           final |-> FALSE]
-----------------------------------------------------------------------------
Init ==
  /\ now = 0
  /\ settings \in Settings
  /\ pc = [a \in Flow \cup {Nic} |-> IF a = Nic THEN "idle" ELSE "free"]
  /\ nic = NoCall
  /\ key = [f \in Flow |-> None]
  /\ ep = [f \in Flow |-> "none"]
  /\ queued = [f \in Flow |-> FALSE]
  /\ bibOf = [f \in Flow |-> None]
  /\ seen = [f \in Flow |-> 0]
  /\ sock = [b \in Flow |-> "none"]
  /\ bibSeen = [b \in Flow |-> 0]
  /\ loop = [b \in Flow |-> FALSE]
  /\ flows = [b \in Flow |-> [t \in Tuple |-> None]]
  /\ bibs = [c \in Sock |-> None]
  /\ sessions = [k \in Key |-> None]
  /\ udpSessions = 0
  /\ srcCounts = [a \in Src |-> 0]
  /\ cl = NoPass
  /\ fatal = 0

Goto(a, l) == pc' = [pc EXCEPT ![a] = l]

\* conn6.Close unregisters the endpoint and drops what it had queued.
CloseEndpoint(f) == /\ ep' = [ep EXCEPT ![f] = "closed"]
                    /\ queued' = [queued EXCEPT ![f] = FALSE]

(***************************************************************************)
(* The NIC read loop.  A datagram of a tuple whose endpoint is registered  *)
(* in the demuxer goes to that endpoint; any other reaches                 *)
(* handleUDPForward, here after parseUDPFlow has accepted it.              *)
(***************************************************************************)
Deliver(k) ==
  /\ pc[Nic] = "idle"
  /\ \E f \in Flow : /\ ep[f] = "open" /\ key[f] = k
                     /\ queued' = [queued EXCEPT ![f] = TRUE]
  /\ UNCHANGED <<now, settings, pc, nic, key, ep, bibOf, seen, bibVars,
                 tabVars, cl, fatal>>

\* A flow over the per-source ceiling is shed without changing any state.
HandleUDPForward(k) ==
  /\ pc[Nic] = "idle"
  /\ \A f \in Flow : ~(ep[f] = "open" /\ key[f] = k)
  /\ settings.perSrc > 0 => srcCounts[SrcOf[k.sock]] < settings.perSrc
  /\ nic' = [NoCall EXCEPT !.key = k, !.max = settings.max]
  /\ Goto(Nic, "admit")
  /\ UNCHANGED <<now, settings, flowVars, bibVars, tabVars, cl, fatal>>

Registered == {f \in Flow : \E k \in Key : sessions[k] = f}

Oldest == {f \in Registered : \A g \in Registered : seen[f] <= seen[g]}

\* One iteration of admitUDPSession's loop, evictOldestIdleUDPSession
\* included; deleteSession then runs on the NIC loop itself.
AdmitUDPSession ==
  /\ pc[Nic] = "admit"
  /\ \/ /\ nic.max <= 0 \/ udpSessions < nic.max
        /\ Goto(Nic, "create") /\ UNCHANGED nic
     \/ /\ nic.max > 0 /\ udpSessions >= nic.max /\ nic.tries < AdmitAttempts
        /\ \/ \E v \in Oldest :
                /\ nic' = [nic EXCEPT !.tries = @ + 1, !.victim = v]
                /\ Goto(Nic, "close")
           \/ /\ Oldest = {}
              /\ nic' = [nic EXCEPT !.tries = @ + 1] /\ UNCHANGED pc
     \/ /\ nic.max > 0 /\ udpSessions >= nic.max /\ nic.tries = AdmitAttempts
        /\ Goto(Nic, "idle") /\ nic' = NoCall
  /\ UNCHANGED <<now, settings, flowVars, bibVars, tabVars, cl, fatal>>

\* req.CreateEndpoint fails, or registers the endpoint, queues the datagram
\* and starts the setup goroutine.
CreateEndpoint ==
  /\ pc[Nic] = "create"
  /\ nic' = NoCall
  /\ \/ /\ Goto(Nic, "idle") /\ UNCHANGED flowVars
     \/ \E f \in Flow :
          /\ pc[f] = "free"
          /\ pc' = [pc EXCEPT ![f] = "bib", ![Nic] = "idle"]
          /\ key' = [key EXCEPT ![f] = nic.key]
          /\ ep' = [ep EXCEPT ![f] = "open"]
          /\ queued' = [queued EXCEPT ![f] = TRUE]
          /\ UNCHANGED <<bibOf, seen>>
  /\ UNCHANGED <<now, settings, bibVars, tabVars, cl, fatal>>
-----------------------------------------------------------------------------
(***************************************************************************)
(* The setup goroutine: getOrCreateBIB, then registration.                 *)
(***************************************************************************)
LoadBIB(f) ==
  /\ pc[f] = "bib"
  /\ LET b == bibs[key[f].sock] IN
       IF b # None THEN /\ bibOf' = [bibOf EXCEPT ![f] = b]
                        /\ Goto(f, "register")
                   ELSE /\ Goto(f, "listen") /\ UNCHANGED bibOf
  /\ UNCHANGED <<now, settings, nic, key, ep, queued, seen, bibVars, tabVars,
                 cl, fatal>>

\* probeRouteSourceIPv4 or listenBIBSocket fails and the flow is dropped.
ListenFails(f) ==
  /\ pc[f] = "listen"
  /\ CloseEndpoint(f)
  /\ Goto(f, "done")
  /\ UNCHANGED <<now, settings, nic, key, bibOf, seen, bibVars,
                 tabVars, cl, fatal>>

\* Mutant of LoadedBIB: Store instead of LoadOrStore.
LoadedNone(f) == None

\* Mutant of LoadedBIB: the port left out of bibKey.
LoadedByAddr(f) ==
  LET same == {c \in Sock : SrcOf[c] = SrcOf[key[f].sock] /\ bibs[c] # None}
  IN  IF same = {} THEN None ELSE bibs[CHOOSE c \in same : TRUE]

\* The entry bibs.LoadOrStore finds.
LoadedBIB(f) == bibs[key[f].sock]

\* bibs.LoadOrStore: the winner keeps its socket and starts udpReplyLoop, the
\* loser closes its surplus socket and adopts the winner's entry.
StoreBIB(f) ==
  /\ pc[f] = "listen"
  /\ Goto(f, "register")
  /\ LET b == LoadedBIB(f) IN
       IF b # None
       THEN /\ bibOf' = [bibOf EXCEPT ![f] = b]
            /\ UNCHANGED bibVars
       ELSE /\ bibOf' = [bibOf EXCEPT ![f] = f]
            /\ sock' = [sock EXCEPT ![f] = "open"]
            /\ bibSeen' = [bibSeen EXCEPT ![f] = now]
            /\ loop' = [loop EXCEPT ![f] = TRUE]
            /\ bibs' = [bibs EXCEPT ![key[f].sock] = f]
            /\ UNCHANGED flows
  /\ UNCHANGED <<now, settings, nic, key, ep, queued, seen, tabVars, cl, fatal>>

\* sessions.LoadOrStore of the new session.
Register(f) ==
  /\ pc[f] = "register"
  /\ seen' = [seen EXCEPT ![f] = now]
  /\ IF sessions[key[f]] = None
     THEN /\ sessions' = [sessions EXCEPT ![key[f]] = f]
          /\ Goto(f, "count")
     ELSE Goto(f, "replace") /\ UNCHANGED sessions
  /\ UNCHANGED <<now, settings, nic, key, ep, queued, bibOf, bibVars,
                 udpSessions, srcCounts, cl, fatal>>

\* The tuple was taken by a stale session: sessions.Store, nothing counted.
Replace(f) ==
  /\ pc[f] = "replace"
  /\ sessions' = [sessions EXCEPT ![key[f]] = f]
  /\ Goto(f, "flow")
  /\ UNCHANGED <<now, settings, nic, flowVars, bibVars, udpSessions,
                 srcCounts, cl, fatal>>

CountSession(f) ==
  /\ pc[f] = "count"
  /\ udpSessions' = udpSessions + 1
  /\ Goto(f, "src")
  /\ UNCHANGED <<now, settings, nic, flowVars, bibVars, sessions, srcCounts,
                 cl, fatal>>

\* srcTracker.add
CountSource(f) ==
  /\ pc[f] = "src"
  /\ srcCounts' = [srcCounts EXCEPT ![SrcOf[key[f].sock]] = @ + 1]
  /\ Goto(f, "flow")
  /\ UNCHANGED <<now, settings, nic, flowVars, bibVars, sessions,
                 udpSessions, cl, fatal>>

\* The v4Tuple a session is stored under in bib.flows.
FlowSlot(f) == key[f].dst

\* bib.flows.Store, bib.touch, then the goroutine becomes udpForwardLoop.
StoreFlow(f) ==
  /\ pc[f] = "flow"
  /\ flows' = [flows EXCEPT ![bibOf[f]][FlowSlot(f)] = f]
  /\ bibSeen' = [bibSeen EXCEPT ![bibOf[f]] = now]
  /\ Goto(f, "read")
  /\ UNCHANGED <<now, settings, nic, flowVars, sock, loop, bibs, tabVars,
                 cl, fatal>>
-----------------------------------------------------------------------------
(***************************************************************************)
(* udpForwardLoop.                                                         *)
(***************************************************************************)
\* Mutant of LoopExit: a read error is retried.
LoopExitSpin == "read"

\* Where udpForwardLoop goes when it returns: its deferred deleteSession.
LoopExit == "close"

ReadDatagram(f) ==
  /\ pc[f] = "read"
  /\ \/ /\ ep[f] = "open" /\ queued[f]
        /\ queued' = [queued EXCEPT ![f] = FALSE]
        /\ seen' = [seen EXCEPT ![f] = now]
        /\ bibSeen' = [bibSeen EXCEPT ![bibOf[f]] = now]
        /\ Goto(f, "write")
     \/ /\ ep[f] = "closed"
        /\ Goto(f, LoopExit)
        /\ UNCHANGED <<queued, seen, bibSeen>>
  /\ UNCHANGED <<now, settings, nic, key, ep, bibOf, sock, loop, flows, bibs,
                 tabVars, cl, fatal>>

\* WriteToUDP: sent or ECONNREFUSED, and the loop goes on; any other error
\* (certain once the BIB socket is closed) ends the loop.
WriteDatagram(f) ==
  /\ pc[f] = "write"
  /\ \/ sock[bibOf[f]] = "open" /\ Goto(f, "read")
     \/ Goto(f, LoopExit)
  /\ UNCHANGED <<now, settings, nic, flowVars, bibVars, tabVars, cl, fatal>>

(***************************************************************************)
(* deleteSession, run by a forward loop for its own session or by the NIC  *)
(* loop for the session it evicts.                                         *)
(***************************************************************************)
Victim(a) == IF a = Nic THEN nic.victim ELSE a

AfterDelete(a) == IF a = Nic THEN "admit" ELSE "done"

DeleteClose(a) ==
  /\ pc[a] = "close"
  /\ CloseEndpoint(Victim(a))
  /\ Goto(a, "cad")
  /\ UNCHANGED <<now, settings, nic, key, bibOf, seen, bibVars,
                 tabVars, cl, fatal>>

\* sessions.CompareAndDelete
DeleteEntry(a) ==
  /\ pc[a] = "cad"
  /\ LET v == Victim(a) IN
       IF sessions[key[v]] = v
       THEN sessions' = [sessions EXCEPT ![key[v]] = None] /\ Goto(a, "dec")
       ELSE Goto(a, AfterDelete(a)) /\ UNCHANGED sessions
  /\ UNCHANGED <<now, settings, nic, flowVars, bibVars, udpSessions,
                 srcCounts, cl, fatal>>

\* Mutant of DeleteCount: the decrement is missing.
DeleteCountLost(a) ==
  /\ pc[a] = "dec" /\ Goto(a, "rem")
  /\ UNCHANGED <<now, settings, nic, flowVars, bibVars, tabVars, cl, fatal>>

DeleteCount(a) ==
  /\ pc[a] = "dec"
  /\ udpSessions' = udpSessions - 1
  /\ Goto(a, "rem")
  /\ UNCHANGED <<now, settings, nic, flowVars, bibVars, sessions, srcCounts,
                 cl, fatal>>

\* srcTracker.remove: nothing happens when the source has no count left.
RemovedSource(s) == IF srcCounts[s] > 0 THEN [srcCounts EXCEPT ![s] = @ - 1]
                                        ELSE srcCounts

DeleteSource(a) ==
  /\ pc[a] = "rem"
  /\ srcCounts' = RemovedSource(SrcOf[key[Victim(a)].sock])
  /\ Goto(a, "unflow")
  /\ UNCHANGED <<now, settings, nic, flowVars, bibVars, sessions,
                 udpSessions, cl, fatal>>

\* Mutant of WithoutFlow: Delete instead of CompareAndDelete.
WithoutAnyFlow(v) == [flows EXCEPT ![bibOf[v]][key[v].dst] = None]

\* bib.flows.CompareAndDelete
WithoutFlow(v) == IF flows[bibOf[v]][key[v].dst] = v
                  THEN [flows EXCEPT ![bibOf[v]][key[v].dst] = None]
                  ELSE flows

DeleteFlow(a) ==
  /\ pc[a] = "unflow"
  /\ flows' = WithoutFlow(Victim(a))
  /\ Goto(a, AfterDelete(a))
  /\ UNCHANGED <<now, settings, nic, flowVars, sock, bibSeen, loop, bibs,
                 tabVars, cl, fatal>>
-----------------------------------------------------------------------------
(***************************************************************************)
(* udpReplyLoop ends on a closed socket, or on a read error that is not    *)
(* ECONNREFUSED and leaves the socket open; either way it removes its map  *)
(* entry.  The datagrams it relays change no state: see demuxUDPReply.     *)
(***************************************************************************)

\* bibs.CompareAndDelete
UnmappedBIB(b) == IF bibs[key[b].sock] = b
                  THEN [bibs EXCEPT ![key[b].sock] = None] ELSE bibs

ReplyLoopExit(b) ==
  /\ loop[b]
  /\ \/ sock[b] = "closed" /\ UNCHANGED fatal
     \/ sock[b] = "open" /\ fatal < MaxFatal /\ fatal' = fatal + 1
  /\ loop' = [loop EXCEPT ![b] = FALSE]
  /\ bibs' = UnmappedBIB(b)
  /\ UNCHANGED <<now, settings, pc, nic, flowVars, sock, bibSeen, flows,
                 tabVars, cl>>

\* The session a datagram from t arriving on b's socket is relayed to.
demuxUDPReply(b, t) ==
  LET same == {flows[b][u] : u \in {v \in Tuple : /\ flows[b][v] # None
                                                  /\ AddrOf[v] = AddrOf[t]}}
  IN  IF flows[b][t] # None THEN {flows[b][t]}
      ELSE IF settings.filter = "address-dependent"
           THEN {f \in same : \A g \in same : seen[g] <= seen[f]}
           ELSE {}
-----------------------------------------------------------------------------
(***************************************************************************)
(* cleanupSessions, UDP part.  A pass ranges over the sessions, then over  *)
(* the BIBs; the stamp is loaded in one step and acted on in a later one.  *)
(* Stamps only grow, so an entry an idle pass leaves alone it may as well  *)
(* visit last.  The shutdown pass (final) treats every entry as idle, can  *)
(* pass by an entry stored later, and is the last.                         *)
(***************************************************************************)
CleanupTick ==
  /\ cl.pc = "idle" /\ settings.timeout > 0
  /\ cl' = [cl EXCEPT !.pc = "sess", !.todo = Key,
                      !.cutoff = now - settings.timeout]
  /\ UNCHANGED <<now, settings, pc, nic, flowVars, bibVars, tabVars, fatal>>

Shutdown ==
  /\ cl.pc = "idle" /\ MayStop
  /\ cl' = [cl EXCEPT !.pc = "sess", !.todo = Key, !.cutoff = MaxTime + 1,
                      !.final = TRUE]
  /\ UNCHANGED <<now, settings, pc, nic, flowVars, bibVars, tabVars, fatal>>

IdleSession(k) == sessions[k] # None /\ seen[sessions[k]] < cl.cutoff

\* Mutant of IdleBIB: the comparison swapped.
BusyBIB(c)     == bibs[c] # None /\ bibSeen[bibs[c]] > cl.cutoff

IdleBIB(c)     == bibs[c] # None /\ bibSeen[bibs[c]] < cl.cutoff

RangeSessions ==
  /\ cl.pc = "sess"
  /\ \/ \E k \in cl.todo :
          /\ IdleSession(k)
          /\ cl' = [cl EXCEPT !.pc = "closeSess", !.target = sessions[k],
                              !.todo = @ \ {k}]
     \/ \E k \in cl.todo :
          cl.final /\ ~IdleSession(k) /\ cl' = [cl EXCEPT !.todo = @ \ {k}]
     \/ /\ \A k \in cl.todo : ~cl.final /\ ~IdleSession(k)
        /\ cl' = [cl EXCEPT !.pc = "bib", !.todo = Sock]
  /\ UNCHANGED <<now, settings, pc, nic, flowVars, bibVars, tabVars, fatal>>

CloseIdleSession ==
  /\ cl.pc = "closeSess"
  /\ CloseEndpoint(cl.target)
  /\ cl' = [cl EXCEPT !.pc = "sess", !.target = None]
  /\ UNCHANGED <<now, settings, pc, nic, key, bibOf, seen, bibVars,
                 tabVars, fatal>>

RangeBIBs ==
  /\ cl.pc = "bib"
  /\ \/ \E c \in cl.todo :
          /\ IdleBIB(c)
          /\ cl' = [cl EXCEPT !.pc = "closeBib", !.target = bibs[c],
                              !.todo = @ \ {c}]
     \/ \E c \in cl.todo :
          cl.final /\ ~IdleBIB(c) /\ cl' = [cl EXCEPT !.todo = @ \ {c}]
     \/ /\ \A c \in cl.todo : ~cl.final /\ ~IdleBIB(c)
        /\ cl' = IF cl.final THEN [NoPass EXCEPT !.pc = "stopped", !.final = TRUE]
                             ELSE NoPass
  /\ UNCHANGED <<now, settings, pc, nic, flowVars, bibVars, tabVars, fatal>>

\* Mutant of CloseIdleBIB: expiry leaves the socket to its sessions.
CloseIdleBIBOpen ==
  /\ cl.pc = "closeBib"
  /\ cl' = IF cl.final THEN [cl EXCEPT !.pc = "bib", !.target = None]
                       ELSE [cl EXCEPT !.pc = "cadBib"]
  /\ UNCHANGED <<now, settings, pc, nic, flowVars, bibVars, tabVars, fatal>>

CloseIdleBIB ==
  /\ cl.pc = "closeBib"
  /\ sock' = [sock EXCEPT ![cl.target] = "closed"]
  /\ cl' = IF cl.final THEN [cl EXCEPT !.pc = "bib", !.target = None]
                       ELSE [cl EXCEPT !.pc = "cadBib"]
  /\ UNCHANGED <<now, settings, pc, nic, flowVars, bibSeen, loop, flows, bibs,
                 tabVars, fatal>>

UnmapIdleBIB ==
  /\ cl.pc = "cadBib"
  /\ bibs' = UnmappedBIB(cl.target)
  /\ cl' = [cl EXCEPT !.pc = "bib", !.target = None]
  /\ UNCHANGED <<now, settings, pc, nic, flowVars, sock, bibSeen, loop, flows,
                 tabVars, fatal>>
-----------------------------------------------------------------------------
Reload(s) ==
  /\ s # settings
  /\ settings' = s
  /\ UNCHANGED <<now, pc, nic, flowVars, bibVars, tabVars, cl, fatal>>

(***************************************************************************)
(* Time passes, but no setup goroutine is suspended for a whole timeout    *)
(* between stamping its session and starting its forward loop.             *)
(***************************************************************************)
Stamped == {f \in Flow : pc[f] \in {"replace", "count", "src", "flow"}}

Advance ==
  /\ now + Stride <= MaxTime
  /\ \A f \in Stamped, s \in Settings :
       s.timeout > 0 => now + Stride - s.timeout <= seen[f]
  /\ now' = now + Stride
  /\ UNCHANGED <<settings, pc, nic, flowVars, bibVars, tabVars, cl, fatal>>

NicStep ==
  \/ \E k \in Key : Deliver(k) \/ HandleUDPForward(k)
  \/ AdmitUDPSession
  \/ CreateEndpoint

SetupStep(f) ==
  \/ LoadBIB(f) \/ ListenFails(f) \/ StoreBIB(f) \/ Register(f) \/ Replace(f)
  \/ CountSession(f) \/ CountSource(f) \/ StoreFlow(f)

ForwardStep(f) == ReadDatagram(f) \/ WriteDatagram(f)

DeleteStep(a) ==
  \/ DeleteClose(a) \/ DeleteEntry(a) \/ DeleteCount(a) \/ DeleteSource(a)
  \/ DeleteFlow(a)

CleanupStep ==
  \/ RangeSessions \/ CloseIdleSession \/ RangeBIBs \/ CloseIdleBIB
  \/ UnmapIdleBIB

Next ==
  \/ NicStep
  \/ \E f \in Flow : SetupStep(f) \/ ForwardStep(f) \/ ReplyLoopExit(f)
  \/ \E a \in Flow \cup {Nic} : DeleteStep(a)
  \/ CleanupTick \/ Shutdown \/ CleanupStep
  \/ \E s \in Settings : Reload(s)
  \/ Advance

Spec == Init /\ [][Next]_vars

(***************************************************************************)
(* Goroutines are scheduled fairly, the ticker keeps firing, and a reply   *)
(* loop blocked on a closed socket wakes up.  Traffic, reloads, shutdown   *)
(* and socket errors are not owed to anyone.                               *)
(***************************************************************************)
Fairness ==
  /\ \A f \in Flow : /\ WF_vars(SetupStep(f))
                     /\ WF_vars(ForwardStep(f))
                     /\ WF_vars(DeleteStep(f))
                     /\ WF_vars(sock[f] = "closed" /\ ReplyLoopExit(f))
  /\ WF_vars(DeleteStep(Nic)) /\ WF_vars(AdmitUDPSession)
  /\ WF_vars(CreateEndpoint)
  /\ WF_vars(CleanupTick) /\ WF_vars(CleanupStep)

FairSpec == Spec /\ Fairness
-----------------------------------------------------------------------------
PcOK  == /\ pc \in [Flow \cup {Nic} -> FlowPc \cup NicPc]
         /\ pc[Nic] \in NicPc
         /\ \A f \in Flow : pc[f] \in FlowPc

NicOK == nic \in [key : Key \cup {None}, max : Int, tries : 0..AdmitAttempts,
                 victim : FlowOrNone]

FlowsOK == /\ key \in [Flow -> Key \cup {None}]
           /\ ep \in [Flow -> {"none", "open", "closed"}]
           /\ queued \in [Flow -> BOOLEAN]
           /\ bibOf \in [Flow -> FlowOrNone]
           /\ seen \in [Flow -> 0..MaxTime]

\* A request has its tuple from the moment the NIC loop handles it.
KeyOK   == /\ \A f \in Flow : pc[f] # "free" => key[f] \in Key
           /\ pc[Nic] # "idle" => nic.key \in Key

BibsOK  == /\ sock \in [Flow -> {"none", "open", "closed"}]
           /\ bibSeen \in [Flow -> 0..MaxTime]
           /\ loop \in [Flow -> BOOLEAN]
           /\ flows \in [Flow -> [Tuple -> FlowOrNone]]
           /\ bibs \in [Sock -> FlowOrNone]

TabsOK  == /\ sessions \in [Key -> FlowOrNone]
           /\ udpSessions \in Int
           /\ srcCounts \in [Src -> Nat]

ClOK    == /\ cl \in [pc : CleanPc, cutoff : Int, todo : SUBSET (Key \cup Sock),
                      target : FlowOrNone, final : BOOLEAN]
           /\ cl.pc \in {"sess", "closeSess"} => cl.todo \subseteq Key
           /\ cl.pc \in {"bib", "closeBib", "cadBib"} => cl.todo \subseteq Sock

\* Every variable holds a value of the type the code gives it.
TypeOK ==
  /\ now \in 0..MaxTime
  /\ settings \in Settings
  /\ fatal \in 0..MaxFatal
  /\ PcOK /\ NicOK /\ FlowsOK /\ KeyOK /\ BibsOK /\ TabsOK /\ ClOK

Serving(b) == sock[b] = "open" /\ loop[b]

Relaying(f) == pc[f] \in {"read", "write"}

(***************************************************************************)
(* A BIB whose socket is open and read is the one bibs maps its client to: *)
(* neither udpReplyLoop's exit nor cleanupSessions, which unmap a BIB some *)
(* time after its socket was closed, ever unmaps a re-created one.         *)
(***************************************************************************)
ServedBIBMapped == \A b \in Flow : Serving(b) => bibs[key[b].sock] = b

(***************************************************************************)
(* Endpoint-independent mapping (getOrCreateBIB, RFC 4787 REQ-1): two      *)
(* flows of one client socket that both relay through a served BIB socket  *)
(* relay through the same one, whatever the creation and expiry races.     *)
(***************************************************************************)
EndpointIndependentMapping ==
  \A f, g \in Flow :
    /\ Relaying(f) /\ Relaying(g) /\ key[f].sock = key[g].sock
    /\ Serving(bibOf[f]) /\ Serving(bibOf[g])
    => bibOf[f] = bibOf[g]

(***************************************************************************)
(* A BIB's flow table never leads to another client's session or to the    *)
(* session of another destination (bib.flows, StoreFlow and deleteSession).*)
(***************************************************************************)
FlowIsolation ==
  \A b \in Flow, t \in Tuple :
    LET f == flows[b][t] IN
      f # None => /\ key[f] # None /\ key[f].dst = t
                  /\ key[b] # None /\ key[f].sock = key[b].sock

\* Nothing deletes a session before its bib.flows.Store: there is no session
\* limit and no shutdown.  An eviction in that window leaves the entry behind,
\* also for the time after a reload that lifts the limit.
NeverSwept == ~cl.final /\ settings.max <= 0

(***************************************************************************)
(* A reply from the destination of a relaying session with an open         *)
(* endpoint is relayed to that very session: udpReplyLoop can neither      *)
(* outrun the demux entry nor be led to a superseded session by it, as     *)
(* long as no session is swept during its set-up.                          *)
(***************************************************************************)
ReplyReachesSession ==
  NeverSwept =>
    \A f \in Flow :
      Relaying(f) /\ ep[f] = "open" => demuxUDPReply(bibOf[f], key[f].dst) = {f}

\* The mapping of a client socket is the BIB bibs leads to while it is served.
Mapped(c) == IF bibs[c] # None /\ Serving(bibs[c]) THEN bibs[c] ELSE None
Through(b) == IF b = None THEN {} ELSE {t \in Tuple : flows[b][t] # None}

NatPort     == [c \in Sock |-> Mapped(c)]
NatSpent    == {b \in Flow : sock[b] # "none"}
NatAdmitted == [c \in Sock |-> Through(Mapped(c))]

NatMap == INSTANCE NatMapping WITH
  Client <- Sock, Port <- Flow, Dest <- Tuple,
  mapping <- NatPort, spent <- NatSpent, admitted <- NatAdmitted

(***************************************************************************)
(* The BIBs of udp.go implement the abstract NAT mapping: whatever creation*)
(* races, expiry and failures do, a client's external port changes only by *)
(* release and a new, unused port, and a new port admits nobody.           *)
(***************************************************************************)
ImplementsNatMapping == NatMap!Spec

Occupied == {k \in Key : sessions[k] # None}

Decrementing == {a \in Flow \cup {Nic} : pc[a] = "dec"}

(***************************************************************************)
(* udpSessions never exceeds the entries of the session table plus the     *)
(* decrements still owed, so a leaked count can never make                 *)
(* admitUDPSession shed flows (or evict) below the configured maximum.     *)
(***************************************************************************)
CountNeverOver ==
  udpSessions <= Cardinality(Occupied) + Cardinality(Decrementing)

Quiescent ==
  /\ \A f \in Flow : pc[f] \in {"free", "read", "write", "done"}
  /\ pc[Nic] \in {"idle", "admit", "create"}

(***************************************************************************)
(* The comment of persource.go: with no insertion or deletion under way    *)
(* the per-source count is not above that source's live sessions.          *)
(***************************************************************************)
SourceCountNotOver ==
  Quiescent =>
    \A s \in Src :
      srcCounts[s] <= Cardinality({k \in Occupied : SrcOf[k.sock] = s})

(***************************************************************************)
(* A registered session whose endpoint was closed (idle expiry, eviction   *)
(* or shutdown) always leaves the session table.                           *)
(***************************************************************************)
ClosedSessionRemoved ==
  \A f \in Flow : (f \in Registered /\ ep[f] = "closed") ~> f \notin Registered

(***************************************************************************)
(* A mapping the client stopped using is given back: the socket of an idle *)
(* BIB is closed, unless traffic refreshes it, the cleaner was stopped or  *)
(* a fatal read error ended its reply loop.                                *)
(***************************************************************************)
IdleMappingReleased ==
  \A b \in Flow :
    (loop[b] /\ bibSeen[b] + settings.timeout < now)
      ~> \/ sock[b] = "closed" \/ ~loop[b]
         \/ bibSeen[b] + settings.timeout >= now \/ cl.final
=============================================================================
