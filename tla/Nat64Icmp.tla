------------------------------ MODULE Nat64Icmp ------------------------------
(***************************************************************************)
(* NAT64 ICMP echo sessions (src/nat64/icmp.go and the ICMP part of        *)
(* cleanupSessions): the query table, the slot table that replies are      *)
(* matched against, the identifier allocator and the session count, with   *)
(* the NIC read loop, the reply loop and the cleaner as the three          *)
(* goroutines that share them without a lock.                              *)
(*                                                                         *)
(* A Session is an *icmpSession object; the garbage collector lets an      *)
(* object nobody references be allocated again.                            *)
(***************************************************************************)
EXTENDS Integers, FiniteSets

CONSTANTS
  Query,        \* icmpQueryKey: client, destination, client identifier
  Dst,          \* IPv4 destinations
  DstOf,        \* the destination of a query
  Session,      \* session objects
  IdSpace,      \* number of identifiers (2^16 in the code)
  MaxSessions,  \* maxICMPSessions
  MaxAttempts,  \* maxICMPIDAllocAttempts
  Timeout,      \* icmpSessionTimeout
  MaxTime,      \* bound on the clock
  None

Id   == 0..(IdSpace - 1)
Slot == Dst \X Id

ASSUME IcmpConstants ==
  /\ DstOf \in [Query -> Dst]
  /\ IdSpace \in Nat \ {0}
  /\ MaxSessions \in Nat /\ MaxAttempts \in Nat /\ Timeout \in Nat
  /\ MaxTime \in Nat
  /\ None \notin Session /\ None \notin Query
  /\ IsFiniteSet(Query)

VARIABLES
  now,
  icmpQueries,  \* s.icmpQueries
  icmpSessions, \* s.icmpSessions
  icmpCount,    \* s.icmpCount
  icmpNextID,   \* s.icmpNextID, as far as the truncation to uint16 shows it
  query,        \* the query a session object was made for
  allocID,      \* sess.allocID
  lastSeen,     \* sess.lastSeenNs
  nic,          \* registerICMPSession, on the NIC read loop
  rep,          \* translateICMPv4Reply, on the reply loop
  cl            \* cleanupSessions

tables  == <<icmpQueries, icmpSessions, icmpCount>>
objects == <<query, allocID, lastSeen>>
vars == <<now, tables, icmpNextID, objects, nic, rep, cl>>

NoNic == [pc |-> "idle", q |-> None, sess |-> None, tries |-> 0]
NoRep == [pc |-> "idle", sess |-> None]
NoCl  == [pc |-> "idle", cutoff |-> 0, todo |-> {}, q |-> None, sess |-> None]

Init ==
  /\ now = 0
  /\ icmpQueries = [q \in Query |-> None]
  /\ icmpSessions = [s \in Slot |-> None]
  /\ icmpCount = 0
  /\ icmpNextID \in Id
  /\ query = [o \in Session |-> None]
  /\ allocID = [o \in Session |-> 0]
  /\ lastSeen = [o \in Session |-> 0]
  /\ nic = NoNic
  /\ rep = NoRep
  /\ cl = NoCl
-----------------------------------------------------------------------------
(***************************************************************************)
(* registerICMPSession.  Only the NIC loop adds queries, so a query it did *)
(* not find is still absent when it reads the count.                       *)
(***************************************************************************)
Referenced(o) ==
  \/ \E q \in Query : icmpQueries[q] = o
  \/ \E s \in Slot : icmpSessions[s] = o
  \/ cl.sess = o \/ rep.sess = o

FindQuery(q) ==
  /\ nic.pc = "idle" /\ icmpQueries[q] # None
  /\ nic' = [NoNic EXCEPT !.pc = "refresh", !.sess = icmpQueries[q]]
  /\ UNCHANGED <<now, tables, icmpNextID, objects, rep, cl>>

RefreshSession ==
  /\ nic.pc = "refresh"
  /\ lastSeen' = [lastSeen EXCEPT ![nic.sess] = now]
  /\ nic' = NoNic
  /\ UNCHANGED <<now, tables, icmpNextID, query, allocID, rep, cl>>

\* Mutant of TableFull: one session too many.
TableFullLate == icmpCount > MaxSessions

\* A request that finds the table full is dropped.
TableFull == icmpCount >= MaxSessions

NewSession(q) ==
  /\ nic.pc = "idle" /\ icmpQueries[q] = None /\ ~TableFull
  /\ \E o \in Session :
       /\ ~Referenced(o)
       /\ query' = [query EXCEPT ![o] = q]
       /\ lastSeen' = [lastSeen EXCEPT ![o] = now]
       /\ nic' = [pc |-> "alloc", q |-> q, sess |-> o, tries |-> 0]
  /\ UNCHANGED <<now, tables, icmpNextID, allocID, rep, cl>>

\* Mutant of Usable: a live slot is overwritten.
UsableTaken(d, i) == i # 0

\* The candidates the allocation loop does not skip.
Usable(d, i) == i # 0 /\ icmpSessions[<<d, i>>] = None

NextID == (icmpNextID + 1) % IdSpace

\* One iteration of the allocation loop.
AllocID ==
  /\ nic.pc = "alloc" /\ nic.tries < MaxAttempts
  /\ icmpNextID' = NextID
  /\ LET d == DstOf[nic.q] IN
       IF Usable(d, NextID)
       THEN /\ allocID' = [allocID EXCEPT ![nic.sess] = NextID]
            /\ icmpSessions' = [icmpSessions EXCEPT ![<<d, NextID>>] = nic.sess]
            /\ nic' = [nic EXCEPT !.pc = "publish", !.tries = 0]
       ELSE /\ nic' = [nic EXCEPT !.tries = @ + 1]
            /\ UNCHANGED <<allocID, icmpSessions>>
  /\ UNCHANGED <<now, icmpQueries, icmpCount, query, lastSeen, rep, cl>>

AllocFails ==
  /\ nic.pc = "alloc" /\ nic.tries = MaxAttempts
  /\ nic' = NoNic
  /\ UNCHANGED <<now, tables, icmpNextID, objects, rep, cl>>

PublishQuery ==
  /\ nic.pc = "publish"
  /\ icmpQueries' = [icmpQueries EXCEPT ![nic.q] = nic.sess]
  /\ nic' = [NoNic EXCEPT !.pc = "count"]
  /\ UNCHANGED <<now, icmpSessions, icmpCount, icmpNextID, objects, rep, cl>>

CountSession ==
  /\ nic.pc = "count"
  /\ icmpCount' = icmpCount + 1
  /\ nic' = NoNic
  /\ UNCHANGED <<now, icmpQueries, icmpSessions, icmpNextID, objects, rep, cl>>
-----------------------------------------------------------------------------
(***************************************************************************)
(* The reply loop.  Any host may send any identifier at any time; only a   *)
(* slot in use changes anything.                                           *)
(***************************************************************************)
FindSlot(s) ==
  /\ rep.pc = "idle" /\ cl.pc # "stopped" /\ icmpSessions[s] # None
  /\ rep' = [pc |-> "touch", sess |-> icmpSessions[s]]
  /\ UNCHANGED <<now, tables, icmpNextID, objects, nic, cl>>

\* The session is refreshed and the reply goes to its client.
TranslateReply ==
  /\ rep.pc = "touch"
  /\ lastSeen' = [lastSeen EXCEPT ![rep.sess] = now]
  /\ rep' = NoRep
  /\ UNCHANGED <<now, tables, icmpNextID, query, allocID, nic, cl>>
-----------------------------------------------------------------------------
(***************************************************************************)
(* cleanupSessions.                                                        *)
(***************************************************************************)
CleanupTick ==
  /\ cl.pc = "idle"
  /\ cl' = [cl EXCEPT !.pc = "range", !.cutoff = now - Timeout, !.todo = Query]
  /\ UNCHANGED <<now, tables, icmpNextID, objects, nic, rep>>

\* icmpClosed is set and the raw socket closed: both loops end.
Shutdown ==
  /\ cl.pc = "idle"
  /\ cl' = [cl EXCEPT !.pc = "stopped"]
  /\ UNCHANGED <<now, tables, icmpNextID, objects, nic, rep>>

\* Mutant of Idle: the comparison is the wrong way round.
IdleReversed(q) == icmpQueries[q] # None /\ lastSeen[icmpQueries[q]] > cl.cutoff

Idle(q) == icmpQueries[q] # None /\ lastSeen[icmpQueries[q]] < cl.cutoff

\* An entry the pass leaves alone is never older than the cutoff later on, so
\* it may as well be visited last.
RangeQueries ==
  /\ cl.pc = "range"
  /\ \/ \E q \in cl.todo :
          /\ Idle(q)
          /\ cl' = [cl EXCEPT !.pc = "query", !.q = q, !.sess = icmpQueries[q],
                              !.todo = @ \ {q}]
     \/ /\ \A q \in cl.todo : ~Idle(q)
        /\ cl' = NoCl
  /\ UNCHANGED <<now, tables, icmpNextID, objects, nic, rep>>

\* icmpQueries.CompareAndDelete
DeleteQuery ==
  /\ cl.pc = "query"
  /\ IF icmpQueries[cl.q] = cl.sess
     THEN /\ icmpQueries' = [icmpQueries EXCEPT ![cl.q] = None]
          /\ cl' = [cl EXCEPT !.pc = "slot"]
     ELSE /\ cl' = [cl EXCEPT !.pc = "range", !.q = None, !.sess = None]
          /\ UNCHANGED icmpQueries
  /\ UNCHANGED <<now, icmpSessions, icmpCount, icmpNextID, objects, nic, rep>>

\* Mutant of FreedSlot: the slot of the client's identifier, not of allocID.
FreedOther(o) == <<DstOf[query[o]], icmpNextID>>

FreedSlot(o) == <<DstOf[query[o]], allocID[o]>>

DeleteSlot ==
  /\ cl.pc = "slot"
  /\ icmpSessions' = [icmpSessions EXCEPT ![FreedSlot(cl.sess)] = None]
  /\ cl' = [cl EXCEPT !.pc = "dec"]
  /\ UNCHANGED <<now, icmpQueries, icmpCount, icmpNextID, objects, nic, rep>>

UncountSession ==
  /\ cl.pc = "dec"
  /\ icmpCount' = icmpCount - 1
  /\ cl' = [cl EXCEPT !.pc = "range", !.q = None, !.sess = None]
  /\ UNCHANGED <<now, icmpQueries, icmpSessions, icmpNextID, objects, nic, rep>>
-----------------------------------------------------------------------------
\* Time passes between any two steps.
Advance ==
  /\ now < MaxTime
  /\ now' = now + 1
  /\ UNCHANGED <<tables, icmpNextID, objects, nic, rep, cl>>

NicStep == RefreshSession \/ AllocID \/ AllocFails \/ PublishQuery \/ CountSession

CleanupStep == RangeQueries \/ DeleteQuery \/ DeleteSlot \/ UncountSession

Next ==
  \/ \E q \in Query : FindQuery(q) \/ NewSession(q)
  \/ NicStep
  \/ \E s \in Slot : FindSlot(s)
  \/ TranslateReply
  \/ CleanupTick \/ Shutdown \/ CleanupStep
  \/ Advance

Spec == Init /\ [][Next]_vars

\* The NIC loop and the cleaner are never blocked for good, and the ticker
\* keeps firing; requests, replies and shutdown come as they please.
Fairness == WF_vars(NicStep) /\ WF_vars(CleanupTick) /\ WF_vars(CleanupStep)

FairSpec == Spec /\ Fairness
-----------------------------------------------------------------------------
SessionOrNone == Session \cup {None}

NicState ==
  [pc : {"idle", "refresh", "alloc", "publish", "count"},
   q : Query \cup {None}, sess : SessionOrNone, tries : 0..MaxAttempts]

ClState ==
  [pc : {"idle", "range", "query", "slot", "dec", "stopped"}, cutoff : Int,
   todo : SUBSET Query, q : Query \cup {None}, sess : SessionOrNone]

\* Every variable holds a value of the type the code gives it.
TypeOK ==
  /\ now \in 0..MaxTime
  /\ icmpQueries \in [Query -> SessionOrNone]
  /\ icmpSessions \in [Slot -> SessionOrNone]
  /\ icmpCount \in Int
  /\ icmpNextID \in Id
  /\ query \in [Session -> Query \cup {None}]
  /\ allocID \in [Session -> Id]
  /\ lastSeen \in [Session -> 0..MaxTime]
  /\ nic \in NicState
  /\ rep \in [pc : {"idle", "touch"}, sess : SessionOrNone]
  /\ cl \in ClState

(***************************************************************************)
(* Every published query is backed by the slot of its NAT identifier       *)
(* toward its destination, so the reply to a request that is forwarded     *)
(* finds its way back, and to the client that asked: the allocation,       *)
(* publication and deletion orders of three unsynchronised goroutines.     *)
(***************************************************************************)
QueryHasSlot ==
  \A q \in Query :
    LET o == icmpQueries[q] IN
      o # None => /\ query[o] = q
                  /\ allocID[o] # 0
                  /\ icmpSessions[<<DstOf[q], allocID[o]>>] = o

(***************************************************************************)
(* No slot is leaked: one that leads to a session no query names belongs   *)
(* to the session being published or to the one being deleted.             *)
(***************************************************************************)
NoOrphanSlot ==
  \A s \in Slot :
    LET o == icmpSessions[s] IN
      o # None => \/ icmpQueries[query[o]] = o
                  \/ nic.pc = "publish" /\ nic.sess = o
                  \/ cl.pc = "slot" /\ cl.sess = o

Live == {q \in Query : icmpQueries[q] # None}

(***************************************************************************)
(* maxICMPSessions bounds the published queries at every instant, although *)
(* the count is tested, the session published and the count raised in      *)
(* separate steps of the NIC loop, with the cleaner lowering it meanwhile. *)
(***************************************************************************)
SessionsBounded == Cardinality(Live) <= MaxSessions

(***************************************************************************)
(* The count is exact once the publication and the deletion under way are  *)
(* taken into account.                                                     *)
(***************************************************************************)
CountExact ==
  icmpCount = Cardinality(Live)
                + (IF cl.pc \in {"slot", "dec"} THEN 1 ELSE 0)
                - (IF nic.pc = "count" THEN 1 ELSE 0)

Expired(q) == icmpQueries[q] # None /\ lastSeen[icmpQueries[q]] + Timeout < now

(***************************************************************************)
(* An idle session is removed, unless it is refreshed or the service       *)
(* stops: the 60 s query timeout is enforced.                              *)
(***************************************************************************)
IdleRemoved ==
  \A q \in Query :
    Expired(q) ~> (~Expired(q) \/ cl.pc = "stopped")
=============================================================================
