---------------------------- MODULE IcmpNicProofs ----------------------------
(***************************************************************************)
(* Proofs about Nat64Icmp, for every number of queries, destinations,      *)
(* identifiers and session objects.  The tables are shown consistent       *)
(* (SlotInv) from type correctness (TypeInv), and the count exact and      *)
(* bounded (CountInv) from both.                                           *)
(*                                                                         *)
(* Proofs about Nic, for any number of frames and goroutines, any queue    *)
(* capacity and any back-off: the reader's patience, the spacing of the    *)
(* warnings, the exclusive use of scratch buffers and the references held  *)
(* on frames.                                                              *)
(***************************************************************************)
EXTENDS Nat64Icmp, Nic, FiniteSetTheorems, TLAPS

(***************************************************************************)
(* Nat64Icmp.                                                              *)
(***************************************************************************)

USE IcmpConstants

\* What the labels of the three goroutines say of their local variables.
LocalsOK ==
  /\ nic.pc = "refresh" => nic.sess \in Session
  /\ nic.pc \in {"alloc", "publish"} =>
       nic.sess \in Session /\ nic.q \in Query /\ query[nic.sess] = nic.q
  /\ rep.pc = "touch" => rep.sess \in Session
  /\ cl.pc \in {"query", "slot", "dec"} =>
       cl.sess \in Session /\ cl.q \in Query /\ query[cl.sess] = cl.q

\* Objects of the tables have been initialised.
TablesOK ==
  /\ \A q \in Query : icmpQueries[q] # None => query[icmpQueries[q]] = q
  /\ \A s \in Slot : icmpSessions[s] # None => query[icmpSessions[s]] \in Query

\* The session being registered is not known to the cleaner.
Apart ==
  nic.pc \in {"alloc", "publish"} =>
    cl.sess # nic.sess /\ \A q \in Query : icmpQueries[q] # nic.sess

TypeInv == TypeOK /\ LocalsOK /\ TablesOK /\ Apart

-----------------------------------------------------------------------------
(***************************************************************************)
(* Type correctness, with what each label implies.                         *)
(***************************************************************************)

\* The initial state, with its empty tables, satisfies the type invariant.
LEMMA TypeInit == Init => TypeInv
<1> SUFFICES ASSUME Init PROVE TypeInv
  OBVIOUS
<1>1. TypeOK
  BY DEF Init, TypeOK, NoNic, NoRep, NoCl, SessionOrNone, Id, Slot, NicState, ClState
<1>2. LocalsOK /\ TablesOK /\ Apart
  BY Zenon DEF Init, LocalsOK, TablesOK, Apart, NoNic, NoRep, NoCl
<1> QED
  BY Zenon, <1>1, <1>2 DEF TypeInv

\* Every step of the three goroutines keeps the type invariant.
LEMMA TypeStep == TypeInv /\ [Next]_vars => TypeInv'
<1> SUFFICES ASSUME TypeInv, [Next]_vars PROVE TypeInv'
  OBVIOUS
<1> USE DEF TypeInv
<1>1. ASSUME NEW q \in Query, FindQuery(q) PROVE TypeInv'
  <2>1. nic' = [pc |-> "refresh", q |-> None, sess |-> icmpQueries[q], tries |-> 0]
    BY Zenon, <1>1 DEF FindQuery, NoNic
  <2> QED
    BY <1>1, <2>1 DEF FindQuery, TypeOK, LocalsOK, TablesOK, Apart, NoNic, tables, objects,
        SessionOrNone, NicState, ClState
<1>2. ASSUME NEW q \in Query, NewSession(q) PROVE TypeInv'
  <2> PICK o \in Session :
        /\ ~Referenced(o)
        /\ query' = [query EXCEPT ![o] = q]
        /\ lastSeen' = [lastSeen EXCEPT ![o] = now]
        /\ nic' = [pc |-> "alloc", q |-> q, sess |-> o, tries |-> 0]
    BY Zenon, <1>2 DEF NewSession
  <2>1. TypeOK'
    BY <1>2 DEF NewSession, TypeOK, tables, SessionOrNone, NicState, ClState
  <2>2. LocalsOK' /\ TablesOK' /\ Apart'
    BY <1>2 DEF NewSession, TypeOK, LocalsOK, TablesOK, Apart, tables, Referenced, SessionOrNone,
        NicState, ClState
  <2> QED
    BY Zenon, <2>1, <2>2
<1>3. CASE RefreshSession
  BY <1>3 DEF RefreshSession, TypeOK, LocalsOK, TablesOK, Apart, NoNic, tables, SessionOrNone,
      NicState, ClState
<1>4. CASE AllocID
  <2> DEFINE d == DstOf[nic.q]
  <2>1. NextID \in Id /\ d \in Dst
    BY <1>4 DEF AllocID, NextID, TypeOK, LocalsOK, Id
  <2>2. <<d, NextID>> \in Slot
    BY Zenon, <2>1 DEF Slot
  <2>3. TypeOK'
    <3>1. \/ nic' = [pc |-> "publish", q |-> nic.q, sess |-> nic.sess, tries |-> 0]
          \/ nic' = [pc |-> nic.pc, q |-> nic.q, sess |-> nic.sess, tries |-> nic.tries + 1]
      BY Zenon, <1>4 DEF AllocID, TypeOK, NicState
    <3>3. nic' \in NicState
      BY <1>4, <3>1 DEF AllocID, TypeOK, NicState
    <3>2. allocID' \in [Session -> Id] /\ icmpSessions' \in [Slot -> SessionOrNone]
      BY <1>4, <2>1, <2>2 DEF AllocID, TypeOK, LocalsOK, SessionOrNone, NicState, ClState
    <3> QED
      BY Zenon, <1>4, <2>1, <3>2, <3>3 DEF AllocID, TypeOK
  <2>4. LocalsOK' /\ TablesOK' /\ Apart'
    BY ZenonT(60), <1>4, <2>2 DEF AllocID, TypeOK, LocalsOK, TablesOK, Apart, SessionOrNone,
        NicState, ClState
  <2> QED
    BY Zenon, <2>3, <2>4
<1>5. CASE AllocFails
  BY <1>5 DEF AllocFails, TypeOK, LocalsOK, TablesOK, Apart, NoNic, tables, objects,
      SessionOrNone, NicState, ClState
<1>6. CASE PublishQuery
  BY <1>6 DEF PublishQuery, TypeOK, LocalsOK, TablesOK, Apart, NoNic, objects, SessionOrNone,
      NicState, ClState
<1>7. CASE CountSession
  BY <1>7 DEF CountSession, TypeOK, LocalsOK, TablesOK, Apart, NoNic, objects, SessionOrNone,
      NicState, ClState
<1>8. ASSUME NEW s \in Slot, FindSlot(s) PROVE TypeInv'
  BY <1>8 DEF FindSlot, TypeOK, LocalsOK, TablesOK, Apart, tables, objects, SessionOrNone,
      NicState, ClState
<1>9. CASE TranslateReply
  BY <1>9 DEF TranslateReply, TypeOK, LocalsOK, TablesOK, Apart, NoRep, tables, SessionOrNone,
      NicState, ClState
<1>10. CASE CleanupTick \/ Shutdown
  <2>1. \/ cl' = [pc |-> "range", cutoff |-> now - Timeout, todo |-> Query,
                  q |-> cl.q, sess |-> cl.sess]
        \/ cl' = [pc |-> "stopped", cutoff |-> cl.cutoff, todo |-> cl.todo,
                  q |-> cl.q, sess |-> cl.sess]
    BY ZenonT(60), <1>10 DEF CleanupTick, Shutdown, TypeOK, ClState
  <2>2. UNCHANGED <<now, tables, icmpNextID, objects, nic, rep>>
    BY Zenon, <1>10 DEF CleanupTick, Shutdown
  <2>3. TypeOK'
    BY <2>1, <2>2 DEF TypeOK, tables, objects, SessionOrNone, NicState, ClState
  <2>4. LocalsOK' /\ TablesOK' /\ Apart'
    BY <2>1, <2>2 DEF TypeOK, LocalsOK, TablesOK, Apart, tables, objects
  <2> QED
    BY Zenon, <2>3, <2>4
<1>11. CASE RangeQueries
  <2>1. /\ UNCHANGED <<now, tables, icmpNextID, objects, nic, rep>>
        /\ cl.pc = "range"
    BY Zenon, <1>11 DEF RangeQueries
  <2>2. CASE cl' = NoCl
    <3>1. TypeOK'
      BY <2>1, <2>2 DEF TypeOK, NoCl, tables, objects, SessionOrNone, NicState, ClState
    <3>2. LocalsOK' /\ TablesOK' /\ Apart'
      BY Zenon, <2>1, <2>2 DEF TypeOK, LocalsOK, TablesOK, Apart, NoCl, tables, objects
    <3> QED
      BY Zenon, <3>1, <3>2
  <2>3. CASE cl' # NoCl
    <3> PICK q \in cl.todo :
          /\ Idle(q)
          /\ cl' = [cl EXCEPT !.pc = "query", !.q = q, !.sess = icmpQueries[q],
                              !.todo = @ \ {q}]
      BY Zenon, <1>11, <2>3 DEF RangeQueries
    <3>1. /\ q \in Query /\ icmpQueries[q] \in Session
          /\ cl' = [pc |-> "query", cutoff |-> cl.cutoff, todo |-> cl.todo \ {q},
                    q |-> q, sess |-> icmpQueries[q]]
      BY Zenon DEF TypeOK, Idle, SessionOrNone, ClState
    <3>2. TypeOK'
      BY <2>1, <3>1 DEF TypeOK, tables, objects, SessionOrNone, NicState, ClState
    <3>3. LocalsOK' /\ TablesOK' /\ Apart'
      BY <2>1, <3>1 DEF TypeOK, LocalsOK, TablesOK, Apart, tables, objects
    <3> QED
      BY Zenon, <3>2, <3>3
  <2> QED
    BY Zenon, <2>2, <2>3
<1>12. CASE DeleteQuery
  <2>1. \/ cl' = [pc |-> "slot", cutoff |-> cl.cutoff, todo |-> cl.todo,
                  q |-> cl.q, sess |-> cl.sess]
        \/ cl' = [pc |-> "range", cutoff |-> cl.cutoff, todo |-> cl.todo,
                  q |-> None, sess |-> None]
    BY ZenonT(60), <1>12 DEF DeleteQuery, TypeOK, ClState
  <2> QED
    BY <1>12, <2>1 DEF DeleteQuery, TypeOK, LocalsOK, TablesOK, Apart, objects, SessionOrNone,
        NicState, ClState
<1>13. CASE DeleteSlot
  <2>1. cl' = [pc |-> "dec", cutoff |-> cl.cutoff, todo |-> cl.todo,
               q |-> cl.q, sess |-> cl.sess]
    BY Zenon, <1>13 DEF DeleteSlot, TypeOK, ClState
  <2> QED
    BY ZenonT(60), <1>13, <2>1 DEF DeleteSlot, TypeOK, LocalsOK, TablesOK, Apart, objects,
       SessionOrNone, NicState, ClState
<1>14. CASE UncountSession
  <2>1. cl' = [pc |-> "range", cutoff |-> cl.cutoff, todo |-> cl.todo,
               q |-> None, sess |-> None]
    BY Zenon, <1>14 DEF UncountSession, TypeOK, ClState
  <2> QED
    BY <1>14, <2>1 DEF UncountSession, TypeOK, LocalsOK, TablesOK, Apart, objects, SessionOrNone,
        NicState, ClState
<1>15. CASE Advance
  BY <1>15 DEF Advance, TypeOK, LocalsOK, TablesOK, Apart, tables, objects
<1>16. CASE UNCHANGED vars
  BY Zenon, <1>16 DEF vars, TypeOK, LocalsOK, TablesOK, Apart, tables, objects
<1> QED
  BY Zenon, <1>1, <1>2, <1>3, <1>4, <1>5, <1>6, <1>7, <1>8, <1>9, <1>10, <1>11, <1>12,
     <1>13, <1>14, <1>15, <1>16 DEF Next, NicStep, CleanupStep

\* Type correctness: every variable of the ICMP tables and of the three
\* goroutines keeps the type the code gives it, identifiers included.
THEOREM TypeCorrect == Spec => []TypeOK
<1>1. TypeInv => TypeOK
  BY Zenon DEF TypeInv
<1> QED
  BY <1>1, TypeInit, TypeStep, PTL DEF Spec

-----------------------------------------------------------------------------
(***************************************************************************)
(* The two tables agree.  QueryHasSlot and NoOrphanSlot are not inductive: *)
(* every slot must be the one its session was given (no two slots lead to  *)
(* one session), and the session being published or deleted must own its   *)
(* slot while no query names it.                                           *)
(***************************************************************************)
SlotOwned ==
  \A s \in Slot :
    LET o == icmpSessions[s] IN
      o # None => /\ s = FreedSlot(o)
                  /\ \/ icmpQueries[query[o]] = o
                     \/ nic.pc = "publish" /\ nic.sess = o
                     \/ cl.pc = "slot" /\ cl.sess = o

Registering ==
  /\ nic.pc \in {"alloc", "publish"} => icmpQueries[nic.q] = None
  /\ nic.pc = "alloc" => \A s \in Slot : icmpSessions[s] # nic.sess
  /\ nic.pc = "publish" => /\ allocID[nic.sess] # 0
                           /\ icmpSessions[FreedSlot(nic.sess)] = nic.sess

Deleting ==
  cl.pc = "slot" => /\ icmpSessions[FreedSlot(cl.sess)] = cl.sess
                    /\ \A q \in Query : icmpQueries[q] # cl.sess

SlotInv == QueryHasSlot /\ SlotOwned /\ Registering /\ Deleting

tableVars == <<icmpQueries, icmpSessions, query, allocID>>

\* The session objects' slots are slots, and the tables hold sessions.
LEMMA SlotFacts ==
  ASSUME TypeInv
  PROVE  /\ \A q \in Query : icmpQueries[q] # None => icmpQueries[q] \in Session
         /\ \A s \in Slot : icmpSessions[s] # None => icmpSessions[s] \in Session
         /\ \A o \in Session : query[o] \in Query => FreedSlot(o) \in Slot
         /\ \A o \in Session : query[o] \in Query =>
                FreedSlot(o)[1] = DstOf[query[o]] /\ FreedSlot(o)[2] = allocID[o]
  BY Zenon DEF TypeInv, TypeOK, SessionOrNone, FreedSlot, Slot

\* Initially both tables are empty.
LEMMA SlotInit == Init => SlotInv
  BY DEF Init, SlotInv, QueryHasSlot, SlotOwned, Registering, Deleting, NoNic, NoCl

\* Steps that leave the tables alone, and neither begin nor end a publication
\* or a deletion, keep them consistent.
LEMMA SlotKept ==
  ASSUME SlotInv, UNCHANGED tableVars,
         nic' = nic \/ (nic.pc \notin {"alloc", "publish"}
                         /\ nic'.pc \notin {"alloc", "publish"})
                    \/ (nic.pc = "alloc" /\ nic'.pc \notin {"alloc", "publish"}),
         cl' = cl \/ (cl.pc # "slot" /\ cl'.pc # "slot")
  PROVE  SlotInv'
  BY DEF SlotInv, QueryHasSlot, SlotOwned, Registering, Deleting, FreedSlot, tableVars

\* A new session is not referenced, so it changes no slot's owner.
LEMMA SlotNew ==
  ASSUME TypeInv, SlotInv, NEW q \in Query, NewSession(q)
  PROVE  SlotInv'
<1> PICK o \in Session :
      /\ ~Referenced(o)
      /\ query' = [query EXCEPT ![o] = q]
      /\ nic' = [pc |-> "alloc", q |-> q, sess |-> o, tries |-> 0]
  BY ZenonT(60) DEF NewSession
<1>1. /\ \A p \in Query : icmpQueries[p] # o
      /\ \A s \in Slot : icmpSessions[s] # o
      /\ cl.sess # o /\ nic.pc = "idle" /\ icmpQueries[q] = None
      /\ UNCHANGED <<icmpQueries, icmpSessions, allocID, cl>>
  BY Zenon DEF Referenced, NewSession, tables
<1>2. \A x \in Session : x # o => query'[x] = query[x] /\ FreedSlot(x)' = FreedSlot(x)
  BY Zenon, <1>1 DEF TypeInv, TypeOK, FreedSlot
<1>3. QueryHasSlot'
  BY <1>1, <1>2, SlotFacts DEF SlotInv, QueryHasSlot
<1>4. SlotOwned'
  BY <1>1, <1>2, SlotFacts DEF SlotInv, SlotOwned
<1>5. Registering'
  BY Zenon, <1>1 DEF Registering
<1>6. Deleting'
  BY Zenon, <1>1, <1>2 DEF SlotInv, Deleting, TypeInv, LocalsOK
<1> QED
  BY Zenon, <1>3, <1>4, <1>5, <1>6 DEF SlotInv

\* The allocated slot was free, so the session it is given to is its owner.
LEMMA SlotAlloc ==
  ASSUME TypeInv, SlotInv, AllocID
  PROVE  SlotInv'
<1> DEFINE d == DstOf[nic.q]
           o == nic.sess
           n == <<d, NextID>>
<1>1. /\ nic.pc = "alloc" /\ o \in Session /\ query[o] = nic.q /\ nic.q \in Query
      /\ UNCHANGED <<icmpQueries, query, cl>>
      /\ \A s \in Slot : icmpSessions[s] # o
      /\ \A q \in Query : icmpQueries[q] # o
      /\ icmpQueries[nic.q] = None /\ cl.sess # o
  BY Zenon DEF AllocID, TypeInv, LocalsOK, Apart, SlotInv, Registering
<1>2. CASE ~Usable(d, NextID)
  <2>1. UNCHANGED <<allocID, icmpSessions>> /\ nic' = [nic EXCEPT !.tries = @ + 1]
    BY Zenon, <1>2 DEF AllocID
  <2>2. nic'.pc = nic.pc /\ nic'.sess = nic.sess /\ nic'.q = nic.q
    BY Zenon, <2>1 DEF TypeInv, TypeOK, NicState
  <2> QED
    BY <1>1, <2>1, <2>2 DEF SlotInv, QueryHasSlot, SlotOwned, Registering, Deleting, FreedSlot
<1>3. CASE Usable(d, NextID)
  <2>1. /\ NextID # 0 /\ icmpSessions[n] = None /\ n \in Slot
        /\ allocID' = [allocID EXCEPT ![o] = NextID]
        /\ icmpSessions' = [icmpSessions EXCEPT ![n] = o]
        /\ nic'.pc = "publish" /\ nic'.sess = o /\ nic'.q = nic.q
    <3>1. NextID \in Id /\ d \in Dst
      BY <1>1 DEF TypeInv, TypeOK, NextID, Id
    <3>2. n \in Slot
      BY Zenon, <3>1 DEF Slot
    <3>3. nic' = [nic EXCEPT !.pc = "publish", !.tries = 0]
      BY Zenon, <1>3 DEF AllocID
    <3>4. nic'.pc = "publish" /\ nic'.sess = o /\ nic'.q = nic.q
      BY Zenon, <3>3 DEF TypeInv, TypeOK, NicState
    <3> QED
      BY Zenon, <1>3, <3>2, <3>4 DEF AllocID, Usable
  <2>2. /\ \A x \in Session : x # o => FreedSlot(x)' = FreedSlot(x) /\ allocID'[x] = allocID[x]
        /\ FreedSlot(o)' = n /\ allocID'[o] = NextID
        /\ icmpSessions'[n] = o
        /\ \A s \in Slot : s # n => icmpSessions'[s] = icmpSessions[s]
    BY Zenon, <1>1, <2>1 DEF FreedSlot, TypeInv, TypeOK, NextID, Id
  <2>3. QueryHasSlot'
    <3> SUFFICES ASSUME NEW q \in Query, icmpQueries'[q] # None
                 PROVE  /\ query'[icmpQueries'[q]] = q /\ allocID'[icmpQueries'[q]] # 0
                        /\ icmpSessions'[<<DstOf[q], allocID'[icmpQueries'[q]]>>] = icmpQueries'[q]
      BY Zenon DEF QueryHasSlot
    <3> DEFINE x == icmpQueries[q]
    <3>1. /\ x \in Session /\ x # o /\ query[x] = q /\ allocID[x] # 0
          /\ icmpSessions[<<DstOf[q], allocID[x]>>] = x
          /\ <<DstOf[q], allocID[x]>> \in Slot
      BY Zenon, <1>1, SlotFacts DEF SlotInv, QueryHasSlot, TypeInv, TypeOK, Slot
    <3> QED
      BY <1>1, <2>1, <2>2, <3>1
  <2>4. SlotOwned'
    <3>1. ASSUME NEW s \in Slot, s # n, icmpSessions'[s] # None
          PROVE  /\ s = FreedSlot(icmpSessions[s])'
                 /\ \/ icmpQueries[query[icmpSessions[s]]] = icmpSessions[s]
                    \/ cl.pc = "slot" /\ cl.sess = icmpSessions[s]
      <4>1. icmpSessions'[s] = icmpSessions[s] /\ icmpSessions[s] \in Session \ {o}
        BY Zenon, <1>1, <2>2, <3>1, SlotFacts
      <4>2. FreedSlot(icmpSessions[s])' = FreedSlot(icmpSessions[s])
        BY Zenon, <2>2, <4>1
      <4> QED BY Zenon, <1>1, <3>1, <4>1, <4>2 DEF SlotInv, SlotOwned
    <3> QED BY <1>1, <2>1, <2>2, <3>1 DEF SlotOwned
  <2>5. Registering'
    BY Zenon, <1>1, <2>1, <2>2 DEF Registering
  <2>6. Deleting'
    <3> SUFFICES ASSUME cl.pc = "slot" PROVE icmpSessions'[FreedSlot(cl.sess)'] = cl.sess
      BY Zenon, <1>1 DEF Deleting, SlotInv
    <3>1. cl.sess \in Session /\ query[cl.sess] \in Query
      BY Zenon DEF TypeInv, LocalsOK
    <3>2. FreedSlot(cl.sess) \in Slot /\ icmpSessions[FreedSlot(cl.sess)] = cl.sess
      BY Zenon, <3>1, SlotFacts DEF SlotInv, Deleting
    <3> QED
      BY <1>1, <2>1, <2>2, <3>1, <3>2
  <2> QED
    BY Zenon, <2>3, <2>4, <2>5, <2>6 DEF SlotInv
<1> QED
  BY Zenon, <1>2, <1>3

\* Publication names a session that owns its slot.
LEMMA SlotPublish ==
  ASSUME TypeInv, SlotInv, PublishQuery
  PROVE  SlotInv'
<1>1. /\ nic.pc = "publish" /\ nic'.pc = "count"
      /\ nic.sess \in Session /\ nic.q \in Query /\ query[nic.sess] = nic.q
      /\ icmpQueries' = [icmpQueries EXCEPT ![nic.q] = nic.sess]
      /\ UNCHANGED <<icmpSessions, query, allocID, cl>>
      /\ icmpQueries[nic.q] = None /\ cl.sess # nic.sess
      /\ allocID[nic.sess] # 0 /\ icmpSessions[FreedSlot(nic.sess)] = nic.sess
  BY Zenon DEF PublishQuery, NoNic, TypeInv, LocalsOK, Apart, SlotInv, Registering, objects
<1>2. /\ icmpQueries'[nic.q] = nic.sess
      /\ \A q \in Query : q # nic.q => icmpQueries'[q] = icmpQueries[q]
  BY Zenon, <1>1 DEF TypeInv, TypeOK
<1>3. QueryHasSlot'
  BY <1>1, <1>2 DEF SlotInv, QueryHasSlot, FreedSlot
<1>4. SlotOwned'
  <2> SUFFICES ASSUME NEW s \in Slot, icmpSessions[s] # None
               PROVE  /\ s = FreedSlot(icmpSessions[s])
                      /\ \/ icmpQueries'[query[icmpSessions[s]]] = icmpSessions[s]
                         \/ cl.pc = "slot" /\ cl.sess = icmpSessions[s]
    BY Zenon, <1>1 DEF SlotOwned, FreedSlot
  <2> DEFINE o == icmpSessions[s]
  <2>1. o \in Session /\ query[o] \in Query /\ s = FreedSlot(o)
    BY Zenon, SlotFacts DEF TypeInv, TablesOK, SlotInv, SlotOwned
  <2>2. \/ icmpQueries[query[o]] = o \/ nic.sess = o
        \/ cl.pc = "slot" /\ cl.sess = o
    BY Zenon DEF SlotInv, SlotOwned
  <2>3. None \notin Session
    OBVIOUS
  <2> QED
    BY Zenon, <1>1, <1>2, <2>1, <2>2, <2>3
<1>5. Registering' /\ Deleting'
  BY Zenon, <1>1, <1>2 DEF SlotInv, Registering, Deleting, FreedSlot
<1> QED
  BY Zenon, <1>3, <1>4, <1>5 DEF SlotInv

\* Deletion takes the query first and the slot second.
LEMMA SlotDelete ==
  ASSUME TypeInv, SlotInv, DeleteQuery \/ DeleteSlot
  PROVE  SlotInv'
<1>1. /\ cl.sess \in Session /\ cl.q \in Query /\ query[cl.sess] = cl.q
      /\ nic.pc \in {"alloc", "publish"} => cl.sess # nic.sess
      /\ UNCHANGED <<query, allocID, nic>>
  BY Zenon DEF DeleteQuery, DeleteSlot, TypeInv, LocalsOK, Apart, objects
<1>2. CASE DeleteQuery /\ icmpQueries[cl.q] # cl.sess
  <2>1. UNCHANGED <<icmpQueries, icmpSessions>> /\ cl.pc = "query" /\ cl'.pc = "range"
    BY Zenon, <1>2 DEF DeleteQuery, TypeInv, TypeOK, ClState
  <2> QED
    BY Zenon, <1>1, <2>1 DEF SlotInv, QueryHasSlot, SlotOwned, Registering, Deleting, FreedSlot
<1>3. CASE DeleteQuery /\ icmpQueries[cl.q] = cl.sess
  <2>1. /\ icmpQueries' = [icmpQueries EXCEPT ![cl.q] = None]
        /\ cl.pc = "query" /\ cl'.pc = "slot" /\ cl'.sess = cl.sess /\ cl'.q = cl.q
        /\ UNCHANGED icmpSessions
    BY <1>3 DEF DeleteQuery, TypeInv, TypeOK, ClState
  <2>2. /\ icmpQueries'[cl.q] = None
        /\ \A q \in Query : q # cl.q => icmpQueries'[q] = icmpQueries[q]
    BY Zenon, <1>1, <2>1 DEF TypeInv, TypeOK
  <2>3. QueryHasSlot'
    BY Zenon, <1>1, <2>1, <2>2 DEF SlotInv, QueryHasSlot
  <2>4. SlotOwned'
    <3> SUFFICES ASSUME NEW s \in Slot, icmpSessions[s] # None
                 PROVE  /\ s = FreedSlot(icmpSessions[s])
                        /\ \/ icmpQueries'[query[icmpSessions[s]]] = icmpSessions[s]
                           \/ nic.pc = "publish" /\ nic.sess = icmpSessions[s]
                           \/ cl.sess = icmpSessions[s]
      BY Zenon, <1>1, <2>1 DEF SlotOwned, FreedSlot
    <3>1. query[icmpSessions[s]] \in Query /\ s = FreedSlot(icmpSessions[s])
      BY Zenon DEF TypeInv, TablesOK, SlotInv, SlotOwned
    <3>2. \/ icmpQueries[query[icmpSessions[s]]] = icmpSessions[s]
          \/ nic.pc = "publish" /\ nic.sess = icmpSessions[s]
      BY Zenon, <2>1 DEF SlotInv, SlotOwned
    <3> QED
      BY Zenon, <1>3, <2>2, <3>1, <3>2
  <2>5. Registering'
    BY Zenon, <1>1, <2>1, <2>2 DEF SlotInv, Registering, FreedSlot, TypeInv, LocalsOK
  <2>6. Deleting'
    <3>1. icmpSessions[FreedSlot(cl.sess)] = cl.sess
      <4>1. cl.sess # None
        BY Zenon, <1>1
      <4>2. icmpSessions[<<DstOf[cl.q], allocID[cl.sess]>>] = cl.sess
        BY Zenon, <1>1, <1>3, <4>1 DEF SlotInv, QueryHasSlot
      <4> QED
        BY Zenon, <1>1, <4>2 DEF FreedSlot
    <3>2. ASSUME NEW q \in Query, icmpQueries'[q] = cl.sess PROVE FALSE
      <4>1. cl.sess # None
        BY Zenon, <1>1
      <4>2. q # cl.q /\ icmpQueries[q] = cl.sess
        BY Zenon, <1>1, <2>2, <3>2, <4>1
      <4>3. query[icmpQueries[q]] = q
        BY Zenon, <4>1, <4>2 DEF SlotInv, QueryHasSlot
      <4> QED
        BY Zenon, <1>1, <4>2, <4>3
    <3> QED
      BY Zenon, <1>1, <2>1, <3>1, <3>2 DEF Deleting, FreedSlot
  <2> QED
    BY Zenon, <2>3, <2>4, <2>5, <2>6 DEF SlotInv
<1>4. CASE DeleteSlot
  <2> DEFINE d == FreedSlot(cl.sess)
  <2>1. /\ icmpSessions' = [icmpSessions EXCEPT ![d] = None]
        /\ cl.pc = "slot" /\ cl'.pc = "dec" /\ d \in Slot
        /\ UNCHANGED icmpQueries
        /\ icmpSessions[d] = cl.sess
        /\ \A q \in Query : icmpQueries[q] # cl.sess
    BY Zenon, <1>1, <1>4, SlotFacts DEF DeleteSlot, TypeInv, TypeOK, ClState, SlotInv, Deleting
  <2>2. /\ icmpSessions'[d] = None
        /\ \A s \in Slot : s # d => icmpSessions'[s] = icmpSessions[s]
    BY Zenon, <2>1 DEF TypeInv, TypeOK
  <2>3. QueryHasSlot'
    <3> SUFFICES ASSUME NEW q \in Query, icmpQueries[q] # None
                 PROVE  /\ query[icmpQueries[q]] = q /\ allocID[icmpQueries[q]] # 0
                        /\ icmpSessions'[<<DstOf[q], allocID[icmpQueries[q]]>>] = icmpQueries[q]
      BY Zenon, <1>1, <2>1 DEF QueryHasSlot
    <3> DEFINE x == icmpQueries[q]
    <3>1. /\ x \in Session /\ query[x] = q /\ allocID[x] # 0
          /\ icmpSessions[<<DstOf[q], allocID[x]>>] = x
          /\ <<DstOf[q], allocID[x]>> \in Slot
      BY Zenon, SlotFacts DEF SlotInv, QueryHasSlot, TypeInv, TypeOK, Slot
    <3> QED
      BY Zenon, <2>1, <2>2, <3>1
  <2>4. SlotOwned'
    <3> SUFFICES ASSUME NEW s \in Slot, icmpSessions'[s] # None
                 PROVE  /\ s = FreedSlot(icmpSessions'[s])
                        /\ \/ icmpQueries[query[icmpSessions'[s]]] = icmpSessions'[s]
                           \/ nic.pc = "publish" /\ nic.sess = icmpSessions'[s]
      BY Zenon, <1>1, <2>1 DEF SlotOwned, FreedSlot
    <3>1. s # d /\ icmpSessions'[s] = icmpSessions[s]
      BY Zenon, <2>1, <2>2
    <3>2. icmpSessions[s] # cl.sess
      BY Zenon, <3>1 DEF SlotInv, SlotOwned
    <3> QED
      BY Zenon, <3>1, <3>2 DEF SlotInv, SlotOwned
  <2>5. Registering'
    <3>1. nic.pc = "publish" => FreedSlot(nic.sess) \in Slot
      BY Zenon, SlotFacts DEF TypeInv, LocalsOK
    <3> QED
      BY Zenon, <1>1, <2>1, <2>2, <3>1 DEF SlotInv, Registering, FreedSlot, TypeInv, LocalsOK
  <2> QED
    BY Zenon, <2>1, <2>3, <2>4, <2>5 DEF SlotInv, Deleting
<1> QED
  BY Zenon, <1>2, <1>3, <1>4

\* Ticks, shutdown and the pass over the queries change the cleaner only.
LEMMA CleanerMoves ==
  ASSUME TypeInv, CleanupTick \/ Shutdown \/ RangeQueries
  PROVE  /\ cl.pc \notin {"slot", "dec"} /\ cl'.pc \notin {"slot", "dec"}
         /\ UNCHANGED <<tables, icmpNextID, objects, nic, rep>>
<1>1. CASE CleanupTick
  BY Zenon, <1>1 DEF CleanupTick, TypeInv, TypeOK, ClState
<1>2. CASE Shutdown
  BY Zenon, <1>2 DEF Shutdown, TypeInv, TypeOK, ClState
<1>3. CASE RangeQueries
  <2>1. cl.pc = "range" /\ UNCHANGED <<tables, icmpNextID, objects, nic, rep>>
    BY Zenon, <1>3 DEF RangeQueries
  <2>2. ASSUME NEW q \in cl.todo,
               cl' = [cl EXCEPT !.pc = "query", !.q = q, !.sess = icmpQueries[q],
                                !.todo = @ \ {q}]
        PROVE  cl'.pc = "query"
    BY Zenon, <2>2 DEF TypeInv, TypeOK, ClState
  <2>3. CASE cl' = NoCl
    BY Zenon, <2>1, <2>3 DEF NoCl
  <2> QED
    BY ZenonT(60), <1>3, <2>1, <2>2, <2>3 DEF RangeQueries
<1> QED
  BY Zenon, <1>1, <1>2, <1>3

\* Every step keeps the two tables consistent.
LEMMA SlotStep == TypeInv /\ SlotInv /\ [Next]_vars => SlotInv'
<1> SUFFICES ASSUME TypeInv, SlotInv, [Next]_vars PROVE SlotInv'
  OBVIOUS
<1>1. ASSUME NEW q \in Query, FindQuery(q) PROVE SlotInv'
  <2>1. nic.pc = "idle" /\ nic'.pc = "refresh"
    BY Zenon, <1>1 DEF FindQuery, NoNic
  <2> QED
    BY Zenon, <1>1, <2>1, SlotKept DEF FindQuery, tables, objects, tableVars
<1>2. CASE RefreshSession \/ AllocFails \/ CountSession
  <2>1. nic'.pc = "idle" /\ nic.pc # "publish"
    BY <1>2 DEF RefreshSession, AllocFails, CountSession, NoNic
  <2> QED
    BY Zenon, <1>2, <2>1, SlotKept DEF RefreshSession, AllocFails, CountSession, tables, objects,
        tableVars
<1>3. CASE (\E s \in Slot : FindSlot(s)) \/ TranslateReply \/ Advance \/ UNCHANGED vars
  BY Zenon, <1>3, SlotKept DEF FindSlot, TranslateReply, Advance, vars, tables, objects, tableVars
<1>4. CASE CleanupTick \/ Shutdown \/ RangeQueries
  BY Zenon, <1>4, CleanerMoves, SlotKept DEF tables, objects, tableVars
<1>5. CASE UncountSession
  <2>1. cl.pc = "dec" /\ cl'.pc = "range"
    BY Zenon, <1>5 DEF UncountSession, TypeInv, TypeOK, ClState
  <2> QED
    BY Zenon, <1>5, <2>1, SlotKept DEF UncountSession, objects, tableVars
<1> QED
  BY Zenon, <1>1, <1>2, <1>3, <1>4, <1>5, SlotNew, SlotAlloc, SlotPublish, SlotDelete
     DEF Next, NicStep, CleanupStep

\* The inductive invariant holds of every behaviour.
LEMMA SlotCorrect == Spec => [](TypeInv /\ SlotInv)
<1>1. Init => TypeInv /\ SlotInv
  BY Zenon, TypeInit, SlotInit
<1>2. TypeInv /\ SlotInv /\ [Next]_vars => (TypeInv /\ SlotInv)'
  BY Zenon, TypeStep, SlotStep
<1> QED
  BY <1>1, <1>2, PTL DEF Spec

\* Every published query is backed by its own slot, whatever the
\* interleaving of the NIC loop, the reply loop and the cleaner: the reply to
\* a forwarded echo request is matched to the client that sent it.
THEOREM QueriesHaveSlots == Spec => []QueryHasSlot
<1>1. SlotInv => QueryHasSlot
  BY Zenon DEF SlotInv
<1> QED
  BY <1>1, SlotCorrect, PTL

\* registerICMPSession and the cleaner leak no slot.
THEOREM NoSlotLeaks == Spec => []NoOrphanSlot
<1>1. SlotInv => NoOrphanSlot
  BY Zenon DEF SlotInv, SlotOwned, NoOrphanSlot
<1> QED
  BY <1>1, SlotCorrect, PTL

-----------------------------------------------------------------------------
(***************************************************************************)
(* The count.  A registration under way has found the table not full, and  *)
(* only the cleaner has changed the count since, downwards.                *)
(***************************************************************************)
CountInv ==
  /\ CountExact
  /\ icmpCount <= MaxSessions
  /\ nic.pc \in {"alloc", "publish", "count"} => icmpCount < MaxSessions

\* Publishing and deleting a query change the number of live ones by one.
LEMMA LiveFacts ==
  ASSUME TypeInv
  PROVE  /\ IsFiniteSet(Live) /\ Cardinality(Live) \in Nat
         /\ \A q \in Query \ Live : Cardinality(Live \cup {q}) = Cardinality(Live) + 1
         /\ \A q \in Live : Cardinality(Live \ {q}) = Cardinality(Live) - 1
<1>1. IsFiniteSet(Live) /\ Cardinality(Live) \in Nat
  BY Zenon, FS_Subset, FS_CardinalityType DEF Live
<1>2. \A q \in Query \ Live : Cardinality(Live \cup {q}) = Cardinality(Live) + 1
  BY Zenon, <1>1, FS_AddElement
<1>3. \A q \in Live : Cardinality(Live \ {q}) = Cardinality(Live) - 1
  BY ZenonT(60), <1>1, FS_RemoveElement
<1> QED
  BY Zenon, <1>1, <1>2, <1>3

\* Initially nothing is counted.
LEMMA CountInit == Init => CountInv
<1> SUFFICES ASSUME Init PROVE CountInv
  OBVIOUS
<1>1. Live = {}
  BY Zenon DEF Init, Live
<1>2. Cardinality(Live) = 0
  BY Zenon, <1>1, FS_EmptySet
<1> QED
  BY <1>2 DEF Init, CountInv, CountExact, NoNic, NoCl

\* Every step keeps the count exact up to the steps under way.
LEMMA CountStep == TypeInv /\ SlotInv /\ CountInv /\ [Next]_vars => CountInv'
<1> SUFFICES ASSUME TypeInv, SlotInv, CountInv, [Next]_vars PROVE CountInv'
  OBVIOUS
<1>c. Cardinality(Live) \in Nat /\ icmpCount \in Int
  BY Zenon, LiveFacts DEF TypeInv, TypeOK
<1>l. icmpQueries' = icmpQueries => Live' = Live
  BY Zenon DEF Live
<1>1. CASE \E q \in Query : FindQuery(q)
  BY Zenon, <1>1, <1>l DEF FindQuery, NoNic, CountInv, CountExact, tables
<1>2. CASE \E q \in Query : NewSession(q)
  BY <1>2, <1>l, <1>c DEF NewSession, TableFull, CountInv, CountExact, tables
<1>3. CASE RefreshSession \/ AllocFails
  BY <1>3, <1>l DEF RefreshSession, AllocFails, NoNic, CountInv, CountExact, tables
<1>4. CASE AllocID
  <2>1. nic.pc = "alloc" /\ nic'.pc \in {"alloc", "publish"}
    BY Zenon, <1>4 DEF AllocID, TypeInv, TypeOK, NicState
  <2> QED
    BY Zenon, <1>4, <2>1, <1>l DEF AllocID, CountInv, CountExact
<1>5. CASE PublishQuery
  <2>1. /\ nic.pc = "publish" /\ nic'.pc = "count" /\ nic.q \in Query
        /\ nic.sess \in Session /\ icmpQueries[nic.q] = None
        /\ icmpQueries' = [icmpQueries EXCEPT ![nic.q] = nic.sess]
        /\ UNCHANGED <<icmpCount, cl>>
    BY Zenon, <1>5 DEF PublishQuery, NoNic, TypeInv, LocalsOK, SlotInv, Registering
  <2>2. Live' = Live \cup {nic.q} /\ nic.q \notin Live
    BY <2>1 DEF Live, TypeInv, TypeOK
  <2>3. Cardinality(Live') = Cardinality(Live) + 1
    BY Zenon, <2>1, <2>2, LiveFacts
  <2> QED
    BY <2>1, <2>3, <1>c DEF CountInv, CountExact
<1>6. CASE CountSession
  BY <1>6, <1>l, <1>c DEF CountSession, NoNic, CountInv, CountExact
<1>7. CASE (\E s \in Slot : FindSlot(s)) \/ TranslateReply \/ Advance \/ UNCHANGED vars
  BY Zenon, <1>7, <1>l DEF FindSlot, TranslateReply, Advance, vars, CountInv, CountExact, tables
<1>8. CASE CleanupTick \/ Shutdown \/ RangeQueries
  BY Zenon, <1>8, <1>l, CleanerMoves DEF CountInv, CountExact, tables
<1>9. CASE DeleteQuery
  <2>1. CASE icmpQueries[cl.q] = cl.sess
    <3>1. /\ icmpQueries' = [icmpQueries EXCEPT ![cl.q] = None]
          /\ cl.pc = "query" /\ cl'.pc = "slot" /\ cl.q \in Query /\ cl.sess \in Session
          /\ UNCHANGED <<icmpCount, nic>>
      BY Zenon, <1>9, <2>1 DEF DeleteQuery, TypeInv, TypeOK, ClState, LocalsOK
    <3>2. Live' = Live \ {cl.q} /\ cl.q \in Live
      BY Zenon, <2>1, <3>1 DEF Live, TypeInv, TypeOK
    <3>3. Cardinality(Live') = Cardinality(Live) - 1
      BY Zenon, <3>2, LiveFacts
    <3> QED
      BY <3>1, <3>3, <1>c DEF CountInv, CountExact
  <2>2. CASE icmpQueries[cl.q] # cl.sess
    <3>1. cl.pc = "query" /\ cl'.pc = "range" /\ UNCHANGED <<icmpQueries, icmpCount, nic>>
      BY Zenon, <1>9, <2>2 DEF DeleteQuery, TypeInv, TypeOK, ClState
    <3> QED
      BY Zenon, <3>1, <1>l DEF CountInv, CountExact
  <2> QED
    BY Zenon, <2>1, <2>2
<1>10. CASE DeleteSlot \/ UncountSession
  <2>1. /\ UNCHANGED <<icmpQueries, nic>>
        /\ \/ cl.pc = "slot" /\ cl'.pc = "dec" /\ icmpCount' = icmpCount
           \/ cl.pc = "dec" /\ cl'.pc = "range" /\ icmpCount' = icmpCount - 1
    BY Zenon, <1>10 DEF DeleteSlot, UncountSession, TypeInv, TypeOK, ClState
  <2> QED
    BY <2>1, <1>l, <1>c DEF CountInv, CountExact
<1> QED
  BY Zenon, <1>1, <1>2, <1>3, <1>4, <1>5, <1>6, <1>7, <1>8, <1>9, <1>10
     DEF Next, NicStep, CleanupStep

\* The three invariants together are inductive.
LEMMA CountCorrect == Spec => [](TypeInv /\ SlotInv /\ CountInv)
<1>1. Init => TypeInv /\ SlotInv /\ CountInv
  BY Zenon, TypeInit, SlotInit, CountInit
<1>2. TypeInv /\ SlotInv /\ CountInv /\ [Next]_vars => (TypeInv /\ SlotInv /\ CountInv)'
  BY Zenon, TypeStep, SlotStep, CountStep
<1> QED
  BY <1>1, <1>2, PTL DEF Spec

\* icmpCount is the number of live queries, up to the publication and the
\* deletion under way: no interleaving makes it drift.
THEOREM CountIsExact == Spec => []CountExact
<1>1. CountInv => CountExact
  BY Zenon DEF CountInv
<1> QED
  BY <1>1, CountCorrect, PTL

\* At most maxICMPSessions queries are live at any instant.
THEOREM Bounded == Spec => []SessionsBounded
<1>1. TypeInv /\ CountInv => SessionsBounded
  BY LiveFacts DEF CountInv, CountExact, SessionsBounded, TypeInv, TypeOK
<1> QED
  BY <1>1, CountCorrect, PTL
-----------------------------------------------------------------------------
HIDE IcmpConstants

(***************************************************************************)
(* The reader.  The history variable failing is the code's brokenFor, a    *)
(* sleep is entered only if it ends within the grace period, and the       *)
(* context is cancelled by a loop that has ended.                          *)
(***************************************************************************)
ReadInv ==
  /\ backoff \in Nat /\ backoff <= MaxBackoff
  /\ brokenFor \in Nat /\ failing = brokenFor /\ brokenFor < Grace
  /\ grace \in {0, Grace} /\ (cancelRoot => grace = Grace)
  /\ rl = "sleep" => brokenFor + backoff < Grace
  /\ ctxDone => rl = "gone" /\ brokenFor + MaxBackoff >= Grace

\* The process is cancelled by the read loop only after failures that lasted
\* for the grace period, and the loop never sleeps beyond it (readLoop).
THEOREM GraceAlwaysHonoured == NicSpec => []GraceHonoured
<1>1. NicInit => ReadInv
  BY NicAssumption DEF NicInit, ReadInv
<1>2. ReadInv /\ [NicNext]_nicVars => ReadInv'
  <2> SUFFICES ASSUME ReadInv, [NicNext]_nicVars PROVE ReadInv'
    OBVIOUS
  <2> USE NicAssumption DEF ReadInv
  <2>1. CASE NewYggdrasilNIC
    BY Zenon, <2>1 DEF NewYggdrasilNIC
  <2>11. CASE SuperviseReadLoop
    BY Zenon, <2>11 DEF SuperviseReadLoop
  <2>12. CASE Close \/ LinkFlap
    BY <2>12 DEF Close, LinkFlap
  <2>2. CASE ReadFrame
    BY <2>2 DEF ReadFrame
  <2>3. CASE GiveUp
    <3>1. ctxDone' => cancelRoot
      <4>1. ~ctxDone
        BY Zenon, <2>3 DEF GiveUp
      <4> QED
        BY <2>3, <4>1, Zenon DEF GiveUp
    <3>2. cancelRoot => brokenFor + MaxBackoff >= Grace
      BY <2>3 DEF GiveUp, GivesUp
    <3>3. UNCHANGED <<backoff, brokenFor, grace, cancelRoot, failing>> /\ rl' = "gone"
      BY Zenon, <2>3 DEF GiveUp
    <3> QED
      BY Zenon, <3>1, <3>2, <3>3
  <2>4. CASE Retry
    BY <2>4 DEF Retry, GivesUp
  <2>5. CASE Wake
    BY <2>5 DEF Wake
  <2>6. CASE ReadFails \/ Stopped \/ Delivered
    BY <2>6 DEF ReadFails, Stopped, Delivered
  <2>7. CASE UNCHANGED readVars
    BY Zenon, <2>7 DEF readVars
  <2>8. ASSUME NEW w \in Writer, WritePackets(w) \/ WriterStep(w) PROVE UNCHANGED readVars
    BY Zenon, <2>8 DEF WritePackets, WriterStep, QueueCtrl, DropCtrl, NoteCtrlDrop, GetBuf, Copy,
        Write, Return
  <2>9. CASE Tick \/ Flush \/ Copy(Flusher) \/ Flushed
    BY Zenon, <2>9, <2>7 DEF Tick, Flush, Copy, Flushed
  <2>10. CASE UNCHANGED nicVars
    BY Zenon, <2>10, <2>7 DEF nicVars
  <2> QED
    BY Zenon, <2>1, <2>2, <2>3, <2>4, <2>5, <2>6, <2>7, <2>8, <2>9, <2>10, <2>11,
        <2>12 DEF NicNext, ReaderStep
<1>3. ReadInv => GraceHonoured
  BY Zenon, NicAssumption DEF ReadInv, GraceHonoured
<1> QED
  BY <1>1, <1>2, <1>3, PTL DEF NicSpec

\* However many goroutines drop control frames at once, warnings are at least
\* the interval apart: the time of the last one is replaced only if it is
\* still the one the interval was measured from (noteCtrlDrop).
THEOREM WarningsSpaced == NicSpec => WarnSpaced
<1>1. ASSUME [NicNext]_nicVars, ctrlLastWarn' # ctrlLastWarn
      PROVE  \E w \in Writer : NoteCtrlDrop(w)
  <2>1. ASSUME NEW w \in Writer, WritePackets(w) \/ WriterStep(w)
        PROVE  NoteCtrlDrop(w) \/ UNCHANGED ctrlLastWarn
    BY Zenon, <2>1 DEF WritePackets, WriterStep, QueueCtrl, DropCtrl, GetBuf, Copy, Write, Return
  <2>2. ASSUME NewYggdrasilNIC \/ SuperviseReadLoop \/ Close \/ LinkFlap \/ ReadFrame \/ ReaderStep
        PROVE  UNCHANGED ctrlLastWarn
    BY Zenon, <2>2 DEF NewYggdrasilNIC, SuperviseReadLoop, Close, LinkFlap, ReadFrame, ReaderStep,
                ReadFails, GiveUp, Retry, Wake, Stopped, Delivered, writeVars
  <2>3. ASSUME Tick \/ Flush \/ Copy(Flusher) \/ Flushed PROVE UNCHANGED ctrlLastWarn
    BY Zenon, <2>3 DEF Tick, Flush, Copy, Flushed
  <2> QED
    BY Zenon, <1>1, <2>1, <2>2, <2>3 DEF NicNext, nicVars, writeVars
<1>2. ASSUME NEW w \in Writer, NoteCtrlDrop(w), ctrlLastWarn' # ctrlLastWarn
      PROVE  ctrlLastWarn = 0 \/ ctrlLastWarn' - ctrlLastWarn >= WarnInterval
  BY Zenon, <1>2 DEF NoteCtrlDrop
<1>3. [NicNext]_nicVars => [ctrlLastWarn' # ctrlLastWarn =>
        ctrlLastWarn = 0 \/ ctrlLastWarn' - ctrlLastWarn >= WarnInterval]_nicVars
  BY Zenon, <1>1, <1>2
<1> QED
  BY <1>3, PTL DEF NicSpec, WarnSpaced
-----------------------------------------------------------------------------
(***************************************************************************)
(* The write side: types.                                                  *)
(***************************************************************************)
Label == {"idle", "next", "warn", "copy", "write", "return"}

WriteType ==
  /\ unsent \subseteq Pkt
  /\ refs \in [Pkt -> Int]
  /\ list \in [Writer -> Seq(Pkt)] /\ idx \in [Writer -> Nat]
  /\ apc \in [Actor -> Label]
  /\ pkt \in [Actor -> Pkt \cup {NoFrame}]
  /\ buf \in [Actor -> Buf \cup {NoFrame}]
  /\ scratch \in [Buf -> Pkt \cup {NoFrame}]
  /\ ctrlPackets \in Seq(Pkt)

\* The write state that the actions of the read loop and the clock leave alone.
frameVars == <<unsent, refs, list, idx, apc, pkt, buf, scratch, ctrlPackets>>

\* Which steps touch the frames: the calls of WritePackets, its steps, and the
\* flush loop.
LEMMA FrameSteps ==
  ASSUME [NicNext]_nicVars
  PROVE  \/ UNCHANGED frameVars
         \/ \E w \in Writer : WritePackets(w) \/ WriterStep(w)
         \/ Flush \/ Copy(Flusher) \/ Flushed
<1>1. ASSUME NewYggdrasilNIC \/ SuperviseReadLoop \/ Close \/ LinkFlap \/ ReadFrame \/ ReaderStep
      PROVE  UNCHANGED frameVars
  BY Zenon, <1>1 DEF NewYggdrasilNIC, SuperviseReadLoop, Close, LinkFlap, ReadFrame, ReaderStep,
              ReadFails, GiveUp, Retry, Wake, Stopped, Delivered, writeVars, frameVars
<1>2. ASSUME Tick \/ UNCHANGED nicVars PROVE UNCHANGED frameVars
  BY Zenon, <1>2 DEF Tick, nicVars, writeVars, frameVars
<1> QED
  BY Zenon, <1>1, <1>2 DEF NicNext

\* A goroutine that is not done with its frames has one to deal with.
LEMMA FrameIsPkt ==
  ASSUME WriteType, NEW w \in Writer, More(w)
  PROVE  Frame(w) \in Pkt /\ Frame(w) \in Range(list[w])
<1>1. list[w] \in Seq(Pkt) /\ idx[w] + 1 \in 1..Len(list[w])
  BY DEF WriteType, More
<1>2. Frame(w) = list[w][idx[w] + 1]
  BY Zenon DEF Frame
<1>3. Frame(w) \in Pkt
  BY <1>1, <1>2
<1>4. DOMAIN list[w] = 1..Len(list[w])
  BY <1>1
<1> QED
  BY <1>1, <1>2, <1>3, <1>4, Zenon DEF Range

\* A writer's frames are drawn from those not yet sent.
LEMMA DrawnFrames ==
  ASSUME WriteType, NEW s \in Lists
  PROVE  s \in Seq(Pkt) /\ s \in Seq(unsent) /\ Range(s) \subseteq unsent
<1>1. PICK m \in 1..MaxList : s \in [1..m -> unsent]
  BY Zenon DEF Lists
<1>2. m \in Nat
  BY <1>1, NicAssumption
<1>3. s \in Seq(unsent)
  BY <1>1, <1>2
<1> QED
  BY <1>1, <1>2, <1>3 DEF WriteType, Range

\* Not all scratch buffers are in use while some goroutine has none, so the
\* one the pool hands out is free.
LEMMA PoolFree ==
  ASSUME WriteType, NEW a \in Actor, buf[a] = NoFrame
  PROVE  Pool \in Buf /\ Pool \notin Range(buf)
<1> DEFINE R == Actor \ {a}
           T == {buf[x] : x \in R}
           f == [x \in R |-> buf[x]]
<1>1. IsFiniteSet(Actor)
  <2>1. IsFiniteSet(Task \cup {Reader})
    BY Zenon, NicAssumption, FS_AddElement
  <2> QED
    BY Zenon, <2>1, FS_AddElement DEF Actor, Writer
<1>2. /\ IsFiniteSet(R) /\ Cardinality(R) = Cardinality(Actor) - 1
      /\ Cardinality(Actor) \in Nat /\ Cardinality(R) \in Nat
  BY Zenon, <1>1, FS_RemoveElement, FS_CardinalityType
<1>3. f \in Surjection(R, T)
  BY Zenon DEF Surjection
<1>4. IsFiniteSet(T) /\ Cardinality(T) <= Cardinality(R)
  <2> HIDE DEF R, T, f
  <2> QED
    BY Zenon, <1>2, <1>3, FS_Surjection
<1>5. ~(Actor \subseteq T)
  <2>1. SUFFICES ASSUME Actor \subseteq T PROVE FALSE
    OBVIOUS
  <2>2. Cardinality(Actor) <= Cardinality(T)
    BY Zenon, <1>4, <2>1, FS_Subset
  <2>3. Cardinality(T) \in Nat
    BY Zenon, <1>4, FS_CardinalityType
  <2> QED
    BY <1>2, <1>4, <2>2, <2>3
<1>6. PICK b \in Buf : b \notin T
  BY Zenon, <1>5 DEF Buf
<1>7. b # NoFrame
  BY Zenon, NicAssumption DEF Buf, Actor, Writer
<1>8. DOMAIN buf = Actor
  BY Zenon DEF WriteType
<1>9. b \notin Range(buf)
  BY Zenon, <1>6, <1>7, <1>8 DEF Range
<1> QED
  BY Zenon, <1>6, <1>9 DEF Pool
\* Writers and the flusher are different goroutines, and none is None.
LEMMA Actors ==
  /\ Writer \subseteq Actor /\ Flusher \in Actor /\ Flusher \notin Writer
  /\ NoFrame \notin Buf /\ Buf = Actor /\ NoFrame \notin Pkt
BY Zenon, NicAssumption DEF Actor, Writer, Buf

\* The write side is well typed at first.
LEMMA WriteTypeInit == NicInit => WriteType
BY NicAssumption, Actors DEF NicInit, WriteType, Label

(***************************************************************************)
(* A goroutine in writePacket has a scratch buffer, nobody else has one,   *)
(* and no two have the same: so what was copied stays until it is written. *)
(***************************************************************************)
BufInv ==
  /\ \A a \in Actor : apc[a] \in {"copy", "write"} <=> buf[a] # NoFrame
  /\ \A a, b \in Actor : a # b /\ buf[a] # NoFrame => buf[a] # buf[b]
  /\ FramesIntact

\* The types and the ownership of the buffers are kept by every step.
LEMMA WriteStep ==
  ASSUME WriteType, BufInv, [NicNext]_nicVars
  PROVE  WriteType' /\ BufInv'
<1> USE Actors
<1>1. CASE UNCHANGED frameVars
  BY Zenon, <1>1 DEF frameVars, WriteType, BufInv, FramesIntact
<1>2. ASSUME NEW w \in Writer, WritePackets(w) PROVE WriteType' /\ BufInv'
  <2>1. PICK s \in Lists :
          /\ list' = [list EXCEPT ![w] = s]
          /\ unsent' = unsent \ Range(s)
          /\ refs' = [p \in Pkt |-> IF p \in Range(s) THEN 1 ELSE refs[p]]
    BY Zenon, <1>2 DEF WritePackets
  <2>2. s \in Seq(Pkt)
    BY Zenon, DrawnFrames
  <2>3. WriteType'
    BY <1>2, <2>1, <2>2 DEF WritePackets, A, WriteType, Label
  <2>4. BufInv'
    BY Zenon, <1>2 DEF WritePackets, A, WriteType, BufInv, FramesIntact
  <2> QED
    BY Zenon, <2>3, <2>4
<1>3. ASSUME NEW w \in Writer, QueueCtrl(w) PROVE WriteType' /\ BufInv'
  <2>1. Frame(w) \in Pkt
    BY Zenon, <1>3, FrameIsPkt DEF QueueCtrl
  <2>2. WriteType'
    BY <1>3, <2>1 DEF QueueCtrl, WriteType
  <2> QED
    BY Zenon, <1>3, <2>2 DEF QueueCtrl, BufInv, FramesIntact
<1>4. ASSUME NEW w \in Writer, DropCtrl(w) \/ NoteCtrlDrop(w) PROVE WriteType' /\ BufInv'
  <2>1. /\ UNCHANGED <<unsent, refs, list, pkt, buf, scratch, ctrlPackets>>
        /\ apc[w] \in {"next", "warn"}
        /\ \E l \in {"next", "warn"} : apc' = [apc EXCEPT ![w] = l]
    BY Zenon, <1>4 DEF DropCtrl, NoteCtrlDrop, A
  <2>2. idx' \in [Writer -> Nat]
    <3>1. idx' = [idx EXCEPT ![w] = @ + 1] \/ idx' = idx
      BY Zenon, <1>4 DEF DropCtrl, NoteCtrlDrop
    <3>2. idx \in [Writer -> Nat]
      BY Zenon DEF WriteType
    <3> QED
      BY <3>1, <3>2
  <2>3. WriteType'
    BY <2>1, <2>2 DEF WriteType, Label
  <2> QED
    BY Zenon, <2>1, <2>3 DEF WriteType, BufInv, FramesIntact
<1>5. ASSUME NEW a \in Actor, NEW p \in Pkt, apc[a] \in {"next", "idle"},
             apc' = [apc EXCEPT ![a] = "copy"],
             pkt' = [pkt EXCEPT ![a] = p], buf' = [buf EXCEPT ![a] = Pool],
             UNCHANGED <<unsent, refs, list, idx, scratch>>, ctrlPackets' \in Seq(Pkt)
      PROVE  WriteType' /\ BufInv'
  <2>1. buf[a] = NoFrame
    BY Zenon, <1>5 DEF BufInv
  <2>2. Pool \in Buf /\ \A b \in Actor : buf[b] # Pool
    BY Zenon, <2>1, PoolFree DEF WriteType, Range
  <2> HIDE DEF Pool
  <2>3. WriteType'
    BY Zenon, <1>5, <2>2 DEF WriteType, Label
  <2>4. BufInv'
    BY <1>5, <2>1, <2>2 DEF WriteType, BufInv, FramesIntact
  <2> QED
    BY Zenon, <2>3, <2>4
<1>6. ASSUME NEW w \in Writer, GetBuf(w) PROVE WriteType' /\ BufInv'
  <2>1. Frame(w) \in Pkt
    BY Zenon, <1>6, FrameIsPkt DEF GetBuf
  <2> QED
    BY Zenon, <1>5, <1>6, <2>1 DEF GetBuf, A, WriteType
<1>7. CASE Flush
  <2>1. Head(ctrlPackets) \in Pkt /\ Tail(ctrlPackets) \in Seq(Pkt)
    BY <1>7 DEF Flush, WriteType
  <2> QED
    BY ZenonT(60), <1>5, <1>7, <2>1 DEF Flush, A
<1>8. ASSUME NEW a \in Actor, Copy(a) PROVE WriteType' /\ BufInv'
  <2>1. buf[a] \in Buf /\ buf[a] # NoFrame
    BY Zenon, <1>8 DEF Copy, A, BufInv, WriteType
  <2>2. WriteType'
    BY Zenon, <1>8, <2>1 DEF Copy, A, WriteType, Label
  <2>3. BufInv'
    BY <1>8, <2>1 DEF Copy, A, WriteType, BufInv, FramesIntact
  <2> QED
    BY Zenon, <2>2, <2>3
<1>9. ASSUME NEW a \in Actor, apc[a] = "write", PutBuf(a),
             NEW l \in Label \ {"copy", "write"}, apc' = [apc EXCEPT ![a] = l],
             UNCHANGED <<unsent, list, ctrlPackets>>,
             idx' \in [Writer -> Nat], refs' \in [Pkt -> Int]
      PROVE  WriteType' /\ BufInv'
  <2>1. buf[a] \in Buf /\ buf[a] # NoFrame
    BY Zenon, <1>9 DEF BufInv, WriteType
  <2>2. WriteType'
    BY Zenon, <1>9, <2>1 DEF PutBuf, WriteType
  <2>3. BufInv'
    BY <1>9, <2>1 DEF PutBuf, WriteType, BufInv, FramesIntact
  <2> QED
    BY Zenon, <2>2, <2>3
<1>10. ASSUME NEW w \in Writer, Write(w) PROVE WriteType' /\ BufInv'
  <2>1. PICK ok \in BOOLEAN : /\ apc' = [apc EXCEPT ![w] = IF ok THEN "next" ELSE "return"]
                              /\ idx' = [idx EXCEPT ![w] = @ + 1]
    BY ZenonT(60), <1>10 DEF Write
  <2>2. (IF ok THEN "next" ELSE "return") \in Label \ {"copy", "write"}
    BY Zenon DEF Label
  <2>3. idx' \in [Writer -> Nat] /\ refs' \in [Pkt -> Int]
    BY <1>10, <2>1 DEF Write, WriteType
  <2> QED
    BY Zenon, <1>9, <1>10, <2>1, <2>2, <2>3 DEF Write
<1>11. ASSUME NEW w \in Writer, Return(w) PROVE WriteType' /\ BufInv'
  <2>1. WriteType'
    BY <1>11 DEF Return, WriteType, Label
  <2> QED
    BY Zenon, <1>11, <2>1 DEF Return, WriteType, BufInv, FramesIntact
<1>12. CASE Flushed
  <2>1. idx' \in [Writer -> Nat] /\ refs' \in [Pkt -> Int]
    <3>1. idx' = idx /\ refs' = [refs EXCEPT ![pkt[Flusher]] = @ - 1]
      BY Zenon, <1>12 DEF Flushed
    <3>2. refs \in [Pkt -> Int] /\ idx \in [Writer -> Nat]
      BY Zenon DEF WriteType
    <3>3. refs' = [p \in Pkt |-> IF p = pkt[Flusher] THEN refs[p] - 1 ELSE refs[p]]
      BY Zenon, <3>1, <3>2
    <3>4. idx' = idx
      BY Zenon, <3>1
    <3> QED
      BY <3>2, <3>3, <3>4
  <2>2. "idle" \in Label \ {"copy", "write"}
    BY Zenon DEF Label
  <2> QED
    BY Zenon, <1>9, <1>12, <2>1, <2>2 DEF Flushed, A
<1> QED
  BY Zenon, FrameSteps, <1>1, <1>2, <1>3, <1>4, <1>6, <1>7, <1>8, <1>10, <1>11, <1>12 DEF WriterStep

\* What is passed to the core is the frame that was to be sent: a scratch
\* buffer belongs to one call of writePacket at a time.
THEOREM FramesAlwaysIntact == NicSpec => []FramesIntact
<1>1. NicInit => WriteType /\ BufInv
  BY Zenon, WriteTypeInit, Actors DEF NicInit, BufInv, FramesIntact
<1>2. WriteType /\ BufInv /\ [NicNext]_nicVars => (WriteType /\ BufInv)'
  BY Zenon, WriteStep
<1>3. BufInv => FramesIntact
  BY Zenon DEF BufInv
<1> QED
  BY <1>1, <1>2, <1>3, PTL DEF NicSpec
-----------------------------------------------------------------------------
(***************************************************************************)
(* References.                                                             *)
(***************************************************************************)
Holders(p) == {a \in Actor : p \in Holds(a)}
Queued(q, p) == {i \in DOMAIN q : q[i] = p}

\* A goroutine outside WritePackets has no frames; a frame that has not been
\* sent is nowhere; and the flusher has a frame exactly while it is not idle.
RefInv ==
  /\ \A w \in Writer : apc[w] = "idle" => list[w] = <<>>
  /\ \A p \in unsent : /\ \A w \in Writer : p \notin Range(list[w])
                       /\ \A i \in DOMAIN ctrlPackets : ctrlPackets[i] # p
                       /\ pkt[Flusher] # p
  /\ apc[Flusher] = "idle" <=> pkt[Flusher] = NoFrame
  /\ RefsExact

\* RefsExact in terms of the two sets.
LEMMA RefsOf == RefsExact <=> \A p \in Pkt :
                  refs[p] = Cardinality(Holders(p)) + Cardinality(Queued(ctrlPackets, p))
BY Zenon DEF RefsExact, Holders, Queued

\* A reference more or less is one more or less in one of the sets.
LEMMA RefSums ==
  ASSUME NEW m \in Nat, NEW n \in Nat
  PROVE  /\ (m + n) + 1 = m + (n + 1) /\ (m + 1) + (n - 1) = m + n
         /\ (m + n) + 0 = m + (n + 0) /\ m + n = m + (n - 0)
OBVIOUS

\* Both sets are finite.
LEMMA RefSetsFinite ==
  ASSUME NEW p
  PROVE  /\ IsFiniteSet(Holders(p)) /\ Cardinality(Holders(p)) \in Nat
         /\ \A q \in Seq(Pkt) : IsFiniteSet(Queued(q, p)) /\ Cardinality(Queued(q, p)) \in Nat
<1>1. IsFiniteSet(Actor)
  <2>1. IsFiniteSet(Task \cup {Reader})
    BY Zenon, NicAssumption, FS_AddElement
  <2> QED
    BY Zenon, <2>1, FS_AddElement DEF Actor, Writer
<1>2. IsFiniteSet(Holders(p))
  BY Zenon, <1>1, FS_Subset DEF Holders
<1>3. ASSUME NEW q \in Seq(Pkt) PROVE IsFiniteSet(Queued(q, p))
  <2>1. IsFiniteSet(1..Len(q))
    BY FS_Interval
  <2> QED
    BY <2>1, FS_Subset DEF Queued
<1> QED
  BY Zenon, <1>2, <1>3, FS_CardinalityType

(* What Append leaves in a queue of frames: the appended frame and the old ones. *)
LEMMA AppendElements ==
  ASSUME NEW q \in Seq(Pkt), NEW f \in Pkt
  PROVE  \A i \in DOMAIN Append(q, f) :
           Append(q, f)[i] = f \/ \E j \in DOMAIN q : Append(q, f)[i] = q[j]
OBVIOUS

\* A frame appended to the queue is in it once more.
LEMMA AppendQueued ==
  ASSUME NEW q \in Seq(Pkt), NEW f \in Pkt, NEW p \in Pkt
  PROVE  Cardinality(Queued(Append(q, f), p)) =
           Cardinality(Queued(q, p)) + (IF f = p THEN 1 ELSE 0)
<1>1. Queued(Append(q, f), p) = IF f = p THEN Queued(q, p) \cup {Len(q) + 1} ELSE Queued(q, p)
  BY DEF Queued
<1>2. Len(q) + 1 \notin Queued(q, p)
  BY DEF Queued
<1>3. IsFiniteSet(Queued(q, p)) /\ Cardinality(Queued(q, p)) \in Nat
  BY Zenon, RefSetsFinite
<1>4. Cardinality(Queued(q, p) \cup {Len(q) + 1}) = Cardinality(Queued(q, p)) + 1
  BY ZenonT(60), <1>2, <1>3, FS_AddElement
<1> QED
  BY <1>1, <1>3, <1>4

\* The frame taken from the queue is in it once less.
LEMMA TailQueued ==
  ASSUME NEW q \in Seq(Pkt), q # <<>>, NEW p \in Pkt
  PROVE  Cardinality(Queued(Tail(q), p)) =
           Cardinality(Queued(q, p)) - (IF Head(q) = p THEN 1 ELSE 0)
<1> DEFINE S == Queued(Tail(q), p)
           T == Queued(q, p) \ {1}
           f == [i \in S |-> i + 1]
<1>1. /\ Len(q) \in Nat \ {0} /\ Len(Tail(q)) = Len(q) - 1
      /\ \A i \in 1..Len(Tail(q)) : Tail(q)[i] = q[i + 1]
      /\ DOMAIN Tail(q) = 1..(Len(q) - 1) /\ DOMAIN q = 1..Len(q)
      /\ Head(q) = q[1] /\ Tail(q) \in Seq(Pkt)
  OBVIOUS
<1>2. f \in Bijection(S, T)
  <2>1. ASSUME NEW i \in S PROVE i \in Nat /\ f[i] = i + 1 /\ f[i] \in T
    BY <1>1 DEF Queued
  <2>2. ASSUME NEW j \in T PROVE \E i \in S : f[i] = j
    <3>1. j \in 2..Len(q) /\ q[j] = p
      BY <1>1 DEF Queued
    <3>2. j - 1 \in S
      BY <1>1, <3>1 DEF Queued
    <3> QED
      BY <2>1, <3>1, <3>2
  <2>3. f \in [S -> T]
    BY Zenon, <2>1
  <2>4. \A a, b \in S : f[a] = f[b] => a = b
    BY <2>1
  <2> HIDE DEF S, T, f
  <2> QED
    BY Zenon, <2>2, <2>3, <2>4 DEF Bijection, Injection, Surjection, IsInjective
<1>3. IsFiniteSet(Queued(q, p)) /\ Cardinality(Queued(q, p)) \in Nat /\ IsFiniteSet(S)
  BY Zenon, <1>1, RefSetsFinite
<1>4. Cardinality(S) = Cardinality(T)
  <2> HIDE DEF S, T, f
  <2> QED
    BY Zenon, <1>2, <1>3, FS_Bijection DEF ExistsBijection
<1>5. Cardinality(T) = Cardinality(Queued(q, p)) - (IF Head(q) = p THEN 1 ELSE 0)
  <2>1. CASE Head(q) = p
    <3>1. 1 \in Queued(q, p)
      BY <1>1, <2>1 DEF Queued
    <3> QED
      BY ZenonT(60), <1>3, <2>1, <3>1, FS_RemoveElement
  <2>2. CASE Head(q) # p
    <3>1. T = Queued(q, p)
      BY Zenon, <1>1, <2>2 DEF Queued
    <3> HIDE DEF T
    <3> QED
      BY <1>3, <2>2, <3>1
  <2> QED
    BY Zenon, <2>1, <2>2
<1> QED
  BY Zenon, <1>4, <1>5
\* The references are counted exactly by every step.
LEMMA RefStep ==
  ASSUME WriteType, WriteType', BufInv, RefInv, [NicNext]_nicVars
  PROVE  RefInv'
<1> USE Actors
<1> DEFINE H(p) == Cardinality(Holders(p))
           Q(p) == Cardinality(Queued(ctrlPackets, p))
<1>a. \A p \in Pkt : refs[p] = H(p) + Q(p)
  BY Zenon, RefsOf DEF RefInv
<1>b. ASSUME NEW p PROVE IsFiniteSet(Holders(p)) /\ H(p) \in Nat /\ Q(p) \in Nat
  BY ZenonT(60), RefSetsFinite DEF WriteType
<1>h. \A p : \A a \in Actor : a \in Holders(p) <=>
               IF a = Flusher THEN p = pkt[a] /\ p # NoFrame ELSE p \in Range(list[a])
  BY Zenon DEF Holders, Holds
<1>1. ASSUME UNCHANGED <<unsent, refs, list, ctrlPackets>>,
             pkt'[Flusher] = pkt[Flusher],
             apc'[Flusher] = "idle" <=> apc[Flusher] = "idle",
             \A w \in Writer : apc'[w] = "idle" => apc[w] = "idle"
      PROVE  RefInv'
  <2>1. \A a \in Actor : Holds(a)' = Holds(a)
    BY Zenon, <1>1 DEF Holds
  <2>2. RefsExact'
    BY Zenon, <1>1, <2>1 DEF RefsExact, RefInv
  <2> QED
    BY Zenon, <1>1, <2>2 DEF RefInv
<1>2. CASE UNCHANGED frameVars
  BY Zenon, <1>1, <1>2 DEF frameVars
<1>3. ASSUME NEW w \in Writer, DropCtrl(w) \/ NoteCtrlDrop(w) \/ GetBuf(w) \/ Write(w) PROVE RefInv'
  <2>1. UNCHANGED <<unsent, refs, list, ctrlPackets>>
    BY Zenon, <1>3 DEF DropCtrl, NoteCtrlDrop, GetBuf, Write
  <2>2. pkt'[Flusher] = pkt[Flusher]
    BY Zenon, <1>3 DEF DropCtrl, NoteCtrlDrop, GetBuf, Write, PutBuf, WriteType
  <2>3. /\ \A a \in Actor : a # w => apc'[a] = apc[a]
        /\ apc'[w] # "idle"
    BY Zenon, <1>3 DEF DropCtrl, NoteCtrlDrop, GetBuf, Write, A, WriteType
  <2> QED
    BY Zenon, <1>1, <2>1, <2>2, <2>3
<1>4. ASSUME NEW a \in Actor, Copy(a) PROVE RefInv'
  <2>1. UNCHANGED <<unsent, refs, list, ctrlPackets, pkt>>
    BY Zenon, <1>4 DEF Copy
  <2>2. /\ \A b \in Actor : b # a => apc'[b] = apc[b]
        /\ apc[a] = "copy" /\ apc'[a] = "write"
    BY Zenon, <1>4 DEF Copy, A, WriteType
  <2> QED
    BY Zenon, <1>1, <2>1, <2>2
<1>5. ASSUME NEW w \in Writer, WritePackets(w) PROVE RefInv'
  <2>1. PICK s \in Lists :
          /\ list' = [list EXCEPT ![w] = s]
          /\ unsent' = unsent \ Range(s)
          /\ refs' = [p \in Pkt |-> IF p \in Range(s) THEN 1 ELSE refs[p]]
    BY ZenonT(60), <1>5 DEF WritePackets
  <2>2. Range(s) \subseteq unsent
    BY Zenon, DrawnFrames
  <2>3. list[w] = <<>> /\ Range(list[w]) = {}
    <3>1. apc[w] = "idle"
      BY Zenon, <1>5 DEF WritePackets, A
    <3>2. list[w] = <<>>
      BY Zenon, <3>1 DEF RefInv
    <3> QED
      BY <3>2 DEF Range
  <2>4. UNCHANGED <<pkt, ctrlPackets>> /\ \A a \in Actor : apc'[a] = IF a = w THEN "next" ELSE apc[a]
    BY Zenon, <1>5 DEF WritePackets, A, WriteType
  <2>5. \A v \in Writer : list'[v] = IF v = w THEN s ELSE list[v]
    BY Zenon, <2>1 DEF WriteType
  <2>6. \A a \in Actor : Holds(a)' = IF a = w THEN Range(s) ELSE Holds(a)
    BY Zenon, <2>4, <2>5 DEF Holds, Actor
  <2>7. ASSUME NEW p \in Pkt
        PROVE  refs'[p] = Cardinality(Holders(p)') + Cardinality(Queued(ctrlPackets, p)')
    <3>1. CASE p \in Range(s)
      <4>1. Queued(ctrlPackets, p)' = {}
        BY Zenon, <2>2, <2>4, <3>1 DEF RefInv, Queued
      <4>2. Holders(p)' = {w}
        BY Zenon, <2>2, <2>6, <3>1 DEF RefInv, Holders, Holds, Actor
      <4>3. Cardinality({}) = 0 /\ Cardinality({w}) = 1
        BY ZenonT(60), FS_EmptySet, FS_Singleton
      <4>4. refs'[p] = 1
        BY Zenon, <2>1, <3>1
      <4> QED
        BY <4>1, <4>2, <4>3, <4>4
    <3>2. CASE p \notin Range(s)
      <4>1. Holders(p)' = Holders(p)
        BY ZenonT(60), <2>3, <2>6, <3>2 DEF Holders, Holds
      <4> QED
        BY Zenon, <1>a, <2>1, <2>4, <3>2, <4>1 DEF Queued
    <3> QED
      BY Zenon, <3>1, <3>2
  <2>8. RefsExact'
    BY Zenon, <2>7 DEF RefsExact, Holders, Queued
  <2>9. \A p \in unsent' : \A v \in Writer : p \notin Range(list'[v])
    BY Zenon, <2>1, <2>5 DEF RefInv
  <2> QED
    BY <2>1, <2>4, <2>8, <2>9 DEF RefInv
<1>6. ASSUME NEW w \in Writer, QueueCtrl(w) PROVE RefInv'
  <2>1. Frame(w) \in Pkt /\ Frame(w) \in Range(list[w])
    BY Zenon, <1>6, FrameIsPkt DEF QueueCtrl
  <2> DEFINE f == Frame(w)
  <2>2. UNCHANGED <<unsent, list, apc, pkt>> /\ ctrlPackets' = Append(ctrlPackets, f)
    BY Zenon, <1>6 DEF QueueCtrl
  <2>3. \A p \in Pkt : refs'[p] = refs[p] + (IF f = p THEN 1 ELSE 0)
    BY <1>6, <2>1 DEF QueueCtrl, WriteType
  <2> HIDE DEF f
  <2>4. ASSUME NEW p \in Pkt
        PROVE  refs'[p] = Cardinality(Holders(p)') + Cardinality(Queued(ctrlPackets, p)')
    <3>1. Holders(p)' = Holders(p)
      BY Zenon, <2>2 DEF Holders, Holds
    <3>2. Queued(ctrlPackets, p)' = Queued(Append(ctrlPackets, f), p)
      BY Zenon, <2>2 DEF Queued
    <3>3. Cardinality(Queued(Append(ctrlPackets, f), p)) = Q(p) + (IF f = p THEN 1 ELSE 0)
      BY <2>1, AppendQueued DEF WriteType, f
    <3>5. /\ Cardinality(Holders(p)') = H(p)
          /\ Cardinality(Queued(ctrlPackets, p)') = Q(p) + (IF f = p THEN 1 ELSE 0)
      BY Zenon, <3>1, <3>2, <3>3
    <3> HIDE DEF H, Q
    <3>4. refs[p] = H(p) + Q(p) /\ H(p) \in Nat /\ Q(p) \in Nat
      BY Zenon, <1>a, <1>b
    <3>6. (H(p) + Q(p)) + 1 = H(p) + (Q(p) + 1) /\ (H(p) + Q(p)) + 0 = H(p) + (Q(p) + 0)
      BY Zenon, <3>4, RefSums
    <3>7. CASE f = p
      BY Zenon, <2>3, <3>4, <3>5, <3>6, <3>7
    <3>8. CASE f # p
      BY Zenon, <2>3, <3>4, <3>5, <3>6, <3>8
    <3> QED
      BY Zenon, <3>7, <3>8
  <2>5. RefsExact'
    BY Zenon, <2>4 DEF RefsExact, Holders, Queued
  <2>6. \A i \in DOMAIN ctrlPackets' : ctrlPackets'[i] = f \/ \E j \in DOMAIN ctrlPackets : ctrlPackets'[i] = ctrlPackets[j]
    <3>1. ctrlPackets \in Seq(Pkt)
      BY Zenon DEF WriteType
    <3> QED
      BY Zenon, <2>1, <2>2, <3>1, AppendElements DEF f
  <2>7. f \notin unsent
    BY Zenon, <2>1 DEF RefInv, f
  <2> QED
    BY <2>2, <2>5, <2>6, <2>7 DEF RefInv
<1>7. ASSUME NEW w \in Writer, Return(w) PROVE RefInv'
  <2>1. /\ UNCHANGED <<unsent, pkt, ctrlPackets>>
        /\ \A a \in Actor : apc'[a] = IF a = w THEN "idle" ELSE apc[a]
        /\ \A v \in Writer : list'[v] = IF v = w THEN <<>> ELSE list[v]
    BY Zenon, <1>7 DEF Return, WriteType
  <2>2. \A p \in Pkt : refs'[p] = IF p \in Range(list[w]) THEN refs[p] - 1 ELSE refs[p]
    BY ZenonT(60), <1>7 DEF Return
  <2>3. \A a \in Actor : Holds(a)' = IF a = w THEN {} ELSE Holds(a)
    <3>1. Range(<<>>) = {}
      BY DEF Range
    <3> QED
      BY Zenon, <2>1, <3>1 DEF Holds, Actor
  <2>4. ASSUME NEW p \in Pkt
        PROVE  refs'[p] = Cardinality(Holders(p)') + Cardinality(Queued(ctrlPackets, p)')
    <3>1. Holders(p)' = Holders(p) \ {w}
      BY Zenon, <2>3 DEF Holders
    <3>2. w \in Holders(p) <=> p \in Range(list[w])
      BY Zenon, <1>h
    <3>3. Cardinality(Holders(p) \ {w}) = IF w \in Holders(p) THEN H(p) - 1 ELSE H(p)
      BY ZenonT(60), <1>b, FS_RemoveElement
    <3>4. Cardinality(Queued(ctrlPackets, p)') = Q(p)
      BY Zenon, <2>1 DEF Queued
    <3> HIDE DEF H, Q
    <3>5. refs[p] = H(p) + Q(p) /\ H(p) \in Nat /\ Q(p) \in Nat
      BY Zenon, <1>a, <1>b
    <3> QED
      BY <2>2, <3>1, <3>2, <3>3, <3>4, <3>5
  <2>5. RefsExact'
    BY Zenon, <2>4 DEF RefsExact, Holders, Queued
  <2> QED
    BY <2>1, <2>5 DEF RefInv, Range
<1>8. CASE Flush
  <2> DEFINE f == Head(ctrlPackets)
  <2>1. f \in Pkt /\ \E i \in DOMAIN ctrlPackets : ctrlPackets[i] = f
    BY <1>8 DEF Flush, WriteType
  <2>2. /\ UNCHANGED <<unsent, refs, list>> /\ ctrlPackets' = Tail(ctrlPackets)
        /\ \A a \in Actor : apc'[a] = IF a = Flusher THEN "copy" ELSE apc[a]
        /\ pkt[Flusher] = NoFrame /\ pkt'[Flusher] = f
    BY <1>8 DEF Flush, A, WriteType, RefInv
  <2> HIDE DEF f
  <2>3. \A a \in Actor : Holds(a)' = IF a = Flusher THEN {f} ELSE Holds(a)
    BY ZenonT(60), <2>1, <2>2 DEF Holds
  <2>4. ASSUME NEW p \in Pkt
        PROVE  refs'[p] = Cardinality(Holders(p)') + Cardinality(Queued(ctrlPackets, p)')
    <3>1. Flusher \notin Holders(p)
      BY Zenon, <1>h, <2>2
    <3>2. Holders(p)' = IF f = p THEN Holders(p) \cup {Flusher} ELSE Holders(p)
      BY Zenon, <2>3, <3>1 DEF Holders
    <3>3. Cardinality(Holders(p) \cup {Flusher}) = H(p) + 1
      BY Zenon, <1>b, <3>1, FS_AddElement
    <3>4. Queued(ctrlPackets, p)' = Queued(Tail(ctrlPackets), p)
      BY Zenon, <2>2 DEF Queued
    <3>5. Cardinality(Queued(Tail(ctrlPackets), p)) = Q(p) - (IF f = p THEN 1 ELSE 0)
      BY Zenon, <1>8, TailQueued DEF WriteType, Flush, f
    <3>7. Cardinality(Holders(p)') = IF f = p THEN H(p) + 1 ELSE H(p)
      BY Zenon, <3>2, <3>3
    <3>8. Cardinality(Queued(ctrlPackets, p)') = Q(p) - (IF f = p THEN 1 ELSE 0)
      BY Zenon, <3>4, <3>5
    <3>9. refs'[p] = refs[p]
      BY Zenon, <2>2
    <3> HIDE DEF H, Q
    <3>6. refs[p] = H(p) + Q(p) /\ H(p) \in Nat /\ Q(p) \in Nat
      BY Zenon, <1>a, <1>b
    <3>10. (H(p) + 1) + (Q(p) - 1) = H(p) + Q(p) /\ H(p) + Q(p) = H(p) + (Q(p) - 0)
      BY Zenon, <3>6, RefSums
    <3>11. CASE f = p
      BY Zenon, <3>6, <3>7, <3>8, <3>9, <3>10, <3>11
    <3>12. CASE f # p
      BY Zenon, <3>6, <3>7, <3>8, <3>9, <3>10, <3>12
    <3> QED
      BY Zenon, <3>11, <3>12
  <2>5. RefsExact'
    BY Zenon, <2>4 DEF RefsExact, Holders, Queued
  <2>6. \A i \in DOMAIN ctrlPackets' : \E j \in DOMAIN ctrlPackets : ctrlPackets'[i] = ctrlPackets[j]
    BY <1>8, <2>2 DEF WriteType, Flush
  <2>7. f \notin unsent
    BY Zenon, <2>1 DEF RefInv
  <2>8. \A w \in Writer : apc'[w] = "idle" => list'[w] = <<>>
    BY Zenon, <2>2 DEF RefInv
  <2>9. \A p \in unsent' : \A w \in Writer : p \notin Range(list'[w])
    BY Zenon, <2>2 DEF RefInv
  <2>10. \A p \in unsent' : pkt'[Flusher] # p /\ \A i \in DOMAIN ctrlPackets' : ctrlPackets'[i] # p
    BY Zenon, <2>2, <2>6, <2>7 DEF RefInv
  <2>11. apc'[Flusher] = "idle" <=> pkt'[Flusher] = NoFrame
    BY Zenon, <2>1, <2>2
  <2> QED
    BY Zenon, <2>5, <2>8, <2>9, <2>10, <2>11 DEF RefInv
<1>9. CASE Flushed
  <2> DEFINE f == pkt[Flusher]
  <2>1. f \in Pkt
    BY Zenon, <1>9 DEF Flushed, A, RefInv, WriteType
  <2>2. /\ UNCHANGED <<unsent, list, ctrlPackets>>
        /\ \A a \in Actor : apc'[a] = IF a = Flusher THEN "idle" ELSE apc[a]
        /\ pkt'[Flusher] = NoFrame
    BY Zenon, <1>9 DEF Flushed, A, PutBuf, WriteType
  <2>3. \A p \in Pkt : refs'[p] = IF p = f THEN refs[p] - 1 ELSE refs[p]
    BY Zenon, <1>9, <2>1 DEF Flushed, WriteType
  <2>4. \A a \in Actor : Holds(a)' = IF a = Flusher THEN {} ELSE Holds(a)
    BY Zenon, <2>2 DEF Holds
  <2>5. ASSUME NEW p \in Pkt
        PROVE  refs'[p] = Cardinality(Holders(p)') + Cardinality(Queued(ctrlPackets, p)')
    <3>1. Holders(p)' = Holders(p) \ {Flusher}
      BY Zenon, <2>4 DEF Holders
    <3>2. Flusher \in Holders(p) <=> p = f
      BY Zenon, <1>h, <2>1
    <3>3. Cardinality(Holders(p) \ {Flusher}) = IF Flusher \in Holders(p) THEN H(p) - 1 ELSE H(p)
      BY ZenonT(60), <1>b, FS_RemoveElement
    <3>4. Cardinality(Queued(ctrlPackets, p)') = Q(p)
      BY Zenon, <2>2 DEF Queued
    <3> HIDE DEF H, Q, f
    <3>5. refs[p] = H(p) + Q(p) /\ H(p) \in Nat /\ Q(p) \in Nat
      BY Zenon, <1>a, <1>b
    <3> QED
      BY <2>3, <3>1, <3>2, <3>3, <3>4, <3>5
  <2>6. RefsExact'
    BY Zenon, <2>5 DEF RefsExact, Holders, Queued
  <2>7. NoFrame \notin unsent'
    BY Zenon, <2>2 DEF WriteType
  <2> QED
    BY Zenon, <2>2, <2>6, <2>7 DEF RefInv
<1> QED
  BY Zenon, FrameSteps, <1>2, <1>3, <1>4, <1>5, <1>6, <1>7, <1>8, <1>9 DEF WriterStep

\* A frame is released when nobody uses it any more and not before: each
\* reference is held by one goroutine or by the queue (WritePackets, the flush
\* loop).
THEOREM RefsAlwaysExact == NicSpec => []RefsExact
<1> DEFINE Inv == WriteType /\ BufInv /\ RefInv
<1>1. ASSUME NicInit PROVE Inv
  <2>1. WriteType /\ BufInv
    BY Zenon, <1>1, WriteTypeInit, Actors DEF NicInit, BufInv, FramesIntact
  <2>2. \A p \in Pkt : Holders(p) = {} /\ Queued(ctrlPackets, p) = {} /\ refs[p] = 0
    BY <1>1, Actors DEF NicInit, Holders, Holds, Queued, Range, Actor
  <2>3. RefsExact
    BY <2>2, FS_EmptySet, RefsOf
  <2> QED
    BY <1>1, <2>1, <2>3, Actors DEF NicInit, RefInv, Range
<1>2. Inv /\ [NicNext]_nicVars => Inv'
  BY Zenon, WriteStep, RefStep
<1>3. Inv => RefsExact
  BY Zenon DEF RefInv
<1> QED
  BY <1>1, <1>2, <1>3, PTL DEF NicSpec
=============================================================================
