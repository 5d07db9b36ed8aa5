----------------------- MODULE Nat64UdpMappingProofs -----------------------
(***************************************************************************)
(* Further proofs about Nat64Udp, for any number of flows and sockets: the *)
(* BIBs implement the abstract NAT mapping of NatMapping, given MapInv and *)
(* that a BIB is known only once it has its socket (BornInv); udpSessions  *)
(* counts no more than there are sessions (CountInv); and neither do the   *)
(* per-source counts unless a session was swept while being set up         *)
(* (HoldInv and SumInv).                                                   *)
(***************************************************************************)
EXTENDS Nat64UdpProofs, FiniteSetTheorems

(***************************************************************************)
(* The refinement of NatMapping.                                           *)
(***************************************************************************)

\* A BIB is known to sessions, flow tables, bibs and the cleaner only once it
\* has its socket.
BornBib    == \A f \in Flow : bibOf[f] # None => sock[bibOf[f]] # "none"
BornFlows  == \A b \in Flow, t \in Tuple : flows[b][t] # None => sock[b] # "none"
BornTable  == \A c \in Sock : bibs[c] # None => sock[bibs[c]] # "none"
BornTarget == cl.pc \in {"closeBib", "cadBib"} => sock[cl.target] # "none"
BornInv    == BornBib /\ BornFlows /\ BornTable /\ BornTarget

natVars == <<NatPort, NatSpent, NatAdmitted>>

\* Two client sockets are never mapped to one BIB.
LEMMA MappedOnce ==
  ASSUME TypeOK, MapInv, NEW c \in Sock, Mapped(c) # None
  PROVE  /\ Mapped(c) \in Flow /\ Serving(Mapped(c)) /\ bibs[c] = Mapped(c)
         /\ key[Mapped(c)].sock = c
  BY Zenon, ConstantsOK DEF Mapped, MapInv, TableInv, TypeOK, BibsOK, FlowOrNone

\* The abstract variables, value by value.
LEMMA NatValues ==
  /\ NatPort = [c \in Sock |-> NatPort[c]] /\ NatPort' = [c \in Sock |-> NatPort'[c]]
  /\ NatAdmitted = [c \in Sock |-> NatAdmitted[c]]
  /\ NatAdmitted' = [c \in Sock |-> NatAdmitted'[c]]
  /\ \A c \in Sock : /\ NatPort[c] = Mapped(c) /\ NatPort'[c] = Mapped(c)'
                     /\ NatAdmitted[c] = Through(Mapped(c))
                     /\ NatAdmitted'[c] = Through(Mapped(c))'
  BY Zenon DEF NatPort, NatAdmitted

\* Steps that leave the BIBs alone are not seen.
LEMMA NatKept ==
  ASSUME UNCHANGED <<bibs, sock, loop, flows>>
  PROVE  UNCHANGED natVars
  BY Zenon DEF natVars, NatPort, NatSpent, NatAdmitted, Mapped, Through, Serving

\* A BIB that is no longer served, and unmapped or not, is a release.
LEMMA NatUnserved ==
  ASSUME TypeOK, MapInv, TypeOK', NEW b \in Flow, UNCHANGED flows,
         \A g \in Flow : sock'[g] = "none" <=> sock[g] = "none",
         ~Serving(b)', \A g \in Flow \ {b} : Serving(g)' = Serving(g),
         \A d \in Sock : bibs'[d] = bibs[d] \/ (bibs[d] = b /\ bibs'[d] = None)
  PROVE  NatMap!Next \/ UNCHANGED natVars
<1>1. NatSpent' = NatSpent
  BY Zenon DEF NatSpent
<1>2. \A d \in Sock : Mapped(d)' = IF Mapped(d) = b THEN None ELSE Mapped(d)
  <2> TAKE d \in Sock
  <2>1. bibs[d] \in FlowOrNone /\ bibs'[d] \in FlowOrNone /\ None \notin Flow
    BY Zenon, ConstantsOK DEF TypeOK, BibsOK
  <2>2. CASE bibs[d] = b
    BY Zenon, <2>1, <2>2 DEF Mapped, FlowOrNone
  <2>3. CASE bibs[d] # b
    <3>1. bibs'[d] = bibs[d]
      BY Zenon, <2>3
    <3>2. bibs[d] # None => Serving(bibs[d])' = Serving(bibs[d])
      BY Zenon, <2>1, <2>3, <3>1 DEF FlowOrNone, Serving
    <3> QED BY Zenon, <2>1, <2>3, <3>1, <3>2 DEF Mapped
  <2> QED BY Zenon, <2>2, <2>3
<1>3. CASE \E d \in Sock : Mapped(d) = b
  <2>1. PICK d \in Sock : Mapped(d) = b
    BY Zenon, <1>3
  <2>2. b # None /\ \A e \in Sock : Mapped(e) = b => e = d
    BY Zenon, <2>1, MappedOnce, ConstantsOK
  <2>3. NatPort' = [NatPort EXCEPT ![d] = None]
    <3>1. \A e \in Sock : NatPort'[e] = IF e = d THEN None ELSE NatPort[e]
      BY <1>2, <2>1, <2>2, NatValues
    <3> QED BY Zenon, <3>1, NatValues
  <2>4. NatAdmitted' = [NatAdmitted EXCEPT ![d] = {}]
    <3>1. \A e \in Sock : Through(Mapped(e))' = IF e = d THEN {} ELSE Through(Mapped(e))
      BY Zenon, <1>2, <2>1, <2>2 DEF Through
    <3>2. \A e \in Sock : NatAdmitted'[e] = IF e = d THEN {} ELSE NatAdmitted[e]
      BY <3>1, NatValues
    <3> QED BY Zenon, <3>2, NatValues
  <2>5. NatPort[d] # None
    BY Zenon, <2>1, <2>2 DEF NatPort
  <2>6. NatMap!Release(d)
    BY Zenon, <1>1, <2>3, <2>4, <2>5 DEF NatMap!Release
  <2> QED BY Zenon, <2>6 DEF NatMap!Next
<1>4. CASE ~\E d \in Sock : Mapped(d) = b
  BY Zenon, <1>1, <1>2, <1>4 DEF natVars, NatPort, NatAdmitted, Through
<1> QED BY Zenon, <1>3, <1>4

\* A step that changes one entry of one flow table admits or forgets.
LEMMA NatFlow ==
  ASSUME TypeOK, MapInv, UNCHANGED <<bibs, sock, loop>>, NEW b \in Flow, NEW t \in Tuple,
         NEW x, flows' = [flows EXCEPT ![b][t] = x]
  PROVE  NatMap!Next \/ UNCHANGED natVars
<1>1. NatSpent' = NatSpent /\ NatPort' = NatPort /\ \A d \in Sock : Mapped(d)' = Mapped(d)
  BY Zenon DEF NatSpent, NatPort, Mapped, Serving
<1>2. flows \in [Flow -> [Tuple -> FlowOrNone]]
  BY Zenon DEF TypeOK, BibsOK
<1>3. \A g \in Flow : g # b => flows'[g] = flows[g]
  BY Zenon, <1>2
<1>4. flows'[b] = [flows[b] EXCEPT ![t] = x]
  BY Zenon, <1>2
<1>5. CASE \E d \in Sock : Mapped(d) = b
  <2>1. PICK d \in Sock : Mapped(d) = b
    BY Zenon, <1>5
  <2>2. b # None /\ \A e \in Sock : Mapped(e) = b => e = d
    BY Zenon, <2>1, MappedOnce, ConstantsOK
  <2>3. \A e \in Sock : e # d => Through(Mapped(e))' = Through(Mapped(e))
    BY <1>1, <1>3, <2>2, MappedOnce DEF Through
  <2>4. Through(Mapped(d)) = {u \in Tuple : flows[b][u] # None}
    BY Zenon, <2>1, <2>2 DEF Through
  <2>5. Through(Mapped(d))' = {u \in Tuple : flows'[b][u] # None}
    BY Zenon, <1>1, <2>1, <2>2 DEF Through
  <2>6. NatPort[d] # None
    BY Zenon, <2>1, <2>2 DEF NatPort
  <2>7. CASE x # None
    <3>1. Through(Mapped(d))' = Through(Mapped(d)) \cup {t}
      BY <1>2, <1>4, <2>4, <2>5, <2>7
    <3>2. NatAdmitted' = [NatAdmitted EXCEPT ![d] = @ \cup {t}]
      <4>1. \A e \in Sock :
              NatAdmitted'[e] = IF e = d THEN NatAdmitted[e] \cup {t} ELSE NatAdmitted[e]
        BY <2>3, <3>1, NatValues
      <4> QED BY Zenon, <4>1, NatValues
    <3>3. NatMap!Admit(d, t)
      BY Zenon, <1>1, <2>6, <3>2 DEF NatMap!Admit
    <3> QED BY Zenon, <3>3 DEF NatMap!Next
  <2>8. CASE x = None
    <3>1. Through(Mapped(d))' = Through(Mapped(d)) \ {t}
      BY Zenon, <1>2, <1>4, <2>4, <2>5, <2>8
    <3>2. NatAdmitted' = [NatAdmitted EXCEPT ![d] = @ \ {t}]
      <4>1. \A e \in Sock :
              NatAdmitted'[e] = IF e = d THEN NatAdmitted[e] \ {t} ELSE NatAdmitted[e]
        BY Zenon, <2>3, <3>1, NatValues
      <4> QED BY Zenon, <4>1, NatValues
    <3>3. NatMap!Forget(d, t)
      BY Zenon, <1>1, <2>6, <3>2 DEF NatMap!Forget
    <3> QED BY Zenon, <3>3 DEF NatMap!Next
  <2> QED BY Zenon, <2>7, <2>8
<1>6. CASE ~\E d \in Sock : Mapped(d) = b
  <2>1. \A e \in Sock : Through(Mapped(e))' = Through(Mapped(e))
    BY <1>1, <1>3, <1>6, MappedOnce DEF Through
  <2> QED BY Zenon, <1>1, <2>1 DEF natVars, NatAdmitted
<1> QED BY Zenon, <1>5, <1>6

\* No BIB is known at first.
LEMMA BornInit == Init => BornInv
  BY DEF Init, BornInv, BornBib, BornFlows, BornTable, BornTarget, NoPass

\* A socket once opened is never unopened, so what a step leaves alone stays
\* as BornInv has it.
LEMMA BornKept ==
  ASSUME BornInv, TypeOK, MapInv, \A g \in Flow : sock[g] # "none" => sock'[g] # "none"
  PROVE  /\ UNCHANGED bibOf => BornBib'
         /\ UNCHANGED flows => BornFlows'
         /\ (\A c \in Sock : bibs'[c] \in {None, bibs[c]}) => BornTable'
         /\ UNCHANGED cl \/ cl'.pc \notin {"closeBib", "cadBib"} => BornTarget'
<1>1. UNCHANGED bibOf => BornBib'
  BY Zenon, ConstantsOK DEF BornInv, BornBib, TypeOK, FlowsOK, FlowOrNone
<1>2. UNCHANGED flows => BornFlows'
  BY Zenon DEF BornInv, BornFlows
<1>3. (\A c \in Sock : bibs'[c] \in {None, bibs[c]}) => BornTable'
  BY Zenon, ConstantsOK DEF BornInv, BornTable, TypeOK, BibsOK, FlowOrNone
<1>4. UNCHANGED cl \/ cl'.pc \notin {"closeBib", "cadBib"} => BornTarget'
  BY Zenon DEF BornInv, BornTarget, MapInv, CleanerInv
<1> QED BY Zenon, <1>1, <1>2, <1>3, <1>4

\* Unmapping changes bibs at one place at most.
LEMMA UnmapOne ==
  ASSUME TypeOK, NEW b \in Flow, bibs' = UnmappedBIB(b)
  PROVE  \A d \in Sock : bibs'[d] = bibs[d] \/ (bibs[d] = b /\ bibs'[d] = None)
  BY Zenon DEF UnmappedBIB, TypeOK, BibsOK

\* getOrCreateBIB stores a BIB under its client socket: a new mapping.
LEMMA NatStore ==
  ASSUME TypeOK, MapInv, BornInv, NEW f \in Flow, StoreBIB(f)
  PROVE  BornInv' /\ (NatMap!Next \/ UNCHANGED natVars)
<1> USE DEF bibVars
<1>0. PICK c \in Sock : c = key[f].sock
  BY Zenon DEF StoreBIB, TypeOK, KeyOK, Key
<1>1. c \in Sock /\ f # None /\ sock[f] = "none" /\ pc[f] = "listen"
  BY Zenon, ConstantsOK DEF StoreBIB, MapInv, LabelInv, FreshPc
<1>2. CASE bibs[c] # None
  <2>1. bibOf' = [bibOf EXCEPT ![f] = bibs[c]] /\ UNCHANGED bibVars /\ UNCHANGED cl
    BY Zenon, <1>0, <1>2 DEF StoreBIB, LoadedBIB
  <2>2. BornFlows' /\ BornTable' /\ BornTarget'
    BY Zenon, <2>1, BornKept
  <2>3. BornBib'
    BY Zenon, <1>1, <2>1 DEF BornInv, BornBib, BornTable, TypeOK, FlowsOK
  <2> QED BY Zenon, <2>1, <2>2, <2>3, NatKept DEF BornInv
<1>3. CASE bibs[c] = None
  <2>1. /\ bibOf' = [bibOf EXCEPT ![f] = f] /\ sock' = [sock EXCEPT ![f] = "open"]
        /\ loop' = [loop EXCEPT ![f] = TRUE] /\ bibs' = [bibs EXCEPT ![c] = f]
        /\ UNCHANGED <<flows, cl>>
    BY Zenon, <1>0, <1>3 DEF StoreBIB, LoadedBIB
  <2>2. /\ sock \in [Flow -> {"none", "open", "closed"}] /\ loop \in [Flow -> BOOLEAN]
        /\ bibs \in [Sock -> FlowOrNone] /\ bibOf \in [Flow -> FlowOrNone]
    BY Zenon DEF TypeOK, BibsOK, FlowsOK
  <2>3. \A g \in Flow : sock[g] # "none" => sock'[g] # "none"
    BY Zenon, <2>1, <2>2
  <2>4. BornInv'
    <3>1. BornFlows' /\ BornTarget'
      BY Zenon, <2>1, <2>3, BornKept
    <3>2. BornBib'
      BY <1>1, <2>1, <2>2 DEF BornInv, BornBib
    <3>3. BornTable'
      BY <1>1, <2>1, <2>2 DEF BornInv, BornTable
    <3> QED BY Zenon, <3>1, <3>2, <3>3 DEF BornInv
  <2>5. NatSpent' = NatSpent \cup {f} /\ f \notin NatSpent
    BY Zenon, <1>1, <2>1, <2>2 DEF NatSpent
  <2>6. Mapped(c)' = f /\ Mapped(c) = None
    BY Zenon, <1>1, <1>3, <2>1, <2>2 DEF Mapped, Serving
  <2>7. \A d \in Sock : d # c => Mapped(d)' = Mapped(d)
    <3> SUFFICES ASSUME NEW d \in Sock, d # c PROVE Mapped(d)' = Mapped(d)
      OBVIOUS
    <3>1. bibs'[d] = bibs[d] /\ bibs[d] \in FlowOrNone
      BY Zenon, <1>1, <2>1, <2>2
    <3>2. bibs[d] # f
      BY Zenon, <1>1 DEF MapInv, TableInv, FreshPc
    <3>3. bibs[d] # None => Serving(bibs[d])' = Serving(bibs[d])
      BY Zenon, <2>1, <2>2, <3>1, <3>2 DEF Serving, FlowOrNone
    <3> QED BY Zenon, <3>1, <3>3 DEF Mapped
  <2>8. NatPort' = [NatPort EXCEPT ![c] = f]
    <3>1. \A d \in Sock : NatPort'[d] = IF d = c THEN f ELSE NatPort[d]
      BY <2>6, <2>7, NatValues
    <3> QED BY Zenon, <1>1, <3>1, NatValues
  <2>9. NatAdmitted' = NatAdmitted
    <3>1. \A t \in Tuple : flows[f][t] = None
      BY Zenon, <1>1 DEF BornInv, BornFlows
    <3>2. Through(Mapped(c))' = {} /\ Through(Mapped(c)) = {}
      BY Zenon, <1>1, <2>1, <2>6, <3>1 DEF Through
    <3>3. \A d \in Sock : Through(Mapped(d))' = Through(Mapped(d))
      BY Zenon, <2>1, <2>7, <3>2 DEF Through
    <3> QED BY <3>3, NatValues
  <2>10. NatMap!Bind(c, f)
    BY Zenon, <1>1, <2>5, <2>6, <2>8, <2>9, NatValues DEF NatMap!Bind
  <2> QED BY Zenon, <1>1, <2>4, <2>10 DEF NatMap!Next
<1> QED BY Zenon, <1>2, <1>3

\* Steps that touch neither BIBs nor the cleaner's target.
LEMMA NatQuiet ==
  ASSUME TypeOK, MapInv, BornInv, UNCHANGED <<bibOf, bibs, sock, loop, flows>>,
         UNCHANGED cl \/ cl'.pc \notin {"closeBib", "cadBib"}
  PROVE  BornInv' /\ UNCHANGED natVars
  BY Zenon, BornKept, NatKept DEF BornInv

\* The NIC loop, and deletion up to the flow entry.
LEMMA NatNic == TypeOK /\ MapInv /\ BornInv /\ NicStep => BornInv' /\ UNCHANGED natVars
  BY Zenon, NatQuiet DEF NicStep, Deliver, HandleUDPForward, AdmitUDPSession, CreateEndpoint,
      flowVars,
    bibVars

\* The set-up goroutine.
LEMMA NatSetup ==
  ASSUME TypeOK, MapInv, BornInv, NEW f \in Flow, SetupStep(f)
  PROVE  BornInv' /\ (NatMap!Next \/ UNCHANGED natVars)
<1> USE DEF flowVars, bibVars
<1>1. CASE LoadBIB(f)
  <2>1. UNCHANGED <<bibVars, cl>>
    BY Zenon, <1>1 DEF LoadBIB
  <2>2. BornFlows' /\ BornTable' /\ BornTarget'
    BY Zenon, <2>1, BornKept
  <2>3. key[f].sock \in Sock
    BY Zenon, <1>1 DEF LoadBIB, TypeOK, KeyOK, Key
  <2>4. BornBib'
    BY Zenon, <1>1, <2>3 DEF LoadBIB, BornInv, BornBib, BornTable, TypeOK, FlowsOK
  <2> QED BY Zenon, <2>1, <2>2, <2>4, NatKept DEF BornInv
<1>2. CASE StoreBIB(f)
  BY Zenon, <1>2, NatStore
<1>3. CASE StoreFlow(f)
  <2>1. bibOf[f] \in Flow /\ f # None /\ key[f].dst \in Tuple
    BY Zenon, <1>3, ConstantsOK DEF StoreFlow, MapInv, LabelInv, BoundPc, TypeOK, FlowsOK,
        FlowOrNone,
      KeyOK, Key
  <2>2. PICK b \in Flow, t \in Tuple : b = bibOf[f] /\ t = key[f].dst
    BY Zenon, <2>1
  <2>3. flows' = [flows EXCEPT ![b][t] = f] /\ UNCHANGED <<bibOf, sock, loop, bibs, cl>>
    BY Zenon, <1>3, <2>2 DEF StoreFlow, FlowSlot
  <2>4. BornBib' /\ BornTable' /\ BornTarget'
    BY Zenon, <2>3, BornKept
  <2>5. BornFlows'
    <3>1. sock[b] # "none"
      BY Zenon, <2>1, <2>2, ConstantsOK DEF BornInv, BornBib
    <3>2. \A g \in Flow : g # b => flows'[g] = flows[g]
      BY Zenon, <2>3 DEF TypeOK, BibsOK
    <3> QED BY Zenon, <2>3, <3>1, <3>2 DEF BornInv, BornFlows
  <2> QED BY ZenonT(60), <2>3, <2>4, <2>5, NatFlow DEF BornInv
<1>4. CASE ListenFails(f) \/ Register(f) \/ Replace(f) \/ CountSession(f) \/ CountSource(f)
  BY Zenon, <1>4, NatQuiet DEF ListenFails, Register, Replace, CountSession, CountSource
<1> QED BY Zenon, <1>1, <1>2, <1>3, <1>4 DEF SetupStep

\* deleteSession.
LEMMA NatDelete ==
  ASSUME TypeOK, MapInv, BornInv, NEW a \in Flow \cup {Nic}, DeleteStep(a)
  PROVE  BornInv' /\ (NatMap!Next \/ UNCHANGED natVars)
<1> USE DEF flowVars, bibVars
<1>1. CASE DeleteFlow(a)
  <2>1. PICK v : v = Victim(a)
    OBVIOUS
  <2>2. flows' = WithoutFlow(v) /\ UNCHANGED <<bibOf, sock, loop, bibs, cl>>
    BY Zenon, <1>1, <2>1 DEF DeleteFlow
  <2>3. flows \in [Flow -> [Tuple -> FlowOrNone]]
    BY Zenon DEF TypeOK, BibsOK
  <2>4. BornBib' /\ BornTable' /\ BornTarget'
    BY Zenon, <2>2, BornKept
  <2>5. CASE flows' = flows
    BY Zenon, <2>2, <2>5, NatQuiet
  <2>6. CASE flows' # flows
    <3>1. PICK b, t : b = bibOf[v] /\ t = key[v].dst
      OBVIOUS
    <3>2. flows' = [flows EXCEPT ![b][t] = None]
      BY Zenon, <2>2, <2>6, <3>1 DEF WithoutFlow
    <3>3. b \in Flow /\ t \in Tuple
      BY Zenon, <2>3, <2>6, <3>2
    <3>4. BornFlows'
      BY Zenon, <2>2, <2>3, <3>2, <3>3 DEF BornInv, BornFlows
    <3> QED BY ZenonT(60), <2>2, <2>4, <3>2, <3>3, <3>4, NatFlow DEF BornInv
  <2> QED BY Zenon, <2>5, <2>6
<1>2. CASE DeleteClose(a) \/ DeleteEntry(a) \/ DeleteCount(a) \/ DeleteSource(a)
  BY Zenon, <1>2, NatQuiet DEF DeleteClose, DeleteEntry, DeleteCount, DeleteSource
<1> QED BY Zenon, <1>1, <1>2 DEF DeleteStep

\* A reply loop ends.
LEMMA NatReplyExit ==
  ASSUME TypeOK, TypeOK', MapInv, BornInv, NEW b \in Flow, ReplyLoopExit(b)
  PROVE  BornInv' /\ (NatMap!Next \/ UNCHANGED natVars)
<1> USE DEF flowVars, bibVars
<1>1. /\ loop' = [loop EXCEPT ![b] = FALSE] /\ UNCHANGED <<sock, flows, bibOf, cl>>
      /\ \A d \in Sock : bibs'[d] = bibs[d] \/ (bibs[d] = b /\ bibs'[d] = None)
  BY Zenon, UnmapOne DEF ReplyLoopExit
<1>2. ~Serving(b)' /\ \A g \in Flow \ {b} : Serving(g)' = Serving(g)
  BY Zenon, <1>1 DEF Serving, TypeOK, BibsOK
<1>3. BornInv'
  BY Zenon, <1>1, BornKept DEF BornInv
<1> QED BY Zenon, <1>1, <1>2, <1>3, NatUnserved

\* The cleaner.
LEMMA NatCleanup ==
  ASSUME TypeOK, TypeOK', MapInv, BornInv, CleanupTick \/ Shutdown \/ CleanupStep
  PROVE  BornInv' /\ (NatMap!Next \/ UNCHANGED natVars)
<1> USE DEF flowVars, bibVars
<1>c. cl \in [pc : CleanPc, cutoff : Int, todo : SUBSET (Key \cup Sock),
              target : FlowOrNone, final : BOOLEAN]
  BY Zenon DEF TypeOK, ClOK
<1>1. CASE CleanupTick \/ Shutdown \/ RangeSessions \/ CloseIdleSession
  <2>1. cl'.pc \in {"sess", "closeSess", "bib"}
    <3>1. CASE CleanupTick \/ Shutdown
      BY Zenon, <1>c, <3>1 DEF CleanupTick, Shutdown
    <3>2. CASE RangeSessions
      BY Zenon, <1>c, <3>2 DEF RangeSessions
    <3>3. CASE CloseIdleSession
      BY Zenon, <1>c, <3>3 DEF CloseIdleSession
    <3> QED BY Zenon, <1>1, <3>1, <3>2, <3>3
  <2> QED
    BY Zenon, <1>1, <2>1, NatQuiet DEF CleanupTick, Shutdown, RangeSessions, CloseIdleSession
<1>2. CASE RangeBIBs
  <2>1. cl.pc = "bib" /\ UNCHANGED <<bibOf, bibs, sock, loop, flows>>
    BY ZenonT(60), <1>2 DEF RangeBIBs
  <2>2. BornTarget'
    <3>1. ASSUME NEW c \in cl.todo, IdleBIB(c),
                 cl' = [cl EXCEPT !.pc = "closeBib", !.target = bibs[c], !.todo = @ \ {c}]
          PROVE  BornTarget'
      <4>1. c \in Sock /\ cl'.target = bibs[c]
        BY Zenon, <1>c, <2>1, <3>1 DEF TypeOK, ClOK
      <4> QED BY Zenon, <2>1, <3>1, <4>1 DEF IdleBIB, BornTarget, BornInv, BornTable
    <3>2. ASSUME NEW c \in cl.todo, cl' = [cl EXCEPT !.todo = @ \ {c}]
          PROVE  BornTarget'
      BY Zenon, <1>c, <2>1, <3>2 DEF BornTarget
    <3>3. CASE cl' \in {NoPass, [NoPass EXCEPT !.pc = "stopped", !.final = TRUE]}
      <4>1. PICK l \in {"idle", "stopped"}, b \in BOOLEAN :
              cl' = [pc |-> l, cutoff |-> 0, todo |-> {}, target |-> None, final |-> b]
        BY ZenonT(60), <3>3 DEF NoPass
      <4> QED BY Zenon, <4>1 DEF BornTarget
    <3> QED BY Zenon, <1>2, <3>1, <3>2, <3>3 DEF RangeBIBs
  <2>3. BornBib' /\ BornFlows' /\ BornTable'
    BY Zenon, <2>1, BornKept
  <2> QED BY Zenon, <2>1, <2>2, <2>3, NatKept DEF BornInv
<1>3. CASE CloseIdleBIB
  <2>1. cl.pc = "closeBib" /\ cl.target \in Flow /\ sock[cl.target] # "none"
    BY Zenon, <1>3 DEF CloseIdleBIB, MapInv, CleanerInv, BornInv, BornTarget
  <2>2. PICK b \in Flow : b = cl.target
    BY Zenon, <2>1
  <2>3. sock' = [sock EXCEPT ![b] = "closed"] /\ UNCHANGED <<bibOf, loop, flows, bibs>>
    BY Zenon, <1>3, <2>2 DEF CloseIdleBIB
  <2>4. ~Serving(b)' /\ \A g \in Flow \ {b} : Serving(g)' = Serving(g)
    BY Zenon, <2>3 DEF Serving, TypeOK, BibsOK
  <2>5. \A g \in Flow : sock'[g] = "none" <=> sock[g] = "none"
    BY Zenon, <2>1, <2>2, <2>3 DEF TypeOK, BibsOK
  <2>6. BornBib' /\ BornFlows' /\ BornTable'
    BY Zenon, <2>3, <2>5, BornKept
  <2>7. BornTarget'
    <3>1. cl'.pc \in {"closeBib", "cadBib"} => cl'.target = b
      BY Zenon, <1>c, <1>3, <2>2 DEF CloseIdleBIB
    <3> QED BY Zenon, <2>1, <2>2, <2>5, <3>1 DEF BornTarget
  <2> QED BY Zenon, <2>3, <2>4, <2>5, <2>6, <2>7, NatUnserved DEF BornInv
<1>4. CASE UnmapIdleBIB
  <2>1. cl.target \in Flow /\ sock[cl.target] = "closed"
    BY Zenon, <1>4 DEF UnmapIdleBIB, MapInv, CleanerInv
  <2>2. PICK b \in Flow : b = cl.target
    BY Zenon, <2>1
  <2>3. /\ UNCHANGED <<bibOf, sock, loop, flows>>
        /\ \A d \in Sock : bibs'[d] = bibs[d] \/ (bibs[d] = b /\ bibs'[d] = None)
    BY Zenon, <1>4, <2>2, UnmapOne DEF UnmapIdleBIB
  <2>4. ~Serving(b)' /\ \A g \in Flow \ {b} : Serving(g)' = Serving(g)
    BY Zenon, <2>1, <2>2, <2>3 DEF Serving
  <2>5. cl'.pc \notin {"closeBib", "cadBib"}
    BY Zenon, <1>c, <1>4 DEF UnmapIdleBIB
  <2>6. BornInv'
    BY Zenon, <2>3, <2>5, BornKept DEF BornInv
  <2> QED BY Zenon, <2>3, <2>4, <2>6, NatUnserved
<1> QED BY Zenon, <1>1, <1>2, <1>3, <1>4 DEF CleanupStep

\* Every step is a step of the abstract NAT or changes nothing of it.
LEMMA NatStep ==
  TypeOK /\ TypeOK' /\ MapInv /\ BornInv /\ [Next]_vars => BornInv' /\ [NatMap!Next]_natVars
<1> SUFFICES ASSUME TypeOK, TypeOK', MapInv, BornInv, [Next]_vars
             PROVE  BornInv' /\ (NatMap!Next \/ UNCHANGED natVars)
  OBVIOUS
<1>1. ASSUME NEW f \in Flow, ForwardStep(f) PROVE BornInv' /\ UNCHANGED natVars
  BY Zenon, <1>1, NatQuiet DEF ForwardStep, ReadDatagram, WriteDatagram, flowVars, bibVars
<1>2. ASSUME NEW s \in Settings, Reload(s) PROVE BornInv' /\ UNCHANGED natVars
  BY Zenon, <1>2, NatQuiet DEF Reload, flowVars, bibVars
<1>3. CASE Advance \/ UNCHANGED vars
  BY Zenon, <1>3, NatQuiet DEF Advance, vars, flowVars, bibVars
<1> QED
  BY Zenon, <1>1, <1>2, <1>3, NatNic, NatSetup, NatDelete, NatReplyExit, NatCleanup DEF Next

\* The BIBs of udp.go implement the abstract NAT mapping for any number of
\* flows, client sockets and destinations.
THEOREM NatMappingImplemented == Spec => ImplementsNatMapping
<1>1. Init => NatMap!Init
  BY Zenon DEF Init, NatMap!Init, NatPort, NatSpent, NatAdmitted, Mapped, Through
<1>2. TypeOK /\ TypeOK' /\ MapInv /\ BornInv /\ [Next]_vars
        => BornInv' /\ [NatMap!Next]_<<NatPort, NatSpent, NatAdmitted>>
  BY Zenon, NatStep DEF natVars
<1> QED
  BY <1>1, <1>2, MapCorrect, BornInit, PTL DEF Spec, ImplementsNatMapping, NatMap!Spec
-----------------------------------------------------------------------------
(***************************************************************************)
(* The occupancy counter.                                                  *)
(***************************************************************************)
Counting == {f \in Flow : pc[f] = "count"}

CountInv ==
  udpSessions + Cardinality(Counting)
    <= Cardinality(Occupied) + Cardinality(Decrementing)

\* The sets that are counted are finite.
LEMMA CountFinite ==
  /\ IsFiniteSet(Occupied) /\ Cardinality(Occupied) \in Nat
  /\ IsFiniteSet(Counting) /\ Cardinality(Counting) \in Nat
  /\ IsFiniteSet(Decrementing) /\ Cardinality(Decrementing) \in Nat
  <1>1. IsFiniteSet(Occupied)
    BY Zenon, ConstantsOK, FS_Subset DEF Occupied
  <1>2. IsFiniteSet(Counting)
    BY Zenon, ConstantsOK, FS_Subset DEF Counting
  <1>3. IsFiniteSet(Flow \cup {Nic})
    BY Zenon, ConstantsOK, FS_AddElement
  <1>4. IsFiniteSet(Decrementing)
    BY Zenon, <1>3, FS_Subset DEF Decrementing
  <1> QED BY Zenon, <1>1, <1>2, <1>4, FS_CardinalityType

\* An empty table is counted as zero.
LEMMA CountInit == Init => CountInv
  <1> SUFFICES ASSUME Init PROVE CountInv
    OBVIOUS
  <1>1. Occupied = {} /\ Counting = {} /\ Decrementing = {}
    BY Zenon DEF Init, Occupied, Counting, Decrementing
  <1>2. udpSessions = 0
    BY Zenon DEF Init
  <1> QED BY <1>1, <1>2, FS_EmptySet DEF CountInv

\* A goroutine moves between two labels at which it owes the counter nothing.
LEMMA CountKept ==
  ASSUME CountInv, UNCHANGED <<sessions, udpSessions>>,
         \A a \in Flow \cup {Nic} :
           /\ pc'[a] = "count" <=> pc[a] = "count"
           /\ pc'[a] = "dec" <=> pc[a] = "dec"
  PROVE  CountInv'
  <1>1. Occupied' = Occupied
    BY Zenon DEF Occupied
  <1>2. Counting' = Counting /\ Decrementing' = Decrementing
    BY Zenon DEF Counting, Decrementing
  <1> QED BY Zenon, <1>1, <1>2 DEF CountInv

\* In particular one that only moves on.
LEMMA CountGoto ==
  ASSUME CountInv, TypeOK, UNCHANGED <<sessions, udpSessions>>,
         NEW a \in Flow \cup {Nic}, NEW l, Goto(a, l),
         l \notin {"count", "dec"}, pc[a] \notin {"count", "dec"}
  PROVE  CountInv'
  <1>1. \A b \in Flow \cup {Nic} :
           /\ pc'[b] = "count" <=> pc[b] = "count"
           /\ pc'[b] = "dec" <=> pc[b] = "dec"
    BY Zenon DEF Goto, TypeOK, PcOK
  <1> QED BY Zenon, <1>1, CountKept

\* Admission and eviction: the evicting step owes one decrement from then on.
LEMMA CountNic == CountInv /\ TypeOK /\ NicStep => CountInv'
  <1> SUFFICES ASSUME CountInv, TypeOK, NicStep PROVE CountInv'
    OBVIOUS
  <1> USE DEF tabVars
  <1>1. ASSUME NEW k \in Key, Deliver(k) PROVE CountInv'
    BY Zenon, <1>1, CountKept DEF Deliver
  <1>2. ASSUME NEW k \in Key, HandleUDPForward(k) PROVE CountInv'
    BY Zenon, <1>2, CountGoto DEF HandleUDPForward
  <1>3. CASE AdmitUDPSession
    <2>1. PICK l \in {"create", "close", "idle"} : Goto(Nic, l) \/ UNCHANGED pc
      BY ZenonT(60), <1>3 DEF AdmitUDPSession
    <2>2. CASE UNCHANGED pc
      BY ZenonT(60), <1>3, <2>2, CountKept DEF AdmitUDPSession
    <2>3. CASE Goto(Nic, l)
      BY ZenonT(60), <1>3, <2>1, <2>3, CountGoto DEF AdmitUDPSession
    <2> QED BY Zenon, <2>1, <2>2, <2>3
  <1>4. CASE CreateEndpoint
    <2>1. \A b \in Flow \cup {Nic} :
             /\ pc'[b] = "count" <=> pc[b] = "count"
             /\ pc'[b] = "dec" <=> pc[b] = "dec"
      BY Zenon, <1>4 DEF CreateEndpoint, Goto, TypeOK, PcOK
    <2> QED BY Zenon, <1>4, <2>1, CountKept DEF CreateEndpoint
  <1> QED BY Zenon, <1>1, <1>2, <1>3, <1>4 DEF NicStep

\* Registration counts a session after it is stored, never before.
LEMMA CountSetup ==
  ASSUME CountInv, TypeOK, NEW f \in Flow, SetupStep(f)
  PROVE  CountInv'
  <1> USE DEF tabVars
  <1>t. /\ f # None /\ f # Nic /\ udpSessions \in Int
        /\ pc[f] # "free" => key[f] \in Key
    BY Zenon, ConstantsOK DEF TypeOK, TabsOK, KeyOK
  \* The goroutine stores its session.
  <1>s. ASSUME sessions' = [sessions EXCEPT ![key[f]] = f], key[f] \in Key
        PROVE  Occupied' = Occupied \cup {key[f]}
    BY Zenon, <1>s, <1>t DEF Occupied, TypeOK, TabsOK
  <1>1. CASE LoadBIB(f)
    BY Zenon, <1>1, CountGoto DEF LoadBIB
  <1>2. CASE ListenFails(f)
    BY Zenon, <1>2, CountGoto DEF ListenFails
  <1>3. CASE StoreBIB(f)
    BY Zenon, <1>3, CountGoto DEF StoreBIB
  <1>4. CASE Register(f)
    <2>1. CASE sessions[key[f]] = None
      <3>1. /\ sessions' = [sessions EXCEPT ![key[f]] = f]
            /\ Goto(f, "count") /\ pc[f] = "register" /\ UNCHANGED udpSessions
        BY Zenon, <1>4, <2>1 DEF Register
      <3>2. key[f] \in Key \ Occupied
        BY Zenon, <1>t, <2>1, <3>1 DEF Occupied
      <3>3. Occupied' = Occupied \cup {key[f]}
        BY Zenon, <1>s, <3>1, <3>2
      <3>4. /\ Counting' = Counting \cup {f} /\ f \notin Counting
            /\ Decrementing' = Decrementing
        BY Zenon, <1>t, <3>1 DEF Counting, Decrementing, Goto, TypeOK, PcOK
      <3>5. /\ Cardinality(Occupied') = Cardinality(Occupied) + 1
            /\ Cardinality(Counting') = Cardinality(Counting) + 1
        BY ZenonT(60), <3>2, <3>3, <3>4, CountFinite, FS_AddElement
      <3> QED BY <1>t, <3>1, <3>4, <3>5, CountFinite DEF CountInv
    <2>2. CASE sessions[key[f]] # None
      BY Zenon, <1>4, <2>2, CountGoto DEF Register
    <2> QED BY Zenon, <2>1, <2>2
  <1>5. CASE Replace(f)
    <2>1. /\ sessions' = [sessions EXCEPT ![key[f]] = f] /\ key[f] \in Key
          /\ pc[f] = "replace" /\ Goto(f, "flow") /\ UNCHANGED udpSessions
      BY Zenon, <1>5, <1>t DEF Replace
    <2>2. Counting' = Counting /\ Decrementing' = Decrementing
      BY Zenon, <2>1 DEF Counting, Decrementing, Goto, TypeOK, PcOK
    <2>3. Cardinality(Occupied') >= Cardinality(Occupied)
      <3>1. Occupied' = Occupied \cup {key[f]}
        BY Zenon, <1>s, <2>1
      <3>2. \/ Cardinality(Occupied \cup {key[f]}) = Cardinality(Occupied)
            \/ Cardinality(Occupied \cup {key[f]}) = Cardinality(Occupied) + 1
        BY ZenonT(60), CountFinite, FS_AddElement
      <3> QED BY <3>1, <3>2, CountFinite
    <2>4. Cardinality(Occupied') \in Nat
      BY ZenonT(60), <1>s, <2>1, CountFinite, FS_AddElement, FS_CardinalityType
    <2> QED BY <1>t, <2>1, <2>2, <2>3, <2>4, CountFinite DEF CountInv
  <1>6. CASE CountSession(f)
    <2>1. /\ pc[f] = "count" /\ Goto(f, "src") /\ UNCHANGED sessions
          /\ udpSessions' = udpSessions + 1
      BY Zenon, <1>6 DEF CountSession
    <2>2. /\ Counting' = Counting \ {f} /\ f \in Counting
          /\ Decrementing' = Decrementing
      BY Zenon, <1>t, <2>1 DEF Counting, Decrementing, Goto, TypeOK, PcOK
    <2>3. Occupied' = Occupied
      BY Zenon, <2>1 DEF Occupied
    <2>4. Cardinality(Counting') = Cardinality(Counting) - 1
      BY ZenonT(60), <2>2, CountFinite, FS_RemoveElement
    <2> QED BY <1>t, <2>1, <2>2, <2>3, <2>4, CountFinite DEF CountInv
  <1>7. CASE CountSource(f)
    BY Zenon, <1>7, CountGoto DEF CountSource
  <1>8. CASE StoreFlow(f)
    BY Zenon, <1>8, CountGoto DEF StoreFlow
  <1> QED BY Zenon, <1>1, <1>2, <1>3, <1>4, <1>5, <1>6, <1>7, <1>8 DEF SetupStep

\* deleteSession decrements once for the entry it removed.
LEMMA CountDelete ==
  ASSUME CountInv, TypeOK, NEW a \in Flow \cup {Nic}, DeleteStep(a)
  PROVE  CountInv'
  <1> USE DEF tabVars
  <1>t. udpSessions \in Int
    BY Zenon DEF TypeOK, TabsOK
  <1>1. CASE DeleteClose(a)
    BY Zenon, <1>1, CountGoto DEF DeleteClose
  <1>2. CASE DeleteEntry(a)
    <2>1. CASE UNCHANGED sessions
      <3>1. CASE Goto(a, AfterDelete(a))
        BY Zenon, <1>2, <2>1, <3>1, CountGoto DEF DeleteEntry, AfterDelete
      <3>2. CASE Goto(a, "dec")
        <4>1. /\ Decrementing' = Decrementing \cup {a} /\ a \notin Decrementing
              /\ Counting' = Counting /\ Occupied' = Occupied
              /\ UNCHANGED udpSessions
          BY Zenon, <1>2, <2>1, <3>2
          DEF DeleteEntry, Counting, Decrementing, Occupied, Goto, TypeOK, PcOK
        <4>2. Cardinality(Decrementing') = Cardinality(Decrementing) + 1
          BY ZenonT(60), <4>1, CountFinite, FS_AddElement
        <4> QED BY <1>t, <4>1, <4>2, CountFinite DEF CountInv
      <3> QED BY Zenon, <1>2, <3>1, <3>2 DEF DeleteEntry
    <2>2. CASE /\ sessions' = [sessions EXCEPT ![key[Victim(a)]] = None]
               /\ Goto(a, "dec")
      <3>1. /\ Decrementing' = Decrementing \cup {a} /\ a \notin Decrementing
            /\ Counting' = Counting /\ UNCHANGED udpSessions
        BY Zenon, <1>2, <2>2 DEF DeleteEntry, Counting, Decrementing, Goto, TypeOK, PcOK
      <3>2. Cardinality(Decrementing') = Cardinality(Decrementing) + 1
        BY ZenonT(60), <3>1, CountFinite, FS_AddElement
      <3>3. Occupied' = Occupied \ {key[Victim(a)]}
        BY Zenon, <2>2 DEF Occupied, TypeOK, TabsOK
      <3>4. \/ Cardinality(Occupied') = Cardinality(Occupied)
            \/ Cardinality(Occupied') = Cardinality(Occupied) - 1
        BY Zenon, <3>3, CountFinite, FS_RemoveElement
      <3> QED BY <1>t, <3>1, <3>2, <3>4, CountFinite DEF CountInv
    <2> QED BY Zenon, <1>2, <2>1, <2>2 DEF DeleteEntry
  <1>3. CASE DeleteCount(a)
    <2>1. /\ pc[a] = "dec" /\ Goto(a, "rem") /\ UNCHANGED sessions
          /\ udpSessions' = udpSessions - 1
      BY Zenon, <1>3 DEF DeleteCount
    <2>2. /\ Decrementing' = Decrementing \ {a} /\ a \in Decrementing
          /\ Counting' = Counting /\ Occupied' = Occupied
      BY Zenon, <2>1 DEF Counting, Decrementing, Occupied, Goto, TypeOK, PcOK
    <2>3. Cardinality(Decrementing') = Cardinality(Decrementing) - 1
      BY ZenonT(60), <2>2, CountFinite, FS_RemoveElement
    <2> QED BY <1>t, <2>1, <2>2, <2>3, CountFinite DEF CountInv
  <1>4. CASE DeleteSource(a)
    BY Zenon, <1>4, CountGoto DEF DeleteSource
  <1>5. CASE DeleteFlow(a)
    BY Zenon, <1>5, CountGoto DEF DeleteFlow, AfterDelete
  <1> QED BY Zenon, <1>1, <1>2, <1>3, <1>4, <1>5 DEF DeleteStep

\* Every step keeps the count.
LEMMA CountStep == CountInv /\ TypeOK /\ [Next]_vars => CountInv'
  <1> SUFFICES ASSUME CountInv, TypeOK, [Next]_vars PROVE CountInv'
    OBVIOUS
  <1> USE DEF tabVars
  <1>1. ASSUME NEW f \in Flow, ForwardStep(f) PROVE CountInv'
    BY Zenon, <1>1, CountGoto DEF ForwardStep, ReadDatagram, WriteDatagram, LoopExit
  <1>2. ASSUME NEW b \in Flow, ReplyLoopExit(b) PROVE CountInv'
    BY Zenon, <1>2, CountKept DEF ReplyLoopExit
  <1>3. CASE CleanupTick \/ Shutdown \/ CleanupStep
    BY ZenonT(60), <1>3, CountKept
    DEF CleanupTick, Shutdown, CleanupStep, RangeSessions, CloseIdleSession,
        RangeBIBs, CloseIdleBIB, UnmapIdleBIB
  <1>4. ASSUME NEW s \in Settings, Reload(s) PROVE CountInv'
    BY Zenon, <1>4, CountKept DEF Reload
  <1>5. CASE Advance
    BY Zenon, <1>5, CountKept DEF Advance
  <1>6. CASE UNCHANGED vars
    BY Zenon, <1>6, CountKept DEF vars
  <1> QED
    BY Zenon, <1>1, <1>2, <1>3, <1>4, <1>5, <1>6, CountNic, CountSetup, CountDelete
    DEF Next

\* udpSessions never counts more than the session table holds, decrements
\* still owed apart, so admitUDPSession never refuses on a leaked count.
THEOREM CountBounded == Spec => []CountNeverOver
  <1>1. ASSUME TypeOK, CountInv PROVE CountNeverOver
    BY <1>1, CountFinite DEF CountInv, CountNeverOver, TypeOK, TabsOK
  <1>2. Spec => [](TypeOK /\ CountInv)
    BY TypeInit, TypeStep, CountInit, CountStep, PTL DEF Spec
  <1> QED BY <1>1, <1>2, PTL
-----------------------------------------------------------------------------
(***************************************************************************)
(* The per-source counts.  A session is counted some time after it was     *)
(* stored; while no session is swept in its set-up it keeps its entry      *)
(* until then, and whoever deletes it later takes its count back.          *)
(***************************************************************************)
UncountedPc == {"count", "src"}
RemovePc    == {"dec", "rem"}

\* The entries of a source whose session has been counted, or never will be.
Settled(s) == {k \in Occupied : SrcOf[k.sock] = s /\ pc[sessions[k]] \notin UncountedPc}

\* Who took a session of a source from the table and still has to uncount it.
Removing(s) == {a \in Flow \cup {Nic} : pc[a] \in RemovePc /\ SrcOf[key[Victim(a)].sock] = s}

HoldInv == \A f \in Flow : pc[f] \in UncountedPc => sessions[key[f]] = f

SumInv == \A s \in Src :
            srcCounts[s] <= Cardinality(Settled(s)) + Cardinality(Removing(s))

\* The sets that are counted are finite, before a step and after it.
LEMMA SourceFinite ==
  ASSUME NEW s
  PROVE  /\ IsFiniteSet(Settled(s)) /\ Cardinality(Settled(s)) \in Nat
         /\ IsFiniteSet(Removing(s)) /\ Cardinality(Removing(s)) \in Nat
         /\ IsFiniteSet(Settled(s)') /\ Cardinality(Settled(s)') \in Nat
         /\ IsFiniteSet(Removing(s)') /\ Cardinality(Removing(s)') \in Nat
  <1>1. /\ Settled(s) \subseteq Key /\ Settled(s)' \subseteq Key
        /\ Removing(s) \subseteq Flow \cup {Nic} /\ Removing(s)' \subseteq Flow \cup {Nic}
    BY Zenon DEF Settled, Removing, Occupied
  <1>2. IsFiniteSet(Flow \cup {Nic}) /\ IsFiniteSet(Key)
    BY Zenon, ConstantsOK, FS_AddElement
  <1>3. /\ IsFiniteSet(Settled(s)) /\ IsFiniteSet(Settled(s)')
        /\ IsFiniteSet(Removing(s)) /\ IsFiniteSet(Removing(s)')
    BY Zenon, <1>1, <1>2, FS_Subset
  <1> QED BY Zenon, <1>3, FS_CardinalityType

\* Those who have to uncount a session go on with it.
LEMMA SourceVictims ==
  ASSUME VictimInv, nic' = nic \/ pc[Nic] \notin RemovePc,
         \A f \in Flow : pc[f] # "free" => key'[f] = key[f],
         NEW a \in Flow \cup {Nic}, pc[a] \in RemovePc
  PROVE  key'[Victim(a)'] = key[Victim(a)]
  <1>1. CASE a = Nic
    <2>1. nic' = nic /\ nic.victim \in Flow /\ pc[nic.victim] # "free"
      BY Zenon, <1>1 DEF VictimInv, RemovePc, DeletePc
    <2> QED BY Zenon, <1>1, <2>1 DEF Victim
  <1>2. CASE a # Nic
    <2>1. Victim(a) = a /\ Victim(a)' = a /\ a \in Flow
      BY Zenon, <1>2 DEF Victim
    <2> QED BY Zenon, <2>1 DEF RemovePc
  <1> QED BY Zenon, <1>1, <1>2

\* A step that stores and counts nothing, and owes what was owed before it.
LEMMA SourceKept ==
  ASSUME TypeOK, VictimInv, HoldInv, SumInv, UNCHANGED <<sessions, srcCounts>>,
         nic' = nic \/ pc[Nic] \notin RemovePc,
         \A f \in Flow : /\ pc'[f] \in UncountedPc <=> pc[f] \in UncountedPc
                         /\ pc[f] # "free" => key'[f] = key[f],
         \A a \in Flow \cup {Nic} : pc'[a] \in RemovePc <=> pc[a] \in RemovePc
  PROVE  HoldInv' /\ SumInv'
  <1>1. HoldInv'
    BY Zenon DEF HoldInv, UncountedPc
  <1>2. \A k \in Occupied : sessions[k] \in Flow
    BY Zenon DEF TypeOK, TabsOK, Occupied, FlowOrNone
  <1>3. Occupied' = Occupied
    BY Zenon DEF Occupied
  <1>4. ASSUME NEW s \in Src PROVE Settled(s)' = Settled(s) /\ Removing(s)' = Removing(s)
    <2>1. Settled(s)' = Settled(s)
      BY Zenon, <1>2, <1>3 DEF Settled
    <2>2. \A a \in Flow \cup {Nic} : pc[a] \in RemovePc => key'[Victim(a)'] = key[Victim(a)]
      BY Zenon, SourceVictims
    <2>3. Removing(s)' = Removing(s)
      BY Zenon, <2>2 DEF Removing
    <2> QED BY Zenon, <2>1, <2>3
  <1>5. SumInv'
    BY Zenon, <1>4 DEF SumInv
  <1> QED BY Zenon, <1>1, <1>5

\* In particular one that only moves a goroutine on.
LEMMA SourceGoto ==
  ASSUME TypeOK, VictimInv, HoldInv, SumInv, UNCHANGED <<sessions, srcCounts, key>>,
         nic' = nic \/ pc[Nic] \notin RemovePc,
         NEW a \in Flow \cup {Nic}, NEW l, Goto(a, l),
         l \in UncountedPc <=> pc[a] \in UncountedPc,
         l \in RemovePc <=> pc[a] \in RemovePc
  PROVE  HoldInv' /\ SumInv'
  <1>1. \A b \in Flow \cup {Nic} : /\ pc'[b] \in UncountedPc <=> pc[b] \in UncountedPc
                                   /\ pc'[b] \in RemovePc <=> pc[b] \in RemovePc
    BY Zenon DEF Goto, TypeOK, PcOK
  <1> QED BY Zenon, <1>1, SourceKept

\* Nobody who has to uncount a session is done with it by another's step.
LEMMA SourceOthers ==
  ASSUME VictimInv, nic' = nic, key' = key, NEW s,
         \A a \in Flow \cup {Nic} : pc[a] \in RemovePc => pc'[a] \in RemovePc
  PROVE  Removing(s) \subseteq Removing(s)'
  <1>1. \A a \in Flow \cup {Nic} : pc[a] \in RemovePc => key'[Victim(a)'] = key[Victim(a)]
    BY Zenon, SourceVictims
  <1> QED BY Zenon, <1>1 DEF Removing

\* What a goroutine's step changes for its own source only.
LEMMA SourceSum ==
  ASSUME TypeOK, SumInv, NEW r \in Src,
         srcCounts' \in [Src -> Nat],
         \A s \in Src \ {r} : /\ srcCounts'[s] = srcCounts[s]
                              /\ Settled(s) \subseteq Settled(s)'
                              /\ Removing(s) \subseteq Removing(s)',
         srcCounts'[r] <= Cardinality(Settled(r)') + Cardinality(Removing(r)')
  PROVE  SumInv'
  <1> SUFFICES ASSUME NEW s \in Src
               PROVE  srcCounts'[s] <= Cardinality(Settled(s)') + Cardinality(Removing(s)')
    BY Zenon DEF SumInv
  <1>1. CASE s = r
    BY Zenon, <1>1
  <1>2. CASE s # r
    <2>1. /\ Cardinality(Settled(s)) <= Cardinality(Settled(s)')
          /\ Cardinality(Removing(s)) <= Cardinality(Removing(s)')
      BY Zenon, <1>2, SourceFinite, FS_Subset
    <2>2. srcCounts[s] <= Cardinality(Settled(s)) + Cardinality(Removing(s))
      BY Zenon DEF SumInv
    <2>3. srcCounts'[s] = srcCounts[s] /\ srcCounts[s] \in Nat
      BY Zenon, <1>2 DEF TypeOK, TabsOK
    <2> QED BY <2>1, <2>2, <2>3, SourceFinite
  <1> QED BY Zenon, <1>1, <1>2

\* A step that only adds entries and counts nothing.
LEMMA SourceGrows ==
  ASSUME TypeOK, SumInv, UNCHANGED srcCounts,
         \A s \in Src : Settled(s) \subseteq Settled(s)' /\ Removing(s) \subseteq Removing(s)'
  PROVE  SumInv'
  <1> SUFFICES ASSUME NEW s \in Src
               PROVE  srcCounts[s] <= Cardinality(Settled(s)') + Cardinality(Removing(s)')
    BY Zenon DEF SumInv
  <1>1. /\ Cardinality(Settled(s)) <= Cardinality(Settled(s)')
        /\ Cardinality(Removing(s)) <= Cardinality(Removing(s)')
    BY Zenon, SourceFinite, FS_Subset
  <1>2. /\ srcCounts[s] <= Cardinality(Settled(s)) + Cardinality(Removing(s))
        /\ srcCounts[s] \in Nat
    BY Zenon DEF SumInv, TypeOK, TabsOK
  <1> QED BY <1>1, <1>2, SourceFinite

\* A set that lost at most one element, and one that gained one.
LEMMA SourceFewer ==
  ASSUME NEW S, NEW T, NEW x, IsFiniteSet(S), IsFiniteSet(T), S \ {x} \subseteq T
  PROVE  Cardinality(T) >= Cardinality(S) - 1
  <1>1. /\ IsFiniteSet(S \ {x})
        /\ \/ Cardinality(S \ {x}) = Cardinality(S)
           \/ Cardinality(S \ {x}) = Cardinality(S) - 1
    BY ZenonT(60), FS_RemoveElement
  <1>2. Cardinality(S \ {x}) <= Cardinality(T)
    BY Zenon, FS_Subset
  <1>3. Cardinality(S) \in Nat /\ Cardinality(T) \in Nat
    BY Zenon, FS_CardinalityType
  <1> QED BY <1>1, <1>2, <1>3

\* See above.
LEMMA SourceMore ==
  ASSUME NEW S, NEW T, NEW x, IsFiniteSet(S), IsFiniteSet(T), S \cup {x} \subseteq T, x \notin S
  PROVE  Cardinality(T) >= Cardinality(S) + 1
  <1>1. Cardinality(S \cup {x}) = Cardinality(S) + 1
    BY ZenonT(60), FS_AddElement
  <1>2. Cardinality(S \cup {x}) <= Cardinality(T)
    BY Zenon, FS_Subset
  <1>3. Cardinality(S) \in Nat /\ Cardinality(T) \in Nat
    BY Zenon, FS_CardinalityType
  <1> QED BY Zenon, <1>1, <1>2, <1>3

\* Registration: the entry is stored first and counted while it is kept, and
\* a replaced entry stays an entry.
LEMMA SourceSetup ==
  ASSUME TypeOK, DemuxInv, EntryInv, HoldInv, SumInv, NEW f \in Flow, SetupStep(f)
  PROVE  HoldInv' /\ SumInv'
  <1> USE DEF tabVars, flowVars, UncountedPc, RemovePc
  <1>r. OpenOnce /\ TabledInv /\ VictimInv
    BY Zenon DEF DemuxInv
  <1>t. /\ f # None /\ f # Nic
        /\ pc[f] # "free" => key[f] \in Key
        /\ pc[f] # "free" => SrcOf[key[f].sock] \in Src
    BY Zenon, ConstantsOK DEF TypeOK, KeyOK, Key
  <1>c. srcCounts \in [Src -> Nat] /\ sessions \in [Key -> Flow \cup {None}]
    BY Zenon DEF TypeOK, TabsOK, FlowOrNone
  <1>g. ASSUME NEW l, Goto(f, l)
        PROVE  pc'[f] = l /\ \A g \in Flow \cup {Nic} : g # f => pc'[g] = pc[g]
    BY Zenon, <1>g DEF Goto, TypeOK, PcOK
  <1>1. CASE LoadBIB(f)
    BY Zenon, <1>1, <1>r, SourceGoto DEF LoadBIB
  <1>2. CASE ListenFails(f)
    BY Zenon, <1>2, <1>r, SourceGoto DEF ListenFails
  <1>3. CASE StoreBIB(f)
    BY Zenon, <1>3, <1>r, SourceGoto DEF StoreBIB
  <1>4. CASE Register(f)
    <2>1. CASE sessions[key[f]] = None
      <3>1. /\ sessions' = [sessions EXCEPT ![key[f]] = f] /\ pc[f] = "register"
            /\ pc'[f] = "count" /\ key' = key /\ nic' = nic /\ srcCounts' = srcCounts
            /\ \A g \in Flow \cup {Nic} : g # f => pc'[g] = pc[g]
        BY Zenon, <1>4, <1>g, <2>1 DEF Register
      <3>2. key[f] \in Key
        BY Zenon, <1>t, <3>1
      <3>3. HoldInv'
        <4>1. sessions'[key[f]] = f
          BY Zenon, <1>c, <3>1, <3>2
        <4>2. ASSUME NEW g \in Flow, g # f, pc[g] \in UncountedPc
              PROVE  sessions'[key[g]] = g
          <5>1. sessions[key[g]] = g /\ g # None /\ key[g] \in Key
            BY Zenon, <4>2, ConstantsOK DEF HoldInv, TypeOK, KeyOK
          <5> QED BY Zenon, <1>c, <2>1, <3>1, <5>1
        <4> QED BY Zenon, <3>1, <4>1, <4>2 DEF HoldInv
      <3>4. \A k \in Key : sessions[k] # f
        BY Zenon, <1>r, <1>t, <3>1 DEF TabledInv
      <3>5. ASSUME NEW s \in Src
            PROVE  Settled(s) \subseteq Settled(s)' /\ Removing(s) \subseteq Removing(s)'
        <4>1. ASSUME NEW k \in Settled(s) PROVE k \in Settled(s)'
          <5>1. k \in Key /\ sessions[k] # None /\ SrcOf[k.sock] = s /\ pc[sessions[k]] \notin UncountedPc
            BY Zenon, <4>1 DEF Settled, Occupied
          <5>2. k # key[f] /\ sessions'[k] = sessions[k] /\ sessions[k] \in Flow
            BY Zenon, <1>c, <2>1, <3>1, <5>1
          <5>3. pc'[sessions[k]] = pc[sessions[k]]
            BY Zenon, <3>1, <3>4, <5>1, <5>2
          <5> QED BY Zenon, <5>1, <5>2, <5>3 DEF Settled, Occupied
        <4>2. Removing(s) \subseteq Removing(s)'
          BY Zenon, <1>r, <3>1, SourceOthers
        <4> QED BY Zenon, <4>1, <4>2
      <3>6. SumInv'
        BY Zenon, <3>1, <3>5, SourceGrows
      <3> QED BY Zenon, <3>3, <3>6
    <2>2. CASE sessions[key[f]] # None
      BY Zenon, <1>4, <1>r, <2>2, SourceGoto DEF Register
    <2> QED BY Zenon, <2>1, <2>2
  <1>5. CASE Replace(f)
    <2>1. /\ sessions' = [sessions EXCEPT ![key[f]] = f] /\ pc[f] = "replace"
          /\ pc'[f] = "flow" /\ key' = key /\ nic' = nic /\ srcCounts' = srcCounts
          /\ \A g \in Flow \cup {Nic} : g # f => pc'[g] = pc[g]
      BY Zenon, <1>5, <1>g DEF Replace
    <2>2. key[f] \in Key
      BY Zenon, <1>t, <2>1
    <2>3. ASSUME NEW g \in Flow, pc[g] \in UncountedPc PROVE key[g] # key[f]
      <3>1. ep[f] = "open" /\ ep[g] = "open"
        BY Zenon, <2>1, <2>3 DEF EntryInv, SetupPc
      <3>2. f # g
        BY Zenon, <2>1, <2>3
      <3> QED BY Zenon, <1>r, <3>1, <3>2 DEF OpenOnce
    <2>4. HoldInv'
      BY <1>c, <1>t, <2>1, <2>2, <2>3 DEF HoldInv
    <2>5. ASSUME NEW s \in Src
          PROVE  Settled(s) \subseteq Settled(s)' /\ Removing(s) \subseteq Removing(s)'
      <3>1. ASSUME NEW k \in Settled(s) PROVE k \in Settled(s)'
        <4>1. k \in Key /\ sessions[k] # None /\ SrcOf[k.sock] = s /\ pc[sessions[k]] \notin UncountedPc
          BY Zenon, <3>1 DEF Settled, Occupied
        <4>2. sessions'[k] \in {f, sessions[k]} /\ sessions[k] \in Flow
          BY Zenon, <1>c, <2>1, <4>1
        <4>3. pc'[sessions'[k]] \notin UncountedPc /\ sessions'[k] # None
          BY Zenon, <1>t, <2>1, <4>1, <4>2
        <4> QED BY Zenon, <4>1, <4>3 DEF Settled, Occupied
      <3>2. Removing(s) \subseteq Removing(s)'
        BY Zenon, <1>r, <2>1, SourceOthers
      <3> QED BY Zenon, <3>1, <3>2
    <2>6. SumInv'
      BY Zenon, <2>1, <2>5, SourceGrows
    <2> QED BY Zenon, <2>4, <2>6
  <1>6. CASE CountSession(f)
    BY Zenon, <1>6, <1>r, SourceGoto DEF CountSession
  <1>7. CASE CountSource(f)
    <2>0. SrcOf[key[f].sock] \in Src
      BY Zenon, <1>7, <1>t DEF CountSource
    <2>r. PICK r \in Src : r = SrcOf[key[f].sock]
      BY Zenon, <2>0
    <2>1. /\ pc[f] = "src" /\ pc'[f] = "flow" /\ key' = key /\ nic' = nic /\ sessions' = sessions
          /\ srcCounts' = [srcCounts EXCEPT ![r] = @ + 1]
          /\ \A g \in Flow \cup {Nic} : g # f => pc'[g] = pc[g]
      BY Zenon, <1>7, <1>g, <2>r DEF CountSource
    <2>2. key[f] \in Key /\ sessions[key[f]] = f
      BY Zenon, <1>t, <2>1 DEF HoldInv
    <2>3. HoldInv'
      BY Zenon, <2>1 DEF HoldInv
    <2>4. ASSUME NEW s \in Src
          PROVE  Settled(s) \subseteq Settled(s)' /\ Removing(s) \subseteq Removing(s)'
      <3>1. \A k \in Occupied : sessions[k] \in Flow /\ sessions'[k] = sessions[k]
        BY Zenon, <1>c, <2>1 DEF Occupied
      <3>2. Settled(s) \subseteq Settled(s)'
        BY Zenon, <2>1, <3>1 DEF Settled, Occupied
      <3>3. Removing(s) \subseteq Removing(s)'
        BY Zenon, <1>r, <2>1, SourceOthers
      <3> QED BY Zenon, <3>2, <3>3
    <2>5. key[f] \in Settled(r)' /\ key[f] \notin Settled(r)
      BY Zenon, <1>t, <2>r, <2>1, <2>2 DEF Settled, Occupied
    <2>6. Cardinality(Settled(r)') >= Cardinality(Settled(r)) + 1
      <3>1. Settled(r) \cup {key[f]} \subseteq Settled(r)'
        BY Zenon, <2>4, <2>5
      <3> QED BY Zenon, <2>5, <3>1, SourceFinite, SourceMore
    <2>7. Cardinality(Removing(r)) <= Cardinality(Removing(r)')
      BY Zenon, <2>2, <2>4, SourceFinite, FS_Subset
    <2>8. /\ srcCounts'[r] = srcCounts[r] + 1 /\ srcCounts[r] \in Nat
          /\ srcCounts' \in [Src -> Nat]
          /\ \A s \in Src \ {r} : srcCounts'[s] = srcCounts[s]
      BY <1>c, <2>1, <2>2
    <2>9. srcCounts'[r] <= Cardinality(Settled(r)') + Cardinality(Removing(r)')
      BY <2>2, <2>6, <2>7, <2>8, SourceFinite DEF SumInv
    <2> QED BY Zenon, <2>2, <2>3, <2>4, <2>8, <2>9, SourceSum
  <1>8. CASE StoreFlow(f)
    BY Zenon, <1>8, <1>r, SourceGoto DEF StoreFlow
  <1> QED BY Zenon, <1>1, <1>2, <1>3, <1>4, <1>5, <1>6, <1>7, <1>8 DEF SetupStep

\* deleteSession, for a session past its set-up, removes the entry first and
\* its count after that.
LEMMA SourceDelete ==
  ASSUME TypeOK, DemuxInv, Spared, HoldInv, SumInv,
         NEW a \in Flow \cup {Nic}, DeleteStep(a)
  PROVE  HoldInv' /\ SumInv'
  <1> USE DEF tabVars, flowVars, UncountedPc, RemovePc
  <1>i. VictimInv
    BY Zenon DEF DemuxInv
  <1>0. pc[a] \in DeletePc
    BY Zenon DEF DeleteStep, DeleteClose, DeleteEntry, DeleteCount, DeleteSource,
           DeleteFlow, DeletePc
  <1>1. /\ Victim(a) \in Flow /\ Victim(a) # None /\ pc[Victim(a)] # "free"
        /\ pc[Victim(a)] \notin UncountedPc /\ AfterDelete(a) \in {"admit", "done"}
    <2>1. CASE a = Nic
      BY Zenon, <1>0, <1>i, <2>1, ConstantsOK DEF VictimInv, Spared, Victim, AfterDelete, SetupPc
    <2>2. CASE a # Nic
      BY Zenon, <1>0, <2>2, ConstantsOK DEF Victim, AfterDelete, DeletePc
    <2> QED BY Zenon, <2>1, <2>2
  <1>v. PICK v \in Flow : v = Victim(a)
    BY Zenon, <1>1
  <1>t. key[v] \in Key /\ SrcOf[key[v].sock] \in Src
    BY Zenon, <1>1, <1>v, ConstantsOK DEF TypeOK, KeyOK, Key
  <1>c. srcCounts \in [Src -> Nat] /\ sessions \in [Key -> Flow \cup {None}]
    BY Zenon DEF TypeOK, TabsOK, FlowOrNone
  <1>g. ASSUME NEW l, Goto(a, l)
        PROVE  pc'[a] = l /\ \A b \in Flow \cup {Nic} : b # a => pc'[b] = pc[b]
    BY Zenon, <1>g DEF Goto, TypeOK, PcOK
  <1>r. PICK r \in Src : r = SrcOf[key[v].sock]
    BY Zenon, <1>t
  <1>2. CASE DeleteClose(a)
    BY Zenon, <1>2, <1>i, SourceGoto DEF DeleteClose
  <1>3. CASE DeleteEntry(a)
    <2>1. CASE sessions[key[v]] # v
      BY Zenon, <1>1, <1>3, <1>i, <1>v, <2>1, SourceGoto DEF DeleteEntry
    <2>2. CASE sessions[key[v]] = v
      <3>1. /\ sessions' = [sessions EXCEPT ![key[v]] = None] /\ pc[a] = "cad"
            /\ pc'[a] = "dec" /\ key' = key /\ nic' = nic /\ srcCounts' = srcCounts
            /\ \A b \in Flow \cup {Nic} : b # a => pc'[b] = pc[b]
        BY Zenon, <1>3, <1>g, <1>v, <2>2 DEF DeleteEntry
      <3>2. HoldInv'
        <4>1. ASSUME NEW g \in Flow, pc'[g] \in UncountedPc PROVE sessions'[key[g]] = g
          <5>1. pc[g] \in UncountedPc /\ sessions[key[g]] = g /\ g # v
            BY Zenon, <1>1, <1>v, <3>1, <4>1 DEF HoldInv
          <5>2. key[g] # key[v]
            BY Zenon, <2>2, <5>1
          <5>3. key[g] \in Key
            BY Zenon, <5>1 DEF TypeOK, KeyOK
          <5> QED BY Zenon, <1>c, <3>1, <5>1, <5>2, <5>3
        <4> QED BY Zenon, <3>1, <4>1 DEF HoldInv
      <3>3. ASSUME NEW s \in Src, NEW k \in Settled(s), k # key[v] PROVE k \in Settled(s)'
        <4>1. k \in Key /\ sessions[k] # None /\ SrcOf[k.sock] = s /\ pc[sessions[k]] \notin UncountedPc
          BY Zenon, <3>3 DEF Settled, Occupied
        <4>2. sessions'[k] = sessions[k] /\ sessions[k] \in Flow
          BY Zenon, <1>c, <3>1, <3>3, <4>1
        <4> QED BY Zenon, <3>1, <4>1, <4>2 DEF Settled, Occupied
      <3>o. \A s : Removing(s) \subseteq Removing(s)'
        BY Zenon, <1>i, <3>1, SourceOthers
      <3>4. ASSUME NEW s \in Src \ {r}
            PROVE  Settled(s) \subseteq Settled(s)' /\ Removing(s) \subseteq Removing(s)'
        <4>1. key[v] \notin Settled(s)
          BY Zenon, <1>r, <3>4 DEF Settled
        <4> QED BY Zenon, <3>3, <3>o, <4>1
      <3>5. Settled(r) \ {key[v]} \subseteq Settled(r)'
        BY Zenon, <3>3
      <3>6. Removing(r) \cup {a} \subseteq Removing(r)' /\ a \notin Removing(r)
        <4>1. Victim(a)' = v
          BY Zenon, <1>v, <3>1 DEF Victim
        <4>2. a \in Removing(r)' /\ a \notin Removing(r)
          BY Zenon, <1>r, <3>1, <4>1 DEF Removing
        <4> QED BY Zenon, <3>o, <4>2
      <3>7. /\ Cardinality(Settled(r)') >= Cardinality(Settled(r)) - 1
            /\ Cardinality(Removing(r)') >= Cardinality(Removing(r)) + 1
        BY Zenon, <3>5, <3>6, SourceFewer, SourceMore, SourceFinite
      <3>8. srcCounts'[r] <= Cardinality(Settled(r)') + Cardinality(Removing(r)')
        BY <1>c, <3>1, <3>7, SourceFinite DEF SumInv
      <3>9. SumInv'
        BY Zenon, <1>c, <3>1, <3>4, <3>8, SourceSum
      <3> QED BY Zenon, <3>2, <3>9
    <2> QED BY Zenon, <2>1, <2>2
  <1>4. CASE DeleteCount(a)
    BY Zenon, <1>4, <1>i, SourceGoto DEF DeleteCount
  <1>5. CASE DeleteSource(a)
    <2>1. /\ pc[a] = "rem" /\ pc'[a] = "unflow" /\ key' = key /\ nic' = nic
          /\ sessions' = sessions /\ srcCounts' = RemovedSource(r)
          /\ \A b \in Flow \cup {Nic} : b # a => pc'[b] = pc[b]
      BY Zenon, <1>5, <1>g, <1>r, <1>v DEF DeleteSource
    <2>2. HoldInv'
      BY Zenon, <2>1 DEF HoldInv
    <2>3. \A s \in Src : Settled(s)' = Settled(s)
      <3>1. \A k \in Occupied : sessions[k] \in Flow /\ sessions'[k] = sessions[k]
        BY Zenon, <1>c, <2>1 DEF Occupied
      <3>2. Occupied' = Occupied
        BY Zenon, <2>1 DEF Occupied
      <3>3. \A g \in Flow : pc'[g] \in UncountedPc <=> pc[g] \in UncountedPc
        BY Zenon, <2>1
      <3> QED BY Zenon, <3>1, <3>2, <3>3 DEF Settled
    <2>4. \A b \in Flow \cup {Nic} : Victim(b)' = Victim(b)
      BY Zenon, <2>1 DEF Victim
    <2>5. /\ \A s \in Src \ {r} : Removing(s) \subseteq Removing(s)'
          /\ Removing(r)' = Removing(r) \ {a} /\ a \in Removing(r)
      BY Zenon, <1>r, <1>v, <2>1, <2>4 DEF Removing
    <2>6. /\ srcCounts' \in [Src -> Nat] /\ srcCounts[r] \in Nat
          /\ \A s \in Src \ {r} : srcCounts'[s] = srcCounts[s]
          /\ srcCounts'[r] = IF srcCounts[r] > 0 THEN srcCounts[r] - 1 ELSE 0
      BY <1>c, <2>1 DEF RemovedSource
    <2>7. Cardinality(Removing(r)') = Cardinality(Removing(r)) - 1
      BY ZenonT(60), <2>5, SourceFinite, FS_RemoveElement
    <2>8. srcCounts'[r] <= Cardinality(Settled(r)') + Cardinality(Removing(r)')
      BY <2>3, <2>6, <2>7, SourceFinite DEF SumInv
    <2> QED BY Zenon, <2>2, <2>3, <2>5, <2>6, <2>8, SourceSum
  <1>6. CASE DeleteFlow(a)
    BY Zenon, <1>1, <1>6, <1>i, SourceGoto DEF DeleteFlow
  <1> QED BY Zenon, <1>2, <1>3, <1>4, <1>5, <1>6 DEF DeleteStep

\* Every step that sweeps no session in its set-up keeps the counts.
LEMMA SourceStep ==
  ASSUME TypeOK, DemuxInv, EntryInv, Spared, HoldInv, SumInv, [Next]_vars
  PROVE  HoldInv' /\ SumInv'
  <1> USE DEF tabVars, flowVars, UncountedPc, RemovePc
  <1>v. VictimInv
    BY Zenon DEF DemuxInv
  <1>1. ASSUME NEW f \in Flow, ForwardStep(f) PROVE HoldInv' /\ SumInv'
    BY Zenon, <1>1, <1>v, SourceGoto DEF ForwardStep, ReadDatagram, WriteDatagram, LoopExit
  <1>2. ASSUME NEW b \in Flow, ReplyLoopExit(b) PROVE HoldInv' /\ SumInv'
    BY Zenon, <1>2, <1>v, SourceKept DEF ReplyLoopExit
  <1>3. CASE CleanupTick \/ Shutdown \/ CleanupStep
    BY ZenonT(60), <1>3, <1>v, SourceKept
    DEF CleanupTick, Shutdown, CleanupStep, RangeSessions, CloseIdleSession,
        RangeBIBs, CloseIdleBIB, UnmapIdleBIB
  <1>4. ASSUME NEW s \in Settings, Reload(s) PROVE HoldInv' /\ SumInv'
    BY Zenon, <1>4, <1>v, SourceKept DEF Reload
  <1>5. CASE Advance
    BY Zenon, <1>5, <1>v, SourceKept DEF Advance
  <1>6. CASE UNCHANGED vars
    BY Zenon, <1>6, <1>v, SourceKept DEF vars
  <1>7. ASSUME NEW k \in Key, Deliver(k) \/ HandleUDPForward(k)
        PROVE  HoldInv' /\ SumInv'
    <2>1. CASE Deliver(k)
      BY Zenon, <2>1, <1>v, SourceKept DEF Deliver
    <2>2. CASE HandleUDPForward(k)
      BY Zenon, <2>2, <1>v, SourceGoto DEF HandleUDPForward
    <2> QED BY Zenon, <1>7, <2>1, <2>2
  <1>8. CASE AdmitUDPSession
    <2>1. PICK l \in {"create", "close", "idle"} : Goto(Nic, l) \/ UNCHANGED pc
      BY ZenonT(60), <1>8 DEF AdmitUDPSession
    <2>2. UNCHANGED <<key, sessions, srcCounts>> /\ pc[Nic] = "admit"
      BY ZenonT(60), <1>8 DEF AdmitUDPSession
    <2>3. CASE UNCHANGED pc
      BY Zenon, <2>2, <2>3, <1>v, SourceKept
    <2>4. CASE Goto(Nic, l)
      BY Zenon, <2>2, <2>4, <1>v, SourceGoto
    <2> QED BY Zenon, <2>1, <2>3, <2>4
  <1>9. CASE CreateEndpoint
    <2>1. /\ \A f \in Flow : /\ pc'[f] \in UncountedPc <=> pc[f] \in UncountedPc
                             /\ pc[f] # "free" => key'[f] = key[f]
          /\ \A a \in Flow \cup {Nic} : pc'[a] \in RemovePc <=> pc[a] \in RemovePc
          /\ pc[Nic] = "create"
      BY Zenon, <1>9, ConstantsOK DEF CreateEndpoint, Goto, TypeOK, PcOK, FlowsOK
    <2> QED BY Zenon, <1>9, <2>1, <1>v, SourceKept DEF CreateEndpoint
  <1> QED
    BY Zenon, <1>1, <1>2, <1>3, <1>4, <1>5, <1>6, <1>7, <1>8, <1>9, SourceSetup,
       SourceDelete DEF Next, NicStep

\* What persource.go says of the per-source counts holds, with a session limit
\* and whatever it evicts, expires and reloads, as long as no eviction and no
\* shutdown takes a session from its set-up: with no insertion or deletion
\* under way no source is counted above its live sessions.
THEOREM SourcesCounted == Spec /\ []Spared => []SourceCountNotOver
  <1>1. Init => HoldInv /\ SumInv
    <2> SUFFICES ASSUME Init PROVE HoldInv /\ SumInv
      OBVIOUS
    <2>1. HoldInv
      BY Zenon, ConstantsOK DEF Init, HoldInv, UncountedPc
    <2>2. \A s \in Src : srcCounts[s] = 0
      BY Zenon DEF Init
    <2> QED BY <2>1, <2>2, SourceFinite DEF SumInv
  <1>2. /\ TypeOK /\ MapInv /\ DemuxInv /\ EntryInv /\ HoldInv /\ SumInv
        /\ Spared /\ Spared' /\ [Next]_vars
        => DemuxInv' /\ EntryInv' /\ HoldInv' /\ SumInv'
    <2> SUFFICES ASSUME TypeOK, MapInv, DemuxInv, EntryInv, HoldInv, SumInv,
                        Spared, Spared', [Next]_vars
                 PROVE  DemuxInv' /\ EntryInv' /\ HoldInv' /\ SumInv'
      OBVIOUS
    <2>1. DemuxInv' /\ EntryInv'
      BY Zenon, ReplyStep DEF Spared, StepKeeps
    <2> QED BY Zenon, <2>1, SourceStep
  <1>3. TypeOK /\ SumInv => SourceCountNotOver
    <2> SUFFICES ASSUME TypeOK, SumInv, Quiescent, NEW s \in Src
                 PROVE  srcCounts[s] <= Cardinality({k \in Occupied : SrcOf[k.sock] = s})
      BY Zenon DEF SourceCountNotOver
    <2> DEFINE Live == {k \in Occupied : SrcOf[k.sock] = s}
    <2>1. Removing(s) = {}
      BY Zenon DEF Removing, Quiescent, RemovePc
    <2>2. Settled(s) \subseteq Live /\ Live \subseteq Key
      BY Zenon DEF Settled, Occupied
    <2> HIDE DEF Live
    <2>3. IsFiniteSet(Live) /\ Cardinality(Live) \in Nat
      BY Zenon, <2>2, ConstantsOK, FS_Subset, FS_CardinalityType
    <2>4. Cardinality(Settled(s)) <= Cardinality(Live)
      BY Zenon, <2>2, <2>3, FS_Subset
    <2>5. Cardinality(Removing(s)) = 0
      BY Zenon, <2>1, FS_EmptySet
    <2>6. srcCounts[s] <= Cardinality(Live)
      BY <2>3, <2>4, <2>5, SourceFinite DEF SumInv, TypeOK, TabsOK
    <2> QED BY Zenon, <2>6 DEF Live
  <1> QED BY <1>1, <1>2, <1>3, ReplyInit, MapCorrect, PTL DEF Spec
=============================================================================
