--------------------------- MODULE Nat64UdpProofs ---------------------------
(***************************************************************************)
(* Proofs about Nat64Udp, for any number of flows, sockets and settings.   *)
(* First the types; then MapInv, which ties BIBs, flow tables and the      *)
(* goroutines that hold a BIB together and yields the three properties of  *)
(* the mapping; last DemuxInv and EntryInv, by which replies reach their   *)
(* session unless it was swept while being set up.                         *)
(***************************************************************************)
EXTENDS Nat64Udp, TLAPS

\* Starting with empty tables, the state is well typed.
LEMMA TypeInit == Init => TypeOK
  <1> SUFFICES ASSUME Init PROVE TypeOK
    OBVIOUS
  <1> USE ConstantsOK DEF Init, FlowOrNone
  <1>1. NicOK
    BY DEF NicOK, NoCall
  <1>2. ClOK
    BY DEF ClOK, NoPass, CleanPc
  <1>3. PcOK
    BY Zenon DEF PcOK, FlowPc, NicPc
  <1>4. FlowsOK /\ KeyOK /\ BibsOK /\ TabsOK
    BY DEF FlowsOK, KeyOK, BibsOK, TabsOK
  <1> QED BY <1>1, <1>2, <1>3, <1>4 DEF TypeOK

\* The labels the goroutines and the NIC loop go to.
LEMMA Labels ==
  /\ SetupPc \subseteq FlowPc /\ DeletePc \subseteq FlowPc
  /\ DeletePc \subseteq NicPc
  /\ {"free", "read", "write", "done"} \subseteq FlowPc
  /\ {"idle", "admit", "create"} \subseteq NicPc
  /\ DeletePc = {"close", "cad", "dec", "rem", "unflow"}
  /\ SetupPc = {"bib", "listen", "register", "replace", "count", "src", "flow"}
  BY Zenon DEF FlowPc, NicPc, DeletePc, SetupPc

\* A step that only moves a flow goroutine keeps the types.
LEMMA GotoFlow ==
  ASSUME TypeOK, NEW f \in Flow, NEW l \in FlowPc, pc[f] # "free",
         Goto(f, l), UNCHANGED <<key, nic>>
  PROVE  PcOK' /\ KeyOK'
  BY Zenon, ConstantsOK DEF TypeOK, PcOK, KeyOK, Goto

\* So does one that only moves the forwarder on the NIC goroutine.
LEMMA GotoNic ==
  ASSUME TypeOK, NEW l \in NicPc, l = "idle" \/ nic'.key \in Key,
         Goto(Nic, l), UNCHANGED key
  PROVE  PcOK' /\ KeyOK'
  BY Zenon, ConstantsOK DEF TypeOK, PcOK, KeyOK, Goto

\* Closing a client endpoint keeps the flow tables well typed.
LEMMA CloseType ==
  ASSUME TypeOK, NEW f, CloseEndpoint(f), UNCHANGED <<key, bibOf, seen>>
  PROVE  FlowsOK'
  BY ZenonT(60) DEF TypeOK, FlowsOK, CloseEndpoint

\* The settings in force are always ones a reload may install.
LEMMA SettingsType == TypeOK => settings \in Setting
  BY Zenon, ConstantsOK DEF TypeOK

\* A step that leaves the tables and counters alone keeps their types.
LEMMA KeptType ==
  ASSUME TypeOK
  PROVE  /\ UNCHANGED pc => PcOK'
         /\ UNCHANGED nic => NicOK'
         /\ UNCHANGED flowVars => FlowsOK'
         /\ UNCHANGED <<pc, nic, key>> => KeyOK'
         /\ UNCHANGED bibVars => BibsOK'
         /\ UNCHANGED tabVars => TabsOK'
         /\ UNCHANGED cl => ClOK'
         /\ UNCHANGED now => (now \in 0..MaxTime)'
         /\ UNCHANGED settings => (settings \in Settings)'
         /\ UNCHANGED fatal => (fatal \in 0..MaxFatal)'
  BY DEF TypeOK, PcOK, NicOK, FlowsOK, KeyOK, BibsOK, TabsOK, ClOK, flowVars,
         bibVars, tabVars

\* handleUDPForward on the NIC goroutine: lookup, admission, eviction.
LEMMA NicType == TypeOK /\ NicStep => TypeOK'
  <1> SUFFICES ASSUME TypeOK, NicStep PROVE TypeOK'
    OBVIOUS
  <1>1. ASSUME NEW k \in Key, Deliver(k) PROVE TypeOK'
    <2>1. FlowsOK'
      BY Zenon, <1>1 DEF Deliver, TypeOK, FlowsOK
    <2> QED BY Zenon, <1>1, <2>1, KeptType DEF Deliver, TypeOK
  <1>2. ASSUME NEW k \in Key, HandleUDPForward(k) PROVE TypeOK'
    <2>1. nic' = [key |-> k, max |-> settings.max, tries |-> 0, victim |-> None]
      BY ZenonT(60), <1>2 DEF HandleUDPForward, NoCall
    <2>2. NicOK'
      <3>1. settings.max \in Int
        BY Zenon, SettingsType DEF Setting
      <3> QED BY <2>1, <3>1, ConstantsOK DEF NicOK, FlowOrNone
    <2>3. PcOK' /\ KeyOK'
      BY Zenon, <1>2, <2>1, GotoNic, Labels DEF HandleUDPForward, flowVars
    <2> QED BY Zenon, <1>2, <2>2, <2>3, KeptType DEF HandleUDPForward, TypeOK
  <1>3. CASE AdmitUDPSession
    <2>1. nic.key \in Key /\ UNCHANGED key
      BY ZenonT(60), <1>3 DEF AdmitUDPSession, TypeOK, KeyOK, flowVars
    <2>2. CASE Goto(Nic, "create") /\ UNCHANGED nic
      <3>1. PcOK' /\ KeyOK'
        BY Zenon, <2>1, <2>2, GotoNic, Labels
      <3> QED BY Zenon, <1>3, <2>2, <3>1, KeptType DEF AdmitUDPSession, TypeOK
    <2>3. CASE Goto(Nic, "idle") /\ nic' = NoCall
      <3>1. PcOK' /\ KeyOK'
        BY Zenon, <2>1, <2>3, GotoNic, Labels
      <3>2. NicOK'
        BY <2>3, ConstantsOK DEF NicOK, NoCall, FlowOrNone
      <3> QED BY Zenon, <1>3, <3>1, <3>2, KeptType DEF AdmitUDPSession, TypeOK
    <2>4. CASE /\ nic.tries < AdmitAttempts
               /\ \E v \in FlowOrNone :
                    nic' = [nic EXCEPT !.tries = @ + 1, !.victim = v]
               /\ Goto(Nic, "close") \/ UNCHANGED pc
      <3>1. nic'.key = nic.key /\ NicOK'
        <4>1. PICK v \in FlowOrNone :
                nic' = [nic EXCEPT !.tries = @ + 1, !.victim = v]
          BY Zenon, <2>4
        <4>2. nic' = [key |-> nic.key, max |-> nic.max, tries |-> nic.tries + 1,
                      victim |-> v]
          BY Zenon, <4>1 DEF NicOK, TypeOK
        <4> QED BY <2>4, <4>2, ConstantsOK DEF NicOK, TypeOK
      <3>2. PcOK' /\ KeyOK'
        <4>1. CASE Goto(Nic, "close")
          BY Zenon, <2>1, <3>1, <4>1, GotoNic, Labels
        <4>2. CASE UNCHANGED pc
          BY Zenon, <2>1, <3>1, <4>2 DEF TypeOK, PcOK, KeyOK
        <4> QED BY Zenon, <2>4, <4>1, <4>2
      <3> QED BY Zenon, <1>3, <3>1, <3>2, KeptType DEF AdmitUDPSession, TypeOK
    <2>5. CASE /\ nic.tries < AdmitAttempts
               /\ nic' = [nic EXCEPT !.tries = @ + 1] /\ UNCHANGED pc
      <3>1. nic.victim \in FlowOrNone
        BY Zenon DEF TypeOK, NicOK
      <3>2. nic' = [nic EXCEPT !.tries = @ + 1, !.victim = nic.victim]
        BY ZenonT(60), <2>5 DEF TypeOK, NicOK
      <3> QED BY Zenon, <2>4, <2>5, <3>1, <3>2
    <2> QED
      BY ZenonT(60), <1>3, <2>2, <2>3, <2>4, <2>5
      DEF AdmitUDPSession, Oldest, Registered, FlowOrNone
  <1>4. CASE CreateEndpoint
    <2>1. NicOK'
      BY <1>4, ConstantsOK DEF CreateEndpoint, NicOK, NoCall, FlowOrNone
    <2>2. CASE Goto(Nic, "idle") /\ UNCHANGED flowVars
      <3>1. PcOK' /\ KeyOK'
        BY Zenon, <2>2, GotoNic, Labels DEF flowVars
      <3> QED BY Zenon, <1>4, <2>1, <2>2, <3>1, KeptType DEF CreateEndpoint, TypeOK
    <2>3. ASSUME NEW f \in Flow,
                 pc' = [pc EXCEPT ![f] = "bib", ![Nic] = "idle"],
                 key' = [key EXCEPT ![f] = nic.key],
                 ep' = [ep EXCEPT ![f] = "open"],
                 queued' = [queued EXCEPT ![f] = TRUE],
                 UNCHANGED <<bibOf, seen>>
          PROVE  TypeOK'
      <3>1. nic.key \in Key
        BY Zenon, <1>4 DEF CreateEndpoint, TypeOK, KeyOK
      <3>2. PcOK'
        BY Zenon, <2>3, Labels, ConstantsOK DEF PcOK, TypeOK
      <3>3. KeyOK'
        BY Zenon, <2>3, <3>1, ConstantsOK DEF KeyOK, TypeOK, PcOK, FlowsOK
      <3>4. FlowsOK'
        BY Zenon, <2>3, <3>1 DEF FlowsOK, TypeOK
      <3> QED BY Zenon, <1>4, <2>1, <3>2, <3>3, <3>4, KeptType DEF CreateEndpoint, TypeOK
    <2> QED BY Zenon, <1>4, <2>2, <2>3 DEF CreateEndpoint
  <1> QED BY Zenon, <1>1, <1>2, <1>3, <1>4 DEF NicStep

\* The setup goroutine: BIB, registration, counters and flow entry.
LEMMA SetupType ==
  ASSUME TypeOK, NEW f \in Flow, SetupStep(f)
  PROVE  TypeOK'
  <1> USE DEF flowVars, bibVars, tabVars
  <1>k. pc[f] # "free" => key[f] \in Key /\ key[f].sock \in Sock
    BY Zenon DEF TypeOK, KeyOK, Key
  <1>1. CASE LoadBIB(f)
    <2>1. PcOK' /\ KeyOK'
      BY Zenon, <1>1, GotoFlow, Labels DEF LoadBIB
    <2>2. FlowsOK'
      BY Zenon, <1>1, <1>k DEF LoadBIB, FlowsOK, BibsOK, TypeOK
    <2> QED BY Zenon, <1>1, <2>1, <2>2, KeptType DEF LoadBIB, TypeOK
  <1>2. CASE ListenFails(f)
    <2>1. PcOK' /\ KeyOK' /\ FlowsOK'
      BY Zenon, <1>2, GotoFlow, CloseType, Labels DEF ListenFails
    <2> QED BY Zenon, <1>2, <2>1, KeptType DEF ListenFails, TypeOK
  <1>3. CASE StoreBIB(f)
    <2>1. PcOK' /\ KeyOK'
      BY Zenon, <1>3, GotoFlow, Labels DEF StoreBIB
    <2>2. FlowsOK'
      BY <1>3, <1>k DEF StoreBIB, FlowsOK, BibsOK, TypeOK, FlowOrNone, LoadedBIB
    <2>3. BibsOK'
      BY ZenonT(60), <1>3 DEF StoreBIB, BibsOK, TypeOK, FlowOrNone, LoadedBIB
    <2> QED BY Zenon, <1>3, <2>1, <2>2, <2>3, KeptType DEF StoreBIB, TypeOK
  <1>4. CASE Register(f)
    <2>1. PcOK' /\ KeyOK'
      BY Zenon, <1>4, GotoFlow, Labels DEF Register
    <2>2. FlowsOK' /\ TabsOK'
      BY Zenon, <1>4 DEF Register, FlowsOK, TabsOK, TypeOK, FlowOrNone
    <2> QED BY Zenon, <1>4, <2>1, <2>2, KeptType DEF Register, TypeOK
  <1>5. CASE Replace(f)
    <2>1. PcOK' /\ KeyOK'
      BY Zenon, <1>5, GotoFlow, Labels DEF Replace
    <2>2. TabsOK'
      BY ZenonT(60), <1>5 DEF Replace, TabsOK, TypeOK, FlowOrNone
    <2> QED BY Zenon, <1>5, <2>1, <2>2, KeptType DEF Replace, TypeOK
  <1>6. CASE CountSession(f)
    <2>1. PcOK' /\ KeyOK'
      BY Zenon, <1>6, GotoFlow, Labels DEF CountSession
    <2>2. TabsOK'
      BY <1>6 DEF CountSession, TabsOK, TypeOK
    <2> QED BY Zenon, <1>6, <2>1, <2>2, KeptType DEF CountSession, TypeOK
  <1>7. CASE CountSource(f)
    <2>1. PcOK' /\ KeyOK'
      BY Zenon, <1>7, GotoFlow, Labels DEF CountSource
    <2>2. TabsOK'
      <3>1. ASSUME NEW s PROVE [srcCounts EXCEPT ![s] = @ + 1] \in [Src -> Nat]
        <4>1. CASE s \in Src
          BY <4>1 DEF TabsOK, TypeOK
        <4>2. CASE s \notin Src
          <5>1. [srcCounts EXCEPT ![s] = @ + 1] = srcCounts
            BY Zenon, <4>2 DEF TabsOK, TypeOK
          <5> QED BY Zenon, <5>1 DEF TabsOK, TypeOK
        <4> QED BY Zenon, <4>1, <4>2
      <3> QED BY Zenon, <1>7, <3>1 DEF CountSource, TabsOK, TypeOK
    <2> QED BY Zenon, <1>7, <2>1, <2>2, KeptType DEF CountSource, TypeOK
  <1>8. CASE StoreFlow(f)
    <2>1. PcOK' /\ KeyOK'
      BY Zenon, <1>8, GotoFlow, Labels DEF StoreFlow
    <2>2. BibsOK'
      BY ZenonT(60), <1>8 DEF StoreFlow, BibsOK, TypeOK, FlowOrNone
    <2> QED BY Zenon, <1>8, <2>1, <2>2, KeptType DEF StoreFlow, TypeOK
  <1> QED BY Zenon, <1>1, <1>2, <1>3, <1>4, <1>5, <1>6, <1>7, <1>8 DEF SetupStep

\* udpForwardLoop.
LEMMA ForwardType ==
  ASSUME TypeOK, NEW f \in Flow, ForwardStep(f)
  PROVE  TypeOK'
  <1> USE DEF flowVars, bibVars, tabVars
  <1>1. CASE ReadDatagram(f)
    <2>1. PcOK' /\ KeyOK'
      BY Zenon, <1>1, GotoFlow, Labels DEF ReadDatagram, LoopExit
    <2>2. FlowsOK'
      BY ZenonT(60), <1>1 DEF ReadDatagram, FlowsOK, TypeOK
    <2>3. BibsOK'
      BY <1>1 DEF ReadDatagram, BibsOK, TypeOK
    <2> QED BY Zenon, <1>1, <2>1, <2>2, <2>3, KeptType DEF ReadDatagram, TypeOK
  <1>2. CASE WriteDatagram(f)
    <2>1. PcOK' /\ KeyOK'
      BY Zenon, <1>2, GotoFlow, Labels DEF WriteDatagram, LoopExit
    <2> QED BY Zenon, <1>2, <2>1, KeptType DEF WriteDatagram, TypeOK
  <1> QED BY Zenon, <1>1, <1>2 DEF ForwardStep

\* deleteSession, step by step.
LEMMA DeleteType ==
  ASSUME TypeOK, NEW a \in Flow \cup {Nic}, DeleteStep(a)
  PROVE  TypeOK'
  <1> USE DEF flowVars, bibVars, tabVars
  <1>1. ASSUME NEW l \in DeletePc \cup {AfterDelete(a)}, Goto(a, l),
               pc[a] \in DeletePc, UNCHANGED <<key, nic>>
        PROVE  PcOK' /\ KeyOK'
    <2>1. CASE a = Nic
      <3>1. nic'.key \in Key /\ l \in NicPc
        BY Zenon, <1>1, <2>1, Labels DEF TypeOK, KeyOK, AfterDelete
      <3> QED BY Zenon, <1>1, <2>1, <3>1, GotoNic
    <2>2. CASE a \in Flow
      <3>1. pc[a] # "free" /\ l \in FlowPc
        BY Zenon, <1>1, <2>2, Labels, ConstantsOK DEF AfterDelete
      <3> QED BY Zenon, <1>1, <2>2, <3>1, GotoFlow
    <2> QED BY Zenon, <2>1, <2>2
  <1>2. CASE DeleteClose(a)
    <2>1. PcOK' /\ KeyOK' /\ FlowsOK'
      BY Zenon, <1>2, <1>1, CloseType, Labels DEF DeleteClose
    <2> QED BY Zenon, <1>2, <2>1, KeptType DEF DeleteClose, TypeOK
  <1>3. CASE DeleteEntry(a)
    <2>1. PcOK' /\ KeyOK'
      BY Zenon, <1>3, <1>1, Labels DEF DeleteEntry
    <2>2. TabsOK'
      BY Zenon, <1>3 DEF DeleteEntry, TabsOK, TypeOK, FlowOrNone
    <2> QED BY Zenon, <1>3, <2>1, <2>2, KeptType DEF DeleteEntry, TypeOK
  <1>4. CASE DeleteCount(a)
    <2>1. PcOK' /\ KeyOK'
      BY Zenon, <1>4, <1>1, Labels DEF DeleteCount
    <2>2. TabsOK'
      BY <1>4 DEF DeleteCount, TabsOK, TypeOK
    <2> QED BY Zenon, <1>4, <2>1, <2>2, KeptType DEF DeleteCount, TypeOK
  <1>5. CASE DeleteSource(a)
    <2>1. PcOK' /\ KeyOK'
      BY Zenon, <1>5, <1>1, Labels DEF DeleteSource
    <2>2. TabsOK'
      <3>1. ASSUME NEW s, srcCounts[s] > 0
            PROVE  [srcCounts EXCEPT ![s] = @ - 1] \in [Src -> Nat]
        <4>1. CASE s \in Src
          BY <4>1, <3>1 DEF TabsOK, TypeOK
        <4>2. CASE s \notin Src
          <5>1. [srcCounts EXCEPT ![s] = @ - 1] = srcCounts
            BY Zenon, <4>2 DEF TabsOK, TypeOK
          <5> QED BY Zenon, <5>1 DEF TabsOK, TypeOK
        <4> QED BY Zenon, <4>1, <4>2
      <3> QED BY Zenon, <1>5, <3>1 DEF DeleteSource, RemovedSource, TabsOK, TypeOK
    <2> QED BY Zenon, <1>5, <2>1, <2>2, KeptType DEF DeleteSource, TypeOK
  <1>6. CASE DeleteFlow(a)
    <2>1. PcOK' /\ KeyOK'
      BY Zenon, <1>6, <1>1, Labels DEF DeleteFlow
    <2>2. BibsOK'
      BY ZenonT(60), <1>6 DEF DeleteFlow, WithoutFlow, BibsOK, TypeOK, FlowOrNone
    <2> QED BY Zenon, <1>6, <2>1, <2>2, KeptType DEF DeleteFlow, TypeOK
  <1> QED BY Zenon, <1>2, <1>3, <1>4, <1>5, <1>6 DEF DeleteStep

\* The sweep of cleanupSessions.
LEMMA CleanupType ==
  ASSUME TypeOK, CleanupTick \/ Shutdown \/ CleanupStep
  PROVE  TypeOK'
  <1> USE DEF flowVars, bibVars, tabVars
  <1>c. /\ cl \in [pc : CleanPc, cutoff : Int, todo : SUBSET (Key \cup Sock),
                   target : FlowOrNone, final : BOOLEAN]
        /\ cl.pc \in {"sess", "closeSess"} => cl.todo \subseteq Key
        /\ cl.pc \in {"bib", "closeBib", "cadBib"} => cl.todo \subseteq Sock
    BY Zenon DEF TypeOK, ClOK
  <1>1. CASE CleanupTick
    <2>1. now - settings.timeout \in Int
      BY SettingsType, ConstantsOK DEF Setting, TypeOK
    <2>2. ClOK'
      BY ZenonT(60), <1>1, <1>c, <2>1 DEF CleanupTick, ClOK, CleanPc
    <2> QED BY Zenon, <1>1, <2>2, KeptType DEF CleanupTick, TypeOK
  <1>2. CASE Shutdown
    <2>1. ClOK'
      <3>1. cl' = [pc |-> "sess", cutoff |-> MaxTime + 1, todo |-> Key,
                   target |-> cl.target, final |-> TRUE]
        BY ZenonT(60), <1>2, <1>c DEF Shutdown
      <3> QED BY <1>c, <3>1, ConstantsOK DEF ClOK, CleanPc
    <2> QED BY Zenon, <1>2, <2>1, KeptType DEF Shutdown, TypeOK
  <1>3. CASE RangeSessions
    <2>1. ASSUME NEW k \in cl.todo PROVE sessions[k] \in FlowOrNone
      BY ZenonT(60), <1>3, <1>c DEF RangeSessions, TypeOK, TabsOK
    <2>2. ClOK'
      <3>1. ASSUME NEW k \in cl.todo,
                   cl' = [cl EXCEPT !.pc = "closeSess", !.target = sessions[k],
                                    !.todo = @ \ {k}]
            PROVE  ClOK'
        BY ZenonT(60), <1>3, <1>c, <2>1, <3>1 DEF RangeSessions, ClOK, CleanPc
      <3>2. ASSUME NEW k \in cl.todo, cl' = [cl EXCEPT !.todo = @ \ {k}]
            PROVE  ClOK'
        BY Zenon, <1>3, <1>c, <3>2 DEF RangeSessions, ClOK, CleanPc
      <3>3. CASE cl' = [cl EXCEPT !.pc = "bib", !.todo = Sock]
        BY ZenonT(60), <1>c, <3>3 DEF ClOK, CleanPc
      <3> QED BY ZenonT(60), <1>3, <3>1, <3>2, <3>3 DEF RangeSessions
    <2> QED BY Zenon, <1>3, <2>2, KeptType DEF RangeSessions, TypeOK
  <1>4. CASE CloseIdleSession
    <2>1. FlowsOK'
      BY Zenon, <1>4, CloseType DEF CloseIdleSession
    <2>2. ClOK'
      BY ZenonT(60), <1>4, <1>c DEF CloseIdleSession, ClOK, CleanPc, FlowOrNone
    <2> QED BY Zenon, <1>4, <2>1, <2>2, KeptType DEF CloseIdleSession, TypeOK
  <1>5. CASE RangeBIBs
    <2>1. ASSUME NEW c \in cl.todo PROVE bibs[c] \in FlowOrNone
      BY ZenonT(60), <1>5, <1>c DEF RangeBIBs, TypeOK, BibsOK
    <2>2. ClOK'
      <3>1. ASSUME NEW c \in cl.todo,
                   cl' = [cl EXCEPT !.pc = "closeBib", !.target = bibs[c],
                                    !.todo = @ \ {c}]
            PROVE  ClOK'
        BY ZenonT(60), <1>5, <1>c, <2>1, <3>1 DEF RangeBIBs, ClOK, CleanPc
      <3>2. ASSUME NEW c \in cl.todo, cl' = [cl EXCEPT !.todo = @ \ {c}]
            PROVE  ClOK'
        BY Zenon, <1>5, <1>c, <3>2 DEF RangeBIBs, ClOK, CleanPc
      <3>3. CASE cl' \in {NoPass, [NoPass EXCEPT !.pc = "stopped", !.final = TRUE]}
        <4>1. PICK l \in {"idle", "stopped"}, b \in BOOLEAN :
                cl' = [pc |-> l, cutoff |-> 0, todo |-> {}, target |-> None,
                       final |-> b]
          BY Zenon, <3>3 DEF NoPass
        <4> QED BY <4>1 DEF ClOK, CleanPc, FlowOrNone
      <3> QED BY ZenonT(60), <1>5, <3>1, <3>2, <3>3 DEF RangeBIBs
    <2> QED BY ZenonT(60), <1>5, <2>2, KeptType DEF RangeBIBs, TypeOK
  <1>6. CASE CloseIdleBIB
    <2>1. BibsOK'
      BY Zenon, <1>6 DEF CloseIdleBIB, BibsOK, TypeOK
    <2>2. ClOK'
      BY Zenon, <1>6, <1>c DEF CloseIdleBIB, ClOK, CleanPc, FlowOrNone
    <2> QED BY Zenon, <1>6, <2>1, <2>2, KeptType DEF CloseIdleBIB, TypeOK
  <1>7. CASE UnmapIdleBIB
    <2>1. BibsOK'
      BY Zenon, <1>7 DEF UnmapIdleBIB, UnmappedBIB, BibsOK, TypeOK, FlowOrNone
    <2>2. ClOK'
      BY ZenonT(60), <1>7, <1>c DEF UnmapIdleBIB, ClOK, CleanPc, FlowOrNone
    <2> QED BY Zenon, <1>7, <2>1, <2>2, KeptType DEF UnmapIdleBIB, TypeOK
  <1> QED BY Zenon, <1>1, <1>2, <1>3, <1>4, <1>5, <1>6, <1>7 DEF CleanupStep

\* Every step keeps the types.
LEMMA TypeStep == TypeOK /\ [Next]_vars => TypeOK'
  <1> SUFFICES ASSUME TypeOK, [Next]_vars PROVE TypeOK'
    OBVIOUS
  <1>1. ASSUME NEW f \in Flow, ReplyLoopExit(f) PROVE TypeOK'
    <2>1. BibsOK'
      BY Zenon, <1>1 DEF ReplyLoopExit, UnmappedBIB, BibsOK, TypeOK, FlowOrNone
    <2>2. (fatal \in 0..MaxFatal)'
      BY <1>1, ConstantsOK DEF ReplyLoopExit, TypeOK
    <2> QED BY Zenon, <1>1, <2>1, <2>2, KeptType DEF ReplyLoopExit, TypeOK, flowVars
  <1>2. ASSUME NEW s \in Settings, Reload(s) PROVE TypeOK'
    BY Zenon, <1>2, KeptType DEF Reload, TypeOK, flowVars
  <1>3. CASE Advance
    <2>1. (now \in 0..MaxTime)'
      BY <1>3, ConstantsOK DEF Advance, TypeOK
    <2> QED BY Zenon, <1>3, <2>1, KeptType DEF Advance, TypeOK, flowVars
  <1>4. CASE UNCHANGED vars
    BY Zenon, <1>4, KeptType DEF vars, TypeOK, flowVars, bibVars, tabVars
  <1> QED
    BY Zenon, <1>1, <1>2, <1>3, <1>4, NicType, SetupType, ForwardType, DeleteType,
       CleanupType DEF Next

\* Every reachable state is well typed, for every instance.
THEOREM TypeCorrect == Spec => []TypeOK
  BY TypeInit, TypeStep, PTL DEF Spec
-----------------------------------------------------------------------------
(***************************************************************************)
(* The mapping invariant.                                                  *)
(***************************************************************************)
SameClient(f, b) == /\ key[f] \in Key /\ key[b] \in Key
                    /\ key[f].sock = key[b].sock

\* The goroutine has no BIB of its own yet.
FreshPc == {"free", "bib", "listen"}

\* The goroutine has its BIB.
BoundPc == {"register", "replace", "count", "src", "flow", "read", "write"}
             \cup DeletePc

\* What the label of a goroutine says of its session and BIB.
LabelInv ==
  \A f \in Flow :
    /\ pc[f] = "free" => key[f] = None
    /\ pc[f] \in FreshPc => sock[f] = "none"
    /\ pc[f] \in BoundPc => bibOf[f] # None

ClientInv == \A f \in Flow : bibOf[f] # None => SameClient(f, bibOf[f])

ServedInv == \A f \in Flow : Serving(f) => key[f] \in Key /\ bibs[key[f].sock] = f

\* bibs maps a client socket to a BIB of that socket.
TableInv ==
  \A c \in Sock : bibs[c] # None => /\ key[bibs[c]] \in Key
                                    /\ key[bibs[c]].sock = c
                                    /\ pc[bibs[c]] \notin FreshPc

\* bib.flows leads to sessions of the BIB's client, each by its destination.
FlowInv ==
  \A b \in Flow, t \in Tuple :
    flows[b][t] # None => /\ SameClient(flows[b][t], b)
                          /\ key[flows[b][t]].dst = t

\* The cleaner closes a BIB before it unmaps it.
CleanerInv ==
  /\ cl.pc \in {"closeBib", "cadBib"} =>
       cl.target \in Flow /\ pc[cl.target] \notin FreshPc
  /\ cl.pc = "cadBib" => sock[cl.target] = "closed"

MapInv == LabelInv /\ ClientInv /\ ServedInv /\ TableInv /\ FlowInv /\ CleanerInv

mapVars == <<key, bibOf, sock, loop, flows, bibs>>

\* Nothing is mapped at first.
LEMMA MapInit == Init => MapInv
  <1> SUFFICES ASSUME Init PROVE MapInv
    OBVIOUS
  <1>1. LabelInv /\ ClientInv
    BY Zenon DEF Init, LabelInv, ClientInv, FreshPc, BoundPc, DeletePc
  <1>2. ServedInv /\ TableInv
    BY Zenon DEF Init, ServedInv, TableInv, Serving
  <1>3. FlowInv /\ CleanerInv
    BY Zenon DEF Init, FlowInv, CleanerInv, NoPass
  <1> QED BY Zenon, <1>1, <1>2, <1>3 DEF MapInv

\* Mappings are not disturbed by goroutines that move on without starting
\* anew.
LEMMA FreshKept ==
  ASSUME MapInv, TypeOK, \A g \in Flow : pc'[g] \in FreshPc => pc[g] \in FreshPc
  PROVE  /\ UNCHANGED <<key, bibs>> => TableInv'
         /\ UNCHANGED <<sock, cl>> => CleanerInv'
  <1>1. \A c \in Sock : bibs[c] \in Flow \cup {None}
    BY Zenon DEF TypeOK, BibsOK, FlowOrNone
  <1>2. UNCHANGED <<key, bibs>> => TableInv'
    BY <1>1 DEF MapInv, TableInv
  <1>3. UNCHANGED <<sock, cl>> => CleanerInv'
    BY Zenon DEF MapInv, CleanerInv
  <1> QED BY Zenon, <1>2, <1>3

\* The parts of the invariant that say nothing of labels.
LEMMA PartsKept ==
  ASSUME MapInv
  PROVE  /\ UNCHANGED <<key, bibOf>> => ClientInv'
         /\ UNCHANGED <<key, sock, loop, bibs>> => ServedInv'
         /\ UNCHANGED <<key, flows>> => FlowInv'
  <1>1. UNCHANGED <<key, bibOf>> => ClientInv'
    BY Zenon DEF MapInv, ClientInv, SameClient
  <1>2. UNCHANGED <<key, sock, loop, bibs>> => ServedInv'
    BY Zenon DEF MapInv, ServedInv, Serving
  <1>3. UNCHANGED <<key, flows>> => FlowInv'
    BY DEF MapInv, FlowInv, SameClient
  <1> QED BY Zenon, <1>1, <1>2, <1>3

\* A step that moves goroutines without giving one a BIB and without
\* touching the mapping state keeps the invariant.
LEMMA MapKept ==
  ASSUME MapInv, TypeOK, UNCHANGED mapVars,
         UNCHANGED cl \/ cl'.pc \notin {"closeBib", "cadBib"},
         \A f \in Flow :
           /\ pc'[f] = "free" => pc[f] = "free"
           /\ pc'[f] \in {"bib", "listen"} => pc[f] \in {"bib", "listen"}
           /\ pc'[f] \in BoundPc => pc[f] \in BoundPc
  PROVE  MapInv'
  <1>0. UNCHANGED <<key, bibOf, sock, loop, flows, bibs>>
    BY Zenon DEF mapVars
  <1>1. \A f \in Flow : pc'[f] \in FreshPc => pc[f] \in FreshPc
    BY Zenon DEF FreshPc
  <1>2. LabelInv'
    BY Zenon, <1>0, <1>1 DEF MapInv, LabelInv
  <1>3. TableInv' /\ (UNCHANGED cl => CleanerInv')
    BY Zenon, <1>0, <1>1, FreshKept
  <1>4. cl'.pc \notin {"closeBib", "cadBib"} => CleanerInv'
    BY Zenon DEF CleanerInv
  <1>5. ClientInv' /\ ServedInv' /\ FlowInv'
    BY Zenon, <1>0, PartsKept
  <1> QED BY Zenon, <1>2, <1>3, <1>4, <1>5 DEF MapInv

\* In particular a goroutine that only moves on.
LEMMA MapGoto ==
  ASSUME MapInv, TypeOK, UNCHANGED mapVars, UNCHANGED cl,
         NEW a \in Flow \cup {Nic}, NEW l, Goto(a, l),
         a \in Flow => /\ l # "free"
                       /\ l \in {"bib", "listen"} => pc[a] \in {"bib", "listen"}
                       /\ l \in BoundPc => pc[a] \in BoundPc
  PROVE  MapInv'
  <1>1. \A f \in Flow :
           /\ pc'[f] = "free" => pc[f] = "free"
           /\ pc'[f] \in {"bib", "listen"} => pc[f] \in {"bib", "listen"}
           /\ pc'[f] \in BoundPc => pc[f] \in BoundPc
    BY Zenon, ConstantsOK DEF Goto, TypeOK, PcOK
  <1> QED BY Zenon, <1>1, MapKept

\* The forwarder gives no flow a BIB.
LEMMA MapNic == MapInv /\ TypeOK /\ NicStep => MapInv'
  <1> SUFFICES ASSUME MapInv, TypeOK, NicStep PROVE MapInv'
    OBVIOUS
  <1> USE DEF flowVars, bibVars, mapVars
  <1>1. ASSUME NEW k \in Key, Deliver(k) PROVE MapInv'
    BY Zenon, <1>1, MapKept DEF Deliver
  <1>2. ASSUME NEW k \in Key, HandleUDPForward(k) PROVE MapInv'
    BY Zenon, <1>2, MapGoto, ConstantsOK DEF HandleUDPForward
  <1>3. CASE AdmitUDPSession
    <2>1. PICK l : Goto(Nic, l) \/ UNCHANGED pc
      BY ZenonT(60), <1>3 DEF AdmitUDPSession
    <2>2. CASE UNCHANGED pc
      BY ZenonT(60), <1>3, <2>2, MapKept DEF AdmitUDPSession
    <2>3. CASE Goto(Nic, l)
      BY Zenon, <1>3, <2>3, MapGoto, ConstantsOK DEF AdmitUDPSession
    <2> QED BY Zenon, <2>1, <2>2, <2>3
  <1>4. CASE CreateEndpoint
    <2>1. CASE Goto(Nic, "idle") /\ UNCHANGED flowVars
      BY Zenon, <1>4, <2>1, MapGoto, ConstantsOK DEF CreateEndpoint
    <2>2. ASSUME NEW f \in Flow, pc[f] = "free",
                 pc' = [pc EXCEPT ![f] = "bib", ![Nic] = "idle"],
                 key' = [key EXCEPT ![f] = nic.key],
                 UNCHANGED <<bibOf, bibVars, cl>>
          PROVE  MapInv'
      <3>1. key[f] = None /\ f # Nic /\ key[f] \notin Key
        BY Zenon, <2>2, ConstantsOK DEF MapInv, LabelInv
      <3>2. \A g \in Flow : g # f => key'[g] = key[g] /\ pc'[g] = pc[g]
        BY Zenon, <2>2, <3>1, ConstantsOK DEF TypeOK, FlowsOK, PcOK
      <3>3. pc'[f] = "bib"
        BY Zenon, <2>2, <3>1 DEF TypeOK, PcOK
      <3>4. \A g \in Flow : key[g] \in Key => key'[g] = key[g]
        BY Zenon, <3>1, <3>2
      <3>5. \A g, b \in Flow : SameClient(g, b) => SameClient(g, b)'
        BY Zenon, <3>4 DEF SameClient
      <3>6. /\ \A g \in Flow : bibOf[g] \in FlowOrNone
            /\ \A c \in Sock : bibs[c] \in FlowOrNone
            /\ \A b \in Flow, t \in Tuple : flows[b][t] \in FlowOrNone
        BY Zenon DEF TypeOK, FlowsOK, BibsOK
      <3>7. LabelInv'
        <4>1. pc'[f] \notin BoundPc /\ sock[f] = "none"
          BY Zenon, <2>2, <3>3 DEF MapInv, LabelInv, FreshPc, BoundPc, DeletePc
        <4> QED BY ZenonT(60), <2>2, <3>2, <3>3, <4>1 DEF MapInv, LabelInv
      <3>8. ClientInv'
        BY Zenon, <2>2, <3>5, <3>6 DEF MapInv, ClientInv, FlowOrNone
      <3>9. ServedInv'
        BY <2>2, <3>4 DEF MapInv, ServedInv, Serving
      <3>10. \A g \in Flow : pc'[g] \in FreshPc => pc[g] \in FreshPc
        BY Zenon, <2>2, <3>2 DEF FreshPc
      <3>11. TableInv'
        <4>1. bibs' = bibs BY Zenon, <2>2
        <4>2. ASSUME NEW c \in Sock, bibs[c] # None
              PROVE  /\ bibs[c] \in Flow /\ key[bibs[c]] \in Key
                     /\ key[bibs[c]].sock = c /\ pc[bibs[c]] \notin FreshPc
          BY Zenon, <3>6, <4>2 DEF MapInv, TableInv, FlowOrNone
        <4>3. ASSUME NEW c \in Sock, bibs[c] # None
              PROVE  /\ key'[bibs[c]] \in Key
                     /\ key'[bibs[c]].sock = c /\ pc'[bibs[c]] \notin FreshPc
          BY Zenon, <3>4, <3>10, <4>2, <4>3
        <4> QED BY Zenon, <4>1, <4>3 DEF TableInv
      <3>12. FlowInv'
        BY <2>2, <3>4, <3>5, <3>6 DEF MapInv, FlowInv, FlowOrNone, SameClient
      <3>13. CleanerInv'
        BY ZenonT(60), <2>2, <3>10, FreshKept
      <3> QED
        BY Zenon, <3>7, <3>8, <3>9, <3>11, <3>12, <3>13 DEF MapInv
    <2> QED BY Zenon, <1>4, <2>1, <2>2 DEF CreateEndpoint
  <1> QED BY Zenon, <1>1, <1>2, <1>3, <1>4 DEF NicStep

\* getOrCreateBIB and the registration keep the mapping: a flow takes the BIB of
\* its client socket, or maps the one it opened.
LEMMA MapSetup ==
  ASSUME MapInv, TypeOK, NEW f \in Flow, SetupStep(f)
  PROVE  MapInv'
  <1> USE DEF flowVars, bibVars, mapVars
  <1>t. /\ \A g \in Flow : bibOf[g] \in FlowOrNone
        /\ \A c \in Sock : bibs[c] \in FlowOrNone
        /\ f # Nic /\ f # None
        /\ pc[f] # "free" => key[f] \in Key /\ key[f].sock \in Sock
    BY Zenon, ConstantsOK DEF TypeOK, FlowsOK, BibsOK, KeyOK, Key
  \* The goroutine adopts the BIB its client socket is mapped to.
  <1>a. ASSUME pc[f] \in {"bib", "listen"}, bibs[key[f].sock] # None,
               bibOf' = [bibOf EXCEPT ![f] = bibs[key[f].sock]],
               Goto(f, "register"), UNCHANGED <<key, bibVars, cl>>
        PROVE  MapInv'
    <2>0. UNCHANGED <<key, sock, loop, flows, bibs, cl>>
      BY Zenon, <1>a
    <2>1. SameClient(f, bibs[key[f].sock])
      BY Zenon, <1>a, <1>t DEF MapInv, TableInv, SameClient
    <2>2. /\ pc'[f] = "register" /\ bibOf'[f] = bibs[key[f].sock]
          /\ \A g \in Flow : g # f => pc'[g] = pc[g] /\ bibOf'[g] = bibOf[g]
      BY Zenon, <1>a, <1>t DEF Goto, TypeOK, PcOK, FlowsOK
    <2>3. ClientInv'
      <3>1. \A g \in Flow : bibOf'[g] # None => SameClient(g, bibOf'[g])
        BY Zenon, <2>1, <2>2 DEF MapInv, ClientInv
      <3> QED BY Zenon, <2>0, <3>1 DEF ClientInv, SameClient
    <2>4. \A g \in Flow : pc'[g] \in FreshPc => pc[g] \in FreshPc
      BY Zenon, <2>2 DEF FreshPc
    <2>5. LabelInv'
      <3>1. pc'[f] \notin FreshPc /\ pc'[f] # "free" /\ bibOf'[f] # None
        BY Zenon, <1>a, <2>2 DEF FreshPc
      <3> QED BY Zenon, <2>0, <2>2, <3>1 DEF MapInv, LabelInv
    <2>6. ServedInv' /\ FlowInv'
      BY Zenon, <2>0, PartsKept
    <2>7. TableInv' /\ CleanerInv'
      BY Zenon, <2>0, <2>4, FreshKept
    <2> QED BY Zenon, <2>3, <2>5, <2>6, <2>7 DEF MapInv
  <1>1. CASE LoadBIB(f)
    <2>1. CASE bibs[key[f].sock] # None
      BY Zenon, <1>1, <1>a, <2>1 DEF LoadBIB
    <2>2. CASE bibs[key[f].sock] = None
      BY Zenon, <1>1, <2>2, MapGoto DEF LoadBIB, BoundPc, DeletePc
    <2> QED BY Zenon, <2>1, <2>2
  <1>2. CASE ListenFails(f)
    BY Zenon, <1>2, MapGoto DEF ListenFails, BoundPc, DeletePc
  <1>3. CASE StoreBIB(f)
    <2>1. CASE bibs[key[f].sock] # None
      BY Zenon, <1>3, <1>a, <2>1 DEF StoreBIB, LoadedBIB
    <2>2. CASE bibs[key[f].sock] = None
      <3>1. /\ pc[f] = "listen" /\ Goto(f, "register")
            /\ bibOf' = [bibOf EXCEPT ![f] = f]
            /\ sock' = [sock EXCEPT ![f] = "open"]
            /\ loop' = [loop EXCEPT ![f] = TRUE]
            /\ bibs' = [bibs EXCEPT ![key[f].sock] = f]
            /\ UNCHANGED <<flows, key, cl>>
        BY Zenon, <1>3, <2>2 DEF StoreBIB, LoadedBIB
      <3>2. key[f] \in Key /\ key[f].sock \in Sock
        BY Zenon, <1>t, <3>1
      <3>3. /\ pc'[f] = "register" /\ bibOf'[f] = f /\ sock'[f] = "open"
            /\ bibs'[key[f].sock] = f
            /\ \A g \in Flow : g # f =>
                 /\ pc'[g] = pc[g] /\ bibOf'[g] = bibOf[g]
                 /\ sock'[g] = sock[g] /\ loop'[g] = loop[g]
            /\ \A c \in Sock : c # key[f].sock => bibs'[c] = bibs[c]
        BY Zenon, <1>t, <3>1, <3>2 DEF Goto, TypeOK, PcOK, FlowsOK, BibsOK
      <3>4. LabelInv'
        <4>1. pc'[f] \notin FreshPc /\ pc'[f] # "free" /\ bibOf'[f] # None
          BY Zenon, <1>t, <3>3 DEF FreshPc
        <4>2. UNCHANGED key
          BY Zenon, <3>1
        <4> QED BY Zenon, <3>3, <4>1, <4>2 DEF MapInv, LabelInv
      <3>5. ClientInv'
        <4>1. \A g \in Flow : bibOf'[g] # None => SameClient(g, bibOf'[g])
          <5>1. SameClient(f, f)
            BY Zenon, <3>2 DEF SameClient
          <5> QED BY Zenon, <3>3, <5>1 DEF MapInv, ClientInv
        <4>2. UNCHANGED key
          BY Zenon, <3>1
        <4> QED BY Zenon, <4>1, <4>2 DEF ClientInv, SameClient
      \* No other BIB of this client was served: it would have been mapped.
      <3>6. ASSUME NEW g \in Flow, Serving(g)'
            PROVE  key'[g] \in Key /\ bibs'[key'[g].sock] = g
        <4>1. CASE g = f
          BY Zenon, <3>1, <3>2, <3>3, <4>1
        <4>2. CASE g # f
          <5>1. Serving(g)
            BY Zenon, <3>3, <3>6, <4>2 DEF Serving
          <5>2. key[g] \in Key /\ bibs[key[g].sock] = g /\ g # None
            BY Zenon, <5>1, ConstantsOK DEF MapInv, ServedInv
          <5>3. key[g].sock \in Sock /\ key[g].sock # key[f].sock
            BY Zenon, <2>2, <5>2 DEF Key
          <5> QED BY <3>1, <3>3, <5>2, <5>3
        <4> QED BY Zenon, <4>1, <4>2
      <3>7. \A g \in Flow : pc'[g] \in FreshPc => pc[g] \in FreshPc
        BY Zenon, <3>3 DEF FreshPc
      <3>8. TableInv'
        <4>1. \A c \in Sock : c # key[f].sock /\ bibs[c] # None =>
                /\ key[bibs[c]] \in Key /\ key[bibs[c]].sock = c
                /\ pc'[bibs[c]] \notin FreshPc
          BY Zenon, <1>t, <3>7 DEF MapInv, TableInv, FlowOrNone
        <4>2. pc'[f] \notin FreshPc
          BY Zenon, <3>3 DEF FreshPc
        <4>3. UNCHANGED key
          BY Zenon, <3>1
        <4> QED BY <3>2, <3>3, <4>1, <4>2, <4>3 DEF TableInv
      <3>9. CleanerInv'
        <4>1. cl.pc \in {"closeBib", "cadBib"} => cl.target \in Flow /\ cl.target # f
          BY Zenon, <3>1 DEF MapInv, CleanerInv, FreshPc
        <4>2. cl' = cl
          BY Zenon, <3>1
        <4> QED BY Zenon, <3>3, <4>1, <4>2 DEF MapInv, CleanerInv
      <3>10. FlowInv'
        BY Zenon, <3>1, PartsKept
      <3>11. ServedInv'
        BY Zenon, <3>6 DEF ServedInv
      <3> QED
        BY Zenon, <3>4, <3>5, <3>8, <3>9, <3>10, <3>11 DEF MapInv
    <2> QED BY Zenon, <2>1, <2>2
  <1>4. CASE Register(f)
    BY Zenon, <1>4, MapGoto DEF Register, BoundPc, DeletePc
  <1>5. CASE Replace(f)
    BY Zenon, <1>5, MapGoto DEF Replace, BoundPc, DeletePc
  <1>6. CASE CountSession(f)
    BY Zenon, <1>6, MapGoto DEF CountSession, BoundPc, DeletePc
  <1>7. CASE CountSource(f)
    BY Zenon, <1>7, MapGoto DEF CountSource, BoundPc, DeletePc
  <1>8. CASE StoreFlow(f)
    <2>1. /\ pc[f] = "flow" /\ Goto(f, "read")
          /\ flows' = [flows EXCEPT ![bibOf[f]][key[f].dst] = f]
          /\ UNCHANGED <<key, bibOf, sock, loop, bibs, cl>>
      BY Zenon, <1>8 DEF StoreFlow, FlowSlot
    <2>2. SameClient(f, bibOf[f]) /\ bibOf[f] \in Flow
      <3>1. bibOf[f] # None
        BY Zenon, <2>1 DEF MapInv, LabelInv, BoundPc
      <3> QED BY Zenon, <1>t, <3>1 DEF MapInv, ClientInv, FlowOrNone
    <2>3. \A b \in Flow, t \in Tuple :
            \/ flows'[b][t] = flows[b][t]
            \/ flows'[b][t] = f /\ b = bibOf[f] /\ t = key[f].dst
      BY Zenon, <2>1, <2>2 DEF TypeOK, BibsOK
    <2>4. FlowInv'
      <3>1. \A b \in Flow, t \in Tuple :
              flows'[b][t] # None => /\ SameClient(flows'[b][t], b)
                                     /\ key[flows'[b][t]].dst = t
        BY <2>2, <2>3 DEF MapInv, FlowInv
      <3> QED BY <2>1, <3>1 DEF FlowInv, SameClient
    <2>5. pc'[f] = "read" /\ \A g \in Flow : g # f => pc'[g] = pc[g]
      BY Zenon, <1>t, <2>1 DEF Goto, TypeOK, PcOK
    <2>6. LabelInv'
      <3>1. pc'[f] \notin FreshPc /\ pc'[f] # "free" /\ bibOf'[f] # None
        BY Zenon, <2>1, <2>5 DEF MapInv, LabelInv, FreshPc, BoundPc
      <3> QED BY Zenon, <2>1, <2>5, <3>1 DEF MapInv, LabelInv
    <2>7. \A g \in Flow : pc'[g] \in FreshPc => pc[g] \in FreshPc
      BY Zenon, <2>5 DEF FreshPc
    <2>8. TableInv' /\ CleanerInv'
      BY Zenon, <2>1, <2>7, FreshKept
    <2>9. ClientInv' /\ ServedInv'
      BY Zenon, <2>1, PartsKept
    <2> QED BY Zenon, <2>4, <2>6, <2>8, <2>9 DEF MapInv
  <1> QED BY Zenon, <1>1, <1>2, <1>3, <1>4, <1>5, <1>6, <1>7, <1>8 DEF SetupStep

\* Forwarding a datagram touches no mapping.
LEMMA MapForward ==
  ASSUME MapInv, TypeOK, NEW f \in Flow, ForwardStep(f)
  PROVE  MapInv'
  <1> USE DEF flowVars, bibVars, mapVars
  <1>1. CASE ReadDatagram(f)
    BY Zenon, <1>1, MapGoto DEF ReadDatagram, LoopExit, BoundPc, DeletePc
  <1>2. CASE WriteDatagram(f)
    BY Zenon, <1>2, MapGoto DEF WriteDatagram, LoopExit, BoundPc, DeletePc
  <1> QED BY Zenon, <1>1, <1>2 DEF ForwardStep

\* deleteSession removes flow entries and leaves BIBs mapped.
LEMMA MapDelete ==
  ASSUME MapInv, TypeOK, NEW a \in Flow \cup {Nic}, DeleteStep(a)
  PROVE  MapInv'
  <1> USE DEF flowVars, bibVars, mapVars
  <1>1. CASE DeleteClose(a)
    BY Zenon, <1>1, MapGoto DEF DeleteClose, BoundPc, DeletePc
  <1>2. CASE DeleteEntry(a)
    BY Zenon, <1>2, MapGoto, ConstantsOK DEF DeleteEntry, BoundPc, DeletePc, AfterDelete
  <1>3. CASE DeleteCount(a)
    BY Zenon, <1>3, MapGoto DEF DeleteCount, BoundPc, DeletePc
  <1>4. CASE DeleteSource(a)
    BY Zenon, <1>4, MapGoto DEF DeleteSource, BoundPc, DeletePc
  <1>5. CASE DeleteFlow(a)
    <2>1. /\ Goto(a, AfterDelete(a)) /\ pc[a] = "unflow"
          /\ UNCHANGED <<key, bibOf, sock, loop, bibs, cl>>
      BY Zenon, <1>5 DEF DeleteFlow
    <2>2. \A b \in Flow, t \in Tuple :
            flows'[b][t] = flows[b][t] \/ flows'[b][t] = None
      BY Zenon, <1>5 DEF DeleteFlow, WithoutFlow, TypeOK, BibsOK
    <2>3. \A g \in Flow : pc'[g] = pc[g] \/ pc'[g] = "done"
      BY Zenon, <2>1, ConstantsOK DEF Goto, AfterDelete, TypeOK, PcOK
    <2>4. LabelInv'
      <3>1. "done" \notin FreshPc /\ "done" \notin BoundPc
        BY Zenon DEF FreshPc, BoundPc, DeletePc
      <3> QED BY Zenon, <2>1, <2>3, <3>1 DEF MapInv, LabelInv
    <2>5. \A g \in Flow : pc'[g] \in FreshPc => pc[g] \in FreshPc
      BY Zenon, <2>3 DEF FreshPc
    <2>6. TableInv' /\ CleanerInv'
      BY Zenon, <2>1, <2>5, FreshKept
    <2>7. ClientInv' /\ ServedInv'
      BY Zenon, <2>1, PartsKept
    <2>8. FlowInv'
      <3>1. \A b \in Flow, t \in Tuple :
              flows'[b][t] # None => SameClient(flows'[b][t], b) /\ key[flows'[b][t]].dst = t
        BY Zenon, <2>2 DEF MapInv, FlowInv
      <3> QED BY Zenon, <2>1, <3>1 DEF FlowInv, SameClient
    <2> QED BY Zenon, <2>4, <2>6, <2>7, <2>8 DEF MapInv
  <1> QED BY Zenon, <1>1, <1>2, <1>3, <1>4, <1>5 DEF DeleteStep

\* Unmapping a BIB that is not served disturbs no other mapping.
LEMMA MapUnmap ==
  ASSUME MapInv, TypeOK, NEW b \in Flow, bibs' = UnmappedBIB(b),
         UNCHANGED <<pc, key, bibOf, sock, flows>>,
         ~Serving(b)', \A g \in Flow : loop'[g] => loop[g],
         UNCHANGED cl \/ cl'.pc \notin {"closeBib", "cadBib"}
  PROVE  MapInv'
  <1>1. \A c \in Sock : bibs'[c] = bibs[c] \/ (bibs'[c] = None /\ bibs[c] = b)
    BY Zenon DEF UnmappedBIB, TypeOK, BibsOK
  <1>2. ASSUME NEW g \in Flow, Serving(g)'
        PROVE  key'[g] \in Key /\ bibs'[key'[g].sock] = g
    <2>1. g # b /\ Serving(g)
      BY Zenon, <1>2 DEF Serving
    <2>2. key[g] \in Key /\ key[g].sock \in Sock /\ bibs[key[g].sock] = g
      BY Zenon, <2>1 DEF MapInv, ServedInv, Key
    <2> QED BY Zenon, <1>1, <2>1, <2>2
  <1>3. TableInv'
    BY Zenon, <1>1 DEF MapInv, TableInv
  <1>4. LabelInv'
    BY Zenon DEF MapInv, LabelInv
  <1>5. ClientInv' /\ FlowInv'
    BY Zenon, PartsKept
  <1>6. CleanerInv'
    BY DEF MapInv, CleanerInv
  <1>7. ServedInv'
    BY Zenon, <1>2 DEF ServedInv
  <1> QED BY Zenon, <1>3, <1>4, <1>5, <1>6, <1>7 DEF MapInv

\* The sweep closes and unmaps only BIBs without flows.
LEMMA MapCleanup ==
  ASSUME MapInv, TypeOK, CleanupTick \/ Shutdown \/ CleanupStep
  PROVE  MapInv'
  <1> USE DEF flowVars, bibVars, mapVars
  <1>c. cl \in [pc : CleanPc, cutoff : Int, todo : SUBSET (Key \cup Sock),
                target : FlowOrNone, final : BOOLEAN]
    BY Zenon DEF TypeOK, ClOK
  <1>1. CASE CleanupTick
    <2>1. cl'.pc \notin {"closeBib", "cadBib"}
      BY Zenon, <1>1, <1>c DEF CleanupTick
    <2> QED BY Zenon, <1>1, <2>1, MapKept DEF CleanupTick
  <1>2. CASE Shutdown
    <2>1. cl'.pc \notin {"closeBib", "cadBib"}
      BY Zenon, <1>2, <1>c DEF Shutdown
    <2> QED BY Zenon, <1>2, <2>1, MapKept DEF Shutdown
  <1>3. CASE RangeSessions
    <2>1. cl'.pc \notin {"closeBib", "cadBib"}
      BY Zenon, <1>3, <1>c DEF RangeSessions
    <2> QED BY ZenonT(60), <1>3, <2>1, MapKept DEF RangeSessions
  <1>4. CASE CloseIdleSession
    <2>1. cl'.pc \notin {"closeBib", "cadBib"}
      BY Zenon, <1>4, <1>c DEF CloseIdleSession
    <2> QED BY Zenon, <1>4, <2>1, MapKept DEF CloseIdleSession
  <1>5. CASE RangeBIBs
    <2>1. cl.pc = "bib" /\ UNCHANGED <<pc, mapVars>>
      BY Zenon, <1>5 DEF RangeBIBs
    <2>2. CASE cl'.pc \notin {"closeBib", "cadBib"}
      BY Zenon, <2>1, <2>2, MapKept
    <2>3. ASSUME NEW c \in cl.todo, IdleBIB(c),
                 cl' = [cl EXCEPT !.pc = "closeBib", !.target = bibs[c],
                                  !.todo = @ \ {c}]
          PROVE  MapInv'
      <3>1. c \in Sock /\ bibs[c] \in Flow
        BY Zenon, <2>1, <2>3 DEF TypeOK, ClOK, BibsOK, IdleBIB, FlowOrNone
      <3>2. pc[bibs[c]] \notin FreshPc
        BY Zenon, <2>3, <3>1 DEF MapInv, TableInv, IdleBIB
      <3>3. cl'.pc = "closeBib" /\ cl'.target = bibs[c]
        BY Zenon, <1>c, <2>3
      <3>4. CleanerInv'
        BY Zenon, <2>1, <3>1, <3>2, <3>3 DEF CleanerInv
      <3>5. ClientInv' /\ ServedInv' /\ FlowInv'
        BY Zenon, <2>1, PartsKept
      <3>6. LabelInv' /\ TableInv'
        BY Zenon, <2>1 DEF MapInv, LabelInv, TableInv
      <3> QED BY Zenon, <3>4, <3>5, <3>6 DEF MapInv
    <2>4. ASSUME NEW c \in cl.todo, cl' = [cl EXCEPT !.todo = @ \ {c}]
          PROVE  cl'.pc = "bib"
      BY Zenon, <1>c, <2>1, <2>4
    <2>5. CASE cl' \in {NoPass, [NoPass EXCEPT !.pc = "stopped", !.final = TRUE]}
      <3>1. PICK l \in {"idle", "stopped"}, b \in BOOLEAN :
              cl' = [pc |-> l, cutoff |-> 0, todo |-> {}, target |-> None,
                     final |-> b]
        BY ZenonT(60), <2>5 DEF NoPass
      <3> QED BY Zenon, <2>2, <3>1
    <2> QED BY ZenonT(60), <1>5, <2>2, <2>3, <2>4, <2>5 DEF RangeBIBs
  <1>6. CASE CloseIdleBIB
    <2>1. /\ sock' = [sock EXCEPT ![cl.target] = "closed"]
          /\ UNCHANGED <<pc, key, bibOf, loop, flows, bibs>>
          /\ cl'.pc = "cadBib" => cl'.target = cl.target
          /\ cl'.pc # "closeBib"
      BY Zenon, <1>6, <1>c DEF CloseIdleBIB
    <2>2. cl.target \in Flow /\ pc[cl.target] \notin FreshPc
      BY Zenon, <1>6 DEF CloseIdleBIB, MapInv, CleanerInv
    <2>3. /\ \A g \in Flow : g # cl.target => sock'[g] = sock[g]
          /\ sock'[cl.target] = "closed"
      BY Zenon, <2>1, <2>2 DEF TypeOK, BibsOK
    <2>4. LabelInv'
      BY Zenon, <2>1, <2>2, <2>3 DEF MapInv, LabelInv
    <2>5. ServedInv'
      <3>1. \A g \in Flow : Serving(g)' => Serving(g)
        BY Zenon, <2>1, <2>3 DEF Serving
      <3> QED BY Zenon, <2>1, <3>1 DEF MapInv, ServedInv
    <2>6. CleanerInv'
      BY Zenon, <2>1, <2>2, <2>3 DEF CleanerInv
    <2>7. ClientInv' /\ FlowInv'
      BY Zenon, <2>1, PartsKept
    <2>8. TableInv'
      BY Zenon, <2>1 DEF MapInv, TableInv
    <2> QED BY Zenon, <2>4, <2>5, <2>6, <2>7, <2>8 DEF MapInv
  <1>7. CASE UnmapIdleBIB
    <2>0. PICK b \in Flow : b = cl.target /\ sock[b] = "closed"
      BY Zenon, <1>7 DEF UnmapIdleBIB, MapInv, CleanerInv
    <2>1. ~Serving(b)'
      BY Zenon, <1>7, <2>0 DEF UnmapIdleBIB, Serving
    <2>2. cl'.pc \notin {"closeBib", "cadBib"}
      BY Zenon, <1>7, <1>c DEF UnmapIdleBIB
    <2> QED BY Zenon, <1>7, <2>0, <2>1, <2>2, MapUnmap DEF UnmapIdleBIB
  <1> QED BY Zenon, <1>1, <1>2, <1>3, <1>4, <1>5, <1>6, <1>7 DEF CleanupStep

\* Every step keeps the mapping invariant.
LEMMA MapStep == MapInv /\ TypeOK /\ [Next]_vars => MapInv'
  <1> SUFFICES ASSUME MapInv, TypeOK, [Next]_vars PROVE MapInv'
    OBVIOUS
  <1> USE DEF flowVars, bibVars, mapVars
  <1>1. ASSUME NEW b \in Flow, ReplyLoopExit(b) PROVE MapInv'
    <2>1. ~Serving(b)' /\ \A g \in Flow : loop'[g] => loop[g]
      BY Zenon, <1>1 DEF ReplyLoopExit, Serving, TypeOK, BibsOK
    <2> QED BY Zenon, <1>1, <2>1, MapUnmap DEF ReplyLoopExit
  <1>2. ASSUME NEW s \in Settings, Reload(s) PROVE MapInv'
    BY Zenon, <1>2, MapKept DEF Reload
  <1>3. CASE Advance
    BY Zenon, <1>3, MapKept DEF Advance
  <1>4. CASE UNCHANGED vars
    BY Zenon, <1>4, MapKept DEF vars
  <1> QED
    BY Zenon, <1>1, <1>2, <1>3, <1>4, MapNic, MapSetup, MapForward, MapDelete,
       MapCleanup DEF Next

\* So it holds in every reachable state.
LEMMA MapCorrect == Spec => [](TypeOK /\ MapInv)
  BY TypeInit, TypeStep, MapInit, MapStep, PTL DEF Spec

\* Only the BIB a client socket is mapped to is served: the exit of a reply
\* loop and the cleaner never unmap a re-created BIB (udp.go, service.go).
THEOREM ServedMapped == Spec => []ServedBIBMapped
  <1>1. MapInv => ServedBIBMapped
    BY Zenon DEF MapInv, ServedInv, ServedBIBMapped
  <1> QED BY <1>1, MapCorrect, PTL

\* Endpoint-independent mapping: the relaying flows of one client socket that
\* have a served external socket share it, for any number of flows.
THEOREM MappingIndependent == Spec => []EndpointIndependentMapping
  <1>1. ASSUME TypeOK, MapInv PROVE EndpointIndependentMapping
    <2>1. SUFFICES ASSUME NEW f \in Flow, NEW g \in Flow,
                          Relaying(f), Relaying(g), key[f].sock = key[g].sock,
                          Serving(bibOf[f]), Serving(bibOf[g])
                   PROVE  bibOf[f] = bibOf[g]
      BY Zenon DEF EndpointIndependentMapping
    <2>2. bibOf[f] \in Flow /\ bibOf[g] \in Flow
      BY Zenon, <2>1, <1>1 DEF MapInv, LabelInv, Relaying, BoundPc, TypeOK, FlowsOK, FlowOrNone
    <2>3. SameClient(f, bibOf[f]) /\ SameClient(g, bibOf[g])
      BY Zenon, <1>1, <2>2, ConstantsOK DEF MapInv, ClientInv
    <2>4. /\ bibs[key[bibOf[f]].sock] = bibOf[f]
          /\ bibs[key[bibOf[g]].sock] = bibOf[g]
      BY Zenon, <1>1, <2>1, <2>2 DEF MapInv, ServedInv
    <2> QED BY ZenonT(60), <2>1, <2>3, <2>4 DEF SameClient
  <1> QED BY <1>1, MapCorrect, PTL

\* A BIB's flow table leads only to sessions of its own client socket, each
\* under its own destination, whatever is evicted, replaced or expired.
THEOREM FlowsIsolated == Spec => []FlowIsolation
  <1>1. ASSUME TypeOK, MapInv PROVE FlowIsolation
    BY Zenon, <1>1, ConstantsOK DEF MapInv, FlowInv, FlowIsolation, SameClient
  <1> QED BY <1>1, MapCorrect, PTL
-----------------------------------------------------------------------------
(***************************************************************************)
(* Replies.  A tuple has one open endpoint.  While no session is swept     *)
(* during its set-up, the endpoint of a session is open until its entry is *)
(* stored, and so the entry of a tuple is that of its open session.        *)
(***************************************************************************)

\* The demuxer holds one endpoint per tuple, and none for the one the NIC
\* loop is making an endpoint for.
OpenOnce ==
  /\ \A f, g \in Flow : ep[f] = "open" /\ ep[g] = "open" /\ key[f] = key[g] => f = g
  /\ pc[Nic] # "idle" => \A f \in Flow : ep[f] = "open" => key[f] # nic.key

StampedPc == {"replace", "count", "src", "flow"}

\* A session being set up is too young for the cleaner.
PaceInv ==
  /\ \A f \in Flow : pc[f] \in StampedPc =>
       \A s \in Settings : s.timeout > 0 => now - s.timeout <= seen[f]
  /\ ~cl.final => /\ cl.cutoff <= now
                  /\ \A f \in Flow : pc[f] \in StampedPc => cl.cutoff <= seen[f]

\* Without a limit the NIC loop evicts nothing.
LimitInv == settings.max <= 0 => nic.max <= 0 /\ pc[Nic] \notin DeletePc

\* Only a session past its registration is in the table.
TabledInv ==
  \A k \in Key : sessions[k] # None => pc[sessions[k]] \notin FreshPc \cup {"register"}

\* The NIC loop evicts a session, and what it closed stays closed.
VictimInv ==
  pc[Nic] \in DeletePc => /\ nic.victim \in Flow /\ pc[nic.victim] # "free"
                          /\ pc[Nic] # "close" => ep[nic.victim] # "open"

\* What holds in every behaviour, swept or not.
DemuxInv == OpenOnce /\ PaceInv /\ TabledInv /\ VictimInv

\* What holds while no session is swept in its set-up: set-up goes on with an
\* open endpoint, the cleaner closes no session that is being set up, and the
\* entry of an open, relaying session is its own.
EntryInv ==
  /\ \A f \in Flow : pc[f] \in SetupPc => ep[f] = "open"
  /\ cl.pc = "closeSess" => cl.target \in Flow /\ pc[cl.target] \notin SetupPc \cup {"free"}
  /\ \A f \in Flow : Relaying(f) /\ ep[f] = "open" => flows[bibOf[f]][key[f].dst] = f

\* The service is not shut down, and an eviction takes no session from its
\* set-up.
Spared == ~cl.final /\ (pc[Nic] \in DeletePc => pc[nic.victim] \notin SetupPc)

ReplyInv == DemuxInv /\ LimitInv /\ (NeverSwept => EntryInv)

\* Nothing is open or set up at first.
LEMMA ReplyInit == Init => DemuxInv /\ LimitInv /\ EntryInv
<1> SUFFICES ASSUME Init PROVE DemuxInv /\ LimitInv /\ EntryInv
  OBVIOUS
<1>1. pc[Nic] = "idle" /\ \A f \in Flow : pc[f] = "free" /\ ep[f] = "none"
  BY Zenon, ConstantsOK DEF Init
<1>2. cl.cutoff = 0 /\ cl.pc = "idle" /\ nic.max = 0 /\ now = 0
  BY Zenon DEF Init, NoPass, NoCall
<1>3. OpenOnce /\ PaceInv /\ LimitInv /\ VictimInv
  BY <1>1, <1>2 DEF OpenOnce, PaceInv, LimitInv, VictimInv, StampedPc, DeletePc
<1>4. TabledInv /\ EntryInv
  BY Zenon, <1>1, <1>2 DEF Init, TabledInv, EntryInv, Relaying, SetupPc
<1> QED BY Zenon, <1>3, <1>4 DEF DemuxInv

\* Where a goroutine's own step leaves it and its session.
Own(f) ==
  /\ pc'[f] # "free" /\ pc[f] # "free"
  /\ pc'[f] \in SetupPc => pc[f] \in SetupPc /\ ep'[f] = ep[f]
  /\ pc'[f] \in FreshPc \cup {"register"} => pc[f] \in FreshPc
  /\ pc'[f] \in StampedPc => (pc[f] \in StampedPc /\ seen'[f] = seen[f]) \/ seen'[f] = now
  /\ ep'[f] = "open" => ep[f] = "open"

\* What it leaves alone.
Rest(f) ==
  /\ key' = key /\ nic' = nic /\ now' = now /\ settings' = settings /\ cl' = cl
  /\ pc'[Nic] = pc[Nic]
  /\ \A g \in Flow : g # f => pc'[g] = pc[g] /\ ep'[g] = ep[g] /\ seen'[g] = seen[g]

\* What it does to the tables.
Tables(f) ==
  /\ \A k \in Key : \/ sessions'[k] \in {sessions[k], None}
                    \/ sessions'[k] = f /\ pc'[f] \in {"count", "flow"}
  /\ \/ flows' = flows /\ (pc'[f] \in {"read", "write"} => pc[f] \in {"read", "write"} /\ bibOf' = bibOf)
     \/ pc[f] = "flow" /\ bibOf' = bibOf /\ flows' = [flows EXCEPT ![bibOf[f]][key[f].dst] = f]
     \/ pc[f] = "unflow" /\ pc'[f] = "done" /\ flows' = WithoutFlow(f)
  /\ \A g \in Flow : g # f => bibOf'[g] = bibOf[g]

\* A goroutine that moves moves alone.
LEMMA GotoAt ==
  ASSUME TypeOK, NEW f \in Flow, NEW l, Goto(f, l)
  PROVE  /\ pc'[f] = l /\ pc'[Nic] = pc[Nic]
         /\ \A g \in Flow : g # f => pc'[g] = pc[g]
  BY Zenon, ConstantsOK DEF TypeOK, PcOK, Goto

\* A set-up step moves its goroutine on, or gives up on its session.
LEMMA SetupAlone ==
  ASSUME TypeOK, NEW f \in Flow, SetupStep(f)
  PROVE  Own(f) /\ Rest(f) /\ Tables(f)
<1> USE DEF flowVars, bibVars, tabVars
<1>f. /\ seen \in [Flow -> 0..MaxTime] /\ bibOf \in [Flow -> FlowOrNone]
      /\ ep \in [Flow -> {"none", "open", "closed"}] /\ sessions \in [Key -> FlowOrNone]
  BY Zenon DEF TypeOK, FlowsOK, TabsOK
<1>1. CASE LoadBIB(f)
  <2>1. PICK l \in {"register", "listen"} : Goto(f, l)
    BY Zenon, <1>1 DEF LoadBIB
  <2>2. /\ key' = key /\ nic' = nic /\ now' = now /\ settings' = settings /\ cl' = cl /\ ep' = ep
        /\ seen' = seen /\ flows' = flows /\ sessions' = sessions /\ pc[f] = "bib"
    BY Zenon, <1>1 DEF LoadBIB
  <2>3. \A g \in Flow : g # f => bibOf'[g] = bibOf[g]
    BY Zenon, <1>1, <1>f DEF LoadBIB
  <2> QED BY Zenon, <2>1, <2>2, <2>3, GotoAt DEF Own, Rest, Tables, SetupPc, FreshPc, StampedPc
<1>2. CASE ListenFails(f)
  <2>1. /\ key' = key /\ nic' = nic /\ now' = now /\ settings' = settings /\ cl' = cl
        /\ seen' = seen /\ flows' = flows /\ sessions' = sessions /\ bibOf' = bibOf
        /\ pc[f] = "listen" /\ Goto(f, "done")
    BY Zenon, <1>2 DEF ListenFails
  <2>2. ep'[f] = "closed" /\ \A g \in Flow : g # f => ep'[g] = ep[g]
    BY Zenon, <1>2, <1>f DEF ListenFails, CloseEndpoint
  <2> QED BY <2>1, <2>2, GotoAt DEF Own, Rest, Tables, SetupPc, FreshPc, StampedPc
<1>3. CASE StoreBIB(f)
  <2>1. /\ key' = key /\ nic' = nic /\ now' = now /\ settings' = settings /\ cl' = cl /\ ep' = ep
        /\ seen' = seen /\ flows' = flows /\ sessions' = sessions /\ pc[f] = "listen"
        /\ Goto(f, "register")
    BY Zenon, <1>3 DEF StoreBIB
  <2>2. \A g \in Flow : g # f => bibOf'[g] = bibOf[g]
    BY Zenon, <1>3, <1>f DEF StoreBIB
  <2> QED BY <2>1, <2>2, GotoAt DEF Own, Rest, Tables, SetupPc, FreshPc, StampedPc
<1>4. CASE Register(f)
  <2>1. /\ key' = key /\ nic' = nic /\ now' = now /\ settings' = settings /\ cl' = cl /\ ep' = ep
        /\ flows' = flows /\ bibOf' = bibOf /\ pc[f] = "register"
    BY Zenon, <1>4 DEF Register
  <2>2. seen'[f] = now /\ \A g \in Flow : g # f => seen'[g] = seen[g]
    BY Zenon, <1>4, <1>f DEF Register
  <2>3. PICK l \in {"count", "replace"} :
          /\ Goto(f, l)
          /\ \A k \in Key : sessions'[k] = sessions[k] \/ (sessions'[k] = f /\ l = "count")
    BY Zenon, <1>4, <1>f DEF Register
  <2> QED BY Zenon, <2>1, <2>2, <2>3, GotoAt DEF Own, Rest, Tables, SetupPc, FreshPc, StampedPc
<1>5. CASE Replace(f)
  <2>1. /\ key' = key /\ nic' = nic /\ now' = now /\ settings' = settings /\ cl' = cl /\ ep' = ep
        /\ flows' = flows /\ bibOf' = bibOf /\ seen' = seen /\ pc[f] = "replace"
        /\ Goto(f, "flow")
    BY Zenon, <1>5 DEF Replace
  <2>2. \A k \in Key : sessions'[k] = sessions[k] \/ sessions'[k] = f
    BY Zenon, <1>5, <1>f DEF Replace
  <2> QED BY <2>1, <2>2, GotoAt DEF Own, Rest, Tables, SetupPc, FreshPc, StampedPc
<1>6. CASE CountSession(f) \/ CountSource(f)
  <2>1. /\ key' = key /\ nic' = nic /\ now' = now /\ settings' = settings /\ cl' = cl /\ ep' = ep
        /\ flows' = flows /\ bibOf' = bibOf /\ seen' = seen /\ sessions' = sessions
        /\ pc[f] \in {"count", "src"} /\ \E l \in {"src", "flow"} : Goto(f, l)
    BY Zenon, <1>6 DEF CountSession, CountSource
  <2> QED BY Zenon, <2>1, GotoAt DEF Own, Rest, Tables, SetupPc, FreshPc, StampedPc
<1>7. CASE StoreFlow(f)
  <2>1. /\ key' = key /\ nic' = nic /\ now' = now /\ settings' = settings /\ cl' = cl /\ ep' = ep
        /\ bibOf' = bibOf /\ seen' = seen /\ sessions' = sessions
        /\ pc[f] = "flow" /\ Goto(f, "read")
        /\ flows' = [flows EXCEPT ![bibOf[f]][key[f].dst] = f]
    BY Zenon, <1>7 DEF StoreFlow, FlowSlot
  <2> QED BY <2>1, GotoAt DEF Own, Rest, Tables, SetupPc, FreshPc, StampedPc
<1> QED BY Zenon, <1>1, <1>2, <1>3, <1>4, <1>5, <1>6, <1>7 DEF SetupStep

\* The forward loop and its deferred deleteSession only end a session.
LEMMA LoopAlone ==
  ASSUME TypeOK, NEW f \in Flow, ForwardStep(f) \/ DeleteStep(f)
  PROVE  Own(f) /\ Rest(f) /\ Tables(f)
<1> USE DEF flowVars, bibVars, tabVars
<1>f. /\ seen \in [Flow -> 0..MaxTime] /\ sessions \in [Key -> FlowOrNone]
      /\ ep \in [Flow -> {"none", "open", "closed"}]
  BY Zenon DEF TypeOK, FlowsOK, TabsOK
<1>v. Victim(f) = f /\ AfterDelete(f) = "done"
  BY Zenon, ConstantsOK DEF Victim, AfterDelete
<1>1. CASE ReadDatagram(f)
  <2>1. /\ key' = key /\ nic' = nic /\ now' = now /\ settings' = settings /\ cl' = cl /\ ep' = ep
        /\ flows' = flows /\ bibOf' = bibOf /\ sessions' = sessions /\ pc[f] = "read"
    BY Zenon, <1>1 DEF ReadDatagram
  <2>2. \A g \in Flow : g # f => seen'[g] = seen[g]
    BY Zenon, <1>1, <1>f DEF ReadDatagram
  <2>3. \E l \in {"write", "close"} : Goto(f, l)
    BY Zenon, <1>1 DEF ReadDatagram, LoopExit
  <2> QED BY Zenon, <2>1, <2>2, <2>3, GotoAt DEF Own, Rest, Tables, SetupPc, FreshPc, StampedPc
<1>2. CASE WriteDatagram(f)
  <2>1. /\ key' = key /\ nic' = nic /\ now' = now /\ settings' = settings /\ cl' = cl /\ ep' = ep
        /\ flows' = flows /\ bibOf' = bibOf /\ sessions' = sessions /\ seen' = seen
        /\ pc[f] = "write" /\ \E l \in {"read", "close"} : Goto(f, l)
    BY Zenon, <1>2 DEF WriteDatagram, LoopExit
  <2> QED BY Zenon, <2>1, GotoAt DEF Own, Rest, Tables, SetupPc, FreshPc, StampedPc
<1>3. CASE DeleteClose(f)
  <2>1. /\ key' = key /\ nic' = nic /\ now' = now /\ settings' = settings /\ cl' = cl
        /\ flows' = flows /\ bibOf' = bibOf /\ sessions' = sessions /\ seen' = seen
        /\ pc[f] = "close" /\ Goto(f, "cad")
    BY Zenon, <1>3 DEF DeleteClose
  <2>2. ep'[f] = "closed" /\ \A g \in Flow : g # f => ep'[g] = ep[g]
    BY Zenon, <1>3, <1>f, <1>v DEF DeleteClose, CloseEndpoint
  <2> QED BY <2>1, <2>2, GotoAt DEF Own, Rest, Tables, SetupPc, FreshPc, StampedPc
<1>4. CASE DeleteEntry(f)
  <2>1. /\ key' = key /\ nic' = nic /\ now' = now /\ settings' = settings /\ cl' = cl /\ ep' = ep
        /\ flows' = flows /\ bibOf' = bibOf /\ seen' = seen
        /\ pc[f] = "cad" /\ \E l \in {"dec", "done"} : Goto(f, l)
    BY Zenon, <1>4, <1>v DEF DeleteEntry
  <2>2. \A k \in Key : sessions'[k] \in {sessions[k], None}
    BY Zenon, <1>4, <1>f, <1>v DEF DeleteEntry
  <2> QED BY Zenon, <2>1, <2>2, GotoAt DEF Own, Rest, Tables, SetupPc, FreshPc, StampedPc
<1>5. CASE DeleteCount(f) \/ DeleteSource(f)
  <2>1. /\ key' = key /\ nic' = nic /\ now' = now /\ settings' = settings /\ cl' = cl /\ ep' = ep
        /\ flows' = flows /\ bibOf' = bibOf /\ seen' = seen /\ sessions' = sessions
        /\ pc[f] \in {"dec", "rem"} /\ \E l \in {"rem", "unflow"} : Goto(f, l)
    BY Zenon, <1>5 DEF DeleteCount, DeleteSource
  <2> QED BY Zenon, <2>1, GotoAt DEF Own, Rest, Tables, SetupPc, FreshPc, StampedPc
<1>6. CASE DeleteFlow(f)
  <2>1. /\ key' = key /\ nic' = nic /\ now' = now /\ settings' = settings /\ cl' = cl /\ ep' = ep
        /\ bibOf' = bibOf /\ seen' = seen /\ sessions' = sessions
        /\ pc[f] = "unflow" /\ Goto(f, "done") /\ flows' = WithoutFlow(f)
    BY Zenon, <1>6, <1>v DEF DeleteFlow
  <2> QED BY <2>1, GotoAt DEF Own, Rest, Tables, SetupPc, FreshPc, StampedPc
<1> QED BY Zenon, <1>1, <1>2, <1>3, <1>4, <1>5, <1>6 DEF ForwardStep, DeleteStep

\* A tuple has one session that is open: two that share a BIB and a
\* destination share the tuple.
LEMMA SameTuple ==
  ASSUME TypeOK, MapInv, NEW f \in Flow, NEW g \in Flow, pc[f] \in BoundPc, pc[g] \in BoundPc,
         bibOf[f] = bibOf[g], key[f].dst = key[g].dst
  PROVE  key[f] = key[g]
<1>1. bibOf[f] # None /\ SameClient(f, bibOf[f]) /\ SameClient(g, bibOf[f])
  BY Zenon DEF MapInv, LabelInv, ClientInv
<1>2. key[f] \in Key /\ key[g] \in Key /\ key[f].sock = key[g].sock
  BY Zenon, <1>1 DEF SameClient
<1> QED BY <1>2 DEF Key

\* A goroutine's step keeps the entries of open sessions.
LEMMA EntryAlone ==
  ASSUME TypeOK, MapInv, OpenOnce, EntryInv, NEW f \in Flow, Own(f), Rest(f), Tables(f),
         NEW g \in Flow, Relaying(g)', ep'[g] = "open"
  PROVE  flows'[bibOf'[g]][key'[g].dst] = g
<1>1. ep[g] = "open" /\ key' = key
  BY Zenon DEF Own, Rest
<1>2. /\ \A h \in Flow : pc[h] \in SetupPc => ep[h] = "open"
      /\ Relaying(g) => flows[bibOf[g]][key[g].dst] = g
  BY Zenon, <1>1 DEF EntryInv
<1>3. \A h \in Flow : pc[h] \in BoundPc => bibOf[h] \in Flow /\ key[h].dst \in Tuple
  BY Zenon DEF MapInv, LabelInv, TypeOK, FlowsOK, FlowOrNone, KeyOK, Key, BoundPc, DeletePc
<1>4. flows \in [Flow -> [Tuple -> FlowOrNone]]
  BY Zenon DEF TypeOK, BibsOK
<1>5. CASE /\ flows' = flows
           /\ pc'[f] \in {"read", "write"} => pc[f] \in {"read", "write"} /\ bibOf' = bibOf
  <2>1. Relaying(g) /\ bibOf'[g] = bibOf[g]
    <3>1. CASE g = f
      BY Zenon, <1>5, <3>1 DEF Relaying
    <3>2. CASE g # f
      BY Zenon, <3>2 DEF Tables, Rest, Relaying
    <3> QED BY Zenon, <3>1, <3>2
  <2> QED BY Zenon, <1>1, <1>2, <1>5, <2>1
<1>6. CASE pc[f] = "flow" /\ bibOf' = bibOf /\ flows' = [flows EXCEPT ![bibOf[f]][key[f].dst] = f]
  <2>1. pc[f] \in BoundPc /\ bibOf[f] \in Flow /\ key[f].dst \in Tuple
    BY Zenon, <1>3, <1>6 DEF BoundPc
  <2>2. CASE g = f
    BY Zenon, <1>1, <1>4, <1>6, <2>1, <2>2
  <2>3. CASE g # f
    <3>1. Relaying(g) /\ pc[g] \in BoundPc
      BY Zenon, <2>3 DEF Rest, Relaying, BoundPc
    <3>2. bibOf[g] \in Flow /\ key[g].dst \in Tuple /\ flows[bibOf[g]][key[g].dst] = g
      BY Zenon, <1>2, <1>3, <3>1
    <3>3. ep[f] = "open"
      BY Zenon, <1>2, <1>6 DEF SetupPc
    <3>4. ~(bibOf[f] = bibOf[g] /\ key[f].dst = key[g].dst)
      BY Zenon, <1>1, <2>1, <2>3, <3>1, <3>3, SameTuple DEF OpenOnce
    <3> QED BY Zenon, <1>1, <1>4, <1>6, <2>1, <3>2, <3>4
  <2> QED BY Zenon, <2>2, <2>3
<1>7. CASE pc[f] = "unflow" /\ pc'[f] = "done" /\ flows' = WithoutFlow(f)
  <2>1. g # f
    BY Zenon, <1>7 DEF Relaying
  <2>2. Relaying(g) /\ pc[g] \in BoundPc /\ bibOf'[g] = bibOf[g]
    BY Zenon, <2>1 DEF Rest, Tables, Relaying, BoundPc
  <2>3. bibOf[g] \in Flow /\ key[g].dst \in Tuple /\ flows[bibOf[g]][key[g].dst] = g
    BY Zenon, <1>2, <1>3, <2>2
  <2>4. bibOf[f] \in Flow /\ key[f].dst \in Tuple
    BY Zenon, <1>3, <1>7 DEF BoundPc, DeletePc
  <2> QED BY Zenon, <1>1, <1>4, <1>7, <2>1, <2>2, <2>3, <2>4 DEF WithoutFlow
<1> QED BY Zenon, <1>5, <1>6, <1>7 DEF Tables

\* A goroutine's step keeps all of it.
LEMMA ReplyAlone ==
  ASSUME TypeOK, MapInv, DemuxInv, NEW f \in Flow, Own(f), Rest(f), Tables(f)
  PROVE  /\ DemuxInv' /\ (LimitInv => LimitInv') /\ (EntryInv => EntryInv')
         /\ UNCHANGED <<settings, cl>>
<1>0. OpenOnce /\ PaceInv /\ TabledInv /\ VictimInv
  BY Zenon DEF DemuxInv
<1>1. /\ key' = key /\ nic' = nic /\ now' = now /\ settings' = settings /\ cl' = cl
      /\ pc'[Nic] = pc[Nic]
      /\ \A g \in Flow : g # f => pc'[g] = pc[g] /\ ep'[g] = ep[g] /\ seen'[g] = seen[g]
  BY Zenon DEF Rest
<1>2. \A g \in Flow : ep'[g] = "open" => ep[g] = "open"
  BY Zenon, <1>1 DEF Own
<1>3. OpenOnce'
  BY Zenon, <1>0, <1>1, <1>2 DEF OpenOnce
<1>4. PaceInv'
  <2>1. \A s \in Settings : s.timeout \in Nat
    BY Zenon, ConstantsOK DEF Setting
  <2>2. now \in Nat /\ cl.cutoff \in Int
    BY ConstantsOK DEF TypeOK, ClOK
  <2>3. ASSUME NEW g \in Flow, pc'[g] \in StampedPc
        PROVE  /\ \A s \in Settings : s.timeout > 0 => now - s.timeout <= seen'[g]
               /\ ~cl.final => cl.cutoff <= seen'[g]
    <3>1. CASE pc[g] \in StampedPc /\ seen'[g] = seen[g]
      BY Zenon, <1>0, <3>1 DEF PaceInv
    <3>2. CASE seen'[g] = now
      <4>1. \A s \in Settings : now - s.timeout <= now
        BY <2>1, <2>2
      <4> QED BY Zenon, <1>0, <3>2, <4>1 DEF PaceInv
    <3> QED BY Zenon, <1>1, <2>3, <3>1, <3>2 DEF Own
  <2> QED BY Zenon, <1>0, <1>1, <2>3 DEF PaceInv
<1>5. (LimitInv => LimitInv') /\ VictimInv'
  <2>1. LimitInv => LimitInv'
    BY Zenon, <1>1 DEF LimitInv
  <2>2. VictimInv'
    BY Zenon, <1>0, <1>1, <1>2 DEF VictimInv, Own
  <2> QED BY Zenon, <2>1, <2>2
<1>6. TabledInv'
  <2>1. \A k \in Key : sessions[k] \in Flow \cup {None}
    BY Zenon DEF TypeOK, TabsOK, FlowOrNone
  <2>2. \A g \in Flow : pc'[g] \in FreshPc \cup {"register"} => pc[g] \in FreshPc \cup {"register"}
    BY Zenon, <1>1 DEF Own
  <2>3. ASSUME NEW k \in Key, sessions'[k] # None
        PROVE  pc'[sessions'[k]] \notin FreshPc \cup {"register"}
    <3>1. CASE sessions'[k] \in {sessions[k], None}
      BY Zenon, <1>0, <2>1, <2>2, <2>3, <3>1 DEF TabledInv
    <3>2. CASE sessions'[k] = f /\ pc'[f] \in {"count", "flow"}
      BY Zenon, <3>2 DEF FreshPc
    <3> QED BY Zenon, <3>1, <3>2 DEF Tables
  <2> QED BY Zenon, <2>3 DEF TabledInv
<1>7. ASSUME EntryInv PROVE EntryInv'
  <2>2. \A g \in Flow : pc'[g] \in SetupPc => ep'[g] = "open"
    BY Zenon, <1>1, <1>7 DEF EntryInv, Own
  <2>3. cl.pc = "closeSess" => cl.target \in Flow /\ pc'[cl.target] \notin SetupPc \cup {"free"}
    BY Zenon, <1>1, <1>7 DEF EntryInv, Own
  <2>4. \A g \in Flow : Relaying(g)' /\ ep'[g] = "open" => flows'[bibOf'[g]][key'[g].dst] = g
    BY Zenon, <1>0, <1>7, EntryAlone
  <2> QED BY Zenon, <1>1, <2>2, <2>3, <2>4 DEF EntryInv
<1> QED BY Zenon, <1>1, <1>3, <1>4, <1>5, <1>6, <1>7 DEF DemuxInv

\* The cleaner: a session it picks is past its set-up.
LEMMA ReplyCleanup ==
  ASSUME TypeOK, MapInv, DemuxInv, CleanupTick \/ Shutdown \/ CleanupStep
  PROVE  /\ DemuxInv' /\ (LimitInv => LimitInv')
         /\ ~cl'.final => ~cl.final /\ (EntryInv => EntryInv')
         /\ UNCHANGED settings
<1> USE DEF flowVars, bibVars, tabVars
<1>0. OpenOnce /\ PaceInv /\ TabledInv /\ VictimInv
  BY Zenon DEF DemuxInv
<1>c. /\ cl \in [pc : CleanPc, cutoff : Int, todo : SUBSET (Key \cup Sock),
                 target : FlowOrNone, final : BOOLEAN]
      /\ cl = [pc |-> cl.pc, cutoff |-> cl.cutoff, todo |-> cl.todo, target |-> cl.target,
               final |-> cl.final]
      /\ cl.pc = "sess" => cl.todo \subseteq Key
  BY Zenon DEF TypeOK, ClOK
<1>1. /\ now' = now /\ settings' = settings /\ pc' = pc /\ nic' = nic /\ key' = key
      /\ bibOf' = bibOf /\ seen' = seen /\ flows' = flows /\ sessions' = sessions
  BY Zenon DEF CleanupTick, Shutdown, CleanupStep, RangeSessions, CloseIdleSession, RangeBIBs,
         CloseIdleBIB, UnmapIdleBIB
<1>2. (LimitInv => LimitInv') /\ TabledInv'
  BY Zenon, <1>0, <1>1 DEF LimitInv, TabledInv
\* The cutoff and the end.
<1>3. ~cl'.final => /\ ~cl.final
                    /\ \/ cl'.cutoff \in {cl.cutoff, 0}
                       \/ settings.timeout > 0 /\ cl'.cutoff = now - settings.timeout
  <2>1. CASE CleanupTick
    <3>1. settings.timeout > 0 /\ cl' = [pc |-> "sess", cutoff |-> now - settings.timeout,
                                        todo |-> Key, target |-> cl.target, final |-> cl.final]
      BY Zenon, <1>c, <2>1 DEF CleanupTick
    <3> QED BY Zenon, <3>1
  <2>2. CASE Shutdown
    <3>1. cl'.final
      BY Zenon, <1>c, <2>2 DEF Shutdown
    <3> QED BY Zenon, <3>1
  <2>3. CASE CleanupStep
    <3>1. \/ \E l, t, v : cl' = [pc |-> l, cutoff |-> cl.cutoff, todo |-> t, target |-> v,
                                 final |-> cl.final]
          \/ ~cl.final /\ cl' = NoPass
          \/ cl' = [pc |-> "stopped", cutoff |-> 0, todo |-> {}, target |-> None, final |-> TRUE]
      <4>1. CASE RangeSessions
        BY ZenonT(60), <1>c, <4>1 DEF RangeSessions
      <4>2. CASE RangeBIBs
        BY ZenonT(60), <1>c, <4>2 DEF RangeBIBs, NoPass
      <4>3. CASE CloseIdleSession
        BY ZenonT(60), <1>c, <4>3 DEF CloseIdleSession
      <4>4. CASE CloseIdleBIB
        BY ZenonT(60), <1>c, <4>4 DEF CloseIdleBIB
      <4>5. CASE UnmapIdleBIB
        BY ZenonT(60), <1>c, <4>5 DEF UnmapIdleBIB
      <4> QED BY Zenon, <2>3, <4>1, <4>2, <4>3, <4>4, <4>5 DEF CleanupStep
    <3>2. CASE \E l, t, v : cl' = [pc |-> l, cutoff |-> cl.cutoff, todo |-> t, target |-> v,
                                  final |-> cl.final]
      <4>1. PICK l, t, v : cl' = [pc |-> l, cutoff |-> cl.cutoff, todo |-> t, target |-> v,
                                  final |-> cl.final]
        BY Zenon, <3>2
      <4>2. cl'.cutoff = cl.cutoff /\ cl'.final = cl.final
        BY Zenon, <4>1
      <4> QED BY Zenon, <4>2
    <3>3. CASE ~cl.final /\ cl' = NoPass
      <4>1. cl'.cutoff = 0
        BY Zenon, <3>3 DEF NoPass
      <4> QED BY Zenon, <3>3, <4>1
    <3>4. CASE cl' = [pc |-> "stopped", cutoff |-> 0, todo |-> {}, target |-> None, final |-> TRUE]
      <4>1. cl'.final
        BY Zenon, <3>4
      <4> QED BY Zenon, <4>1
    <3> QED BY Zenon, <3>1, <3>2, <3>3, <3>4
  <2> QED BY Zenon, <2>1, <2>2, <2>3
<1>5. PaceInv'
  <2>1. now \in Nat /\ settings.timeout \in Nat /\ settings \in Settings
        /\ \A f \in Flow : seen[f] \in Nat
    BY SettingsType, ConstantsOK DEF Setting, TypeOK, FlowsOK
  <2>2. ASSUME ~cl'.final
        PROVE  cl'.cutoff <= now /\ \A f \in Flow : pc[f] \in StampedPc => cl'.cutoff <= seen[f]
    <3>1. CASE cl'.cutoff = cl.cutoff
      BY Zenon, <1>0, <1>3, <2>2, <3>1 DEF PaceInv
    <3>2. CASE cl'.cutoff = 0
      BY <2>1, <3>2
    <3>3. CASE settings.timeout > 0 /\ cl'.cutoff = now - settings.timeout
      BY <1>0, <2>1, <3>3 DEF PaceInv
    <3> QED BY Zenon, <1>3, <2>2, <3>1, <3>2, <3>3
  <2> QED BY Zenon, <1>0, <1>1, <2>2 DEF PaceInv
\* The session it picks.
<1>6. ASSUME ~cl.final, NEW k \in Key, IdleSession(k)
      PROVE  sessions[k] \in Flow /\ pc[sessions[k]] \notin SetupPc \cup {"free"}
  <2>1. sessions[k] \in Flow /\ seen[sessions[k]] \in Int /\ seen[sessions[k]] < cl.cutoff
    BY <1>6, ConstantsOK DEF IdleSession, TypeOK, TabsOK, FlowsOK, FlowOrNone
  <2>2. pc[sessions[k]] \notin FreshPc \cup {"register"}
    BY Zenon, <1>0, <1>6 DEF TabledInv, IdleSession
  <2>3. cl.cutoff \in Int /\ (pc[sessions[k]] \in StampedPc => cl.cutoff <= seen[sessions[k]])
    BY Zenon, <1>0, <1>6, <1>c, <2>1 DEF PaceInv
  <2>4. pc[sessions[k]] \notin StampedPc
    BY <2>1, <2>3
  <2> QED BY Zenon, <2>1, <2>2, <2>4 DEF SetupPc, FreshPc, StampedPc
<1>7. ~cl'.final /\ cl'.pc = "closeSess" =>
        cl'.target \in Flow /\ pc[cl'.target] \notin SetupPc \cup {"free"}
  <2>1. CASE RangeSessions
    <3>1. \/ \E k \in cl.todo : IdleSession(k) /\ cl'.target = sessions[k] /\ k \in Key
          \/ cl'.pc # "closeSess"
      BY ZenonT(60), <1>c, <2>1 DEF RangeSessions
    <3> QED BY Zenon, <1>3, <1>6, <3>1
  <2>2. CASE ~RangeSessions
    <3>1. cl'.pc # "closeSess"
      <4>1. CASE CleanupTick \/ Shutdown \/ CloseIdleSession \/ CloseIdleBIB \/ UnmapIdleBIB
        BY ZenonT(60), <1>c, <4>1
        DEF CleanupTick, Shutdown, CloseIdleSession, CloseIdleBIB, UnmapIdleBIB
      <4>2. CASE RangeBIBs
        <5>1. cl.pc = "bib"
          BY Zenon, <4>2 DEF RangeBIBs
        <5>2. \/ \E t, v : cl' = [cl EXCEPT !.pc = "closeBib", !.target = v, !.todo = t]
              \/ \E t : cl' = [cl EXCEPT !.todo = t]
              \/ cl' = NoPass \/ cl' = [NoPass EXCEPT !.pc = "stopped", !.final = TRUE]
          BY Zenon, <4>2 DEF RangeBIBs
        <5>3. ASSUME NEW t, NEW v, cl' = [cl EXCEPT !.pc = "closeBib", !.target = v, !.todo = t]
              PROVE  cl'.pc = "closeBib"
          BY Zenon, <1>c, <5>3
        <5>4. ASSUME NEW t, cl' = [cl EXCEPT !.todo = t] PROVE cl'.pc = "bib"
          BY Zenon, <1>c, <5>1, <5>4
        <5>5. CASE cl' = NoPass \/ cl' = [NoPass EXCEPT !.pc = "stopped", !.final = TRUE]
          <6>1. PICK l \in {"idle", "stopped"}, b \in BOOLEAN :
                  cl' = [pc |-> l, cutoff |-> 0, todo |-> {}, target |-> None, final |-> b]
            BY Zenon, <5>5 DEF NoPass
          <6> QED BY Zenon, <6>1
        <5> QED BY ZenonT(60), <5>2, <5>3, <5>4, <5>5
      <4> QED BY Zenon, <2>2, <4>1, <4>2 DEF CleanupStep
    <3> QED BY Zenon, <3>1
  <2> QED BY Zenon, <2>1, <2>2
\* The one it closes.
<1>8. \A f \in Flow : ep'[f] = ep[f] \/ (ep'[f] = "closed" /\ (EntryInv => pc[f] \notin SetupPc))
  <2>1. CASE CloseIdleSession
    <3>1. cl.pc = "closeSess" /\ ep' = [ep EXCEPT ![cl.target] = "closed"]
      BY Zenon, <2>1 DEF CloseIdleSession, CloseEndpoint
    <3>2. EntryInv => pc[cl.target] \notin SetupPc
      BY Zenon, <3>1 DEF EntryInv
    <3>3. ep \in [Flow -> {"none", "open", "closed"}]
      BY Zenon DEF TypeOK, FlowsOK
    <3> QED BY Zenon, <3>1, <3>2, <3>3
  <2>2. CASE ~CloseIdleSession
    <3>1. ep' = ep
      BY Zenon, <2>2 DEF CleanupTick, Shutdown, CleanupStep, RangeSessions, RangeBIBs, CloseIdleBIB,
                        UnmapIdleBIB
    <3> QED BY Zenon, <3>1
  <2> QED BY Zenon, <2>1, <2>2
<1>9. \A f \in Flow : ep'[f] = "open" => ep[f] = "open"
  BY Zenon, <1>8
<1>10. OpenOnce' /\ VictimInv'
  <2>1. OpenOnce'
    BY Zenon, <1>0, <1>1, <1>9 DEF OpenOnce
  <2>2. VictimInv'
    BY Zenon, <1>0, <1>1, <1>9 DEF VictimInv
  <2> QED BY Zenon, <2>1, <2>2
<1>11. ASSUME EntryInv, ~cl'.final PROVE EntryInv'
  <2>1. \A f \in Flow : pc'[f] \in SetupPc => ep'[f] = "open"
    BY Zenon, <1>1, <1>8, <1>11 DEF EntryInv
  <2>2. \A f \in Flow : Relaying(f)' /\ ep'[f] = "open" => flows'[bibOf'[f]][key'[f].dst] = f
    BY Zenon, <1>1, <1>9, <1>11 DEF EntryInv, Relaying
  <2> QED BY Zenon, <1>1, <1>7, <1>11, <2>1, <2>2 DEF EntryInv
<1>12. ~cl'.final => ~cl.final
  BY Zenon, <1>3
<1> QED BY Zenon, <1>1, <1>2, <1>5, <1>10, <1>11, <1>12 DEF DemuxInv

\* What a step of the NIC loop has to keep.
NicKeeps == /\ DemuxInv' /\ (LimitInv => LimitInv')
            /\ Spared /\ EntryInv => EntryInv'
            /\ UNCHANGED <<settings, cl>>

\* The NIC loop: a new endpoint is the only one of its tuple, without a limit
\* nothing is evicted for it, and an eviction closes before it deletes.
LEMMA ReplyNic ==
  ASSUME TypeOK, MapInv, DemuxInv, NicStep \/ DeleteStep(Nic)
  PROVE  NicKeeps
<1> USE DEF flowVars, bibVars, tabVars
<1>0. OpenOnce /\ PaceInv /\ TabledInv /\ VictimInv
  BY Zenon DEF DemuxInv
<1>f. /\ ep \in [Flow -> {"none", "open", "closed"}] /\ key \in [Flow -> Key \cup {None}]
      /\ sessions \in [Key -> FlowOrNone] /\ pc \in [Flow \cup {Nic} -> FlowPc \cup NicPc]
  BY Zenon DEF TypeOK, FlowsOK, TabsOK, PcOK
<1>n. Nic \notin Flow /\ None \notin Flow
  BY Zenon, ConstantsOK
\* A step that touches neither endpoints nor tables.
<1>a. ASSUME \A f \in Flow : pc'[f] = pc[f], key' = key, ep' = ep, LimitInv => LimitInv',
             pc'[Nic] # "idle" => \A f \in Flow : ep[f] = "open" => key[f] # nic'.key,
             VictimInv',
             UNCHANGED <<now, settings, seen, cl, bibOf, flows, sessions>>
      PROVE  NicKeeps
  <2>1. OpenOnce'
    BY Zenon, <1>0, <1>a DEF OpenOnce
  <2>2. PaceInv'
    BY Zenon, <1>0, <1>a DEF PaceInv
  <2>3. TabledInv'
    BY Zenon, <1>0, <1>a, <1>f DEF TabledInv, FlowOrNone
  <2>4. EntryInv => EntryInv'
    BY Zenon, <1>a DEF EntryInv, Relaying
  <2> QED BY Zenon, <1>a, <2>1, <2>2, <2>3, <2>4 DEF DemuxInv, NicKeeps
<1>1. ASSUME NEW k \in Key, Deliver(k) PROVE NicKeeps
  <2>1. LimitInv => LimitInv'
    BY Zenon, <1>1 DEF Deliver, LimitInv
  <2>2. VictimInv'
    BY Zenon, <1>1 DEF Deliver, VictimInv, DeletePc
  <2> QED BY Zenon, <1>0, <1>1, <1>a, <2>1, <2>2 DEF Deliver, OpenOnce
<1>2. ASSUME NEW k \in Key, HandleUDPForward(k) PROVE NicKeeps
  <2>1. nic' = [key |-> k, max |-> settings.max, tries |-> 0, victim |-> None]
    BY ZenonT(60), <1>2 DEF HandleUDPForward, NoCall
  <2>2. pc'[Nic] = "admit" /\ \A f \in Flow : pc'[f] = pc[f]
    BY Zenon, <1>2, <1>f, <1>n DEF HandleUDPForward, Goto
  <2>3. LimitInv' /\ VictimInv'
    BY Zenon, <1>2, <2>1, <2>2 DEF HandleUDPForward, LimitInv, VictimInv, DeletePc
  <2>4. \A f \in Flow : ep[f] = "open" => key[f] # nic'.key
    BY Zenon, <1>2, <2>1 DEF HandleUDPForward
  <2> QED BY Zenon, <1>2, <1>a, <2>2, <2>3, <2>4 DEF HandleUDPForward
<1>3. CASE AdmitUDPSession
  <2>1. \A f \in Flow : pc'[f] = pc[f]
    BY ZenonT(60), <1>3, <1>f, <1>n DEF AdmitUDPSession, Goto
  <2>2. nic = [key |-> nic.key, max |-> nic.max, tries |-> nic.tries, victim |-> nic.victim]
        /\ nic.max \in Int
    BY Zenon DEF TypeOK, NicOK
  <2>3. pc'[Nic] # "idle" => nic'.key = nic.key
    <3>1. CASE Goto(Nic, "idle")
      BY Zenon, <1>f, <3>1 DEF Goto
    <3>2. CASE ~Goto(Nic, "idle")
      BY ZenonT(60), <1>3, <2>2, <3>2 DEF AdmitUDPSession
    <3> QED BY Zenon, <3>1, <3>2
  <2>4. ASSUME LimitInv PROVE LimitInv'
    <3>1. CASE nic.max <= 0 /\ Goto(Nic, "create") /\ UNCHANGED nic
      BY ZenonT(60), <1>3, <1>f, <2>4, <3>1 DEF AdmitUDPSession, Goto, LimitInv, DeletePc
    <3>2. CASE ~(settings.max <= 0)
      <4>1. settings' = settings
        BY Zenon, <1>3 DEF AdmitUDPSession
      <4> QED BY Zenon, <3>2, <4>1 DEF LimitInv
    <3>3. CASE settings.max <= 0 /\ ~(nic.max <= 0 /\ Goto(Nic, "create") /\ UNCHANGED nic)
      <4>1. nic.max <= 0 /\ ~(nic.max > 0)
        BY <2>2, <2>4, <3>3 DEF LimitInv
      <4> QED BY Zenon, <1>3, <3>3, <4>1 DEF AdmitUDPSession
    <3> QED BY Zenon, <3>1, <3>2, <3>3
  <2>5. \A f \in Flow : ep[f] = "open" => key[f] # nic.key
    BY ZenonT(60), <1>0, <1>3 DEF AdmitUDPSession, OpenOnce
  <2>6. VictimInv'
    <3>1. \/ pc'[Nic] \in {"create", "idle", "admit"}
          \/ pc'[Nic] = "close" /\ \E v \in Oldest : nic'.victim = v
      <4>1. \/ \E l \in {"create", "idle"} : Goto(Nic, l)
            \/ pc' = pc /\ pc[Nic] = "admit"
            \/ \E v \in Oldest : nic' = [nic EXCEPT !.tries = @ + 1, !.victim = v] /\ Goto(Nic, "close")
        BY ZenonT(60), <1>3 DEF AdmitUDPSession
      <4> QED BY Zenon, <1>f, <2>2, <4>1 DEF Goto
    <3>2. \A v \in Oldest : v \in Flow /\ pc[v] # "free"
      BY Zenon, <1>0, <1>n DEF Oldest, Registered, TabledInv, FreshPc
    <3> QED BY Zenon, <2>1, <3>1, <3>2 DEF VictimInv, DeletePc
  <2> QED BY ZenonT(60), <1>3, <1>a, <2>1, <2>3, <2>4, <2>5, <2>6 DEF AdmitUDPSession
<1>4. CASE CreateEndpoint
  <2>0. nic'.max = 0 /\ pc[Nic] = "create" /\ pc'[Nic] = "idle"
    BY Zenon, <1>4, <1>f, <1>n DEF CreateEndpoint, NoCall, Goto
  <2>1. LimitInv' /\ VictimInv'
    BY <1>4, <2>0 DEF LimitInv, VictimInv, DeletePc
  <2>2. CASE Goto(Nic, "idle") /\ UNCHANGED flowVars
    <3>1. \A f \in Flow : pc'[f] = pc[f]
      BY Zenon, <1>n, <1>f, <2>2 DEF Goto
    <3> QED BY Zenon, <1>4, <1>a, <2>0, <2>1, <2>2, <3>1 DEF CreateEndpoint
  <2>3. ASSUME NEW f \in Flow, pc[f] = "free",
               pc' = [pc EXCEPT ![f] = "bib", ![Nic] = "idle"],
               key' = [key EXCEPT ![f] = nic.key], ep' = [ep EXCEPT ![f] = "open"],
               UNCHANGED <<bibOf, seen>>
        PROVE  NicKeeps
    <3>0. UNCHANGED <<now, settings, cl, flows, sessions>>
      BY Zenon, <1>4 DEF CreateEndpoint
    <3>1. /\ pc'[f] = "bib" /\ key'[f] = nic.key /\ ep'[f] = "open"
          /\ \A g \in Flow : g # f => pc'[g] = pc[g] /\ key'[g] = key[g] /\ ep'[g] = ep[g]
      BY Zenon, <1>f, <1>n, <2>3
    <3>2. \A g \in Flow : ep[g] = "open" => key[g] # nic.key
      BY Zenon, <1>0, <2>0 DEF OpenOnce
    <3>3. OpenOnce'
      BY <1>0, <2>0, <3>1, <3>2 DEF OpenOnce
    <3>4. PaceInv'
      BY ZenonT(60), <1>0, <2>3, <3>0, <3>1 DEF PaceInv, StampedPc
    <3>5. TabledInv'
      BY <1>0, <1>f, <2>3, <3>0, <3>1 DEF TabledInv, FlowOrNone, FreshPc
    <3>6. ASSUME EntryInv PROVE EntryInv'
      <4>2. \A g \in Flow : pc'[g] \in SetupPc => ep'[g] = "open"
        BY Zenon, <3>1, <3>6 DEF EntryInv
      <4>3. cl.pc = "closeSess" => cl.target \in Flow /\ pc'[cl.target] \notin SetupPc \cup {"free"}
        BY Zenon, <2>3, <3>1, <3>6 DEF EntryInv
      <4>4. \A g \in Flow : Relaying(g)' /\ ep'[g] = "open" => flows'[bibOf'[g]][key'[g].dst] = g
        BY <2>3, <3>0, <3>1, <3>6 DEF EntryInv, Relaying
      <4> QED BY Zenon, <3>0, <4>2, <4>3, <4>4 DEF EntryInv
    <3> QED BY Zenon, <2>1, <3>0, <3>3, <3>4, <3>5, <3>6 DEF DemuxInv, NicKeeps
  <2> QED BY Zenon, <1>4, <2>2, <2>3 DEF CreateEndpoint
\* An eviction, of a session past its set-up.
<1>5. CASE DeleteStep(Nic)
  <2>1. pc[Nic] \in DeletePc /\ \A f \in Flow : pc'[f] = pc[f]
    BY Zenon, <1>5, <1>f, <1>n DEF DeleteStep, DeleteClose, DeleteEntry, DeleteCount, DeleteSource,
                           DeleteFlow, Goto, DeletePc
  <2>2. /\ key' = key /\ nic' = nic /\ now' = now /\ settings' = settings /\ cl' = cl
        /\ seen' = seen /\ bibOf' = bibOf
    BY Zenon, <1>5 DEF DeleteStep, DeleteClose, DeleteEntry, DeleteCount, DeleteSource, DeleteFlow
  <2>3. LimitInv => LimitInv'
    BY Zenon, <2>1, <2>2 DEF LimitInv
  <2>v. Victim(Nic) = nic.victim /\ nic.victim \in Flow
    BY Zenon, <1>0, <2>1 DEF Victim, VictimInv
  <2>4. \/ pc[Nic] = "close" /\ ep' = [ep EXCEPT ![nic.victim] = "closed"] /\ flows' = flows
        \/ pc[Nic] # "close" /\ ep' = ep /\ flows' \in {flows, WithoutFlow(nic.victim)}
    BY Zenon, <1>5, <2>v DEF DeleteStep, DeleteClose, CloseEndpoint, DeleteEntry, DeleteCount,
                     DeleteSource, DeleteFlow
  <2>5. /\ \A f \in Flow : ep'[f] = "open" => ep[f] = "open"
        /\ \A f \in Flow : f # nic.victim => ep'[f] = ep[f]
        /\ ep'[nic.victim] # "open"
    BY Zenon, <1>0, <1>f, <2>1, <2>4, <2>v DEF VictimInv
  <2>6. OpenOnce' /\ VictimInv'
    <3>1. pc[Nic] # "idle"
      BY Zenon, <2>1 DEF DeletePc
    <3>2. OpenOnce'
      BY Zenon, <1>0, <2>2, <2>5, <3>1 DEF OpenOnce
    <3>3. VictimInv'
      BY Zenon, <1>0, <2>1, <2>2, <2>5 DEF VictimInv
    <3> QED BY Zenon, <3>2, <3>3
  <2>7. PaceInv'
    BY Zenon, <1>0, <2>1, <2>2 DEF PaceInv
  <2>8. \A k \in Key : sessions'[k] \in {sessions[k], None}
    BY Zenon, <1>5, <1>f DEF DeleteStep, DeleteClose, DeleteEntry, DeleteCount, DeleteSource,
        DeleteFlow
  <2>9. TabledInv'
    BY Zenon, <1>0, <1>f, <2>1, <2>8 DEF TabledInv, FlowOrNone
  <2>10. ASSUME Spared, EntryInv PROVE EntryInv'
    <3>1. pc[nic.victim] \notin SetupPc
      BY Zenon, <2>1, <2>10 DEF Spared
    <3>2. \A f \in Flow : pc'[f] \in SetupPc => ep'[f] = "open"
      BY Zenon, <2>1, <2>5, <2>10, <3>1 DEF EntryInv
    <3>3. cl'.pc = "closeSess" => cl'.target \in Flow /\ pc'[cl'.target] \notin SetupPc \cup {"free"}
      BY Zenon, <2>1, <2>2, <2>10 DEF EntryInv
    <3>4. ASSUME NEW f \in Flow, Relaying(f)', ep'[f] = "open"
          PROVE  flows'[bibOf'[f]][key'[f].dst] = f
      <4>1. Relaying(f) /\ ep[f] = "open" /\ f # nic.victim
        BY Zenon, <2>1, <2>5, <3>4 DEF Relaying
      <4>2. flows[bibOf[f]][key[f].dst] = f
        BY Zenon, <2>10, <4>1 DEF EntryInv
      <4>3. bibOf[f] \in Flow /\ key[f].dst \in Tuple /\ flows \in [Flow -> [Tuple -> FlowOrNone]]
        BY Zenon, <4>1 DEF MapInv, LabelInv, Relaying, BoundPc, TypeOK, FlowsOK, FlowOrNone,
            KeyOK, Key, BibsOK
      <4>4. flows'[bibOf[f]][key[f].dst] = f
        <5>1. CASE flows' = flows
          BY Zenon, <4>2, <5>1
        <5>2. CASE flows' = [flows EXCEPT ![bibOf[nic.victim]][key[nic.victim].dst] = None]
                   /\ flows[bibOf[nic.victim]][key[nic.victim].dst] = nic.victim
          BY Zenon, <4>1, <4>2, <4>3, <5>2
        <5> QED BY Zenon, <2>4, <5>1, <5>2 DEF WithoutFlow
      <4> QED BY Zenon, <2>2, <4>4
    <3> QED BY Zenon, <3>2, <3>3, <3>4 DEF EntryInv
  <2> QED BY Zenon, <2>2, <2>3, <2>6, <2>7, <2>9, <2>10 DEF DemuxInv, NicKeeps
<1> QED BY Zenon, <1>1, <1>2, <1>3, <1>4, <1>5 DEF NicStep

\* A step that leaves the sessions and the NIC loop alone.
LEMMA ReplyElsewhere ==
  ASSUME TypeOK, DemuxInv, UNCHANGED <<pc, nic, key, ep, seen, bibOf, flows, sessions, cl>>,
         now' = now \/ Advance
  PROVE  /\ DemuxInv' /\ (EntryInv => EntryInv')
         /\ (settings'.max <= 0 => settings.max <= 0) /\ LimitInv => LimitInv'
<1>1. OpenOnce' /\ TabledInv' /\ VictimInv'
  BY Zenon DEF DemuxInv, OpenOnce, TabledInv, VictimInv
<1>2. EntryInv => EntryInv'
  BY Zenon DEF EntryInv, Relaying
<1>3. PaceInv'
  <2>1. CASE now' = now
    BY Zenon, <2>1 DEF DemuxInv, PaceInv
  <2>2. CASE Advance
    <3>1. now \in Nat /\ now' = now + Stride /\ now' \in Nat /\ now <= now'
      BY <2>2, ConstantsOK DEF Advance, TypeOK
    <3>2. \A f \in Flow : pc[f] \in StampedPc =>
            \A s \in Settings : s.timeout > 0 => now' - s.timeout <= seen[f]
      <4>1. \A f \in Stamped, s \in Settings : s.timeout > 0 => now + Stride - s.timeout <= seen[f]
        BY Zenon, <2>2 DEF Advance
      <4>2. \A f \in Flow : pc[f] \in StampedPc => f \in Stamped
        BY Zenon DEF Stamped, StampedPc
      <4>3. now' = now + Stride
        BY Zenon, <3>1
      <4>4. ASSUME NEW f \in Flow, pc[f] \in StampedPc, NEW s \in Settings, s.timeout > 0
            PROVE  now' - s.timeout <= seen[f]
        <5>1. f \in Stamped
          BY Zenon, <4>2, <4>4
        <5>2. now + Stride - s.timeout <= seen[f]
          BY Zenon, <4>1, <4>4, <5>1
        <5>3. s.timeout \in Int /\ Stride \in Int
          BY ConstantsOK DEF Setting
        <5>4. now' - s.timeout = now + (Stride - s.timeout)
          BY <3>1, <5>3
        <5> QED BY Zenon, <5>2, <5>4
      <4> QED BY Zenon, <4>4
    <3>3. cl.cutoff \in Int
      BY Zenon DEF TypeOK, ClOK
    <3>4. ~cl.final => cl.cutoff <= now'
      BY <3>1, <3>3 DEF DemuxInv, PaceInv
    <3> QED BY Zenon, <3>2, <3>4 DEF DemuxInv, PaceInv
  <2> QED BY Zenon, <2>1, <2>2
<1>4. (settings'.max <= 0 => settings.max <= 0) /\ LimitInv => LimitInv'
  BY Zenon DEF LimitInv
<1> QED BY Zenon, <1>1, <1>2, <1>3, <1>4 DEF DemuxInv

\* What every step keeps: the demuxer's side always; that nothing is evicted
\* without a limit, if no reload lifts one; the entries, while no session is
\* swept in its set-up.
StepKeeps == /\ DemuxInv'
             /\ (settings'.max <= 0 => settings.max <= 0) /\ LimitInv => LimitInv'
             /\ ~cl'.final => ~cl.final
             /\ ~cl'.final /\ Spared /\ EntryInv => EntryInv'

\* Every step does.
LEMMA ReplyStep ==
  ASSUME TypeOK, MapInv, DemuxInv, [Next]_vars
  PROVE  StepKeeps
<1> USE DEF flowVars, bibVars, tabVars
<1>1. ASSUME NEW f \in Flow, SetupStep(f) \/ ForwardStep(f) \/ DeleteStep(f) PROVE StepKeeps
  <2>1. Own(f) /\ Rest(f) /\ Tables(f)
    BY Zenon, <1>1, SetupAlone, LoopAlone
  <2> QED BY Zenon, <2>1, ReplyAlone DEF StepKeeps
<1>2. ASSUME UNCHANGED <<pc, nic, key, ep, seen, bibOf, flows, sessions, cl>>,
             now' = now \/ Advance
      PROVE  StepKeeps
  BY Zenon, <1>2, ReplyElsewhere DEF StepKeeps
<1>3. ASSUME NEW f \in Flow, ReplyLoopExit(f) PROVE StepKeeps
  BY Zenon, <1>2, <1>3 DEF ReplyLoopExit
<1>4. ASSUME NEW s \in Settings, Reload(s) PROVE StepKeeps
  BY Zenon, <1>2, <1>4 DEF Reload
<1>5. CASE Advance
  BY Zenon, <1>2, <1>5 DEF Advance
<1>6. CASE UNCHANGED vars
  BY Zenon, <1>2, <1>6 DEF vars
<1>7. CASE NicStep \/ DeleteStep(Nic)
  BY Zenon, <1>7, ReplyNic DEF NicKeeps, StepKeeps
<1>8. CASE CleanupTick \/ Shutdown \/ CleanupStep
  BY Zenon, <1>8, ReplyCleanup DEF StepKeeps
<1> QED BY Zenon, <1>1, <1>3, <1>4, <1>5, <1>6, <1>7, <1>8 DEF Next

\* A reply from the destination of an open, relaying session is relayed to it.
RepliesArrive ==
  \A f \in Flow :
    Relaying(f) /\ ep[f] = "open" => demuxUDPReply(bibOf[f], key[f].dst) = {f}

\* The entry of an open, relaying session is what demuxUDPReply finds.
LEMMA EntryFound == TypeOK /\ EntryInv => RepliesArrive
<1> SUFFICES ASSUME TypeOK, EntryInv, NEW f \in Flow, Relaying(f), ep[f] = "open"
             PROVE  demuxUDPReply(bibOf[f], key[f].dst) = {f}
  BY Zenon DEF RepliesArrive
<1>1. flows[bibOf[f]][key[f].dst] = f /\ f # None
  BY Zenon, ConstantsOK DEF EntryInv
<1> QED BY Zenon, <1>1 DEF demuxUDPReply

\* A reply from the destination of an open, relaying session reaches that
\* session, in every behaviour in which no reload lifts a session limit: one
\* that does may leave entries behind that an eviction had orphaned.
THEOREM RepliesReach ==
  Spec /\ [][settings'.max <= 0 => settings.max <= 0]_vars => []ReplyReachesSession
<1>1. TypeOK /\ MapInv /\ ReplyInv /\ [Next]_vars /\ [settings'.max <= 0 => settings.max <= 0]_vars
        => ReplyInv'
  <2> SUFFICES ASSUME TypeOK, MapInv, ReplyInv, [Next]_vars,
                      [settings'.max <= 0 => settings.max <= 0]_vars
               PROVE  ReplyInv'
    OBVIOUS
  <2>1. settings'.max <= 0 => settings.max <= 0
    BY Zenon DEF vars
  <2>2. DemuxInv' /\ LimitInv'
    BY Zenon, <2>1, ReplyStep DEF ReplyInv, StepKeeps
  <2>3. ASSUME NeverSwept' PROVE EntryInv'
    <3>1. NeverSwept /\ ~cl'.final
      BY Zenon, <2>1, <2>3, ReplyStep DEF NeverSwept, ReplyInv, StepKeeps
    <3>2. Spared /\ EntryInv
      BY Zenon, <3>1 DEF NeverSwept, ReplyInv, LimitInv, Spared
    <3> QED BY Zenon, <3>1, <3>2, ReplyStep DEF ReplyInv, StepKeeps
  <2> QED BY Zenon, <2>2, <2>3 DEF ReplyInv
<1>2. TypeOK /\ ReplyInv => ReplyReachesSession
  BY Zenon, EntryFound DEF ReplyInv, ReplyReachesSession, RepliesArrive
<1>3. Init => ReplyInv
  BY Zenon, ReplyInit DEF ReplyInv
<1> QED BY <1>1, <1>2, <1>3, MapCorrect, PTL DEF Spec

\* With a session limit, and whatever it evicts, expires and reloads: replies
\* reach every open, relaying session as long as no eviction and no shutdown
\* takes a session from its set-up.
THEOREM RepliesReachSpared == Spec /\ []Spared => []RepliesArrive
<1>1. /\ TypeOK /\ MapInv /\ DemuxInv /\ EntryInv
      /\ Spared /\ Spared' /\ [Next]_vars
      => DemuxInv' /\ EntryInv'
  BY Zenon, ReplyStep DEF Spared, StepKeeps
<1> QED BY <1>1, ReplyInit, EntryFound, MapCorrect, PTL DEF Spec
=============================================================================
