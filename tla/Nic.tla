--------------------------------- MODULE Nic ---------------------------------
(***************************************************************************)
(* The Yggdrasil NIC (src/src/netstack/yggdrasil.go, netstack.go): the     *)
(* goroutine that reads frames from the Yggdrasil core and hands them to   *)
(* the interceptor and to gVisor, with its retries and the supervision     *)
(* that ends the process when reads stay broken; and the write side, which *)
(* any goroutine enters, the reader included while gVisor is handling a    *)
(* frame, with the queue and the goroutine that send control frames.       *)
(*                                                                         *)
(* A frame is a member of Pkt.  Each is sent at most once.  Durations are  *)
(* in units of readRetryInitialBackoff for the reader and in units of one  *)
(* clock tick for the warning of dropped frames.                           *)
(***************************************************************************)
EXTENDS Integers, Sequences, FiniteSets, Functions

CONSTANTS
  Pkt,              \* frames gVisor may send, numbered
  Ctrl,             \* those that are TCP segments without a payload
  Task,             \* goroutines other than the reader that send frames
  Reader, Flusher,  \* the read loop and the goroutine that sends control frames
  CtrlCap,          \* capacity of ctrlPackets
  MaxList,          \* bound: frames in one call of WritePackets
  InitialBackoff, MaxBackoff,
  Grace,            \* grace period that SuperviseReadLoop sets
  WarnInterval,     \* ctrlDropWarnIntervalSecs
  MaxClock,         \* bound: the clock of the drop warnings
  NoFrame

ASSUME NicAssumption ==
  /\ Pkt \subseteq Nat /\ Ctrl \subseteq Pkt /\ CtrlCap \in Nat \ {0} /\ MaxList \in Nat \ {0}
  /\ InitialBackoff \in Nat \ {0} /\ MaxBackoff \in Nat /\ InitialBackoff <= MaxBackoff
  /\ Grace \in Nat \ {0} /\ WarnInterval \in Nat \ {0} /\ MaxClock \in Nat
  /\ Reader \notin Task /\ Flusher \notin Task \cup {Reader}
  /\ NoFrame \notin Task \cup {Reader, Flusher} \cup Pkt
  /\ IsFiniteSet(Task)

Writer == Task \cup {Reader}
Actor == Writer \cup {Flusher}

VARIABLES
  link,         \* external: "up" while the core can be read, "down" while Read fails
  rl,           \* the read loop
  backoff, brokenFor,
  grace,        \* s.grace, zero until SuperviseReadLoop is called
  cancelRoot,   \* whether s.cancelRoot is set
  ctxDone,      \* the process context is cancelled
  readStop,     \* closed by Close, which also takes the dispatcher away
  failing       \* history: time slept since a read last succeeded

readVars == <<link, rl, backoff, brokenFor, grace, cancelRoot, ctxDone, readStop, failing>>

VARIABLES
  unsent,       \* frames not yet passed to WritePackets
  refs,         \* reference count of each PacketBuffer
  list,         \* the frames of the call a writer is in
  idx,          \* how many of them it is done with
  apc,          \* where a writer and the flusher are
  pkt,          \* the frame in writePacket
  buf,          \* the scratch buffer in writePacket
  scratch,      \* contents of the scratch buffers
  ctrlPackets,  \* the queue of control frames
  clock, warn,  \* noteCtrlDrop: the clock, and what a writer has read of it and of ctrlLastWarn
  ctrlLastWarn

writeVars == <<unsent, refs, list, idx, apc, pkt, buf, scratch, ctrlPackets,
               clock, warn, ctrlLastWarn>>

nicVars == <<readVars, writeVars>>

\* Scratch buffers: one more than can be in use would make no difference.
Buf == Actor

NoWarn == [now |-> 0, last |-> 0]

NicInit ==
  /\ link = "up" /\ rl = "none"
  /\ backoff = InitialBackoff /\ brokenFor = 0
  /\ grace = 0 /\ cancelRoot = FALSE /\ ctxDone = FALSE
  /\ readStop = FALSE /\ failing = 0
  /\ unsent = Pkt
  /\ refs = [p \in Pkt |-> 0]
  /\ list = [w \in Writer |-> <<>>] /\ idx = [w \in Writer |-> 0]
  /\ apc = [a \in Actor |-> "idle"]
  /\ pkt = [a \in Actor |-> NoFrame] /\ buf = [a \in Actor |-> NoFrame]
  /\ scratch = [b \in Buf |-> NoFrame]
  /\ ctrlPackets = <<>>
  /\ clock = 1 /\ ctrlLastWarn = 0
  /\ warn = [w \in Writer |-> NoWarn]
-----------------------------------------------------------------------------
(***************************************************************************)
(* Set-up and removal.                                                     *)
(***************************************************************************)

\* NewYggdrasilNIC: gVisor attaches its dispatcher, then the two goroutines
\* start.
NewYggdrasilNIC ==
  /\ rl = "none"
  /\ rl' = "read"
  /\ UNCHANGED <<link, backoff, brokenFor, grace, cancelRoot, ctxDone, readStop, failing, writeVars>>

\* Called by main once CreateYdn64Netstack has returned.
SuperviseReadLoop ==
  /\ rl # "none" /\ ~cancelRoot
  /\ cancelRoot' = TRUE /\ grace' = Grace
  /\ UNCHANGED <<link, rl, backoff, brokenFor, ctxDone, readStop, failing, writeVars>>

Close ==
  /\ rl # "none" /\ ~readStop
  /\ readStop' = TRUE
  /\ UNCHANGED <<link, rl, backoff, brokenFor, grace, cancelRoot, ctxDone, failing, writeVars>>

\* The core stops or resumes delivering frames.
LinkFlap ==
  /\ link' = IF link = "up" THEN "down" ELSE "up"
  /\ UNCHANGED <<rl, backoff, brokenFor, grace, cancelRoot, ctxDone, readStop, failing, writeVars>>
-----------------------------------------------------------------------------
(***************************************************************************)
(* readLoop.                                                               *)
(***************************************************************************)

\* Mutant of ReadFrame: a frame read does not end a period of failures.
ReadFrameKeeping ==
  /\ rl = "read" /\ link = "up"
  /\ failing' = 0
  /\ rl' = "dispatch" \/ rl' = "read"
  /\ readStop => rl' = "read"
  /\ UNCHANGED <<link, backoff, brokenFor, grace, cancelRoot, ctxDone, readStop, writeVars>>

\* A frame arrives: the back-off starts afresh.  deliverInbound gives the
\* frame to gVisor, which may send frames before it returns, unless the
\* interceptor consumes it (or panics and is contained) or there is no
\* dispatcher any more.
ReadFrame ==
  /\ rl = "read" /\ link = "up"
  /\ backoff' = InitialBackoff /\ brokenFor' = 0 /\ failing' = 0
  /\ rl' = "dispatch" \/ rl' = "read"
  /\ readStop => rl' = "read"
  /\ UNCHANGED <<link, grace, cancelRoot, ctxDone, readStop, writeVars>>

ReadFails ==
  /\ rl = "read" /\ link = "down"
  /\ rl' = IF readStop THEN "gone" ELSE "failed"
  /\ UNCHANGED <<link, backoff, brokenFor, grace, cancelRoot, ctxDone, readStop, failing, writeVars>>

\* The loop ends when the next sleep would reach the grace period.
GivesUp == brokenFor + backoff >= grace

\* Mutant of GiveUp: the loop ends and nobody is told.
GiveUpSilent ==
  /\ rl = "failed" /\ GivesUp
  /\ rl' = "gone"
  /\ UNCHANGED <<link, backoff, brokenFor, grace, cancelRoot, ctxDone, readStop, failing, writeVars>>

\* With the fields of SuperviseReadLoop as they are now.
GiveUp ==
  /\ rl = "failed" /\ GivesUp
  /\ rl' = "gone" /\ ctxDone' = (ctxDone \/ cancelRoot)
  /\ UNCHANGED <<link, backoff, brokenFor, grace, cancelRoot, readStop, failing, writeVars>>

Retry ==
  /\ rl = "failed" /\ ~GivesUp
  /\ rl' = "sleep"
  /\ UNCHANGED <<link, backoff, brokenFor, grace, cancelRoot, ctxDone, readStop, failing, writeVars>>

Wake ==
  /\ rl = "sleep"
  /\ brokenFor' = brokenFor + backoff /\ failing' = failing + backoff
  /\ backoff' = IF 2 * backoff > MaxBackoff THEN MaxBackoff ELSE 2 * backoff
  /\ rl' = "read"
  /\ UNCHANGED <<link, grace, cancelRoot, ctxDone, readStop, writeVars>>

Stopped ==
  /\ rl = "sleep" /\ readStop
  /\ rl' = "gone"
  /\ UNCHANGED <<link, backoff, brokenFor, grace, cancelRoot, ctxDone, readStop, failing, writeVars>>

Delivered ==
  /\ rl = "dispatch" /\ apc[Reader] = "idle"
  /\ rl' = "read"
  /\ UNCHANGED <<link, backoff, brokenFor, grace, cancelRoot, ctxDone, readStop, failing, writeVars>>
-----------------------------------------------------------------------------
(***************************************************************************)
(* WritePackets.                                                           *)
(***************************************************************************)
A(a, from, to) == apc[a] = from /\ apc' = [apc EXCEPT ![a] = to]

\* Frames are numbered, within their kind, in the order in which they are
\* passed to WritePackets.
InOrder(s) ==
  \A i \in DOMAIN s :
    LET before == {q \in unsent : q < s[i] /\ (q \in Ctrl <=> s[i] \in Ctrl)}
    IN  \A q \in before : \E j \in 1..(i - 1) : s[j] = q

\* What can be passed in one call.
Lists == UNION {[1..n -> unsent] : n \in 1..MaxList}

\* A goroutine passes frames it holds a reference to; the reader does so only
\* while gVisor is handling a frame.
WritePackets(w) ==
  /\ rl # "none" /\ (w = Reader => rl = "dispatch")
  /\ A(w, "idle", "next")
  /\ \E s \in Lists :
       /\ IsInjective(s) /\ InOrder(s)
       /\ list' = [list EXCEPT ![w] = s]
       /\ unsent' = unsent \ Range(s)
       /\ refs' = [p \in Pkt |-> IF p \in Range(s) THEN 1 ELSE refs[p]]
  /\ idx' = [idx EXCEPT ![w] = 0]
  /\ UNCHANGED <<pkt, buf, scratch, ctrlPackets, clock, warn, ctrlLastWarn, readVars>>

More(w) == apc[w] = "next" /\ idx[w] < Len(list[w])
Frame(w) == list[w][idx[w] + 1]

\* Mutant of QueueCtrl: the queue shares the caller's reference.
QueueCtrlShared(w) ==
  /\ More(w) /\ Frame(w) \in Ctrl /\ Len(ctrlPackets) < CtrlCap
  /\ ctrlPackets' = Append(ctrlPackets, Frame(w))
  /\ idx' = [idx EXCEPT ![w] = @ + 1]
  /\ UNCHANGED <<unsent, refs, list, apc, pkt, buf, scratch, clock, warn, ctrlLastWarn, readVars>>

\* A control frame is queued with a reference of its own.
QueueCtrl(w) ==
  /\ More(w) /\ Frame(w) \in Ctrl /\ Len(ctrlPackets) < CtrlCap
  /\ refs' = [refs EXCEPT ![Frame(w)] = @ + 1]
  /\ ctrlPackets' = Append(ctrlPackets, Frame(w))
  /\ idx' = [idx EXCEPT ![w] = @ + 1]
  /\ UNCHANGED <<unsent, list, apc, pkt, buf, scratch, clock, warn, ctrlLastWarn, readVars>>

\* Mutant of DropCtrl: the caller waits for room.
DropCtrlNever(w) == FALSE /\ UNCHANGED nicVars

\* The queue is full: the reference taken is given back, the drop is counted,
\* and noteCtrlDrop reads the clock and the time of the last warning.
DropCtrl(w) ==
  /\ More(w) /\ Frame(w) \in Ctrl /\ Len(ctrlPackets) >= CtrlCap
  /\ A(w, "next", "warn")
  /\ idx' = [idx EXCEPT ![w] = @ + 1]
  /\ warn' = [warn EXCEPT ![w] = [now |-> clock, last |-> ctrlLastWarn]]
  /\ UNCHANGED <<unsent, refs, list, pkt, buf, scratch, ctrlPackets, clock, ctrlLastWarn, readVars>>

\* A warning is due and no other goroutine has just given one.
NoteCtrlDrop(w) ==
  /\ A(w, "warn", "next")
  /\ ctrlLastWarn' =
       IF /\ warn[w].last = 0 \/ warn[w].now - warn[w].last >= WarnInterval
          /\ ctrlLastWarn = warn[w].last
       THEN warn[w].now ELSE ctrlLastWarn
  /\ warn' = [warn EXCEPT ![w] = NoWarn]
  /\ UNCHANGED <<unsent, refs, list, idx, pkt, buf, scratch, ctrlPackets, clock, readVars>>

\* Mutant of Pool: one scratch buffer for everybody.
PoolShared == Flusher

\* The buffer sync.Pool hands out is one that no call of writePacket has.
Pool == CHOOSE b \in Buf : b \notin Range(buf)

\* Any other frame is written by the caller: writePacket takes a buffer.
GetBuf(w) ==
  /\ More(w) /\ Frame(w) \notin Ctrl
  /\ A(w, "next", "copy")
  /\ pkt' = [pkt EXCEPT ![w] = Frame(w)]
  /\ buf' = [buf EXCEPT ![w] = Pool]
  /\ UNCHANGED <<unsent, refs, list, idx, scratch, ctrlPackets, clock, warn, ctrlLastWarn, readVars>>

Copy(a) ==
  /\ A(a, "copy", "write")
  /\ scratch' = [scratch EXCEPT ![buf[a]] = pkt[a]]
  /\ UNCHANGED <<unsent, refs, list, idx, pkt, buf, ctrlPackets, clock, warn, ctrlLastWarn, readVars>>

\* The buffer goes back to the pool; what is left in it is never read.
PutBuf(a) ==
  /\ pkt' = [pkt EXCEPT ![a] = NoFrame]
  /\ scratch' = [scratch EXCEPT ![buf[a]] = NoFrame]
  /\ buf' = [buf EXCEPT ![a] = NoFrame]

\* rwc.Write of a writer succeeds, or fails and ends the call.
Write(w) ==
  /\ apc[w] = "write"
  /\ \E ok \in BOOLEAN :
       /\ apc' = [apc EXCEPT ![w] = IF ok THEN "next" ELSE "return"]
       /\ idx' = [idx EXCEPT ![w] = @ + 1]
  /\ PutBuf(w)
  /\ UNCHANGED <<unsent, refs, list, ctrlPackets, clock, warn, ctrlLastWarn, readVars>>

\* WritePackets returns, and its caller releases the frames.
Return(w) ==
  /\ apc[w] = "return" \/ (apc[w] = "next" /\ idx[w] = Len(list[w]))
  /\ apc' = [apc EXCEPT ![w] = "idle"]
  /\ refs' = [p \in Pkt |-> IF p \in Range(list[w]) THEN refs[p] - 1 ELSE refs[p]]
  /\ list' = [list EXCEPT ![w] = <<>>] /\ idx' = [idx EXCEPT ![w] = 0]
  /\ UNCHANGED <<unsent, pkt, buf, scratch, ctrlPackets, clock, warn, ctrlLastWarn, readVars>>

\* The flush loop takes a control frame, and writePacket a buffer.
Flush ==
  /\ rl # "none" /\ ctrlPackets # <<>>
  /\ A(Flusher, "idle", "copy")
  /\ pkt' = [pkt EXCEPT ![Flusher] = Head(ctrlPackets)]
  /\ ctrlPackets' = Tail(ctrlPackets)
  /\ buf' = [buf EXCEPT ![Flusher] = Pool]
  /\ UNCHANGED <<unsent, refs, list, idx, scratch, clock, warn, ctrlLastWarn, readVars>>

\* Its write ends, well or not, and the frame is released.
Flushed ==
  /\ A(Flusher, "write", "idle")
  /\ refs' = [refs EXCEPT ![pkt[Flusher]] = @ - 1]
  /\ PutBuf(Flusher)
  /\ UNCHANGED <<unsent, list, idx, ctrlPackets, clock, warn, ctrlLastWarn, readVars>>

Tick ==
  /\ clock < MaxClock
  /\ clock' = clock + 1
  /\ UNCHANGED <<unsent, refs, list, idx, apc, pkt, buf, scratch, ctrlPackets, warn, ctrlLastWarn, readVars>>
-----------------------------------------------------------------------------
ReaderStep ==
  \/ ReadFails \/ GiveUp \/ Retry \/ Wake \/ Stopped
  \/ Delivered

WriterStep(w) ==
  \/ QueueCtrl(w) \/ DropCtrl(w) \/ NoteCtrlDrop(w)
  \/ GetBuf(w) \/ Copy(w) \/ Write(w) \/ Return(w)

NicNext ==
  \/ NewYggdrasilNIC \/ SuperviseReadLoop \/ Close \/ LinkFlap
  \/ ReadFrame \/ ReaderStep \/ Tick
  \/ \E w \in Writer : WritePackets(w) \/ WriterStep(w)
  \/ Flush \/ Copy(Flusher) \/ Flushed

NicSpec == NicInit /\ [][NicNext]_nicVars

\* The reader and the writers run, and a frame they write is accepted or
\* refused in the end.  A read fails while the core is down.  Nothing is
\* assumed of the frames that arrive, of calls of WritePackets, or of the
\* control frames' own writes.
NicFairness ==
  /\ WF_nicVars(ReaderStep)
  /\ \A w \in Writer : WF_nicVars(WriterStep(w))

NicFairSpec == NicSpec /\ NicFairness
-----------------------------------------------------------------------------
(***************************************************************************)
(* Properties.                                                             *)
(***************************************************************************)

\* Frames whose reference a, a writer in a call or the flusher, holds.
Holds(a) == IF a = Flusher THEN {pkt[a]} \ {NoFrame} ELSE Range(list[a])

\* A frame is released when nobody uses it any more and not before: its count
\* is the number of goroutines that hold it, plus one while it waits in
\* ctrlPackets (IncRef before the send, DecRef by the flusher or on the drop).
RefsExact ==
  \A p \in Pkt :
    refs[p] = Cardinality({a \in Actor : p \in Holds(a)})
              + Cardinality({i \in DOMAIN ctrlPackets : ctrlPackets[i] = p})

\* What is passed to the core is the frame that was to be sent, whatever the
\* other goroutines in writePacket are copying (the scratch buffer belongs to
\* one call at a time).
FramesIntact ==
  \A a \in Actor : apc[a] = "write" => scratch[buf[a]] = pkt[a]

\* The process context is cancelled by the reader only when reads have failed
\* for the grace period, up to the last sleep, without one success, and it
\* never keeps sleeping beyond the grace period.
GraceHonoured ==
  /\ ctxDone => failing + MaxBackoff >= Grace
  /\ failing < Grace

\* Warnings of dropped control frames are at least WarnInterval apart, however
\* many goroutines drop frames at once.
WarnSpaced ==
  [][ctrlLastWarn' # ctrlLastWarn =>
       ctrlLastWarn = 0 \/ ctrlLastWarn' - ctrlLastWarn >= WarnInterval]_nicVars

\* gVisor's handling of a received frame ends, even when the queue of control
\* frames is full and the goroutine that empties it is stuck.
DispatchReturns == rl = "dispatch" ~> rl # "dispatch"

\* A node that has been put under supervision and cannot read any more cancels
\* its process context, unless the NIC is removed.  A loop that ended before
\* SuperviseReadLoop was called had no context to cancel and is left out.
DeafNodeStops ==
  []((cancelRoot /\ rl # "gone" /\ [](link = "down")) => <>(ctxDone \/ readStop))
=============================================================================
