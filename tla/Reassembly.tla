----------------------------- MODULE Reassembly ------------------------------
(***************************************************************************)
(* Fragmentation and reassembly of intercepted ICMPv6: fragmentIPv6Packet  *)
(* of src/nat64/ipv6chain.go cuts datagrams up, the network reorders,      *)
(* duplicates and loses the fragments, and the fragment branch of          *)
(* interceptICMPPacket feeds them to reasmTable.add (src/nat64/reasm.go).  *)
(*                                                                         *)
(* A piece of a datagram stands for its bytes: the datagram and the first  *)
(* and the last byte plus one.  A datagram is its own reassembly key.      *)
(***************************************************************************)
EXTENDS Integers, FiniteSets, Sequences, FiniteSetsExt, Functions

CONSTANTS
  Dgram,           \* datagrams in flight, each with its own (src, dst, ident)
  Size,            \* bytes of a datagram after the fixed IPv6 header
  Echo,            \* the datagrams that are Echo Requests
  Mtu,
  Copies,          \* how often the network may deliver a fragment
  MaxReassemblies, MaxFragments, MaxBytes, MaxAge,
  MaxTime

\* Datagrams within the MTU are not fragmented, and below an MTU of 56 no
\* fragment fits: neither is looked at here.
ASSUME ReassemblyConstants ==
  /\ IsFiniteSet(Dgram) /\ Echo \subseteq Dgram
  /\ Size \in [Dgram -> Nat] /\ Mtu \in Nat /\ Mtu >= 56
  /\ \A d \in Dgram : 40 + Size[d] > Mtu
  /\ Copies \in Nat /\ MaxAge \in Nat /\ MaxTime \in Nat
  /\ MaxReassemblies \in Nat /\ MaxFragments \in Nat /\ MaxBytes \in Nat

Unit == 8       \* fragment offsets count 8-byte units
FixedHeader == 40
FragHeader == 8
-----------------------------------------------------------------------------
(***************************************************************************)
(* fragmentIPv6Packet.                                                     *)
(***************************************************************************)
PerFrag(mtu) == ((mtu - FixedHeader - FragHeader) \div Unit) * Unit

\* Mutant of FragmentCount: a last, partial fragment is forgotten.
FragmentCountFloor(size, mtu) == size \div PerFrag(mtu)

FragmentCount(size, mtu) == (size + PerFrag(mtu) - 1) \div PerFrag(mtu)

Fragment(d, i, size, mtu) ==
  LET sent == (i - 1) * PerFrag(mtu)
      end  == Min({sent + PerFrag(mtu), size})
  IN  [units |-> sent \div Unit, more |-> end < size, piece |-> [of |-> d, from |-> sent, to |-> end]]

fragmentIPv6Packet(d, size, mtu) ==
  [i \in 1..FragmentCount(size, mtu) |-> Fragment(d, i, size, mtu)]

Frags(d) == fragmentIPv6Packet(d, Size[d], Mtu)

Bytes(p) == p.to - p.from
-----------------------------------------------------------------------------
(***************************************************************************)
(* reasmTable.                                                             *)
(***************************************************************************)
VARIABLES
  now,
  left,      \* deliveries the network has left, per fragment
  entries,   \* t.entries: a function on the keys with an entry
  bufByte,   \* t.bufByte
  pdu,       \* what the last step handed to handleEchoRequest
  done,      \* datagrams handed over
  shed       \* datagrams of which something was dropped or came twice

vars == <<now, left, entries, bufByte, pdu, done, shed>>

NoEntries == [k \in {} |-> 0]

Init ==
  /\ now = 0
  /\ left = [d \in Dgram |-> [i \in DOMAIN Frags(d) |-> Copies]]
  /\ entries = NoEntries /\ bufByte = 0
  /\ pdu = << >> /\ done = {} /\ shed = {}

Held(T) == FoldFunctionOnSet(LAMBDA e, n : n + e.bytes, 0, T, DOMAIN T)

\* releaseEntryLocked for the entries of the keys K, in table T with n bytes.
Without(T, K) == Restrict(T, DOMAIN T \ K)
BytesWithout(T, n, K) == Max({0, n - Held(Restrict(T, K \cap DOMAIN T))})

\* Mutant of Outdated: an entry lives one tick longer.
OutdatedLate == {k \in DOMAIN entries : entries[k].createdAt < now - MaxAge - 1}

\* The entries expireLocked removes.
Outdated == {k \in DOMAIN entries : entries[k].createdAt < now - MaxAge}

\* Mutant of contiguousLen: only the end of the last fragment counts.
contiguousAny(frags) == Max({u * Unit + Bytes(frags[u]) : u \in DOMAIN frags})

\* contiguousLen: walks from fragment to fragment; -1 when one is missing.
contiguousLen(frags) ==
  LET end == Max({u * Unit + Bytes(frags[u]) : u \in DOMAIN frags})
      walk[at \in 0..(2 * end)] ==
        IF at >= end THEN end
        ELSE IF at \div Unit \notin DOMAIN frags \/ Bytes(frags[at \div Unit]) = 0 THEN -1
        ELSE walk[at + Bytes(frags[at \div Unit])]
  IN  walk[0]

\* The pieces of an entry, picked up offset by offset.
Assembled(frags) ==
  LET nth(i) == CHOOSE u \in DOMAIN frags : Cardinality({v \in DOMAIN frags : v < u}) = i - 1
  IN  [i \in 1..Cardinality(DOMAIN frags) |-> frags[nth(i)]]

Overlaps(frags, f) ==
  LET start == f.units * Unit
      end   == start + Bytes(f.piece)
  IN  \E u \in DOMAIN frags : start < u * Unit + Bytes(frags[u]) /\ u * Unit < end

Fresh == [createdAt |-> now, frags |-> NoEntries, bytes |-> 0, haveLast |-> FALSE]

Stored(e, f) ==
  [e EXCEPT !.frags = [u \in DOMAIN @ \cup {f.units} |-> IF u = f.units THEN f.piece ELSE @[u]],
            !.bytes = @ + Bytes(f.piece),
            !.haveLast = @ \/ ~f.more]

Put(T, k, e) == [j \in DOMAIN T \cup {k} |-> IF j = k THEN e ELSE T[j]]

Keep(T, n) == entries' = T /\ bufByte' = n

\* Mutant of OverBudget: the arriving fragment is left out of the sum.
OverBudgetHeld(n, f) == n > MaxBytes

\* The fragment does not fit in with the n bytes already buffered.
OverBudget(n, f) == n + Bytes(f.piece) > MaxBytes

\* add, for a well-formed fragment f of datagram d.  T and n are the table
\* and its bytes after expireLocked.
Add(d, f) ==
  LET T == Without(entries, Outdated)
      n == BytesWithout(entries, bufByte, Outdated)
      e == IF d \in DOMAIN T THEN T[d] ELSE Fresh
      s == Stored(e, f)
      full == d \notin DOMAIN T /\ Cardinality(DOMAIN T) >= MaxReassemblies
      total == IF s.haveLast THEN contiguousLen(s.frags) ELSE -1
  IN  \/ /\ OverBudget(n, f) \/ full
         /\ Keep(T, n)
         /\ shed' = shed \cup Outdated \cup {d}
         /\ pdu' = << >> /\ UNCHANGED done
      \/ /\ ~OverBudget(n, f) /\ ~full
         /\ Overlaps(e.frags, f) \/ Cardinality(DOMAIN e.frags) >= MaxFragments
         /\ Keep(Without(T, {d}), BytesWithout(T, n, {d}))
         /\ shed' = shed \cup Outdated \cup {d}
         /\ pdu' = << >> /\ UNCHANGED done
      \/ /\ ~OverBudget(n, f) /\ ~full
         /\ ~Overlaps(e.frags, f) /\ Cardinality(DOMAIN e.frags) < MaxFragments
         /\ IF total < 0
            THEN Keep(Put(T, d, s), n + Bytes(f.piece)) /\ pdu' = << >> /\ UNCHANGED done
            ELSE /\ Keep(Without(T, {d}), BytesWithout(Put(T, d, s), n + Bytes(f.piece), {d}))
                 /\ pdu' = Assembled(s.frags) /\ done' = done \cup {d}
         /\ shed' = shed \cup Outdated

Cancel(d) ==
  /\ Keep(Without(entries, {d}), BytesWithout(entries, bufByte, {d}))
  /\ shed' = shed \cup {d}
  /\ pdu' = << >> /\ UNCHANGED done
-----------------------------------------------------------------------------
(***************************************************************************)
(* The network and the fragment branch of interceptICMPPacket.             *)
(***************************************************************************)
\* A fragment arrives.  The first fragment of anything but an Echo Request
\* cancels what is buffered or is left to gVisor.
Deliver(d, i) ==
  /\ left[d][i] > 0
  /\ left' = [left EXCEPT ![d][i] = @ - 1]
  /\ IF Frags(d)[i].units = 0 /\ d \notin Echo THEN Cancel(d) ELSE Add(d, Frags(d)[i])
  /\ UNCHANGED now

\* An empty, misaligned or out-of-range fragment under the key of d.
Malformed(d) ==
  /\ d \in DOMAIN entries
  /\ Cancel(d)
  /\ UNCHANGED <<now, left>>

Advance ==
  /\ now < MaxTime
  /\ now' = now + 1
  /\ pdu' = << >>
  /\ UNCHANGED <<left, entries, bufByte, done, shed>>

Next ==
  \/ \E d \in Dgram : Malformed(d) \/ \E i \in DOMAIN Frags(d) : Deliver(d, i)
  \/ Advance

Spec == Init /\ [][Next]_vars
-----------------------------------------------------------------------------
(***************************************************************************)
(* Properties.                                                             *)
(***************************************************************************)
\* What reassembly hands over is a whole datagram, every byte once and in
\* order, whatever order, duplicates and gaps its fragments arrived in, and
\* never mixed with another datagram.
ReassembledIntact ==
  pdu # << >> =>
    \E d \in Echo :
      /\ pdu[1].from = 0 /\ pdu[Len(pdu)].to = Size[d]
      /\ \A i \in 1..Len(pdu) : pdu[i].of = d /\ Bytes(pdu[i]) > 0
      /\ \A i \in 1..(Len(pdu) - 1) : pdu[i].to = pdu[i + 1].from

\* The byte budget is exact, the limits hold, and a complete datagram does
\* not stay behind in the table.
BufferExact ==
  /\ bufByte = Held(entries) /\ bufByte <= MaxBytes
  /\ Cardinality(DOMAIN entries) <= MaxReassemblies
  /\ \A k \in DOMAIN entries :
       LET e == entries[k]
       IN  /\ Cardinality(DOMAIN e.frags) <= MaxFragments
           /\ e.bytes = FoldFunctionOnSet(LAMBDA p, n : n + Bytes(p), 0, e.frags, DOMAIN e.frags)
           /\ e.haveLast => contiguousLen(e.frags) < 0

\* An Echo Request all of whose fragments arrive, in any order, is handed
\* over, unless one of them was shed at a limit, expired or came twice.
CompleteDelivered ==
  \A d \in Echo :
    (d \notin shed /\ \A i \in DOMAIN Frags(d) : left[d][i] < Copies) => d \in done

\* No datagram outlives maxReasmAge past the arrival of the next fragment.
Expires ==
  [][\A d \in Dgram : \A i \in DOMAIN Frags(d) :
       left'[d][i] < left[d][i] /\ d \in Echo =>
         \A k \in DOMAIN entries' : entries'[k].createdAt >= now - MaxAge]_vars
=============================================================================
