----------------------------- MODULE Dns64Proofs -----------------------------
(***************************************************************************)
(* Proofs about Dns64, for every set of clients, names, configurations and *)
(* upstream answers: the cache keeps its bound, excluded addresses are     *)
(* never passed on, TTLs are honoured across the cache, and after the      *)
(* flush of a reload answers follow the new configuration.  At the end,    *)
(* the address mapping of Pref64 that synthesis uses.                      *)
(***************************************************************************)
EXTENDS Dns64, Pref64, FiniteSetTheorems, TLAPS

USE CacheConstants, Dns64Constants

-----------------------------------------------------------------------------
(***************************************************************************)
(* The bound of the cache.                                                 *)
(***************************************************************************)

\* The reload in progress knows its configuration.
ReloadOK ==
  /\ rl = [pc |-> rl.pc, to |-> rl.to]
  /\ rl.pc # "idle" => rl.to \in Configs

CacheInv ==
  /\ IsFiniteSet(DOMAIN items) /\ maxEntries \in Nat
  /\ ReloadOK
  /\ CacheBounded

\* makeRoomLocked leaves room: what set stores is within the bound if the
\* entries were.
LEMMA SetBounded ==
  ASSUME IsFiniteSet(DOMAIN items), maxEntries \in Nat, NEW k, NEW rrs, Set(k, rrs)
  PROVE  /\ IsFiniteSet(DOMAIN items')
         /\ maxEntries > 0 /\ Cardinality(DOMAIN items) <= maxEntries
              => Cardinality(DOMAIN items') <= maxEntries
<1>1. PICK S \in RoomFor(k) :
        items' = [j \in S \cup {k} |-> IF j = k THEN NewItem(rrs) ELSE items[j]]
  BY Zenon DEF Set
<1>2. DOMAIN items' = S \cup {k}
  BY Zenon, <1>1
<1>3. Live \subseteq DOMAIN items /\ IsFiniteSet(Live)
      /\ Cardinality(Live) <= Cardinality(DOMAIN items)
  <2>1. Live \subseteq DOMAIN items
    BY Zenon DEF Live
  <2> QED BY Zenon, <2>1, FS_Subset
<1>4. Cardinality(Live) \in Nat /\ Cardinality(DOMAIN items) \in Nat
  BY Zenon, <1>3, FS_CardinalityType
<1>5. ASSUME NEW T, IsFiniteSet(T)
      PROVE  /\ IsFiniteSet(T \cup {k})
             /\ Cardinality(T \cup {k}) <= Cardinality(T) + 1
             /\ k \in T => T \cup {k} = T
  <2>1. Cardinality(T) \in Nat
    BY Zenon, <1>5, FS_CardinalityType
  <2> DEFINE U == T \cup {k}
  <2>2. IsFiniteSet(U) /\ Cardinality(U) = IF k \in T THEN Cardinality(T) ELSE Cardinality(T) + 1
    BY Zenon, <1>5, FS_AddElement
  <2>3. k \in T => U = T
    OBVIOUS
  <2> HIDE DEF U
  <2>4. IsFiniteSet(U) /\ Cardinality(U) <= Cardinality(T) + 1 /\ (k \in T => U = T)
    BY <2>1, <2>2, <2>3
  <2> QED BY Zenon, <2>4 DEF U
<1>6. CASE maxEntries = 0 \/ Cardinality(DOMAIN items) < maxEntries \/ k \in DOMAIN items
  <2>1. S = DOMAIN items
    BY Zenon, <1>6 DEF RoomFor
  <2>2. IsFiniteSet(S \cup {k}) /\ Cardinality(S \cup {k}) <= Cardinality(S) + 1
        /\ (k \in S => S \cup {k} = S) /\ Cardinality(S \cup {k}) \in Nat
    BY Zenon, <1>5, <2>1, FS_CardinalityType
  <2> QED BY <1>2, <1>4, <1>6, <2>1, <2>2
<1>7. CASE ~(maxEntries = 0 \/ Cardinality(DOMAIN items) < maxEntries \/ k \in DOMAIN items)
           /\ Cardinality(Live) < maxEntries
  <2>1. S = Live
    BY Zenon, <1>7 DEF RoomFor
  <2>2. IsFiniteSet(S \cup {k}) /\ Cardinality(S \cup {k}) <= Cardinality(Live) + 1
        /\ Cardinality(S \cup {k}) \in Nat
    BY Zenon, <1>3, <1>5, <2>1, FS_CardinalityType
  <2> QED BY <1>2, <1>4, <1>7, <2>2
<1>8. CASE ~(maxEntries = 0 \/ Cardinality(DOMAIN items) < maxEntries \/ k \in DOMAIN items)
           /\ ~(Cardinality(Live) < maxEntries)
  <2>1. PICK v \in Live : S = Live \ {v}
    BY Zenon, <1>8 DEF RoomFor
  <2>2. IsFiniteSet(S) /\ Cardinality(S) = Cardinality(Live) - 1
    BY Zenon, <1>3, <2>1, FS_RemoveElement
  <2>3. IsFiniteSet(S \cup {k}) /\ Cardinality(S \cup {k}) <= Cardinality(S) + 1
        /\ Cardinality(S \cup {k}) \in Nat
    BY Zenon, <1>5, <2>2, FS_CardinalityType
  <2> QED BY <1>2, <1>3, <1>4, <2>2, <2>3
<1> QED BY Zenon, <1>6, <1>7, <1>8

\* A query's step keeps the cache within its bound.
LEMMA CacheQuery ==
  ASSUME CacheInv, NEW i \in Client, HandleVia(i) \/ QueryStep(i)
  PROVE  CacheInv'
<1>1. rl' = rl /\ maxEntries' = maxEntries
  BY Zenon DEF HandleVia, QueryStep, FindZone, CacheGet, LookupFails, GotAAAA, GotA, Relay, Finish,
         cacheVars
<1>2. items' = items \/ \E k, rrs : Set(k, rrs)
  <2>1. CASE GotAAAA(i)
    <3>1. PICK u \in UpAAAA :
            \/ items' = items
            \/ Set(query[i].name, IF u.rcode = "ok" THEN filterAAAA(Arrived(u, i), query[i].zone)
                                                    ELSE {})
      BY Zenon, <2>1 DEF GotAAAA
    <3> QED BY Zenon, <3>1
  <2>2. CASE GotA(i)
    <3>1. PICK u \in UpA :
            \/ items' = items
            \/ Set(query[i].name, NotA(Arrived(u, i)) \cup
                     synthesiseFromA(Arrived(u, i), query[i].zone, query[i].maxTTL))
      BY Zenon, <2>2 DEF GotA
    <3> QED BY Zenon, <3>1
  <2> QED
    BY Zenon, <2>1, <2>2 DEF HandleVia, QueryStep, FindZone, CacheGet, LookupFails, Relay,
        Finish, cacheVars
<1>3. CASE items' = items
  BY Zenon, <1>1, <1>3 DEF CacheInv, ReloadOK, CacheBounded
<1>4. ASSUME NEW k, NEW rrs, Set(k, rrs) PROVE CacheInv'
  <2>1. IsFiniteSet(DOMAIN items') /\ (maxEntries > 0 /\ Cardinality(DOMAIN items) <= maxEntries
                                        => Cardinality(DOMAIN items') <= maxEntries)
    BY Zenon, <1>4, SetBounded DEF CacheInv
  <2> QED BY Zenon, <1>1, <2>1 DEF CacheInv, ReloadOK, CacheBounded
<1> QED BY Zenon, <1>2, <1>3, <1>4

\* The janitor, the clock and every step of a reload keep it too.
LEMMA CacheOther ==
  ASSUME CacheInv, ReloadConfig \/ ReloadStep \/ (Janitor /\ UNCHANGED dnsVars) \/ Advance
  PROVE  CacheInv'
<1>1. CASE ReloadConfig
  BY <1>1 DEF ReloadConfig, cacheVars, CacheInv, ReloadOK, CacheBounded
<1>2. CASE ReloadStatic
  BY Zenon, <1>2 DEF ReloadStatic, cacheVars, CacheInv, ReloadOK, CacheBounded
<1>3. CASE ReloadSettings
  <2>1. rl.to \in Configs /\ rl.to.max \in Nat
    BY Zenon, <1>3 DEF ReloadSettings, CacheInv, ReloadOK
  <2>2. maxEntries' \in Nat /\ items' = items
    BY Zenon, <1>3, <2>1 DEF ReloadSettings, StoreSettings, CacheInv
  <2>3. rl' = [pc |-> "flush", to |-> rl.to]
    BY Zenon, <1>3 DEF ReloadSettings, CacheInv, ReloadOK
  <2> QED BY Zenon, <2>1, <2>2, <2>3 DEF CacheInv, ReloadOK, CacheBounded
<1>4. CASE ReloadFlush
  <2>1. DOMAIN items' = {} /\ maxEntries' = maxEntries /\ rl' = [pc |-> "idle", to |-> None]
    BY Zenon, <1>4 DEF ReloadFlush, Flush, Empty
  <2> QED BY <2>1, FS_EmptySet DEF CacheInv, ReloadOK, CacheBounded
<1>5. CASE Janitor /\ UNCHANGED dnsVars
  <2>1. DOMAIN items' \subseteq DOMAIN items /\ maxEntries' = maxEntries /\ rl' = rl
    BY Zenon, <1>5 DEF Janitor, Only, Live, dnsVars
  <2>2. IsFiniteSet(DOMAIN items') /\ Cardinality(DOMAIN items') <= Cardinality(DOMAIN items)
        /\ Cardinality(DOMAIN items') \in Nat /\ Cardinality(DOMAIN items) \in Nat
    BY Zenon, <2>1, FS_Subset, FS_CardinalityType DEF CacheInv
  <2> QED BY <2>1, <2>2 DEF CacheInv, ReloadOK, CacheBounded
<1>6. CASE Advance
  BY Zenon, <1>6 DEF Advance, cacheVars, dnsVars, CacheInv, ReloadOK, CacheBounded
<1> QED BY Zenon, <1>1, <1>2, <1>3, <1>4, <1>5, <1>6 DEF ReloadStep

\* The bound is part of an invariant: entries are finitely many and a reload
\* installs a configuration.
THEOREM CacheAlways == Spec => []CacheInv
<1>1. Init => CacheInv
  <2> SUFFICES ASSUME Init PROVE CacheInv
    OBVIOUS
  <2>1. DOMAIN items = {} /\ maxEntries \in Nat /\ rl = [pc |-> "idle", to |-> None]
    BY DEF Init, CacheInit, Empty
  <2> QED BY <2>1, FS_EmptySet DEF CacheInv, ReloadOK, CacheBounded
<1>2. CacheInv /\ [Next]_vars => CacheInv'
  <2>1. ASSUME CacheInv, UNCHANGED vars PROVE CacheInv'
    BY Zenon, <2>1 DEF vars, cacheVars, dnsVars, CacheInv, ReloadOK, CacheBounded
  <2> QED BY Zenon, <2>1, CacheQuery, CacheOther DEF Next
<1> QED BY <1>1, <1>2, PTL DEF Spec

\* The cache holds at most maxEntries answers outside the reload that lowers
\* the bound, whatever is asked and answered.
THEOREM CacheIsBounded == Spec => []CacheBounded
<1>1. CacheInv => CacheBounded
  BY Zenon DEF CacheInv
<1> QED BY <1>1, CacheAlways, PTL
-----------------------------------------------------------------------------
(***************************************************************************)
(* What a query is answered.                                               *)
(***************************************************************************)

\* The fields of a query goroutine and of a cached record.
IsQuery(q) ==
  /\ q = [pc |-> q.pc, name |-> q.name, route |-> q.route, zone |-> q.zone, maxTTL |-> q.maxTTL,
          calm |-> q.calm, resp |-> q.resp]
  /\ q.pc = "zone" => q.route \in {"cache", "a", "pass"}
  /\ q.maxTTL \in Nat

IsRecord(r) ==
  r = [type |-> r.type, val |-> r.val, ttl |-> r.ttl, born |-> r.born, life |-> r.life,
       calm |-> r.calm]

\* The zone of a query that has seen no reload is the one its name has now.
Good(q) ==
  q.calm = "yes" =>
    /\ rl.pc = "idle"
    /\ q.pc \in {"cache", "aaaa", "synth"}
         => q.zone = matchZone(cfg.zones, q.name) /\ q.zone # None /\ ~blocked(q.zone)
    /\ q.pc = "synth" => q.zone.prefix # None

QueryInv ==
  /\ query = [i \in Client |-> query[i]]
  /\ \A i \in Client : IsQuery(query[i]) /\ Good(query[i])

\* What an answered query holds of its answer.
LEMMA DoneIs ==
  ASSUME NEW name, NEW calm, NEW rcode, NEW rrs, NEW from
  PROVE  /\ Done(name, calm, rcode, rrs, from).resp.rrs = rrs
         /\ Done(name, calm, rcode, rrs, from).resp.from = from
  BY Zenon DEF Done

\* Setting one query leaves the others alone.
LEMMA SetIs ==
  ASSUME QueryInv, NEW i \in Client, NEW q, Set1(i, q)
  PROVE  /\ query' = [j \in Client |-> query'[j]]
         /\ query'[i] = q
         /\ \A j \in Client : j # i => query'[j] = query[j]
  BY Zenon DEF QueryInv, Set1

\* What a step makes of its query: it moves on, or it answers locally, from
\* the cache, from upstream or by synthesis.
Moves(i) == \E q : Set1(i, q) /\ IsQuery(q) /\ Good(q) /\ q.pc # "done"
Bare(i) ==
  \E rcode, rrs : \E from \in {"static", "local", "relay"} : RespondBare(i, rcode, rrs, from)
FromCache(i) ==
  /\ query[i].pc = "cache" /\ Hit(query[i].name)
  /\ Respond(i, "ok", ServedFromCache(query[i].name), "cache")
Native(u, i) == filterAAAA(Arrived(u, i), query[i].zone)
FromUpstream(i) ==
  /\ query[i].pc = "aaaa"
  /\ \E u \in UpAAAA : /\ Set(query[i].name, Native(u, i))
                       /\ Respond(i, "ok", Native(u, i), "upstream")
Full(u, i) ==
  NotA(Arrived(u, i)) \cup synthesiseFromA(Arrived(u, i), query[i].zone, query[i].maxTTL)
FromSynth(i) ==
  /\ query[i].pc = "synth"
  /\ \E u \in UpA : Set(query[i].name, Full(u, i)) /\ Respond(i, "ok", Full(u, i), "synth")

\* Every step of a query is one of these, and only the last two store.
LEMMA StepKinds ==
  ASSUME QueryInv, NEW i \in Client, HandleVia(i) \/ QueryStep(i)
  PROVE  /\ UNCHANGED <<cfg, rl>>
         /\ \/ (Moves(i) \/ Bare(i) \/ FromCache(i)) /\ items' = items
            \/ FromUpstream(i) \/ FromSynth(i)
<1>0. IsQuery(query[i]) /\ Good(query[i])
  BY Zenon DEF QueryInv
<1>1. CASE HandleVia(i)
  <2>1. PICK n \in Name, t \in QType, cddo \in BOOLEAN :
          \/ \E rrs : RespondBare(i, "ok", rrs, "static")
          \/ Set1(i, [pc |-> "zone", name |-> n, route |-> Route(t, cddo), zone |-> None,
                      maxTTL |-> 0, calm |-> IF rl.pc = "idle" THEN "yes" ELSE "no",
                      resp |-> None])
    BY <1>1 DEF HandleVia
  <2> DEFINE q == [pc |-> "zone", name |-> n, route |-> Route(t, cddo), zone |-> None,
                   maxTTL |-> 0, calm |-> IF rl.pc = "idle" THEN "yes" ELSE "no", resp |-> None]
  <2>3. Route(t, cddo) \in {"cache", "a", "pass"}
    BY Zenon DEF Route
  <2>4. IsQuery(q) /\ Good(q) /\ q.pc # "done"
    BY Zenon, <2>3 DEF IsQuery, Good
  <2> HIDE DEF q
  <2>5. Moves(i) \/ Bare(i)
    BY Zenon, <2>1, <2>4 DEF Moves, Bare, q
  <2> QED BY Zenon, <1>1, <2>5 DEF HandleVia, cacheVars
<1>2. CASE FindZone(i)
  <2> DEFINE z == matchZone(cfg.zones, query[i].name)
             q == At(i, query[i].route, z, 0)
  <2>1. Bare(i) \/ (Set1(i, q) /\ z # None /\ ~blocked(z))
    BY Zenon, <1>2 DEF FindZone, Bare
  <2>3. query[i].route \in {"cache", "a", "pass"}
    BY Zenon, <1>0, <1>2 DEF FindZone, IsQuery
  <2>4. ASSUME z # None, ~blocked(z) PROVE IsQuery(q) /\ Good(q) /\ q.pc # "done"
    BY Zenon, <1>0, <2>3, <2>4 DEF IsQuery, Good, At
  <2> HIDE DEF q, z
  <2>5. Moves(i) \/ Bare(i)
    BY Zenon, <2>1, <2>4 DEF Moves
  <2> QED BY Zenon, <1>2, <2>5 DEF FindZone, cacheVars
<1>3. CASE CacheGet(i)
  <2> DEFINE q == [query[i] EXCEPT !.pc = "aaaa"]
  <2>1. IsQuery(q) /\ Good(q) /\ q.pc # "done"
    BY <1>0, <1>3 DEF CacheGet, IsQuery, Good
  <2>2. FromCache(i) \/ Set1(i, q)
    BY Zenon, <1>3 DEF CacheGet, FromCache
  <2> HIDE DEF q
  <2>3. FromCache(i) \/ Moves(i)
    BY Zenon, <2>1, <2>2 DEF Moves
  <2> QED BY Zenon, <1>3, <2>3 DEF CacheGet, cacheVars
<1>4. CASE LookupFails(i) \/ Relay(i)
  <2>1. Bare(i)
    BY Zenon, <1>4 DEF LookupFails, Relay, Bare
  <2> QED BY Zenon, <1>4, <2>1 DEF LookupFails, Relay, cacheVars
<1>5. CASE Finish(i)
  <2>1. Set1(i, Idle) /\ IsQuery(Idle) /\ Good(Idle) /\ Idle.pc # "done"
    BY Zenon, <1>5 DEF Finish, Idle, IsQuery, Good
  <2> QED BY Zenon, <1>5, <2>1 DEF Finish, Moves, cacheVars
<1>6. CASE GotAAAA(i)
  <2>1. PICK u \in UpAAAA :
          \/ RespondBare(i, "nx", {}, "local") /\ items' = items
          \/ /\ u.rcode = "ok"
             /\ Set(query[i].name, Native(u, i)) /\ Respond(i, "ok", Native(u, i), "upstream")
          \/ RespondBare(i, "ok", {}, "local") /\ items' = items
          \/ /\ query[i].zone.prefix # None /\ items' = items
             /\ Set1(i, At(i, "synth", query[i].zone, u.soa))
    BY Zenon, <1>6 DEF GotAAAA, Native, containsAAAA, AAAA
  <2> DEFINE q == At(i, "synth", query[i].zone, u.soa)
  <2>2. ASSUME query[i].zone.prefix # None PROVE IsQuery(q) /\ Good(q) /\ q.pc # "done"
    BY Zenon, <1>0, <1>6, <2>2 DEF GotAAAA, IsQuery, Good, At
  <2> HIDE DEF q
  <2>3. \/ (Moves(i) \/ Bare(i)) /\ items' = items
        \/ FromUpstream(i)
    BY Zenon, <1>6, <2>1, <2>2 DEF Moves, Bare, FromUpstream, GotAAAA, q
  <2> QED BY Zenon, <1>6, <2>3 DEF GotAAAA
<1>7. CASE GotA(i)
  <2>1. PICK u \in UpA :
          \/ RespondBare(i, u.rcode, NotA(u.rrs), "relay") /\ items' = items
          \/ Set(query[i].name, Full(u, i)) /\ Respond(i, "ok", Full(u, i), "synth")
    BY Zenon, <1>7 DEF GotA, Full
  <2>2. (Bare(i) /\ items' = items) \/ FromSynth(i)
    BY Zenon, <1>7, <2>1 DEF Bare, FromSynth, GotA
  <2> QED BY Zenon, <1>7, <2>2 DEF GotA
<1> QED BY Zenon, <1>1, <1>2, <1>3, <1>4, <1>5, <1>6, <1>7 DEF QueryStep

\* A query's step keeps the queries in agreement with the configuration.
LEMMA QueryQuery ==
  ASSUME QueryInv, NEW i \in Client, HandleVia(i) \/ QueryStep(i)
  PROVE  QueryInv'
<1>1. UNCHANGED <<cfg, rl>>
  BY Zenon, StepKinds
<1>2. \E q : Set1(i, q) /\ IsQuery(q) /\ Good(q)
  <2>1. CASE Moves(i)
    BY Zenon, <2>1 DEF Moves
  <2>2. CASE Bare(i)
    <3>1. PICK rcode, rrs, from : Set1(i, Done(None, "no", rcode, rrs, from))
      BY Zenon, <2>2 DEF Bare, RespondBare
    <3>2. IsQuery(Done(None, "no", rcode, rrs, from)) /\ Good(Done(None, "no", rcode, rrs, from))
      BY Zenon DEF Done, IsQuery, Good
    <3> QED BY Zenon, <3>1, <3>2
  <2>3. CASE FromCache(i) \/ FromUpstream(i) \/ FromSynth(i)
    <3>1. PICK rrs, from : Set1(i, Done(query[i].name, query[i].calm, "ok", rrs, from))
      BY Zenon, <2>3 DEF FromCache, FromUpstream, FromSynth, Respond
    <3>2. /\ IsQuery(Done(query[i].name, query[i].calm, "ok", rrs, from))
          /\ Good(Done(query[i].name, query[i].calm, "ok", rrs, from))
      BY Zenon DEF Done, IsQuery, Good, QueryInv
    <3> QED BY Zenon, <3>1, <3>2
  <2> QED BY Zenon, <2>1, <2>2, <2>3, StepKinds
<1>3. PICK q : Set1(i, q) /\ IsQuery(q) /\ Good(q)
  BY Zenon, <1>2
<1>4. /\ query' = [j \in Client |-> query'[j]]
      /\ query'[i] = q
      /\ \A j \in Client : j # i => query'[j] = query[j]
  BY Zenon, <1>3, SetIs
<1>5. ASSUME NEW j \in Client PROVE IsQuery(query'[j]) /\ Good(query[j])' 
  <2>1. CASE j = i
    BY Zenon, <1>1, <1>3, <1>4, <2>1 DEF Good
  <2>2. CASE j # i
    BY Zenon, <1>1, <1>4, <2>2 DEF Good, QueryInv
  <2> QED BY Zenon, <2>1, <2>2
<1> QED BY Zenon, <1>4, <1>5 DEF QueryInv, IsQuery

\* The start of a reload only marks the queries.
LEMMA Calmed ==
  ASSUME QueryInv, query' = [j \in Client |-> [query[j] EXCEPT !.calm = "no"]], NEW i \in Client
  PROVE  IsQuery(query'[i]) /\ query'[i].calm = "no" /\ query'[i].pc = query[i].pc
<1> DEFINE q == query[i]
           p == [pc |-> q.pc, name |-> q.name, route |-> q.route, zone |-> q.zone,
                 maxTTL |-> q.maxTTL, calm |-> "no", resp |-> q.resp]
<1>1. query'[i] = [q EXCEPT !.calm = "no"]
  OBVIOUS
<1>2. IsQuery(q)
  BY Zenon DEF QueryInv
<1> HIDE DEF q
<1>3. [q EXCEPT !.calm = "no"] = p
  BY <1>2 DEF IsQuery
<1>4. IsQuery(p) /\ p.calm = "no" /\ p.pc = q.pc
  BY Zenon, <1>2 DEF IsQuery
<1> QED BY Zenon, <1>1, <1>3, <1>4 DEF q

\* Only its own steps move a query.
LEMMA KeepsPlace ==
  ASSUME QueryInv, ReloadConfig \/ ReloadStep \/ (Janitor /\ UNCHANGED dnsVars) \/ Advance,
         NEW i \in Client
  PROVE  query'[i].pc = query[i].pc
<1>1. CASE ReloadConfig
  BY Zenon, <1>1, Calmed DEF ReloadConfig
<1>2. CASE ~ReloadConfig
  BY Zenon, <1>2 DEF ReloadStep, ReloadStatic, ReloadSettings, ReloadFlush, Advance, dnsVars
<1> QED BY Zenon, <1>1, <1>2

\* The reload and the rest keep the queries in agreement too.
LEMMA QueryOther ==
  ASSUME QueryInv, ReloadConfig \/ ReloadStep \/ (Janitor /\ UNCHANGED dnsVars) \/ Advance
  PROVE  QueryInv'
<1>1. CASE ReloadConfig
  BY Zenon, <1>1, Calmed DEF ReloadConfig, QueryInv, Good
<1>2. CASE ReloadStep
  <2>1. rl.pc # "idle" /\ UNCHANGED <<query, cfg>>
    BY Zenon, <1>2 DEF ReloadStep, ReloadStatic, ReloadSettings, ReloadFlush
  <2>2. \A i \in Client : query[i].calm # "yes"
    BY Zenon, <2>1 DEF QueryInv, Good
  <2> QED BY Zenon, <2>1, <2>2 DEF QueryInv, IsQuery, Good
<1>3. CASE (Janitor /\ UNCHANGED dnsVars) \/ Advance
  BY <1>3 DEF Advance, dnsVars, QueryInv, IsQuery, Good
<1> QED BY Zenon, <1>1, <1>2, <1>3

\* A query that no reload has crossed works with the zone its name has.
THEOREM QueryAlways == Spec => []QueryInv
<1>1. Init => QueryInv
  BY DEF Init, QueryInv, IsQuery, Good, Idle
<1>2. QueryInv /\ [Next]_vars => QueryInv'
  <2>1. ASSUME QueryInv, UNCHANGED vars PROVE QueryInv'
    BY Zenon, <2>1 DEF vars, dnsVars, QueryInv, IsQuery, Good
  <2> QED BY Zenon, <2>1, QueryQuery, QueryOther DEF Next
<1> QED BY <1>1, <1>2, PTL DEF Spec

\* What filterAAAA and dropExcludedAAAA let pass is not excluded.
LEMMA Dropped ==
  /\ \A k : \A r \in AAAA(ServedFromCache(k)) : r.val \notin cfg.excluded
  /\ \A u, i : \A r \in AAAA(Native(u, i)) : r.val \notin cfg.excluded
  BY Zenon DEF AAAA, ServedFromCache, Native, filterAAAA, dropExcludedAAAA

\* handleAAAA never passes on an AAAA record of an excluded subnet, be it
\* fresh from upstream or from the cache.
THEOREM ExcludedNever == Spec => ExcludedNeverServed
<1> DEFINE Clean == \A i \in Client :
             Answers(i) /\ query'[i].resp.from \in {"cache", "upstream"}
               => \A r \in AAAA(query'[i].resp.rrs) : r.val \notin cfg.excluded
<1>1. ASSUME QueryInv, NEW i \in Client, HandleVia(i) \/ QueryStep(i) PROVE Clean
  <2> SUFFICES ASSUME NEW j \in Client, Answers(j), query'[j].resp.from \in {"cache", "upstream"}
               PROVE  \A r \in AAAA(query'[j].resp.rrs) : r.val \notin cfg.excluded
    OBVIOUS
  <2>0. j = i
    <3>1. PICK q : Set1(i, q)
      BY Zenon, <1>1, StepKinds DEF Moves, Bare, FromCache, FromUpstream, FromSynth, RespondBare,
          Respond
    <3> QED BY Zenon, <1>1, <3>1, SetIs DEF Answers
  <2>1. CASE Moves(i)
    BY <1>1, <2>0, <2>1, SetIs DEF Moves, Answers
  <2>2. CASE Bare(i)
    <3>1. PICK rcode, rrs : \E from \in {"static", "local", "relay"} :
            Set1(i, Done(None, "no", rcode, rrs, from))
      BY Zenon, <2>2 DEF Bare, RespondBare
    <3>2. PICK from \in {"static", "local", "relay"} : query'[i] = Done(None, "no", rcode, rrs, from)
      BY Zenon, <1>1, <3>1, SetIs
    <3>3. query'[i].resp.from = from
      BY <3>2 DEF Done
    <3> QED BY Zenon, <2>0, <3>2, <3>3
  <2>3. CASE FromCache(i)
    <3>1. query'[i] = Done(query[i].name, query[i].calm, "ok", ServedFromCache(query[i].name), "cache")
      BY Zenon, <1>1, <2>3, SetIs DEF FromCache, Respond
    <3>2. query'[i].resp.rrs = ServedFromCache(query[i].name)
      BY <3>1 DEF Done
    <3> QED BY Zenon, <2>0, <3>2, Dropped
  <2>4. CASE FromUpstream(i)
    <3>1. PICK u \in UpAAAA :
            query'[i] = Done(query[i].name, query[i].calm, "ok", Native(u, i), "upstream")
      BY Zenon, <1>1, <2>4, SetIs DEF FromUpstream, Respond
    <3>2. query'[i].resp.rrs = Native(u, i)
      BY <3>1 DEF Done
    <3> QED BY Zenon, <2>0, <3>2, Dropped
  <2>5. CASE FromSynth(i)
    <3>1. PICK u \in UpA :
            query'[i] = Done(query[i].name, query[i].calm, "ok", Full(u, i), "synth")
      BY <1>1, <2>5, SetIs DEF FromSynth, Respond
    <3>2. query'[i].resp.from = "synth"
      BY <3>1 DEF Done
    <3> QED BY Zenon, <2>0, <3>2
  <2> QED BY Zenon, <1>1, <2>1, <2>2, <2>3, <2>4, <2>5, StepKinds
<1>2. ASSUME QueryInv, ReloadConfig \/ ReloadStep \/ (Janitor /\ UNCHANGED dnsVars) \/ Advance
      PROVE  Clean
  BY Zenon, <1>2, KeepsPlace DEF Answers
<1>3. QueryInv /\ [Next]_vars => [Clean]_vars
  BY Zenon, <1>1, <1>2 DEF Next
<1> QED BY <1>3, QueryAlways, PTL DEF Spec, ExcludedNeverServed
-----------------------------------------------------------------------------
(***************************************************************************)
(* The policy after a reload.                                              *)
(***************************************************************************)

\* A set of records that may be stored and served for name n: its calm AAAA
\* records are permitted.
Fit(rrs, n) ==
  \A r \in rrs : /\ IsRecord(r)
                 /\ r.type = "AAAA" /\ r.calm = "yes" => Permitted(r, n, cfg)

\* Between reloads everything in the cache is fit, and so are the answers.
ItemsFit ==
  \A k \in DOMAIN items : /\ \A r \in items[k].value : IsRecord(r)
                          /\ rl.pc = "idle" => Fit(items[k].value, k)

AnswerFit(i) ==
  FromZone(i) => \A r \in AAAA(query[i].resp.rrs) : r.calm = "yes" => Permitted(r, query[i].name, cfg)

PolicyInv == ItemsFit /\ \A i \in Client : AnswerFit(i)

\* Storing fit records keeps the cache fit.
LEMMA SetFit ==
  ASSUME ItemsFit, NEW k, NEW rrs, Fit(rrs, k), Set(k, rrs), UNCHANGED <<cfg, rl>>
  PROVE  ItemsFit'
<1>1. PICK S \in RoomFor(k) :
        items' = [j \in S \cup {k} |-> IF j = k THEN NewItem(rrs) ELSE items[j]]
  BY Zenon DEF Set
<1>2. S \subseteq DOMAIN items
  BY Zenon DEF RoomFor, Live
<1>3. NewItem(rrs).value = rrs
  BY Zenon DEF NewItem
<1>4. ASSUME NEW j \in DOMAIN items'
      PROVE  /\ \A r \in items'[j].value : IsRecord(r)
             /\ rl'.pc = "idle" => Fit(items[j].value, j)'
  <2>1. CASE j = k
    <3>1. items'[j].value = rrs
      BY Zenon, <1>1, <1>3, <1>4, <2>1
    <3> QED BY Zenon, <2>1, <3>1 DEF Fit, Permitted
  <2>2. CASE j # k
    <3>1. items'[j] = items[j] /\ j \in DOMAIN items
      BY Zenon, <1>1, <1>2, <1>4, <2>2
    <3> QED BY <3>1 DEF ItemsFit, Fit, Permitted
  <2> QED BY Zenon, <2>1, <2>2
<1> QED BY Zenon, <1>4 DEF ItemsFit, IsRecord

\* The entries that remain when some are removed are fit.
LEMMA OnlyFit ==
  ASSUME ItemsFit, NEW S \in SUBSET DOMAIN items, items' = Only(S), UNCHANGED <<cfg, rl>>
  PROVE  ItemsFit'
  BY DEF ItemsFit, Only, Fit, Permitted, IsRecord

\* What filterAAAA makes of an upstream answer is fit.
LEMMA NativeFit ==
  ASSUME QueryInv, NEW i \in Client, query[i].pc = "aaaa", NEW u \in UpAAAA
  PROVE  Fit(Native(u, i), query[i].name)
<1> SUFFICES ASSUME NEW r \in Native(u, i)
             PROVE  /\ IsRecord(r)
                    /\ r.type = "AAAA" /\ r.calm = "yes" => Permitted(r, query[i].name, cfg)
  BY Zenon DEF Fit
<1> DEFINE z == query[i].zone
<1>1. r \in Arrived(u, i) /\ (r.type = "AAAA" => r.val \notin cfg.excluded)
      /\ (r.type = "AAAA" => IF r.val = Unspecified THEN cfg.ia = "process" ELSE z.v6)
  BY Zenon DEF Native, filterAAAA, dropExcludedAAAA
<1>2. PICK a \in u.rrs : r = [type |-> a.type, val |-> a.val, ttl |-> a.ttl, born |-> now,
                              life |-> a.ttl, calm |-> query[i].calm]
  BY Zenon, <1>1 DEF Arrived
<1>3. IsRecord(r) /\ r.calm = query[i].calm /\ r.type = a.type /\ r.val = a.val
  BY Zenon, <1>2 DEF IsRecord
<1>4. ASSUME r.type = "AAAA", r.calm = "yes" PROVE Permitted(r, query[i].name, cfg)
  <2>1. z = matchZone(cfg.zones, query[i].name) /\ z # None /\ ~blocked(z)
    BY Zenon, <1>3, <1>4 DEF QueryInv, Good
  <2>2. a \in AAAA(u.rrs)
    BY ZenonT(60), <1>3, <1>4 DEF AAAA
  <2> HIDE DEF z
  <2> QED BY Zenon, <1>1, <1>3, <1>4, <2>1, <2>2 DEF Permitted
<1> QED BY Zenon, <1>3, <1>4

\* What synthesiseFromA makes of an answer, with its other records, is fit.
LEMMA SynthFit ==
  ASSUME QueryInv, NEW i \in Client, query[i].pc = "synth", NEW u \in UpA
  PROVE  Fit(Full(u, i), query[i].name)
<1> SUFFICES ASSUME NEW r \in Full(u, i)
             PROVE  /\ IsRecord(r)
                    /\ r.type = "AAAA" /\ r.calm = "yes" => Permitted(r, query[i].name, cfg)
  BY Zenon DEF Fit
<1> DEFINE z == query[i].zone
<1>0. ASSUME NEW s \in Arrived(u, i)
      PROVE  \E a \in u.rrs : /\ s.type = a.type /\ s.val = a.val /\ s.calm = query[i].calm
                              /\ IsRecord(s)
  <2>1. PICK a \in u.rrs : s = [type |-> a.type, val |-> a.val, ttl |-> a.ttl, born |-> now,
                                life |-> a.ttl, calm |-> query[i].calm]
    BY Zenon DEF Arrived
  <2> QED BY Zenon, <2>1 DEF IsRecord
<1>1. CASE r \in NotA(Arrived(u, i))
  <2>1. r \in Arrived(u, i)
    BY Zenon, <1>1 DEF NotA
  <2>2. IsRecord(r) /\ r.type # "AAAA"
    BY Zenon, <1>0, <2>1
  <2> QED BY Zenon, <2>2
<1>2. CASE r \in synthesiseFromA(Arrived(u, i), z, query[i].maxTTL)
  <2>1. PICK s \in Arrived(u, i) :
          /\ r = SynthesisedFrom(s, z, query[i].maxTTL)
          /\ \/ s.val = Unspecified /\ cfg.ia = "process"
             \/ s.val \notin cfg.ignored
    BY Zenon, <1>2 DEF synthesiseFromA
  <2>2. PICK a \in u.rrs : s.val = a.val /\ s.calm = query[i].calm
    BY Zenon, <1>0
  <2>3. /\ IsRecord(r) /\ r.calm = query[i].calm
        /\ r.val = IF s.val = Unspecified /\ cfg.ia = "process" THEN s.val ELSE <<z.prefix, s.val>>
    BY Zenon, <2>1, <2>2 DEF SynthesisedFrom, IsRecord
  <2>4. ASSUME r.calm = "yes" PROVE Permitted(r, query[i].name, cfg)
    <3>1. z = matchZone(cfg.zones, query[i].name) /\ z # None /\ ~blocked(z) /\ z.prefix # None
      BY Zenon, <2>3, <2>4 DEF QueryInv, Good
    <3> HIDE DEF z
    <3>2. \/ r.val = Unspecified /\ cfg.ia = "process"
          \/ r.val = <<z.prefix, a.val>> /\ a.val \notin cfg.ignored
      BY Zenon, <2>1, <2>2, <2>3
    <3> QED BY Zenon, <3>1, <3>2 DEF Permitted
  <2> QED BY Zenon, <2>3, <2>4
<1> QED BY Zenon, <1>1, <1>2 DEF Full

\* A hit is as fit as the entry: get changes nothing but TTLs.
LEMMA HitFit ==
  ASSUME ItemsFit, NEW k \in DOMAIN items, rl.pc = "idle", NEW r \in AAAA(ServedFromCache(k)),
         r.calm = "yes"
  PROVE  Permitted(r, k, cfg)
<1>1. r \in Get(k) /\ r.type = "AAAA"
  BY Zenon DEF AAAA, ServedFromCache, dropExcludedAAAA
<1>2. PICK s \in items[k].value : r = s \/ r = Aged(items[k], s)
  BY Zenon, <1>1 DEF Get
<1>3. IsRecord(s) /\ (s.type = "AAAA" /\ s.calm = "yes" => Permitted(s, k, cfg))
  BY Zenon DEF ItemsFit, Fit
<1>4. r.type = s.type /\ r.val = s.val /\ r.calm = s.calm
  <2>1. CASE r = s
    BY Zenon, <2>1
  <2>2. CASE r = Aged(items[k], s)
    <3>1. PICK t : r = [s EXCEPT !.ttl = t]
      BY ZenonT(60), <2>2 DEF Aged
    <3>2. s = [type |-> s.type, val |-> s.val, ttl |-> s.ttl, born |-> s.born, life |-> s.life,
               calm |-> s.calm]
      BY Zenon, <1>3 DEF IsRecord
    <3>3. r = [type |-> s.type, val |-> s.val, ttl |-> t, born |-> s.born, life |-> s.life,
               calm |-> s.calm]
      BY Zenon, <3>1, <3>2
    <3> QED BY Zenon, <3>3
  <2> QED BY Zenon, <1>2, <2>1, <2>2
<1> QED BY Zenon, <1>1, <1>3, <1>4 DEF Permitted

\* A query's step keeps answers and cache fit.
LEMMA PolicyQuery ==
  ASSUME QueryInv, PolicyInv, NEW i \in Client, HandleVia(i) \/ QueryStep(i)
  PROVE  PolicyInv'
<1>0. UNCHANGED <<cfg, rl>>
  BY Zenon, StepKinds
<1>1. ItemsFit /\ \A j \in Client : AnswerFit(j)
  BY Zenon DEF PolicyInv
<1>2. ASSUME NEW q, Set1(i, q), AnswerFit(i)' PROVE \A j \in Client : AnswerFit(j)'
  <2>1. ASSUME NEW j \in Client, j # i PROVE AnswerFit(j)'
    <3>1. query'[j] = query[j]
      BY Zenon, <1>2, <2>1, SetIs
    <3> QED BY <1>0, <1>1, <3>1 DEF AnswerFit, FromZone, Permitted, AAAA
  <2> QED BY Zenon, <1>2, <2>1
<1>3. ASSUME NEW rrs, NEW from, Respond(i, "ok", rrs, from),
             query[i].calm = "yes" =>
               \A r \in AAAA(rrs) : r.calm = "yes" => Permitted(r, query[i].name, cfg)
      PROVE  \A j \in Client : AnswerFit(j)'
  <2> DEFINE q == Done(query[i].name, query[i].calm, "ok", rrs, from)
  <2>1. Set1(i, q)
    BY Zenon, <1>3 DEF Respond
  <2>2. q.name = query[i].name /\ q.calm = query[i].calm /\ q.resp.rrs = rrs
    BY Zenon DEF Done
  <2> HIDE DEF q
  <2>3. query'[i] = q
    BY Zenon, <2>1, SetIs
  <2>4. AnswerFit(i)'
    BY <1>0, <1>3, <2>2, <2>3 DEF AnswerFit, FromZone, Permitted, AAAA
  <2> QED BY Zenon, <1>2, <2>1, <2>4
<1>4. CASE Moves(i) /\ items' = items
  <2>1. PICK q : Set1(i, q) /\ q.pc # "done"
    BY Zenon, <1>4 DEF Moves
  <2>2. query'[i] = q
    BY Zenon, <2>1, SetIs
  <2>3. AnswerFit(i)'
    BY Zenon, <2>1, <2>2 DEF AnswerFit, FromZone
  <2>4. ItemsFit'
    BY <1>0, <1>1, <1>4 DEF ItemsFit, Fit, Permitted, IsRecord
  <2> QED BY Zenon, <1>2, <2>1, <2>3, <2>4 DEF PolicyInv
<1>5. CASE Bare(i) /\ items' = items
  <2>1. PICK rcode, rrs, from : Set1(i, Done(None, "no", rcode, rrs, from))
    BY Zenon, <1>5 DEF Bare, RespondBare
  <2>2. query'[i].calm = "no"
    BY <2>1, SetIs DEF Done
  <2>3. AnswerFit(i)'
    BY Zenon, <2>2 DEF AnswerFit, FromZone
  <2>4. ItemsFit'
    BY Zenon, <1>0, <1>1, <1>5 DEF ItemsFit, Fit, Permitted, IsRecord
  <2> QED BY Zenon, <1>2, <2>1, <2>3, <2>4 DEF PolicyInv
<1>6. CASE FromCache(i) /\ items' = items
  <2> DEFINE rrs == ServedFromCache(query[i].name)
  <2>1. query[i].calm = "yes" =>
          \A r \in AAAA(rrs) : r.calm = "yes" => Permitted(r, query[i].name, cfg)
    BY Zenon, <1>1, <1>6, HitFit DEF FromCache, Hit, QueryInv, Good
  <2>2. Respond(i, "ok", rrs, "cache")
    BY Zenon, <1>6 DEF FromCache
  <2> HIDE DEF rrs
  <2>3. \A j \in Client : AnswerFit(j)'
    BY Zenon, <1>3, <2>1, <2>2
  <2>4. ItemsFit'
    BY Zenon, <1>0, <1>1, <1>6 DEF ItemsFit, Fit, Permitted, IsRecord
  <2> QED BY Zenon, <2>3, <2>4 DEF PolicyInv
<1>7. ASSUME NEW rrs, NEW from, Fit(rrs, query[i].name), Set(query[i].name, rrs),
             Respond(i, "ok", rrs, from)
      PROVE  PolicyInv'
  <2>1. ItemsFit'
    BY Zenon, <1>0, <1>1, <1>7, SetFit
  <2>2. \A r \in AAAA(rrs) : r.calm = "yes" => Permitted(r, query[i].name, cfg)
    BY Zenon, <1>7 DEF Fit, AAAA
  <2> QED BY Zenon, <1>3, <1>7, <2>1, <2>2 DEF PolicyInv
<1>8. CASE FromUpstream(i)
  BY Zenon, <1>7, <1>8, NativeFit DEF FromUpstream
<1>9. CASE FromSynth(i)
  BY Zenon, <1>7, <1>9, SynthFit DEF FromSynth
<1> QED BY Zenon, <1>4, <1>5, <1>6, <1>8, <1>9, StepKinds

\* A reload marks the queries before the policy changes and empties the cache
\* before it ends; the janitor only removes.
LEMMA PolicyOther ==
  ASSUME CacheInv, QueryInv, PolicyInv,
         ReloadConfig \/ ReloadStep \/ (Janitor /\ UNCHANGED dnsVars) \/ Advance
  PROVE  PolicyInv'
<1>0. ItemsFit /\ \A i \in Client : AnswerFit(i)
  BY Zenon DEF PolicyInv
<1>1. CASE ReloadConfig
  <2>1. rl'.pc # "idle" /\ items' = items
    BY <1>1 DEF ReloadConfig, cacheVars
  <2>2. \A i \in Client : AnswerFit(i)'
    BY Zenon, <1>1, Calmed DEF ReloadConfig, AnswerFit, FromZone
  <2> QED BY Zenon, <1>0, <2>1, <2>2 DEF PolicyInv, ItemsFit, IsRecord
<1>2. CASE ReloadStep
  <2>1. rl.pc # "idle" /\ UNCHANGED <<query, cfg>>
    BY Zenon, <1>2 DEF ReloadStep, ReloadStatic, ReloadSettings, ReloadFlush
  <2>2. \A i \in Client : AnswerFit(i)'
    BY Zenon, <2>1 DEF AnswerFit, FromZone, QueryInv, Good
  <2>3. CASE ReloadFlush
    <3>1. DOMAIN items' = {}
      BY Zenon, <2>3 DEF ReloadFlush, Flush, Empty
    <3> QED BY Zenon, <2>2, <3>1 DEF PolicyInv, ItemsFit
  <2>4. CASE ReloadStatic \/ ReloadSettings
    <3>1. items' = items
      BY Zenon, <2>4 DEF ReloadStatic, ReloadSettings, cacheVars
    <3>2. rl'.pc # "idle"
      BY Zenon, <2>4 DEF ReloadStatic, ReloadSettings, CacheInv, ReloadOK
    <3> QED BY Zenon, <1>0, <2>2, <3>1, <3>2 DEF PolicyInv, ItemsFit, IsRecord
  <2> QED BY Zenon, <1>2, <2>3, <2>4 DEF ReloadStep
<1>3. CASE Janitor /\ UNCHANGED dnsVars
  <2>1. items' = Only(Live) /\ Live \subseteq DOMAIN items /\ UNCHANGED <<cfg, rl, query>>
    BY Zenon, <1>3 DEF Janitor, Live, dnsVars
  <2>2. ItemsFit'
    BY Zenon, <1>0, <2>1, OnlyFit
  <2> QED BY <1>0, <2>1, <2>2 DEF PolicyInv, AnswerFit, FromZone, Permitted, AAAA
<1>4. CASE Advance
  BY <1>0, <1>4 DEF Advance, cacheVars, dnsVars, PolicyInv, ItemsFit, Fit, IsRecord, AnswerFit,
                    FromZone, Permitted, AAAA
<1> QED BY Zenon, <1>1, <1>2, <1>3, <1>4

\* A query that runs between two reloads is answered only with AAAA records
\* the configuration in force permits for its name, if the queries that
\* obtained them ran between reloads too.
THEOREM PolicyHolds == Spec => []PolicyAfterFlush
<1>1. Init => PolicyInv
  <2> SUFFICES ASSUME Init PROVE PolicyInv
    OBVIOUS
  <2>1. ItemsFit
    <3>1. DOMAIN items = {}
      BY Zenon DEF Init, CacheInit, Empty
    <3> QED BY Zenon, <3>1 DEF ItemsFit
  <2>2. ASSUME NEW i \in Client PROVE AnswerFit(i)
    <3>1. query[i].pc = "idle"
      BY DEF Init, Idle
    <3> QED BY Zenon, <3>1 DEF AnswerFit, FromZone
  <2> QED BY Zenon, <2>1, <2>2 DEF PolicyInv
<1>2. CacheInv /\ QueryInv /\ PolicyInv /\ [Next]_vars => PolicyInv'
  <2>1. ASSUME PolicyInv, UNCHANGED vars PROVE PolicyInv'
    BY <2>1 DEF vars, cacheVars, dnsVars, PolicyInv, ItemsFit, Fit, IsRecord, AnswerFit, FromZone,
                Permitted, AAAA
  <2> QED BY Zenon, <2>1, PolicyQuery, PolicyOther DEF Next
<1>3. PolicyInv => PolicyAfterFlush
  BY Zenon DEF PolicyInv, AnswerFit, PolicyAfterFlush
<1> QED BY <1>1, <1>2, <1>3, CacheAlways, QueryAlways, PTL DEF Spec
-----------------------------------------------------------------------------
(***************************************************************************)
(* TTLs.                                                                   *)
(***************************************************************************)

\* Records obtained at time t, with the TTL they came with.
Obtained(rrs, t) ==
  \A r \in rrs : IsRecord(r) /\ r.ttl = r.life /\ r.ttl \in Nat /\ r.born = t

\* What an entry remembers of its answer: when it expires, it was stored as
\* its records were obtained, and not for longer than any of them may live.
Kept(it, t) ==
  /\ it.ttl \in Nat /\ it.expiration \in Nat
  /\ \A r \in it.value : IsRecord(r) /\ r.ttl = r.life /\ r.ttl \in Nat
  /\ it.expiration > 0 =>
       /\ it.ttl > 0 /\ it.expiration - it.ttl <= t
       /\ \A r \in it.value : r.born = it.expiration - it.ttl
       /\ Timed(it) => \A r \in it.value : it.ttl <= r.life * Second

TTLInv ==
  /\ now \in Nat /\ defaultExp \in Nat
  /\ \A k \in DOMAIN items : Kept(items[k], now)

\* minRRTTL is the least TTL of the records.
LEMMA MinIs ==
  ASSUME NEW rrs, rrs # {}, \A r \in rrs : r.ttl \in Nat
  PROVE  minRRTTL(rrs) \in {r.ttl : r \in rrs} /\ \A r \in rrs : minRRTTL(rrs) <= r.ttl
<1> DEFINE B == {r.ttl : r \in rrs}
<1>1. B \subseteq Nat /\ B # {}
  OBVIOUS
<1>2. PICK m \in B : \A k \in B : ~(<<k, m>> \in OpToRel(<, Nat))
  BY <1>1, NatLessThanWellFounded, WFMin, Zenon
<1>3. ASSUME NEW r \in rrs PROVE m <= r.ttl
  <2>1. r.ttl \in B /\ r.ttl \in Nat /\ m \in Nat
    OBVIOUS
  <2>2. ~(r.ttl < m)
    BY Zenon, <1>2, <2>1 DEF OpToRel
  <2> QED BY <2>1, <2>2
<1> QED BY Zenon, <1>3 DEF minRRTTL

\* A product is monotone, and positive for positive factors.
LEMMA Seconds ==
  ASSUME NEW a \in Nat, NEW b \in Nat, NEW s \in Nat \ {0}
  PROVE  a * s \in Nat /\ (a <= b => a * s <= b * s) /\ (a > 0 => a * s > 0)
         /\ (b + 1) * s = b * s + s
<1>1. a * s \in Nat /\ b * s \in Nat /\ (b + 1) * s = b * s + s
  OBVIOUS
<1>2. ASSUME a <= b PROVE a * s <= b * s
  <2> DEFINE d == b - a
  <2>1. d \in Nat /\ b = a + d
    BY <1>2
  <2> HIDE DEF d
  <2>2. d * s \in Nat /\ (a + d) * s = a * s + d * s
    BY <2>1
  <2> QED BY <1>1, <2>1, <2>2
<1>3. ASSUME a > 0 PROVE a * s > 0
  <2> DEFINE d == a - 1
  <2>1. d \in Nat /\ a = d + 1
    BY <1>3
  <2> HIDE DEF d
  <2>2. d * s \in Nat /\ (d + 1) * s = d * s + s
    BY <2>1
  <2> QED BY <2>1, <2>2
<1> QED BY Zenon, <1>1, <1>2, <1>3

\* set keeps an answer no longer than its records may live.
LEMMA NewKept ==
  ASSUME now \in Nat, defaultExp \in Nat, NEW rrs, Obtained(rrs, now)
  PROVE  Kept(NewItem(rrs), now)
<1> DEFINE m == minRRTTL(rrs)
           e == EffectiveTTL(rrs)
           it == NewItem(rrs)
<1>1. it.value = rrs
  BY Zenon DEF NewItem
<1>2. \A r \in rrs : IsRecord(r) /\ r.ttl = r.life /\ r.ttl \in Nat /\ r.born = now
  BY Zenon DEF Obtained
<1>3. m \in Nat /\ (rrs # {} => m \in {r.ttl : r \in rrs} /\ \A r \in rrs : m <= r.ttl)
  <2>1. CASE rrs = {}
    BY Zenon, <2>1 DEF minRRTTL
  <2>2. CASE rrs # {}
    BY <1>2, <2>2, MinIs
  <2> QED BY Zenon, <2>1, <2>2
<1> HIDE DEF m
<1>4. e = IF m * Second > 0 /\ m * Second < defaultExp THEN m * Second ELSE defaultExp
  BY Zenon DEF EffectiveTTL, m
<1>5. m * Second \in Nat /\ (m > 0 => m * Second > 0)
  BY Zenon, <1>3, Seconds
<1> HIDE DEF e
<1>6. CASE defaultExp = 0
  <2>1. it.expiration = 0 /\ it.ttl = 0
    BY <1>6 DEF NewItem
  <2> HIDE DEF it
  <2>2. Kept(it, now)
    BY <1>1, <1>2, <2>1 DEF Kept
  <2> QED BY Zenon, <2>2 DEF it
<1>7. CASE defaultExp > 0
  <2>1. it.expiration = now + e /\ it.ttl = e
    BY Zenon, <1>7 DEF NewItem, e
  <2> HIDE DEF it
  <2>2. e \in Nat /\ e > 0 /\ it.expiration \in Nat /\ it.expiration - it.ttl = now
    BY <1>4, <1>5, <1>7, <2>1
  <2>3. ASSUME Timed(it), NEW r \in rrs PROVE e <= r.life * Second
    <3>1. \A s \in rrs : s.ttl \in Nat /\ s.ttl > 0
      BY Zenon, <1>1, <1>2, <2>3 DEF Timed
    <3>2. m > 0 /\ m <= r.ttl /\ r.ttl = r.life /\ r.ttl \in Nat
      BY Zenon, <1>2, <1>3, <2>3, <3>1
    <3>3. m * Second <= r.ttl * Second /\ r.ttl * Second \in Nat
      BY Zenon, <1>3, <3>2, Seconds
    <3>4. e <= m * Second
      BY <1>4, <1>5, <1>7, <3>2
    <3> QED BY <1>5, <2>2, <3>2, <3>3, <3>4
  <2>4. Kept(it, now)
    BY <1>1, <1>2, <2>1, <2>2, <2>3 DEF Kept
  <2> QED BY Zenon, <2>4 DEF it
<1> QED BY <1>6, <1>7

\* The records of an upstream answer, filtered or synthesised from, have just
\* been obtained.
LEMMA JustObtained ==
  ASSUME QueryInv, NEW i \in Client
  PROVE  /\ \A u \in UpAAAA : Obtained(Native(u, i), now)
         /\ \A u \in UpA : Obtained(Full(u, i), now)
<1>1. ASSUME NEW u \in UpAAAA \cup UpA, NEW r \in Arrived(u, i)
      PROVE  IsRecord(r) /\ r.ttl = r.life /\ r.ttl \in Nat /\ r.born = now
  <2>1. PICK a \in u.rrs : r = [type |-> a.type, val |-> a.val, ttl |-> a.ttl, born |-> now,
                                life |-> a.ttl, calm |-> query[i].calm]
    BY Zenon, <1>1 DEF Arrived
  <2>2. a.ttl \in Nat
    OBVIOUS
  <2> QED BY Zenon, <2>1, <2>2 DEF IsRecord
<1>2. ASSUME NEW u \in UpAAAA PROVE Obtained(Native(u, i), now)
  <2>1. Native(u, i) \subseteq Arrived(u, i)
    BY Zenon DEF Native, filterAAAA, dropExcludedAAAA
  <2> QED BY Zenon, <1>1, <2>1 DEF Obtained
<1>3. ASSUME NEW u \in UpA, NEW r \in Full(u, i)
      PROVE  IsRecord(r) /\ r.ttl = r.life /\ r.ttl \in Nat /\ r.born = now
  <2>1. CASE r \in NotA(Arrived(u, i))
    BY Zenon, <1>1, <2>1 DEF NotA
  <2>2. CASE r \in synthesiseFromA(Arrived(u, i), query[i].zone, query[i].maxTTL)
    <3> DEFINE t == query[i].maxTTL
    <3>1. PICK s \in Arrived(u, i) : r = SynthesisedFrom(s, query[i].zone, t)
      BY Zenon, <2>2 DEF synthesiseFromA
    <3>2. s.ttl \in Nat /\ s.born = now /\ t \in Nat
      BY Zenon, <1>1 DEF QueryInv, IsQuery
    <3>3. MinTTL(s.ttl, t) \in Nat
      BY Zenon, <3>2 DEF MinTTL
    <3> QED BY Zenon, <3>1, <3>2, <3>3 DEF SynthesisedFrom, IsRecord
  <2> QED BY Zenon, <1>3, <2>1, <2>2 DEF Full
<1> QED BY Zenon, <1>2, <1>3 DEF Obtained

\* Storing an answer just obtained keeps the entries in order.
LEMMA SetKept ==
  ASSUME TTLInv, NEW k, NEW rrs, Obtained(rrs, now), Set(k, rrs)
  PROVE  \A j \in DOMAIN items' : Kept(items'[j], now)
<1>1. PICK S \in RoomFor(k) :
        items' = [j \in S \cup {k} |-> IF j = k THEN NewItem(rrs) ELSE items[j]]
  BY Zenon DEF Set
<1>2. S \subseteq DOMAIN items
  BY Zenon DEF RoomFor, Live
<1>3. Kept(NewItem(rrs), now)
  BY Zenon, NewKept DEF TTLInv
<1>4. ASSUME NEW j \in DOMAIN items' PROVE Kept(items'[j], now)
  <2>1. items'[j] = NewItem(rrs) \/ (items'[j] = items[j] /\ j \in DOMAIN items)
    BY Zenon, <1>1, <1>2, <1>4
  <2> QED BY Zenon, <1>3, <2>1 DEF TTLInv
<1> QED BY Zenon, <1>4

\* Entries stay in order while time passes.
LEMMA KeptLater ==
  ASSUME NEW it, NEW t \in Nat, Kept(it, t)
  PROVE  Kept(it, t + 1)
<1>1. ASSUME it.expiration > 0 PROVE it.expiration - it.ttl <= t + 1
  BY <1>1 DEF Kept
<1> QED BY Zenon, <1>1 DEF Kept

\* Every step keeps the entries in order.
LEMMA TTLStep ==
  ASSUME CacheInv, QueryInv, TTLInv, [Next]_vars
  PROVE  TTLInv'
<1>0. now \in Nat /\ defaultExp \in Nat /\ \A k \in DOMAIN items : Kept(items[k], now)
  BY Zenon DEF TTLInv
<1>1. ASSUME NEW i \in Client, HandleVia(i) \/ QueryStep(i) PROVE TTLInv'
  <2>1. now' = now /\ defaultExp' = defaultExp
    BY Zenon, <1>1 DEF HandleVia, QueryStep, FindZone, CacheGet, LookupFails, GotAAAA, GotA,
        Relay, Finish,
               cacheVars
  <2>2. items' = items \/ FromUpstream(i) \/ FromSynth(i)
    BY Zenon, <1>1, StepKinds
  <2>3. \A j \in DOMAIN items' : Kept(items'[j], now)
    <3>1. CASE items' = items
      BY Zenon, <1>0, <3>1
    <3>2. CASE FromUpstream(i)
      BY Zenon, <3>2, JustObtained, SetKept DEF FromUpstream
    <3>3. CASE FromSynth(i)
      BY Zenon, <3>3, JustObtained, SetKept DEF FromSynth
    <3> QED BY Zenon, <2>2, <3>1, <3>2, <3>3
  <2> QED BY Zenon, <1>0, <2>1, <2>3 DEF TTLInv
<1>2. CASE ReloadConfig \/ ReloadStatic \/ UNCHANGED vars
  <2>1. now' = now /\ defaultExp' = defaultExp /\ items' = items
    BY Zenon, <1>2 DEF ReloadConfig, ReloadStatic, vars, cacheVars
  <2> QED BY Zenon, <1>0, <2>1 DEF TTLInv
<1>3. CASE ReloadSettings
  <2>1. now' = now /\ items' = items /\ defaultExp' \in Nat
    BY Zenon, <1>3 DEF ReloadSettings, StoreSettings, CacheInv, ReloadOK
  <2> QED BY Zenon, <1>0, <2>1 DEF TTLInv
<1>4. CASE ReloadFlush
  <2>1. now' = now /\ defaultExp' = defaultExp /\ DOMAIN items' = {}
    BY Zenon, <1>4 DEF ReloadFlush, Flush, Empty
  <2> QED BY Zenon, <1>0, <2>1 DEF TTLInv
<1>5. CASE Janitor
  <2>1. now' = now /\ defaultExp' = defaultExp
        /\ \A k \in DOMAIN items' : k \in DOMAIN items /\ items'[k] = items[k]
    BY Zenon, <1>5 DEF Janitor, Only, Live
  <2> QED BY Zenon, <1>0, <2>1 DEF TTLInv
<1>6. CASE Advance
  <2>1. now' = now + 1 /\ defaultExp' = defaultExp /\ items' = items
    BY Zenon, <1>6 DEF Advance, cacheVars
  <2>2. \A k \in DOMAIN items : Kept(items[k], now + 1)
    BY Zenon, <1>0, KeptLater
  <2> QED BY <1>0, <2>1, <2>2 DEF TTLInv
<1> QED BY Zenon, <1>1, <1>2, <1>3, <1>4, <1>5, <1>6 DEF Next, ReloadStep

\* A record of a timed entry that has not expired is returned with no more
\* than is left of its TTL.
LEMMA HitAged ==
  ASSUME TTLInv, NEW k, Hit(k), Timed(items[k]), NEW r \in Get(k)
  PROVE  now + r.ttl * Second < r.born + (r.life + 1) * Second
<1> DEFINE it == items[k]
           dec == Age(it) \div Second
<1>1. Kept(it, now) /\ now \in Nat
  BY Zenon DEF TTLInv, Hit
<1>2. it.expiration > 0 /\ it.expiration >= now /\ it.expiration \in Nat /\ it.ttl \in Nat /\ it.ttl > 0
  BY <1>1 DEF Hit, Expired, Timed, Kept
<1>3. PICK s \in it.value : r = Aged(it, s)
  BY <1>2 DEF Get
<1>4. /\ IsRecord(s) /\ s.ttl = s.life /\ s.ttl \in Nat /\ s.born = it.expiration - it.ttl
      /\ it.ttl <= s.life * Second /\ it.expiration - it.ttl <= now
  BY Zenon, <1>1, <1>2 DEF Kept
<1>5. Age(it) = now - s.born /\ Age(it) \in Nat /\ s.born \in Int
  BY <1>1, <1>2, <1>4 DEF Age
<1>6. dec \in Nat /\ Age(it) < (dec + 1) * Second
  BY <1>5
<1>7. r.ttl = (IF dec >= s.ttl THEN 0 ELSE s.ttl - dec) /\ r.born = s.born /\ r.life = s.life
  <2>1. r = [s EXCEPT !.ttl = IF dec >= @ THEN 0 ELSE @ - dec]
    BY Zenon, <1>3 DEF Aged
  <2> HIDE DEF dec
  <2>2. s = [type |-> s.type, val |-> s.val, ttl |-> s.ttl, born |-> s.born, life |-> s.life,
             calm |-> s.calm]
    BY Zenon, <1>4 DEF IsRecord
  <2> QED BY Zenon, <2>1, <2>2
<1> HIDE DEF dec
<1>8. CASE dec >= s.ttl
  <2>1. r.ttl * Second = 0 /\ s.life * Second \in Nat /\ (s.life + 1) * Second = s.life * Second + Second
    BY <1>4, <1>7, <1>8, Seconds
  <2> HIDE DEF it
  <2> QED BY <1>1, <1>2, <1>4, <1>7, <2>1
<1>9. CASE dec < s.ttl
  <2> DEFINE t == s.ttl - dec
  <2>1. t \in Nat /\ r.ttl = t /\ s.ttl = t + dec
    BY <1>4, <1>6, <1>7, <1>9
  <2> HIDE DEF t, it
  <2>2. (s.ttl + 1) * Second = t * Second + (dec + 1) * Second
        /\ t * Second \in Nat /\ (dec + 1) * Second \in Nat
    BY <1>6, <2>1
  <2>3. now - s.born < (dec + 1) * Second
    BY Zenon, <1>5, <1>6
  <2> QED BY <1>1, <1>4, <1>5, <1>7, <2>1, <2>2, <2>3
<1> QED BY <1>4, <1>6, <1>8, <1>9

\* Records just obtained are answered with the TTL they came with.
LEMMA FreshHonoured ==
  ASSUME now \in Nat, NEW rrs, Obtained(rrs, now), NEW r \in rrs
  PROVE  now + r.ttl * Second < r.born + (r.life + 1) * Second
<1>1. r.ttl = r.life /\ r.ttl \in Nat /\ r.born = now
  BY Zenon DEF Obtained
<1>2. r.ttl * Second \in Nat /\ (r.ttl + 1) * Second = r.ttl * Second + Second
  BY <1>1, Seconds
<1> QED BY <1>1, <1>2

\* What a client may keep a record for, with the time the record spent in
\* the cache, never exceeds the TTL it was obtained with, for every schedule
\* of queries, reloads and evictions; entries that are not timed excepted.
THEOREM TTLAlwaysHonoured == Spec => TTLHonoured
<1> DEFINE Honoured(i) ==
             LET a == query'[i].resp
             IN  Answers(i) /\ a.from \in FromAAAA
                 /\ (a.from = "cache" => Timed(items[query[i].name]))
                   => \A r \in a.rrs : now + r.ttl * Second < r.born + (r.life + 1) * Second
<1>1. Init => TTLInv
  BY DEF Init, CacheInit, Empty, TTLInv
<1>2. ASSUME QueryInv, TTLInv, NEW i \in Client, HandleVia(i) \/ QueryStep(i), NEW j \in Client
      PROVE  Honoured(j)
  <2> SUFFICES ASSUME Answers(j), query'[j].resp.from \in FromAAAA,
                      query'[j].resp.from = "cache" => Timed(items[query[j].name]),
                      NEW r \in query'[j].resp.rrs
               PROVE  now + r.ttl * Second < r.born + (r.life + 1) * Second
    OBVIOUS
  <2>0. j = i
    <3>1. PICK q : Set1(i, q)
      BY Zenon, <1>2, StepKinds DEF Moves, Bare, FromCache, FromUpstream, FromSynth, RespondBare,
          Respond
    <3> QED BY Zenon, <1>2, <3>1, SetIs DEF Answers
  <2>1. CASE Moves(i)
    BY Zenon, <1>2, <2>0, <2>1, SetIs DEF Moves, Answers
  <2>2. CASE Bare(i)
    <3>1. PICK rcode, rrs : \E from \in {"static", "local", "relay"} :
            Set1(i, Done(None, "no", rcode, rrs, from))
      BY Zenon, <2>2 DEF Bare, RespondBare
    <3>2. PICK from \in {"static", "local", "relay"} : query'[i] = Done(None, "no", rcode, rrs, from)
      BY Zenon, <1>2, <3>1, SetIs
    <3>3. query'[i].resp.from = from
      BY <3>2, DoneIs
    <3> QED BY Zenon, <2>0, <3>2, <3>3 DEF FromAAAA
  <2>3. CASE FromCache(i)
    <3>1. query'[i] = Done(query[i].name, query[i].calm, "ok", ServedFromCache(query[i].name), "cache")
      BY Zenon, <1>2, <2>3, SetIs DEF FromCache, Respond
    <3>2. query'[i].resp.rrs = ServedFromCache(query[i].name)
      BY <3>1, DoneIs
    <3>3. query'[i].resp.from = "cache"
      BY <3>1, DoneIs
    <3>4. r \in Get(query[i].name)
      BY Zenon, <2>0, <3>2 DEF ServedFromCache, dropExcludedAAAA
    <3>5. Hit(query[i].name) /\ Timed(items[query[i].name])
      BY Zenon, <2>0, <2>3, <3>3 DEF FromCache
    <3> QED BY Zenon, <1>2, <3>4, <3>5, HitAged
  <2>4. CASE FromUpstream(i)
    <3>1. PICK u \in UpAAAA :
            query'[i] = Done(query[i].name, query[i].calm, "ok", Native(u, i), "upstream")
      BY Zenon, <1>2, <2>4, SetIs DEF FromUpstream, Respond
    <3>2. query'[i].resp.rrs = Native(u, i)
      BY <3>1, DoneIs
    <3>3. Obtained(Native(u, i), now)
      BY Zenon, <1>2, JustObtained
    <3> QED BY Zenon, <1>2, <2>0, <3>2, <3>3, FreshHonoured DEF TTLInv
  <2>5. CASE FromSynth(i)
    <3>1. PICK u \in UpA :
            query'[i] = Done(query[i].name, query[i].calm, "ok", Full(u, i), "synth")
      BY Zenon, <1>2, <2>5, SetIs DEF FromSynth, Respond
    <3>2. query'[i].resp.rrs = Full(u, i)
      BY <3>1, DoneIs
    <3>3. Obtained(Full(u, i), now)
      BY Zenon, <1>2, JustObtained
    <3> QED BY Zenon, <1>2, <2>0, <3>2, <3>3, FreshHonoured DEF TTLInv
  <2> QED BY Zenon, <1>2, <2>1, <2>2, <2>3, <2>4, <2>5, StepKinds
<1>3. ASSUME QueryInv, ReloadConfig \/ ReloadStep \/ (Janitor /\ UNCHANGED dnsVars) \/ Advance,
             NEW j \in Client
      PROVE  Honoured(j)
  <2>1. query'[j].pc = query[j].pc
    BY Zenon, <1>3, KeepsPlace
  <2> QED BY Zenon, <2>1 DEF Answers
<1>4. CacheInv /\ QueryInv /\ TTLInv /\ [Next]_vars => TTLInv'
  BY Zenon, TTLStep
<1>5. QueryInv /\ TTLInv /\ [Next]_vars => [\A i \in Client : Honoured(i)]_vars
  BY Zenon, <1>2, <1>3 DEF Next
<1> QED BY <1>1, <1>4, <1>5, CacheAlways, QueryAlways, PTL DEF Spec, TTLHonoured
-----------------------------------------------------------------------------
(***************************************************************************)
(* The address mapping of module Pref64, with which addresses are          *)
(* synthesised: the two directions agree, for every prefix ParsePref64     *)
(* accepts and every address.                                              *)
(***************************************************************************)

\* The table of offsets: four distinct octets, none in the prefix and none
\* of them the u octet unless the length is /96.
LEMMA Offsets ==
  ASSUME NEW bits \in Lengths, NEW k \in 1..4
  PROVE  LET o == pref64V4Offsets(bits)
         IN  /\ o[k] \in 0..15
             /\ o[k] >= bits \div 8
             /\ o[k] # pref64UByte
             /\ \A j \in 1..4 : o[j] = o[k] => j = k
<1>1. CASE bits = 32 BY <1>1 DEF pref64V4Offsets, pref64UByte
<1>2. CASE bits = 40 BY <1>2 DEF pref64V4Offsets, pref64UByte
<1>3. CASE bits = 48 BY <1>3 DEF pref64V4Offsets, pref64UByte
<1>4. CASE bits = 56 BY <1>4 DEF pref64V4Offsets, pref64UByte
<1>5. CASE bits = 64 BY <1>5 DEF pref64V4Offsets, pref64UByte
<1>6. CASE bits = 96 BY <1>6 DEF pref64V4Offsets, pref64UByte
<1> QED BY Zenon, <1>1, <1>2, <1>3, <1>4, <1>5, <1>6 DEF Lengths

\* The octet of an embedded address at each offset is the IPv4 octet.
LEMMA EmbeddedOctet ==
  ASSUME NEW addr \in V6, NEW bits \in Lengths, NEW v4 \in V4, NEW k \in 1..4
  PROVE  Embed(ParsePref64(addr, bits), v4)[pref64V4Offsets(bits)[k]] = v4[k]
<1> DEFINE o == pref64V4Offsets(bits)
<1>1. o[k] \in 0..15 /\ \A j \in 1..4 : o[j] = o[k] => j = k
  BY Zenon, Offsets
<1>2. (CHOOSE j \in 1..4 : o[j] = o[k]) = k
  BY Zenon, <1>1
<1>3. InV4(bits, o[k])
  BY Zenon DEF InV4
<1>4. ParsePref64(addr, bits).bits = bits
  BY Zenon DEF ParsePref64
<1> QED
  BY Zenon, <1>1, <1>2, <1>3, <1>4 DEF Embed, embedInto

\* Outside the offsets an embedded address has the octets of the prefix.
LEMMA EmbeddedRest ==
  ASSUME NEW addr \in V6, NEW bits \in Lengths, NEW v4 \in V4, NEW i \in 0..15,
         \A k \in 1..4 : pref64V4Offsets(bits)[k] # i
  PROVE  Embed(ParsePref64(addr, bits), v4)[i] = IF i < bits \div 8 THEN addr[i] ELSE 0
<1> DEFINE p == ParsePref64(addr, bits)
<1>1. p.bits = bits /\ p.net[i] = IF i < bits \div 8 THEN addr[i] ELSE 0
  BY Zenon DEF ParsePref64
<1>2. ~InV4(bits, i)
  BY Zenon DEF InV4
<1>3. Embed(p, v4)[i] = IF i = pref64UByte /\ bits < 96 THEN 0 ELSE p.net[i]
  BY Zenon, <1>1, <1>2 DEF Embed, embedInto
<1>4. i = pref64UByte /\ bits < 96 => ~(i < bits \div 8)
  BY DEF pref64UByte, Lengths
<1> QED BY Zenon, <1>1, <1>3, <1>4

\* Reading an embedded address at the offsets gives the IPv4 address back.
LEMMA EmbeddedRead ==
  ASSUME NEW addr \in V6, NEW bits \in Lengths, NEW v4 \in V4
  PROVE  LET p == ParsePref64(addr, bits) IN AtOffsets(p, Embed(p, v4)) = v4
<1> DEFINE p == ParsePref64(addr, bits)
           a == Embed(p, v4)
           o == pref64V4Offsets(bits)
<1>1. \A k \in 1..4 : a[o[k]] = v4[k]
  BY Zenon, EmbeddedOctet
<1>2. AtOffsets(p, a) = [k \in 1..4 |-> a[o[k]]]
  BY Zenon DEF AtOffsets, ParsePref64
<1> HIDE DEF a
<1>3. AtOffsets(p, a) = v4
  BY Zenon, <1>1, <1>2 DEF V4
<1> QED BY Zenon, <1>3 DEF a

\* An embedded address is an IPv4-mapped one only in the pools ::/56 and ::/64.
LEMMA EmbeddedMapped ==
  ASSUME NEW addr \in V6, NEW bits, Valid(addr, bits), NEW v4 \in V4,
         V4Mapped(Embed(ParsePref64(addr, bits), v4))
  PROVE  bits \in {56, 64} /\ \A i \in 0..(bits \div 8 - 1) : addr[i] = 0
<1> DEFINE a == Embed(ParsePref64(addr, bits), v4)
           o == pref64V4Offsets(bits)
<1>1. bits \in Lengths /\ ~V4Mapped(addr)
  BY Zenon DEF Valid
<1>2. \A i \in 0..15 : (\A k \in 1..4 : o[k] # i) =>
        a[i] = IF i < bits \div 8 THEN addr[i] ELSE 0
  BY Zenon, <1>1, EmbeddedRest
<1>3. (\A i \in 0..9 : a[i] = 0) /\ a[10] = 255 /\ a[11] = 255
  BY Zenon DEF V4Mapped
<1> HIDE DEF a
<1>4. bits # 32 /\ bits # 40 /\ bits # 48
  <2>1. bits = 32 => a[10] = 0
    BY <1>2 DEF pref64V4Offsets
  <2>2. bits = 40 => a[10] = 0
    BY <1>2 DEF pref64V4Offsets
  <2>3. bits = 48 => a[11] = 0
    BY <1>2 DEF pref64V4Offsets
  <2> QED BY <1>3, <2>1, <2>2, <2>3
<1>5. bits # 96
  <2>1. ASSUME bits = 96, NEW i \in 0..11 PROVE a[i] = addr[i]
    BY <1>2, <2>1 DEF pref64V4Offsets
  <2>2. bits = 96 => V4Mapped(addr)
    BY <1>3, <2>1 DEF V4Mapped
  <2> QED BY <1>1, <2>2
<1>6. bits \in {56, 64}
  BY <1>1, <1>4, <1>5 DEF Lengths
<1>7. ASSUME NEW i \in 0..(bits \div 8 - 1) PROVE addr[i] = 0
  <2>1. i \in 0..9 /\ i < bits \div 8 /\ i < 8
    BY <1>6
  <2>2. \A k \in 1..4 : o[k] # i
    BY <1>6, <2>1 DEF pref64V4Offsets
  <2> QED BY <1>2, <1>3, <2>1, <2>2
<1> QED BY Zenon, <1>6, <1>7

\* Extract undoes Embed: the address DNS64 hands out for an A record of a
\* zone leads NAT64, configured with the same prefix, to that very IPv4
\* address, and neither the test of the pool nor the check for the canonical
\* form rejects it.  The pools ::/56 and ::/64 are excepted: there the embedded
\* address may be an IPv4-mapped one, which net.IPNet.Contains disowns.
THEOREM EmbedExtract ==
  ASSUME NEW addr \in V6, NEW bits, Valid(addr, bits), NEW v4 \in V4,
         bits \in {56, 64} => \E i \in 0..(bits \div 8 - 1) : addr[i] # 0
  PROVE  LET p == ParsePref64(addr, bits)
         IN  Extracts(p, Embed(p, v4)) /\ Extract(p, Embed(p, v4)) = v4
<1> DEFINE p == ParsePref64(addr, bits)
           a == Embed(p, v4)
           o == pref64V4Offsets(bits)
<1>0. bits \in Lengths
  BY Zenon DEF Valid
<1>1. p.bits = bits /\ p.net = [i \in 0..15 |-> IF i < bits \div 8 THEN addr[i] ELSE 0]
  BY Zenon DEF ParsePref64
<1>2. AtOffsets(p, a) = v4
  BY Zenon, <1>0, EmbeddedRead
<1>3. ASSUME NEW i \in 0..15, i < bits \div 8 PROVE a[i] = p.net[i]
  <2>1. \A k \in 1..4 : o[k] # i
    <3>1. \A k \in 1..4 : o[k] \in 0..15 /\ o[k] >= bits \div 8
      BY Zenon, <1>0, Offsets
    <3>2. bits \div 8 \in Int
      BY <1>0 DEF Lengths
    <3> HIDE DEF o
    <3> QED BY <1>3, <3>1, <3>2
  <2>2. a[i] = addr[i]
    BY Zenon, <1>0, <1>3, <2>1, EmbeddedRest
  <2> QED BY Zenon, <1>1, <1>3, <2>2
<1>4. ~V4Mapped(a)
  BY Zenon, EmbeddedMapped
<1> QED
  BY Zenon, <1>1, <1>2, <1>3, <1>4 DEF Extracts, Extract, Contains, Embed

\* No two IPv4 addresses share a pool address: a reply or a session can be
\* attributed to exactly one IPv4 destination.
THEOREM EmbedInjective ==
  ASSUME NEW addr \in V6, NEW bits \in Lengths, NEW v \in V4, NEW w \in V4,
         Embed(ParsePref64(addr, bits), v) = Embed(ParsePref64(addr, bits), w)
  PROVE  v = w
BY EmbeddedRead

\* What ParsePref64 accepts as a prefix is an address that Extract accepts:
\* the validation of the u octet and the suffix at load time and the check
\* for the canonical form on the data path agree.
THEOREM ValidExtracts ==
  ASSUME NEW addr \in V6, NEW bits, Valid(addr, bits)
  PROVE  Extracts(ParsePref64(addr, bits), addr)
<1> DEFINE p == ParsePref64(addr, bits)
           o == pref64V4Offsets(bits)
           e == embedInto(p, AtOffsets(p, addr))
<1>1. bits \in Lengths
  BY Zenon DEF Valid
<1>2. p.bits = bits /\ p.net = [i \in 0..15 |-> IF i < bits \div 8 THEN addr[i] ELSE 0]
  BY Zenon DEF ParsePref64
<1>3. ASSUME NEW i \in 0..15 PROVE e[i] = addr[i]
  <2>1. CASE InV4(bits, i)
    <3>1. PICK k \in 1..4 : o[k] = i
      BY Zenon, <2>1 DEF InV4
    <3>2. (CHOOSE j \in 1..4 : o[j] = i) = k
      BY Zenon, <1>1, <3>1, Offsets
    <3>3. AtOffsets(p, addr)[k] = addr[i]
      BY Zenon, <1>2, <3>1 DEF AtOffsets
    <3> QED BY ZenonT(60), <1>2, <2>1, <3>2, <3>3 DEF embedInto
  <2>2. CASE ~InV4(bits, i)
    <3>1. i >= bits \div 8 => addr[i] = 0
      BY <1>1, <2>2 DEF Valid, Lengths
    <3>2. i = pref64UByte /\ bits < 96 => i >= bits \div 8
      BY <1>1 DEF pref64UByte, Lengths
    <3>3. e[i] = IF i = pref64UByte /\ bits < 96 THEN 0 ELSE p.net[i]
      BY Zenon, <1>2, <2>2 DEF embedInto
    <3>4. p.net[i] = addr[i]
      BY <1>1, <1>2, <3>1 DEF Lengths
    <3> HIDE DEF e
    <3> QED BY Zenon, <3>1, <3>2, <3>3, <3>4
  <2> QED BY Zenon, <2>1, <2>2
<1>4. e = addr
  <2>1. e = [i \in 0..15 |-> e[i]]
    BY DEF embedInto
  <2> HIDE DEF e
  <2> QED BY Zenon, <1>3, <2>1 DEF V6
<1>5. Contains(p, addr)
  BY Zenon, <1>2 DEF Contains, Valid
<1> QED BY Zenon, <1>4, <1>5 DEF Extracts

\* Distinct pools of the same length have no address in common that either
\* extracts: the pool of a destination is unambiguous.
THEOREM PoolsDisjoint ==
  ASSUME NEW bits \in Lengths, NEW addr \in V6, NEW other \in V6, NEW a \in V6,
         Extracts(ParsePref64(addr, bits), a), Extracts(ParsePref64(other, bits), a)
  PROVE  ParsePref64(addr, bits) = ParsePref64(other, bits)
<1>1. \A i \in 0..15 : i < bits \div 8 => addr[i] = other[i]
  BY Zenon DEF Extracts, Contains, ParsePref64
<1> QED BY Zenon, <1>1 DEF ParsePref64
==============================================================================
