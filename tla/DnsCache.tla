------------------------------- MODULE DnsCache -------------------------------
(***************************************************************************)
(* The answer cache of src/dns64/cache.go.  Its methods run under the      *)
(* cache's lock, so each is one step: set, get, the janitor's pass and the *)
(* flush of Reload.  An answer is a set of records; their order is left    *)
(* out.                                                                    *)
(***************************************************************************)
EXTENDS Integers, FiniteSets

CONSTANTS
  Key,      \* cacheKey: questions
  RR,       \* records, with at least a ttl field in seconds
  Second,   \* clock ticks per second
  MaxTime   \* bound on the clock

ASSUME CacheConstants ==
  /\ \A r \in RR : r.ttl \in Nat
  /\ Second \in Nat \ {0} /\ MaxTime \in Nat
  /\ IsFiniteSet(Key)

VARIABLES
  now,
  items,      \* c.items: a function on the cached keys
  defaultExp, \* c.defaultExp
  maxEntries  \* c.maxEntries

cacheVars == <<items, defaultExp, maxEntries>>

Item == [value : SUBSET RR, expiration : Nat, ttl : Nat]

Empty == [k \in {} |-> {}]

CacheInit(exp, max) ==
  /\ now = 0
  /\ items = Empty
  /\ defaultExp = exp
  /\ maxEntries = IF max > 0 THEN max ELSE 0

minRRTTL(rrs) ==
  IF rrs = {} THEN 0
  ELSE CHOOSE t \in {r.ttl : r \in rrs} : \A r \in rrs : t <= r.ttl

\* How long set keeps an answer, when entries expire at all.
EffectiveTTL(rrs) ==
  LET m == minRRTTL(rrs) * Second
  IN  IF m > 0 /\ m < defaultExp THEN m ELSE defaultExp

NewItem(rrs) ==
  IF defaultExp > 0
  THEN [value |-> rrs, expiration |-> now + EffectiveTTL(rrs), ttl |-> EffectiveTTL(rrs)]
  ELSE [value |-> rrs, expiration |-> 0, ttl |-> 0]

Expired(it) == it.expiration > 0 /\ now > it.expiration

Live == {k \in DOMAIN items : ~Expired(items[k])}

Only(S) == [k \in S |-> items[k]]

\* Mutant of RoomFor: expired entries are purged but nothing is evicted.
RoomForPurged(k) ==
  IF maxEntries = 0 \/ Cardinality(DOMAIN items) < maxEntries \/ k \in DOMAIN items
  THEN {DOMAIN items} ELSE {Live}

\* The sets of entries makeRoomLocked may keep before k is inserted.
RoomFor(k) ==
  IF maxEntries = 0 \/ Cardinality(DOMAIN items) < maxEntries \/ k \in DOMAIN items
  THEN {DOMAIN items}
  ELSE IF Cardinality(Live) < maxEntries THEN {Live} ELSE {Live \ {v} : v \in Live}

Set(k, rrs) ==
  \E S \in RoomFor(k) :
    items' = [j \in S \cup {k} |-> IF j = k THEN NewItem(rrs) ELSE items[j]]

Age(it) == LET e == it.ttl - (it.expiration - now) IN IF e < 0 THEN 0 ELSE e

\* Mutant of Aged: the records are returned as they were stored.
AgedNot(it, r) == r

\* The copy of a record that get returns.
Aged(it, r) ==
  LET dec == Age(it) \div Second
  IN  [r EXCEPT !.ttl = IF dec >= @ THEN 0 ELSE @ - dec]

Hit(k) == k \in DOMAIN items /\ ~Expired(items[k])

Get(k) ==
  LET it == items[k]
  IN  IF it.ttl <= 0 \/ it.expiration <= 0 THEN it.value
      ELSE {Aged(it, r) : r \in it.value}

Janitor ==
  /\ items' = Only(Live)
  /\ UNCHANGED <<now, defaultExp, maxEntries>>

\* Reload stores the settings first and flushes last.
StoreSettings(exp, max) ==
  /\ defaultExp' = exp
  /\ maxEntries' = IF max > 0 THEN max ELSE maxEntries

Flush == items' = Empty
=============================================================================
