-------------------------------- MODULE Dns64 --------------------------------
(***************************************************************************)
(* Query handling of src/dns64/proxy.go over the answer cache, with the    *)
(* reload of Service.Reload running beside it.  A query reads the static   *)
(* table, the zone table and the exclusion set at different moments, keeps *)
(* its zone across two upstream lookups, and only then fills the cache.    *)
(*                                                                         *)
(* What the forwarder answers is arbitrary, so which forwarder is asked    *)
(* and over which transport is left out.  A record carries, for the        *)
(* properties only, when it was obtained (born), the TTL it was answered   *)
(* with at that time (life) and whether the query that obtained it had     *)
(* seen no reload (calm).                                                  *)
(***************************************************************************)
EXTENDS DnsCache, Sequences

CONSTANTS
  Client,   \* concurrent query goroutines
  Name,     \* queried names: sequences of labels
  Arpa,     \* ipv4only.arpa
  Configs,  \* the configurations a reload can install
  UpAAAA,   \* what a forwarder may answer to an AAAA query
  UpA,      \* what a forwarder may answer to an A query
  ArpaIPs,  \* ipv4OnlyARPAIPs
  Unspecified,
  None

\* other: any other type or class.  A PTR answer is relayed with its names
\* rewritten; the rewriting is left out.
QType == {"AAAA", "ANY", "A", "other"}

\* config.AppConfig, as far as DNS64 reads it: a zone has domains (<< >> is
\* the root), a prefix or None, and the two pass-through flags.
ASSUME Dns64Constants ==
  /\ \A c \in Configs :
       /\ c.exp \in Nat /\ c.max \in Nat
       /\ c.ia \in {"ignore", "process", "discard"}
       /\ DOMAIN c.static \subseteq Name
       /\ \A i \in DOMAIN c.zones : c.zones[i].domains \subseteq Seq(STRING)
  /\ \A u \in UpAAAA \cup UpA :   \* soa: the SOA's TTL, 600 without an SOA
       u.rcode \in {"ok", "nx", "fail"} /\ u.soa \in Nat /\ \A r \in u.rrs : r.ttl \in Nat
  /\ \A u \in UpA : \A r \in u.rrs : r.type # "AAAA"
  /\ Key = Name

VARIABLES
  cfg,     \* p.cfg
  static,  \* p.static
  rl,      \* the reload in progress: its step and its configuration
  query    \* the query goroutines

dnsVars == <<cfg, static, rl, query>>
vars == <<now, cacheVars, dnsVars>>

Idle == [pc |-> "idle", name |-> None, route |-> None, zone |-> None, maxTTL |-> 0,
         calm |-> "no", resp |-> None]

Init ==
  \E c \in Configs :
    /\ CacheInit(c.exp, c.max)
    /\ cfg = c /\ static = c.static
    /\ rl = [pc |-> "idle", to |-> None]
    /\ query = [i \in Client |-> Idle]
-----------------------------------------------------------------------------
(***************************************************************************)
(* Zones and records.                                                      *)
(***************************************************************************)
Suffix(d, name) == LET m == Len(name) - Len(d)
                   IN  m >= 0 /\ SubSeq(name, m + 1, Len(name)) = d

Matches(z, name) == \E d \in z.domains : d # << >> /\ Suffix(d, name)

\* The first zone with a matching domain, else the last catch-all.
matchZone(zones, name) ==
  LET exact == {i \in DOMAIN zones : Matches(zones[i], name)}
      roots == {i \in DOMAIN zones : << >> \in zones[i].domains}
  IN  IF exact # {} THEN zones[CHOOSE i \in exact : \A j \in exact : i <= j]
      ELSE IF roots # {} THEN zones[CHOOSE i \in roots : \A j \in roots : j <= i]
      ELSE None

blocked(z) == z.prefix = None /\ ~z.v4 /\ ~z.v6

AAAA(rrs) == {r \in rrs : r.type = "AAAA"}

containsAAAA(rrs) == AAAA(rrs) # {}

dropExcludedAAAA(rrs) == {r \in rrs : r.type = "AAAA" => r.val \notin cfg.excluded}

filterAAAA(rrs, z) ==
  {r \in dropExcludedAAAA(rrs) :
     r.type = "AAAA" => IF r.val = Unspecified THEN cfg.ia = "process" ELSE z.v6}

MinTTL(a, b) == IF a < b THEN a ELSE b

\* A synthesised record: the address is the pair of the prefix and the IPv4
\* address, or [::] for 0.0.0.0 under the process policy.
SynthesisedFrom(r, z, maxTTL) ==
  [type |-> "AAAA", ttl |-> MinTTL(r.ttl, maxTTL), born |-> r.born,
   life |-> MinTTL(r.ttl, maxTTL), calm |-> r.calm,
   val |-> IF r.val = Unspecified /\ cfg.ia = "process" THEN r.val ELSE <<z.prefix, r.val>>]

synthesiseFromA(rrs, z, maxTTL) ==
  {SynthesisedFrom(r, z, maxTTL) :
     r \in {s \in rrs : /\ s.type = "A"
                        /\ s.val = Unspecified => cfg.ia # "discard"
                        /\ \/ s.val = Unspecified /\ cfg.ia = "process"
                           \/ s.val \notin cfg.ignored}}

NotA(rrs) == {r \in rrs : r.type # "A"}

\* The records of an upstream answer, as they are when it arrives.
Arrived(u, i) ==
  {[type |-> r.type, val |-> r.val, ttl |-> r.ttl, born |-> now, life |-> r.ttl,
    calm |-> query[i].calm] : r \in u.rrs}

Local(type, val, ttl) == [type |-> type, val |-> val, ttl |-> ttl]
-----------------------------------------------------------------------------
(***************************************************************************)
(* handleVia.                                                              *)
(***************************************************************************)
Set1(i, q) == query' = [query EXCEPT ![i] = q]

\* What a query with zone z keeps from step to step: pc says where it is.
At(i, pc, z, maxTTL) ==
  [pc |-> pc, name |-> query[i].name, route |-> None, zone |-> z, maxTTL |-> maxTTL,
   calm |-> query[i].calm, resp |-> None]

\* The response leaves; from tells where its records come from.
Done(name, calm, rcode, rrs, from) ==
  [pc |-> "done", name |-> name, route |-> None, zone |-> None, maxTTL |-> 0, calm |-> calm,
   resp |-> [rcode |-> rcode, rrs |-> rrs, from |-> from]]

\* A response of handleAAAA, and one of every other kind, of which nothing
\* but the answer is remembered.
Respond(i, rcode, rrs, from) == Set1(i, Done(query[i].name, query[i].calm, rcode, rrs, from))
RespondBare(i, rcode, rrs, from) == Set1(i, Done(None, "no", rcode, rrs, from))

\* Which handler a question of type t goes to.  cddo: the client validates
\* (dnssecValidatingClient), and its AAAA and ANY queries are relayed
\* untouched; every other ANY is handled as AAAA.
Route(t, cddo) ==
  IF t \in {"AAAA", "ANY"} /\ ~cddo THEN "cache"
  ELSE IF t = "A" THEN "a" ELSE "pass"

StaticFamily(addr) == IF addr.v4 THEN {"A"} ELSE {"AAAA", "ANY"}

\* A query arrives and is looked up in the static table first.  calm: no
\* reload is under way, and none has begun since.
HandleVia(i) ==
  /\ query[i].pc = "idle"
  /\ \E n \in Name, t \in QType, cddo \in BOOLEAN :
       IF n \in DOMAIN static /\ t # "other"
       THEN RespondBare(i, "ok",
              {Local(IF f = "A" THEN f ELSE "AAAA", static[n].val, 300) :
                 f \in {t} \cap StaticFamily(static[n])}, "static")
       ELSE Set1(i, [pc |-> "zone", name |-> n, route |-> Route(t, cddo), zone |-> None,
                     maxTTL |-> 0, calm |-> IF rl.pc = "idle" THEN "yes" ELSE "no",
                     resp |-> None])
  /\ UNCHANGED <<now, cacheVars, cfg, static, rl>>

\* The local answer for ipv4only.arpa.
ArpaAnswer(route, z) ==
  IF route = "a" THEN {Local("A", ip, 60) : ip \in ArpaIPs}
  ELSE IF z.prefix = None THEN {}
  ELSE {Local("AAAA", <<z.prefix, ip>>, 60) : ip \in ArpaIPs}

FindZone(i) ==
  /\ query[i].pc = "zone"
  /\ LET q == query[i]
         z == matchZone(cfg.zones, q.name)
     IN  \/ /\ z = None \/ blocked(z)
            /\ RespondBare(i, "nx", {}, "local")
         \/ /\ z # None /\ ~blocked(z) /\ q.name = Arpa /\ q.route # "pass"
            /\ RespondBare(i, "ok", ArpaAnswer(q.route, z), "local")
         \/ /\ z # None /\ ~blocked(z) /\ (q.name # Arpa \/ q.route = "pass")
            /\ Set1(i, At(i, q.route, z, 0))
  /\ UNCHANGED <<now, cacheVars, cfg, static, rl>>

\* Mutant of ServedFromCache: exclusions are not applied to a hit.
ServedUnfiltered(k) == Get(k)

ServedFromCache(k) == dropExcludedAAAA(Get(k))

CacheGet(i) ==
  /\ query[i].pc = "cache"
  /\ LET k == query[i].name
     IN  IF Hit(k) /\ containsAAAA(ServedFromCache(k))
         THEN Respond(i, "ok", ServedFromCache(k), "cache")
         ELSE Set1(i, [query[i] EXCEPT !.pc = "aaaa"])
  /\ UNCHANGED <<now, cacheVars, cfg, static, rl>>

\* A lookup fails: a timeout, a dial error or a 0x20 mismatch.
LookupFails(i) ==
  /\ query[i].pc \in {"aaaa", "synth", "a", "pass"}
  /\ RespondBare(i, "fail", {}, "local")
  /\ UNCHANGED <<now, cacheVars, cfg, static, rl>>

\* The answer to the AAAA lookup: relayed and cached when usable, else the
\* basis of a synthesis.  Its RCODE only matters when it is a name error.
GotAAAA(i) ==
  /\ query[i].pc = "aaaa"
  /\ \E u \in UpAAAA :
       LET z    == query[i].zone
           rrs  == IF u.rcode = "ok" THEN filterAAAA(Arrived(u, i), z) ELSE {}
       IN  \/ /\ u.rcode = "nx"
              /\ RespondBare(i, "nx", {}, "local") /\ UNCHANGED items
           \/ /\ containsAAAA(rrs)
              /\ Set(query[i].name, rrs) /\ Respond(i, "ok", rrs, "upstream")
           \/ /\ u.rcode # "nx" /\ ~containsAAAA(rrs) /\ z.prefix = None
              /\ RespondBare(i, "ok", {}, "local") /\ UNCHANGED items
           \/ /\ u.rcode # "nx" /\ ~containsAAAA(rrs) /\ z.prefix # None
              /\ Set1(i, At(i, "synth", z, u.soa))
              /\ UNCHANGED items
  /\ UNCHANGED <<now, defaultExp, maxEntries, cfg, static, rl>>

\* The answer to the A lookup: synthesised, and cached when there is any.
GotA(i) ==
  /\ query[i].pc = "synth"
  /\ \E u \in UpA :
       LET rrs  == Arrived(u, i)
           syn  == synthesiseFromA(rrs, query[i].zone, query[i].maxTTL)
           full == NotA(rrs) \cup syn
       IN  IF u.rcode # "ok" \/ syn = {}
           THEN RespondBare(i, u.rcode, NotA(u.rrs), "relay") /\ UNCHANGED items
           ELSE Set(query[i].name, full) /\ Respond(i, "ok", full, "synth")
  /\ UNCHANGED <<now, defaultExp, maxEntries, cfg, static, rl>>

\* handleA and passThrough: the upstream answer, emptied of its records for
\* an A query of a zone that does not return IPv4 addresses.
Relay(i) ==
  /\ query[i].pc \in {"a", "pass"}
  /\ \E u \in IF query[i].pc = "a" THEN UpA ELSE UpAAAA :
       RespondBare(i, u.rcode,
                   IF query[i].pc = "a" /\ ~query[i].zone.v4 THEN {} ELSE u.rrs, "relay")
  /\ UNCHANGED <<now, cacheVars, cfg, static, rl>>

\* The goroutine is free for another query.
Finish(i) ==
  /\ query[i].pc = "done"
  /\ Set1(i, Idle)
  /\ UNCHANGED <<now, cacheVars, cfg, static, rl>>
-----------------------------------------------------------------------------
(***************************************************************************)
(* Service.Reload: the zone table, the static table, the cache settings    *)
(* and the flush are four separate steps.                                  *)
(***************************************************************************)
ReloadConfig ==
  /\ rl.pc = "idle"
  /\ \E c \in Configs \ {cfg} : cfg' = c /\ rl' = [pc |-> "static", to |-> c]
  /\ query' = [i \in Client |-> [query[i] EXCEPT !.calm = "no"]]
  /\ UNCHANGED <<now, cacheVars, static>>

ReloadStatic ==
  /\ rl.pc = "static"
  /\ static' = rl.to.static
  /\ rl' = [rl EXCEPT !.pc = "settings"]
  /\ UNCHANGED <<now, cacheVars, cfg, query>>

ReloadSettings ==
  /\ rl.pc = "settings"
  /\ StoreSettings(rl.to.exp, rl.to.max)
  /\ rl' = [rl EXCEPT !.pc = "flush"]
  /\ UNCHANGED <<now, items, cfg, static, query>>

\* Mutant of ReloadFlush: only the new bound is enforced.
ReloadTrim ==
  /\ rl.pc = "flush"
  /\ \E S \in SUBSET DOMAIN items :
       (maxEntries > 0 => Cardinality(S) <= maxEntries) /\ items' = Only(S)
  /\ rl' = [pc |-> "idle", to |-> None]
  /\ UNCHANGED <<now, defaultExp, maxEntries, cfg, static, query>>

ReloadFlush ==
  /\ rl.pc = "flush"
  /\ Flush
  /\ rl' = [pc |-> "idle", to |-> None]
  /\ UNCHANGED <<now, defaultExp, maxEntries, cfg, static, query>>

Advance ==
  /\ now < MaxTime
  /\ now' = now + 1
  /\ UNCHANGED <<cacheVars, dnsVars>>

QueryStep(i) ==
  \/ FindZone(i) \/ CacheGet(i) \/ LookupFails(i) \/ GotAAAA(i) \/ GotA(i) \/ Relay(i)
  \/ Finish(i)

ReloadStep == ReloadStatic \/ ReloadSettings \/ ReloadFlush

Next ==
  \/ \E i \in Client : HandleVia(i) \/ QueryStep(i)
  \/ ReloadConfig \/ ReloadStep
  \/ Janitor /\ UNCHANGED dnsVars
  \/ Advance

Spec == Init /\ [][Next]_vars
-----------------------------------------------------------------------------
(***************************************************************************)
(* Properties.                                                             *)
(***************************************************************************)
TypeOK ==
  /\ now \in 0..MaxTime
  /\ DOMAIN items \subseteq Key /\ \A k \in DOMAIN items : items[k] \in Item
  /\ defaultExp \in Nat /\ maxEntries \in Nat
  /\ cfg \in Configs /\ static \in {c.static : c \in Configs}
  /\ rl.pc \in {"idle", "static", "settings", "flush"} /\ rl.to \in Configs \cup {None}
  /\ \A i \in Client :
       query[i].pc \in {"idle", "zone", "cache", "aaaa", "synth", "a", "pass", "done"}

\* The cache never holds more than maxEntries answers, whatever clients ask
\* and however often the bound is lowered: only between storing a lower
\* bound and the flush of the same Reload may it be exceeded.
CacheBounded ==
  maxEntries > 0 /\ rl.pc # "flush" => Cardinality(DOMAIN items) <= maxEntries

\* The step that answers query i.
Answers(i) == query[i].pc # "done" /\ query'[i].pc = "done"

FromAAAA == {"cache", "upstream", "synth"}

\* An AAAA record of an excluded subnet is never passed on by handleAAAA,
\* not even from an answer cached before the exclusion was configured and
\* not yet flushed by the reload that brings it.
ExcludedNeverServed ==
  [][\A i \in Client :
       Answers(i) /\ query'[i].resp.from \in {"cache", "upstream"}
         => \A r \in AAAA(query'[i].resp.rrs) : r.val \notin cfg.excluded]_vars

\* The entry of an answer expires with the first of its records.  One with a
\* record of TTL zero is kept for the default expiration instead, and one
\* stored while that was zero for ever.
Timed(it) == it.expiration > 0 /\ \A r \in it.value : r.life > 0

\* No answer of handleAAAA lets a record live longer than its upstream TTL,
\* and the SOA's for a synthesised one, allows (to the second): what a client
\* may still keep it for, plus the time it spent in the cache, is within the
\* TTL it came with.  Entries that are not timed are the exception.
TTLHonoured ==
  [][\A i \in Client :
       LET a == query'[i].resp
       IN  Answers(i) /\ a.from \in FromAAAA /\ (a.from = "cache" => Timed(items[query[i].name]))
             => \A r \in a.rrs : now + r.ttl * Second < r.born + (r.life + 1) * Second]_vars

\* The AAAA record r is what the zone of name n yields under configuration c.
Permitted(r, n, c) ==
  LET z == matchZone(c.zones, n)
  IN  /\ z # None
      /\ ~blocked(z)
      /\ \/ r.val = Unspecified /\ c.ia = "process"
         \/ /\ r.val # Unspecified /\ z.v6 /\ r.val \notin c.excluded
            /\ \E u \in UpAAAA : \E a \in AAAA(u.rrs) : r.val = a.val
         \/ z.prefix # None /\ \E u \in UpA : \E a \in u.rrs :
              r.val = <<z.prefix, a.val>> /\ a.val \notin c.ignored

\* Query i began after the last reload finished and none has begun since.
FromZone(i) == query[i].pc = "done" /\ query[i].calm = "yes"
               /\ query[i].resp.from \in FromAAAA

\* A query that runs after a reload gets only what the new configuration
\* permits for the name: the flush removes every answer filtered by the old
\* zones.  Answers stored by a query that was in flight during a reload are
\* the exception, and the only one.
PolicyAfterFlush ==
  \A i \in Client : FromZone(i) =>
    \A r \in AAAA(query[i].resp.rrs) : r.calm = "yes" => Permitted(r, query[i].name, cfg)

\* The same without the exception, as the comment on dnsCache.Reload has it.
PolicyAfterReload ==
  \A i \in Client : FromZone(i) =>
    \A r \in AAAA(query[i].resp.rrs) : Permitted(r, query[i].name, cfg)
=============================================================================
