-------------------------------- MODULE Config --------------------------------
(***************************************************************************)
(* AppConfig, the configuration of the two services                        *)
(* (src/src/config/config.go): what Validate accepts and fills in, the     *)
(* override of the node's key, and the views the services are built from   *)
(* and reloaded with (service.go, server.go).                              *)
(*                                                                         *)
(* A list of addresses or networks is a set of entries, Bad being one that *)
(* does not parse.  Words are compared in lower case by the code and are   *)
(* in lower case here.  A key of Dns64Static is a name and its spelling.   *)
(***************************************************************************)
EXTENDS Integers, FiniteSets

CONSTANTS
  Prefix,         \* well-formed NAT64 prefixes
  DerivedPrefix,  \* the one derived from YDN64_PRIVATE_KEY
  Bad,            \* a value that does not parse
  Nil            \* nil

DefaultIgnoredDstSubnets == {"private and reserved networks"}

ASSUME ConfigAssumption ==
  /\ DerivedPrefix \in Prefix /\ Nil \notin Prefix
  /\ Bad \notin Prefix \cup DefaultIgnoredDstSubnets \cup {""}

\* Numeric keys of each service: default, and least value accepted when set.
Nat64Default ==
  [Nat64UdpTimeout |-> 300, Nat64TcpTimeout |-> 7440, Nat64MaxTCPConnections |-> 1024,
   Nat64MaxUDPSessions |-> 4096, Nat64MaxUDPSessionsPerSrc |-> 256,
   Nat64MaxTCPConnectionsSrc |-> 128]
Nat64Floor == [Nat64Default EXCEPT !.Nat64UdpTimeout = 120]
Dns64Default ==
  [Dns64CacheExpiration |-> 300, Dns64CachePurge |-> 600, Dns64MaxCacheEntries |-> 4096,
   Dns64MaxConcurrentQueries |-> 512, Dns64RateLimit |-> 50]

NatKey == DOMAIN Nat64Default
DnsKey == DOMAIN Dns64Default
TimeoutKey == {"Nat64UdpTimeout", "Nat64TcpTimeout"}

FilterMode == {"address-dependent", "address-and-port-dependent", "endpoint-independent"}
Parity == {"preserve", "do-not-preserve"}
IAWord == {"ignore", "process", "discard"}

ConfigKey ==
  {"AllowedSources", "IgnoredDstSubnets", "Dns64AAAAExcludedSubnets", "Nat64Enable",
   "Nat64Pool", "nat64", "Nat64UdpFiltering", "Nat64PortParity", "Dns64Enable",
   "Dns64Listen", "Dns64Default", "dns64", "Dns64InvalidAddress", "Dns64Zones",
   "Dns64Static"}

\* c is an AppConfig: it has every key, and numbers where they belong.
AppConfig(c) ==
  /\ c = [k \in ConfigKey |-> c[k]]
  /\ c.nat64 \in [NatKey -> Int]
  /\ c.dns64 \in [DnsKey -> Int]
-----------------------------------------------------------------------------
(***************************************************************************)
(* Validate.                                                               *)
(***************************************************************************)
ZoneInvalid(z) ==
  \/ z.prefix # "" /\ z.ipv6
  \/ z.domains = {}
  \/ z.prefix = Bad
  \/ z.forwarder = Bad

\* Two names that differ only in spelling, an empty name, or a bad address.
StaticInvalid(static) ==
  \/ \E e \in static : e.name = "" \/ e.addr = Bad
  \/ \E e, f \in static : e # f /\ e.name = f.name

Nat64Invalid(c) ==
  \/ c.Nat64Pool \notin Prefix
  \/ \E k \in TimeoutKey : 0 < c.nat64[k] /\ c.nat64[k] < Nat64Floor[k]
  \/ c.Nat64UdpFiltering \notin FilterMode \cup {""}
  \/ c.Nat64PortParity \notin Parity \cup {""}

Dns64Invalid(c) ==
  \/ c.Dns64Default \in {"", Bad}
  \/ c.Dns64InvalidAddress \notin IAWord \cup {""}
  \/ \E z \in c.Dns64Zones : ZoneInvalid(z)
  \/ StaticInvalid(c.Dns64Static)

Invalid(c) ==
  \/ Bad \in c.AllowedSources
  \/ c.IgnoredDstSubnets # Nil /\ Bad \in c.IgnoredDstSubnets
  \/ Bad \in c.Dns64AAAAExcludedSubnets
  \/ c.Nat64Enable /\ Nat64Invalid(c)
  \/ c.Dns64Enable /\ Dns64Invalid(c)

Or(word, default) == IF word = "" THEN default ELSE word

Positive(values, default) ==
  [k \in DOMAIN default |-> IF values[k] <= 0 THEN default[k] ELSE values[k]]

Normalised(static) == {[name |-> e.name, spelling |-> "plain", addr |-> e.addr] : e \in static}

\* What Validate makes of a configuration it accepts.  The keys of a service
\* that is not enabled are left alone.
Filled(c) ==
  LET n == c.Nat64Enable
      d == c.Dns64Enable
  IN [c EXCEPT
       !.IgnoredDstSubnets = IF @ = Nil THEN DefaultIgnoredDstSubnets ELSE @,
       !.nat64 = IF n THEN Positive(@, Nat64Default) ELSE @,
       !.Nat64UdpFiltering = IF n THEN Or(@, "address-dependent") ELSE @,
       !.Nat64PortParity = IF n THEN Or(@, "preserve") ELSE @,
       !.dns64 = IF d THEN Positive(@, Dns64Default) ELSE @,
       !.Dns64InvalidAddress = IF d THEN Or(@, "ignore") ELSE @,
       !.Dns64Static = IF d THEN Normalised(@) ELSE @]

ApplyPrivateKeyOverride(c) ==
  [c EXCEPT !.Nat64Pool = DerivedPrefix,
            !.Dns64Listen = "derived",
            !.Dns64Zones = {[domains |-> {"."}, prefix |-> DerivedPrefix,
                             ipv6 |-> FALSE, forwarder |-> ""]}]
-----------------------------------------------------------------------------
(***************************************************************************)
(* What the services keep.                                                 *)
(***************************************************************************)
ParseIPNets(entries) == entries \ {Bad}

\* parseUDPFilterMode, parsePortParity: anything else is the default.
Mode(word, modes, default) == IF word \in modes THEN word ELSE default

\* nat64Settings, from the NAT64 view; Enable is the view's own.
Nat64Settings(c) ==
  [Enable |-> c.Nat64Enable,
   allowedNets |-> ParseIPNets(c.AllowedSources),
   ignoredDstNets |-> ParseIPNets(c.IgnoredDstSubnets),
   limits |-> [k \in NatKey \ {"Nat64MaxTCPConnections"} |-> c.nat64[k]],
   udpFiltering |-> Mode(c.Nat64UdpFiltering, FilterMode, "address-dependent"),
   portParity |-> Mode(c.Nat64PortParity, Parity, "preserve")]

parseIAFails(c) == c.Dns64InvalidAddress \notin IAWord \cup {""}

\* A prefix that does not parse leaves a zone without one.
buildZones(zones) == {[z EXCEPT !.prefix = IF @ = Bad THEN "" ELSE @] : z \in zones}

\* The table of static answers; of two entries for a name, the one visited last.
parseStaticEntries(static) ==
  LET good == {e \in static : e.name # "" /\ e.addr # Bad}
  IN  [n \in {e.name : e \in good} |-> (CHOOSE e \in good : e.name = n).addr]

Dns64Settings(c) ==
  [Enable |-> c.Dns64Enable,
   allowedNets |-> ParseIPNets(c.AllowedSources),
   ignoredDstNets |-> ParseIPNets(c.IgnoredDstSubnets),
   default |-> c.Dns64Default,
   zones |-> buildZones(c.Dns64Zones),
   ia |-> Or(c.Dns64InvalidAddress, "ignore"),
   excluded |-> ParseIPNets(c.Dns64AAAAExcludedSubnets),
   static |-> parseStaticEntries(c.Dns64Static),
   limits |-> [k \in DnsKey \ {"Dns64MaxConcurrentQueries"} |-> c.dns64[k]]]
=============================================================================
