-------------------------- MODULE ProcessRateProofs --------------------------
(***************************************************************************)
(* Proofs about Config and Process: Validate is idempotent, and, for every *)
(* set of files and of environment variables, the services agree on who    *)
(* may use them, keep to the environment's list and have limits, and the   *)
(* node's key is the environment's until the file is reloaded.             *)
(*                                                                         *)
(* Proofs about RateLimit, the DNS server's limiter, for every number of   *)
(* sources and callers, every set of rates and every bound: no source is   *)
(* admitted beyond its burst and its rate, and evicting idle buckets       *)
(* changes no decision.  Each rests on an account of what a bucket holds,  *)
(* what it owes and what the elapsed time has paid, kept by every step.    *)
(***************************************************************************)
EXTENDS Process, RateLimit, TLAPS

(***************************************************************************)
(* Validate.                                                               *)
(***************************************************************************)

\* The default of every numeric key is positive.
LEMMA DefaultsPositive ==
  /\ \A k \in NatKey : Nat64Default[k] \in Int /\ Nat64Default[k] > 0
  /\ \A k \in DnsKey : Dns64Default[k] \in Int /\ Dns64Default[k] > 0
  BY DEF NatKey, DnsKey, Nat64Default, Dns64Default

\* Filling in defaults leaves only positive values, and positive values alone.
LEMMA PositiveFills ==
  ASSUME NEW default, NEW values \in [DOMAIN default -> Int],
         \A k \in DOMAIN default : default[k] \in Int /\ default[k] > 0
  PROVE  /\ Positive(values, default) \in [DOMAIN default -> Int]
         /\ \A k \in DOMAIN default : Positive(values, default)[k] > 0
         /\ (\A k \in DOMAIN default : values[k] > 0) => Positive(values, default) = values
  BY DEF Positive

\* The keys of what Validate makes of a configuration, one by one.
LEMMA FilledKeys ==
  ASSUME NEW c, AppConfig(c)
  PROVE  /\ Filled(c) = [k \in ConfigKey |-> Filled(c)[k]]
         /\ Filled(c).AllowedSources = c.AllowedSources
         /\ Filled(c).Nat64Enable = c.Nat64Enable
         /\ Filled(c).Dns64Enable = c.Dns64Enable
         /\ Filled(c).nat64 = IF c.Nat64Enable THEN Positive(c.nat64, Nat64Default) ELSE c.nat64
         /\ Filled(c).dns64 = IF c.Dns64Enable THEN Positive(c.dns64, Dns64Default) ELSE c.dns64
  BY ZenonT(60) DEF Filled, AppConfig, ConfigKey

\* What Validate makes of a configuration is one, with positive numbers for
\* the services it enables.
LEMMA FilledOK ==
  ASSUME NEW c, AppConfig(c)
  PROVE  /\ AppConfig(Filled(c))
         /\ Filled(c).Nat64Enable => \A k \in NatKey : Filled(c).nat64[k] > 0
         /\ Filled(c).Dns64Enable => \A k \in DnsKey : Filled(c).dns64[k] > 0
<1>1. /\ Positive(c.nat64, Nat64Default) \in [NatKey -> Int]
      /\ \A k \in NatKey : Positive(c.nat64, Nat64Default)[k] > 0
  BY Zenon, PositiveFills, DefaultsPositive DEF AppConfig, NatKey
<1>2. /\ Positive(c.dns64, Dns64Default) \in [DnsKey -> Int]
      /\ \A k \in DnsKey : Positive(c.dns64, Dns64Default)[k] > 0
  BY Zenon, PositiveFills, DefaultsPositive DEF AppConfig, DnsKey
<1> QED
  BY Zenon, <1>1, <1>2, FilledKeys DEF AppConfig

\* The keys Validate does not compute with a number, one by one.
LEMMA FilledWords ==
  ASSUME NEW c, AppConfig(c)
  PROVE  /\ Filled(c).IgnoredDstSubnets =
              IF c.IgnoredDstSubnets = Nil THEN DefaultIgnoredDstSubnets ELSE c.IgnoredDstSubnets
         /\ Filled(c).Dns64AAAAExcludedSubnets = c.Dns64AAAAExcludedSubnets
         /\ Filled(c).Nat64Pool = c.Nat64Pool
         /\ Filled(c).Nat64UdpFiltering =
              IF c.Nat64Enable THEN Or(c.Nat64UdpFiltering, "address-dependent") ELSE c.Nat64UdpFiltering
         /\ Filled(c).Nat64PortParity =
              IF c.Nat64Enable THEN Or(c.Nat64PortParity, "preserve") ELSE c.Nat64PortParity
         /\ Filled(c).Dns64Listen = c.Dns64Listen
         /\ Filled(c).Dns64Default = c.Dns64Default
         /\ Filled(c).Dns64InvalidAddress =
              IF c.Dns64Enable THEN Or(c.Dns64InvalidAddress, "ignore") ELSE c.Dns64InvalidAddress
         /\ Filled(c).Dns64Zones = c.Dns64Zones
         /\ Filled(c).Dns64Static = IF c.Dns64Enable THEN Normalised(c.Dns64Static) ELSE c.Dns64Static
  BY Zenon DEF Filled, AppConfig, ConfigKey

\* Validate run on its own result changes nothing (main and reloadConfig run
\* it again after every override).
THEOREM ValidateIdempotent ==
  ASSUME NEW c, AppConfig(c)
  PROVE  Filled(Filled(c)) = Filled(c)
<1> DEFINE d == Filled(c)
           e == Filled(d)
<1>1. AppConfig(d) /\ AppConfig(e)
  BY Zenon, FilledOK
<1>2. d.nat64 = e.nat64 /\ d.dns64 = e.dns64
  <2>1. d.Nat64Enable => d.nat64 = Positive(d.nat64, Nat64Default)
    BY Zenon, <1>1, FilledOK, PositiveFills, DefaultsPositive DEF AppConfig, NatKey
  <2>2. d.Dns64Enable => d.dns64 = Positive(d.dns64, Dns64Default)
    BY <1>1, FilledOK, PositiveFills, DefaultsPositive DEF AppConfig, DnsKey
  <2> QED BY Zenon, <1>1, <2>1, <2>2, FilledKeys
<1>3. /\ d.AllowedSources = e.AllowedSources /\ d.IgnoredDstSubnets = e.IgnoredDstSubnets
      /\ d.Dns64AAAAExcludedSubnets = e.Dns64AAAAExcludedSubnets
      /\ d.Nat64Enable = e.Nat64Enable /\ d.Dns64Enable = e.Dns64Enable
      /\ d.Nat64Pool = e.Nat64Pool /\ d.Dns64Listen = e.Dns64Listen
      /\ d.Dns64Default = e.Dns64Default /\ d.Dns64Zones = e.Dns64Zones
  BY <1>1, FilledKeys, FilledWords
<1>4. /\ d.Nat64UdpFiltering = e.Nat64UdpFiltering
      /\ d.Nat64PortParity = e.Nat64PortParity
      /\ d.Dns64InvalidAddress = e.Dns64InvalidAddress
  <2>1. \A w, x : Or(Or(w, x), x) = Or(w, x)
    BY Zenon DEF Or
  <2> QED BY <1>1, <2>1, FilledKeys, FilledWords
<1>5. d.Dns64Static = e.Dns64Static
  <2>1. Normalised(Normalised(c.Dns64Static)) = Normalised(c.Dns64Static)
    BY DEF Normalised
  <2> QED BY <1>1, <2>1, FilledKeys, FilledWords
<1>6. \A k \in ConfigKey : d[k] = e[k]
  BY Zenon, <1>2, <1>3, <1>4, <1>5 DEF ConfigKey
<1> QED BY Zenon, <1>1, <1>6 DEF AppConfig

\* Nor does Validate refuse its own result.
THEOREM ValidateStable ==
  ASSUME NEW c, AppConfig(c), ~Invalid(c)
  PROVE  ~Invalid(Filled(c))
<1> DEFINE d == Filled(c)
<1>1. /\ Bad \notin d.AllowedSources
      /\ d.IgnoredDstSubnets = Nil \/ Bad \notin d.IgnoredDstSubnets
      /\ Bad \notin d.Dns64AAAAExcludedSubnets
  BY Zenon, ConfigAssumption, FilledKeys, FilledWords DEF Invalid
<1>2. ASSUME d.Nat64Enable PROVE ~Nat64Invalid(d)
  <2>1. c.Nat64Enable /\ ~Nat64Invalid(c)
    BY Zenon, <1>2, FilledKeys DEF Invalid
  <2>2. \A k \in TimeoutKey : ~(0 < d.nat64[k] /\ d.nat64[k] < Nat64Floor[k])
    <3>1. d.nat64 = Positive(c.nat64, Nat64Default)
      BY Zenon, <2>1, FilledKeys
    <3>2. \A k \in TimeoutKey : k \in DOMAIN Nat64Default /\ Nat64Default[k] >= Nat64Floor[k]
      BY DEF TimeoutKey, Nat64Default, Nat64Floor
    <3>3. \A k \in TimeoutKey : c.nat64[k] \in Int /\ Nat64Floor[k] \in Int /\ Nat64Default[k] \in Int
      BY <3>2, DefaultsPositive DEF AppConfig, TimeoutKey, Nat64Default, Nat64Floor, NatKey
    <3>4. \A k \in TimeoutKey :
            d.nat64[k] = IF c.nat64[k] <= 0 THEN Nat64Default[k] ELSE c.nat64[k]
      BY Zenon, <3>1, <3>2 DEF Positive
    <3>5. \A k \in TimeoutKey : ~(0 < c.nat64[k] /\ c.nat64[k] < Nat64Floor[k])
      BY Zenon, <2>1 DEF Nat64Invalid
    <3> HIDE DEF d
    <3> QED BY <3>2, <3>3, <3>4, <3>5
  <2>3. /\ d.Nat64Pool = c.Nat64Pool
        /\ d.Nat64UdpFiltering = Or(c.Nat64UdpFiltering, "address-dependent")
        /\ d.Nat64PortParity = Or(c.Nat64PortParity, "preserve")
    BY Zenon, <2>1, FilledWords
  <2> QED BY Zenon, <2>1, <2>2, <2>3 DEF Nat64Invalid, Or, FilterMode, Parity
<1>3. ASSUME d.Dns64Enable PROVE ~Dns64Invalid(d)
  <2>1. c.Dns64Enable /\ ~Dns64Invalid(c)
    BY Zenon, <1>3, FilledKeys DEF Invalid
  <2>2. ~StaticInvalid(Normalised(c.Dns64Static))
    <3> DEFINE s == c.Dns64Static
               n == Normalised(s)
    <3>1. /\ \A e \in s : e.name # "" /\ e.addr # Bad
          /\ \A e, f \in s : e.name = f.name => e = f
      BY Zenon, <2>1 DEF Dns64Invalid, StaticInvalid
    <3>2. \A x \in n : \E e \in s :
            x = [name |-> e.name, spelling |-> "plain", addr |-> e.addr]
      BY Zenon DEF Normalised
    <3> HIDE DEF s, n
    <3>3. ASSUME NEW x \in n PROVE x.name # "" /\ x.addr # Bad
      <4>1. PICK e \in s : x = [name |-> e.name, spelling |-> "plain", addr |-> e.addr]
        BY Zenon, <3>2
      <4> QED BY Zenon, <3>1, <4>1
    <3>4. ASSUME NEW x \in n, NEW y \in n, x.name = y.name PROVE x = y
      <4>1. PICK e \in s : x = [name |-> e.name, spelling |-> "plain", addr |-> e.addr]
        BY Zenon, <3>2
      <4>2. PICK f \in s : y = [name |-> f.name, spelling |-> "plain", addr |-> f.addr]
        BY Zenon, <3>2
      <4> QED BY Zenon, <3>1, <3>4, <4>1, <4>2
    <3> QED BY Zenon, <3>3, <3>4 DEF StaticInvalid, s, n
  <2>3. /\ d.Dns64Default = c.Dns64Default /\ d.Dns64Zones = c.Dns64Zones
        /\ d.Dns64InvalidAddress = Or(c.Dns64InvalidAddress, "ignore")
        /\ d.Dns64Static = Normalised(c.Dns64Static)
    BY Zenon, <2>1, FilledWords
  <2> QED BY Zenon, <2>1, <2>2, <2>3 DEF Dns64Invalid, Or, IAWord
<1> QED BY Zenon, <1>1, <1>2, <1>3 DEF Invalid

-----------------------------------------------------------------------------
(***************************************************************************)
(* Process.                                                                *)
(***************************************************************************)

\* The services have the access lists of configuration c.
Nat64From(c) ==
  nat64Svc # Nil => /\ nat64Svc.allowedNets = ParseIPNets(c.AllowedSources)
                    /\ nat64Svc.ignoredDstNets = ParseIPNets(c.IgnoredDstSubnets)
Dns64From(c) ==
  dns64Svc # Nil => /\ dns64Svc.allowedNets = ParseIPNets(c.AllowedSources)
                    /\ dns64Svc.ignoredDstNets = ParseIPNets(c.IgnoredDstSubnets)

\* c has passed Validate, with the environment's access list in it.
Validated(c) ==
  /\ AppConfig(c)
  /\ c.Nat64Enable => \A k \in NatKey : c.nat64[k] > 0
  /\ c.Dns64Enable => \A k \in DnsKey : c.dns64[k] > 0
EnvIn(c) == env.sources # Nil => c.AllowedSources = env.sources /\ Bad \notin c.AllowedSources

Loaded   == {"key", "sources"}
Starting == {"core", "netstack", "nat64", "dns64"}
Agree    == nat64Svc # Nil /\ dns64Svc # Nil =>
              /\ nat64Svc.allowedNets = dns64Svc.allowedNets
              /\ nat64Svc.ignoredDstNets = dns64Svc.ignoredDstNets

\* A service whose configuration enables it has its limits: Validate fills them
\* in for no other.
EnabledLimited ==
  \A s \in {nat64Svc, dns64Svc} :
    s # Nil /\ s.Enable => \A k \in DOMAIN s.limits : s.limits[k] > 0

(***************************************************************************)
(* The inductive invariant.  Until the services run, what they are or will *)
(* be built from is appCfg; during a reload DNS64 already has the new      *)
(* lists when NAT64 still has the old ones.                                *)
(***************************************************************************)
IInv ==
  /\ file \in Files
  /\ main \in {"load"} \cup Loaded \cup Starting \cup {"exit"} =>
       reload = "none"
  /\ main \in {"load"} \cup Loaded \cup Starting => dns64Svc = Nil
  /\ main \in {"load"} \cup Loaded \cup (Starting \ {"dns64"}) => nat64Svc = Nil
  /\ main = "exit" => dns64Svc = Nil
  /\ main \in Loaded \cup Starting => Validated(appCfg)
  /\ main \in Starting => EnvIn(appCfg)
  /\ main = "dns64" => Nat64From(appCfg)
  /\ reload \in {"none", "wait", "load", "dns64", "nat64", "gone"}
  /\ reload \in {"dns64", "nat64"} => Validated(newCfg) /\ EnvIn(newCfg)
  /\ IF reload = "nat64" THEN Dns64From(newCfg) ELSE Agree
  /\ EnvSourcesKept
  /\ EnabledLimited

\* IInv holds initially.
LEMMA IInvInit == ProcessInit => IInv
  BY Zenon DEF ProcessInit, IInv, Loaded, Starting, Agree, EnvSourcesKept, EnabledLimited

\* An accepted configuration is a validated one.
LEMMA FilledValidated ==
  ASSUME NEW c, AppConfig(c)
  PROVE  Validated(Filled(c)) /\ Filled(c).AllowedSources = c.AllowedSources
  BY Zenon, FilledOK, FilledKeys DEF Validated

\* The overrides leave a configuration one.
LEMMA OverriddenOK ==
  ASSUME NEW c, AppConfig(c), NEW s
  PROVE  /\ AppConfig(ApplyPrivateKeyOverride(c))
         /\ AppConfig([c EXCEPT !.AllowedSources = s])
         /\ [c EXCEPT !.AllowedSources = s].AllowedSources = s
  BY ZenonT(60) DEF AppConfig, ApplyPrivateKeyOverride, ConfigKey

\* A service built from or reloaded with a validated configuration.
LEMMA SettingsOK ==
  ASSUME NEW c, Validated(c), EnvIn(c),
         NEW v \in {Nat64Settings(c), Dns64Settings(c)}
  PROVE  /\ v.allowedNets = ParseIPNets(c.AllowedSources)
         /\ v.ignoredDstNets = ParseIPNets(c.IgnoredDstSubnets)
         /\ env.sources # Nil => v.allowedNets = env.sources
         /\ v.Enable => \A k \in DOMAIN v.limits : v.limits[k] > 0
<1>1. /\ v.allowedNets = ParseIPNets(c.AllowedSources)
      /\ v.ignoredDstNets = ParseIPNets(c.IgnoredDstSubnets)
  BY DEF Nat64Settings, Dns64Settings
<1>2. env.sources # Nil => v.allowedNets = env.sources
  <2>1. \A S : Bad \notin S => S \ {Bad} = S
    OBVIOUS
  <2> QED BY Zenon, <1>1, <2>1 DEF EnvIn, ParseIPNets
<1>3. CASE v = Nat64Settings(c)
  <2>1. /\ v.Enable = c.Nat64Enable
        /\ v.limits = [k \in NatKey \ {"Nat64MaxTCPConnections"} |-> c.nat64[k]]
    BY Zenon, <1>3 DEF Nat64Settings
  <2> QED BY <1>1, <1>2, <2>1 DEF Validated
<1>4. CASE v = Dns64Settings(c)
  <2>1. /\ v.Enable = c.Dns64Enable
        /\ v.limits = [k \in DnsKey \ {"Dns64MaxConcurrentQueries"} |-> c.dns64[k]]
    BY Zenon, <1>4 DEF Dns64Settings
  <2> QED BY Zenon, <1>1, <1>2, <2>1 DEF Validated
<1> QED BY Zenon, <1>3, <1>4

\* Every step preserves IInv.
LEMMA IInvNext == IInv /\ [ProcessNext]_processVars => IInv'
<1> SUFFICES ASSUME IInv, [ProcessNext]_processVars PROVE IInv'
  OBVIOUS
<1> USE DEF Loaded, Starting
<1>1. CASE Edit
  BY Zenon, <1>1 DEF IInv, Edit, Validated, EnvIn, Nat64From, Dns64From, Agree, EnvSourcesKept,
      EnabledLimited
<1>2. CASE Hup
  BY Zenon, <1>2 DEF IInv, Hup, Validated, EnvIn, Nat64From, Dns64From, Agree, EnvSourcesKept,
      EnabledLimited
<1>3. CASE Cancel
  BY Zenon, <1>3 DEF IInv, Cancel, Validated, EnvIn, Nat64From, Dns64From, Agree, EnvSourcesKept,
      EnabledLimited
<1>4. CASE WorkEnds
  BY Zenon, <1>4 DEF IInv, WorkEnds, Validated, EnvIn, Nat64From, Dns64From, Agree,
      EnvSourcesKept, EnabledLimited
<1>5. CASE Load
  <2>1. CASE Loads(file)
    <3>1. Validated(Filled(file))
      BY Zenon, <2>1, FilledValidated, ProcessAssumption DEF IInv, Loads
    <3> QED
      BY Zenon, <1>5, <2>1, <3>1 DEF IInv, Load, M, Services, OutOfMain, Validated, EnvIn,
        Nat64From, Dns64From, Agree, EnvSourcesKept, EnabledLimited
  <2>2. CASE ~Loads(file)
    BY Zenon, <1>5, <2>2 DEF IInv, Load, M, Services, OutOfMain, Validated, EnvIn, Nat64From,
      Dns64From, Agree, EnvSourcesKept, EnabledLimited
  <2> QED BY Zenon, <2>1, <2>2
<1>6. CASE Override
  <2>1. UNCHANGED <<reload, pool6, nat64Svc, dns64Svc, env, file, newCfg>>
    BY Zenon, <1>6 DEF Override, Services, OutOfMain
  <2>2. CASE OverrideKey
    <3>1. CASE main' = "sources"
      <4>1. main = "key" /\ Validated(appCfg)
        BY Zenon, <2>2 DEF OverrideKey, IInv
      <4>2. Validated(Filled(ApplyPrivateKeyOverride(appCfg)))
        BY Zenon, <4>1, OverriddenOK, FilledValidated DEF Validated
      <4>3. appCfg' = appCfg \/ appCfg' = Filled(ApplyPrivateKeyOverride(appCfg))
        BY Zenon, <2>2, <3>1, <4>1 DEF OverrideKey, M, Accept
      <4>4. Validated(appCfg')
        BY Zenon, <4>1, <4>2, <4>3
      <4> QED
        BY Zenon, <2>1, <3>1, <4>1, <4>4 DEF IInv, Validated, EnvIn, Nat64From, Dns64From, Agree,
          EnvSourcesKept, EnabledLimited
    <3>2. CASE main' = "exit"
      BY Zenon, <2>1, <2>2, <3>2 DEF IInv, OverrideKey, Validated, EnvIn, Nat64From, Dns64From,
        Agree, EnvSourcesKept, EnabledLimited
    <3> QED BY Zenon, <2>2, <3>1, <3>2 DEF OverrideKey, M, Accept
  <2>3. CASE OverrideSources
    <3>1. CASE main' = "core"
      <4> DEFINE c == [appCfg EXCEPT !.AllowedSources = env.sources]
      <4>1. main = "sources" /\ Validated(appCfg)
        BY Zenon, <2>3 DEF OverrideSources, IInv
      <4>2. AppConfig(c) /\ c.AllowedSources = env.sources
        BY Zenon, <4>1, OverriddenOK DEF Validated
      <4>3. \/ appCfg' = appCfg /\ env.sources = Nil
            \/ appCfg' = Filled(c) /\ ~Invalid(c)
        BY Zenon, <2>3, <3>1, <4>1 DEF OverrideSources, M, Accept
      <4> HIDE DEF c
      <4>4. Validated(appCfg') /\ (env.sources # Nil =>
              appCfg'.AllowedSources = env.sources /\ Bad \notin appCfg'.AllowedSources)
        BY Zenon, <4>1, <4>2, <4>3, FilledValidated DEF Invalid
      <4> QED
        BY Zenon, <2>1, <3>1, <4>1, <4>4 DEF IInv, Validated, EnvIn, Nat64From, Dns64From, Agree,
          EnvSourcesKept, EnabledLimited
    <3>2. CASE main' = "exit"
      BY Zenon, <2>1, <2>3, <3>2 DEF IInv, OverrideSources, Validated, EnvIn, Nat64From, Dns64From,
        Agree, EnvSourcesKept, EnabledLimited
    <3> QED BY Zenon, <2>3, <3>1, <3>2 DEF OverrideSources, M, Accept
  <2> QED BY Zenon, <1>6, <2>2, <2>3 DEF Override
<1>7. CASE Core \/ CreateYdn64Netstack
  BY Zenon, <1>7 DEF IInv, Core, CreateYdn64Netstack, M, Services, OutOfMain, Validated, EnvIn,
    Nat64From, Dns64From, Agree, EnvSourcesKept, EnabledLimited
<1>8. CASE StartNat64
  <2>1. Validated(appCfg) /\ EnvIn(appCfg) /\ main = "nat64"
    BY Zenon, <1>8 DEF StartNat64, M, IInv
  <2>2. nat64Svc' = Nil \/ nat64Svc' = Nat64Settings(appCfg)
    BY Zenon, <1>8 DEF StartNat64
  <2>3. UNCHANGED <<appCfg, reload, dns64Svc, env, file, newCfg>> /\ main' = "dns64"
    BY Zenon, <1>8 DEF StartNat64, M, OutOfMain
  <2>4. Nat64From(appCfg)'
    BY Zenon, <2>1, <2>2, <2>3, SettingsOK DEF Nat64From
  <2>5. EnvSourcesKept' /\ EnabledLimited'
    BY Zenon, <2>1, <2>2, <2>3, SettingsOK DEF IInv, EnvSourcesKept, EnabledLimited
  <2> QED
    BY Zenon, <2>1, <2>3, <2>4, <2>5 DEF IInv, Validated, EnvIn, Dns64From, Agree
<1>9. CASE StartDns64
  <2>1. Validated(appCfg) /\ EnvIn(appCfg) /\ main = "dns64" /\ Nat64From(appCfg)
    BY Zenon, <1>9 DEF StartDns64, M, IInv
  <2>2. UNCHANGED <<nat64Svc, env, file, newCfg>>
    BY Zenon, <1>9 DEF StartDns64, M, OutOfMain
  <2>3. CASE main' = "run"
    <3>1. reload' = "wait" /\ (dns64Svc' = Nil \/ dns64Svc' = Dns64Settings(appCfg))
      BY Zenon, <1>9, <2>3 DEF StartDns64, M
    <3>2. Agree'
      BY Zenon, <2>1, <2>2, <3>1, SettingsOK DEF Agree, Nat64From
    <3>3. EnvSourcesKept' /\ EnabledLimited'
      BY Zenon, <2>1, <2>2, <3>1, SettingsOK DEF IInv, EnvSourcesKept, EnabledLimited
    <3> QED BY Zenon, <2>2, <2>3, <3>1, <3>2, <3>3 DEF IInv
  <2>4. CASE main' = "exit"
    BY ZenonT(60), <1>9, <2>1, <2>2, <2>4 DEF IInv, StartDns64, M, Agree, EnvSourcesKept,
        EnabledLimited
  <2> QED BY Zenon, <1>9, <2>3, <2>4 DEF StartDns64, M
<1>10. CASE ShutDown \/ Drain \/ Stop
  BY Zenon, <1>10 DEF IInv, ShutDown, Drain, Stop, M, Services, OutOfMain, Validated, EnvIn,
    Nat64From, Dns64From, Agree, EnvSourcesKept, EnabledLimited
<1>11. CASE Wait
  BY Zenon, <1>11 DEF IInv, Wait, R, OutOfReload, Validated, EnvIn, Nat64From, Dns64From, Agree,
    EnvSourcesKept, EnabledLimited
<1>12. CASE Reread
  <2>1. UNCHANGED <<nat64Svc, dns64Svc, env, file, main, appCfg>> /\ reload = "load"
    BY Zenon, <1>12 DEF Reread, R, OutOfReload
  <2>2. CASE reload' = "dns64"
    <3> DEFINE d == Filled(file)
               c == WithEnv(d)
    <3>1. newCfg' = c /\ Loads(file) /\ ~Invalid(c)
      BY Zenon, <1>12, <2>2 DEF Reread, R
    <3>2. AppConfig(d) /\ Validated(d)
      BY Zenon, <3>1, FilledValidated, ProcessAssumption DEF IInv, Loads, Validated
    <3>3. Validated(c) /\ (env.sources # Nil => c.AllowedSources = env.sources)
      BY ZenonT(60), <3>2, OverriddenOK, FilledValidated DEF WithEnv
    <3> HIDE DEF c, d
    <3>4. Validated(newCfg') /\ EnvIn(newCfg)'
      BY Zenon, <2>1, <3>1, <3>3 DEF EnvIn, Invalid
    <3> QED
      BY Zenon, <2>1, <2>2, <3>4 DEF IInv, Validated, EnvIn, Nat64From, Agree, EnvSourcesKept,
        EnabledLimited
  <2>3. CASE reload' = "wait"
    BY Zenon, <2>1, <2>3 DEF IInv, Validated, EnvIn, Nat64From, Agree, EnvSourcesKept, EnabledLimited
  <2> QED BY Zenon, <1>12, <2>2, <2>3 DEF Reread, R, Order
<1>13. CASE ReloadDns64
  <2>1. UNCHANGED <<nat64Svc, env, file, main, appCfg>> /\ reload = "dns64"
    BY Zenon, <1>13 DEF ReloadDns64, OutOfReload
  <2>2. Validated(newCfg) /\ EnvIn(newCfg) /\ Agree
    BY Zenon, <2>1 DEF IInv
  <2>3. CASE reload' = "wait"
    BY ZenonT(60), <1>13, <2>1, <2>2, <2>3 DEF IInv, ReloadDns64, Goto, R, After, Order,
        Validated, EnvIn,
      Nat64From, Agree, EnvSourcesKept, EnabledLimited
  <2>4. CASE reload' = "nat64"
    <3>1. newCfg' = newCfg /\ dns64Svc' \in {Nil, Dns64Settings(newCfg)}
      BY Zenon, <1>13, <2>4 DEF ReloadDns64, Goto, R
    <3>2. Dns64From(newCfg)'
      BY Zenon, <2>1, <2>2, <3>1, SettingsOK DEF Dns64From
    <3>3. EnvSourcesKept' /\ EnabledLimited'
      BY Zenon, <2>1, <2>2, <3>1, SettingsOK DEF IInv, EnvSourcesKept, EnabledLimited
    <3>4. main \notin {"load", "key", "sources", "core", "netstack", "nat64", "dns64", "exit"}
      BY Zenon, <2>1 DEF IInv
    <3> QED BY Zenon, <2>1, <2>2, <2>4, <3>1, <3>2, <3>3, <3>4 DEF IInv, Validated, EnvIn
  <2> QED BY Zenon, <1>13, <2>3, <2>4 DEF ReloadDns64, Goto, R, After, Order
<1>14. CASE ReloadNat64
  <2>1. /\ UNCHANGED <<dns64Svc, env, file, main, appCfg>>
        /\ reload = "nat64" /\ reload' = "wait"
    BY Zenon, <1>14 DEF ReloadNat64, OutOfReload, Goto, R, After, Order
  <2>2. Validated(newCfg) /\ EnvIn(newCfg) /\ Dns64From(newCfg)
    BY Zenon, <2>1 DEF IInv
  <2>3. nat64Svc' \in {Nil, Nat64Settings(newCfg)}
    BY Zenon, <1>14 DEF ReloadNat64
  <2>4. Agree'
    BY Zenon, <2>1, <2>2, <2>3, SettingsOK DEF Agree, Dns64From
  <2>5. EnvSourcesKept' /\ EnabledLimited'
    BY Zenon, <2>1, <2>2, <2>3, SettingsOK DEF IInv, EnvSourcesKept, EnabledLimited
  <2>6. main \notin {"load", "key", "sources", "core", "netstack", "nat64", "dns64", "exit"}
    BY Zenon, <2>1 DEF IInv
  <2> QED BY Zenon, <2>1, <2>4, <2>5, <2>6 DEF IInv
<1>15. CASE UNCHANGED processVars
  BY Zenon, <1>15 DEF IInv, processVars, Validated, EnvIn, Nat64From, Dns64From, Agree,
      EnvSourcesKept,
    EnabledLimited
<1> QED
  BY Zenon, <1>1, <1>2, <1>3, <1>4, <1>5, <1>6, <1>7, <1>8, <1>9, <1>10, <1>11, <1>12, <1>13, <1>14,
     <1>15 DEF ProcessNext, Main, Reload, Terminated

\* In every behaviour IInv always holds.
LEMMA IInvAlways == ProcessSpec => []IInv
  BY IInvInit, IInvNext, PTL DEF ProcessSpec

\* For every set of files, environment and interleaving of reloads: between
\* reloads NAT64 and DNS64 admit the same sources and ignore the same networks.
THEOREM ServicesAlwaysAgree == ProcessSpec => []ServicesAgree
<1>1. IInv => ServicesAgree
  BY Zenon DEF IInv, Agree, ServicesAgree
<1> QED BY <1>1, IInvAlways, PTL

\* The access list of the environment outlives every reload.
THEOREM EnvSourcesAlwaysKept == ProcessSpec => []EnvSourcesKept
<1>1. IInv => EnvSourcesKept
  BY Zenon DEF IInv
<1> QED BY <1>1, IInvAlways, PTL

\* The reload under way is not of a file that disables a service that runs.
KeepsEnabled ==
  reload \in {"dns64", "nat64"} =>
    /\ nat64Svc # Nil => newCfg.Nat64Enable
    /\ dns64Svc # Nil => newCfg.Dns64Enable

\* Every running service has all its limits.
LimitsKept ==
  \A s \in {nat64Svc, dns64Svc} : s # Nil => \A k \in DOMAIN s.limits : s.limits[k] > 0

\* However often the file is edited and reloaded, a running service is without
\* one of its limits only if a file that disables it was applied: of all the
\* ways to reload, reloadConfig's indifference to the Enable keys is the only
\* one that takes the bounds away.
THEOREM LimitsUntilDisabled == ProcessSpec /\ []KeepsEnabled => []LimitsKept
<1> DEFINE J == \A s \in {nat64Svc, dns64Svc} : s # Nil => s.Enable
<1>1. ProcessInit => J
  BY Zenon DEF ProcessInit
<1>2. IInv /\ J /\ KeepsEnabled /\ [ProcessNext]_processVars => J'
  <2> SUFFICES ASSUME IInv, J, KeepsEnabled, [ProcessNext]_processVars PROVE J'
    OBVIOUS
  <2>1. CASE UNCHANGED <<nat64Svc, dns64Svc>>
    BY Zenon, <2>1
  <2>0. \A c : Nat64Settings(c).Enable = c.Nat64Enable /\ Dns64Settings(c).Enable = c.Dns64Enable
    BY Zenon DEF Nat64Settings, Dns64Settings
  <2>2. CASE StartNat64
    <3>1. UNCHANGED dns64Svc
      BY Zenon, <2>2 DEF StartNat64
    <3>2. nat64Svc' = IF appCfg.Nat64Enable THEN Nat64Settings(appCfg) ELSE Nil
      BY Zenon, <2>2 DEF StartNat64
    <3>3. nat64Svc' # Nil => nat64Svc'.Enable
      BY Zenon, <2>0, <3>2
    <3> QED BY Zenon, <3>1, <3>3
  <2>3. CASE StartDns64
    <3>1. /\ \/ dns64Svc' \in {Nil, dns64Svc}
             \/ appCfg.Dns64Enable /\ dns64Svc' = Dns64Settings(appCfg)
          /\ UNCHANGED nat64Svc
      BY Zenon, <2>3 DEF StartDns64
    <3> QED BY Zenon, <2>0, <3>1
  <2>4. CASE ReloadDns64
    <3>1. /\ \/ dns64Svc' = dns64Svc
             \/ dns64Svc # Nil /\ reload = "dns64" /\ dns64Svc' = Dns64Settings(newCfg)
          /\ UNCHANGED nat64Svc
      BY Zenon, <2>4 DEF ReloadDns64
    <3>2. dns64Svc # Nil /\ reload = "dns64" => newCfg.Dns64Enable
      BY Zenon DEF KeepsEnabled
    <3>3. dns64Svc' # Nil => dns64Svc'.Enable
      BY Zenon, <2>0, <3>1, <3>2
    <3> QED BY Zenon, <3>1, <3>3
  <2>5. CASE ReloadNat64
    <3>1. /\ \/ nat64Svc' = Nil
             \/ nat64Svc # Nil /\ reload = "nat64" /\ nat64Svc' = Nat64Settings(newCfg)
          /\ UNCHANGED dns64Svc
      BY Zenon, <2>5 DEF ReloadNat64, Goto, R
    <3>2. nat64Svc # Nil /\ reload = "nat64" => newCfg.Nat64Enable
      BY Zenon DEF KeepsEnabled
    <3>3. nat64Svc' # Nil => nat64Svc'.Enable
      BY Zenon, <2>0, <3>1, <3>2
    <3> QED BY Zenon, <3>1, <3>3
  <2>6. CASE \/ Edit \/ Hup \/ Cancel \/ WorkEnds \/ Load \/ Override \/ Core \/ CreateYdn64Netstack
             \/ ShutDown \/ Drain \/ Stop \/ Wait \/ Reread \/ UNCHANGED processVars
    <3>1. UNCHANGED <<nat64Svc, dns64Svc>>
      BY Zenon, <2>6 DEF Edit, Hup, Cancel, WorkEnds, Load, Override, Core, CreateYdn64Netstack,
        ShutDown, Drain, Stop, Wait, Reread, Services, processVars
    <3> QED BY Zenon, <2>1, <3>1
  <2> QED BY Zenon, <2>2, <2>3, <2>4, <2>5, <2>6 DEF ProcessNext, Main, Reload, Terminated
<1>3. IInv /\ J => LimitsKept
  BY Zenon DEF IInv, EnabledLimited, LimitsKept
<1> HIDE DEF J
<1> QED BY <1>1, <1>2, <1>3, IInvInit, IInvNext, PTL DEF ProcessSpec

(***************************************************************************)
(* YDN64_PRIVATE_KEY.  The prefix NAT64 translates is that of the key for  *)
(* as long as the process lives; the zones of DNS64 are until a reload.    *)
(***************************************************************************)

\* Configuration c has the prefix of the key in its pool and in every zone.
KeyIn(c) == /\ c.Nat64Pool = DerivedPrefix
            /\ \A z \in c.Dns64Zones : z = [domains |-> {"."}, prefix |-> DerivedPrefix,
                                           ipv6 |-> FALSE, forwarder |-> ""]

\* NAT64 translates the prefix of the key.
PoolKept == env.key = "good" /\ pool6 # Nil => pool6 = DerivedPrefix

\* And the configuration has it while the services are started from it; where
\* NAT64 runs, there is a prefix it translates.
KeyInv   == /\ env.key = "good" /\ main \in {"sources"} \cup Starting => KeyIn(appCfg)
            /\ PoolKept
            /\ env.key = "good" /\ main = "nat64" /\ appCfg.Nat64Enable => pool6 = DerivedPrefix
            /\ env.key = "good" /\ nat64Svc # Nil => pool6 = DerivedPrefix

\* Validate and the access list of the environment leave the key's prefix.
LEMMA KeyFilled ==
  ASSUME NEW c, AppConfig(c)
  PROVE  /\ KeyIn(c) => KeyIn(Filled(c))
         /\ \A s : KeyIn(c) => KeyIn([c EXCEPT !.AllowedSources = s])
         /\ KeyIn(ApplyPrivateKeyOverride(c))
<1>1. DOMAIN c = ConfigKey
  BY Zenon DEF AppConfig
<1>2. Filled(c).Nat64Pool = c.Nat64Pool /\ Filled(c).Dns64Zones = c.Dns64Zones
  BY Zenon, <1>1 DEF Filled, ConfigKey
<1>3. KeyIn(ApplyPrivateKeyOverride(c))
  BY Zenon, <1>1 DEF ApplyPrivateKeyOverride, ConfigKey, KeyIn
<1>4. \A s : /\ [c EXCEPT !.AllowedSources = s].Nat64Pool = c.Nat64Pool
             /\ [c EXCEPT !.AllowedSources = s].Dns64Zones = c.Dns64Zones
  BY Zenon, <1>1 DEF ConfigKey
<1> QED BY Zenon, <1>2, <1>3, <1>4 DEF KeyIn

\* Every step keeps the key's prefix where main put it.
LEMMA KeyNext == IInv /\ KeyInv /\ [ProcessNext]_processVars => KeyInv'
<1> SUFFICES ASSUME IInv, KeyInv, [ProcessNext]_processVars PROVE KeyInv'
  OBVIOUS
<1> USE DEF Loaded, Starting, Services, OutOfMain, OutOfReload, KeyInv, PoolKept
<1>1. CASE UNCHANGED <<env, pool6, main, appCfg>> /\ (nat64Svc' # Nil => nat64Svc # Nil)
  BY Zenon, <1>1 DEF KeyIn
<1>2. CASE Load
  BY Zenon, <1>2 DEF Load, M
<1>3. CASE Override
  <2>0. UNCHANGED <<env, pool6, nat64Svc>>
    BY Zenon, <1>3 DEF Override
  <2>1. ASSUME main \in Loaded PROVE AppConfig(appCfg)
    BY Zenon, <2>1 DEF IInv, Validated
  <2>2. CASE OverrideKey /\ main' = "sources" /\ env.key = "good"
    <3>1. appCfg' = Filled(ApplyPrivateKeyOverride(appCfg)) /\ main = "key"
      BY Zenon, <2>2 DEF OverrideKey, Accept, M
    <3>2. AppConfig(ApplyPrivateKeyOverride(appCfg)) /\ KeyIn(ApplyPrivateKeyOverride(appCfg))
      BY Zenon, <2>1, <3>1, KeyFilled, OverriddenOK
    <3>3. KeyIn(appCfg')
      BY Zenon, <3>1, <3>2, KeyFilled
    <3> QED BY Zenon, <2>0, <2>2, <3>3 DEF KeyIn
  <2>3. CASE OverrideSources /\ main' = "core" /\ env.key = "good"
    <3>1. AppConfig(appCfg) /\ KeyIn(appCfg)
      BY Zenon, <2>1, <2>3 DEF OverrideSources
    <3>2. \/ appCfg' = appCfg
          \/ appCfg' = Filled([appCfg EXCEPT !.AllowedSources = env.sources])
      BY Zenon, <2>3 DEF OverrideSources, Accept, M
    <3>3. KeyIn(appCfg')
      BY Zenon, <3>1, <3>2, KeyFilled, OverriddenOK
    <3> QED BY Zenon, <2>0, <2>3, <3>3 DEF KeyIn
  <2>4. \/ OverrideKey /\ main' \in {"sources", "exit"}
        \/ OverrideSources /\ main' \in {"core", "exit"}
    BY Zenon, <1>3 DEF Override, OverrideKey, OverrideSources, Accept, M
  <2> QED BY Zenon, <2>0, <2>2, <2>3, <2>4
<1>4. CASE Core \/ StartNat64 \/ Drain \/ Stop
  BY Zenon, <1>4 DEF Core, StartNat64, Drain, Stop, M, KeyIn
<1>5. CASE CreateYdn64Netstack
  <2>1. nat64Svc' = Nil
    BY Zenon, <1>5 DEF CreateYdn64Netstack, M, IInv
  <2> QED BY Zenon, <1>5, <2>1 DEF CreateYdn64Netstack, M, KeyIn
<1>6. CASE StartDns64 \/ ShutDown
  <2>1. UNCHANGED <<env, pool6, nat64Svc>> /\ main' \in {"run", "exit", "drainNat64"}
    BY Zenon, <1>6 DEF StartDns64, ShutDown, M
  <2> QED BY Zenon, <2>1
<1>7. CASE Edit \/ Hup \/ Cancel \/ WorkEnds \/ Reload \/ UNCHANGED processVars
  <2>1. UNCHANGED <<env, pool6, main, appCfg>> /\ (nat64Svc' # Nil => nat64Svc # Nil)
    BY Zenon, <1>7 DEF Edit, Hup, Cancel, WorkEnds, Reload, Wait, Reread, ReloadDns64,
      ReloadNat64, processVars
  <2> QED BY Zenon, <1>1, <2>1
<1> QED
  BY Zenon, <1>2, <1>3, <1>4, <1>5, <1>6, <1>7 DEF ProcessNext, Main, Terminated

\* So it always is what NAT64 translates.
LEMMA KeyAlways == ProcessSpec => [](IInv /\ KeyInv)
<1>1. ProcessInit => KeyInv
  BY Zenon DEF ProcessInit, KeyInv, PoolKept, Starting
<1> QED BY <1>1, KeyNext, IInvInit, IInvNext, PTL DEF ProcessSpec

\* With YDN64_PRIVATE_KEY set the prefix NAT64 translates is the one derived
\* from the key, whatever the file says and however often it is reloaded.
THEOREM PoolFollowsKey == ProcessSpec => []PoolKept
<1>1. KeyInv => PoolKept
  BY Zenon DEF KeyInv
<1> QED BY <1>1, KeyAlways, PTL

\* And DNS64 synthesises from it as long as no reload reads the file again:
\* reloadConfig alone makes the two services disagree.
THEOREM KeyUntilReload == ProcessSpec /\ [](reload # "load") => []KeyOverrideKept
<1> DEFINE J == /\ reload \in {"none", "wait", "gone", "load"}
                /\ env.key = "good" /\ dns64Svc # Nil =>
                     {z.prefix : z \in dns64Svc.zones} \subseteq {DerivedPrefix}
<1>1. ProcessInit => J
  BY Zenon DEF ProcessInit
<1>2. IInv /\ KeyInv /\ J /\ reload # "load" /\ [ProcessNext]_processVars => J'
  <2> SUFFICES ASSUME IInv, KeyInv, J, reload # "load", [ProcessNext]_processVars PROVE J'
    OBVIOUS
  <2>1. ASSUME UNCHANGED <<env, dns64Svc>>, reload' \in {"none", "wait", "gone", "load"} PROVE J'
    BY Zenon, <2>1
  <2>2. CASE StartDns64
    <3>1. UNCHANGED env
      BY Zenon, <2>2 DEF StartDns64, OutOfMain
    <3>2. CASE main' = "exit"
      BY Zenon, <2>1, <2>2, <3>1, <3>2 DEF StartDns64, M
    <3>3. CASE main' = "run"
      <4>1. /\ reload' = "wait" /\ main = "dns64"
            /\ dns64Svc' = IF appCfg.Dns64Enable THEN Dns64Settings(appCfg) ELSE Nil
        BY Zenon, <2>2, <3>3 DEF StartDns64, M
      <4>2. ASSUME env.key = "good", dns64Svc' # Nil
            PROVE  {z.prefix : z \in dns64Svc'.zones} \subseteq {DerivedPrefix}
        <5>1. KeyIn(appCfg)
          BY Zenon, <4>1, <4>2 DEF KeyInv, Starting
        <5>2. dns64Svc'.zones = buildZones(appCfg.Dns64Zones)
          BY Zenon, <4>1, <4>2 DEF Dns64Settings
        <5>3. DerivedPrefix # Bad
          BY Zenon, ConfigAssumption
        <5>4. ASSUME NEW z \in buildZones(appCfg.Dns64Zones) PROVE z.prefix = DerivedPrefix
          <6>1. PICK y \in appCfg.Dns64Zones : z = [y EXCEPT !.prefix = IF @ = Bad THEN "" ELSE @]
            BY Zenon DEF buildZones
          <6>2. y = [domains |-> {"."}, prefix |-> DerivedPrefix, ipv6 |-> FALSE, forwarder |-> ""]
            BY Zenon, <5>1 DEF KeyIn
          <6> QED BY Zenon, <5>3, <6>1, <6>2
        <5> QED BY Zenon, <5>2, <5>4
      <4> QED BY Zenon, <3>1, <4>1, <4>2
    <3> QED BY Zenon, <2>2, <3>2, <3>3 DEF StartDns64, M
  <2>3. CASE Reload
    <3>1. Wait
      BY Zenon, <2>3 DEF Reload, Reread, ReloadDns64, ReloadNat64, R, Goto
    <3> QED BY Zenon, <2>1, <3>1 DEF Wait, R, OutOfReload
  <2>4. CASE UNCHANGED <<env, reload, dns64Svc>>
    BY Zenon, <2>1, <2>4
  <2>5. CASE \/ Edit \/ Hup \/ Cancel \/ WorkEnds \/ Load \/ Override \/ Core \/ CreateYdn64Netstack
             \/ StartNat64 \/ ShutDown \/ Drain \/ Stop \/ UNCHANGED processVars
    <3>1. UNCHANGED <<env, reload, dns64Svc>>
      BY Zenon, <2>5 DEF Edit, Hup, Cancel, WorkEnds, Load, Override, Core, CreateYdn64Netstack,
        StartNat64, ShutDown, Drain, Stop, Services, OutOfMain, processVars
    <3> QED BY Zenon, <2>4, <3>1
  <2> QED BY Zenon, <2>2, <2>3, <2>5 DEF ProcessNext, Main, Terminated
<1>3. KeyInv /\ J => KeyOverrideKept
  BY Zenon DEF KeyInv, KeyOverrideKept
<1> HIDE DEF J
<1> QED BY <1>1, <1>2, <1>3, KeyAlways, PTL DEF ProcessSpec
-----------------------------------------------------------------------------
(***************************************************************************)
(* RateLimit.                                                              *)
(***************************************************************************)

\* What the limiter's variables hold: clock readings are not in the future, a
\* caller has waited for at most Skew, and one that waits while limiting is
\* disabled came before it was.
IsTable(T) ==
  /\ DOMAIN T \subseteq Src
  /\ \A s \in DOMAIN T : T[s] \in [tokens : Int, last : Int] /\ T[s].last <= now

Waits(c) ==
  /\ caller[c].src \in Src
  /\ caller[c].at \in Int /\ caller[c].at <= now /\ now <= caller[c].at + Skew
  /\ rate = 0 => caller[c].at <= since

LimiterType ==
  /\ now \in Int /\ since \in Int /\ since <= now
  /\ rate \in Rates /\ burst \in Nat /\ (rate > 0 => burst = BurstOf(rate))
  /\ Rates \ {0} # {}
  /\ reloads \in Nat /\ reloads <= MaxReloads
  /\ IsTable(buckets) /\ IsTable(ideal) /\ DOMAIN buckets \subseteq DOMAIN ideal
  /\ admitted \in [Src -> Nat]
  /\ DOMAIN caller = Caller /\ \A c \in Caller : caller[c].pc = "lock" => Waits(c)

\* Multiplication is monotone and distributes, as the provers need to be told.
LEMMA Mult ==
  ASSUME NEW a \in Int, NEW x \in Int, NEW y \in Int
  PROVE  /\ a * x \in Int /\ a * x = x * a
         /\ a * (x + y) = a * x + a * y /\ a * (x - y) = a * x - a * y
         /\ a >= 0 /\ x <= y => a * x <= a * y
         /\ a >= 0 /\ x >= 0 => a * x >= 0
<1>1. a * x \in Int /\ a * x = x * a
  OBVIOUS
<1>2. a * (x + y) = a * x + a * y /\ a * (x - y) = a * x - a * y
  OBVIOUS
<1>3. a >= 0 /\ x >= 0 => a * x >= 0
  OBVIOUS
<1>4. a >= 0 /\ x <= y => a * x <= a * y
  OBVIOUS
<1> QED
  BY Zenon, <1>1, <1>2, <1>3, <1>4

\* The constants as the proofs use them: an enabled rate refills the burst and
\* any debt in the time after which an idle bucket is evicted.
LEMMA RateFacts ==
  /\ Scale \in Nat /\ Scale > 0 /\ Skew \in Nat /\ IdleTicks \in Nat /\ MaxRate \in Nat
  /\ MaxReloads \in Nat
  /\ \A r \in Rates : r \in Nat /\ r <= MaxRate /\ BurstOf(r) \in Nat /\ BurstOf(r) > 0
  /\ MaxRate * Skew \in Nat /\ Debt \in Nat
  /\ \A n \in Nat : n * (MaxRate * Skew) \in Nat /\
       (n + 1) * (MaxRate * Skew) = n * (MaxRate * Skew) + MaxRate * Skew
  /\ \A n \in Nat : n <= MaxReloads => (n + 1) * (MaxRate * Skew) <= Debt
  /\ \A r \in Rates \ {0} : (IdleTicks - Skew) * r >= BurstOf(r) + Debt /\ IdleTicks > Skew
<1>1. /\ Scale \in Nat /\ Scale > 0 /\ Skew \in Nat /\ IdleTicks \in Nat /\ MaxRate \in Nat
      /\ MaxReloads \in Nat
  BY RateConstants
<1>2. ASSUME NEW r \in Rates
      PROVE  r \in Nat /\ r <= MaxRate /\ BurstOf(r) \in Nat /\ BurstOf(r) > 0
  <2>1. r \in Nat /\ r <= MaxRate /\ MinBurst \in Nat /\ MinBurst > 0
    BY RateConstants
  <2>2. Most(2 * r, MinBurst) \in Nat /\ Most(2 * r, MinBurst) > 0
    BY <2>1 DEF Most
  <2>3. \A m \in Nat : m > 0 => Scale * m \in Nat /\ Scale * m > 0
    BY <1>1
  <2> QED BY Zenon, <2>1, <2>2, <2>3 DEF BurstOf
<1>3. MaxRate * Skew \in Nat
  BY <1>1
<1>4. ASSUME NEW m \in Nat, NEW n \in Nat
      PROVE  n * m \in Nat /\ (n + 1) * m = n * m + m
  OBVIOUS
<1>5. ASSUME NEW m \in Nat, NEW n \in Nat, NEW k \in Nat, n <= k
      PROVE  (n + 1) * m <= (k + 1) * m
  BY <1>5, Mult
<1>6. Debt \in Nat
  BY <1>1, <1>3, <1>4 DEF Debt
<1>7. ASSUME NEW r \in Rates, r # 0
      PROVE  (IdleTicks - Skew) * r >= BurstOf(r) + Debt /\ IdleTicks > Skew
  <2>1. (IdleTicks - Skew) * r >= BurstOf(r) + Debt
    BY Zenon, <1>7, RateConstants
  <2>2. (IdleTicks - Skew) * r > 0
    BY <1>1, <1>2, <1>6, <2>1
  <2>3. \A x \in Int : x <= 0 => x * r <= 0
    BY <1>2
  <2> QED BY <1>1, <1>2, <2>1, <2>2, <2>3
<1> QED
  BY Zenon, <1>1, <1>2, <1>3, <1>4, <1>5, <1>6, <1>7 DEF Debt

\* The table in which allow looks a source up holds what the limiter's does,
\* except for buckets that were last used more than IdleTicks before.
LEMMA TableIs ==
  ASSUME NEW s, NEW t
  PROVE  /\ DOMAIN Table(s, t) \subseteq DOMAIN buckets
         /\ s \in DOMAIN Table(s, t) <=> s \in DOMAIN buckets
         /\ \A k \in DOMAIN Table(s, t) : Table(s, t)[k] = buckets[k]
         /\ \A k \in DOMAIN buckets \ DOMAIN Table(s, t) : ~(buckets[k].last >= t - IdleTicks)
<1>1. CASE s \notin DOMAIN buckets /\ Cardinality(DOMAIN buckets) >= MaxBuckets
  <2>1. Table(s, t) = Swept(t)
    BY Zenon, <1>1 DEF Table
  <2> QED BY Zenon, <1>1, <2>1 DEF Swept
<1>2. CASE ~(s \notin DOMAIN buckets /\ Cardinality(DOMAIN buckets) >= MaxBuckets)
  BY Zenon, <1>2 DEF Table
<1> QED BY Zenon, <1>1, <1>2

\* The tokens of a source in table T at time t before one is taken, and after.
Before(T, s, t) == IF s \in DOMAIN T THEN Refilled(T[s], t) ELSE burst
AfterCall(n) == IF n >= Scale THEN n - Scale ELSE n

\* What allow leaves in a bucket.
LEMMA SpentIs ==
  ASSUME NEW T, NEW s, NEW t
  PROVE  /\ Found(T, s, t).tokens = Before(T, s, t) /\ Found(T, s, t).last = t
         /\ Spent(Found(T, s, t)).tokens = AfterCall(Before(T, s, t))
         /\ Spent(Found(T, s, t)).last = t
         /\ Spent(Found(T, s, t)) = [tokens |-> AfterCall(Before(T, s, t)), last |-> t]
<1> DEFINE b == Found(T, s, t)
<1>1. b = [tokens |-> Before(T, s, t), last |-> t]
  BY Zenon DEF Found, Bucket, Before
<1>2. Spent(b) = [tokens |-> AfterCall(Before(T, s, t)), last |-> t]
  BY <1>1 DEF Spent, AfterCall
<1> QED BY <1>1, <1>2

\* The step of a caller for source s that has the lock, with clock reading t:
\* the source's bucket is refilled and charged, and the buckets the sweep takes
\* are old.
Allowed(s, t) ==
  /\ t <= now /\ now <= t + Skew /\ (rate = 0 => t <= since)
  /\ DOMAIN buckets' \subseteq DOMAIN buckets \cup {s} /\ s \in DOMAIN buckets'
  /\ buckets'[s] = [tokens |-> AfterCall(Before(buckets, s, t)), last |-> t]
  /\ \A k \in DOMAIN buckets' : k # s => buckets'[k] = buckets[k]
  /\ \A k \in DOMAIN buckets \ DOMAIN buckets' : buckets[k].last < t - IdleTicks
  /\ DOMAIN ideal' = DOMAIN ideal \cup {s}
  /\ ideal'[s] = [tokens |-> AfterCall(Before(ideal, s, t)), last |-> t]
  /\ \A k \in DOMAIN ideal : k # s => ideal'[k] = ideal[k]
  /\ admitted'[s] = IF Before(buckets, s, t) >= Scale THEN admitted[s] + 1 ELSE admitted[s]
  /\ \A k \in Src : k # s => admitted'[k] = admitted[k]
  /\ admitted' \in [Src -> Nat]
  /\ \A d \in Caller : caller'[d].pc = "lock" => caller'[d] = caller[d]
  /\ UNCHANGED <<now, settings>>

\* The locked part of allow is such a step.
LEMMA AllowIs ==
  ASSUME LimiterType, NEW c \in Caller, Allow(c)
  PROVE  \E s \in Src, t \in Int : Allowed(s, t)
<1> DEFINE s == caller[c].src
           t == caller[c].at
           T == Table(s, t)
           n == Before(buckets, s, t)
<1>1. Waits(c)
  BY Zenon DEF Allow, LimiterType
<1>2. s \in Src /\ t \in Int /\ t <= now /\ now <= t + Skew /\ (rate = 0 => t <= since)
  BY Zenon, <1>1 DEF Waits
<1>3. Before(T, s, t) = n
  BY TableIs DEF Before
<1>4. /\ buckets' = With(T, s, Spent(Found(T, s, t)))
      /\ ideal' = With(ideal, s, Spent(Found(ideal, s, t)))
      /\ admitted' = [admitted EXCEPT
           ![s] = IF Found(T, s, t).tokens >= Scale THEN @ + 1 ELSE @]
      /\ caller' = [caller EXCEPT ![c] = NotCalling]
      /\ UNCHANGED <<now, settings>>
  BY Zenon DEF Allow
<1>5. /\ DOMAIN buckets' = DOMAIN T \cup {s}
      /\ buckets'[s] = [tokens |-> AfterCall(n), last |-> t]
      /\ \A k \in DOMAIN T : k # s => buckets'[k] = T[k]
  BY <1>3, <1>4, SpentIs DEF With
<1>6. /\ DOMAIN ideal' = DOMAIN ideal \cup {s}
      /\ ideal'[s] = [tokens |-> AfterCall(Before(ideal, s, t)), last |-> t]
      /\ \A k \in DOMAIN ideal : k # s => ideal'[k] = ideal[k]
  BY <1>4, SpentIs DEF With
<1>7. /\ admitted'[s] = (IF n >= Scale THEN admitted[s] + 1 ELSE admitted[s])
      /\ \A k \in Src : k # s => admitted'[k] = admitted[k]
      /\ admitted' \in [Src -> Nat]
  BY <1>2, <1>3, <1>4, SpentIs DEF LimiterType
<1>8. \A d \in Caller : caller'[d].pc = "lock" => caller'[d] = caller[d]
  BY Zenon, <1>4 DEF NotCalling, LimiterType
<1>9. \A k \in DOMAIN buckets \ DOMAIN T : buckets[k].last < t - IdleTicks
  <2> TAKE k \in DOMAIN buckets \ DOMAIN T
  <2>1. buckets[k].last \in Int /\ IdleTicks \in Nat
    BY Zenon, RateFacts DEF LimiterType, IsTable
  <2>2. ~(buckets[k].last >= t - IdleTicks)
    BY Zenon, TableIs
  <2> QED BY <1>2, <2>1, <2>2
<1>10. /\ DOMAIN T \subseteq DOMAIN buckets
       /\ \A k \in DOMAIN T : T[k] = buckets[k]
  BY TableIs
<1> HIDE DEF T, n
<1>11. /\ DOMAIN buckets' \subseteq DOMAIN buckets \cup {s} /\ s \in DOMAIN buckets'
       /\ \A k \in DOMAIN buckets' : k # s => buckets'[k] = buckets[k]
       /\ \A k \in DOMAIN buckets \ DOMAIN buckets' : buckets[k].last < t - IdleTicks
  BY Zenon, <1>5, <1>9, <1>10
<1>12. Allowed(s, t)
  BY Zenon, <1>2, <1>4, <1>5, <1>6, <1>7, <1>8, <1>11 DEF n, Allowed
<1> QED
  BY Zenon, <1>2, <1>12

\* A refill yields an integer of at most the burst, and with the cap out of
\* play adds the elapsed time at the rate.
LEMMA BeforeIs ==
  ASSUME LimiterType, NEW T, IsTable(T), NEW s \in Src, NEW t \in Int
  PROVE  /\ Before(T, s, t) \in Int /\ Before(T, s, t) <= burst
         /\ s \notin DOMAIN T => Before(T, s, t) = burst
         /\ s \in DOMAIN T => \/ Before(T, s, t) = burst
                              \/ Before(T, s, t) = T[s].tokens + rate * (t - T[s].last)
         /\ s \in DOMAIN T => Before(T, s, t) <= T[s].tokens + rate * (t - T[s].last)
         /\ s \in DOMAIN T /\ T[s].tokens + rate * (t - T[s].last) >= burst =>
              Before(T, s, t) = burst
         /\ AfterCall(Before(T, s, t)) \in Int /\ AfterCall(Before(T, s, t)) <= Before(T, s, t)
<1>1. rate \in Nat /\ burst \in Nat /\ Scale \in Nat
  BY Zenon, RateFacts DEF LimiterType
<1>2. CASE s \notin DOMAIN T
  BY <1>1, <1>2 DEF Before, AfterCall
<1>3. CASE s \in DOMAIN T
  <2> DEFINE m == T[s].tokens + rate * (t - T[s].last)
  <2>1. T[s].tokens \in Int /\ T[s].last \in Int
    BY Zenon, <1>3 DEF IsTable
  <2>2. m \in Int /\ (t - T[s].last) * rate = rate * (t - T[s].last)
    BY <1>1, <2>1, Mult
  <2>3. Before(T, s, t) = Least(m, burst)
    BY Zenon, <1>3, <2>2 DEF Before, Refilled
  <2> HIDE DEF m
  <2>4. Before(T, s, t) = IF m < burst THEN m ELSE burst
    BY Zenon, <2>3 DEF Least
  <2>5. Before(T, s, t) \in Int /\ Before(T, s, t) <= burst /\ Before(T, s, t) <= m
        /\ (Before(T, s, t) = burst \/ Before(T, s, t) = m)
        /\ (m >= burst => Before(T, s, t) = burst)
    BY <1>1, <2>2, <2>4
  <2>6. AfterCall(Before(T, s, t)) \in Int /\ AfterCall(Before(T, s, t)) <= Before(T, s, t)
    BY <1>1, <2>5 DEF AfterCall
  <2> QED BY Zenon, <1>3, <2>5, <2>6 DEF m
<1> QED BY Zenon, <1>2, <1>3

\* The initial limiter is well typed.
LEMMA LimiterTypeInit == LimiterInit => LimiterType
<1> SUFFICES ASSUME LimiterInit PROVE LimiterType
  OBVIOUS
<1>1. rate \in Rates /\ burst \in Nat
  BY Zenon, RateFacts DEF LimiterInit
<1>2. DOMAIN buckets = {} /\ DOMAIN ideal = {}
  BY Zenon DEF LimiterInit
<1>3. DOMAIN caller = Caller /\ \A c \in Caller : caller[c].pc # "lock"
  BY Zenon DEF LimiterInit, NotCalling
<1> QED
  BY <1>1, <1>2, <1>3, RateConstants DEF LimiterInit, LimiterType, IsTable

\* The step of an update: both tables are cut to the new burst, if there is one.
LEMMA UpdateIs ==
  ASSUME LimiterType, NEW r \in Rates, Update(r)
  PROVE  /\ rate' = r /\ since' = now /\ now' = now /\ caller' = caller
         /\ reloads' = reloads + 1 /\ reloads < MaxReloads
         /\ \A s \in Src : admitted'[s] = 0
         /\ admitted' \in [Src -> Nat]
         /\ DOMAIN buckets' = DOMAIN buckets /\ DOMAIN ideal' = DOMAIN ideal
         /\ r = 0 => UNCHANGED <<burst, buckets, ideal>>
         /\ r > 0 => /\ burst' = BurstOf(r)
                     /\ \A s \in DOMAIN buckets :
                          /\ buckets'[s] = ideal'[s]
                          /\ buckets'[s].last = buckets[s].last
                          /\ buckets'[s].tokens = Least(buckets[s].tokens, BurstOf(r))
                     /\ \A s \in DOMAIN ideal \ DOMAIN buckets :
                          /\ ideal'[s].last = ideal[s].last
                          /\ ideal'[s].tokens = Least(ideal[s].tokens, BurstOf(r))
<1>1. /\ rate' = r /\ since' = now /\ now' = now /\ caller' = caller
      /\ reloads' = reloads + 1 /\ reloads < MaxReloads
      /\ admitted' = [s \in Src |-> 0]
  BY Zenon DEF Update
<1>2. r \in Nat
  BY Zenon, RateFacts
<1>3. CASE r = 0
  BY <1>1, <1>3 DEF Update
<1>4. CASE r > 0
  <2> DEFINE J == [s \in DOMAIN ideal |->
                     IF s \in DOMAIN buckets THEN buckets[s] ELSE ideal[s]]
  <2>1. /\ burst' = BurstOf(r) /\ buckets' = Recapped(buckets, BurstOf(r))
        /\ ideal' = Recapped(J, BurstOf(r))
    BY Zenon, <1>4 DEF Update
  <2>2. DOMAIN buckets' = DOMAIN buckets /\ DOMAIN ideal' = DOMAIN ideal
    BY Zenon, <2>1 DEF Recapped
  <2>3. ASSUME NEW s \in DOMAIN buckets
        PROVE  /\ buckets'[s] = ideal'[s]
               /\ buckets'[s].last = buckets[s].last
               /\ buckets'[s].tokens = Least(buckets[s].tokens, BurstOf(r))
    <3>1. s \in DOMAIN ideal /\ J[s] = buckets[s]
      BY Zenon DEF LimiterType
    <3>2. buckets[s] \in [tokens : Int, last : Int]
      BY Zenon DEF LimiterType, IsTable
    <3> QED BY Zenon, <2>1, <3>1, <3>2 DEF Recapped
  <2>4. ASSUME NEW s \in DOMAIN ideal \ DOMAIN buckets
        PROVE  /\ ideal'[s].last = ideal[s].last
               /\ ideal'[s].tokens = Least(ideal[s].tokens, BurstOf(r))
    <3>1. J[s] = ideal[s] /\ ideal[s] \in [tokens : Int, last : Int]
      BY Zenon DEF LimiterType, IsTable
    <3> QED BY Zenon, <2>1, <3>1 DEF Recapped
  <2> QED BY <1>1, <1>4, <2>1, <2>2, <2>3, <2>4
<1> QED BY <1>2, <1>3, <1>4

\* Every step keeps the limiter's types.
LEMMA LimiterTypeStep ==
  ASSUME LimiterType, [LimiterNext]_limiterVars
  PROVE  LimiterType'
<1> USE DEF LimiterType
<1>r. rate \in Nat /\ Skew \in Nat /\ MaxReloads \in Nat
  BY Zenon, RateFacts
<1>1. ASSUME NEW c \in Caller, Enter(c) PROVE LimiterType'
  <2>1. UNCHANGED <<now, settings, buckets, ideal, admitted>>
    BY Zenon, <1>1 DEF Enter
  <2>2. DOMAIN caller' = Caller
    BY Zenon, <1>1 DEF Enter
  <2>3. ASSUME NEW d \in Caller, caller'[d].pc = "lock" PROVE Waits(d)'
    <3>1. CASE caller'[d] = caller[d]
      BY Zenon, <2>1, <2>3, <3>1 DEF Waits, settings
    <3>2. CASE caller'[d] # caller[d]
      <4>1. PICK s \in Src : caller'[d] = [pc |-> "lock", src |-> s, at |-> now] /\ rate > 0
        BY Zenon, <1>1, <3>2 DEF Enter
      <4> QED BY <1>r, <2>1, <4>1 DEF Waits, settings
    <3> QED BY Zenon, <3>1, <3>2
  <2> QED BY Zenon, <2>1, <2>2, <2>3 DEF settings, IsTable
<1>2. ASSUME NEW c \in Caller, Allow(c) PROVE LimiterType'
  <2>1. PICK s \in Src, t \in Int : Allowed(s, t)
    BY Zenon, <1>2, AllowIs
  <2>2. AfterCall(Before(buckets, s, t)) \in Int /\ AfterCall(Before(ideal, s, t)) \in Int
    BY Zenon, BeforeIs
  <2>3. IsTable(buckets)' /\ IsTable(ideal)' /\ DOMAIN buckets' \subseteq DOMAIN ideal'
    BY <2>1, <2>2 DEF IsTable, Allowed
  <2>4. ASSUME NEW d \in Caller, caller'[d].pc = "lock" PROVE Waits(d)'
    <3>1. caller'[d] = caller[d] /\ UNCHANGED <<now, rate, since>>
      BY Zenon, <2>1, <2>4 DEF Allowed, settings
    <3>2. LimiterType => Waits(d)
      BY Zenon, <2>4, <3>1 DEF LimiterType
    <3> QED BY Zenon, <2>1, <3>1, <3>2 DEF Waits
  <2>5. DOMAIN caller' = Caller
    BY Zenon, <1>2 DEF Allow
  <2> QED BY Zenon, <2>1, <2>3, <2>4, <2>5 DEF settings, Allowed
<1>3. ASSUME NEW r \in Rates, Update(r) PROVE LimiterType'
  <2>1. r \in Nat /\ BurstOf(r) \in Nat
    BY Zenon, RateFacts
  <2>2. IsTable(buckets)' /\ IsTable(ideal)'
    <3>1. CASE r = 0
      BY Zenon, <1>3, <3>1, UpdateIs DEF IsTable
    <3>2. CASE r > 0
      <4>1. \A s \in DOMAIN buckets : buckets'[s] \in [tokens : Int, last : Int]
        <5> SUFFICES ASSUME NEW s \in DOMAIN buckets
                     PROVE  buckets'[s] \in [tokens : Int, last : Int]
          OBVIOUS
        <5>1. /\ buckets' = Recapped(buckets, BurstOf(r))
              /\ buckets[s] \in [tokens : Int, last : Int]
          BY Zenon, <1>3, <3>2 DEF Update, IsTable
        <5> QED BY <2>1, <5>1 DEF Recapped, Least
      <4>2. \A s \in DOMAIN ideal : ideal'[s] \in [tokens : Int, last : Int]
        <5> SUFFICES ASSUME NEW s \in DOMAIN ideal
                     PROVE  ideal'[s] \in [tokens : Int, last : Int]
          OBVIOUS
        <5> DEFINE j == IF s \in DOMAIN buckets THEN buckets[s] ELSE ideal[s]
        <5>1. /\ ideal'[s] = [j EXCEPT !.tokens = Least(@, BurstOf(r))]
              /\ j \in [tokens : Int, last : Int]
          BY Zenon, <1>3, <3>2 DEF Update, Recapped, IsTable
        <5> HIDE DEF j
        <5> QED BY <2>1, <5>1 DEF Least
      <4> QED BY <1>3, <3>2, <4>1, <4>2, UpdateIs DEF IsTable
    <3> QED BY <2>1, <3>1, <3>2
  <2>3. \A c \in Caller : caller'[c].pc = "lock" => Waits(c)'
    BY Zenon, <1>3, UpdateIs DEF Waits
  <2>4. burst' \in Nat /\ (rate' > 0 => burst' = BurstOf(rate'))
    BY <1>3, <2>1, UpdateIs
  <2> QED BY <1>3, <1>r, <2>1, <2>2, <2>3, <2>4, UpdateIs
<1>4. CASE Advance
  <2>1. now' = now + 1 /\ UNCHANGED <<settings, buckets, caller, ideal, admitted>>
    BY Zenon, <1>4 DEF Advance
  <2>2. \A c \in Caller : caller[c].pc = "lock" => now < caller[c].at + Skew
    BY Zenon, <1>4 DEF Advance
  <2>3. IsTable(buckets)' /\ IsTable(ideal)'
    BY <2>1 DEF IsTable
  <2>4. \A c \in Caller : caller'[c].pc = "lock" => Waits(c)'
    BY <1>r, <2>1, <2>2 DEF Waits, settings
  <2> QED BY <2>1, <2>3, <2>4 DEF settings
<1>5. CASE UNCHANGED limiterVars
  BY Zenon, <1>5 DEF limiterVars, settings, IsTable, Waits
<1> QED
  BY Zenon, <1>1, <1>2, <1>3, <1>4, <1>5 DEF LimiterNext

-----------------------------------------------------------------------------
(***************************************************************************)
(* RateBounded.  A source that has been admitted since the last update     *)
(* either has a bucket, which accounts for every admission and owes no     *)
(* more than the rate gives in the skew, or it was evicted, and then the   *)
(* rate has paid for its admissions in full.                               *)
(***************************************************************************)
Accounts(s) ==
  LET b == buckets[s]
  IN  /\ b.last >= since - Skew
      /\ b.tokens + rate * (now - b.last) >= 0
      /\ b.tokens + rate * Skew >= 0
      /\ Scale * admitted[s] + b.tokens <= burst + rate * (b.last - since + Skew)

Charged(s) ==
  admitted[s] > 0 =>
    IF s \in DOMAIN buckets THEN Accounts(s) ELSE Scale * admitted[s] <= rate * (now - since)

ChargedInv == \A s \in Src : Charged(s)

\* The products of the rate and the times that occur, for the provers.
LEMMA RateTimes ==
  ASSUME LimiterType, NEW x \in Int
  PROVE  /\ rate \in Nat /\ rate * x \in Int /\ rate * now \in Int /\ rate * since \in Int
         /\ rate * Skew \in Nat /\ rate * IdleTicks \in Nat
         /\ rate * (now - x) = rate * now - rate * x
         /\ rate * (x - since + Skew) = rate * x - rate * since + rate * Skew
         /\ rate * (now - since) = rate * now - rate * since
         /\ x <= now => rate * x <= rate * now
         /\ now <= x + Skew => rate * now <= rate * x + rate * Skew
         /\ rate * since <= rate * now
<1>1. /\ rate \in Nat /\ now \in Int /\ since \in Int /\ Skew \in Nat /\ IdleTicks \in Nat
      /\ since <= now
  BY Zenon, RateFacts DEF LimiterType
<1>2. /\ rate * x \in Int /\ rate * now \in Int /\ rate * since \in Int
      /\ rate * Skew \in Nat /\ rate * IdleTicks \in Nat
  BY <1>1
<1>3. /\ rate * (now - x) = rate * now - rate * x
      /\ rate * (now - since) = rate * now - rate * since
      /\ rate * (x + Skew) = rate * x + rate * Skew
      /\ rate * (x - since) = rate * x - rate * since
  BY <1>1, Mult
<1>4. rate * ((x - since) + Skew) = rate * (x - since) + rate * Skew
  BY <1>1, Mult
<1>5. x <= now => rate * x <= rate * now
  BY <1>1, Mult
<1>6. now <= x + Skew => rate * now <= rate * (x + Skew)
  BY <1>1, Mult
<1>7. rate * since <= rate * now
  BY <1>1, Mult
<1> QED
  BY Zenon, <1>1, <1>2, <1>3, <1>4, <1>5, <1>6, <1>7

\* A source that calls stays accounted for: an admission takes its token from
\* the bucket, and a new bucket for an evicted source holds only what the rate
\* has paid for since.
LEMMA ChargedCaller ==
  ASSUME LimiterType, LimiterType', NEW s \in Src, NEW t \in Int, Allowed(s, t), Charged(s)
  PROVE  Charged(s)'
<1> DEFINE n == Before(buckets, s, t)
           a == admitted[s]
           sa == Scale * a
           N == rate * now
           S == rate * since
           W == rate * t
           K == rate * Skew
<1>1. /\ n \in Int /\ n <= burst /\ burst \in Nat /\ a \in Nat /\ Scale \in Nat
      /\ now \in Int /\ since \in Int /\ since <= now /\ Skew \in Nat /\ Scale > 0
  BY Zenon, BeforeIs, RateFacts DEF LimiterType
<1>2. /\ t <= now /\ now <= t + Skew /\ UNCHANGED <<now, rate, burst, since>>
      /\ s \in DOMAIN buckets'
      /\ buckets'[s].tokens = AfterCall(n) /\ buckets'[s].last = t
      /\ admitted'[s] = IF n >= Scale THEN a + 1 ELSE a
  <2>1. t <= now /\ now <= t + Skew /\ UNCHANGED <<now, rate, burst, since>>
    BY Zenon DEF Allowed, settings
  <2>2. s \in DOMAIN buckets' /\ buckets'[s] = [tokens |-> AfterCall(n), last |-> t]
    BY Zenon DEF Allowed
  <2>3. admitted'[s] = IF n >= Scale THEN a + 1 ELSE a
    BY Zenon DEF Allowed
  <2> HIDE DEF n, a
  <2> QED BY <2>1, <2>2, <2>3
<1>3. AfterCall(n) = IF n >= Scale THEN n - Scale ELSE n
  BY Zenon DEF AfterCall
<1>4. sa \in Nat /\ Scale * (a + 1) = sa + Scale /\ (a = 0 => sa = 0)
  BY <1>1
<1>5. /\ W \in Int /\ N \in Int /\ S \in Int /\ K \in Nat
      /\ rate * (now - t) = N - W /\ rate * (t - since + Skew) = W - S + K
      /\ W <= N /\ N <= W + K /\ S <= N
  <2>1. W \in Int /\ N \in Int /\ S \in Int /\ K \in Nat
    BY Zenon, RateTimes
  <2>2. rate * (now - t) = N - W /\ rate * (t - since + Skew) = W - S + K
    BY Zenon, RateTimes
  <2>3. W <= N /\ N <= W + K /\ S <= N
    BY Zenon, <1>2, RateTimes
  <2> QED BY Zenon, <2>1, <2>2, <2>3
<1>6. ASSUME /\ AfterCall(n) \in Int /\ AfterCall(n) + (N - W) >= 0 /\ AfterCall(n) + K >= 0
             /\ (IF n >= Scale THEN sa + Scale ELSE sa) + AfterCall(n) <= burst + (W - S + K)
      PROVE  Charged(s)'
  <2>1. Scale * admitted'[s] = IF n >= Scale THEN sa + Scale ELSE sa
    BY Zenon, <1>2, <1>4
  <2>2. t >= since - Skew
    BY <1>1, <1>2
  <2>3. rate' = rate /\ now' = now /\ since' = since /\ burst' = burst
    BY Zenon, <1>2
  <2> HIDE DEF n, sa
  <2> QED BY Zenon, <1>2, <1>5, <1>6, <2>1, <2>2, <2>3 DEF Charged, Accounts
<1>7. CASE s \in DOMAIN buckets /\ a > 0
  <2> DEFINE k == buckets[s].tokens
             L == rate * buckets[s].last
  <2>1. /\ k + rate * (now - buckets[s].last) >= 0
        /\ sa + k <= burst + rate * (buckets[s].last - since + Skew)
    BY Zenon, <1>7 DEF Charged, Accounts
  <2>2. /\ k \in Int /\ buckets[s].last \in Int
        /\ n = burst \/ n = k + rate * (t - buckets[s].last)
        /\ n <= k + rate * (t - buckets[s].last)
    BY Zenon, <1>7, BeforeIs DEF LimiterType, IsTable
  <2>3. /\ rate * (now - buckets[s].last) = N - L /\ L \in Int
        /\ rate * (buckets[s].last - since + Skew) = L - S + K
        /\ rate \in Nat
    BY Zenon, <2>2, RateTimes
  <2>4. rate * (t - buckets[s].last) = W - L
    BY <2>2, <2>3, Mult
  <2>5. /\ k + (N - L) >= 0 /\ sa + k <= burst + (L - S + K)
        /\ n = burst \/ n = k + (W - L)
        /\ n <= k + (W - L)
    BY Zenon, <2>1, <2>2, <2>3, <2>4
  <2> HIDE DEF n, sa, N, S, W, K, L, k
  <2>6. /\ AfterCall(n) \in Int /\ AfterCall(n) + (N - W) >= 0 /\ AfterCall(n) + K >= 0
        /\ (IF n >= Scale THEN sa + Scale ELSE sa) + AfterCall(n) <= burst + (W - S + K)
    BY <1>1, <1>3, <1>4, <1>5, <2>2, <2>3, <2>5
  <2> QED BY Zenon, <1>6, <2>6
<1>8. CASE ~(s \in DOMAIN buckets /\ a > 0)
  <2>1. rate * (now - since) = N - S
    BY Zenon, <1>1, RateTimes
  <2>2. a = 0 \/ (s \notin DOMAIN buckets /\ sa <= N - S)
    <3> HIDE DEF N, S
    <3> QED BY <1>1, <1>8, <2>1 DEF Charged
  <2>3. s \notin DOMAIN buckets => n = burst
    BY Zenon, BeforeIs DEF LimiterType
  <2>4. a = 0 /\ n < Scale => admitted'[s] = 0
    BY <1>1, <1>2
  <2> HIDE DEF n, sa, N, S, W, K
  <2>5. CASE a = 0 /\ n < Scale
    BY <2>4, <2>5 DEF Charged
  <2>6. CASE ~(a = 0 /\ n < Scale)
    <3>1. /\ AfterCall(n) \in Int /\ AfterCall(n) >= 0
          /\ (IF n >= Scale THEN sa + Scale ELSE sa) + AfterCall(n) <= burst + (W - S + K)
      BY <1>1, <1>3, <1>4, <1>5, <2>2, <2>3, <2>6
    <3>2. AfterCall(n) + (N - W) >= 0 /\ AfterCall(n) + K >= 0
      BY <1>5, <3>1
    <3> QED BY Zenon, <1>6, <3>1, <3>2
  <2> QED BY Zenon, <2>5, <2>6
<1> QED BY Zenon, <1>7, <1>8

\* Any other source stays accounted for as well: a bucket the sweep takes has
\* been idle for so long that the rate has paid for all its admissions.
LEMMA ChargedOther ==
  ASSUME LimiterType, NEW s \in Src, NEW t \in Int, Allowed(s, t),
         NEW k \in Src, k # s, Charged(k)
  PROVE  Charged(k)'
<1>1. /\ admitted'[k] = admitted[k] /\ UNCHANGED <<now, rate, burst, since>>
      /\ k \in DOMAIN buckets' => k \in DOMAIN buckets /\ buckets'[k] = buckets[k]
  BY Zenon DEF Allowed, settings
<1>2. CASE k \in DOMAIN buckets'
  BY Zenon, <1>1, <1>2 DEF Charged, Accounts
<1>3. CASE k \notin DOMAIN buckets
  BY Zenon, <1>1, <1>3 DEF Charged
<1>4. CASE k \in DOMAIN buckets \ DOMAIN buckets' /\ admitted[k] > 0
  <2> DEFINE l == buckets[k].last
             x == buckets[k].tokens
             N == rate * now
             S == rate * since
             K == rate * Skew
             L == rate * l
             sa == Scale * admitted[k]
  <2>1. /\ l < t - IdleTicks /\ t <= now /\ (rate = 0 => t <= since)
        /\ l \in Int /\ x \in Int /\ now \in Int /\ since \in Int
        /\ IdleTicks \in Nat /\ Skew \in Nat /\ burst \in Nat
    <3>1. l < t - IdleTicks /\ t <= now /\ (rate = 0 => t <= since)
      BY Zenon, <1>4 DEF Allowed
    <3>2. l \in Int /\ x \in Int /\ now \in Int /\ since \in Int
      BY Zenon, <1>4 DEF LimiterType, IsTable
    <3>3. IdleTicks \in Nat /\ Skew \in Nat /\ burst \in Nat
      BY Zenon, RateFacts DEF LimiterType
    <3> QED BY Zenon, <3>1, <3>2, <3>3
  <2>2. /\ l >= since - Skew /\ x + K >= 0 /\ sa + x <= burst + rate * (l - since + Skew)
    BY Zenon, <1>4 DEF Charged, Accounts
  <2>3. rate > 0
    <3>1. IdleTicks > Skew
      BY Zenon, RateFacts DEF LimiterType
    <3>2. rate \in Nat
      BY Zenon, RateFacts DEF LimiterType
    <3> QED BY <2>1, <2>2, <3>1, <3>2
  <2>4. /\ rate \in Rates /\ rate # 0 /\ burst = BurstOf(rate) /\ rate \in Nat
        /\ rate <= MaxRate
    BY <2>3, RateFacts DEF LimiterType
  <2>5. (IdleTicks - Skew) * rate >= burst + Debt
    BY Zenon, <2>4, RateFacts
  <2>6. Debt \in Nat /\ K \in Nat /\ K <= Debt
    <3>1. Debt \in Nat /\ MaxRate * Skew <= Debt /\ MaxRate \in Nat /\ MaxRate * Skew \in Nat
      <4>1. (0 + 1) * (MaxRate * Skew) <= Debt /\ MaxRate * Skew \in Nat /\ Debt \in Nat
        BY RateFacts
      <4> QED BY <4>1, RateFacts
    <3>2. Skew * rate <= Skew * MaxRate
      BY <2>1, <2>4, <3>1, Mult
    <3>3. Skew * rate = K /\ Skew * MaxRate = MaxRate * Skew /\ K \in Nat
      BY <2>1, <2>4, <3>1
    <3> HIDE DEF K
    <3> QED BY <3>1, <3>2, <3>3
  <2>7. (IdleTicks - Skew) * rate = rate * IdleTicks - K /\ rate * IdleTicks \in Nat
    BY <2>1, <2>4, Mult
  <2>8. /\ L \in Int /\ N \in Int /\ S \in Int
        /\ rate * (l - since + Skew) = L - S + K /\ rate * (now - since) = N - S
    BY ZenonT(60), <2>1, RateTimes
  <2>9. L <= N - rate * IdleTicks
    <3>1. l <= now - IdleTicks
      BY <2>1
    <3>2. rate * l <= rate * (now - IdleTicks)
      BY <2>1, <2>4, <3>1, Mult
    <3>3. rate * (now - IdleTicks) = N - rate * IdleTicks
      BY <2>1, <2>4, Mult
    <3> QED BY Zenon, <3>2, <3>3
  <2>10. sa \in Int
    BY RateFacts DEF LimiterType
  <2> DEFINE I == rate * IdleTicks
  <2>11. /\ sa + x <= burst + (L - S + K) /\ I \in Nat /\ I - K >= burst + Debt /\ L <= N - I
    BY Zenon, <2>2, <2>5, <2>7, <2>8, <2>9
  <2> HIDE DEF N, S, K, L, sa, I, x
  <2>12. sa <= N - S
    BY <2>1, <2>2, <2>6, <2>8, <2>10, <2>11
  <2> QED BY Zenon, <1>1, <1>4, <2>8, <2>12 DEF Charged, sa
<1>5. CASE ~(admitted[k] > 0)
  BY Zenon, <1>1, <1>5 DEF Charged
<1> QED BY Zenon, <1>2, <1>3, <1>4, <1>5

\* Initially nothing is admitted, and every step keeps the accounts.
LEMMA ChargedStep ==
  /\ LimiterInit => ChargedInv
  /\ LimiterType /\ LimiterType' /\ ChargedInv /\ [LimiterNext]_limiterVars => ChargedInv'
<1>1. LimiterInit => ChargedInv
  BY DEF LimiterInit, ChargedInv, Charged
<1>2. ASSUME LimiterType, LimiterType', ChargedInv, [LimiterNext]_limiterVars
      PROVE  ChargedInv'
  <2>1. ASSUME NEW c \in Caller, Allow(c) PROVE ChargedInv'
    <3>1. PICK s \in Src, t \in Int : Allowed(s, t)
      BY Zenon, <1>2, <2>1, AllowIs
    <3> QED BY Zenon, <1>2, <3>1, ChargedCaller, ChargedOther DEF ChargedInv
  <2>2. ASSUME NEW c \in Caller, Enter(c) PROVE ChargedInv'
    BY Zenon, <1>2, <2>2 DEF Enter, settings, ChargedInv, Charged, Accounts
  <2>3. ASSUME NEW r \in Rates, Update(r) PROVE ChargedInv'
    <3>1. \A s \in Src : admitted'[s] = 0
      BY Zenon, <1>2, <2>3, UpdateIs
    <3> QED BY <3>1 DEF ChargedInv, Charged
  <2>4. CASE UNCHANGED limiterVars
    BY Zenon, <1>2, <2>4 DEF limiterVars, settings, ChargedInv, Charged, Accounts
  <2>5. ASSUME Advance, NEW s \in Src PROVE Charged(s)'
    <3>1. /\ now' = now + 1 /\ rate' = rate /\ burst' = burst /\ since' = since
          /\ buckets' = buckets /\ admitted' = admitted
      BY Zenon, <2>5 DEF Advance, settings
    <3>2. rate \in Nat /\ now \in Int /\ since \in Int /\ burst \in Nat
      BY Zenon, <1>2, RateFacts DEF LimiterType
    <3>3. \A x \in Int : rate * (now + 1 - x) = rate * (now - x) + rate /\ rate * (now - x) \in Int
      <4> TAKE x \in Int
      <4>1. now + 1 - x = (now - x) + 1
        BY <3>2
      <4>2. rate * ((now - x) + 1) = rate * (now - x) + rate * 1
        BY <3>2, Mult
      <4> QED BY <3>2, <4>1, <4>2
    <3>4. Charged(s) /\ Scale * admitted[s] \in Int
      BY <1>2, RateFacts DEF ChargedInv, LimiterType
    <3>5. CASE s \in DOMAIN buckets
      <4>1. buckets[s].tokens \in Int /\ buckets[s].last \in Int
        BY Zenon, <1>2, <3>5 DEF LimiterType, IsTable
      <4>2. rate * (now + 1 - buckets[s].last) = rate * (now - buckets[s].last) + rate
            /\ rate * (now - buckets[s].last) \in Int
        BY Zenon, <3>3, <4>1
      <4>3. admitted[s] > 0 => buckets[s].tokens + rate * (now + 1 - buckets[s].last) >= 0
        BY <3>2, <3>4, <3>5, <4>1, <4>2 DEF Charged, Accounts
      <4>4. rate' * (now' - buckets'[s].last) = rate * (now + 1 - buckets[s].last)
        BY <3>1, <3>2, <4>1
      <4> QED BY <3>1, <3>4, <3>5, <4>3, <4>4, Zenon DEF Charged, Accounts
    <3>6. CASE s \notin DOMAIN buckets
      <4>1. rate * (now + 1 - since) = rate * (now - since) + rate /\ rate * (now - since) \in Int
        BY Zenon, <3>2, <3>3
      <4>2. admitted[s] > 0 => Scale * admitted[s] <= rate * (now + 1 - since)
        BY <3>2, <3>4, <3>6, <4>1 DEF Charged
      <4>3. rate' * (now' - since') = rate * (now + 1 - since)
        BY <3>1, <3>2
      <4> QED BY <3>1, <3>6, <4>2, <4>3, Zenon DEF Charged
    <3> QED BY Zenon, <3>5, <3>6
  <2> QED
    BY Zenon, <1>2, <2>1, <2>2, <2>3, <2>4, <2>5 DEF LimiterNext, ChargedInv
<1> QED BY Zenon, <1>1, <1>2

\* No source is admitted more often than its burst and its rate allow, for any
\* number of sources and callers, whatever the order in which they get the
\* lock and whatever the sweep forgets.
THEOREM RateAlwaysBounded == LimiterSpec => []RateBounded
<1>1. ASSUME LimiterType, ChargedInv PROVE RateBounded
  <2> SUFFICES ASSUME NEW s \in Src
               PROVE  Scale * admitted[s] <= burst + rate * (now - since + Skew)
    BY Zenon DEF RateBounded
  <2> DEFINE N == rate * now
             S == rate * since
             K == rate * Skew
             sa == Scale * admitted[s]
  <2>1. /\ N \in Int /\ S \in Int /\ K \in Nat /\ S <= N
        /\ rate * (now - since + Skew) = N - S + K /\ rate * (now - since) = N - S
    BY Zenon, <1>1, RateTimes DEF LimiterType
  <2>2. sa \in Nat /\ burst \in Nat /\ admitted[s] \in Nat /\ (admitted[s] = 0 => sa = 0)
    BY <1>1, RateFacts DEF LimiterType
  <2>3. CASE s \in DOMAIN buckets /\ admitted[s] > 0
    <3> DEFINE L == rate * buckets[s].last
               x == buckets[s].tokens
    <3>1. x \in Int /\ buckets[s].last \in Int
      BY Zenon, <1>1, <2>3 DEF LimiterType, IsTable
    <3>2. /\ L \in Int /\ rate * (now - buckets[s].last) = N - L
          /\ rate * (buckets[s].last - since + Skew) = L - S + K
      BY Zenon, <1>1, <3>1, RateTimes
    <3>3. x + (N - L) >= 0 /\ sa + x <= burst + (L - S + K)
      BY Zenon, <1>1, <2>3, <3>2 DEF ChargedInv, Charged, Accounts
    <3> HIDE DEF N, S, K, L, x, sa
    <3>4. sa <= burst + (N - S + K)
      BY <2>1, <2>2, <3>1, <3>2, <3>3
    <3> QED BY Zenon, <2>1, <3>4 DEF sa
  <2>4. CASE s \notin DOMAIN buckets /\ admitted[s] > 0
    <3>1. sa <= N - S
      BY Zenon, <1>1, <2>1, <2>4 DEF ChargedInv, Charged
    <3> HIDE DEF N, S, K, sa
    <3>2. sa <= burst + (N - S + K)
      BY <2>1, <2>2, <3>1
    <3> QED BY Zenon, <2>1, <3>2 DEF sa
  <2>5. CASE admitted[s] = 0
    <3> HIDE DEF N, S, K, sa
    <3>1. sa <= burst + (N - S + K)
      BY <2>1, <2>2, <2>5
    <3> QED BY Zenon, <2>1, <3>1 DEF sa
  <2> QED BY <2>2, <2>3, <2>4, <2>5
<1>2. LimiterInit => LimiterType /\ ChargedInv
  BY Zenon, LimiterTypeInit, ChargedStep
<1>3. LimiterType /\ ChargedInv /\ [LimiterNext]_limiterVars => (LimiterType /\ ChargedInv)'
  BY Zenon, LimiterTypeStep, ChargedStep
<1> QED
  BY <1>1, <1>2, <1>3, PTL DEF LimiterSpec
-----------------------------------------------------------------------------
(***************************************************************************)
(* EvictionInvisible.  A bucket owes at most one skew's worth of tokens    *)
(* for every rate it has lived under, the last of which the elapsed time   *)
(* is already paying back.                                                 *)
(***************************************************************************)
Owing(s) ==
  LET b == buckets[s]
  IN  /\ b.tokens + (reloads + 1) * (MaxRate * Skew) >= 0
      /\ b.tokens + reloads * (MaxRate * Skew) + rate * (now - b.last) >= 0

OwingInv == \A s \in DOMAIN buckets : Owing(s)

\* One reload more allows for one more debt.
LEMMA DebtIs ==
  ASSUME LimiterType
  PROVE  /\ reloads * (MaxRate * Skew) \in Nat /\ MaxRate * Skew \in Nat
         /\ (reloads + 1) * (MaxRate * Skew) = reloads * (MaxRate * Skew) + MaxRate * Skew
         /\ (reloads + 1 + 1) * (MaxRate * Skew) = reloads * (MaxRate * Skew) + MaxRate * Skew
                                                     + MaxRate * Skew
         /\ rate * Skew \in Nat /\ rate * Skew <= MaxRate * Skew
<1>1. reloads \in Nat /\ reloads + 1 \in Nat /\ rate \in Nat /\ rate <= MaxRate
      /\ MaxRate \in Nat /\ Skew \in Nat
  BY RateFacts DEF LimiterType
<1>2. rate * Skew = Skew * rate /\ MaxRate * Skew = Skew * MaxRate /\ rate * Skew \in Nat
  BY <1>1
<1>3. Skew * rate <= Skew * MaxRate
  BY <1>1, Mult
<1>4. rate * Skew <= MaxRate * Skew
  BY Zenon, <1>2, <1>3
<1> DEFINE W == MaxRate * Skew
<1>5. /\ W \in Nat /\ reloads * W \in Nat /\ (reloads + 1) * W = reloads * W + W
      /\ (reloads + 1 + 1) * W = (reloads + 1) * W + W
  BY Zenon, <1>1, RateFacts
<1> QED
  BY Zenon, <1>2, <1>4, <1>5

\* Initially nobody owes, and every step keeps the bound on what is owed.
LEMMA OwingStep ==
  /\ LimiterInit => OwingInv
  /\ LimiterType /\ LimiterType' /\ OwingInv /\ [LimiterNext]_limiterVars => OwingInv'
<1>1. LimiterInit => OwingInv
  BY Zenon DEF LimiterInit, OwingInv
<1>2. ASSUME LimiterType, LimiterType', OwingInv, [LimiterNext]_limiterVars
      PROVE  OwingInv'
  <2> DEFINE W == MaxRate * Skew
             V == reloads * W
  <2>a. /\ W \in Nat /\ V \in Nat /\ (reloads + 1) * W = V + W
        /\ (reloads + 1 + 1) * W = V + W + W
        /\ rate * Skew \in Nat /\ rate * Skew <= W
    BY Zenon, <1>2, DebtIs
  <2>b. /\ rate \in Nat /\ now \in Int /\ Skew \in Nat /\ burst \in Nat /\ Scale \in Nat
        /\ \A s \in DOMAIN buckets : /\ s \in Src /\ buckets[s].tokens \in Int
                                     /\ buckets[s].last \in Int /\ buckets[s].last <= now
    BY Zenon, <1>2, RateFacts DEF LimiterType, IsTable
  <2>1. ASSUME NEW c \in Caller, Allow(c) PROVE OwingInv'
    <3>1. PICK s \in Src, t \in Int : Allowed(s, t)
      BY Zenon, <1>2, <2>1, AllowIs
    <3>2. ASSUME NEW k \in DOMAIN buckets', k # s PROVE Owing(k)'
      BY Zenon, <1>2, <3>1, <3>2 DEF Allowed, settings, OwingInv, Owing
    <3> DEFINE n == Before(buckets, s, t)
               T == rate * t
               N == rate * now
    <3>3. /\ n \in Int /\ T \in Int /\ N \in Int /\ T <= N /\ N <= T + rate * Skew
          /\ rate * (now - t) = N - T
      BY Zenon, <1>2, <3>1, BeforeIs, RateTimes DEF LimiterType, Allowed
    <3>4. n + V + (N - T) >= 0
      <4>1. CASE n = burst
        <5> HIDE DEF n, T, N, V, W
        <5> QED BY <2>a, <2>b, <3>3, <4>1
      <4>2. CASE n # burst
        <5>1. s \in DOMAIN buckets /\ n = buckets[s].tokens + rate * (t - buckets[s].last)
          BY Zenon, <1>2, <4>2, BeforeIs DEF LimiterType
        <5> DEFINE x == buckets[s].tokens
                   L == rate * buckets[s].last
        <5>2. /\ x \in Int /\ L \in Int /\ rate * (t - buckets[s].last) = T - L
              /\ rate * (now - buckets[s].last) = N - L
          <6>1. x \in Int /\ buckets[s].last \in Int
            BY Zenon, <2>b, <5>1
          <6>2. L \in Int /\ rate * (t - buckets[s].last) = T - L
            BY <2>b, <6>1, Mult
          <6>3. rate * (now - buckets[s].last) = N - L
            BY <2>b, <6>1, Mult
          <6> QED BY Zenon, <6>1, <6>2, <6>3
        <5>3. x + V + (N - L) >= 0
          BY Zenon, <1>2, <5>1, <5>2 DEF OwingInv, Owing
        <5>4. n = x + (T - L)
          BY Zenon, <5>1, <5>2
        <5> HIDE DEF n, T, N, V, W, x, L
        <5> QED BY <2>a, <3>3, <5>2, <5>3, <5>4
      <4> QED BY Zenon, <4>1, <4>2
    <3>5. AfterCall(n) >= 0 \/ AfterCall(n) = n
      BY <2>b, <3>3 DEF AfterCall
    <3>6. AfterCall(n) \in Int
      BY <2>b, <3>3 DEF AfterCall
    <3>7. AfterCall(n) + V + (N - T) >= 0 /\ AfterCall(n) + (V + W) >= 0
      <4> DEFINE m == AfterCall(n)
                 K == rate * Skew
      <4> HIDE DEF n, T, N, V, W, K, m
      <4>1. m \in Int /\ (m >= 0 \/ m = n)
        BY Zenon, <3>5, <3>6 DEF m
      <4>2. K \in Nat /\ K <= W /\ N <= T + K /\ W \in Nat /\ V \in Nat
        BY Zenon, <2>a, <3>3 DEF K
      <4>3. m + V + (N - T) >= 0 /\ m + (V + W) >= 0
        BY <3>3, <3>4, <4>1, <4>2
      <4> QED BY Zenon, <4>3 DEF m
    <3>8. /\ buckets'[s].tokens = AfterCall(n) /\ buckets'[s].last = t
          /\ rate' = rate /\ now' = now /\ reloads' = reloads
      BY <3>1 DEF Allowed, settings
    <3>9. Owing(s)'
      <4>1. rate' * (now' - buckets'[s].last) = N - T
        BY Zenon, <3>3, <3>8
      <4>2. (reloads' + 1) * (MaxRate * Skew) = V + W /\ reloads' * (MaxRate * Skew) = V
        BY Zenon, <2>a, <3>8
      <4> HIDE DEF n, T, N, V, W
      <4> QED BY Zenon, <3>7, <3>8, <4>1, <4>2 DEF Owing
    <3> QED BY Zenon, <3>2, <3>9 DEF OwingInv
  <2>2. ASSUME NEW c \in Caller, Enter(c) PROVE OwingInv'
    BY Zenon, <1>2, <2>2 DEF Enter, settings, OwingInv, Owing
  <2>3. ASSUME NEW r \in Rates, Update(r), NEW s \in DOMAIN buckets' PROVE Owing(s)'
    <3>1. /\ s \in DOMAIN buckets /\ rate' = r /\ now' = now /\ reloads' = reloads + 1
          /\ buckets'[s].last = buckets[s].last
          /\ \/ buckets'[s].tokens = buckets[s].tokens
             \/ buckets'[s].tokens = BurstOf(r)
      <4>1. r = 0 \/ r > 0
        BY RateFacts
      <4> QED BY Zenon, <1>2, <2>3, <4>1, UpdateIs DEF Least
    <3>2. r \in Nat /\ BurstOf(r) \in Nat
      BY Zenon, RateFacts
    <3> DEFINE x == buckets[s].tokens
               y == buckets'[s].tokens
               N == r * (now - buckets[s].last)
    <3>3. N \in Nat
      <4>1. now - buckets[s].last \in Int /\ now - buckets[s].last >= 0
        BY <2>b, <3>1
      <4> QED BY <3>2, <4>1, Mult
    <3>4. x \in Int /\ y \in Int /\ (y = x \/ y >= 0) /\ x + (V + W) >= 0
      BY <1>2, <2>a, <2>b, <3>1, <3>2 DEF OwingInv, Owing
    <3>5. rate' * (now' - buckets'[s].last) = N
      BY Zenon, <3>1
    <3>6. (reloads' + 1) * (MaxRate * Skew) = V + W + W /\ reloads' * (MaxRate * Skew) = V + W
      BY Zenon, <2>a, <3>1
    <3> HIDE DEF x, y, N, V, W
    <3>7. y + (V + W + W) >= 0 /\ y + (V + W) + N >= 0
      BY <2>a, <3>3, <3>4
    <3> QED BY Zenon, <3>5, <3>6, <3>7 DEF Owing, y
  <2>4. ASSUME Advance, NEW s \in DOMAIN buckets' PROVE Owing(s)'
    <3>1. /\ now' = now + 1 /\ rate' = rate /\ buckets' = buckets /\ reloads' = reloads
          /\ s \in DOMAIN buckets
      BY Zenon, <2>4 DEF Advance, settings
    <3> DEFINE x == buckets[s].tokens
               N == rate * (now - buckets[s].last)
    <3>2. rate' * (now' - buckets'[s].last) = N + rate
      <4>1. /\ buckets[s].last \in Int /\ now - buckets[s].last \in Int
            /\ rate * ((now - buckets[s].last) + 1) = N + rate * 1
        BY <2>b, <3>1, Mult
      <4>2. now' - buckets'[s].last = (now - buckets[s].last) + 1
        <5>1. \A l \in Int : (now + 1) - l = (now - l) + 1
          BY <2>b
        <5>2. buckets'[s].last = buckets[s].last
          BY Zenon, <3>1
        <5> QED BY <3>1, <4>1, <5>1, <5>2, Zenon
      <4>3. rate' * (now' - buckets'[s].last) = rate * ((now - buckets[s].last) + 1)
        BY <3>1, <4>2, Zenon
      <4> QED BY <2>b, <4>1, <4>3
    <3>3. N \in Int /\ x \in Int /\ x + V + N >= 0 /\ x + (V + W) >= 0
      BY <1>2, <2>a, <2>b, <3>1 DEF OwingInv, Owing
    <3>4. /\ buckets'[s].tokens = x /\ (reloads' + 1) * (MaxRate * Skew) = V + W
          /\ reloads' * (MaxRate * Skew) = V
      BY Zenon, <2>a, <3>1
    <3> HIDE DEF x, N, V, W
    <3>5. x + V + (N + rate) >= 0
      BY <2>a, <2>b, <3>3
    <3> QED BY Zenon, <3>2, <3>3, <3>4, <3>5 DEF Owing
  <2>5. CASE UNCHANGED limiterVars
    BY Zenon, <1>2, <2>5 DEF limiterVars, settings, OwingInv, Owing
  <2> QED
    BY Zenon, <1>2, <2>1, <2>2, <2>3, <2>4, <2>5 DEF LimiterNext, OwingInv
<1> QED BY Zenon, <1>1, <1>2

\* A forgotten source has been idle for the eviction time, and would by now be
\* back at the burst of any enabled rate.
Repaid(b) ==
  /\ now - b.last >= IdleTicks
  /\ \A r \in Rates \ {0} : b.tokens + (now - Skew - b.last) * r >= BurstOf(r)

\* The limiter agrees with the ideal one, but for a source charged by a caller
\* that was still waiting when limiting was disabled.
Agrees(s) ==
  IF s \in DOMAIN buckets
  THEN buckets[s] = ideal[s] \/ (rate = 0 /\ buckets[s].last >= since - Skew)
  ELSE Repaid(ideal[s])

IdealInv == \A s \in DOMAIN ideal : Agrees(s)

\* A bucket that owes no more than the largest debt is repaid after IdleTicks.
LEMMA IdleRepays ==
  ASSUME LimiterType, NEW b \in [tokens : Int, last : Int],
         now - b.last >= IdleTicks, b.tokens + Debt >= 0
  PROVE  Repaid(b)
<1> SUFFICES ASSUME NEW r \in Rates, r # 0
             PROVE  b.tokens + (now - Skew - b.last) * r >= BurstOf(r)
  BY Zenon DEF Repaid
<1>1. /\ r \in Nat /\ BurstOf(r) \in Nat /\ Debt \in Nat /\ now \in Int /\ Skew \in Nat
      /\ IdleTicks \in Nat /\ (IdleTicks - Skew) * r >= BurstOf(r) + Debt
      /\ b.tokens \in Int /\ b.last \in Int
  BY Zenon, RateFacts DEF LimiterType
<1> DEFINE d == now - Skew - b.last
           e == IdleTicks - Skew
<1>2. d \in Int /\ e \in Int /\ e <= d
  BY <1>1
<1> HIDE DEF d, e
<1>3. r * e <= r * d /\ r * e = e * r /\ r * d = d * r /\ e * r \in Int /\ d * r \in Int
  BY <1>1, <1>2, Mult
<1> DEFINE P == d * r
           Q == e * r
<1>4. Q <= P /\ Q \in Int /\ P \in Int
  BY Zenon, <1>3
<1>5. Q >= BurstOf(r) + Debt
  BY Zenon, <1>1 DEF e
<1> HIDE DEF P, Q
<1>6. b.tokens + P >= BurstOf(r)
  BY <1>1, <1>4, <1>5
<1> QED BY Zenon, <1>6 DEF P, d

\* Initially both tables are empty, and every step keeps them in agreement.
LEMMA IdealStep ==
  /\ LimiterInit => IdealInv
  /\ LimiterType /\ LimiterType' /\ OwingInv /\ IdealInv /\ [LimiterNext]_limiterVars
       => IdealInv'
<1>1. LimiterInit => IdealInv
  BY Zenon DEF LimiterInit, IdealInv
<1>2. ASSUME LimiterType, LimiterType', OwingInv, IdealInv, [LimiterNext]_limiterVars
      PROVE  IdealInv'
  <2>a. /\ rate \in Nat /\ now \in Int /\ since \in Int /\ since <= now /\ Skew \in Nat
        /\ burst \in Nat /\ IdleTicks \in Nat /\ IdleTicks > Skew /\ Debt \in Nat
    BY Zenon, <1>2, RateFacts DEF LimiterType
  <2>b. /\ \A s \in DOMAIN buckets : /\ s \in DOMAIN ideal
                                     /\ buckets[s] \in [tokens : Int, last : Int]
        /\ \A s \in DOMAIN ideal : s \in Src /\ ideal[s] \in [tokens : Int, last : Int]
    BY Zenon, <1>2 DEF LimiterType, IsTable
  <2>c. \A s \in DOMAIN ideal : Agrees(s)
    BY Zenon, <1>2 DEF IdealInv
  <2>1. ASSUME NEW c \in Caller, Allow(c) PROVE IdealInv'
    <3>1. PICK s \in Src, t \in Int : Allowed(s, t)
      BY Zenon, <1>2, <2>1, AllowIs
    <3>2. /\ UNCHANGED <<now, rate, since>> /\ t <= now /\ now <= t + Skew
          /\ rate = 0 => t <= since
      BY Zenon, <3>1 DEF Allowed, settings
    <3>3. ASSUME NEW k \in DOMAIN ideal', k # s PROVE Agrees(k)'
      <4>1. /\ k \in DOMAIN ideal /\ ideal'[k] = ideal[k]
            /\ k \in DOMAIN buckets' => k \in DOMAIN buckets /\ buckets'[k] = buckets[k]
            /\ k \in DOMAIN buckets \ DOMAIN buckets' => buckets[k].last < t - IdleTicks
        BY Zenon, <3>1, <3>3 DEF Allowed
      <4>2. CASE k \in DOMAIN buckets'
        BY Zenon, <2>c, <3>2, <4>1, <4>2 DEF Agrees
      <4>3. CASE k \notin DOMAIN buckets
        BY Zenon, <2>c, <3>2, <4>1, <4>3 DEF Agrees, Repaid
      <4>4. CASE k \in DOMAIN buckets \ DOMAIN buckets'
        <5>1. buckets[k].last < t - IdleTicks /\ buckets[k].last \in Int /\ buckets[k].tokens \in Int
          BY Zenon, <2>b, <4>1, <4>4
        <5>2. buckets[k] = ideal[k]
          <6>1. ~(rate = 0 /\ buckets[k].last >= since - Skew)
            BY <2>a, <3>2, <5>1
          <6> QED BY Zenon, <2>c, <4>1, <4>4, <6>1 DEF Agrees
        <5>3. now - ideal[k].last >= IdleTicks
          BY <2>a, <3>2, <5>1, <5>2
        <5>4. ideal[k].tokens + Debt >= 0
          <6>1. (reloads + 1) * (MaxRate * Skew) <= Debt
            BY Zenon, <1>2, RateFacts DEF LimiterType
          <6>2. (reloads + 1) * (MaxRate * Skew) \in Nat
            BY <1>2, DebtIs
          <6>3. buckets[k].tokens + (reloads + 1) * (MaxRate * Skew) >= 0
            BY Zenon, <1>2, <4>4 DEF OwingInv, Owing
          <6> DEFINE V == (reloads + 1) * (MaxRate * Skew)
          <6> HIDE DEF V
          <6> QED BY <2>a, <5>1, <5>2, <6>1, <6>2, <6>3 DEF V
        <5>5. Repaid(ideal[k])
          BY Zenon, <1>2, <2>b, <4>1, <5>3, <5>4, IdleRepays
        <5> QED BY Zenon, <3>2, <4>1, <4>4, <5>5 DEF Agrees, Repaid
      <4> QED BY Zenon, <4>1, <4>2, <4>3, <4>4
    <3>4. Agrees(s)'
      <4>1. /\ s \in DOMAIN buckets' /\ buckets'[s] = [tokens |-> AfterCall(Before(buckets, s, t)), last |-> t]
            /\ ideal'[s] = [tokens |-> AfterCall(Before(ideal, s, t)), last |-> t]
        BY Zenon, <3>1 DEF Allowed
      <4>2. CASE rate = 0
        <5>1. buckets'[s].last >= since - Skew
          BY <2>a, <3>2, <4>1
        <5> QED BY Zenon, <3>2, <4>1, <4>2, <5>1 DEF Agrees
      <4>3. CASE rate > 0
        <5>1. Before(buckets, s, t) = Before(ideal, s, t)
          <6>1. CASE s \in DOMAIN buckets
            BY <2>b, <2>c, <4>3, <6>1 DEF Agrees, Before
          <6>2. CASE s \notin DOMAIN ideal
            BY Zenon, <2>b, <6>2 DEF Before
          <6>3. CASE s \in DOMAIN ideal \ DOMAIN buckets
            <7>1. rate \in Rates /\ rate # 0 /\ burst = BurstOf(rate) /\ IsTable(ideal)
              BY <1>2, <4>3 DEF LimiterType
            <7> DEFINE x == ideal[s].tokens
                       d == now - Skew - ideal[s].last
                       e == t - ideal[s].last
            <7>2. x + d * rate >= burst
              BY Zenon, <2>c, <6>3, <7>1 DEF Agrees, Repaid
            <7>3. d \in Int /\ e \in Int /\ d <= e /\ x \in Int
              BY <2>a, <2>b, <3>2, <6>3
            <7> HIDE DEF d, e, x
            <7>4. rate * d <= rate * e /\ rate * d = d * rate /\ rate * d \in Int /\ rate * e \in Int
              BY <2>a, <7>3, Mult
            <7>5. x + rate * e >= burst
              <8> DEFINE P == d * rate
                         Q == rate * e
              <8>1. P <= Q /\ P \in Int /\ Q \in Int /\ x + P >= burst
                BY Zenon, <7>2, <7>4
              <8> HIDE DEF P, Q
              <8>2. x + Q >= burst
                BY <2>a, <7>3, <8>1
              <8> QED BY Zenon, <8>2 DEF Q
            <7>6. Before(ideal, s, t) = burst
              BY Zenon, <1>2, <6>3, <7>1, <7>5, BeforeIs DEF x, e
            <7> QED BY Zenon, <6>3, <7>6 DEF Before
          <6> QED BY Zenon, <6>1, <6>2, <6>3
        <5> QED BY Zenon, <4>1, <5>1 DEF Agrees
      <4> QED BY <2>a, <4>2, <4>3
    <3> QED BY Zenon, <3>3, <3>4 DEF IdealInv
  <2>2. ASSUME NEW c \in Caller, Enter(c) PROVE IdealInv'
    BY Zenon, <1>2, <2>2 DEF Enter, settings, IdealInv, Agrees, Repaid
  <2>3. ASSUME NEW r \in Rates, Update(r), NEW s \in DOMAIN ideal' PROVE Agrees(s)'
    <3>1. /\ r # rate /\ rate' = r /\ now' = now /\ r \in Nat /\ s \in DOMAIN ideal
          /\ s \in DOMAIN buckets' <=> s \in DOMAIN buckets
      BY Zenon, <1>2, <2>3, UpdateIs, RateFacts DEF Update
    <3>2. CASE r = 0
      <4>1. buckets' = buckets /\ ideal' = ideal
        BY Zenon, <1>2, <2>3, <3>2, UpdateIs
      <4> QED BY Zenon, <2>c, <3>1, <3>2, <4>1 DEF Agrees, Repaid
    <3>3. CASE r > 0 /\ s \in DOMAIN buckets
      <4>1. buckets'[s] = ideal'[s]
        BY ZenonT(30), <1>2, <2>3, <3>3, UpdateIs
      <4> QED BY Zenon, <3>1, <3>3, <4>1 DEF Agrees
    <3>4. CASE r > 0 /\ s \notin DOMAIN buckets
      <4>1. Repaid(ideal[s])
        BY Zenon, <2>c, <3>1, <3>4 DEF Agrees
      <4>2. /\ ideal'[s].last = ideal[s].last
            /\ ideal'[s].tokens = ideal[s].tokens \/ ideal'[s].tokens = BurstOf(r)
        BY Zenon, <1>2, <2>3, <3>1, <3>4, UpdateIs DEF Least
      <4>3. CASE ideal'[s].tokens = ideal[s].tokens
        <5>1. Repaid(ideal[s])'
          BY Zenon, <3>1, <4>1, <4>2, <4>3 DEF Repaid
        <5> QED BY Zenon, <3>1, <3>4, <5>1 DEF Agrees
      <4>4. CASE ideal'[s].tokens = BurstOf(r)
        <5> DEFINE b == [tokens |-> BurstOf(r), last |-> ideal[s].last]
        <5>1. BurstOf(r) \in Nat /\ ideal[s].last \in Int /\ now - ideal[s].last >= IdleTicks
          BY Zenon, <2>b, <3>1, <4>1, RateFacts DEF Repaid
        <5>2. b \in [tokens : Int, last : Int] /\ now - b.last >= IdleTicks /\ b.tokens + Debt >= 0
          BY <2>a, <5>1
        <5>3. Repaid(b)
          BY Zenon, <1>2, <5>2, IdleRepays
        <5>4. Repaid(ideal[s])'
          BY Zenon, <3>1, <4>2, <4>4, <5>3 DEF Repaid
        <5> QED BY Zenon, <3>1, <3>4, <5>4 DEF Agrees
      <4> QED BY Zenon, <4>2, <4>3, <4>4
    <3> QED BY <3>1, <3>2, <3>3, <3>4
  <2>4. ASSUME Advance, NEW s \in DOMAIN ideal' PROVE Agrees(s)'
    <3>1. /\ now' = now + 1 /\ rate' = rate /\ buckets' = buckets /\ ideal' = ideal
          /\ since' = since /\ s \in DOMAIN ideal
      BY Zenon, <2>4 DEF Advance, settings
    <3>2. CASE s \in DOMAIN buckets
      BY Zenon, <2>c, <3>1, <3>2 DEF Agrees
    <3>3. CASE s \notin DOMAIN buckets
      <4>1. Repaid(ideal[s])
        BY Zenon, <2>c, <3>1, <3>3 DEF Agrees
      <4> DEFINE x == ideal[s].tokens
                 l == ideal[s].last
      <4>2. x \in Int /\ l \in Int
        BY Zenon, <2>b, <3>1
      <4>3. now + 1 - l >= IdleTicks
        BY <2>a, <4>1, <4>2 DEF Repaid
      <4>4. ASSUME NEW r \in Rates, r # 0 PROVE x + (now + 1 - Skew - l) * r >= BurstOf(r)
        <5>1. r \in Nat /\ BurstOf(r) \in Nat
          BY Zenon, RateFacts
        <5> DEFINE d == now - Skew - l
                   e == now + 1 - Skew - l
        <5>2. x + d * r >= BurstOf(r)
          BY Zenon, <4>1, <4>4 DEF Repaid
        <5>3. d \in Int /\ e \in Int /\ d <= e
          BY <2>a, <4>2
        <5> HIDE DEF d, e, x, l
        <5>4. r * d <= r * e /\ r * d = d * r /\ r * e = e * r /\ d * r \in Int /\ e * r \in Int
          BY <5>1, <5>3, Mult
        <5> DEFINE P == d * r
                   Q == e * r
        <5>5. P <= Q /\ P \in Int /\ Q \in Int /\ x + P >= BurstOf(r)
          BY Zenon, <5>2, <5>4
        <5> HIDE DEF P, Q
        <5>6. x + Q >= BurstOf(r)
          BY <4>2, <5>1, <5>5
        <5> QED BY Zenon, <5>6 DEF Q, e
      <4>5. Repaid(ideal[s])'
        <5>1. /\ ideal'[s].tokens = x /\ now' - Skew - ideal'[s].last = now + 1 - Skew - l
              /\ now' - ideal'[s].last = now + 1 - l
          BY <2>a, <3>1, <4>2
        <5>2. ASSUME NEW r \in Rates \ {0}
              PROVE  ideal'[s].tokens + (now' - Skew - ideal'[s].last) * r >= BurstOf(r)
          <6>1. x + (now + 1 - Skew - l) * r >= BurstOf(r)
            BY Zenon, <4>4
          <6> HIDE DEF x, l
          <6> QED BY Zenon, <5>1, <6>1
        <5> QED BY Zenon, <4>3, <5>1, <5>2 DEF Repaid
      <4> QED BY Zenon, <3>1, <3>3, <4>5 DEF Agrees
    <3> QED BY Zenon, <3>2, <3>3
  <2>5. CASE UNCHANGED limiterVars
    BY Zenon, <1>2, <2>5 DEF limiterVars, settings, IdealInv, Agrees, Repaid
  <2> QED
    BY Zenon, <1>2, <2>1, <2>2, <2>3, <2>4, <2>5 DEF LimiterNext, IdealInv
<1> QED BY Zenon, <1>1, <1>2

\* Evicting idle buckets is never visible in a decision of the limiter, for
\* any number of sources, callers and reloads.
THEOREM EvictionNeverVisible == LimiterSpec => []EvictionInvisible
<1>1. LimiterType /\ IdealInv => EvictionInvisible
  BY RateFacts DEF LimiterType, IdealInv, Agrees, Repaid, EvictionInvisible
<1>2. LimiterInit => LimiterType /\ OwingInv /\ IdealInv
  BY Zenon, LimiterTypeInit, OwingStep, IdealStep
<1>3. LimiterType /\ OwingInv /\ IdealInv /\ [LimiterNext]_limiterVars
        => (LimiterType /\ OwingInv /\ IdealInv)'
  BY Zenon, LimiterTypeStep, OwingStep, IdealStep
<1> QED
  BY <1>1, <1>2, <1>3, PTL DEF LimiterSpec
=============================================================================
