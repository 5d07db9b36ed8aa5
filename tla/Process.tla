------------------------------- MODULE Process -------------------------------
(***************************************************************************)
(* The process (src/cmd/ydn64/main.go): start-up, environment overrides,   *)
(* reload of the configuration file on SIGHUP, and shutdown.  The services *)
(* are what they were configured with, and whether they have work under    *)
(* way at shutdown; the read loop's cancellation of the context is one of  *)
(* the causes of Cancel.                                                   *)
(***************************************************************************)
EXTENDS Config

CONSTANTS
  Files,        \* contents the configuration file may have; Nil does not parse
  EnvSources,   \* values of YDN64_ALLOWED_SOURCES; Nil when it is not set
  MaxEdits      \* bound: edits of the file

ASSUME ProcessAssumption ==
  /\ MaxEdits \in Nat
  /\ \A f \in Files : f = Nil \/ AppConfig(f)

VARIABLES
  env,        \* YDN64_PRIVATE_KEY ("", "bad" or "good") and YDN64_ALLOWED_SOURCES
  file,       \* the configuration file
  edits,      \* edits made so far
  announced,  \* history: SIGHUP was sent since the last edit
  main,       \* where main is
  appCfg,     \* main's configuration
  ctxDone,    \* the process context is cancelled
  reloadCh,   \* signals in the channel, at most one
  reload,     \* where the reload goroutine is
  newCfg,     \* the configuration it is applying
  pool6,      \* prefix the netstack and NAT64 were created with
  nat64Svc,   \* the NAT64 service's settings; Nil when it does not run
  dns64Svc,   \* the DNS64 service's settings; Nil when it does not run
  busy        \* services that still have work under way at shutdown

processVars == <<env, file, edits, announced, main, appCfg, ctxDone, reloadCh, reload, newCfg,
          pool6, nat64Svc, dns64Svc, busy>>

ProcessInit ==
  /\ env \in [key : {"", "bad", "good"}, sources : EnvSources]
  /\ file \in Files /\ edits = 0 /\ announced = FALSE
  /\ main = "load" /\ appCfg = Nil
  /\ ctxDone = FALSE /\ reloadCh = 0
  /\ reload = "none" /\ newCfg = Nil
  /\ pool6 = Nil /\ nat64Svc = Nil /\ dns64Svc = Nil
  /\ busy = {}

Ended == main \in {"stopped", "exit"}
-----------------------------------------------------------------------------
(***************************************************************************)
(* The outside world.                                                      *)
(***************************************************************************)
Edit ==
  /\ ~Ended /\ edits < MaxEdits
  /\ file' \in Files \ {file}
  /\ edits' = edits + 1 /\ announced' = FALSE
  /\ UNCHANGED <<env, main, appCfg, ctxDone, reloadCh, reload, newCfg, pool6, nat64Svc,
                 dns64Svc, busy>>

\* Mutant of Capacity: an unbuffered channel.
CapacityZero == 0

\* Capacity of reloadCh.
Capacity == 1

\* signal.Notify does not block: a signal that finds the channel full is
\* dropped; without a buffer it is kept only if the goroutine is waiting.
Hup ==
  /\ ~Ended
  /\ announced' = TRUE
  /\ reloadCh' = IF reloadCh < Capacity \/ reload = "wait" THEN 1 ELSE reloadCh
  /\ UNCHANGED <<env, file, edits, main, appCfg, ctxDone, reload, newCfg, pool6, nat64Svc,
                 dns64Svc, busy>>

\* SIGINT, SIGTERM, or the read loop of the NIC giving up.
Cancel ==
  /\ ~Ended /\ ~ctxDone
  /\ ctxDone' = TRUE
  /\ UNCHANGED <<env, file, edits, announced, main, appCfg, reloadCh, reload, newCfg, pool6,
                 nat64Svc, dns64Svc, busy>>

\* External: the work a service still had when the context was cancelled ends.
WorkEnds ==
  /\ ~Ended
  /\ \E s \in busy : busy' = busy \ {s}
  /\ UNCHANGED <<env, file, edits, announced, main, appCfg, ctxDone, reloadCh, reload, newCfg,
                 pool6, nat64Svc, dns64Svc>>
-----------------------------------------------------------------------------
(***************************************************************************)
(* main.                                                                   *)
(***************************************************************************)
OutOfMain == <<env, file, edits, announced, ctxDone, reloadCh, newCfg, busy>>
Services == <<pool6, nat64Svc, dns64Svc>>

\* From one place in main to the next.
M(from, to) == main = from /\ main' = to

Loads(f) == f # Nil /\ ~Invalid(f)

Load ==
  /\ IF Loads(file) THEN M("load", "key") /\ appCfg' = Filled(file)
                    ELSE M("load", "exit") /\ UNCHANGED appCfg
  /\ UNCHANGED <<reload, Services, OutOfMain>>

\* An override is accepted if the configuration that results is valid.
Accept(from, to, c) ==
  IF Invalid(c) THEN M(from, "exit") /\ UNCHANGED appCfg
                ELSE M(from, to) /\ appCfg' = Filled(c)

OverrideKey ==
  /\ main = "key"
  /\ \/ env.key = "" /\ M("key", "sources") /\ UNCHANGED appCfg
     \/ env.key = "bad" /\ M("key", "exit") /\ UNCHANGED appCfg
     \/ env.key = "good" /\ Accept("key", "sources", ApplyPrivateKeyOverride(appCfg))

OverrideSources ==
  /\ main = "sources"
  /\ IF env.sources = Nil THEN M("sources", "core") /\ UNCHANGED appCfg
     ELSE Accept("sources", "core", [appCfg EXCEPT !.AllowedSources = env.sources])

Override ==
  /\ OverrideKey \/ OverrideSources
  /\ UNCHANGED <<reload, Services, OutOfMain>>

\* Core, admin socket and multicast, then the netstack with its NIC: each may
\* fail.
Core ==
  /\ M("core", "netstack") \/ M("core", "exit")
  /\ UNCHANGED <<appCfg, reload, Services, OutOfMain>>

CreateYdn64Netstack ==
  /\ \/ M("netstack", "nat64") /\ pool6' = IF appCfg.Nat64Enable THEN appCfg.Nat64Pool ELSE Nil
     \/ M("netstack", "exit") /\ UNCHANGED pool6
  /\ UNCHANGED <<appCfg, reload, nat64Svc, dns64Svc, OutOfMain>>

\* NewService fails on a pool that does not parse, which Validate has refused.
StartNat64 ==
  /\ M("nat64", "dns64")
  /\ nat64Svc' = IF appCfg.Nat64Enable THEN Nat64Settings(appCfg) ELSE Nil
  /\ UNCHANGED <<appCfg, reload, pool6, dns64Svc, OutOfMain>>

\* NewService or Start (its sockets) may fail.  Then the reload goroutine
\* starts, and the configuration main loaded serves for warnings only.
StartDns64 ==
  /\ \/ /\ M("dns64", "run") /\ reload' = "wait" /\ appCfg' = Nil
        /\ appCfg.Dns64Enable => ~parseIAFails(appCfg)
        /\ dns64Svc' = IF appCfg.Dns64Enable THEN Dns64Settings(appCfg) ELSE Nil
     \/ M("dns64", "exit") /\ appCfg.Dns64Enable /\ UNCHANGED <<appCfg, reload, dns64Svc>>
  /\ UNCHANGED <<pool6, nat64Svc, OutOfMain>>

\* Any flow or query may be under way.
ShutDown ==
  /\ ctxDone /\ M("run", "drainNat64")
  /\ busy' \in SUBSET ({"nat64" : s \in {nat64Svc} \ {Nil}} \cup {"dns64" : s \in {dns64Svc} \ {Nil}})
  /\ UNCHANGED <<appCfg, reload, Services, env, file, edits, announced, ctxDone, reloadCh, newCfg>>

\* Mutant of DrainEnds: no deadline.
DrainEndsIdle(s) == s \notin busy

\* Drain returns when the work is done or its deadline passes, which it may do at
\* any moment: work that never ends cannot hold it.
DrainEnds(s) == \E elapsed \in BOOLEAN : elapsed \/ s \notin busy

Drain ==
  /\ \/ M("drainNat64", "drainDns64") /\ DrainEnds("nat64")
     \/ M("drainDns64", "stop") /\ DrainEnds("dns64")
  /\ UNCHANGED <<appCfg, reload, Services, OutOfMain>>

Stop ==
  /\ M("stop", "stopped")
  /\ UNCHANGED <<appCfg, reload, Services, OutOfMain>>

Main ==
  \/ Load \/ Override \/ Core \/ CreateYdn64Netstack \/ StartNat64 \/ StartDns64
  \/ ShutDown \/ Drain \/ Stop
-----------------------------------------------------------------------------
(***************************************************************************)
(* The reload goroutine and reloadConfig.                                  *)
(***************************************************************************)
OutOfReload == <<env, file, edits, announced, main, appCfg, ctxDone, pool6, busy>>

R(from, to) == ~Ended /\ reload = from /\ reload' = to

\* The select takes either when both are ready.
Wait ==
  /\ \/ ctxDone /\ R("wait", "gone") /\ UNCHANGED reloadCh
     \/ reloadCh = 1 /\ R("wait", "load") /\ reloadCh' = 0
  /\ UNCHANGED <<newCfg, nat64Svc, dns64Svc, OutOfReload>>

\* Mutant of WithEnv: a reload does not apply the variable.
WithEnvNone(c) == c

WithEnv(c) ==
  IF env.sources = Nil THEN c ELSE Filled([c EXCEPT !.AllowedSources = env.sources])

\* Mutant of Order: NAT64 is reloaded before DNS64.
OrderNatFirst == <<"nat64", "dns64">>

\* DNS64 first, since its Reload can reject the configuration.
Order == <<"dns64", "nat64">>

Reread ==
  /\ IF Loads(file) /\ ~Invalid(WithEnv(Filled(file)))
     THEN R("load", Order[1]) /\ newCfg' = WithEnv(Filled(file))
     ELSE R("load", "wait") /\ UNCHANGED newCfg
  /\ UNCHANGED <<reloadCh, nat64Svc, dns64Svc, OutOfReload>>

\* Reloading a service leads to the next one; in the end reloadConfig returns.
After(s) == IF s = Order[1] THEN Order[2] ELSE "wait"
Goto(from, to) == R(from, to) /\ newCfg' = IF to = "wait" THEN Nil ELSE newCfg

ReloadDns64 ==
  /\ reload = "dns64"
  /\ IF dns64Svc = Nil THEN Goto("dns64", After("dns64")) /\ UNCHANGED dns64Svc
     ELSE IF parseIAFails(newCfg) THEN Goto("dns64", "wait") /\ UNCHANGED dns64Svc
     ELSE Goto("dns64", After("dns64")) /\ dns64Svc' = Dns64Settings(newCfg)
  /\ UNCHANGED <<reloadCh, nat64Svc, OutOfReload>>

ReloadNat64 ==
  /\ Goto("nat64", After("nat64"))
  /\ nat64Svc' = IF nat64Svc = Nil THEN Nil ELSE Nat64Settings(newCfg)
  /\ UNCHANGED <<reloadCh, dns64Svc, OutOfReload>>

Reload == Wait \/ Reread \/ ReloadDns64 \/ ReloadNat64

\* The process has ended.
Terminated == Ended /\ UNCHANGED processVars

ProcessNext == Edit \/ Hup \/ Cancel \/ WorkEnds \/ Main \/ Reload \/ Terminated

ProcessSpec == ProcessInit /\ [][ProcessNext]_processVars

\* Both goroutines run.
ProcessFairSpec == ProcessSpec /\ WF_processVars(Main) /\ WF_processVars(Reload)
-----------------------------------------------------------------------------
(***************************************************************************)
(* Properties.                                                             *)
(***************************************************************************)

\* Whenever no reload is under way the two services apply the same access
\* list and the same ignored networks, also after a reload one of them
\* refused (reloadConfig applies DNS64 first for this reason).
ServicesAgree ==
  (reload \in {"none", "wait", "gone"} /\ nat64Svc # Nil /\ dns64Svc # Nil) =>
    /\ nat64Svc.allowedNets = dns64Svc.allowedNets
    /\ nat64Svc.ignoredDstNets = dns64Svc.ignoredDstNets

\* An access list given in the environment is in force whatever the file says
\* and however often it is reloaded.
EnvSourcesKept ==
  env.sources # Nil =>
    \A s \in {nat64Svc, dns64Svc} : s # Nil => s.allowedNets = env.sources

\* What the services would be running on with file f.
Applied(f) ==
  LET c == WithEnv(Filled(f))
  IN  /\ nat64Svc # Nil => nat64Svc = Nat64Settings(c)
      /\ dns64Svc # Nil => dns64Svc = Dns64Settings(c)

Applicable(f) ==
  /\ Loads(f) /\ ~Invalid(WithEnv(Filled(f)))
  /\ ~parseIAFails(f)

\* When SIGHUP follows the last edit of the file, its contents end up in the
\* running services, however the signal and the edit raced with start-up or
\* with a reload that was under way; unless they are refused, or the process
\* ends.
AnnouncedApplied ==
  announced ~> \/ ~announced \/ ctxDone \/ Ended
               \/ ~Applicable(file)
               \/ reload = "wait" /\ Applied(file)

\* Once the context is cancelled the process ends, whatever its services are
\* still doing.
ShutdownCompletes == ctxDone ~> Ended

\* With YDN64_PRIVATE_KEY set, DNS64 synthesises only addresses that the NAT64
\* service running beside it translates.
KeyOverrideKept ==
  (env.key = "good" /\ nat64Svc # Nil /\ dns64Svc # Nil) =>
    {z.prefix : z \in dns64Svc.zones} \subseteq {pool6}
=============================================================================
