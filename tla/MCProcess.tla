------------------------------ MODULE MCProcess ------------------------------
(***************************************************************************)
(* Small instance of Process for TLC: a file as generated, one with other  *)
(* sources and another prefix, one that turns NAT64 off, one that turns    *)
(* DNS64 off and has a word its Reload refuses, one that Validate refuses, *)
(* and one that does not parse.                                            *)
(***************************************************************************)
EXTENDS Process

CONSTANTS P1, P2, PKey

MCPrefix == {P1, P2, PKey}
MCEnvSources == {Nil, {"env"}, {Bad}}

\* Numeric keys left unset.
Unset(default) == [k \in DOMAIN default |-> 0]

Zone(p) == [domains |-> {"."}, prefix |-> p, ipv6 |-> FALSE, forwarder |-> ""]

Generated ==
  [AllowedSources |-> {"client"}, IgnoredDstSubnets |-> Nil,
   Dns64AAAAExcludedSubnets |-> {},
   Nat64Enable |-> TRUE, Nat64Pool |-> P1, nat64 |-> Unset(Nat64Default),
   Nat64UdpFiltering |-> "", Nat64PortParity |-> "preserve",
   Dns64Enable |-> TRUE, Dns64Listen |-> "node", Dns64Default |-> "8.8.8.8:53",
   dns64 |-> Unset(Dns64Default), Dns64InvalidAddress |-> "",
   Dns64Zones |-> {Zone(P1)},
   Dns64Static |-> {[name |-> "host", spelling |-> "upper", addr |-> "ip"]}]

MCFiles ==
  {Generated,
   [Generated EXCEPT !.AllowedSources = {"other"}, !.IgnoredDstSubnets = {"net"},
                     !.Nat64Pool = P2, !.Dns64Zones = {Zone(P2)},
                     !.nat64.Nat64UdpTimeout = 120],
   [Generated EXCEPT !.Nat64Enable = FALSE, !.Nat64Pool = ""],
   [Generated EXCEPT !.AllowedSources = {"other"}, !.Dns64Enable = FALSE,
                     !.Dns64InvalidAddress = "unknown"],
   [Generated EXCEPT !.nat64.Nat64TcpTimeout = 7439],
   Nil}
=============================================================================
