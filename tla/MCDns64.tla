------------------------------- MODULE MCDns64 -------------------------------
(* Small instances of Dns64. *)
EXTENDS Dns64, TLC

CONSTANTS V6, V4, Pool, Alias

ClientSymmetry == Permutations(Client)

MCArpa == <<"ipv4only", "arpa">>
MCName == {<<"x", "a">>, <<"b">>, MCArpa}

NoStatic == [n \in {} |-> 0]

Zone(domains, prefix, v4, v6) == [domains |-> domains, prefix |-> prefix, v4 |-> v4, v6 |-> v6]

Root == << >>

Conf(zones, ia, ignored, excluded, static0, exp, max) ==
  [zones |-> zones, ia |-> ia, ignored |-> ignored, excluded |-> excluded, static |-> static0,
   exp |-> exp, max |-> max]

\* The catch-all passes IPv6 on and "a" is synthesised; then the other way
\* round, with a blocked zone, an exclusion, a static name and a smaller cache.
Swap == {Conf(<<Zone({Root}, None, TRUE, TRUE), Zone({<<"a">>}, Pool, FALSE, FALSE)>>,
              "ignore", {}, {}, NoStatic, 2, 2),
         Conf(<<Zone({<<"arpa">>}, None, FALSE, FALSE), Zone({<<"a">>}, None, FALSE, TRUE),
                Zone({Root}, Pool, FALSE, FALSE)>>,
              "process", {V4}, {V6}, [n \in {<<"b">>} |-> [v4 |-> FALSE, val |-> V6]], 1, 1)}

Up(rcode, rrs, soa) == [rcode |-> rcode, rrs |-> rrs, soa |-> soa]
Rec(type, val, ttl) == [type |-> type, val |-> val, ttl |-> ttl]

MCUpAAAA == {Up("ok", {Rec("AAAA", V6, 1)}, 1), Up("nx", {}, 1),
             Up("ok", {Rec("CNAME", Alias, 1)}, 1)}
MCUpA == {Up("ok", {Rec("A", V4, 2), Rec("A", Unspecified, 1), Rec("CNAME", Alias, 1)}, 600),
          Up("fail", {}, 600)}
MCRR == [type : {"A", "AAAA", "CNAME"}, val : {V6, V4, Unspecified, Alias, <<Pool, V4>>, <<Pool, Unspecified>>},
         ttl : 0..2, born : 0..MaxTime, life : 0..2, calm : {"yes", "no"}]
=============================================================================
