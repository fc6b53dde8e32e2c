----------------------------- MODULE MCManager ------------------------------
(* Two peers and a handful of NLRIs: n1 and n2 are different NLRIs of one  *)
(* ACL rule (an omitted and an explicit any-prefix), n3 is another IPv4    *)
(* rule, n4 an IPv6 rule with the same text, as both have no prefix, and   *)
(* n5 is not translatable.                                                 *)
EXTENDS Manager

MCNlris == {"n1", "n2", "n3", "n4", "n5"}
MCKeys == {"k1", "k3", "k4"}
MCRouteIdentity == [n1 |-> "t1", n2 |-> "t2", n3 |-> "t3", n4 |-> "t3", n5 |-> "t5"]
MCRoutes == {MCRouteIdentity[n] : n \in MCNlris}
MCAclKey == [n1 |-> "k1", n2 |-> "k1", n3 |-> "k3", n4 |-> "k4", n5 |-> NoKey]
MCKeyFamily == [k1 |-> "ip4", k3 |-> "ip4", k4 |-> "ip6"]
=============================================================================
