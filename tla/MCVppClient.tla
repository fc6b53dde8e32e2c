---------------------------- MODULE MCVppClient -----------------------------
(* Two interfaces, interchangeable.  VPP may hold an ACL of the operator,  *)
(* and the pair of an agent that was killed, on every interface.           *)
EXTENDS VppClient, TLC

Everywhere(a, l) == [acls |-> a, lists |-> [i \in Ifaces |-> l]]

NoAcls == [i \in {} |-> [tag |-> Manual, rules |-> NoRules]]

WithPair(v, i) ==
  [acls  |-> v.acls @@ i :> [tag |-> "ip4", rules |-> NoRules]
                    @@ i + 1 :> [tag |-> "ip6", rules |-> NoRules],
   lists |-> [j \in Ifaces |-> MergeManagedLast(v.lists[j], {}, <<i, i + 1>>, dir)]]

Bare == Everywhere(NoAcls, EmptyList)

OneManual ==
  Everywhere(0 :> [tag |-> Manual, rules |-> NoRules], [acls |-> <<0>>, nInput |-> 1])

MCFirst == {Bare, OneManual, WithPair(Bare, 0), WithPair(OneManual, 1)}
BootBare == {Bare}
BootManual == {OneManual}

Symmetric == Permutations(Ifaces)
=============================================================================
