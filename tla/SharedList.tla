----------------------------- MODULE SharedList -----------------------------
(***************************************************************************)
(* One interface's ACL list under the agent and the operator.  The agent   *)
(* attaches its current pair, may come back with a new pair (after a       *)
(* reconnect or a restart, when the old pair has become an orphan that     *)
(* still carries its tag) and detaches on a clean exit.  Between two       *)
(* writes of the agent the operator inserts and removes indices anywhere   *)
(* in the list, input or output.                                           *)
(***************************************************************************)
EXTENDS AclList

CONSTANTS
  Manual,    \* the operator's ACL indices
  Pairs      \* the pairs of indices the agent gets, one per bootstrap

Agents == UNION {Range(p) : p \in Pairs}

(* VPP gives every ACL an index of its own.                                *)
ASSUME SharedListAssumption ==
  /\ Manual \subseteq Nat
  /\ Pairs \subseteq [1 .. 2 -> Nat] /\ \A p \in Pairs : IsInjective(p)
  /\ Manual \cap Agents = {}

VARIABLES
  list,      \* the interface's list in VPP
  bare,      \* history: the list as the operator alone would have it
  ours,      \* the agent's current pair, <<>> when it has none
  tagged,    \* the indices in VPP that carry the agent's tag
  dir        \* the configured direction, which a restart may change

vars == <<list, bare, ours, tagged, dir>>

Directions == {"ingress", "egress"}

Init ==
  /\ list = EmptyList
  /\ bare = EmptyList
  /\ ours = <<>>
  /\ tagged = {}
  /\ dir = "ingress"

(* bootstrapLocked, of a client that reconnects or of an agent that starts *)
(* anew, makes a new pair of ACLs; an old pair becomes orphans.            *)
Bootstrap(pair, d) ==
  /\ Range(pair) \cap tagged = {}
  /\ ours' = pair
  /\ dir' = d
  /\ tagged' = tagged \cup Range(pair)
  /\ UNCHANGED <<list, bare>>

(* attachLocked on this interface, when the tag dump works or fails: then  *)
(* only the current pair counts as managed.                                *)
Attach(dumped) ==
  /\ ours # <<>>
  /\ list' = MergeManagedLast(list, IF dumped THEN tagged ELSE Range(ours), ours, dir)
  /\ UNCHANGED <<bare, ours, tagged, dir>>

(* cleanupOnClose: detach, then delete the pair.                           *)
Close ==
  /\ ours # <<>>
  /\ list' = Detached(list, Range(ours))
  /\ ours' = <<>>
  /\ tagged' = tagged \ Range(ours)
  /\ UNCHANGED <<bare, dir>>

(* The operator puts index a into a direction, before the agent's pair or  *)
(* after it, or takes it out.                                              *)
Insert(a, d) ==
  /\ a \notin Range(list.acls)
  /\ \E front \in BOOLEAN :
       LET Put(l) ==
             LET in == Inputs(l, {})  out == Outputs(l, {})
                 With(s) == IF front THEN <<a>> \o s ELSE Append(s, a)
             IN IF d = "ingress" THEN Joined(With(in), out) ELSE Joined(in, With(out))
       IN list' = Put(list) /\ bare' = Put(bare)
  /\ UNCHANGED <<ours, tagged, dir>>

TakeOut(a) ==
  /\ a \in Range(list.acls)
  /\ list' = Detached(list, {a})
  /\ bare' = Detached(bare, {a})
  /\ UNCHANGED <<ours, tagged, dir>>

Next ==
  \/ \E pair \in Pairs, d \in Directions : Bootstrap(pair, d)
  \/ \E dumped \in BOOLEAN : Attach(dumped)
  \/ Close
  \/ \E a \in Manual : TakeOut(a) \/ \E d \in Directions : Insert(a, d)

Spec == Init /\ [][Next]_vars

-----------------------------------------------------------------------------
(* Attach and detach never clobber the operator's ACLs: without the ACLs   *)
(* that carry the agent's tag, each direction of the list is what the      *)
(* operator alone would have, in the same order (mergeManagedLast and      *)
(* detachManagedLocked recompute nInput for both directions).              *)
ManualPreserved ==
  Joined(Inputs(list, Agents), Outputs(list, Agents)) = bare

(* Where an attach leaves the pair: at the end of its direction and        *)
(* nowhere else, no index twice, and no orphan that the tag dump found.    *)
PairLast(dumped) ==
  LET in == Inputs(list', {})  out == Outputs(list', {})
      here  == IF dir = "ingress" THEN in ELSE out
      there == IF dir = "ingress" THEN out ELSE in
  IN /\ Len(ours) <= Len(here) /\ SubSeq(here, Len(here) - Len(ours) + 1, Len(here)) = ours
     /\ Range(there) \cap Range(ours) = {}
     /\ IsInjective(list'.acls)
     /\ dumped => Range(list'.acls) \cap tagged = Range(ours)

(* The agent's ACLs end in a permit-any that would shadow what follows, so *)
(* right after an attach nothing follows them in their direction and they  *)
(* are in the other direction nowhere; with the tag dump the orphans are   *)
(* off the list, so that cleanupTaggedExcept can delete them.  No index is *)
(* in the list twice, whatever was attached before: VPP refuses such a     *)
(* list, which would fail the bootstrap.                                   *)
OursLast == [][\A dumped \in BOOLEAN : Attach(dumped) => PairLast(dumped)]_vars
=============================================================================
