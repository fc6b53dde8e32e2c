-------------------------- MODULE SharedListProofs --------------------------
(***************************************************************************)
(* The list that the agent shares with the operator, for any sets of       *)
(* indices and any history of bootstraps, attaches, detaches and edits:    *)
(* the operator's ACLs are never touched and the agent's pair ends up      *)
(* last, in one direction and once.                                        *)
(***************************************************************************)
EXTENDS SharedList, AclListProofs

Indices == Manual \cup Agents

(* A list in two directions whose part without the agent's is b.           *)
Consists(l, b, in, out) ==
  /\ in \in Seq(Indices) /\ out \in Seq(Indices)
  /\ l = Joined(in, out)
  /\ IsInjective(in) /\ IsInjective(out) /\ Range(in) \cap Range(out) = {}
  /\ b = Joined(Kept(in, Agents), Kept(out, Agents))

(* The inductive invariant: no index is in the list twice, and what is     *)
(* not the operator's is an index of one of the agent's pairs; the current *)
(* pair carries the tag.                                                   *)
ListInv == Consists(list, bare, Inputs(list, {}), Outputs(list, {}))

PairInv ==
  /\ ours = <<>> \/ (ours \in Pairs /\ Range(ours) \subseteq tagged)
  /\ tagged \subseteq Agents
  /\ dir \in Directions

SharedInv == ListInv /\ PairInv

-----------------------------------------------------------------------------
(* Whatever two directions were joined, splitting the list finds them.     *)
LEMMA Rejoined ==
  ASSUME NEW l, NEW b, NEW in, NEW out, Consists(l, b, in, out)
  PROVE  /\ in = Inputs(l, {}) /\ out = Outputs(l, {})
         /\ Consists(l, b, Inputs(l, {}), Outputs(l, {}))
<1>1. in \in Seq(Indices) /\ out \in Seq(Indices) /\ l = Joined(in, out)
  BY Zenon DEF Consists
<1>2. Inputs(l, {}) = Kept(in, {}) /\ Outputs(l, {}) = Kept(out, {})
  BY <1>1, Halves
<1>3. Kept(in, {}) = in /\ Kept(out, {}) = out
  BY <1>1, KeptAll
<1> QED
  BY <1>2, <1>3, Zenon

(* A pair of the agent is a list of two of its own indices, of which       *)
(* nothing is the operator's.                                              *)
LEMMA PairIs ==
  ASSUME NEW p \in Pairs
  PROVE  /\ p \in Seq(Indices) /\ Len(p) = 2 /\ IsInjective(p)
         /\ Range(p) \subseteq Agents
         /\ Kept(p, Agents) = <<>>
<1>1. Range(p) \subseteq Agents
  BY DEF Agents
<1>2. p \in [1 .. 2 -> Nat] /\ IsInjective(p)
  BY SharedListAssumption
<1>3. p \in [1 .. 2 -> Indices]
  BY <1>1, <1>2 DEF Range, Indices
<1>4. p \in Seq(Indices) /\ Len(p) = 2
  <2> DEFINE q == <<p[1], p[2]>>
  <2>1. p[1] \in Indices /\ p[2] \in Indices
    BY <1>3
  <2>2. q \in Seq(Indices) /\ Len(q) = 2
    BY <2>1
  <2>3. p = q
    BY <1>3, <2>1
  <2> HIDE DEF q
  <2> QED
    BY <2>2, <2>3, Zenon
<1>5. Kept(p, Agents) = <<>>
  BY <1>1, <1>4, KeptNone
<1> QED
  BY <1>1, <1>2, <1>4, <1>5

(* Taking ACLs of the agent out of both directions leaves the operator's.  *)
LEMMA OursOut ==
  ASSUME NEW in \in Seq(Indices), NEW m, m \subseteq Agents
  PROVE  Kept(Kept(in, m), Agents) = Kept(in, Agents)
<1>1. m \cup Agents = Agents
  OBVIOUS
<1>2. Kept(Kept(in, m), Agents) = Kept(in, m \cup Agents)
  BY KeptTwice
<1> QED
  BY <1>1, <1>2, Zenon

(* Filtering both directions keeps them apart. *)
LEMMA StillApart ==
  ASSUME NEW in \in Seq(Indices), NEW out \in Seq(Indices), NEW m,
         IsInjective(in), IsInjective(out), Range(in) \cap Range(out) = {}
  PROVE  /\ Kept(in, m) \in Seq(Indices) /\ Kept(out, m) \in Seq(Indices)
         /\ IsInjective(Kept(in, m)) /\ IsInjective(Kept(out, m))
         /\ Range(Kept(in, m)) = Range(in) \ m /\ Range(Kept(out, m)) = Range(out) \ m
         /\ Range(Kept(in, m)) \cap Range(Kept(out, m)) = {}
<1>1. /\ Kept(in, m) \in Seq(Indices) /\ Range(Kept(in, m)) = Range(in) \ m
      /\ Kept(out, m) \in Seq(Indices) /\ Range(Kept(out, m)) = Range(out) \ m
  BY KeptRange
<1>2. IsInjective(Kept(in, m)) /\ IsInjective(Kept(out, m))
  BY KeptInjective
<1> QED
  BY <1>1, <1>2

(* The pair goes to the end of one direction, with all that is managed     *)
(* out of both.                                                            *)
LEMMA PairAdded ==
  ASSUME NEW s \in Seq(Indices), NEW p \in Pairs, NEW m, m \subseteq Agents,
         Range(p) \subseteq m, IsInjective(s)
  PROVE  LET t == Kept(s, m) \o p
         IN /\ t \in Seq(Indices) /\ IsInjective(t)
            /\ Range(t) = (Range(s) \ m) \cup Range(p)
            /\ Kept(t, Agents) = Kept(s, Agents)
            /\ Len(p) <= Len(t) /\ SubSeq(t, Len(t) - Len(p) + 1, Len(t)) = p
<1> DEFINE k == Kept(s, m)
           t == k \o p
<1>1. k \in Seq(Indices) /\ Range(k) = Range(s) \ m
  BY KeptRange
<1>2. IsInjective(k)
  BY KeptInjective
<1>3. p \in Seq(Indices) /\ Len(p) = 2 /\ IsInjective(p) /\ Kept(p, Agents) = <<>>
  BY PairIs
<1>4. Kept(k, Agents) = Kept(s, Agents)
  BY OursOut
<1>5. Kept(s, Agents) \in Seq(Indices)
  BY KeptRange
<1> HIDE DEF k
<1>6. t \in Seq(Indices)
  BY <1>1, <1>3
<1>7. IsInjective(t)
  BY <1>1, <1>2, <1>3, ConcatInjective
<1>8. Range(t) = (Range(s) \ m) \cup Range(p)
  BY <1>1, <1>3, ConcatRange
<1>9. Kept(t, Agents) = Kept(s, Agents)
  <2>0. p \in Seq(Indices) /\ k \in Seq(Indices)
    BY <1>1, <1>3
  <2>1. Kept(t, Agents) = Kept(k, Agents) \o Kept(p, Agents)
    BY <2>0, KeptConcat
  <2>2. Kept(s, Agents) \o <<>> = Kept(s, Agents)
    BY <1>5
  <2> QED
    BY <1>3, <1>4, <2>1, <2>2, Zenon
<1>10. Len(p) <= Len(t) /\ SubSeq(t, Len(t) - Len(p) + 1, Len(t)) = p
  <2>1. p \in Seq(Indices) /\ k \in Seq(Indices)
    BY <1>1, <1>3
  <2>2. Len(t) = Len(k) + Len(p) /\ Len(k) \in Nat /\ Len(p) \in Nat
    BY <2>1
  <2>3. Len(p) <= Len(t) /\ Len(t) - Len(p) + 1 = Len(k) + 1
    BY <2>2
  <2>4. SubSeq(t, Len(k) + 1, Len(t)) = p
    BY <2>1
  <2> HIDE DEF t
  <2> QED
    BY <2>3, <2>4, Zenon
<1> HIDE DEF t
<1>11. /\ t \in Seq(Indices) /\ IsInjective(t)
       /\ Range(t) = (Range(s) \ m) \cup Range(p)
       /\ Kept(t, Agents) = Kept(s, Agents)
       /\ Len(p) <= Len(t) /\ SubSeq(t, Len(t) - Len(p) + 1, Len(t)) = p
  BY <1>6, <1>7, <1>8, <1>9, <1>10, Zenon
<1> QED
  BY <1>11 DEF t, k

-----------------------------------------------------------------------------
(* mergeManagedLast in either direction: the operator's part stays, and    *)
(* no index is twice.                                                      *)
LEMMA MergedIngress ==
  ASSUME NEW l, NEW b, NEW in, NEW out, Consists(l, b, in, out),
         NEW p \in Pairs, NEW m, m \subseteq Agents, Range(p) \subseteq m
  PROVE  Consists(Joined(Kept(in, m) \o p, Kept(out, m)), b, Kept(in, m) \o p, Kept(out, m))
<1> DEFINE s == Kept(in, m) \o p
           t == Kept(out, m)
<1>1. /\ in \in Seq(Indices) /\ out \in Seq(Indices)
      /\ IsInjective(in) /\ IsInjective(out) /\ Range(in) \cap Range(out) = {}
      /\ b = Joined(Kept(in, Agents), Kept(out, Agents))
  BY Zenon DEF Consists
<1>2. t \in Seq(Indices) /\ IsInjective(t) /\ Range(t) = Range(out) \ m
  BY <1>1, StillApart
<1>3. /\ s \in Seq(Indices) /\ IsInjective(s)
      /\ Range(s) = (Range(in) \ m) \cup Range(p)
      /\ Kept(s, Agents) = Kept(in, Agents)
  BY <1>1, PairAdded, Zenon
<1>4. Kept(t, Agents) = Kept(out, Agents)
  BY <1>1, OursOut
<1> HIDE DEF s, t
<1>5. Range(s) \cap Range(t) = {}
  BY <1>1, <1>2, <1>3
<1>6. Consists(Joined(s, t), b, s, t)
  BY <1>1, <1>2, <1>3, <1>4, <1>5, Zenon DEF Consists
<1> QED
  BY <1>6 DEF s, t

(* The same for a pair that is put in the output direction. *)
LEMMA MergedEgress ==
  ASSUME NEW l, NEW b, NEW in, NEW out, Consists(l, b, in, out),
         NEW p \in Pairs, NEW m, m \subseteq Agents, Range(p) \subseteq m
  PROVE  Consists(Joined(Kept(in, m), Kept(out, m) \o p), b, Kept(in, m), Kept(out, m) \o p)
<1> DEFINE s == Kept(in, m)
           t == Kept(out, m) \o p
<1>1. /\ in \in Seq(Indices) /\ out \in Seq(Indices)
      /\ IsInjective(in) /\ IsInjective(out) /\ Range(in) \cap Range(out) = {}
      /\ b = Joined(Kept(in, Agents), Kept(out, Agents))
  BY Zenon DEF Consists
<1>2. s \in Seq(Indices) /\ IsInjective(s) /\ Range(s) = Range(in) \ m
  BY <1>1, StillApart
<1>3. /\ t \in Seq(Indices) /\ IsInjective(t)
      /\ Range(t) = (Range(out) \ m) \cup Range(p)
      /\ Kept(t, Agents) = Kept(out, Agents)
  BY <1>1, PairAdded, Zenon
<1>4. Kept(s, Agents) = Kept(in, Agents)
  BY <1>1, OursOut
<1> HIDE DEF s, t
<1>5. Range(s) \cap Range(t) = {}
  BY <1>1, <1>2, <1>3
<1>6. Consists(Joined(s, t), b, s, t)
  BY <1>1, <1>2, <1>3, <1>4, <1>5, Zenon DEF Consists
<1> QED
  BY <1>6 DEF s, t

(* What detachManagedLocked, or the operator, takes out of the list.       *)
LEMMA TakenOut ==
  ASSUME NEW l, NEW b, NEW in, NEW out, Consists(l, b, in, out), NEW m
  PROVE  Consists(Detached(l, m), Detached(b, m), Kept(in, m), Kept(out, m))
<1> DEFINE s == Kept(in, m)
           t == Kept(out, m)
           ka == Kept(in, Agents)
           kb == Kept(out, Agents)
<1>1. /\ in \in Seq(Indices) /\ out \in Seq(Indices) /\ l = Joined(in, out)
      /\ IsInjective(in) /\ IsInjective(out) /\ Range(in) \cap Range(out) = {}
      /\ b = Joined(ka, kb)
  BY Zenon DEF Consists
<1>2. /\ s \in Seq(Indices) /\ t \in Seq(Indices) /\ IsInjective(s) /\ IsInjective(t)
      /\ Range(s) \cap Range(t) = {}
  BY <1>1, StillApart
<1>3. Detached(l, m) = Joined(s, t)
  BY <1>1, DetachedIs
<1>4. ka \in Seq(Indices) /\ kb \in Seq(Indices)
  BY <1>1, KeptRange
<1>5. Detached(b, m) = Joined(Kept(ka, m), Kept(kb, m))
  <2> HIDE DEF ka, kb
  <2> QED
    BY <1>1, <1>4, DetachedIs
<1>6. Agents \cup m = m \cup Agents
  OBVIOUS
<1>7. Kept(ka, m) = Kept(s, Agents) /\ Kept(kb, m) = Kept(t, Agents)
  <2>1. Kept(ka, m) = Kept(in, Agents \cup m) /\ Kept(kb, m) = Kept(out, Agents \cup m)
    BY <1>1, KeptTwice
  <2>2. Kept(s, Agents) = Kept(in, m \cup Agents) /\ Kept(t, Agents) = Kept(out, m \cup Agents)
    BY <1>1, KeptTwice
  <2> QED
    BY <1>6, <2>1, <2>2, Zenon
<1> HIDE DEF s, t, ka, kb
<1>8. Consists(Detached(l, m), Detached(b, m), s, t)
  BY <1>2, <1>3, <1>5, <1>7, Zenon DEF Consists
<1> QED
  BY <1>8 DEF s, t

(* The bare list has nothing of the agent's to take out.                   *)
LEMMA BareAlone ==
  ASSUME NEW l, NEW b, NEW in, NEW out, Consists(l, b, in, out), NEW m, m \subseteq Agents
  PROVE  Detached(b, m) = b
<1> DEFINE ka == Kept(in, Agents)
           kb == Kept(out, Agents)
<1>1. in \in Seq(Indices) /\ out \in Seq(Indices) /\ b = Joined(ka, kb)
  BY Zenon DEF Consists
<1>2. /\ ka \in Seq(Indices) /\ Range(ka) = Range(in) \ Agents
      /\ kb \in Seq(Indices) /\ Range(kb) = Range(out) \ Agents
  BY <1>1, KeptRange
<1> HIDE DEF ka, kb
<1>3. Detached(b, m) = Joined(Kept(ka, m), Kept(kb, m))
  BY <1>1, <1>2, DetachedIs
<1>4. Range(ka) \cap m = {} /\ Range(kb) \cap m = {}
  BY <1>2
<1>5. Kept(ka, m) = ka /\ Kept(kb, m) = kb
  BY <1>2, <1>4, KeptAll
<1> QED
  BY <1>1, <1>3, <1>5, Zenon

(* An index that the operator puts at an end of a direction.               *)
LEMMA PutIn ==
  ASSUME NEW s \in Seq(Indices), NEW a \in Manual, IsInjective(s), a \notin Range(s),
         NEW front \in BOOLEAN
  PROVE  LET With(u) == IF front THEN <<a>> \o u ELSE Append(u, a)
         IN /\ With(s) \in Seq(Indices) /\ IsInjective(With(s))
            /\ Range(With(s)) = Range(s) \cup {a}
            /\ Kept(With(s), Agents) = With(Kept(s, Agents))
<1> DEFINE one == <<a>>
           before == one \o s
           after == Append(s, a)
           k == Kept(s, Agents)
<1>1. a \in Indices /\ a \notin Agents
  BY SharedListAssumption DEF Indices
<1>2. k \in Seq(Indices)
  BY KeptRange
<1>3. /\ after \in Seq(Indices) /\ IsInjective(after) /\ Range(after) = Range(s) \cup {a}
  BY <1>1, AppendInjective, AppendRange
<1>4. Kept(after, Agents) = Append(k, a)
  BY <1>1, KeptAppend
<1>5. one \in Seq(Indices) /\ Range(one) = {a} /\ IsInjective(one)
  BY <1>1 DEF Range, IsInjective
<1>6. Kept(one, Agents) = one
  <2> HIDE DEF one
  <2> QED
    BY <1>1, <1>5, KeptAll
<1> HIDE DEF one
<1>7. before \in Seq(Indices) /\ IsInjective(before) /\ Range(before) = Range(s) \cup {a}
  <2>1. Range(one) \cap Range(s) = {}
    BY <1>5
  <2> QED
    BY <1>5, <2>1, ConcatInjective, ConcatRange
<1>8. Kept(before, Agents) = one \o k
  <2>1. Kept(before, Agents) = Kept(one, Agents) \o k
    BY <1>5, KeptConcat
  <2> QED
    BY <1>6, <2>1, Zenon
<1> HIDE DEF before, after, k
<1> DEFINE With(u) == IF front THEN one \o u ELSE Append(u, a)
<1>9. With(s) = IF front THEN before ELSE after
  BY Zenon DEF before, after
<1>10. With(k) = IF front THEN one \o k ELSE Append(k, a)
  OBVIOUS
<1>11. /\ With(s) \in Seq(Indices) /\ IsInjective(With(s))
       /\ Range(With(s)) = Range(s) \cup {a}
       /\ Kept(With(s), Agents) = With(k)
  <2> HIDE DEF With
  <2>1. CASE front
    BY <1>7, <1>8, <1>9, <1>10, <2>1, Zenon
  <2>2. CASE ~ front
    BY <1>3, <1>4, <1>9, <1>10, <2>2, Zenon
  <2> QED
    BY <2>1, <2>2, Zenon
<1> QED
  BY <1>11 DEF With, one, k

(* The step that an attach takes, whatever it counts as managed.           *)
LEMMA AttachStep ==
  ASSUME SharedInv, NEW dumped \in BOOLEAN, Attach(dumped)
  PROVE  ListInv' /\ PairLast(dumped)
<1> DEFINE in == Inputs(list, {})
           out == Outputs(list, {})
           m == IF dumped THEN tagged ELSE Range(ours)
           s == IF dir = "ingress" THEN Kept(in, m) \o ours ELSE Kept(in, m)
           t == IF dir = "ingress" THEN Kept(out, m) ELSE Kept(out, m) \o ours
           here == IF dir = "ingress" THEN s ELSE t
           there == IF dir = "ingress" THEN t ELSE s
<1>1. Consists(list, bare, in, out)
  BY Zenon DEF SharedInv, ListInv
<1>2. ours \in Pairs /\ Range(ours) \subseteq tagged /\ tagged \subseteq Agents
  BY Zenon DEF SharedInv, PairInv, Attach
<1>3. m \subseteq Agents /\ Range(ours) \subseteq m
  BY <1>2
<1>4. list' = MergeManagedLast(list, m, ours, dir) /\ bare' = bare
  BY Zenon DEF Attach
<1>5. /\ in \in Seq(Indices) /\ out \in Seq(Indices) /\ list = Joined(in, out)
      /\ IsInjective(in) /\ IsInjective(out) /\ Range(in) \cap Range(out) = {}
  BY <1>1, Zenon DEF Consists
<1> HIDE DEF in, out, m
<1>6. Inputs(list, m) = Kept(in, m) /\ Outputs(list, m) = Kept(out, m)
  BY <1>5, Halves
<1>7. list' = Joined(s, t)
  BY <1>4, <1>6, Zenon DEF MergeManagedLast
<1>8. Consists(list', bare', s, t)
  <2>1. Consists(Joined(Kept(in, m) \o ours, Kept(out, m)), bare, Kept(in, m) \o ours, Kept(out, m))
    BY <1>1, <1>2, <1>3, MergedIngress, Zenon
  <2>2. Consists(Joined(Kept(in, m), Kept(out, m) \o ours), bare, Kept(in, m), Kept(out, m) \o ours)
    BY <1>1, <1>2, <1>3, MergedEgress, Zenon
  <2>3. CASE dir = "ingress"
    BY <1>4, <1>7, <2>1, <2>3, Zenon
  <2>4. CASE dir # "ingress"
    BY <1>4, <1>7, <2>2, <2>4, Zenon
  <2> QED
    BY <2>3, <2>4, Zenon
<1>9. s = Inputs(list', {}) /\ t = Outputs(list', {}) /\ ListInv'
  <2> HIDE DEF s, t
  <2> QED
    BY <1>8, Rejoined, Zenon DEF ListInv
<1>10. /\ Len(ours) <= Len(here) /\ SubSeq(here, Len(here) - Len(ours) + 1, Len(here)) = ours
       /\ Range(here) = (Range(IF dir = "ingress" THEN in ELSE out) \ m) \cup Range(ours)
       /\ Range(there) = Range(IF dir = "ingress" THEN out ELSE in) \ m
  <2>1. CASE dir = "ingress"
    <3>1. here = Kept(in, m) \o ours /\ there = Kept(out, m)
      BY <2>1, Zenon
    <3>2. Range(there) = Range(out) \ m
      BY <1>5, <3>1, KeptRange
    <3> HIDE DEF here, there
    <3>3. LET u == Kept(in, m) \o ours
          IN /\ Len(ours) <= Len(u) /\ SubSeq(u, Len(u) - Len(ours) + 1, Len(u)) = ours
             /\ Range(u) = (Range(in) \ m) \cup Range(ours)
      BY <1>2, <1>3, <1>5, PairAdded, Zenon
    <3>4. /\ Len(ours) <= Len(here) /\ SubSeq(here, Len(here) - Len(ours) + 1, Len(here)) = ours
          /\ Range(here) = (Range(in) \ m) \cup Range(ours)
      BY <3>1, <3>3, Zenon
    <3> QED
      BY <2>1, <3>2, <3>4, Zenon
  <2>2. CASE dir # "ingress"
    <3>1. here = Kept(out, m) \o ours /\ there = Kept(in, m)
      BY <2>2, Zenon
    <3>2. Range(there) = Range(in) \ m
      BY <1>5, <3>1, KeptRange
    <3> HIDE DEF here, there
    <3>3. LET u == Kept(out, m) \o ours
          IN /\ Len(ours) <= Len(u) /\ SubSeq(u, Len(u) - Len(ours) + 1, Len(u)) = ours
             /\ Range(u) = (Range(out) \ m) \cup Range(ours)
      BY <1>2, <1>3, <1>5, PairAdded, Zenon
    <3>4. /\ Len(ours) <= Len(here) /\ SubSeq(here, Len(here) - Len(ours) + 1, Len(here)) = ours
          /\ Range(here) = (Range(out) \ m) \cup Range(ours)
      BY <3>1, <3>3, Zenon
    <3> QED
      BY <2>2, <3>2, <3>4, Zenon
  <2> QED
    BY <2>1, <2>2, Zenon
<1>11. /\ s \in Seq(Indices) /\ t \in Seq(Indices) /\ list'.acls = s \o t
       /\ IsInjective(s) /\ IsInjective(t) /\ Range(s) \cap Range(t) = {}
  <2> HIDE DEF s, t
  <2> QED
    BY <1>7, <1>8 DEF Consists, Joined
<1>12. IsInjective(list'.acls) /\ Range(list'.acls) = Range(here) \cup Range(there)
  <2>1. Range(s) \cup Range(t) = Range(here) \cup Range(there)
    BY Zenon
  <2> HIDE DEF s, t, here, there
  <2>2. IsInjective(s \o t) /\ Range(s \o t) = Range(s) \cup Range(t)
    BY <1>11, ConcatInjective, ConcatRange
  <2> QED
    BY <1>11, <2>1, <2>2, Zenon
<1>13. Range(there) \cap Range(ours) = {}
  BY <1>3, <1>10
<1>14. dumped => Range(list'.acls) \cap tagged = Range(ours)
  <2> HIDE DEF here, there
  <2> QED
    BY <1>2, <1>10, <1>12 DEF m
<1> QED
  BY <1>9, <1>10, <1>12, <1>13, <1>14, Zenon DEF PairLast

(* Close takes out the pair and leaves the rest. *)
LEMMA CloseStep ==
  ASSUME SharedInv, Close PROVE ListInv'
<1> DEFINE in == Inputs(list, {})
           out == Outputs(list, {})
           m == Range(ours)
<1>1. Consists(list, bare, in, out)
  BY Zenon DEF SharedInv, ListInv
<1>2. m \subseteq Agents
  BY DEF SharedInv, PairInv, Close
<1>3. list' = Detached(list, m) /\ bare' = bare
  BY Zenon DEF Close
<1> HIDE DEF in, out, m
<1>4. Detached(bare, m) = bare
  BY <1>1, <1>2, BareAlone, Zenon
<1>5. Consists(Detached(list, m), Detached(bare, m), Kept(in, m), Kept(out, m))
  BY <1>1, TakenOut, Zenon
<1>6. Consists(list', bare', Kept(in, m), Kept(out, m))
  BY <1>3, <1>4, <1>5, Zenon
<1> QED
  BY <1>6, Rejoined, Zenon DEF ListInv

(* The operator takes an ACL out, ... *)
LEMMA TakeOutStep ==
  ASSUME SharedInv, NEW a \in Manual, TakeOut(a) PROVE ListInv'
<1> DEFINE in == Inputs(list, {})
           out == Outputs(list, {})
           m == {a}
<1>1. Consists(list, bare, in, out)
  BY Zenon DEF SharedInv, ListInv
<1>2. list' = Detached(list, m) /\ bare' = Detached(bare, m)
  BY Zenon DEF TakeOut
<1> HIDE DEF in, out, m
<1>3. Consists(list', bare', Kept(in, m), Kept(out, m))
  BY <1>1, <1>2, TakenOut, Zenon
<1> QED
  BY <1>3, Rejoined, Zenon DEF ListInv

(* ... or puts one in. *)
LEMMA InsertStep ==
  ASSUME SharedInv, NEW a \in Manual, NEW d \in Directions, Insert(a, d) PROVE ListInv'
<1> DEFINE in == Inputs(list, {})
           out == Outputs(list, {})
           ka == Kept(in, Agents)
           kb == Kept(out, Agents)
<1>1. Consists(list, bare, in, out)
  BY Zenon DEF SharedInv, ListInv
<1> HIDE DEF in, out
<1>2. /\ in \in Seq(Indices) /\ out \in Seq(Indices) /\ list = Joined(in, out)
      /\ IsInjective(in) /\ IsInjective(out) /\ Range(in) \cap Range(out) = {}
      /\ bare = Joined(ka, kb)
  BY <1>1, Zenon DEF Consists
<1>3. Inputs(bare, {}) = ka /\ Outputs(bare, {}) = kb
  <2>1. ka \in Seq(Indices) /\ kb \in Seq(Indices)
    BY <1>2, KeptRange
  <2> HIDE DEF ka, kb
  <2>2. Inputs(bare, {}) = Kept(ka, {}) /\ Outputs(bare, {}) = Kept(kb, {})
    BY <1>2, <2>1, Halves
  <2>3. Kept(ka, {}) = ka /\ Kept(kb, {}) = kb
    BY <2>1, KeptAll
  <2> QED
    BY <2>2, <2>3, Zenon
<1>4. a \notin Range(in) /\ a \notin Range(out)
  <2>1. a \notin Range(list.acls)
    BY Zenon DEF Insert
  <2>2. list.acls = in \o out
    BY <1>2 DEF Joined
  <2>3. Range(in \o out) = Range(in) \cup Range(out)
    BY <1>2, ConcatRange
  <2> DEFINE w == in \o out
  <2> HIDE DEF w
  <2>4. a \notin Range(w) /\ Range(w) = Range(in) \cup Range(out)
    BY <2>1, <2>2, <2>3, Zenon DEF w
  <2> QED
    BY <2>4
<1>5. PICK front \in BOOLEAN :
        LET Put(l) ==
              LET i == Inputs(l, {})  o == Outputs(l, {})
                  With(s) == IF front THEN <<a>> \o s ELSE Append(s, a)
              IN IF d = "ingress" THEN Joined(With(i), o) ELSE Joined(i, With(o))
        IN list' = Put(list) /\ bare' = Put(bare)
  BY Zenon DEF Insert
<1> DEFINE With(s) == IF front THEN <<a>> \o s ELSE Append(s, a)
<1>6. /\ list' = IF d = "ingress" THEN Joined(With(in), out) ELSE Joined(in, With(out))
      /\ bare' = IF d = "ingress" THEN Joined(With(ka), kb) ELSE Joined(ka, With(kb))
  <2>1. list' = IF d = "ingress" THEN Joined(With(in), out) ELSE Joined(in, With(out))
    BY <1>5, Zenon DEF in, out
  <2>2. bare' = IF d = "ingress" THEN Joined(With(Inputs(bare, {})), Outputs(bare, {}))
                                 ELSE Joined(Inputs(bare, {}), With(Outputs(bare, {})))
    BY <1>5, Zenon
  <2> HIDE DEF With, ka, kb
  <2> QED
    BY <1>3, <2>1, <2>2, Zenon
<1>7. /\ With(in) \in Seq(Indices) /\ IsInjective(With(in))
      /\ Range(With(in)) = Range(in) \cup {a}
      /\ Kept(With(in), Agents) = With(ka)
  BY <1>2, <1>4, PutIn, Zenon
<1>8. /\ With(out) \in Seq(Indices) /\ IsInjective(With(out))
      /\ Range(With(out)) = Range(out) \cup {a}
      /\ Kept(With(out), Agents) = With(kb)
  BY <1>2, <1>4, PutIn, Zenon
<1> HIDE DEF With
<1>9. Range(With(in)) \cap Range(out) = {} /\ Range(in) \cap Range(With(out)) = {}
  <2> DEFINE wi == With(in)
             wo == With(out)
  <2>1. Range(wi) = Range(in) \cup {a} /\ Range(wo) = Range(out) \cup {a}
    BY <1>7, <1>8, Zenon
  <2> HIDE DEF wi, wo
  <2>2. Range(wi) \cap Range(out) = {} /\ Range(in) \cap Range(wo) = {}
    BY <1>2, <1>4, <2>1
  <2> QED
    BY <2>2, Zenon DEF wi, wo
<1>10. CASE d = "ingress"
  <2>1. Consists(list', bare', With(in), out)
    BY <1>2, <1>6, <1>7, <1>9, <1>10, Zenon DEF Consists
  <2> QED
    BY <2>1, Rejoined, Zenon DEF ListInv
<1>11. CASE d # "ingress"
  <2>1. Consists(list', bare', in, With(out))
    BY <1>2, <1>6, <1>8, <1>9, <1>11, Zenon DEF Consists
  <2> QED
    BY <2>1, Rejoined, Zenon DEF ListInv
<1> QED
  BY <1>10, <1>11, Zenon

-----------------------------------------------------------------------------
(* The interface starts with a list of the operator. *)
LEMMA SharedInit ==
  Init => SharedInv
<1> SUFFICES ASSUME Init PROVE SharedInv
  OBVIOUS
<1> DEFINE none == <<>>
<1>1. none \in Seq(Indices) /\ IsInjective(none) /\ Range(none) \cap Range(none) = {}
  BY DEF IsInjective, Range
<1>2. EmptyList = Joined(none, none)
  BY DEF EmptyList, Joined
<1>3. Kept(none, Agents) = none
  BY KeptEmpty
<1> HIDE DEF none
<1>4. Consists(EmptyList, EmptyList, none, none)
  BY <1>1, <1>2, <1>3, Zenon DEF Consists
<1>5. ListInv
  <2>1. Consists(list, bare, none, none)
    BY <1>4, Zenon DEF Init
  <2> QED
    BY <2>1, Rejoined, Zenon DEF ListInv
<1>6. PairInv
  BY DEF Init, PairInv, Directions
<1> QED
  BY <1>5, <1>6, Zenon DEF SharedInv

(* Every attach, close and edit keeps the invariant. *)
LEMMA SharedStep ==
  SharedInv /\ [Next]_vars => SharedInv'
<1> SUFFICES ASSUME SharedInv, [Next]_vars PROVE SharedInv'
  OBVIOUS
<1>1. PairInv /\ ListInv
  BY Zenon DEF SharedInv
<1>2. ASSUME NEW pair \in Pairs, NEW d \in Directions, Bootstrap(pair, d) PROVE SharedInv'
  <2>1. ListInv'
    BY <1>1, <1>2, Zenon DEF Bootstrap, ListInv
  <2>2. Range(pair) \subseteq Agents
    BY PairIs
  <2>3. PairInv'
    BY <1>1, <1>2, <2>2 DEF Bootstrap, PairInv
  <2> QED
    BY <2>1, <2>3, Zenon DEF SharedInv
<1>3. ASSUME NEW dumped \in BOOLEAN, Attach(dumped) PROVE SharedInv'
  <2>1. ListInv'
    BY <1>3, AttachStep, Zenon
  <2>2. PairInv'
    BY <1>1, <1>3, Zenon DEF Attach, PairInv
  <2> QED
    BY <2>1, <2>2, Zenon DEF SharedInv
<1>4. CASE Close
  <2>1. ListInv'
    BY <1>4, CloseStep, Zenon
  <2>2. PairInv'
    BY <1>1, <1>4 DEF Close, PairInv
  <2> QED
    BY <2>1, <2>2, Zenon DEF SharedInv
<1>5. ASSUME NEW a \in Manual, TakeOut(a) PROVE SharedInv'
  <2>1. ListInv'
    BY <1>5, TakeOutStep, Zenon
  <2>2. PairInv'
    BY <1>1, <1>5, Zenon DEF TakeOut, PairInv
  <2> QED
    BY <2>1, <2>2, Zenon DEF SharedInv
<1>6. ASSUME NEW a \in Manual, NEW d \in Directions, Insert(a, d) PROVE SharedInv'
  <2>1. ListInv'
    BY <1>6, InsertStep, Zenon
  <2>2. PairInv'
    BY <1>1, <1>6, Zenon DEF Insert, PairInv
  <2> QED
    BY <2>1, <2>2, Zenon DEF SharedInv
<1>7. CASE UNCHANGED vars
  BY <1>1, <1>7, Zenon DEF vars, SharedInv, ListInv, PairInv
<1> QED
  BY <1>2, <1>3, <1>4, <1>5, <1>6, <1>7, Zenon DEF Next

(* Attach and detach never clobber the operator's ACLs, whatever pairs and *)
(* manual indices there are: splitNonManaged and mergeManagedLast leave    *)
(* each direction without the agent's ACLs as the operator alone would     *)
(* have it, with the tag dump and without it.                              *)
THEOREM ManualNeverTouched == Spec => []ManualPreserved
<1>1. SharedInv => ManualPreserved
  <2> SUFFICES ASSUME SharedInv PROVE ManualPreserved
    OBVIOUS
  <2> DEFINE in == Inputs(list, {})
             out == Outputs(list, {})
  <2>1. Consists(list, bare, in, out)
    BY Zenon DEF SharedInv, ListInv
  <2> HIDE DEF in, out
  <2>2. /\ in \in Seq(Indices) /\ out \in Seq(Indices) /\ list = Joined(in, out)
        /\ bare = Joined(Kept(in, Agents), Kept(out, Agents))
    BY <2>1, Zenon DEF Consists
  <2>3. Inputs(list, Agents) = Kept(in, Agents) /\ Outputs(list, Agents) = Kept(out, Agents)
    BY <2>2, Halves
  <2> QED
    BY <2>2, <2>3, Zenon DEF ManualPreserved
<1> QED
  BY <1>1, SharedInit, SharedStep, PTL DEF Spec

(* Right after every attach the agent's pair is last in its direction, in  *)
(* no other, and no index is in the list twice; when the tag dump worked   *)
(* no orphan is left on the list.                                          *)
THEOREM PairEndsLast == Spec => OursLast
<1>1. SharedInv /\ [Next]_vars =>
        [\A dumped \in BOOLEAN : Attach(dumped) => PairLast(dumped)]_vars
  BY AttachStep, Zenon
<1> QED
  BY <1>1, SharedInit, SharedStep, PTL DEF Spec, OursLast
=============================================================================
