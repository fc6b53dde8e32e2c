------------------------------ MODULE AclList -------------------------------
(***************************************************************************)
(* The ACL list of one interface (internal/vpp/attach.go, cleanup.go).     *)
(* VPP keeps a list of ACL indices of which the first nInput apply to      *)
(* input and the rest to output, and has one call that replaces the list.  *)
(* The agent and the operator share it: attachLocked rewrites the list     *)
(* with the agent's pair last in the managed direction, cleanupOnClose     *)
(* takes the pair out, and the operator edits it in between.               *)
(***************************************************************************)
EXTENDS Naturals, Sequences, Functions

(* The loop of splitNonManaged: what is not managed, in its order.         *)
Kept(s, managed) ==
  LET kept[n \in 0 .. Len(s)] ==
        IF n = 0 THEN <<>>
        ELSE IF s[n] \in managed THEN kept[n - 1] ELSE Append(kept[n - 1], s[n])
  IN kept[Len(s)]

(* splitNonManaged: the kept indices of each direction.                    *)
Inputs(l, managed) == Kept(SubSeq(l.acls, 1, l.nInput), managed)

Outputs(l, managed) == Kept(SubSeq(l.acls, l.nInput + 1, Len(l.acls)), managed)

Joined(in, out) == [acls |-> in \o out, nInput |-> Len(in)]

EmptyList == [acls |-> <<>>, nInput |-> 0]

(* Mutants: the pair first, and the pair counted as input in either        *)
(* direction.                                                              *)
MergeManagedFirst(l, managed, ours, dir) ==
  IF dir = "ingress"
  THEN Joined(ours \o Inputs(l, managed), Outputs(l, managed))
  ELSE Joined(Inputs(l, managed), ours \o Outputs(l, managed))

MergeCountsAsInput(l, managed, ours, dir) ==
  LET in == Inputs(l, managed)  out == Outputs(l, managed)
  IN [acls   |-> IF dir = "ingress" THEN in \o ours \o out ELSE in \o out \o ours,
      nInput |-> Len(in) + Len(ours)]

(* mergeManagedLast: the managed indices out, ours last in direction dir.  *)
MergeManagedLast(l, managed, ours, dir) ==
  IF dir = "ingress"
  THEN Joined(Inputs(l, managed) \o ours, Outputs(l, managed))
  ELSE Joined(Inputs(l, managed), Outputs(l, managed) \o ours)

(* The rewrite of detachManagedLocked; it leaves a list without ours alone. *)
Detached(l, ours) ==
  IF Range(l.acls) \cap ours = {} THEN l
  ELSE Joined(Inputs(l, ours), Outputs(l, ours))
=============================================================================
