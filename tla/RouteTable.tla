----------------------------- MODULE RouteTable -----------------------------
(***************************************************************************)
(* What the manager promises, without reference counts: each session holds *)
(* at most one rule under each route text, the one last announced, the     *)
(* rules wanted in VPP are all the rules held, and an update that changes  *)
(* the wanted rules of a family pushes that family, once.  A push may fail *)
(* and is then not retried.                                                *)
(***************************************************************************)
CONSTANTS Sessions, Nlris, Keys, Families, NoKey, routeIdentity, aclKey, keyFamily

VARIABLES
  held,       \* the routes of each session: [text, key] of translatable rules
  acl,        \* the rules the Managed ACL of each family holds in VPP
  failed,     \* the families whose last push failed
  resyncDue   \* VPP lost both ACLs and a resync is on its way

vars == <<held, acl, failed, resyncDue>>

Wanted(h, f) ==
  {k \in Keys : keyFamily[k] = f /\ \E s \in Sessions : \E r \in h[s] : r.key = k}

Push(h, fams) ==
  \E ok \in SUBSET fams :
    /\ acl' = [f \in Families |-> IF f \in ok THEN Wanted(h, f) ELSE acl[f]]
    /\ failed' = (failed \ ok) \cup (fams \ ok)

Hold(h) ==
  /\ held' = h
  /\ Push(h, {f \in Families : Wanted(h, f) # Wanted(held, f)})
  /\ UNCHANGED resyncDue

Init ==
  /\ held = [s \in Sessions |-> {}]
  /\ acl = [f \in Families |-> {}]
  /\ failed = {}
  /\ resyncDue = FALSE

Others(s, n) == {r \in held[s] : r.text # routeIdentity[n]}

Announce(s, n) ==
  /\ aclKey[n] # NoKey
  /\ Hold([held EXCEPT ![s] = Others(s, n) \cup {[text |-> routeIdentity[n], key |-> aclKey[n]]}])

Release(s, n) == Hold([held EXCEPT ![s] = Others(s, n)])

SessionDown(s) == Hold([held EXCEPT ![s] = {}])

Resync ==
  /\ resyncDue
  /\ Push(held, Families)
  /\ resyncDue' = FALSE
  /\ UNCHANGED held

Recreate ==
  /\ acl' = [f \in Families |-> {}]
  /\ resyncDue' = TRUE
  /\ UNCHANGED <<held, failed>>

Next ==
  \/ \E s \in Sessions, n \in Nlris : Announce(s, n) \/ Release(s, n)
  \/ \E s \in Sessions : SessionDown(s)
  \/ Resync
  \/ Recreate

Spec == Init /\ [][Next]_vars
=============================================================================
