------------------------------ MODULE Manager -------------------------------
(***************************************************************************)
(* The manager (internal/manager): one goroutine that takes an update off  *)
(* the channel, changes the reference-count tables and pushes the whole    *)
(* desired rule set of every family the change touched to VPP.             *)
(*                                                                         *)
(* One update is one action, as Run handles it to the end before the next. *)
(* Every push may fail; a failed push is logged and not retried, so VPP    *)
(* keeps the previous rules until a later update touches the family or a   *)
(* resync arrives.  The VPP client re-creates both ACLs empty after a      *)
(* reconnect and then sends a resync: that is the environment's Recreate.  *)
(***************************************************************************)
EXTENDS RefCount

VARIABLES
  tables,     \* entries, sessionRules and sessionRoutes of Manager
  acl,        \* the deny rules the Managed ACL of each family holds in VPP
  gauge,      \* flowspec_acl_entries of each family
  failed,     \* history: the families whose last push returned an error
  resyncDue   \* the ACLs were re-created empty and OpResync is on its way

vars == <<tables, acl, gauge, failed, resyncDue>>

TypeOK ==
  /\ tables \in Tables
  /\ acl \in [Families -> SUBSET Keys]
  /\ gauge \in [Families -> Nat]
  /\ failed \subseteq Families
  /\ resyncDue \in BOOLEAN

Init ==
  /\ tables = EmptyTables
  /\ acl = [f \in Families |-> {}]
  /\ gauge = [f \in Families |-> 0]
  /\ failed = {}
  /\ resyncDue = FALSE

(* reconcile of each family in fams: ReplaceACL with the desired rules,    *)
(* and on success the gauge.  ok is the set of families whose call works.  *)
Reconcile(t, fams) ==
  \E ok \in SUBSET fams :
    /\ acl' = [f \in Families |-> IF f \in ok THEN Desired(t, f) ELSE acl[f]]
    /\ gauge' = [f \in Families |->
                   IF f \in ok THEN Cardinality(Desired(t, f)) ELSE gauge[f]]
    /\ failed' = (failed \ ok) \cup (fams \ ok)

Update(r) ==
  /\ tables' = r.tab
  /\ Reconcile(r.tab, r.dirty)
  /\ UNCHANGED resyncDue

(* announce: a rule with another action than drop is not translatable,     *)
(* whatever its match; it still replaces the route.                        *)
Announce(s, n, drop) ==
  LET k  == IF drop THEN aclKey[n] ELSE NoKey
      id == routeIdentity[n]
  IN Update(IF k = NoKey THEN RemoveRoute(tables, id, s)
                         ELSE AnnounceRoute(tables, id, k, s))

Withdraw(s, n) == Update(RemoveRoute(tables, routeIdentity[n], s))

SessionDown(s) == Update(DropSession(tables, s))

Resync ==
  /\ resyncDue
  /\ Reconcile(tables, Families)
  /\ resyncDue' = FALSE
  /\ UNCHANGED tables

(* Environment: the client lost VPP and made both Managed ACLs anew.       *)
Recreate ==
  /\ acl' = [f \in Families |-> {}]
  /\ resyncDue' = TRUE
  /\ UNCHANGED <<tables, gauge, failed>>

Next ==
  \/ \E s \in Sessions, n \in Nlris :
       \/ \E drop \in BOOLEAN : Announce(s, n, drop)
       \/ Withdraw(s, n)
  \/ \E s \in Sessions : SessionDown(s)
  \/ Resync
  \/ Recreate

Spec == Init /\ [][Next]_vars

-----------------------------------------------------------------------------
(* The routes of session s that stand for key k.                           *)
RoutesOf(t, s, k) == {id \in Routes : t.sessionRoutes[s][id] = k}

(* The keys of family f that some route of some session stands for.        *)
Routed(t, f) ==
  {k \in Keys : keyFamily[k] = f /\ \E s \in Sessions : RoutesOf(t, s, k) # {}}

(* The count of a key and session is the number of the session's routes    *)
(* that stand for the key, after any sequence of announces, replacements,  *)
(* withdraws and session losses (addOwner, removeOwner,                    *)
(* removeSessionOwner, forgetRoute).                                       *)
CountsAreRoutes ==
  \A k \in Keys, s \in Sessions :
    tables.owners[k][s] = Cardinality(RoutesOf(tables, s, k))

(* The two indexes agree with the counts: an entry exists exactly while it *)
(* has an owner, and a session lists exactly the keys it owns, so that     *)
(* sessionDown neither misses a rule nor leaves an ownerless entry.        *)
IndexesAgree ==
  /\ tables.entries = {k \in Keys : \E s \in Sessions : tables.owners[k][s] # 0}
  /\ \A s \in Sessions :
       tables.sessionRules[s] = {k \in Keys : tables.owners[k][s] # 0}

(* Dirty tracking misses nothing: a family whose last push went through    *)
(* and that VPP has not lost since holds exactly the rules of the routes   *)
(* now announced, and the gauge reports their number (reconcile is called  *)
(* only for the families addOwner and removeOwner report).                 *)
AclMatchesRoutes ==
  \A f \in Families :
    f \notin failed /\ ~resyncDue =>
      /\ acl[f] = Routed(tables, f)
      /\ gauge[f] = Cardinality(acl[f])

(* An entry is removed only when its last holder lets go of it: no other  *)
(* session has a route for it, and this one loses its only one, by a       *)
(* withdraw or a new announce under the same text, or goes down.  So the   *)
(* announce of one NLRI removes the rule of another only if the texts are  *)
(* the same, as those of an IPv4 and an IPv6 NLRI without prefixes are     *)
(* (routeIdentity).                                                        *)
RemovedByHolder ==
  [][\A k \in tables.entries \ tables'.entries :
       \E s \in Sessions :
         /\ \A u \in Sessions \ {s} : RoutesOf(tables, u, k) = {}
         /\ \/ \E n \in Nlris :
                 /\ RoutesOf(tables, s, k) = {routeIdentity[n]}
                 /\ Withdraw(s, n) \/ \E drop \in BOOLEAN : Announce(s, n, drop)
            \/ SessionDown(s)]_vars

-----------------------------------------------------------------------------
(* The refinement: a session holds the routes of its index.                *)
Held ==
  [s \in Sessions |->
     {r \in [text : Routes, key : Keys] : tables.sessionRoutes[s][r.text] = r.key}]

Table == INSTANCE RouteTable WITH held <- Held

(* The counted tables implement the uncounted promise: every update leaves *)
(* VPP as if the wanted rules had been recomputed from the routes held,    *)
(* and exactly the families whose wanted rules changed are pushed, whether *)
(* or not two NLRIs have the same text.                                    *)
ImplementsRouteTable == Table!Spec
=============================================================================
