------------------------------ MODULE RefCount ------------------------------
(***************************************************************************)
(* The reference-count tables of the manager (internal/manager/refcount.go *)
(* and the struct fields of manager.go) and the operations on them.        *)
(*                                                                         *)
(* One BGP peer may announce several NLRIs that collapse to one ACL rule,  *)
(* and several peers may announce the same rule.  The manager therefore    *)
(* counts, per ACL key and session, the routes that stand for the key, and *)
(* keeps two indexes beside the counts: the keys of a session (for a       *)
(* session that goes down) and the key of each route (for a later announce *)
(* or withdraw of the same NLRI).                                          *)
(*                                                                         *)
(* The tables are one record, and an operation maps it to                  *)
(* [tab |-> the new tables, dirty |-> the families to reconcile], because  *)
(* the handlers run several operations one after the other.  A Go map      *)
(* answers its zero value for an absent key, so an absent count is 0, an   *)
(* absent key set is {} and an absent route is NoKey.                      *)
(***************************************************************************)
EXTENDS Naturals, FiniteSets

CONSTANTS
  Sessions,       \* bgp.SessionID: one per peer, one for the detector
  Nlris,          \* the FlowSpec NLRIs a session may announce
  Routes,         \* route identities: the text of an NLRI (Rule.Raw)
  Keys,           \* canonical ACL keys, ACLRule.Key()
  Families,       \* IPv4, IPv6
  NoKey,          \* translate.Translate returned an error, or no such route
  routeIdentity,  \* the route identity of an NLRI
  aclKey,         \* the key of its drop rule, NoKey when not translatable
  keyFamily       \* the address family of a key

ASSUME RefCountAssumption ==
  /\ IsFiniteSet(Routes)
  /\ IsFiniteSet(Keys)
  /\ NoKey \notin Keys
  /\ routeIdentity \in [Nlris -> Routes]
  /\ aclKey \in [Nlris -> Keys \cup {NoKey}]
  /\ keyFamily \in [Keys -> Families]

Tables == [entries       : SUBSET Keys,
           owners        : [Keys -> [Sessions -> Nat]],
           sessionRules  : [Sessions -> SUBSET Keys],
           sessionRoutes : [Sessions -> [Routes -> Keys \cup {NoKey}]]]

EmptyTables ==
  [entries       |-> {},
   owners        |-> [k \in Keys |-> [s \in Sessions |-> 0]],
   sessionRules  |-> [s \in Sessions |-> {}],
   sessionRoutes |-> [s \in Sessions |-> [id \in Routes |-> NoKey]]]

(* desired(fam): every entry of the family that has an owner.  The order   *)
(* in which the code sorts them does not matter to a list of denies.       *)
Desired(t, f) ==
  {k \in t.entries : keyFamily[k] = f /\ \E s \in Sessions : t.owners[k][s] # 0}

Unchanged(t) == [tab |-> t, dirty |-> {}]

(* Mutant: the count is set, not raised, so two routes count as one.       *)
AddRouteUncounted(t, id, k, s) ==
  [tab   |-> [t EXCEPT !.entries              = @ \cup {k},
                       !.owners[k][s]         = 1,
                       !.sessionRules[s]      = @ \cup {k},
                       !.sessionRoutes[s][id] = k],
   dirty |-> IF k \notin t.entries THEN {keyFamily[k]} ELSE {}]

(* addOwner followed by rememberRoute, as announce calls them.             *)
AddRoute(t, id, k, s) ==
  LET created  == k \notin t.entries
      wasEmpty == \A u \in Sessions : t.owners[k][u] = 0
  IN [tab   |-> [t EXCEPT !.entries             = @ \cup {k},
                          !.owners[k][s]        = @ + 1,
                          !.sessionRules[s]     = @ \cup {k},
                          !.sessionRoutes[s][id] = k],
      dirty |-> IF created \/ wasEmpty THEN {keyFamily[k]} ELSE {}]

(* Mutants of removeOwner: last says whether a withdraw deletes the entry, *)
(* list the keys left in the session's list, dirty whether the family is   *)
(* pushed.                                                                 *)
Release(t, k, s, last, list, dirty) ==
  IF k \notin t.entries \/ t.owners[k][s] = 0
  THEN Unchanged(t)
  ELSE [tab   |-> [t EXCEPT !.owners[k][s]    = @ - 1,
                            !.sessionRules[s] = list,
                            !.entries         = IF last THEN @ \ {k} ELSE @],
        dirty |-> IF dirty THEN {keyFamily[k]} ELSE {}]

Others(t, k, s) == {u \in Sessions \ {s} : t.owners[k][u] # 0}

Last(t, k, s) == t.owners[k][s] = 1 /\ Others(t, k, s) = {}

Listed(t, k, s) ==
  IF t.owners[k][s] = 1 THEN t.sessionRules[s] \ {k} ELSE t.sessionRules[s]

RemoveOwnerKeepsList(t, k, s) ==
  Release(t, k, s, Last(t, k, s), t.sessionRules[s], Last(t, k, s))

RemoveOwnerIgnoresOthers(t, k, s) ==
  Release(t, k, s, t.owners[k][s] = 1, Listed(t, k, s), t.owners[k][s] = 1)

RemoveOwnerAlwaysDirty(t, k, s) ==
  Release(t, k, s, Last(t, k, s), Listed(t, k, s), t.owners[k][s] = 1)

(* removeOwner: one route of s stops standing for k.                       *)
RemoveOwner(t, k, s) ==
  LET left  == t.owners[k][s] - 1
      alone == \A u \in Sessions \ {s} : t.owners[k][u] = 0
  IN IF k \notin t.entries \/ t.owners[k][s] = 0
     THEN Unchanged(t)
     ELSE [tab   |-> [t EXCEPT
                        !.owners[k][s]    = left,
                        !.sessionRules[s] = IF left = 0 THEN @ \ {k} ELSE @,
                        !.entries = IF left = 0 /\ alone THEN @ \ {k} ELSE @],
           dirty |-> IF left = 0 /\ alone THEN {keyFamily[k]} ELSE {}]

(* removeRoute: forgetRoute, then removeOwner of the key it stood for.     *)
RemoveRoute(t, id, s) ==
  LET k == t.sessionRoutes[s][id]
  IN IF k = NoKey
     THEN Unchanged(t)
     ELSE RemoveOwner([t EXCEPT !.sessionRoutes[s][id] = NoKey], k, s)

(* The tables part of announce for a rule that translates to key k: a      *)
(* known route with the same key is left alone, one with another key is    *)
(* removed first (replaceRoute).                                           *)
AnnounceRoute(t, id, k, s) ==
  IF t.sessionRoutes[s][id] = k
  THEN Unchanged(t)
  ELSE LET removed == RemoveRoute(t, id, s)
           added   == AddRoute(removed.tab, id, k, s)
       IN [tab |-> added.tab, dirty |-> removed.dirty \cup added.dirty]

(* Mutant: sessionDown reconciles only one of the families it touched.     *)
DropSessionOneFamily(t, s) ==
  LET gone == {k \in t.sessionRules[s] : \A u \in Sessions \ {s} : t.owners[k][u] = 0}
  IN [tab   |-> [t EXCEPT !.entries = @ \ gone,
                          !.owners  = [k \in Keys |-> [@[k] EXCEPT ![s] = 0]],
                          !.sessionRules[s]  = {},
                          !.sessionRoutes[s] = [id \in Routes |-> NoKey]],
      dirty |-> IF gone = {} THEN {} ELSE {keyFamily[CHOOSE k \in gone : TRUE]}]

(* The tables part of sessionDown, removeSessionOwner of every key of s.   *)
(* A session without keys returns early and keeps its (empty) routes.      *)
DropSession(t, s) ==
  LET keys == t.sessionRules[s]
      gone == {k \in keys \cap t.entries :
                 /\ t.owners[k][s] # 0
                 /\ \A u \in Sessions \ {s} : t.owners[k][u] = 0}
  IN IF keys = {}
     THEN Unchanged(t)
     ELSE [tab   |-> [t EXCEPT
                        !.entries = @ \ gone,
                        !.owners  = [k \in Keys |->
                                       IF k \in keys \cap t.entries
                                       THEN [@[k] EXCEPT ![s] = 0] ELSE @[k]],
                        !.sessionRules[s]  = {},
                        !.sessionRoutes[s] = [id \in Routes |-> NoKey]],
           dirty |-> {keyFamily[k] : k \in gone}]
=============================================================================
