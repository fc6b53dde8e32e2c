--------------------------- MODULE ManagerProofs ----------------------------
(***************************************************************************)
(* Proofs about the manager, for any sets of sessions, NLRIs, keys and     *)
(* families and any finite set of route identities, whichever NLRIs share  *)
(* one: the tables, what is pushed, and that the manager implements        *)
(* RouteTable.                                                             *)
(***************************************************************************)
EXTENDS Manager, FiniteSetTheorems, TLAPS

(* The inductive invariant of the tables: the counts and both indexes say  *)
(* what the routes say.                                                    *)
Consistent(t) ==
  /\ t \in Tables
  /\ \A k \in Keys, s \in Sessions : t.owners[k][s] = Cardinality(RoutesOf(t, s, k))
  /\ t.entries = {k \in Keys : \E s \in Sessions : t.owners[k][s] # 0}
  /\ \A s \in Sessions : t.sessionRules[s] = {k \in Keys : t.owners[k][s] # 0}

(* A result of an operation on the tables: its tables are consistent and   *)
(* a family that is not dirty wants the rules it wanted before.            *)
Sound(t, r) ==
  /\ Consistent(r.tab)
  /\ r.dirty \subseteq Families
  /\ \A f \in Families \ r.dirty : Desired(r.tab, f) = Desired(t, f)

(* A family it reports dirty really wants other rules than before.         *)
Exact(t, r) == \A f \in r.dirty : Desired(r.tab, f) # Desired(t, f)

(* A session has finitely many routes, and none exactly when it counts 0.  *)
LEMMA RoutesOfFinite ==
  ASSUME NEW t, NEW s, NEW k
  PROVE  /\ IsFiniteSet(RoutesOf(t, s, k))
         /\ Cardinality(RoutesOf(t, s, k)) \in Nat
         /\ Cardinality(RoutesOf(t, s, k)) = 0 <=> RoutesOf(t, s, k) = {}
<1>1. IsFiniteSet(RoutesOf(t, s, k))
  BY FS_Subset, RefCountAssumption, Zenon DEF RoutesOf
<1>2. QED
  BY <1>1, FS_CardinalityType, FS_EmptySet, Zenon

(* u has the routes of t without the route id of s.                        *)
Forgets(t, u, s, id) == u.sessionRoutes = [t.sessionRoutes EXCEPT ![s][id] = NoKey]

(* Forgetting a route lowers the count of its key by one and no other.     *)
LEMMA ForgetRoute ==
  ASSUME NEW t \in Tables, NEW s \in Sessions, NEW id \in Routes,
         t.sessionRoutes[s][id] # NoKey,
         NEW u, Forgets(t, u, s, id),
         NEW k \in Keys, NEW v \in Sessions
  PROVE  /\ v = s /\ k = t.sessionRoutes[s][id]
             => Cardinality(RoutesOf(u, v, k)) = Cardinality(RoutesOf(t, v, k)) - 1
         /\ ~(v = s /\ k = t.sessionRoutes[s][id])
             => Cardinality(RoutesOf(u, v, k)) = Cardinality(RoutesOf(t, v, k))
<1>1. CASE v = s /\ k = t.sessionRoutes[s][id]
  <2>1. RoutesOf(u, v, k) = RoutesOf(t, v, k) \ {id} /\ id \in RoutesOf(t, v, k)
    BY <1>1, RefCountAssumption DEF Forgets, RoutesOf, Tables
  <2>2. IsFiniteSet(RoutesOf(t, v, k))
    BY RoutesOfFinite, Zenon
  <2>3. Cardinality(RoutesOf(t, v, k) \ {id}) = Cardinality(RoutesOf(t, v, k)) - 1
    BY <2>1, <2>2, FS_RemoveElement, Zenon
  <2>4. QED
    BY <1>1, <2>1, <2>3, Zenon
<1>2. CASE ~(v = s /\ k = t.sessionRoutes[s][id])
  <2>1. RoutesOf(u, v, k) = RoutesOf(t, v, k)
    BY <1>2, RefCountAssumption DEF Forgets, RoutesOf, Tables
  <2>2. QED
    BY <1>2, <2>1, Zenon
<1>3. QED
  BY <1>1, <1>2, Zenon

(* Remembering a new route raises the count of its key by one and no other. *)
LEMMA RememberRoute ==
  ASSUME NEW t \in Tables, NEW s \in Sessions, NEW id \in Routes,
         t.sessionRoutes[s][id] = NoKey,
         NEW key \in Keys, NEW u,
         u.sessionRoutes = [t.sessionRoutes EXCEPT ![s][id] = key],
         NEW k \in Keys, NEW v \in Sessions
  PROVE  Cardinality(RoutesOf(u, v, k)) =
           IF v = s /\ k = key
           THEN Cardinality(RoutesOf(t, v, k)) + 1
           ELSE Cardinality(RoutesOf(t, v, k))
<1>1. CASE v = s /\ k = key
  <2>1. RoutesOf(u, v, k) = RoutesOf(t, v, k) \cup {id} /\ id \notin RoutesOf(t, v, k)
    BY <1>1, RefCountAssumption DEF RoutesOf, Tables
  <2>2. IsFiniteSet(RoutesOf(t, v, k))
    BY RoutesOfFinite, Zenon
  <2>3. Cardinality(RoutesOf(t, v, k) \cup {id}) = Cardinality(RoutesOf(t, v, k)) + 1
    BY <2>1, <2>2, FS_AddElement, Zenon
  <2>4. QED
    BY <1>1, <2>1, <2>3, Zenon
<1>2. CASE ~(v = s /\ k = key)
  <2>1. RoutesOf(u, v, k) = RoutesOf(t, v, k)
    BY <1>2, RefCountAssumption DEF RoutesOf, Tables
  <2>2. QED
    BY <1>2, <2>1, Zenon
<1>3. QED
  BY <1>1, <1>2, Zenon

(* removeRoute keeps the tables consistent and reports the family whose    *)
(* rules it changed.                                                       *)
LEMMA RemoveRouteSound ==
  ASSUME NEW t, Consistent(t), NEW s \in Sessions, NEW id \in Routes
  PROVE  /\ Sound(t, RemoveRoute(t, id, s))
         /\ Exact(t, RemoveRoute(t, id, s))
         /\ RemoveRoute(t, id, s).tab.sessionRoutes =
              [t.sessionRoutes EXCEPT ![s][id] = NoKey]
<1> DEFINE k == t.sessionRoutes[s][id]
           forgot == [t EXCEPT !.sessionRoutes[s][id] = NoKey]
           r == RemoveRoute(t, id, s)
<1>0. /\ t \in Tables
      /\ t.entries \subseteq Keys
      /\ t.owners \in [Keys -> [Sessions -> Nat]]
      /\ t.sessionRules \in [Sessions -> SUBSET Keys]
      /\ t.sessionRoutes \in [Sessions -> [Routes -> Keys \cup {NoKey}]]
  BY Zenon DEF Consistent, Tables
<1>1. CASE k = NoKey
  <2>1. r.tab = t /\ r.dirty = {}
    BY <1>1, Zenon DEF RemoveRoute, Unchanged
  <2>2. t.sessionRoutes = [t.sessionRoutes EXCEPT ![s][id] = NoKey]
    BY <1>0, <1>1, Zenon DEF Tables
  <2>3. QED
    BY <2>1, <2>2, Zenon DEF Sound, Exact
<1>2. CASE k # NoKey
  <2>1. k \in Keys
    BY <1>0, <1>2 DEF Tables
  <2>2. t.owners[k][s] \in Nat /\ t.owners[k][s] # 0 /\ k \in t.entries
    <3>1. id \in RoutesOf(t, s, k)
      BY Zenon DEF RoutesOf
    <3>2. Cardinality(RoutesOf(t, s, k)) # 0
      BY <3>1, RoutesOfFinite, Zenon
    <3>3. QED
      BY <1>0, <2>1, <3>2 DEF Consistent, Tables
  <2> DEFINE left == t.owners[k][s] - 1
             last == left = 0 /\ \A u \in Sessions \ {s} : t.owners[k][u] = 0
  <2>3. /\ forgot.entries = t.entries
        /\ forgot.owners = t.owners
        /\ forgot.sessionRules = t.sessionRules
        /\ forgot.sessionRoutes = [t.sessionRoutes EXCEPT ![s][id] = NoKey]
        /\ forgot \in Tables
    BY <1>0, Zenon DEF Tables
  <2>4. /\ r.tab.owners = [t.owners EXCEPT ![k][s] = left]
        /\ r.tab.sessionRules =
             [t.sessionRules EXCEPT ![s] = IF left = 0 THEN @ \ {k} ELSE @]
        /\ r.tab.entries = IF last THEN t.entries \ {k} ELSE t.entries
        /\ r.tab.sessionRoutes = [t.sessionRoutes EXCEPT ![s][id] = NoKey]
        /\ r.dirty = IF last THEN {keyFamily[k]} ELSE {}
        /\ r.tab = [entries |-> r.tab.entries, owners |-> r.tab.owners,
                    sessionRules |-> r.tab.sessionRules,
                    sessionRoutes |-> r.tab.sessionRoutes]
    <3>1. r = RemoveOwner(forgot, k, s)
      BY <1>2, Zenon DEF RemoveRoute
    <3>2. ~(k \notin forgot.entries \/ forgot.owners[k][s] = 0)
      BY <2>2, <2>3, Zenon
    <3> HIDE DEF forgot, k
    <3>3. r = [tab   |-> [forgot EXCEPT
                           !.owners[k][s]    = left,
                           !.sessionRules[s] = IF left = 0 THEN @ \ {k} ELSE @,
                           !.entries = IF last THEN @ \ {k} ELSE @],
               dirty |-> IF last THEN {keyFamily[k]} ELSE {}]
      BY <2>3, <3>1, <3>2 DEF RemoveOwner
    <3> HIDE DEF r, left, last
    <3>4. r.tab = [forgot EXCEPT !.owners[k][s]    = left,
                                 !.sessionRules[s] = IF left = 0 THEN @ \ {k} ELSE @,
                                 !.entries = IF last THEN @ \ {k} ELSE @]
      BY <3>3, Zenon
    <3>5. QED
      BY <2>3, <3>3, <3>4, Zenon DEF Tables
  <2>5. \A key \in Keys, v \in Sessions :
          r.tab.owners[key][v] =
            IF key = k /\ v = s THEN left ELSE t.owners[key][v]
    <3> HIDE DEF r, k, left
    <3>1. QED
      BY <1>0, <2>1, <2>4
  <2>6. left \in Nat
    BY <2>2
  <2>7. r.tab \in Tables
    <3> HIDE DEF r, k, left, last
    <3>1. r.tab.owners \in [Keys -> [Sessions -> Nat]]
      BY <1>0, <2>1, <2>4, <2>6
    <3>2. r.tab.sessionRules \in [Sessions -> SUBSET Keys]
      BY <1>0, <2>4
    <3>3. r.tab.entries \subseteq Keys
      BY <1>0, <2>4, Zenon
    <3>4. r.tab.sessionRoutes \in [Sessions -> [Routes -> Keys \cup {NoKey}]]
      BY <1>0, <2>4
    <3>5. QED
      BY <2>4, <3>1, <3>2, <3>3, <3>4, Zenon DEF Tables
  <2> HIDE DEF r, k, left, last
  <2>8. \A key \in Keys, v \in Sessions :
          r.tab.owners[key][v] = Cardinality(RoutesOf(r.tab, v, key))
    <3> SUFFICES ASSUME NEW key \in Keys, NEW v \in Sessions
                 PROVE  r.tab.owners[key][v] = Cardinality(RoutesOf(r.tab, v, key))
      BY Zenon
    <3>1. t.owners[key][v] = Cardinality(RoutesOf(t, v, key))
      BY Zenon DEF Consistent
    <3>2. Forgets(t, r.tab, s, id)
      BY <2>4, Zenon DEF Forgets
    <3>3. /\ v = s /\ key = k
              => Cardinality(RoutesOf(r.tab, v, key)) = Cardinality(RoutesOf(t, v, key)) - 1
          /\ ~(v = s /\ key = k)
              => Cardinality(RoutesOf(r.tab, v, key)) = Cardinality(RoutesOf(t, v, key))
      <4>1. t \in Tables /\ t.sessionRoutes[s][id] # NoKey
        BY <1>0, <1>2, Zenon DEF k
      <4> DEFINE u == r.tab
      <4>2. Forgets(t, u, s, id)
        BY <3>2, Zenon
      <4> HIDE DEF u
      <4>3. /\ v = s /\ key = t.sessionRoutes[s][id]
                => Cardinality(RoutesOf(u, v, key)) = Cardinality(RoutesOf(t, v, key)) - 1
            /\ ~(v = s /\ key = t.sessionRoutes[s][id])
                => Cardinality(RoutesOf(u, v, key)) = Cardinality(RoutesOf(t, v, key))
        BY <4>1, <4>2, ForgetRoute
      <4> QED
        BY <4>3, Zenon DEF k, u
    <3>4. CASE v = s /\ key = k
      BY <2>5, <3>1, <3>3, <3>4, Zenon DEF left
    <3>5. CASE ~(v = s /\ key = k)
      BY <2>5, <3>1, <3>3, <3>5, Zenon
    <3>6. QED
      BY <3>4, <3>5, Zenon
  <2>9. t.entries = {key \in Keys : \E v \in Sessions : t.owners[key][v] # 0}
    BY Zenon DEF Consistent
  <2>10. last <=> \A v \in Sessions : r.tab.owners[k][v] = 0
    BY <2>1, <2>5, Zenon DEF last
  <2>11. r.tab.entries = {key \in Keys : \E v \in Sessions : r.tab.owners[key][v] # 0}
    <3>1. ASSUME NEW key \in Keys, key # k
          PROVE  \A v \in Sessions : r.tab.owners[key][v] = t.owners[key][v]
      BY <2>5, <3>1, Zenon
    <3>2. QED
      BY <1>0, <2>1, <2>2, <2>4, <2>9, <2>10, <3>1
  <2>12. \A v \in Sessions :
          r.tab.sessionRules[v] = {key \in Keys : r.tab.owners[key][v] # 0}
    <3> SUFFICES ASSUME NEW v \in Sessions
                 PROVE  r.tab.sessionRules[v] = {key \in Keys : r.tab.owners[key][v] # 0}
      BY Zenon
    <3>1. t.sessionRules[v] = {key \in Keys : t.owners[key][v] # 0}
      BY Zenon DEF Consistent
    <3>2. r.tab.sessionRules[v] =
            IF v = s /\ left = 0 THEN t.sessionRules[v] \ {k} ELSE t.sessionRules[v]
      BY <1>0, <2>4, Zenon
    <3>3. QED
      BY <1>0, <2>1, <2>2, <2>5, <2>6, <3>1, <3>2
  <2>13. r.dirty \subseteq Families
    BY <2>1, <2>4, RefCountAssumption
  <2>14. ASSUME NEW f \in Families
         PROVE  /\ Desired(t, f) = {key \in t.entries : keyFamily[key] = f}
                /\ Desired(r.tab, f) = {key \in r.tab.entries : keyFamily[key] = f}
    BY <2>9, <2>11, Zenon DEF Desired
  <2>15. ASSUME NEW f \in Families \ r.dirty
         PROVE  Desired(r.tab, f) = Desired(t, f)
    <3>1. /\ Desired(t, f) = {key \in t.entries : keyFamily[key] = f}
          /\ Desired(r.tab, f) = {key \in r.tab.entries : keyFamily[key] = f}
      BY <2>14, Zenon
    <3>2. QED
      BY <1>0, <2>4, <2>15, <3>1
  <2>16. Sound(t, r)
    BY <2>7, <2>8, <2>11, <2>12, <2>13, <2>15, Zenon DEF Sound, Consistent
  <2>17. Exact(t, r)
    BY <2>2, <2>4, <2>13, <2>14 DEF Exact
  <2>18. QED
    BY <2>4, <2>16, <2>17, Zenon DEF r
<1>3. QED
  BY <1>1, <1>2, Zenon

(* addOwner and rememberRoute keep the tables consistent when the session  *)
(* has no route of that identity, and report a family that gains a rule.   *)
LEMMA AddRouteSound ==
  ASSUME NEW t, Consistent(t), NEW s \in Sessions, NEW id \in Routes,
         NEW k \in Keys, t.sessionRoutes[s][id] = NoKey
  PROVE  /\ Sound(t, AddRoute(t, id, k, s))
         /\ Exact(t, AddRoute(t, id, k, s))
         /\ AddRoute(t, id, k, s).tab.sessionRoutes =
              [t.sessionRoutes EXCEPT ![s][id] = k]
<1> DEFINE r == AddRoute(t, id, k, s)
           first == k \notin t.entries \/ \A u \in Sessions : t.owners[k][u] = 0
<1>1. /\ t \in Tables
      /\ t.entries \subseteq Keys
      /\ t.owners \in [Keys -> [Sessions -> Nat]]
      /\ t.sessionRules \in [Sessions -> SUBSET Keys]
      /\ t.sessionRoutes \in [Sessions -> [Routes -> Keys \cup {NoKey}]]
  BY Zenon DEF Consistent, Tables
<1>2. /\ r.tab.owners = [t.owners EXCEPT ![k][s] = @ + 1]
      /\ r.tab.sessionRules = [t.sessionRules EXCEPT ![s] = @ \cup {k}]
      /\ r.tab.entries = t.entries \cup {k}
      /\ r.tab.sessionRoutes = [t.sessionRoutes EXCEPT ![s][id] = k]
      /\ r.dirty = IF first THEN {keyFamily[k]} ELSE {}
      /\ r.tab = [entries |-> r.tab.entries, owners |-> r.tab.owners,
                  sessionRules |-> r.tab.sessionRules,
                  sessionRoutes |-> r.tab.sessionRoutes]
  <2>1. r.tab = [t EXCEPT !.entries              = @ \cup {k},
                          !.owners[k][s]         = @ + 1,
                          !.sessionRules[s]      = @ \cup {k},
                          !.sessionRoutes[s][id] = k]
    BY Zenon DEF AddRoute
  <2>2. r.dirty = IF first THEN {keyFamily[k]} ELSE {}
    BY Zenon DEF AddRoute
  <2> HIDE DEF r, first
  <2>3. QED
    BY <1>1, <2>1, <2>2, Zenon DEF Tables
<1> HIDE DEF r
<1>3. \A key \in Keys, v \in Sessions :
        r.tab.owners[key][v] =
          IF key = k /\ v = s THEN t.owners[key][v] + 1 ELSE t.owners[key][v]
  BY <1>1, <1>2
<1>4. r.tab \in Tables
  <2>1. r.tab.owners \in [Keys -> [Sessions -> Nat]]
    BY <1>1, <1>2
  <2>2. r.tab.sessionRules \in [Sessions -> SUBSET Keys]
    BY <1>1, <1>2
  <2>3. r.tab.entries \subseteq Keys
    BY <1>1, <1>2, Zenon
  <2>4. r.tab.sessionRoutes \in [Sessions -> [Routes -> Keys \cup {NoKey}]]
    BY <1>1, <1>2
  <2>5. QED
    BY <1>2, <2>1, <2>2, <2>3, <2>4, Zenon DEF Tables
<1>5. \A key \in Keys, v \in Sessions :
        r.tab.owners[key][v] = Cardinality(RoutesOf(r.tab, v, key))
  <2> SUFFICES ASSUME NEW key \in Keys, NEW v \in Sessions
               PROVE  r.tab.owners[key][v] = Cardinality(RoutesOf(r.tab, v, key))
    BY Zenon
  <2>1. t.owners[key][v] = Cardinality(RoutesOf(t, v, key))
    BY Zenon DEF Consistent
  <2>2. r.tab.sessionRoutes = [t.sessionRoutes EXCEPT ![s][id] = k]
    BY <1>2, Zenon
  <2>3. t \in Tables
    BY <1>1, Zenon
  <2>4. Cardinality(RoutesOf(r.tab, v, key)) =
          IF v = s /\ key = k
          THEN Cardinality(RoutesOf(t, v, key)) + 1
          ELSE Cardinality(RoutesOf(t, v, key))
    BY <2>2, <2>3, RememberRoute
  <2>5. QED
    BY <1>3, <2>1, <2>4
<1>6. t.entries = {key \in Keys : \E v \in Sessions : t.owners[key][v] # 0}
  BY Zenon DEF Consistent
<1>7. r.tab.owners[k][s] # 0
  BY <1>1, <1>3
<1>8. r.tab.entries = {key \in Keys : \E v \in Sessions : r.tab.owners[key][v] # 0}
  <2>1. ASSUME NEW key \in Keys, key # k
        PROVE  \A v \in Sessions : r.tab.owners[key][v] = t.owners[key][v]
    BY <1>3, <2>1, Zenon
  <2>2. QED
    BY <1>2, <1>6, <1>7, <2>1
<1>9. \A v \in Sessions :
        r.tab.sessionRules[v] = {key \in Keys : r.tab.owners[key][v] # 0}
  <2> SUFFICES ASSUME NEW v \in Sessions
               PROVE  r.tab.sessionRules[v] = {key \in Keys : r.tab.owners[key][v] # 0}
    BY Zenon
  <2>1. t.sessionRules[v] = {key \in Keys : t.owners[key][v] # 0}
    BY Zenon DEF Consistent
  <2>2. r.tab.sessionRules[v] =
          IF v = s THEN t.sessionRules[v] \cup {k} ELSE t.sessionRules[v]
    BY <1>1, <1>2, Zenon
  <2>3. QED
    BY <1>3, <1>7, <2>1, <2>2
<1>10. r.dirty \subseteq Families
  BY <1>2, RefCountAssumption
<1>11. ASSUME NEW f \in Families
       PROVE  /\ Desired(t, f) = {key \in t.entries : keyFamily[key] = f}
              /\ Desired(r.tab, f) = {key \in r.tab.entries : keyFamily[key] = f}
  BY <1>6, <1>8, Zenon DEF Desired
<1>12. ASSUME NEW f \in Families \ r.dirty
       PROVE  Desired(r.tab, f) = Desired(t, f)
  <2>1. /\ Desired(t, f) = {key \in t.entries : keyFamily[key] = f}
        /\ Desired(r.tab, f) = {key \in r.tab.entries : keyFamily[key] = f}
    BY <1>11, Zenon
  <2>2. QED
    BY <1>2, <1>12, <2>1
<1>13. Sound(t, r)
  BY <1>4, <1>5, <1>8, <1>9, <1>10, <1>12, Zenon DEF Sound, Consistent
<1>14. Exact(t, r)
  <2>1. first => k \notin t.entries
    BY <1>6, Zenon
  <2>2. QED
    BY <1>2, <1>10, <1>11, <2>1 DEF Exact
<1>15. QED
  BY <1>2, <1>13, <1>14, Zenon DEF r

(* The rules that consistent tables want are the keys that some route      *)
(* stands for.                                                             *)
LEMMA DesiredIsRouted ==
  ASSUME NEW t, Consistent(t), NEW f
  PROVE  Desired(t, f) = Routed(t, f)
<1>1. /\ t.entries = {k \in Keys : \E s \in Sessions : t.owners[k][s] # 0}
      /\ \A k \in Keys, s \in Sessions :
           t.owners[k][s] = Cardinality(RoutesOf(t, s, k))
  BY Zenon DEF Consistent
<1>2. \A k \in Keys, s \in Sessions :
        t.owners[k][s] # 0 <=> RoutesOf(t, s, k) # {}
  BY <1>1, RoutesOfFinite
<1>3. QED
  BY <1>1, <1>2, Zenon DEF Desired, Routed

(* A route that changes its key makes no difference to the other keys.     *)
LEMMA OtherKeys ==
  ASSUME NEW t, Consistent(t), NEW u, Consistent(u),
         NEW s \in Sessions, NEW id \in Routes, NEW k,
         u.sessionRoutes = [t.sessionRoutes EXCEPT ![s][id] = k],
         NEW f, NEW x, x # k, x # t.sessionRoutes[s][id]
  PROVE  x \in Desired(t, f) <=> x \in Desired(u, f)
<1>1. t.sessionRoutes \in [Sessions -> [Routes -> Keys \cup {NoKey}]]
  BY Zenon DEF Consistent, Tables
<1>2. \A v \in Sessions, i \in Routes :
        u.sessionRoutes[v][i] = x <=> t.sessionRoutes[v][i] = x
  BY <1>1
<1>3. \A v \in Sessions : RoutesOf(u, v, x) = RoutesOf(t, v, x)
  BY <1>2, Zenon DEF RoutesOf
<1>4. Desired(t, f) = Routed(t, f) /\ Desired(u, f) = Routed(u, f)
  BY DesiredIsRouted, Zenon
<1>5. x \in Routed(t, f) <=> x \in Routed(u, f)
  BY <1>3, Zenon DEF Routed
<1>6. QED
  BY <1>4, <1>5, Zenon

(* announce of a translatable rule, with the route it replaces, which may  *)
(* be that of another key.                                                 *)
LEMMA AnnounceRouteSound ==
  ASSUME NEW t, Consistent(t), NEW s \in Sessions, NEW id \in Routes,
         NEW k \in Keys
  PROVE  /\ Sound(t, AnnounceRoute(t, id, k, s))
         /\ Exact(t, AnnounceRoute(t, id, k, s))
         /\ AnnounceRoute(t, id, k, s).tab.sessionRoutes =
              [t.sessionRoutes EXCEPT ![s][id] = k]
<1>0. t.sessionRoutes \in [Sessions -> [Routes -> Keys \cup {NoKey}]]
  BY Zenon DEF Consistent, Tables
<1>1. CASE t.sessionRoutes[s][id] = k
  <2>1. AnnounceRoute(t, id, k, s).tab = t /\ AnnounceRoute(t, id, k, s).dirty = {}
    BY <1>1, Zenon DEF AnnounceRoute, Unchanged
  <2>2. t.sessionRoutes = [t.sessionRoutes EXCEPT ![s][id] = k]
    BY <1>0, <1>1, Zenon
  <2>3. QED
    BY <2>1, <2>2, Zenon DEF Sound, Exact
<1>2. CASE t.sessionRoutes[s][id] # k
  <2> DEFINE removed == RemoveRoute(t, id, s)
             added   == AddRoute(removed.tab, id, k, s)
             r       == AnnounceRoute(t, id, k, s)
             old     == t.sessionRoutes[s][id]
  <2>1. r.tab = added.tab /\ r.dirty = removed.dirty \cup added.dirty
    BY <1>2, Zenon DEF AnnounceRoute
  <2>2. /\ Sound(t, removed) /\ Exact(t, removed)
        /\ removed.tab.sessionRoutes = [t.sessionRoutes EXCEPT ![s][id] = NoKey]
    BY RemoveRouteSound
  <2> HIDE DEF removed, r
  <2>3. removed.tab.sessionRoutes[s][id] = NoKey
    BY <1>0, <2>2
  <2>4. Consistent(removed.tab)
    BY <2>2, Zenon DEF Sound
  <2>5. /\ Sound(removed.tab, added) /\ Exact(removed.tab, added)
        /\ added.tab.sessionRoutes = [removed.tab.sessionRoutes EXCEPT ![s][id] = k]
    BY <2>3, <2>4, AddRouteSound
  <2> HIDE DEF added
  <2>6. Sound(t, r)
    BY <2>1, <2>2, <2>5, Zenon DEF Sound
  <2>7. r.tab.sessionRoutes = [t.sessionRoutes EXCEPT ![s][id] = k]
    BY <1>0, <2>1, <2>2, <2>5
  <2>8. Exact(t, r)
    <3> SUFFICES ASSUME NEW f \in r.dirty PROVE Desired(r.tab, f) # Desired(t, f)
      BY Zenon DEF Exact
    <3>1. NoKey \notin Desired(t, f) /\ NoKey \notin Desired(removed.tab, f)
      BY <2>4, RefCountAssumption, Zenon DEF Desired, Consistent, Tables
    <3>2. \A x : x \notin {NoKey, old} => (x \in Desired(t, f) <=> x \in Desired(removed.tab, f))
      <4> SUFFICES ASSUME NEW x, x # NoKey, x # old
                   PROVE  x \in Desired(t, f) <=> x \in Desired(removed.tab, f)
        BY Zenon
      <4>1. QED
        BY <2>2, <2>4, OtherKeys
    <3>3. Consistent(added.tab)
      BY <2>5, Zenon DEF Sound
    <3>4. \A x : x \notin {NoKey, k} =>
                (x \in Desired(removed.tab, f) <=> x \in Desired(added.tab, f))
      <4> SUFFICES ASSUME NEW x, x # NoKey, x # k
                   PROVE  x \in Desired(removed.tab, f) <=> x \in Desired(added.tab, f)
        BY Zenon
      <4>1. QED
        BY <2>3, <2>4, <2>5, <3>3, OtherKeys
    <3>5. k # NoKey
      BY RefCountAssumption, Zenon
    <3>6. CASE f \in removed.dirty
      <4>1. PICK x : ~(x \in Desired(t, f) <=> x \in Desired(removed.tab, f))
        <5>1. Desired(removed.tab, f) # Desired(t, f)
          BY <2>2, <3>6, Zenon DEF Exact
        <5>2. QED
          BY <5>1, Zenon
      <4>2. x = old /\ x # NoKey /\ x # k
        BY <1>2, <3>1, <3>2, <4>1, Zenon
      <4>3. QED
        BY <2>1, <3>4, <4>1, <4>2, Zenon
    <3>7. CASE f \in added.dirty
      <4>1. PICK x : ~(x \in Desired(removed.tab, f) <=> x \in Desired(added.tab, f))
        <5>1. Desired(added.tab, f) # Desired(removed.tab, f)
          BY <2>5, <3>7, Zenon DEF Exact
        <5>2. QED
          BY <5>1, Zenon
      <4>2. NoKey \notin Desired(added.tab, f)
        BY <3>3, RefCountAssumption, Zenon DEF Desired, Consistent, Tables
      <4>3. x = k /\ x # NoKey /\ x # old
        BY <1>2, <3>1, <3>4, <3>5, <4>1, <4>2, Zenon
      <4>4. QED
        BY <2>1, <3>2, <4>1, <4>3, Zenon
    <3>8. QED
      BY <2>1, <3>6, <3>7, Zenon
  <2>9. QED
    BY <2>6, <2>7, <2>8, Zenon DEF r
<1>3. QED
  BY <1>1, <1>2, Zenon

(* sessionDown: removeSessionOwner of every key the session lists, and the *)
(* session's routes.                                                       *)
LEMMA DropSessionSound ==
  ASSUME NEW t, Consistent(t), NEW s \in Sessions
  PROVE  /\ Sound(t, DropSession(t, s))
         /\ Exact(t, DropSession(t, s))
         /\ DropSession(t, s).tab.sessionRoutes =
              [t.sessionRoutes EXCEPT ![s] = [id \in Routes |-> NoKey]]
<1> DEFINE r    == DropSession(t, s)
           keys == t.sessionRules[s]
           none == [id \in Routes |-> NoKey]
           gone == {k \in keys \cap t.entries :
                      /\ t.owners[k][s] # 0
                      /\ \A u \in Sessions \ {s} : t.owners[k][u] = 0}
<1>1. /\ t \in Tables
      /\ t.entries \subseteq Keys
      /\ t.owners \in [Keys -> [Sessions -> Nat]]
      /\ t.sessionRules \in [Sessions -> SUBSET Keys]
      /\ t.sessionRoutes \in [Sessions -> [Routes -> Keys \cup {NoKey}]]
  BY Zenon DEF Consistent, Tables
<1>2. /\ t.entries = {k \in Keys : \E v \in Sessions : t.owners[k][v] # 0}
      /\ keys = {k \in Keys : t.owners[k][s] # 0}
  BY Zenon DEF Consistent
<1>3. CASE keys = {}
  <2>1. r.tab = t /\ r.dirty = {}
    BY <1>3, Zenon DEF DropSession, Unchanged
  <2>2. ASSUME NEW id \in Routes
        PROVE  t.sessionRoutes[s][id] = NoKey
    <3> SUFFICES ASSUME t.sessionRoutes[s][id] \in Keys
                 PROVE  FALSE
      BY <1>1
    <3> DEFINE k == t.sessionRoutes[s][id]
    <3>1. id \in RoutesOf(t, s, k)
      BY Zenon DEF RoutesOf
    <3>2. Cardinality(RoutesOf(t, s, k)) # 0
      BY <3>1, RoutesOfFinite, Zenon
    <3>3. QED
      BY <1>2, <1>3, <3>2 DEF Consistent
  <2>3. t.sessionRoutes = [t.sessionRoutes EXCEPT ![s] = none]
    BY <1>1, <2>2, Zenon
  <2>4. QED
    BY <2>1, <2>3, Zenon DEF Sound, Exact
<1>4. CASE keys # {}
  <2>1. /\ r.tab.owners = [k \in Keys |-> IF k \in keys \cap t.entries
                                         THEN [t.owners[k] EXCEPT ![s] = 0]
                                         ELSE t.owners[k]]
        /\ r.tab.sessionRules = [t.sessionRules EXCEPT ![s] = {}]
        /\ r.tab.entries = t.entries \ gone
        /\ r.tab.sessionRoutes = [t.sessionRoutes EXCEPT ![s] = none]
        /\ r.dirty = {keyFamily[k] : k \in gone}
        /\ r.tab = [entries |-> r.tab.entries, owners |-> r.tab.owners,
                    sessionRules |-> r.tab.sessionRules,
                    sessionRoutes |-> r.tab.sessionRoutes]
    <3>1. /\ r.dirty = {keyFamily[k] : k \in gone}
          /\ r.tab = [t EXCEPT
                        !.entries = @ \ gone,
                        !.owners  = [k \in Keys |->
                                       IF k \in keys \cap t.entries
                                       THEN [@[k] EXCEPT ![s] = 0] ELSE @[k]],
                        !.sessionRules[s]  = {},
                        !.sessionRoutes[s] = none]
      BY <1>4, Zenon DEF DropSession
    <3> HIDE DEF r, keys, gone, none
    <3>2. QED
      BY <1>1, <3>1, Zenon DEF Tables
  <2> HIDE DEF r, keys
  <2>2. \A k \in Keys, v \in Sessions :
          r.tab.owners[k][v] = IF v = s THEN 0 ELSE t.owners[k][v]
    BY <1>1, <1>2, <2>1
  <2>3. r.tab \in Tables
    <3>1. r.tab.owners \in [Keys -> [Sessions -> Nat]]
      BY <1>1, <2>1
    <3>2. r.tab.sessionRules \in [Sessions -> SUBSET Keys]
      BY <1>1, <2>1
    <3>3. r.tab.entries \subseteq Keys
      BY <1>1, <2>1, Zenon
    <3>4. r.tab.sessionRoutes \in [Sessions -> [Routes -> Keys \cup {NoKey}]]
      BY <1>1, <2>1
    <3>5. QED
      BY <2>1, <3>1, <3>2, <3>3, <3>4, Zenon DEF Tables
  <2>4. \A k \in Keys, v \in Sessions :
          r.tab.owners[k][v] = Cardinality(RoutesOf(r.tab, v, k))
    <3> SUFFICES ASSUME NEW k \in Keys, NEW v \in Sessions
                 PROVE  r.tab.owners[k][v] = Cardinality(RoutesOf(r.tab, v, k))
      BY Zenon
    <3>1. CASE v = s
      <4>1. RoutesOf(r.tab, v, k) = {}
        BY <1>1, <2>1, <3>1, RefCountAssumption DEF RoutesOf
      <4>2. QED
        BY <2>2, <3>1, <4>1, FS_EmptySet, Zenon
    <3>2. CASE v # s
      <4>1. RoutesOf(r.tab, v, k) = RoutesOf(t, v, k)
        BY <1>1, <2>1, <3>2, Zenon DEF RoutesOf
      <4>2. QED
        BY <2>2, <3>2, <4>1 DEF Consistent
    <3>3. QED
      BY <3>1, <3>2, Zenon
  <2>5. r.tab.entries = {k \in Keys : \E v \in Sessions : r.tab.owners[k][v] # 0}
    <3>1. ASSUME NEW k \in Keys
          PROVE  k \in gone <=> /\ t.owners[k][s] # 0
                               /\ \A v \in Sessions \ {s} : t.owners[k][v] = 0
      BY <1>2, Zenon
    <3> HIDE DEF gone
    <3>2. ASSUME NEW k \in Keys
          PROVE  k \in r.tab.entries <=> \E v \in Sessions : r.tab.owners[k][v] # 0
      BY <1>2, <2>1, <2>2, <3>1
    <3>3. QED
      BY <1>1, <2>1, <3>2, Zenon
  <2>6. \A v \in Sessions :
          r.tab.sessionRules[v] = {k \in Keys : r.tab.owners[k][v] # 0}
    <3>1. \A v \in Sessions : t.sessionRules[v] = {k \in Keys : t.owners[k][v] # 0}
      BY Zenon DEF Consistent
    <3>2. QED
      BY <1>1, <2>1, <2>2, <3>1
  <2>7. r.dirty \subseteq Families
    BY <1>1, <2>1, RefCountAssumption
  <2>8. ASSUME NEW f \in Families
        PROVE  /\ Desired(t, f) = {k \in t.entries : keyFamily[k] = f}
               /\ Desired(r.tab, f) = {k \in r.tab.entries : keyFamily[k] = f}
    BY <1>2, <2>5, Zenon DEF Desired
  <2>9. ASSUME NEW f \in Families \ r.dirty
        PROVE  Desired(r.tab, f) = Desired(t, f)
    <3>1. /\ Desired(t, f) = {k \in t.entries : keyFamily[k] = f}
          /\ Desired(r.tab, f) = {k \in r.tab.entries : keyFamily[k] = f}
      BY <2>8, Zenon
    <3>2. QED
      BY <2>1, <2>9, <3>1
  <2>10. Sound(t, r)
    BY <2>3, <2>4, <2>5, <2>6, <2>7, <2>9, Zenon DEF Sound, Consistent
  <2>11. Exact(t, r)
    BY <2>1, <2>7, <2>8 DEF Exact
  <2>12. QED
    BY <2>1, <2>10, <2>11, Zenon DEF r
<1>5. QED
  BY <1>3, <1>4, Zenon

-----------------------------------------------------------------------------
(* The inductive invariant: consistent tables, and every family whose last *)
(* push went through and that VPP has not lost holds what the tables want. *)
Inv ==
  /\ TypeOK
  /\ Consistent(tables)
  /\ \A f \in Families :
       f \notin failed /\ ~resyncDue =>
         acl[f] = Desired(tables, f) /\ gauge[f] = Cardinality(acl[f])

(* The gauge counts: desired rules are finitely many.                      *)
LEMMA DesiredCount ==
  ASSUME NEW t, Consistent(t), NEW f
  PROVE  Desired(t, f) \subseteq Keys /\ Cardinality(Desired(t, f)) \in Nat
<1>1. Desired(t, f) \subseteq Keys
  BY Zenon DEF Desired, Consistent, Tables
<1>2. IsFiniteSet(Desired(t, f))
  BY <1>1, FS_Subset, RefCountAssumption, Zenon
<1>3. QED
  BY <1>1, <1>2, FS_CardinalityType, Zenon

(* New starts with empty tables and empty ACLs.                            *)
LEMMA InitInv == Init => Inv
<1> SUFFICES ASSUME Init PROVE Inv
  BY Zenon
<1>1. /\ tables.entries = {}
      /\ tables.owners = [k \in Keys |-> [s \in Sessions |-> 0]]
      /\ tables.sessionRules = [s \in Sessions |-> {}]
      /\ tables.sessionRoutes = [s \in Sessions |-> [id \in Routes |-> NoKey]]
      /\ tables \in Tables
  BY Zenon DEF Init, EmptyTables, Tables
<1>2. ASSUME NEW k \in Keys, NEW s \in Sessions
      PROVE  tables.owners[k][s] = Cardinality(RoutesOf(tables, s, k))
  <2>1. RoutesOf(tables, s, k) = {}
    BY <1>1, RefCountAssumption DEF RoutesOf
  <2>2. QED
    BY <1>1, <2>1, FS_EmptySet
<1>3. Consistent(tables)
  BY <1>1, <1>2 DEF Consistent
<1>4. \A f \in Families : Desired(tables, f) = {}
  BY <1>1, Zenon DEF Desired
<1>5. QED
  BY <1>1, <1>3, <1>4, FS_EmptySet, Zenon DEF Init, Inv, TypeOK

(* A handler that changes the tables soundly and reconciles the families   *)
(* it reports dirty keeps the invariant, whichever pushes fail.            *)
LEMMA UpdateInv ==
  ASSUME Inv, NEW r, Sound(tables, r), Update(r)
  PROVE  Inv'
<1>1. /\ tables' = r.tab
      /\ resyncDue' = resyncDue
      /\ Consistent(r.tab)
      /\ r.dirty \subseteq Families
      /\ \A f \in Families \ r.dirty : Desired(r.tab, f) = Desired(tables, f)
  BY Zenon DEF Update, Sound
<1>2. PICK ok \in SUBSET r.dirty :
        /\ acl' = [f \in Families |-> IF f \in ok THEN Desired(r.tab, f) ELSE acl[f]]
        /\ gauge' = [f \in Families |->
                       IF f \in ok THEN Cardinality(Desired(r.tab, f)) ELSE gauge[f]]
        /\ failed' = (failed \ ok) \cup (r.dirty \ ok)
  BY Zenon DEF Update, Reconcile
<1>3. \A f \in Families :
        Desired(r.tab, f) \subseteq Keys /\ Cardinality(Desired(r.tab, f)) \in Nat
  BY <1>1, DesiredCount, Zenon
<1>4. TypeOK'
  BY <1>1, <1>2, <1>3, Zenon DEF Inv, TypeOK, Consistent
<1>5. ASSUME NEW f \in Families, f \notin failed', ~resyncDue'
      PROVE  acl'[f] = Desired(r.tab, f) /\ gauge'[f] = Cardinality(acl'[f])
  <2>1. CASE f \in ok
    BY <1>2, <2>1, Zenon
  <2>2. CASE f \notin ok
    BY <1>1, <1>2, <1>5, <2>2, Zenon DEF Inv
  <2>3. QED
    BY <2>1, <2>2, Zenon
<1>6. Consistent(tables)'
  BY <1>1 DEF Consistent, RoutesOf
<1>7. \A f \in Families : Desired(tables, f)' = Desired(r.tab, f)
  BY <1>1, Zenon DEF Desired
<1>8. QED
  BY <1>4, <1>5, <1>6, <1>7, Zenon DEF Inv

(* announce, whether the rule translates or not, keeps the invariant.      *)
LEMMA AnnounceInv ==
  ASSUME Inv, NEW s \in Sessions, NEW n \in Nlris, NEW drop \in BOOLEAN,
         Announce(s, n, drop)
  PROVE  Inv'
<1> DEFINE k  == IF drop THEN aclKey[n] ELSE NoKey
           id == routeIdentity[n]
<1>1. id \in Routes /\ k \in Keys \cup {NoKey} /\ Consistent(tables)
  BY RefCountAssumption, Zenon DEF Inv
<1>2. CASE k = NoKey
  <2>1. Update(RemoveRoute(tables, id, s))
    BY <1>2, Zenon DEF Announce
  <2>2. QED
    BY <1>1, <2>1, RemoveRouteSound, UpdateInv, Zenon
<1>3. CASE k # NoKey
  <2>1. Update(AnnounceRoute(tables, id, k, s))
    BY <1>3, Zenon DEF Announce
  <2>2. QED
    BY <1>1, <1>3, <2>1, AnnounceRouteSound, UpdateInv, Zenon
<1>4. QED
  BY <1>2, <1>3, Zenon

(* Every update Run handles, and every loss of the ACLs, keeps it.         *)
LEMMA NextInv == Inv /\ [Next]_vars => Inv'
<1> SUFFICES ASSUME Inv, [Next]_vars PROVE Inv'
  BY Zenon
<1>0. Consistent(tables)
  BY Zenon DEF Inv
<1>1. CASE \E s \in Sessions, n \in Nlris, drop \in BOOLEAN : Announce(s, n, drop)
  BY <1>1, AnnounceInv, Zenon
<1>2. ASSUME NEW s \in Sessions, NEW n \in Nlris, Withdraw(s, n)
      PROVE  Inv'
  <2>1. Sound(tables, RemoveRoute(tables, routeIdentity[n], s))
    BY <1>0, RemoveRouteSound, RefCountAssumption, Zenon
  <2>2. QED
    BY <1>2, <2>1, UpdateInv, Zenon DEF Withdraw
<1>3. ASSUME NEW s \in Sessions, SessionDown(s)
      PROVE  Inv'
  <2>1. Sound(tables, DropSession(tables, s))
    BY <1>0, DropSessionSound, Zenon
  <2>2. QED
    BY <1>3, <2>1, UpdateInv, Zenon DEF SessionDown
<1>4. CASE Resync
  <2>1. PICK ok \in SUBSET Families :
          /\ acl' = [f \in Families |->
                       IF f \in ok THEN Desired(tables, f) ELSE acl[f]]
          /\ gauge' = [f \in Families |->
                         IF f \in ok THEN Cardinality(Desired(tables, f)) ELSE gauge[f]]
          /\ failed' = (failed \ ok) \cup (Families \ ok)
    BY <1>4, Zenon DEF Resync, Reconcile
  <2>2. tables' = tables /\ resyncDue' = FALSE
    BY <1>4, Zenon DEF Resync
  <2>3. TypeOK'
    BY <1>0, <2>1, <2>2, DesiredCount, Zenon DEF Inv, TypeOK
  <2>4. Consistent(tables)'
    BY <1>0, <2>2 DEF Consistent, RoutesOf
  <2>5. \A f \in Families : Desired(tables, f)' = Desired(tables, f)
    BY <2>2, Zenon DEF Desired
  <2>6. QED
    BY <2>1, <2>3, <2>4, <2>5, Zenon DEF Inv
<1>5. CASE Recreate
  <2>1. /\ acl' = [f \in Families |-> {}]
        /\ resyncDue' = TRUE
        /\ UNCHANGED <<tables, gauge, failed>>
    BY <1>5, Zenon DEF Recreate
  <2>2. Consistent(tables)'
    BY <1>0, <2>1 DEF Consistent, RoutesOf
  <2>3. QED
    BY <2>1, <2>2, Zenon DEF Inv, TypeOK
<1>6. CASE UNCHANGED vars
  <2>1. UNCHANGED <<tables, acl, gauge, failed, resyncDue>>
    BY <1>6, Zenon DEF vars
  <2>2. Consistent(tables)' /\ \A f \in Families : Desired(tables, f)' = Desired(tables, f)
    BY <1>0, <2>1 DEF Consistent, RoutesOf, Desired
  <2>3. QED
    BY <2>1, <2>2, Zenon DEF Inv, TypeOK
<1>7. QED
  BY <1>1, <1>2, <1>3, <1>4, <1>5, <1>6, Zenon DEF Next

(* The inductive invariant holds throughout: the tables are consistent and *)
(* a family pushed without error holds what they want.                     *)
THEOREM Invariance == Spec => []Inv
<1>1. QED
  BY InitInv, NextInv, PTL DEF Spec

(* The variables keep their types: in particular no count ever goes below  *)
(* zero, however announces, withdraws and session losses follow each other *)
(* (removeOwner checks n == 0 first).                                      *)
THEOREM TypeCorrect == Spec => []TypeOK
<1>1. Inv => TypeOK
  BY Zenon DEF Inv
<1>2. QED
  BY <1>1, Invariance, PTL

(* In every reachable state the count of a key and session is the number   *)
(* of routes of the session that stand for the key.                        *)
THEOREM CountsCorrect == Spec => []CountsAreRoutes
<1>1. Inv => CountsAreRoutes
  BY Zenon DEF Inv, Consistent, CountsAreRoutes
<1>2. QED
  BY <1>1, Invariance, PTL

(* In every reachable state the entries and the keys listed per session    *)
(* are those with a count, so a session that goes down takes every rule    *)
(* only it holds and no other.                                             *)
THEOREM IndexesCorrect == Spec => []IndexesAgree
<1>1. Inv => IndexesAgree
  BY Zenon DEF Inv, Consistent, IndexesAgree
<1>2. QED
  BY <1>1, Invariance, PTL

(* Dirty tracking is complete: VPP holds exactly the rules of the routes   *)
(* announced, unless the family's last push failed or VPP lost its ACLs    *)
(* and the resync is still on its way.                                     *)
THEOREM AclCorrect == Spec => []AclMatchesRoutes
<1>1. Inv => AclMatchesRoutes
  BY DesiredIsRouted, Zenon DEF Inv, AclMatchesRoutes
<1>2. QED
  BY <1>1, Invariance, PTL
-----------------------------------------------------------------------------
(* The manager implements RouteTable.                                      *)

(* What the routes held want is what the tables want.                      *)
LEMMA WantedIsDesired ==
  Inv => \A f \in Families : Table!Wanted(Held, f) = Desired(tables, f)
<1> SUFFICES ASSUME Inv, NEW f \in Families
             PROVE  Table!Wanted(Held, f) = Desired(tables, f)
  BY Zenon
<1>1. \A k \in Keys, s \in Sessions : (\E r \in Held[s] : r.key = k) <=> RoutesOf(tables, s, k) # {}
  <2> TAKE k \in Keys, s \in Sessions
  <2>1. ASSUME NEW r \in Held[s], r.key = k PROVE RoutesOf(tables, s, k) # {}
    <3>1. r.text \in Routes /\ tables.sessionRoutes[s][r.text] = k
      BY <2>1 DEF Held
    <3>2. QED
      BY <3>1, Zenon DEF RoutesOf
  <2>2. ASSUME NEW id \in RoutesOf(tables, s, k) PROVE \E r \in Held[s] : r.key = k
    <3>1. [text |-> id, key |-> k] \in Held[s]
      BY <2>2 DEF Held, RoutesOf
    <3>2. QED
      BY <3>1
  <2>3. QED
    BY <2>1, <2>2, Zenon
<1>2. Table!Wanted(Held, f) = Routed(tables, f)
  BY <1>1, Zenon DEF Table!Wanted, Routed
<1>3. Desired(tables, f) = Routed(tables, f)
  BY DesiredIsRouted, Zenon DEF Inv
<1>4. QED
  BY <1>2, <1>3, Zenon

(* A handler whose dirty families are exactly those that want other rules  *)
(* pushes as the abstract table does.                                      *)
LEMMA UpdateHolds ==
  ASSUME Inv, Inv', NEW r, Sound(tables, r), Exact(tables, r), Update(r)
  PROVE  Table!Hold(Held')
<1>1. tables' = r.tab /\ resyncDue' = resyncDue
  BY Zenon DEF Update
<1>2. \A f \in Families : Table!Wanted(Held, f) = Desired(tables, f)
  BY WantedIsDesired, Zenon
<1>3. \A f \in Families : Table!Wanted(Held', f) = Desired(r.tab, f)
  <2>1. (\A f \in Families : Table!Wanted(Held, f) = Desired(tables, f))'
    BY WantedIsDesired, PTL
  <2>2. QED
    BY <1>1, <2>1 DEF Table!Wanted, Desired
<1>4. r.dirty = {f \in Families : Table!Wanted(Held', f) # Table!Wanted(Held, f)}
  BY <1>2, <1>3, Zenon DEF Sound, Exact
<1>5. PICK ok \in SUBSET r.dirty :
        /\ acl' = [f \in Families |-> IF f \in ok THEN Desired(r.tab, f) ELSE acl[f]]
        /\ failed' = (failed \ ok) \cup (r.dirty \ ok)
  BY Zenon DEF Update, Reconcile
<1>6. acl' = [f \in Families |-> IF f \in ok THEN Table!Wanted(Held', f) ELSE acl[f]]
  BY <1>3, <1>5, Zenon
<1>7. QED
  BY <1>1, <1>4, <1>5, <1>6, Zenon DEF Table!Hold, Table!Push

(* The empty tables hold nothing.                                          *)
LEMMA InitRefines == Init => Table!Init
<1> SUFFICES ASSUME Init PROVE Table!Init
  BY Zenon
<1>1. tables.sessionRoutes = [s \in Sessions |-> [id \in Routes |-> NoKey]]
  BY Zenon DEF Init, EmptyTables
<1>2. Held = [s \in Sessions |-> {}]
  BY <1>1, RefCountAssumption DEF Held
<1>3. QED
  BY <1>2, Zenon DEF Init, Table!Init

(* What a session holds once the route id of s stands for k, or nothing.   *)
LEMMA HeldAfter ==
  ASSUME Consistent(tables), NEW s \in Sessions, NEW id \in Routes, NEW k \in Keys \cup {NoKey},
         tables'.sessionRoutes = [tables.sessionRoutes EXCEPT ![s][id] = k]
  PROVE  Held' = [Held EXCEPT ![s] = {r \in Held[s] : r.text # id} \cup
                                       IF k = NoKey THEN {} ELSE {[text |-> id, key |-> k]}]
<1> DEFINE now == {r \in Held[s] : r.text # id} \cup
                    IF k = NoKey THEN {} ELSE {[text |-> id, key |-> k]}
<1>1. tables.sessionRoutes \in [Sessions -> [Routes -> Keys \cup {NoKey}]]
  BY Zenon DEF Consistent, Tables
<1>2. \A v \in Sessions, i \in Routes :
        tables'.sessionRoutes[v][i] = IF v = s /\ i = id THEN k ELSE tables.sessionRoutes[v][i]
  BY <1>1
<1>3. ASSUME NEW v \in Sessions, v # s PROVE Held'[v] = Held[v]
  BY <1>2, <1>3 DEF Held
<1>4. Held'[s] = now
  <2>1. ASSUME NEW r \in [text : Routes, key : Keys]
        PROVE  r \in Held'[s] <=> r \in now
    <3>1. r \in Held'[s] <=> tables'.sessionRoutes[s][r.text] = r.key
      BY Zenon DEF Held
    <3>2. r \in Held[s] <=> tables.sessionRoutes[s][r.text] = r.key
      BY Zenon DEF Held
    <3>3. r.text \in Routes /\ r.key \in Keys /\ r = [text |-> r.text, key |-> r.key]
      BY Zenon
    <3>4. CASE r.text # id
      <4>1. r # [text |-> id, key |-> k]
        BY <3>4
      <4>2. QED
        BY <1>2, <3>1, <3>2, <3>3, <3>4, <4>1, Zenon
    <3>5. CASE r.text = id
      <4>1. k \in Keys => (r = [text |-> id, key |-> k] <=> r.key = k)
        BY <3>3, <3>5
      <4>2. r \in now <=> k # NoKey /\ r = [text |-> id, key |-> k]
        BY <3>5, Zenon
      <4>3. r \in Held'[s] <=> r.key = k
        BY <1>2, <3>1, <3>3, <3>5, Zenon
      <4>4. QED
        BY <3>3, <4>1, <4>2, <4>3, RefCountAssumption, Zenon
    <3>6. QED
      BY <3>4, <3>5, Zenon
  <2>2. Held'[s] \subseteq [text : Routes, key : Keys] /\ Held[s] \subseteq [text : Routes, key : Keys]
    BY Zenon DEF Held
  <2>3. now \subseteq [text : Routes, key : Keys]
    BY <2>2
  <2> HIDE DEF now
  <2>4. QED
    BY <2>1, <2>2, <2>3, Zenon
<1>5. DOMAIN Held = Sessions /\ DOMAIN Held' = Sessions
  BY Zenon DEF Held
<1>6. Held = [v \in Sessions |-> Held[v]] /\ Held' = [v \in Sessions |-> Held'[v]]
  BY Zenon DEF Held
<1> HIDE DEF now
<1>7. Held' = [Held EXCEPT ![s] = now]
  BY <1>3, <1>4, <1>5, <1>6, Zenon
<1>8. QED
  BY <1>7, Zenon DEF now

(* An announce of a translatable rule replaces what the session held under *)
(* its text.                                                               *)
LEMMA AnnounceRefines ==
  ASSUME Inv, Inv', NEW s \in Sessions, NEW n \in Nlris,
         aclKey[n] # NoKey, Announce(s, n, TRUE)
  PROVE  Table!Announce(s, n)
<1> DEFINE id == routeIdentity[n]
           k  == aclKey[n]
           r  == AnnounceRoute(tables, id, k, s)
<1>1. id \in Routes /\ k \in Keys /\ Consistent(tables)
  BY RefCountAssumption, Zenon DEF Inv
<1>2. Update(r)
  BY Zenon DEF Announce
<1>3. /\ Sound(tables, r) /\ Exact(tables, r)
      /\ r.tab.sessionRoutes = [tables.sessionRoutes EXCEPT ![s][id] = k]
  BY <1>1, AnnounceRouteSound
<1>4. Table!Hold(Held')
  BY <1>2, <1>3, UpdateHolds, Zenon
<1>5. tables'.sessionRoutes = [tables.sessionRoutes EXCEPT ![s][id] = k]
  BY <1>2, <1>3, Zenon DEF Update
<1>6. Held' = [Held EXCEPT ![s] = {x \in Held[s] : x.text # id} \cup {[text |-> id, key |-> k]}]
  <2>1. k # NoKey
    BY Zenon
  <2> HIDE DEF id, k, r
  <2>2. QED
    BY <1>1, <1>5, <2>1, HeldAfter
<1>7. QED
  BY <1>4, <1>6, Zenon DEF Table!Announce, Table!Others

(* Removing the route of an NLRI releases it.                              *)
LEMMA RemoveRefines ==
  ASSUME Inv, Inv', NEW s \in Sessions, NEW n \in Nlris,
         Update(RemoveRoute(tables, routeIdentity[n], s))
  PROVE  Table!Release(s, n)
<1> DEFINE id == routeIdentity[n]
           r  == RemoveRoute(tables, id, s)
<1>1. id \in Routes /\ Consistent(tables)
  BY RefCountAssumption, Zenon DEF Inv
<1>2. /\ Sound(tables, r) /\ Exact(tables, r)
      /\ r.tab.sessionRoutes = [tables.sessionRoutes EXCEPT ![s][id] = NoKey]
  BY <1>1, RemoveRouteSound
<1>3. Table!Hold(Held')
  BY <1>2, UpdateHolds, Zenon
<1>4. tables'.sessionRoutes = [tables.sessionRoutes EXCEPT ![s][id] = NoKey]
  BY <1>2, Zenon DEF Update
<1>5. Held' = [Held EXCEPT ![s] = {x \in Held[s] : x.text # id} \cup {}]
  BY <1>1, <1>4, HeldAfter, Zenon
<1>6. {x \in Held[s] : x.text # id} \cup {} = {x \in Held[s] : x.text # id}
  BY Zenon
<1>7. QED
  BY <1>3, <1>5, <1>6, Zenon DEF Table!Release, Table!Others

(* sessionDown releases every route of the session.                        *)
LEMMA SessionDownRefines ==
  ASSUME Inv, Inv', NEW s \in Sessions, SessionDown(s)
  PROVE  Table!SessionDown(s)
<1> DEFINE r == DropSession(tables, s)
<1>1. Consistent(tables)
  BY Zenon DEF Inv, Inv
<1>2. /\ Sound(tables, r) /\ Exact(tables, r)
      /\ r.tab.sessionRoutes =
           [tables.sessionRoutes EXCEPT ![s] = [id \in Routes |-> NoKey]]
  BY <1>1, DropSessionSound, Zenon
<1>3. Table!Hold(Held')
  BY <1>2, UpdateHolds, Zenon DEF SessionDown
<1>4. Held' = [Held EXCEPT ![s] = {}]
  <2>1. tables'.sessionRoutes =
          [tables.sessionRoutes EXCEPT ![s] = [id \in Routes |-> NoKey]]
    BY <1>2, Zenon DEF SessionDown, Update
  <2>2. tables.sessionRoutes \in [Sessions -> [Routes -> Keys \cup {NoKey}]]
    BY <1>1, Zenon DEF Consistent, Tables
  <2>3. ASSUME NEW v \in Sessions, NEW i \in Routes
        PROVE  tables'.sessionRoutes[v][i] = IF v = s THEN NoKey ELSE tables.sessionRoutes[v][i]
    BY <2>1, <2>2
  <2>4. ASSUME NEW v \in Sessions PROVE Held'[v] = IF v = s THEN {} ELSE Held[v]
    BY <2>3, RefCountAssumption DEF Held
  <2>5. DOMAIN Held = Sessions /\ DOMAIN Held' = Sessions
    BY Zenon DEF Held
  <2>6. Held = [v \in Sessions |-> Held[v]] /\ Held' = [v \in Sessions |-> Held'[v]]
    BY Zenon DEF Held
  <2>7. QED
    BY <2>4, <2>5, <2>6, Zenon
<1>5. QED
  BY <1>3, <1>4, Zenon DEF Table!SessionDown

(* The manager implements the route table: every handler is one abstract   *)
(* update, reconciles exactly the families whose wanted rules it changed   *)
(* and pushes what the routes held want.  Nothing is assumed of the texts: *)
(* NLRIs with the same text replace each other in both.                    *)
THEOREM Refinement == Spec => ImplementsRouteTable
<1>1. Init => Inv /\ Table!Init
  BY InitInv, InitRefines, Zenon
<1>2. Inv /\ [Next]_vars => Inv'
  BY NextInv, Zenon
<1>3. Inv /\ Inv' /\ [Next]_vars => [Table!Next]_(Table!vars)
  <2> SUFFICES ASSUME Inv, Inv', [Next]_vars
               PROVE  [Table!Next]_(Table!vars)
    BY Zenon
  <2>1. ASSUME NEW s \in Sessions, NEW n \in Nlris, NEW drop \in BOOLEAN,
               Announce(s, n, drop)
        PROVE  Table!Announce(s, n) \/ Table!Release(s, n)
    <3>1. CASE drop /\ aclKey[n] # NoKey
      BY <2>1, <3>1, AnnounceRefines, Zenon
    <3>2. CASE ~(drop /\ aclKey[n] # NoKey)
      <4>1. Update(RemoveRoute(tables, routeIdentity[n], s))
        BY <2>1, <3>2, Zenon DEF Announce
      <4>2. QED
        BY <4>1, RemoveRefines, Zenon
    <3>3. QED
      BY <3>1, <3>2, Zenon
  <2>2. ASSUME NEW s \in Sessions, NEW n \in Nlris, Withdraw(s, n)
        PROVE  Table!Release(s, n)
    BY <2>2, RemoveRefines, Zenon DEF Withdraw
  <2>3. \A s \in Sessions : SessionDown(s) => Table!SessionDown(s)
    BY SessionDownRefines, Zenon
  <2>4. tables' = tables => Held' = Held
    BY Zenon DEF Held
  <2>5. Resync => Table!Resync
    <3> SUFFICES ASSUME Resync PROVE Table!Resync
      BY Zenon
    <3>1. PICK ok \in SUBSET Families :
            /\ acl' = [f \in Families |-> IF f \in ok THEN Desired(tables, f) ELSE acl[f]]
            /\ failed' = (failed \ ok) \cup (Families \ ok)
      BY Zenon DEF Resync, Reconcile
    <3>2. acl' = [f \in Families |-> IF f \in ok THEN Table!Wanted(Held, f) ELSE acl[f]]
      BY <3>1, WantedIsDesired, Zenon
    <3>3. QED
      BY <2>4, <3>1, <3>2, Zenon DEF Resync, Table!Resync, Table!Push
  <2>6. Recreate => Table!Recreate
    BY <2>4, Zenon DEF Recreate, Table!Recreate
  <2>7. UNCHANGED vars => UNCHANGED Table!vars
    BY <2>4, Zenon DEF vars, Table!vars
  <2>8. QED
    BY <2>1, <2>2, <2>3, <2>5, <2>6, <2>7, Zenon DEF Next, Table!Next
<1>4. QED
  BY <1>1, <1>2, <1>3, PTL DEF Spec, ImplementsRouteTable, Table!Spec

(* An entry exists exactly while some session has a route for its key.     *)
LEMMA EntryRouted ==
  Inv => \A key \in Keys :
           key \in tables.entries <=> \E s \in Sessions : RoutesOf(tables, s, key) # {}
<1> SUFFICES ASSUME Inv, NEW k \in Keys
             PROVE  k \in tables.entries <=>
                      \E s \in Sessions : RoutesOf(tables, s, k) # {}
  BY Zenon
<1>1. \A s \in Sessions : tables.owners[k][s] = Cardinality(RoutesOf(tables, s, k))
  BY Zenon DEF Inv, Consistent
<1>2. \A s \in Sessions : tables.owners[k][s] # 0 <=> RoutesOf(tables, s, k) # {}
  BY <1>1, RoutesOfFinite, Zenon
<1>3. tables.entries = {key \in Keys : \E s \in Sessions : tables.owners[key][s] # 0}
  BY Zenon DEF Inv, Consistent
<1>4. QED
  BY <1>2, <1>3, Zenon

(* An entry is removed only when the last session with a route for it     *)
(* loses the only one it has: by a withdraw or an announce under the same  *)
(* text, or by going down.                                                 *)
THEOREM HoldersDecide == Spec => RemovedByHolder
<1> DEFINE LetsGo(s, k) ==
             /\ \A u \in Sessions \ {s} : RoutesOf(tables, u, k) = {}
             /\ \/ \E n \in Nlris :
                     /\ RoutesOf(tables, s, k) = {routeIdentity[n]}
                     /\ Withdraw(s, n) \/ \E drop \in BOOLEAN : Announce(s, n, drop)
                \/ SessionDown(s)
           Step == \A k \in tables.entries \ tables'.entries : \E s \in Sessions : LetsGo(s, k)
<1>1. Inv' => (\A key \in Keys : key \in tables.entries <=>
                 \E s \in Sessions : RoutesOf(tables, s, key) # {})'
  BY EntryRouted, PTL
<1>2. Inv /\ Inv' /\ [Next]_vars => [Step]_vars
  <2> SUFFICES ASSUME Inv, Inv', Next,
                      NEW k \in tables.entries, k \notin tables'.entries
               PROVE  \E s \in Sessions : LetsGo(s, k)
    BY Zenon
  <2>1. /\ k \in Keys /\ k # NoKey
        /\ Consistent(tables)
        /\ tables.sessionRoutes \in [Sessions -> [Routes -> Keys \cup {NoKey}]]
    BY RefCountAssumption, Zenon DEF Inv, Consistent, Tables
  <2>2. PICK v \in Sessions, rid \in Routes : tables.sessionRoutes[v][rid] = k
    BY <2>1, EntryRouted, Zenon DEF RoutesOf
  <2>3. \A u \in Sessions, id \in Routes : tables'.sessionRoutes[u][id] # k
    <3>1. (\A key \in Keys : key \in tables.entries <=>
             \E s \in Sessions : RoutesOf(tables, s, key) # {})'
      BY <1>1, Zenon
    <3>2. QED
      BY <2>1, <3>1, Zenon DEF RoutesOf
  <2>4. ASSUME NEW s \in Sessions, NEW n \in Nlris, NEW x,
               tables'.sessionRoutes = [tables.sessionRoutes EXCEPT ![s][routeIdentity[n]] = x]
        PROVE  /\ \A u \in Sessions \ {s} : RoutesOf(tables, u, k) = {}
               /\ RoutesOf(tables, s, k) = {routeIdentity[n]}
    <3>1. routeIdentity[n] \in Routes
      BY RefCountAssumption, Zenon
    <3>2. \A u \in Sessions, id \in Routes :
            tables.sessionRoutes[u][id] = k => u = s /\ id = routeIdentity[n]
      BY <2>1, <2>3, <2>4
    <3>3. v = s /\ rid = routeIdentity[n]
      BY <2>2, <3>2, Zenon
    <3>4. QED
      BY <2>2, <3>1, <3>2, <3>3, Zenon DEF RoutesOf
  <2>5. ASSUME NEW s \in Sessions, NEW n \in Nlris, Update(RemoveRoute(tables, routeIdentity[n], s))
        PROVE  tables'.sessionRoutes = [tables.sessionRoutes EXCEPT ![s][routeIdentity[n]] = NoKey]
    BY <2>1, <2>5, RemoveRouteSound, RefCountAssumption, Zenon DEF Update
  <2>6. ASSUME NEW s \in Sessions, NEW n \in Nlris, NEW drop \in BOOLEAN, Announce(s, n, drop)
        PROVE  LetsGo(s, k)
    <3>1. CASE drop /\ aclKey[n] # NoKey
      <4>1. routeIdentity[n] \in Routes /\ aclKey[n] \in Keys
        BY <3>1, RefCountAssumption, Zenon
      <4>2. tables' = AnnounceRoute(tables, routeIdentity[n], aclKey[n], s).tab
        BY <2>6, <3>1, Zenon DEF Announce, Update
      <4>3. tables'.sessionRoutes = [tables.sessionRoutes EXCEPT ![s][routeIdentity[n]] = aclKey[n]]
        BY <2>1, <4>1, <4>2, AnnounceRouteSound
      <4>4. QED
        BY <2>4, <2>6, <4>3, Zenon
    <3>2. CASE ~(drop /\ aclKey[n] # NoKey)
      <4>1. Update(RemoveRoute(tables, routeIdentity[n], s))
        BY <2>6, <3>2, Zenon DEF Announce
      <4>2. tables'.sessionRoutes = [tables.sessionRoutes EXCEPT ![s][routeIdentity[n]] = NoKey]
        BY <2>5, <4>1
      <4>3. QED
        BY <2>4, <2>6, <4>2, Zenon
    <3>3. QED
      BY <3>1, <3>2, Zenon
  <2>7. ASSUME NEW s \in Sessions, NEW n \in Nlris, Withdraw(s, n) PROVE LetsGo(s, k)
    <3>1. Update(RemoveRoute(tables, routeIdentity[n], s))
      BY <2>7, Zenon DEF Withdraw
    <3>2. tables'.sessionRoutes = [tables.sessionRoutes EXCEPT ![s][routeIdentity[n]] = NoKey]
      BY <2>5, <3>1
    <3>3. QED
      BY <2>4, <2>7, <3>2, Zenon
  <2>8. ASSUME NEW s \in Sessions, SessionDown(s) PROVE LetsGo(s, k)
    <3>1. tables'.sessionRoutes =
            [tables.sessionRoutes EXCEPT ![s] = [id \in Routes |-> NoKey]]
      BY <2>1, <2>8, DropSessionSound, Zenon DEF SessionDown, Update
    <3>2. \A u \in Sessions \ {s} : RoutesOf(tables, u, k) = {}
      BY <2>1, <2>3, <3>1 DEF RoutesOf
    <3>3. QED
      BY <2>8, <3>2, Zenon
  <2>9. ~(Resync \/ Recreate)
    BY Zenon DEF Resync, Recreate
  <2> HIDE DEF LetsGo
  <2>10. QED
    BY <2>6, <2>7, <2>8, <2>9, Zenon DEF Next
<1>3. QED
  BY <1>2, Invariance, PTL DEF Spec, RemovedByHolder
=============================================================================
