--------------------------- MODULE TargetsProofs ----------------------------
(***************************************************************************)
(* The sketch and the admission it decides, for every set of targets, any  *)
(* number of rows, every way targets collide, every weight and every pace  *)
(* of ageing.  The argument: no bucket holds more than its target's own    *)
(* counter, and a bucket that no other target is hashed to holds exactly   *)
(* that; so a comparison of estimates can only err against the target      *)
(* whose buckets are all shared.  Then the rings, for any resolutions and  *)
(* lengths: what a slot holds after any samples, and that a window reaches *)
(* back less than its ring does.                                           *)
(***************************************************************************)
EXTENDS Targets, FiniteSetTheorems, NaturalsInduction, WellFoundedInduction, TLAPS

Bucket == [fp : Keys \cup {None}, count : Nat]

(* No other target is hashed to the bucket of k in row r. *)
Alone(r, k) == \A j \in Keys \ {k} : Index[r][j] # Index[r][k]

(* The inductive invariants. *)
PoolInv ==
  /\ budget \in Scenarios
  /\ DOMAIN items \subseteq Keys /\ DOMAIN dump.items \subseteq Keys

SketchInv ==
  /\ budget \in Scenarios
  /\ restarts \in Nat
  /\ weight \in [Keys -> Nat]
  /\ sketch \in [Rows -> [Columns -> Bucket]]
  /\ \A r \in Rows, c \in Columns : sketch[r][c].count > 0 =>
       /\ sketch[r][c].fp \in Keys
       /\ Index[r][sketch[r][c].fp] = c
       /\ sketch[r][c].count <= weight[sketch[r][c].fp]
  /\ \A r \in Rows, k \in Keys : Alone(r, k) => sketch[r][Index[r][k]].count = weight[k]

-----------------------------------------------------------------------------

(* The weight of a sample in the sketch is a positive number. *)
LEMMA ScaledWeight ==
  ASSUME NEW w \in Nat \ {0}
  PROVE  w * Scale \in Nat \ {0}
BY TargetsAssumption

(* Ageing (decayAll) leaves a natural number, never a larger one, and keeps *)
(* the order of two counts.                                                 *)
LEMMA AgedMonotone ==
  ASSUME NEW x \in Nat, NEW y \in Nat, NEW d \in Nat \ {0}, x <= y
  PROVE  /\ Aged(x, d) \in Nat /\ Aged(x, d) <= x
         /\ Aged(x, d) <= Aged(y, d)
<1>1. x \div d \in Nat /\ y \div d \in Nat
  OBVIOUS
<1>2. x \div d <= x
  OBVIOUS
<1>3. x \div d <= y \div d
  OBVIOUS
<1> QED
  BY <1>1, <1>2, <1>3, TargetsAssumption DEF Aged

(* What a sample does to one bucket (heavyKeeper.add): the incumbent keeps  *)
(* at most what it had, the target of the sample gets at most its weight on *)
(* top of what it had there.                                                *)
LEMMA AddBucketFacts ==
  ASSUME NEW b \in Bucket, NEW k \in Keys, NEW w \in Nat \ {0}, NEW hit \in BOOLEAN
  PROVE  LET n == AddBucket(b, k, w, hit)
         IN  /\ n \in Bucket
             /\ n.count > 0 =>
                  \/ n.fp = k /\ n.count <= w
                  \/ n.fp = k /\ b.fp = k /\ b.count > 0 /\ n.count = b.count + w
                  \/ n.fp = b.fp /\ b.fp # k /\ b.count > 0 /\ n.count <= b.count
             /\ b.count = 0 \/ b.fp = k => n.count = b.count + w
BY DEF AddBucket, Bucket, EmptyBucket

(* What a tick does to one bucket (decayAll). *)
LEMMA DecayBucketFacts ==
  ASSUME NEW b \in Bucket, NEW d \in Nat \ {0}
  PROVE  LET n == DecayBucket(b, d)
         IN  /\ n \in Bucket
             /\ n.count = Aged(b.count, d)
             /\ n.count > 0 => n.fp = b.fp /\ b.count > 0
<1>1. Aged(b.count, d) \in Nat /\ Aged(b.count, d) <= b.count
  BY AgedMonotone DEF Bucket
<1> QED
  BY <1>1 DEF DecayBucket, Bucket, EmptyBucket

(* A sample of k keeps the facts about the sketch. *)
LEMMA ObserveInv ==
  ASSUME SketchInv,
         NEW k \in Keys, NEW w, NEW v, NEW at, NEW hits \in SUBSET Rows,
         Observe(k, w, v, at, hits)
  PROVE  SketchInv'
<1> DEFINE x == w * Scale
<1>1. w \in Nat \ {0}
  <2>1. budget \in Scenarios /\ w \in budget.weights
    BY Zenon DEF SketchInv, Observe
  <2> QED
    BY <2>1, TargetsAssumption, Zenon
<1>2. x \in Nat \ {0}
  BY <1>1, ScaledWeight, Zenon
<1>3. budget' \in Scenarios /\ restarts' \in Nat
  BY Zenon DEF SketchInv, Observe
<1>4. /\ weight' \in [Keys -> Nat]
      /\ weight'[k] = weight[k] + x
      /\ \A j \in Keys \ {k} : weight'[j] = weight[j]
  BY <1>2 DEF SketchInv, Observe
<1>5. \A r \in Rows, c \in Columns :
        sketch'[r][c] = IF c = Index[r][k] THEN AddBucket(sketch[r][c], k, x, r \in hits)
                        ELSE sketch[r][c]
  BY Zenon DEF Observe, SketchAdd
<1>6. \A r \in Rows : Index[r][k] \in Columns
  BY DEF Columns
<1>7. ASSUME NEW r \in Rows, NEW c \in Columns, c = Index[r][k]
      PROVE  LET n == sketch'[r][c]
                 b == sketch[r][c]
             IN  /\ n \in Bucket
                 /\ n.count > 0 =>
                      \/ n.fp = k /\ n.count <= x
                      \/ n.fp = k /\ b.fp = k /\ b.count > 0 /\ n.count = b.count + x
                      \/ n.fp = b.fp /\ b.fp # k /\ b.count > 0 /\ n.count <= b.count
                 /\ b.count = 0 \/ b.fp = k => n.count = b.count + x
  <2>1. sketch[r][c] \in Bucket /\ (r \in hits) \in BOOLEAN
    BY DEF SketchInv
  <2>2. PICK hit \in BOOLEAN : sketch'[r][c] = AddBucket(sketch[r][c], k, x, hit)
    BY <1>5, <1>7, <2>1, Zenon
  <2> HIDE DEF x
  <2> QED
    BY <2>1, <2>2, <1>2, AddBucketFacts
<1>8. sketch' \in [Rows -> [Columns -> Bucket]]
  <2>1. \A r \in Rows, c \in Columns : sketch'[r][c] \in Bucket
    BY <1>5, <1>7 DEF SketchInv
  <2>2. sketch' = [r \in Rows |-> [c \in Columns |-> sketch'[r][c]]]
    BY Zenon DEF Observe, SketchAdd
  <2> QED
    BY <2>1, <2>2, Zenon
<1>9. ASSUME NEW r \in Rows, NEW c \in Columns, sketch'[r][c].count > 0
      PROVE  /\ sketch'[r][c].fp \in Keys
             /\ Index[r][sketch'[r][c].fp] = c
             /\ sketch'[r][c].count <= weight'[sketch'[r][c].fp]
  <2> DEFINE b == sketch[r][c]
             n == sketch'[r][c]
  <2>0. b.count \in Nat /\ n.count \in Nat
    BY <1>8 DEF SketchInv, Bucket
  <2>1. b.count > 0 => b.fp \in Keys /\ Index[r][b.fp] = c /\ b.count <= weight[b.fp]
    BY Zenon DEF SketchInv
  <2>2. weight[k] \in Nat /\ \A j \in Keys : weight[j] \in Nat
    BY Zenon DEF SketchInv
  <2>3. CASE c # Index[r][k]
    <3>1. n = b
      BY <2>3, <1>5, Zenon
    <3> QED
      BY <3>1, <2>0, <2>1, <2>2, <2>3, <1>4, <1>9, Zenon
  <2>4. CASE c = Index[r][k]
    <3>1. \/ n.fp = k /\ n.count <= x
          \/ n.fp = k /\ b.fp = k /\ b.count > 0 /\ n.count = b.count + x
          \/ n.fp = b.fp /\ b.fp # k /\ b.count > 0 /\ n.count <= b.count
      BY <2>4, <1>7, <1>9, Zenon
    <3>2. n.fp \in Keys /\ Index[r][n.fp] = c /\ n.count <= weight'[n.fp]
      <4>0. weight'[k] \in Nat /\ x \in Nat
        BY <1>2, <1>4, Zenon
      <4> HIDE DEF n, b, x
      <4>1. CASE n.fp = k /\ n.count <= x
        <5>1. n.count <= weight'[k]
          BY <4>0, <4>1, <2>0, <2>2, <1>4
        <5> QED
          BY <4>1, <5>1, <2>4, Zenon
      <4>2. CASE n.fp = k /\ b.fp = k /\ b.count > 0 /\ n.count = b.count + x
        <5>1. b.count <= weight[k]
          BY <4>2, <2>1, Zenon
        <5>2. n.count <= weight'[k]
          BY <4>0, <4>2, <5>1, <2>0, <2>2, <1>4
        <5> QED
          BY <4>2, <5>2, <2>4, Zenon
      <4>3. CASE n.fp = b.fp /\ b.fp # k /\ b.count > 0 /\ n.count <= b.count
        <5>1. /\ b.fp \in Keys \ {k} /\ Index[r][b.fp] = c /\ b.count <= weight[b.fp]
              /\ weight'[b.fp] = weight[b.fp] /\ weight[b.fp] \in Nat
          BY <4>3, <2>1, <2>2, <1>4, Zenon
        <5>2. n.count <= weight[b.fp]
          BY <4>3, <5>1, <2>0
        <5> QED
          BY <4>3, <5>1, <5>2, Zenon
      <4> QED
        BY <3>1, <4>1, <4>2, <4>3, Zenon
    <3> QED
      BY <3>2, Zenon
  <2> QED
    BY <2>3, <2>4, Zenon
<1>10. ASSUME NEW r \in Rows, NEW j \in Keys, Alone(r, j)
       PROVE  sketch'[r][Index[r][j]].count = weight'[j]
  <2> DEFINE c == Index[r][j]
             b == sketch[r][c]
  <2>1. c \in Columns
    BY DEF Columns
  <2>2. b.count = weight[j] /\ b.count \in Nat
    BY <1>10, <2>1, Zenon DEF SketchInv, Bucket
  <2>3. CASE j # k
    <3>1. c # Index[r][k]
      BY <2>3, <1>10, Zenon DEF Alone
    <3> QED
      BY <3>1, <2>1, <2>2, <2>3, <1>4, <1>5, Zenon
  <2>4. CASE j = k
    <3>1. b.count = 0 \/ b.fp = k
      BY <2>1, <2>2, <2>4, <1>10 DEF SketchInv, Alone
    <3>2. sketch'[r][c].count = b.count + x
      BY <3>1, <2>1, <2>4, <1>7, Zenon
    <3> QED
      BY <3>2, <2>2, <2>4, <1>4, Zenon
  <2> QED
    BY <2>3, <2>4, Zenon
<1> QED
  BY <1>3, <1>4, <1>8, <1>9, <1>10, Zenon DEF SketchInv, Alone

(* A tick keeps them: ageing treats a bucket and a counter alike. *)
LEMMA TickInv ==
  ASSUME SketchInv, NEW t, Tick(t), lastDecay # None
  PROVE  SketchInv'
<1> DEFINE d == Divisor[t - lastDecay]
<1>1. d \in Nat \ {0}
  BY TargetsAssumption, Zenon DEF Tick
<1>2. budget' \in Scenarios /\ restarts' \in Nat
  BY Zenon DEF SketchInv, Tick
<1>3. /\ weight' = [k \in Keys |-> Aged(weight[k], d)]
      /\ sketch' = [r \in Rows |-> [c \in Columns |-> DecayBucket(sketch[r][c], d)]]
  BY Zenon DEF Tick, DecayAll
<1> HIDE DEF d
<1>4. weight' \in [Keys -> Nat]
  BY <1>1, <1>3, AgedMonotone DEF SketchInv
<1>5. ASSUME NEW r \in Rows, NEW c \in Columns
      PROVE  LET n == sketch'[r][c]
                 b == sketch[r][c]
             IN  /\ n \in Bucket
                 /\ n.count = Aged(b.count, d)
                 /\ n.count > 0 => n.fp = b.fp /\ b.count > 0
  <2>1. sketch[r][c] \in Bucket
    BY Zenon DEF SketchInv
  <2>2. sketch'[r][c] = DecayBucket(sketch[r][c], d)
    BY <1>3, Zenon
  <2> QED
    BY <2>1, <2>2, <1>1, DecayBucketFacts
<1>6. sketch' \in [Rows -> [Columns -> Bucket]]
  BY <1>3, <1>5, Zenon
<1>7. ASSUME NEW r \in Rows, NEW c \in Columns, sketch'[r][c].count > 0
      PROVE  /\ sketch'[r][c].fp \in Keys
             /\ Index[r][sketch'[r][c].fp] = c
             /\ sketch'[r][c].count <= weight'[sketch'[r][c].fp]
  <2> DEFINE b == sketch[r][c]
             n == sketch'[r][c]
  <2>1. n.count = Aged(b.count, d) /\ n.fp = b.fp /\ b.count > 0
    BY <1>5, <1>7, Zenon
  <2>2. b.fp \in Keys /\ Index[r][b.fp] = c /\ b.count <= weight[b.fp]
    BY <2>1, Zenon DEF SketchInv
  <2>3. b.count \in Nat /\ weight[b.fp] \in Nat
    BY <2>2 DEF SketchInv, Bucket
  <2>4. Aged(b.count, d) <= Aged(weight[b.fp], d)
    BY <2>2, <2>3, <1>1, AgedMonotone, Zenon
  <2> QED
    BY <2>1, <2>2, <2>4, <1>3, Zenon
<1>8. ASSUME NEW r \in Rows, NEW k \in Keys, Alone(r, k)
      PROVE  sketch'[r][Index[r][k]].count = weight'[k]
  <2>1. Index[r][k] \in Columns
    BY DEF Columns
  <2>2. sketch[r][Index[r][k]].count = weight[k]
    BY <1>8, Zenon DEF SketchInv
  <2> QED
    BY <2>1, <2>2, <1>3, <1>5, Zenon
<1> QED
  BY <1>2, <1>4, <1>6, <1>7, <1>8, Zenon DEF SketchInv, Alone

(* An empty sketch and counters at zero satisfy them. *)
LEMMA EmptyInv ==
  ASSUME NEW sk, sk = [r \in Rows |-> [c \in Columns |-> EmptyBucket]]
  PROVE  /\ sk \in [Rows -> [Columns -> Bucket]]
         /\ \A r \in Rows, c \in Columns : sk[r][c].count = 0
         /\ \A r \in Rows, k \in Keys : sk[r][Index[r][k]].count = 0
<1>1. EmptyBucket \in Bucket /\ EmptyBucket.count = 0
  BY Zenon DEF EmptyBucket, Bucket
<1>2. \A r \in Rows, k \in Keys : Index[r][k] \in Columns
  BY DEF Columns
<1> QED
  BY <1>1, <1>2, Zenon

(* The facts about the sketch hold in every state that can be reached. *)
THEOREM SketchInvariant == Spec => []SketchInv
<1>1. Init => SketchInv
  <2> SUFFICES ASSUME Init PROVE SketchInv
    BY Zenon
  <2>1. weight = [k \in Keys |-> 0] /\ budget \in Scenarios /\ restarts \in Nat
    BY Zenon DEF Init
  <2>2. /\ sketch \in [Rows -> [Columns -> Bucket]]
        /\ \A r \in Rows, c \in Columns : sketch[r][c].count = 0
        /\ \A r \in Rows, k \in Keys : sketch[r][Index[r][k]].count = 0
    <3>1. sketch = [r \in Rows |-> [c \in Columns |-> EmptyBucket]]
      BY Zenon DEF Init
    <3> QED
      BY <3>1, EmptyInv
  <2> QED
    BY <2>1, <2>2 DEF SketchInv
<1>2. SketchInv /\ [Next]_vars => SketchInv'
  <2> SUFFICES ASSUME SketchInv, [Next]_vars PROVE SketchInv'
    BY Zenon
  <2>1. ASSUME NEW k \in budget.keys, NEW w \in budget.weights, NEW v \in budget.values,
               NEW at \in now - budget.lag .. now, NEW hits \in SUBSET Rows,
               Observe(k, w, v, at, hits)
        PROVE  SketchInv'
    <3>1. k \in Keys
      BY TargetsAssumption, Zenon DEF SketchInv
    <3> QED
      BY <2>1, <3>1, ObserveInv, Zenon
  <2>2. ASSUME NEW t \in now - budget.lag .. now, Tick(t)
        PROVE  SketchInv'
    <3>1. CASE lastDecay = None
      BY <2>2, <3>1 DEF Tick, SketchInv, Alone
    <3>2. CASE lastDecay # None
      BY <2>2, <3>2, TickInv, Zenon
    <3> QED
      BY <3>1, <3>2, Zenon
  <2>3. CASE Pass
    BY <2>3, Zenon DEF Pass, hist, SketchInv, Alone
  <2>4. ASSUME NEW save \in BOOLEAN, NEW same \in BOOLEAN, Restart(save, same)
        PROVE  SketchInv'
    <3>1. weight' = [k \in Keys |-> 0] /\ budget' \in Scenarios /\ restarts' \in Nat
      BY <2>4 DEF Restart, SketchInv
    <3>2. sketch' = [r \in Rows |-> [c \in Columns |-> EmptyBucket]]
      BY <2>4, Zenon DEF Restart
    <3>3. /\ sketch' \in [Rows -> [Columns -> Bucket]]
          /\ \A r \in Rows, c \in Columns : sketch'[r][c].count = 0
          /\ \A r \in Rows, k \in Keys : sketch'[r][Index[r][k]].count = 0
      BY <3>2, EmptyInv
    <3> QED
      BY <3>1, <3>3 DEF SketchInv
  <2>5. CASE UNCHANGED vars
    BY <2>5, Zenon DEF vars, hist, SketchInv, Alone
  <2> QED
    BY <2>1, <2>2, <2>3, <2>4, <2>5, Zenon DEF Next
<1> QED
  BY <1>1, <1>2, PTL DEF Spec

(* However targets collide and whichever draws decay an incumbent, no       *)
(* bucket of the sketch counts more for its target than the target's own    *)
(* counter would (heavyKeeper.add, decayAll).                               *)
THEOREM SketchNeverOverestimates == Spec => []NeverOverestimates
<1>1. SketchInv => NeverOverestimates
  BY Zenon DEF SketchInv, NeverOverestimates
<1> QED
  BY <1>1, SketchInvariant, PTL

-----------------------------------------------------------------------------

(* A row's estimate never exceeds the target's own counter, and is equal to *)
(* it in a row where the target is alone (estimate).                        *)
LEMMA EstimateFacts ==
  ASSUME NEW sk \in [Rows -> [Columns -> Bucket]], NEW wt \in [Keys -> Nat],
         \A r \in Rows, c \in Columns :
           sk[r][c].count > 0 => /\ sk[r][c].fp \in Keys
                                 /\ Index[r][sk[r][c].fp] = c
                                 /\ sk[r][c].count <= wt[sk[r][c].fp],
         \A r \in Rows, k \in Keys : Alone(r, k) => sk[r][Index[r][k]].count = wt[k],
         NEW r \in Rows, NEW k \in Keys
  PROVE  /\ RowEstimate(sk, r, k) \in Nat
         /\ RowEstimate(sk, r, k) <= wt[k]
         /\ Alone(r, k) => RowEstimate(sk, r, k) = wt[k]
<1> DEFINE b == sk[r][Index[r][k]]
<1>1. Index[r][k] \in Columns
  BY DEF Columns
<1>2. b \in Bucket /\ b.count \in Nat
  BY <1>1 DEF Bucket
<1>3. b.count > 0 => b.fp \in Keys /\ Index[r][b.fp] = Index[r][k] /\ b.count <= wt[b.fp]
  BY <1>1, Zenon
<1>4. Alone(r, k) => b.count = wt[k] /\ (b.count > 0 => b.fp = k)
  BY <1>3, Zenon DEF Alone
<1>5. RowEstimate(sk, r, k) = IF b.fp = k /\ b.count > 0 THEN b.count ELSE 0
  BY Zenon DEF RowEstimate
<1>6. wt[k] \in Nat
  OBVIOUS
<1> HIDE DEF b
<1>7. CASE b.fp = k /\ b.count > 0
  BY <1>2, <1>3, <1>4, <1>5, <1>7, Zenon
<1>8. CASE ~(b.fp = k /\ b.count > 0)
  BY <1>2, <1>4, <1>5, <1>6, <1>8
<1> QED
  BY <1>7, <1>8, Zenon

(* The same of the sketch and the counters after a step. *)
LEMMA EstimateFactsNext ==
  ASSUME SketchInv', NEW r \in Rows, NEW k \in Keys
  PROVE  /\ RowEstimate(sketch', r, k) \in Nat
         /\ RowEstimate(sketch', r, k) <= weight'[k]
         /\ Alone(r, k) => RowEstimate(sketch', r, k) = weight'[k]
<1>1. /\ sketch' \in [Rows -> [Columns -> Bucket]]
      /\ weight' \in [Keys -> Nat]
      /\ \A q \in Rows, c \in Columns :
           sketch'[q][c].count > 0 => /\ sketch'[q][c].fp \in Keys
                                      /\ Index[q][sketch'[q][c].fp] = c
                                      /\ sketch'[q][c].count <= weight'[sketch'[q][c].fp]
      /\ \A q \in Rows, j \in Keys :
           Alone(q, j) => sketch'[q][Index[q][j]].count = weight'[j]
  BY Zenon DEF SketchInv, Alone
<1> QED
  BY <1>1, EstimateFacts, Zenon

(* What a sample of k does to the pool (admit): nothing, because k is there *)
(* already or is not heavier than some instance; it adds k; or it replaces  *)
(* an instance that k is heavier than.                                      *)
LEMMA ObservePool ==
  ASSUME NEW k, NEW w, NEW v, NEW at, NEW hits, Observe(k, w, v, at, hits)
  PROVE  \/ /\ DOMAIN items' = DOMAIN items
            /\ \/ k \in DOMAIN items
               \/ \E u \in DOMAIN items : ~Heavier(sketch', k, u)
         \/ DOMAIN items' = DOMAIN items \cup {k}
         \/ \E u \in DOMAIN items : /\ Heavier(sketch', k, u)
                                    /\ DOMAIN items' = (DOMAIN items \ {u}) \cup {k}
<1>1. PICK pool \in Admit(sketch', k) : DOMAIN items' = DOMAIN pool
  <2>1. PICK pool \in Admit(sketch', k) :
          \E i : items' = IF k \notin DOMAIN pool THEN pool ELSE [pool EXCEPT ![k] = i]
    BY Zenon DEF Observe
  <2> QED
    BY <2>1, Zenon
<1> DEFINE beaten == {u \in Weakest(sketch') : Heavier(sketch', k, u)}
<1>2. Weakest(sketch') \subseteq DOMAIN items
  BY Zenon DEF Weakest
<1>3. pool \in Pools(k, MaxInstances, Weakest(sketch'), beaten)
  BY <1>1, Zenon DEF Admit
<1>4. \/ pool = items /\ k \in DOMAIN items
      \/ pool = Put(items, k, NewInstance)
      \/ \E u \in beaten : pool = Put(Without(items, u), k, NewInstance)
      \/ \E u \in Weakest(sketch') \ beaten : pool = items
  BY <1>3, Zenon DEF Pools
<1>5. CASE pool = items /\ k \in DOMAIN items
  BY <1>1, <1>5, Zenon
<1>6. CASE pool = Put(items, k, NewInstance)
  BY <1>1, <1>6, Zenon DEF Put
<1>7. CASE \E u \in beaten : pool = Put(Without(items, u), k, NewInstance)
  <2>1. PICK u \in beaten : pool = Put(Without(items, u), k, NewInstance)
    BY <1>7, Zenon
  <2>2. DOMAIN pool = (DOMAIN items \ {u}) \cup {k}
    BY <2>1, Zenon DEF Put, Without
  <2> QED
    BY <2>1, <2>2, <1>1, <1>2, Zenon
<1>8. CASE \E u \in Weakest(sketch') \ beaten : pool = items
  BY <1>1, <1>2, <1>8, Zenon
<1> QED
  BY <1>4, <1>5, <1>6, <1>7, <1>8, Zenon

(* Instances, in the pool and in the state file, are of targets. *)
THEOREM PoolInvariant == Spec => []PoolInv
<1>1. Init => PoolInv
  BY DEF Init, PoolInv
<1>2. PoolInv /\ [Next]_vars => PoolInv'
  <2> SUFFICES ASSUME PoolInv, [Next]_vars PROVE PoolInv'
    BY Zenon
  <2>1. ASSUME NEW k \in budget.keys, NEW w \in budget.weights, NEW v \in budget.values,
               NEW at \in now - budget.lag .. now, NEW hits \in SUBSET Rows,
               Observe(k, w, v, at, hits)
        PROVE  PoolInv'
    <3>1. k \in Keys
      BY TargetsAssumption, Zenon DEF PoolInv
    <3>2. DOMAIN items' \subseteq DOMAIN items \cup {k}
      BY <2>1, ObservePool, Zenon
    <3>3. dump' = dump /\ budget' = budget
      BY <2>1, Zenon DEF Observe
    <3> QED
      BY <3>1, <3>2, <3>3, Zenon DEF PoolInv
  <2>2. ASSUME NEW t \in now - budget.lag .. now, Tick(t) PROVE PoolInv'
    BY <2>2, Zenon DEF Tick, PoolInv
  <2>3. CASE Pass
    BY <2>3, Zenon DEF Pass, PoolInv
  <2>4. ASSUME NEW save \in BOOLEAN, NEW same \in BOOLEAN, Restart(save, same)
        PROVE  PoolInv'
    <3>1. dump' = IF save THEN [items |-> items, folded |-> folded] ELSE dump
      BY <2>4, Zenon DEF Restart
    <3>2. DOMAIN dump'.items \subseteq Keys
      BY <3>1, Zenon DEF PoolInv
    <3>3. DOMAIN items' \subseteq DOMAIN dump'.items
      BY <2>4, Zenon DEF Restart
    <3> QED
      BY <2>4, <3>2, <3>3, Zenon DEF Restart, PoolInv
  <2>5. CASE UNCHANGED vars
    BY <2>5, Zenon DEF vars, PoolInv
  <2> QED
    BY <2>1, <2>2, <2>3, <2>4, <2>5, Zenon DEF Next
<1> QED
  BY <1>1, <1>2, PTL DEF Spec

(* A sample changes only the counter of its own target. *)
LEMMA ObserveWeight ==
  ASSUME SketchInv, NEW k \in Keys, NEW w, NEW v, NEW at, NEW hits,
         Observe(k, w, v, at, hits)
  PROVE  \A j \in Keys \ {k} : weight'[j] = weight[j]
BY Zenon DEF Observe, SketchInv

(* "a genuinely heavy instance is never evicted" (weakestOfSample): an      *)
(* instance with a bucket of its own in some row gives way only to a target *)
(* that is heavier, by the traffic since the process started.               *)
THEOREM AdmissionEvictsLighter == Spec => EvictsLighter
<1>1. SketchInv /\ SketchInv' /\ [Next]_vars
        => [\A v, c \in Keys : Evicts(v, c) /\ Private(v) => weight[v] < weight'[c]]_vars
  <2> SUFFICES ASSUME SketchInv, SketchInv', Next,
                      NEW v \in Keys, NEW c \in Keys, Evicts(v, c), Private(v)
               PROVE  weight[v] < weight'[c]
    BY Zenon
  <2>1. PICK r \in Rows : Alone(r, v)
    BY Zenon DEF Private, Alone
  <2>2. weight[v] \in Nat /\ weight'[v] \in Nat /\ weight'[c] \in Nat
    BY Zenon DEF SketchInv
  <2>3. ASSUME NEW k \in budget.keys, NEW w \in budget.weights, NEW p \in budget.values,
               NEW at \in now - budget.lag .. now, NEW hits \in SUBSET Rows,
               Observe(k, w, p, at, hits)
        PROVE  weight[v] < weight'[c]
    <3>1. k \in Keys
      BY TargetsAssumption, Zenon DEF SketchInv
    <3>2. c = k /\ Heavier(sketch', c, v)
      <4>1. /\ v \in DOMAIN items /\ v \notin DOMAIN items'
            /\ c \in DOMAIN items' /\ c \notin DOMAIN items
        BY Zenon DEF Evicts
      <4>2. PICK u \in DOMAIN items : /\ Heavier(sketch', k, u)
                                      /\ DOMAIN items' = (DOMAIN items \ {u}) \cup {k}
        BY <2>3, <4>1, ObservePool, Zenon
      <4>3. u = v /\ k = c
        BY <4>1, <4>2, Zenon
      <4> QED
        BY <4>2, <4>3, Zenon
    <3>3. PICK q \in Rows : RowEstimate(sketch', q, c) > RowEstimate(sketch', r, v)
      BY <3>2, Zenon DEF Heavier
    <3>4. RowEstimate(sketch', q, c) \in Nat /\ RowEstimate(sketch', q, c) <= weight'[c]
      BY EstimateFactsNext, Zenon
    <3>5. RowEstimate(sketch', r, v) = weight'[v]
      BY <2>1, EstimateFactsNext, Zenon
    <3>6. weight'[v] = weight[v]
      BY <2>3, <3>1, <3>2, ObserveWeight, Zenon DEF Evicts
    <3> QED
      BY <3>3, <3>4, <3>5, <3>6, <2>2
  <2>4. ASSUME NEW t, Tick(t) PROVE FALSE
    BY <2>4, Zenon DEF Tick, Evicts
  <2>5. Pass => FALSE
    BY Zenon DEF Pass, Evicts
  <2>6. ASSUME NEW save, NEW same, Restart(save, same) PROVE FALSE
    BY <2>6 DEF Restart, Evicts, SketchInv
  <2> QED
    BY <2>3, <2>4, <2>5, <2>6, Zenon DEF Next
<1> QED
  BY <1>1, SketchInvariant, PTL DEF Spec, EvictsLighter

(* "a genuinely heavier new target always displaces a lighter incumbent"    *)
(* (admit): a target with a bucket of its own in some row that outweighs    *)
(* every instance is in the pool after its next sample.                     *)
THEOREM AdmissionHeavierDisplaces == Spec => HeavierDisplaces
<1>1. PoolInv /\ SketchInv /\ SketchInv' /\ [Next]_vars
        => [\A c \in Keys :
              weight'[c] > weight[c] /\ Private(c)
              /\ (\A u \in DOMAIN items : weight'[c] > weight[u])
                => c \in DOMAIN items']_vars
  <2> SUFFICES ASSUME PoolInv, SketchInv, SketchInv', Next,
                      NEW c \in Keys, weight'[c] > weight[c], Private(c),
                      \A u \in DOMAIN items : weight'[c] > weight[u]
               PROVE  c \in DOMAIN items'
    BY Zenon
  <2>1. PICK r \in Rows : Alone(r, c)
    BY Zenon DEF Private, Alone
  <2>2. weight[c] \in Nat /\ weight'[c] \in Nat
    BY Zenon DEF SketchInv
  <2>3. ASSUME NEW k \in budget.keys, NEW w \in budget.weights, NEW p \in budget.values,
               NEW at \in now - budget.lag .. now, NEW hits \in SUBSET Rows,
               Observe(k, w, p, at, hits)
        PROVE  c \in DOMAIN items'
    <3>1. k \in Keys
      BY TargetsAssumption, Zenon DEF SketchInv
    <3>2. k = c
      BY <2>2, <2>3, <3>1, ObserveWeight
    <3>3. ASSUME NEW u \in DOMAIN items, c \notin DOMAIN items
          PROVE  Heavier(sketch', c, u)
      <4>1. u \in Keys /\ u # c
        BY <3>3, Zenon DEF PoolInv
      <4>2. weight'[u] = weight[u] /\ weight'[u] \in Nat /\ weight'[c] > weight'[u]
        <5>1. weight'[u] = weight[u]
          BY <2>3, <3>1, <3>2, <4>1, ObserveWeight, Zenon
        <5>2. weight'[u] \in Nat
          BY <4>1, Zenon DEF SketchInv
        <5> QED
          BY <5>1, <5>2, Zenon
      <4>3. \A q \in Rows : /\ RowEstimate(sketch', q, u) \in Nat
                            /\ RowEstimate(sketch', q, u) <= weight'[u]
        BY <4>1, EstimateFactsNext, Zenon
      <4>4. RowEstimate(sketch', r, c) = weight'[c]
        BY <2>1, EstimateFactsNext, Zenon
      <4>5. \A q \in Rows : RowEstimate(sketch', r, c) > RowEstimate(sketch', q, u)
        BY <4>2, <4>3, <4>4, <2>2
      <4> QED
        BY <4>5, Zenon DEF Heavier
    <3>4. \/ /\ DOMAIN items' = DOMAIN items
             /\ \/ k \in DOMAIN items
                \/ \E u \in DOMAIN items : ~Heavier(sketch', k, u)
          \/ DOMAIN items' = DOMAIN items \cup {k}
          \/ \E u \in DOMAIN items : /\ Heavier(sketch', k, u)
                                     /\ DOMAIN items' = (DOMAIN items \ {u}) \cup {k}
      BY <2>3, ObservePool, Zenon
    <3>5. CASE c \in DOMAIN items
      BY <3>2, <3>4, <3>5, Zenon
    <3>6. CASE c \notin DOMAIN items
      <4>1. \A u \in DOMAIN items : Heavier(sketch', k, u)
        BY <3>2, <3>3, <3>6, Zenon
      <4> QED
        BY <3>2, <3>4, <3>6, <4>1, Zenon
    <3> QED
      BY <3>5, <3>6, Zenon
  <2>4. ASSUME NEW t \in now - budget.lag .. now, Tick(t) PROVE FALSE
    <3>1. CASE lastDecay = None
      BY <2>2, <2>4, <3>1 DEF Tick
    <3>2. CASE lastDecay # None
      <4>1. Divisor[t - lastDecay] \in Nat \ {0}
        BY <2>4, <3>2, TargetsAssumption, Zenon DEF Tick
      <4>2. weight'[c] = Aged(weight[c], Divisor[t - lastDecay])
        BY <2>4, <3>2, Zenon DEF Tick
      <4>3. weight'[c] <= weight[c]
        BY <2>2, <4>1, <4>2, AgedMonotone
      <4> QED
        BY <2>2, <4>3
    <3> QED
      BY <3>1, <3>2, Zenon
  <2>5. Pass => FALSE
    BY <2>2 DEF Pass, hist
  <2>6. ASSUME NEW save, NEW same, Restart(save, same) PROVE FALSE
    BY <2>2, <2>6 DEF Restart
  <2> QED
    BY <2>3, <2>4, <2>5, <2>6, Zenon DEF Next
<1> QED
  BY <1>1, SketchInvariant, PoolInvariant, PTL DEF Spec, HeavierDisplaces

-----------------------------------------------------------------------------
(* The rings.  Induction on a natural number, by the least one that is      *)
(* missing.                                                                 *)
LEMMA Induction ==
  ASSUME NEW G, 0 \in G, \A n \in Nat : n \in G => n + 1 \in G
  PROVE  Nat \subseteq G
<1> DEFINE T == Nat \ G
<1> SUFFICES ASSUME T # {} PROVE FALSE
  BY Zenon
<1>1. PICK n \in T : \A m \in T : <<m, n>> \notin {ss \in Nat \X Nat : ss[1] < ss[2]}
  <2>1. T \in SUBSET Nat
    BY Zenon
  <2> HIDE DEF T
  <2> QED
    BY <2>1, NatLessThanWellFounded, WFMin, Zenon DEF OpToRel
<1>2. n # 0 /\ n - 1 \in Nat /\ n = (n - 1) + 1
  OBVIOUS
<1>3. n - 1 \in G
  <2>1. \A m \in T : ~(m < n)
    BY <1>1, Zenon
  <2> QED
    BY <1>2, <2>1
<1> QED
  BY <1>2, <1>3, Zenon

Sample == [at : Nat, packets : Nat]

(* The sum of PacketsAt step by step: f[n] is that of the first n samples.  *)
Sums(s, res, e, f, N) ==
  /\ f = [n \in 0 .. N |-> f[n]]
  /\ f[0] = 0
  /\ \A n \in 1 .. N : f[n] = f[n - 1] + IF s[n].at \div res = e THEN s[n].packets ELSE 0

(* There is such a function ...                                             *)
LEMMA SumsExist ==
  ASSUME NEW s, NEW res, NEW e, NEW N \in Nat PROVE \E f : Sums(s, res, e, f, N)
<1> DEFINE G == {n \in Nat : \E f : Sums(s, res, e, f, n)}
           Part(n) == IF s[n].at \div res = e THEN s[n].packets ELSE 0
<1>1. 0 \in G
  <2> DEFINE f == [n \in 0 .. 0 |-> 0]
  <2>1. Sums(s, res, e, f, 0)
    BY DEF Sums
  <2> QED
    BY <2>1, Zenon
<1>2. ASSUME NEW n \in Nat, n \in G PROVE n + 1 \in G
  <2> PICK f : Sums(s, res, e, f, n)
    BY <1>2, Zenon
  <2> DEFINE next == f[n] + Part(n + 1)
             g == [k \in 0 .. n + 1 |-> IF k = n + 1 THEN next ELSE f[k]]
  <2>0. f[0] = 0 /\ \A k \in 1 .. n : f[k] = f[k - 1] + Part(k)
    BY Zenon DEF Sums
  <2> HIDE DEF Part
  <2>1. g[0] = 0 /\ g[n + 1] = next /\ \A k \in 0 .. n : g[k] = f[k]
    BY <2>0
  <2>2. g = [k \in 0 .. n + 1 |-> g[k]]
    BY Zenon
  <2> HIDE DEF g
  <2>3. ASSUME NEW k \in 1 .. n + 1 PROVE g[k] = g[k - 1] + Part(k)
    <3>1. CASE k = n + 1
      BY <2>1, <3>1
    <3>2. CASE k \in 1 .. n
      <4>1. g[k] = f[k] /\ g[k - 1] = f[k - 1]
        BY <2>1, <3>2
      <4> QED
        BY <2>0, <3>2, <4>1, Zenon
    <3> QED
      BY <3>1, <3>2
  <2>4. Sums(s, res, e, g, n + 1)
    BY <2>1, <2>2, <2>3, Zenon DEF Sums, Part
  <2> QED
    BY <2>4
<1>3. Nat \subseteq G
  <2> HIDE DEF G
  <2> QED
    BY <1>1, <1>2, Induction, Zenon
<1> QED
  BY <1>3, Zenon

(* ... and PacketsAt is its last value.                                     *)
LEMMA SumLoop ==
  ASSUME NEW s, NEW res, NEW e, Len(s) \in Nat
  PROVE  \E f : Sums(s, res, e, f, Len(s)) /\ PacketsAt(s, res, e) = f[Len(s)]
<1> DEFINE N == Len(s)
           Part(n) == IF s[n].at \div res = e THEN s[n].packets ELSE 0
           Body(f) == [n \in 0 .. N |-> IF n = 0 THEN 0 ELSE f[n - 1] + Part(n)]
           total == CHOOSE f : f = Body(f)
<1>0. PacketsAt(s, res, e) = total[N]
  BY Zenon DEF PacketsAt
<1>1. PICK f : Sums(s, res, e, f, N)
  BY SumsExist, Zenon
<1>2. f = Body(f)
  <2>1. /\ f = [n \in 0 .. N |-> f[n]] /\ f[0] = 0
        /\ \A n \in 1 .. N : f[n] = f[n - 1] + Part(n)
    BY <1>1, Zenon DEF Sums
  <2> HIDE DEF Part, N
  <2>2. ASSUME NEW n \in 0 .. N PROVE f[n] = IF n = 0 THEN 0 ELSE f[n - 1] + Part(n)
    <3>1. n = 0 \/ n \in 1 .. N
      BY DEF N
    <3> QED
      BY <2>1, <3>1, Zenon
  <2>3. [n \in 0 .. N |-> f[n]] = Body(f)
    BY <2>2, Zenon
  <2> QED
    BY <2>1, <2>3, Zenon
<1> HIDE DEF Body
<1>3. total = Body(total)
  BY <1>2, Zenon
<1>4. Sums(s, res, e, total, N)
  <2> HIDE DEF total
  <2>1. total = [n \in 0 .. N |-> total[n]]
    BY <1>3, Zenon DEF Body
  <2> USE <1>3
  <2> HIDE DEF Part
  <2>2. ASSUME NEW n \in 0 .. N PROVE total[n] = IF n = 0 THEN 0 ELSE total[n - 1] + Part(n)
    <3>1. Body(total)[n] = IF n = 0 THEN 0 ELSE total[n - 1] + Part(n)
      BY Zenon DEF Body
    <3> QED
      BY <3>1, Zenon
  <2>3. total[0] = 0
    BY <2>2
  <2>4. ASSUME NEW n \in 1 .. N PROVE total[n] = total[n - 1] + Part(n)
    <3>1. n \in 0 .. N /\ n # 0
      OBVIOUS
    <3> QED
      BY <2>2, <3>1, Zenon
  <2> QED
    BY <2>1, <2>3, <2>4, Zenon DEF Sums, Part
<1> QED
  BY <1>0, <1>4, Zenon

(* Equal samples, equal sums; and a sum of samples is a number.             *)
LEMMA SumsSame ==
  ASSUME NEW s, NEW t, NEW res, NEW e, NEW N \in Nat, NEW M \in Nat, N <= M, NEW f, NEW g,
         Sums(s, res, e, f, N), Sums(t, res, e, g, M), \A n \in 1 .. N : s[n] = t[n]
  PROVE  f[N] = g[N]
<1> DEFINE G == {n \in Nat : n <= N => f[n] = g[n]}
<1>1. 0 \in G
  BY Zenon DEF Sums
<1>2. ASSUME NEW n \in Nat, n \in G PROVE n + 1 \in G
  <2> SUFFICES ASSUME n + 1 <= N PROVE f[n + 1] = g[n + 1]
    OBVIOUS
  <2> DEFINE m == n + 1
  <2>1. m \in 1 .. N /\ m \in 1 .. M /\ m - 1 = n
    OBVIOUS
  <2> HIDE DEF m
  <2>2. f[m] = f[m - 1] + IF s[m].at \div res = e THEN s[m].packets ELSE 0
    BY <2>1, Zenon DEF Sums
  <2>3. g[m] = g[m - 1] + IF t[m].at \div res = e THEN t[m].packets ELSE 0
    BY <2>1, Zenon DEF Sums
  <2>4. f[m - 1] = g[m - 1] /\ s[m] = t[m]
    BY <1>2, <2>1 DEF m
  <2>5. f[m] = g[m]
    BY <2>2, <2>3, <2>4, Zenon
  <2> QED
    BY <2>5, Zenon DEF m
<1>3. Nat \subseteq G
  <2> HIDE DEF G
  <2> QED
    BY <1>1, <1>2, Induction, Zenon
<1> QED
  BY <1>3

(* The sum is a number, and zero when no sample is of the interval. *)
LEMMA SumsNatural ==
  ASSUME NEW s, NEW res, NEW e, NEW N \in Nat, NEW f, Sums(s, res, e, f, N),
         \A n \in 1 .. N : s[n].packets \in Nat
  PROVE  /\ f[N] \in Nat
         /\ (\A n \in 1 .. N : s[n].at \div res # e) => f[N] = 0
<1> DEFINE Part(n) == IF s[n].at \div res = e THEN s[n].packets ELSE 0
           none == \A n \in 1 .. N : s[n].at \div res # e
           G == {n \in Nat : n <= N => f[n] \in Nat /\ (none => f[n] = 0)}
<1>0. f[0] = 0 /\ \A n \in 1 .. N : f[n] = f[n - 1] + Part(n)
  BY Zenon DEF Sums
<1>1. 0 \in G
  BY <1>0
<1>2. ASSUME NEW n \in Nat, n \in G PROVE n + 1 \in G
  <2> SUFFICES ASSUME n + 1 <= N PROVE f[n + 1] \in Nat /\ (none => f[n + 1] = 0)
    OBVIOUS
  <2>1. n + 1 \in 1 .. N /\ (n + 1) - 1 = n /\ n <= N
    OBVIOUS
  <2>2. f[n + 1] = f[n] + Part(n + 1)
    BY <1>0, <2>1, Zenon
  <2>3. Part(n + 1) \in Nat /\ (none => Part(n + 1) = 0)
    BY <2>1, Zenon
  <2>4. f[n] \in Nat /\ (none => f[n] = 0)
    BY <1>2, <2>1, Zenon
  <2> HIDE DEF Part, none
  <2> QED
    BY <2>2, <2>3, <2>4
<1>3. Nat \subseteq G
  <2> HIDE DEF G
  <2> QED
    BY <1>1, <1>2, Induction, Zenon
<1>4. N \in G
  BY <1>3, Zenon
<1> QED
  BY <1>4

(* The packets of an interval: none without samples, and what a sample      *)
(* more adds to them.                                                       *)
LEMMA PacketsEmpty == ASSUME NEW res, NEW e PROVE PacketsAt(<<>>, res, e) = 0
<1>1. PICK f : Sums(<<>>, res, e, f, Len(<<>>)) /\ PacketsAt(<<>>, res, e) = f[Len(<<>>)]
  BY SumLoop, Zenon
<1> QED
  BY <1>1, Zenon DEF Sums

(* The same for the packets of an interval. *)
LEMMA PacketsNatural ==
  ASSUME NEW s \in Seq(Sample), NEW res, NEW e
  PROVE  /\ PacketsAt(s, res, e) \in Nat
         /\ (\A n \in 1 .. Len(s) : s[n].at \div res # e) => PacketsAt(s, res, e) = 0
<1> DEFINE N == Len(s)
<1>1. N \in Nat /\ \A n \in 1 .. N : s[n].packets \in Nat
  <2>1. N \in Nat /\ \A n \in 1 .. N : s[n] \in Sample
    OBVIOUS
  <2>2. \A x \in Sample : x.packets \in Nat
    BY Zenon DEF Sample
  <2> QED
    BY <2>1, <2>2, Zenon
<1>2. PICK f : Sums(s, res, e, f, N) /\ PacketsAt(s, res, e) = f[N]
  BY <1>1, SumLoop, Zenon
<1>3. f[N] \in Nat /\ ((\A n \in 1 .. N : s[n].at \div res # e) => f[N] = 0)
  <2> HIDE DEF N
  <2> QED
    BY <1>1, <1>2, SumsNatural
<1> QED
  BY <1>2, <1>3, Zenon

(* What one more sample adds. *)
LEMMA PacketsAppend ==
  ASSUME NEW s \in Seq(Sample), NEW x \in Sample, NEW res, NEW e
  PROVE  /\ x.at \div res = e =>
              PacketsAt(Append(s, x), res, e) = PacketsAt(s, res, e) + x.packets
         /\ x.at \div res # e => PacketsAt(Append(s, x), res, e) = PacketsAt(s, res, e)
<1> DEFINE t == Append(s, x)
           N == Len(s)
           M == N + 1
<1>1. N \in Nat /\ Len(t) = M /\ M \in Nat /\ N <= M /\ t[M] = x /\ M \in 1 .. M /\ M - 1 = N
  OBVIOUS
<1>2. \A n \in 1 .. N : s[n] = t[n]
  OBVIOUS
<1> HIDE DEF t, M
<1>3. PICK f : Sums(s, res, e, f, N) /\ PacketsAt(s, res, e) = f[N]
  BY <1>1, SumLoop, Zenon
<1>4. PICK g : Sums(t, res, e, g, M) /\ PacketsAt(t, res, e) = g[M]
  <2>1. Len(t) \in Nat
    BY <1>1, Zenon
  <2>2. PICK g : Sums(t, res, e, g, Len(t)) /\ PacketsAt(t, res, e) = g[Len(t)]
    BY <2>1, SumLoop, Zenon
  <2> QED
    BY <1>1, <2>2, Zenon
<1> HIDE DEF N
<1>5. f[N] = g[N]
  BY <1>1, <1>2, <1>3, <1>4, SumsSame
<1>6. g[M] = g[M - 1] + IF t[M].at \div res = e THEN t[M].packets ELSE 0
  BY <1>1, <1>4, Zenon DEF Sums
<1>7. PacketsAt(t, res, e) = PacketsAt(s, res, e) + IF x.at \div res = e THEN x.packets ELSE 0
  BY <1>1, <1>3, <1>4, <1>5, <1>6, Zenon
<1>8. PacketsAt(s, res, e) + 0 = PacketsAt(s, res, e)
  <2>1. PacketsAt(s, res, e) \in Nat
    BY PacketsNatural, Zenon
  <2> QED
    BY <2>1
<1>9. CASE x.at \div res = e
  BY <1>7, <1>9, Zenon DEF t
<1>10. CASE x.at \div res # e
  BY <1>7, <1>8, <1>10, Zenon DEF t
<1> QED
  BY <1>9, <1>10, Zenon

-----------------------------------------------------------------------------
(* Dividing by the resolution keeps the order of times; shifting by         *)
(* multiples of it shifts the interval; and of numbers closer than the      *)
(* number of slots only equal ones share a slot.                            *)
LEMMA EpochOrder ==
  ASSUME NEW a \in Int, NEW b \in Int, NEW d \in Nat \ {0}, a <= b
  PROVE  a \div d \in Int /\ b \div d \in Int /\ a \div d <= b \div d
OBVIOUS

(* Times that are naturals have epochs that are. *)
LEMMA EpochNatural ==
  ASSUME NEW a \in Nat, NEW d \in Nat \ {0} PROVE a \div d \in Nat
OBVIOUS

(* A multiple of the resolution. *)
LEMMA Multiple ==
  ASSUME NEW a \in Int, NEW d \in Nat \ {0}, a % d = 0
  PROVE  a \div d \in Int /\ a = d * (a \div d)
OBVIOUS

(* Division with remainder. *)
LEMMA Euclid ==
  ASSUME NEW a \in Int, NEW d \in Nat \ {0}
  PROVE  /\ a \div d \in Int /\ a % d \in Int /\ 0 <= a % d /\ a % d < d
         /\ a = d * (a \div d) + (a % d)
<1>1. a \div d \in Int
  OBVIOUS
<1>2. a % d \in Int /\ 0 <= a % d /\ a % d < d
  OBVIOUS
<1>3. a % d = a - (d * (a \div d))
  <2>1. d \in Int /\ d > 0
    OBVIOUS
  <2> QED
    BY <2>1
<1>4. a = d * (a \div d) + (a % d)
  <2> DEFINE m == d * (a \div d)
             r == a % d
  <2>1. m \in Int /\ r \in Int
    BY <1>1, <1>2
  <2>2. r = a - m
    BY <1>3, Zenon
  <2> HIDE DEF m, r
  <2>3. a = m + r
    BY <2>1, <2>2
  <2> QED
    BY <2>3, Zenon DEF m, r
<1> QED
  BY <1>1, <1>2, <1>4, Zenon

(* A shift by a multiple shifts the epoch. *)
LEMMA EpochShift ==
  ASSUME NEW t \in Int, NEW b \in Int, NEW d \in Nat \ {0}
  PROVE  (t - d * b) \div d = t \div d - b
<1>1. PICK q \in Int, r \in 0 .. d - 1 : t = d * q + r /\ q = t \div d
  <2>1. t \div d \in Int /\ t % d \in 0 .. d - 1 /\ t = d * (t \div d) + (t % d)
    BY Euclid
  <2> QED
    BY <2>1, Zenon
<1>2. t - d * b = d * (q - b) + r
  BY <1>1
<1>3. q - b \in Int
  BY <1>1
<1>4. (d * (q - b) + r) \div d = q - b
  BY <1>1, <1>3
<1> QED
  BY <1>1, <1>2, <1>4, Zenon

(* Epochs that share a slot are equal or a round of the ring apart. *)
LEMMA SameSlot ==
  ASSUME NEW a \in Int, NEW b \in Int, NEW d \in Nat \ {0}, a % d = b % d, a <= b, b < a + d
  PROVE  a = b
<1> DEFINE p == a \div d
           q == b \div d
           r == a % d
<1>1. p \in Int /\ q \in Int /\ r \in Int /\ a = d * p + r /\ b = d * q + r
  <2>1. a = d * p + (a % d) /\ b = d * q + (b % d) /\ a % d \in Int /\ p \in Int /\ q \in Int
    BY Euclid, Zenon
  <2> QED
    BY <2>1, Zenon
<1> HIDE DEF p, q, r
<1>2. b - a = d * (q - p)
  BY <1>1
<1>3. q - p \in Int /\ d * (q - p) >= 0 /\ d * (q - p) < d
  BY <1>1, <1>2
<1>4. q - p = 0
  <2> DEFINE m == q - p
  <2> HIDE DEF m
  <2>1. m \in Int /\ d * m >= 0 /\ d * m < d
    BY <1>3, Zenon DEF m
  <2>2. ~(m >= 1)
    BY <2>1
  <2>3. ~(m <= -1)
    BY <2>1
  <2>4. m = 0
    BY <2>1, <2>2, <2>3
  <2> QED
    BY <2>4, Zenon DEF m
<1> QED
  BY <1>1, <1>4

-----------------------------------------------------------------------------
Slot == [epoch : Nat, packets : Nat]

(* A ring after samples s, the last of them at time last: a slot is used    *)
(* for no later interval than the last sample's, and for none earlier than  *)
(* that of a sample that belongs there; what it counts is what the samples  *)
(* of its interval add up to.                                               *)
Fit(ring, S, res, s, last) ==
  /\ \A n \in 0 .. S - 1 :
       /\ ring[n].epoch <= last \div res
       /\ ring[n].epoch % S = n \/ ring[n].epoch = 0
       /\ ring[n].epoch % S = n => ring[n].packets = PacketsAt(s, res, ring[n].epoch)
  /\ \A m \in 1 .. Len(s) : ring[(s[m].at \div res) % S].epoch >= s[m].at \div res

Exact(inst, s, last) ==
  /\ inst = [slots |-> inst.slots, spread |-> inst.spread]
  /\ \A m \in 1 .. Len(s) : s[m].at <= last
  /\ DOMAIN inst.slots = DOMAIN Rings
  /\ \A i \in DOMAIN Rings :
       /\ inst.slots[i] \in [0 .. Rings[i].slots - 1 -> Slot]
       /\ Rings[i].slots > 0 => Fit(inst.slots[i], Rings[i].slots, Rings[i].res, s, last)

PoolFits(pool, f, last) ==
  /\ DOMAIN pool \subseteq Keys
  /\ IsFiniteSet(DOMAIN pool) /\ Cardinality(DOMAIN pool) <= MaxInstances
  /\ f \in [Keys -> Seq(Sample)]
  /\ \A k \in DOMAIN pool : Exact(pool[k], f[k], last)
  /\ \A k \in Keys \ DOMAIN pool : f[k] = <<>>

(* The inductive invariant: the instances of the pool and of the state file *)
(* have exact rings.                                                        *)
RingInv ==
  /\ budget \in Scenarios
  /\ now \in Nat /\ lastAt \in Nat /\ lastAt <= now
  /\ PoolFits(items, folded, lastAt)
  /\ PoolFits(dump.items, dump.folded, lastAt)

(* The rings of a rule that compiles (compileRing).                         *)
LEMMA RingsFacts ==
  /\ DOMAIN Rings = 1 .. 3
  /\ \A i \in DOMAIN Rings :
       /\ Rings[i].slots \in Nat /\ Rings[i].res \in Nat
       /\ Rings[i].slots = 0 \/ Rings[i].slots > 0
       /\ Rings[i].slots > 0 => Rings[i].slots \in Nat \ {0} /\ Rings[i].res \in Nat \ {0}
<1>1. DOMAIN Rings = 1 .. 3
  BY TargetsAssumption, Zenon DEF Rings
<1>2. ASSUME NEW i \in 1 .. 3
      PROVE  /\ Rings[i].slots \in Nat /\ Rings[i].res \in Nat
             /\ Rings[i].slots = 0 \/ Rings[i].slots > 0
             /\ Rings[i].slots > 0 => Rings[i].slots \in Nat \ {0} /\ Rings[i].res \in Nat \ {0}
  <2>1. History[i].res \in Nat /\ History[i].dur \in Nat /\ i \in DOMAIN History
    BY TargetsAssumption, Zenon
  <2>2. /\ Rings[i].res = History[i].res
        /\ Rings[i].slots = IF RingOK(History[i]) THEN History[i].dur \div History[i].res ELSE 0
    BY <2>1, Zenon DEF Rings
  <2>3. CASE RingOK(History[i])
    <3>1. History[i].res \in Nat \ {0}
      BY <2>1, <2>3 DEF RingOK
    <3>2. History[i].dur \div History[i].res \in Nat
      BY <2>1, <3>1, EpochNatural, Zenon
    <3>3. Rings[i].slots \in Nat /\ Rings[i].res \in Nat \ {0}
      BY <2>2, <2>3, <3>1, <3>2, Zenon
    <3> QED
      BY <3>3
  <2>4. CASE ~ RingOK(History[i])
    BY <2>1, <2>2, <2>4
  <2> QED
    BY <2>3, <2>4, Zenon
<1> QED
  BY <1>1, <1>2, Zenon

(* A ring that nothing was added to.                                        *)
LEMMA FitNew ==
  ASSUME NEW S \in Nat \ {0}, NEW res \in Nat \ {0}, NEW last \in Nat,
         NEW ring, \A n \in 0 .. S - 1 : ring[n] = EmptySlot
  PROVE  Fit(ring, S, res, <<>>, last)
<1>1. last \div res \in Nat
  BY EpochNatural, Zenon
<1>2. \A n \in 0 .. S - 1 : ring[n].epoch = 0 /\ ring[n].packets = 0
  BY DEF EmptySlot
<1>3. PacketsAt(<<>>, res, 0) = 0
  BY PacketsEmpty, Zenon
<1>4. Len(<<>>) = 0
  BY Zenon
<1> QED
  BY <1>1, <1>2, <1>3, <1>4 DEF Fit

(* Time may pass.                                                           *)
LEMMA FitLater ==
  ASSUME NEW S \in Nat \ {0}, NEW res \in Nat \ {0}, NEW last \in Nat, NEW later \in Nat,
         last <= later, NEW ring \in [0 .. S - 1 -> Slot], NEW s, Fit(ring, S, res, s, last)
  PROVE  Fit(ring, S, res, s, later)
<1>0. last \in Int /\ later \in Int
  OBVIOUS
<1>1. last \div res \in Int /\ later \div res \in Int /\ last \div res <= later \div res
  BY <1>0, EpochOrder, Zenon
<1>2. \A n \in 0 .. S - 1 : ring[n].epoch \in Nat
  BY Zenon DEF Slot
<1>3. \A n \in 0 .. S - 1 : ring[n].epoch <= later \div res
  BY <1>1, <1>2 DEF Fit
<1> QED
  BY <1>3, Zenon DEF Fit

(* ring.add: the slot of the sample's interval is started anew if it is of  *)
(* an earlier one, in which case no sample of the interval came before.     *)
LEMMA FitAdd ==
  ASSUME NEW i \in DOMAIN Rings, Rings[i].slots > 0,
         NEW last \in Nat, NEW at \in Nat, last <= at, NEW w \in Nat,
         NEW s \in Seq(Sample), \A m \in 1 .. Len(s) : s[m].at <= last,
         NEW ring \in [0 .. Rings[i].slots - 1 -> Slot],
         Fit(ring, Rings[i].slots, Rings[i].res, s, last)
  PROVE  /\ RingAdd(ring, i, at, w) \in [0 .. Rings[i].slots - 1 -> Slot]
         /\ Fit(RingAdd(ring, i, at, w), Rings[i].slots, Rings[i].res, FoldedWith(s, at, w), at)
<1> DEFINE S == Rings[i].slots
           res == Rings[i].res
           e == at \div res
           j == e % S
           x == [at |-> at, packets |-> w]
           t == FoldedWith(s, at, w)
           new == RingAdd(ring, i, at, w)
           old == ring[j]
<1>1. S \in Nat \ {0} /\ res \in Nat \ {0}
  BY RingsFacts, Zenon
<1>2. new = [ring EXCEPT ![j] = [epoch |-> e, packets |-> w + IF old.epoch # e THEN 0 ELSE old.packets]]
  BY Zenon DEF RingAdd
<1>3. x \in Sample /\ x.at = at /\ x.packets = w /\ t = Append(s, x)
  BY Zenon DEF Sample, FoldedWith
<1> HIDE DEF S, res
<1>4. e \in Nat
  BY <1>1, EpochNatural, Zenon
<1>5. j \in 0 .. S - 1
  BY <1>1, <1>4
<1>6. ring \in [0 .. S - 1 -> Slot] /\ Fit(ring, S, res, s, last)
  BY Zenon DEF S, res
<1> HIDE DEF x, t, new
<1>7. \A n \in 0 .. S - 1 : ring[n] \in Slot /\ ring[n].epoch \in Nat /\ ring[n].packets \in Nat
  BY <1>6, Zenon DEF Slot
<1>8. last \div res \in Int /\ last \div res <= e
  <2>1. last \in Int /\ at \in Int
    OBVIOUS
  <2> QED
    BY <1>1, <2>1, EpochOrder, Zenon
<1>9. ASSUME NEW m \in 1 .. Len(s)
      PROVE  s[m].at \in Nat /\ s[m].at \div res \in Nat /\ s[m].at \div res <= e
  <2>1. s[m] \in Sample
    OBVIOUS
  <2>2. s[m].at \in Nat
    BY <2>1, Zenon DEF Sample
  <2>3. s[m].at <= at
    BY <2>2
  <2> QED
    <3>1. s[m].at \in Int /\ at \in Int
      BY <2>2
    <3> QED
      BY <1>1, <2>2, <2>3, <3>1, EpochOrder, EpochNatural, Zenon
<1>10. old.epoch # e => PacketsAt(s, res, e) = 0
  <2> SUFFICES ASSUME old.epoch # e, NEW m \in 1 .. Len(s), s[m].at \div res = e PROVE FALSE
    BY PacketsNatural, Zenon
  <2>1. old.epoch >= e
    BY <1>6, Zenon DEF Fit
  <2>2. old.epoch <= last \div res
    BY <1>5, <1>6, Zenon DEF Fit
  <2> HIDE DEF e, j
  <2>3. old.epoch \in Nat
    BY <1>5, <1>7, Zenon
  <2> QED
    BY <1>4, <1>8, <2>1, <2>2, <2>3
<1>11. old.epoch = e => old.packets = PacketsAt(s, res, e)
  BY <1>5, <1>6, Zenon DEF Fit
<1>12. PacketsAt(s, res, e) \in Nat
  BY PacketsNatural, Zenon
<1>13. x \in Sample
  BY <1>3, Zenon
<1>14. /\ \A d : e # d => PacketsAt(t, res, d) = PacketsAt(s, res, d)
       /\ PacketsAt(t, res, e) = PacketsAt(s, res, e) + w
  <2> DEFINE u == Append(s, x)
  <2>1. ASSUME NEW d
        PROVE  /\ x.at \div res = d => PacketsAt(u, res, d) = PacketsAt(s, res, d) + x.packets
               /\ x.at \div res # d => PacketsAt(u, res, d) = PacketsAt(s, res, d)
    BY <1>13, PacketsAppend
  <2>2. x.at = at /\ x.packets = w /\ t = u
    BY <1>3, Zenon
  <2> HIDE DEF u
  <2> QED
    BY <2>1, <2>2, Zenon
<1>15. /\ new[j].epoch = e /\ new[j].packets = PacketsAt(t, res, e) /\ new[j] \in Slot
       /\ \A n \in (0 .. S - 1) \ {j} : new[n] = ring[n]
       /\ new \in [0 .. S - 1 -> Slot]
  <2> DEFINE p == w + IF old.epoch # e THEN 0 ELSE old.packets
  <2>1. p = PacketsAt(s, res, e) + w /\ p \in Nat
    BY <1>10, <1>11, <1>12
  <2>2. new = [ring EXCEPT ![j] = [epoch |-> e, packets |-> p]]
    BY <1>2, Zenon
  <2> HIDE DEF p, e, j
  <2>3. [epoch |-> e, packets |-> p] \in Slot
    BY <1>4, <2>1, Zenon DEF Slot
  <2> QED
    BY <1>5, <1>6, <1>14, <2>1, <2>2, <2>3, Zenon
<1>16. ASSUME NEW n \in 0 .. S - 1
       PROVE  /\ new[n].epoch <= e
              /\ new[n].epoch % S = n \/ new[n].epoch = 0
              /\ new[n].epoch % S = n => new[n].packets = PacketsAt(t, res, new[n].epoch)
  <2>1. CASE n = j
    BY <1>4, <1>15, <2>1
  <2>2. CASE n # j
    <3>1. new[n] = ring[n]
      BY <1>15, <2>2, Zenon
    <3>2. /\ ring[n].epoch <= last \div res
          /\ ring[n].epoch % S = n \/ ring[n].epoch = 0
          /\ ring[n].epoch % S = n => ring[n].packets = PacketsAt(s, res, ring[n].epoch)
      BY <1>6, Zenon DEF Fit
    <3>3. ring[n].epoch % S = n => ring[n].epoch # e
      BY <2>2, Zenon
    <3>4. ring[n].epoch \in Nat /\ PacketsAt(s, res, ring[n].epoch) \in Nat
      BY <1>7, PacketsNatural, Zenon
    <3>5. ring[n].epoch # e => PacketsAt(t, res, ring[n].epoch) = PacketsAt(s, res, ring[n].epoch)
      BY <1>14, Zenon
    <3>6. ring[n].epoch <= e
      BY <1>4, <1>8, <3>2, <3>4
    <3> QED
      BY <3>1, <3>2, <3>3, <3>5, <3>6, Zenon
  <2> QED
    BY <2>1, <2>2, Zenon
<1>17. ASSUME NEW m \in 1 .. Len(t)
       PROVE  new[(t[m].at \div res) % S].epoch >= t[m].at \div res
  <2>1. Len(t) = Len(s) + 1 /\ t[Len(s) + 1] = x /\ \A l \in 1 .. Len(s) : t[l] = s[l]
    BY <1>3
  <2>2. CASE m = Len(s) + 1
    <3>1. t[m].at \div res = e
      BY <1>3, <2>1, <2>2, Zenon
    <3>2. e >= e
      BY <1>4
    <3> QED
      BY <1>15, <3>1, <3>2, Zenon
  <2>3. CASE m \in 1 .. Len(s)
    <3> DEFINE d == s[m].at \div res
               n == d % S
    <3>1. d \in Nat /\ d <= e /\ t[m] = s[m]
      BY <1>9, <2>1, <2>3, Zenon
    <3>2. ring[n].epoch >= d
      BY <1>6, <2>3, Zenon DEF Fit
    <3> HIDE DEF d
    <3>3. n \in 0 .. S - 1
      <4>1. S \in Nat \ {0} /\ d \in Int
        BY <1>1, <3>1
      <4>2. d % S \in Int /\ 0 <= d % S /\ d % S < S
        BY <4>1, Euclid, Zenon
      <4> QED
        BY <4>1, <4>2
    <3>4. new[n].epoch >= d
      <4>1. CASE n = j
        BY <1>4, <1>15, <3>1, <4>1, Zenon
      <4>2. CASE n # j
        BY <1>15, <3>2, <3>3, <4>2, Zenon
      <4> QED
        BY <4>1, <4>2, Zenon
    <3> QED
      BY <3>1, <3>4, Zenon DEF d
  <2> QED
    BY <2>1, <2>2, <2>3
<1>18. Fit(new, S, res, t, at)
  BY <1>16, <1>17, Zenon DEF Fit
<1> QED
  BY <1>15, <1>18, Zenon DEF S, res, t, new

(* An instance that was just admitted.                                      *)
LEMMA ExactNew ==
  ASSUME NEW last \in Nat PROVE Exact(NewInstance, <<>>, last)
<1>1. NewInstance = [slots |-> NewSlots, spread |-> None]
  BY Zenon DEF NewInstance
<1>2. DOMAIN NewSlots = DOMAIN Rings
  BY Zenon DEF NewSlots
<1>3. ASSUME NEW i \in DOMAIN Rings
      PROVE  /\ NewSlots[i] \in [0 .. Rings[i].slots - 1 -> Slot]
             /\ Rings[i].slots > 0 => Fit(NewSlots[i], Rings[i].slots, Rings[i].res, <<>>, last)
  <2>1. NewSlots[i] = [n \in 0 .. Rings[i].slots - 1 |-> EmptySlot]
    BY Zenon DEF NewSlots
  <2>2. EmptySlot \in Slot
    BY Zenon DEF EmptySlot, Slot
  <2>3. \A n \in 0 .. Rings[i].slots - 1 : NewSlots[i][n] = EmptySlot
    BY <2>1, Zenon
  <2>4. Rings[i].slots > 0 => Rings[i].slots \in Nat \ {0} /\ Rings[i].res \in Nat \ {0}
    BY RingsFacts, Zenon
  <2>5. Rings[i].slots > 0 => Fit(NewSlots[i], Rings[i].slots, Rings[i].res, <<>>, last)
    BY <2>3, <2>4, FitNew, Zenon
  <2>6. NewSlots[i] \in [0 .. Rings[i].slots - 1 -> Slot]
    BY <2>1, <2>2, Zenon
  <2> QED
    BY <2>5, <2>6, Zenon
<1>4. NewInstance.slots = NewSlots /\ NewInstance = [slots |-> NewInstance.slots, spread |-> NewInstance.spread]
  BY <1>1, Zenon
<1>5. \A m \in 1 .. Len(<<>>) : <<>>[m].at <= last
  OBVIOUS
<1> QED
  BY <1>2, <1>3, <1>4, <1>5, Zenon DEF Exact

(* Time may pass, and the gate of an instance is apart from its rings.      *)
LEMMA ExactLater ==
  ASSUME NEW last \in Nat, NEW later \in Nat, last <= later,
         NEW inst, NEW s \in Seq(Sample), Exact(inst, s, last)
  PROVE  Exact(inst, s, later)
<1>1. ASSUME NEW m \in 1 .. Len(s) PROVE s[m].at <= later
  <2>1. s[m] \in Sample
    OBVIOUS
  <2>2. s[m].at \in Nat /\ s[m].at <= last
    BY <2>1, Zenon DEF Sample, Exact
  <2> QED
    BY <2>2
<1>2. ASSUME NEW i \in DOMAIN Rings, Rings[i].slots > 0
      PROVE  Fit(inst.slots[i], Rings[i].slots, Rings[i].res, s, later)
  <2>1. Rings[i].slots \in Nat \ {0} /\ Rings[i].res \in Nat \ {0}
    BY <1>2, RingsFacts, Zenon
  <2>2. /\ inst.slots[i] \in [0 .. Rings[i].slots - 1 -> Slot]
        /\ Fit(inst.slots[i], Rings[i].slots, Rings[i].res, s, last)
    BY <1>2, Zenon DEF Exact
  <2> QED
    BY <2>1, <2>2, FitLater, Zenon
<1> QED
  BY <1>1, <1>2, Zenon DEF Exact

(* The gate is not part of it. *)
LEMMA ExactGate ==
  ASSUME NEW last, NEW inst, NEW s, Exact(inst, s, last), NEW g
  PROVE  Exact([inst EXCEPT !.spread = g], s, last)
<1> DEFINE new == [inst EXCEPT !.spread = g]
<1>1. inst = [slots |-> inst.slots, spread |-> inst.spread]
  BY Zenon DEF Exact
<1>2. new.slots = inst.slots /\ new = [slots |-> new.slots, spread |-> new.spread]
  BY <1>1
<1> HIDE DEF new
<1>3. Exact(new, s, last)
  BY <1>2, Zenon DEF Exact
<1> QED
  BY <1>3, Zenon DEF new

(* A sample in all the rings of an instance (instance.add).                 *)
LEMMA ExactAdd ==
  ASSUME NEW last \in Nat, NEW at \in Nat, last <= at, NEW w \in Nat,
         NEW inst, NEW s \in Seq(Sample), Exact(inst, s, last)
  PROVE  /\ FoldedWith(s, at, w) \in Seq(Sample)
         /\ Exact(InstanceAdd(inst, at, w), FoldedWith(s, at, w), at)
<1> DEFINE x == [at |-> at, packets |-> w]
           t == FoldedWith(s, at, w)
           sl == [i \in DOMAIN Rings |->
                   IF Rings[i].slots = 0 THEN inst.slots[i] ELSE RingAdd(inst.slots[i], i, at, w)]
           new == InstanceAdd(inst, at, w)
<1>1. x \in Sample /\ x.at = at /\ t = Append(s, x)
  BY Zenon DEF Sample, FoldedWith
<1>2. inst = [slots |-> inst.slots, spread |-> inst.spread]
  BY Zenon DEF Exact
<1>3. new = [inst EXCEPT !.slots = sl]
  BY Zenon DEF InstanceAdd
<1> HIDE DEF x, t, new
<1>4. t \in Seq(Sample) /\ Len(t) = Len(s) + 1 /\ t[Len(s) + 1] = x /\ \A m \in 1 .. Len(s) : t[m] = s[m]
  BY <1>1
<1>5. new.slots = sl /\ new = [slots |-> new.slots, spread |-> new.spread]
  <2> HIDE DEF sl
  <2> QED
    BY <1>2, <1>3, Zenon
<1>6. ASSUME NEW m \in 1 .. Len(s) PROVE s[m].at <= at /\ s[m].at <= last
  <2>1. s[m] \in Sample
    OBVIOUS
  <2>2. s[m].at \in Nat /\ s[m].at <= last
    BY <2>1, Zenon DEF Sample, Exact
  <2> QED
    BY <2>2
<1>7. ASSUME NEW m \in 1 .. Len(t) PROVE t[m].at <= at
  <2>1. m = Len(s) + 1 \/ m \in 1 .. Len(s)
    BY <1>4
  <2>2. at <= at
    OBVIOUS
  <2> QED
    BY <1>1, <1>4, <1>6, <2>1, <2>2, Zenon
<1>8. DOMAIN sl = DOMAIN Rings
  BY Zenon
<1>9. ASSUME NEW i \in DOMAIN Rings
      PROVE  /\ sl[i] \in [0 .. Rings[i].slots - 1 -> Slot]
             /\ Rings[i].slots > 0 => Fit(sl[i], Rings[i].slots, Rings[i].res, t, at)
  <2>1. inst.slots[i] \in [0 .. Rings[i].slots - 1 -> Slot]
    BY Zenon DEF Exact
  <2>2. CASE Rings[i].slots = 0
    <3>1. sl[i] = inst.slots[i] /\ ~(Rings[i].slots > 0)
      BY <2>2
    <3> QED
      BY <2>1, <3>1, Zenon
  <2>3. CASE Rings[i].slots > 0
    <3>1. sl[i] = RingAdd(inst.slots[i], i, at, w)
      BY <2>3
    <3>2. Fit(inst.slots[i], Rings[i].slots, Rings[i].res, s, last)
      BY <2>3, Zenon DEF Exact
    <3>3. /\ RingAdd(inst.slots[i], i, at, w) \in [0 .. Rings[i].slots - 1 -> Slot]
          /\ Fit(RingAdd(inst.slots[i], i, at, w), Rings[i].slots, Rings[i].res, t, at)
      BY <1>6, <2>1, <2>3, <3>2, FitAdd, Zenon DEF t
    <3> QED
      BY <3>1, <3>3, Zenon
  <2>4. Rings[i].slots = 0 \/ Rings[i].slots > 0
    BY RingsFacts, Zenon
  <2> QED
    BY <2>2, <2>3, <2>4, Zenon
<1> HIDE DEF sl
<1>10. Exact(new, t, at)
  BY <1>5, <1>7, <1>8, <1>9, Zenon DEF Exact
<1> QED
  BY <1>4, <1>10, Zenon DEF t, new

(* The pool after admission (Rule.admit): the instances stay as they are, a *)
(* new one starts empty, and there is never one too many.                   *)
LEMMA AdmitFits ==
  ASSUME NEW last \in Nat, PoolFits(items, folded, last),
         NEW sk, NEW k \in Keys, NEW pool \in Admit(sk, k)
  PROVE  PoolFits(pool, [x \in Keys |-> IF x \notin DOMAIN pool THEN <<>> ELSE folded[x]], last)
<1> DEFINE f == [x \in Keys |-> IF x \notin DOMAIN pool THEN <<>> ELSE folded[x]]
           old == DOMAIN items
           beaten == {v \in Weakest(sk) : Heavier(sk, k, v)}
<1>1. Weakest(sk) \subseteq DOMAIN items
  BY Zenon DEF Weakest
<1>2. \/ pool = items
      \/ /\ k \notin old /\ Cardinality(old) < MaxInstances
         /\ pool = Put(items, k, NewInstance)
      \/ /\ k \notin old
         /\ \E u \in old : pool = Put(Without(items, u), k, NewInstance)
  <2>1. pool \in Pools(k, MaxInstances, Weakest(sk), beaten)
    BY Zenon DEF Admit
  <2>2. beaten \subseteq old
    BY <1>1, Zenon
  <2> HIDE DEF beaten
  <2>3. CASE k \in old
    BY <2>1, <2>3, Zenon DEF Pools
  <2>4. CASE k \notin old /\ Cardinality(old) < MaxInstances
    BY <2>1, <2>4, Zenon DEF Pools
  <2>5. CASE k \notin old /\ ~(Cardinality(old) < MaxInstances)
    <3>1. pool \in {Put(Without(items, u), k, NewInstance) : u \in beaten}
                     \cup {items : u \in Weakest(sk) \ beaten}
      BY <2>1, <2>5, Zenon DEF Pools
    <3> QED
      BY <2>2, <2>5, <3>1, Zenon
  <2> QED
    BY <2>3, <2>4, <2>5, Zenon
<1>3. /\ old \subseteq Keys /\ IsFiniteSet(old) /\ Cardinality(old) \in Nat
      /\ Cardinality(old) <= MaxInstances /\ MaxInstances \in Nat
      /\ folded \in [Keys -> Seq(Sample)]
  BY FS_CardinalityType, TargetsAssumption, Zenon DEF PoolFits
<1>4. f \in [Keys -> Seq(Sample)]
  <2>1. <<>> \in Seq(Sample)
    OBVIOUS
  <2> QED
    BY <1>3, <2>1, Zenon
<1>5. \A x \in Keys \ DOMAIN pool : f[x] = <<>>
  BY Zenon
<1>6. /\ \A x \in old : Exact(items[x], folded[x], last)
      /\ \A x \in Keys \ old : folded[x] = <<>>
  BY Zenon DEF PoolFits
<1>7. Exact(NewInstance, <<>>, last)
  BY ExactNew, Zenon
<1>8. /\ DOMAIN pool \subseteq old \cup {k}
      /\ IsFiniteSet(DOMAIN pool) /\ Cardinality(DOMAIN pool) <= MaxInstances
      /\ \A x \in DOMAIN pool : \/ x \in old /\ pool[x] = items[x]
                                \/ x = k /\ k \notin old /\ pool[x] = NewInstance
  <2>1. CASE pool = items
    BY <1>3, <2>1, Zenon
  <2>2. CASE /\ k \notin old /\ Cardinality(old) < MaxInstances
             /\ pool = Put(items, k, NewInstance)
    <3>1. DOMAIN pool = old \cup {k} /\ \A x \in DOMAIN pool : pool[x] = IF x = k THEN NewInstance ELSE items[x]
      BY <2>2, Zenon DEF Put
    <3> HIDE DEF old
    <3>2. IsFiniteSet(old \cup {k}) /\ Cardinality(old \cup {k}) = Cardinality(old) + 1
      BY <1>3, <2>2, FS_AddElement, Zenon
    <3>3. IsFiniteSet(DOMAIN pool) /\ Cardinality(DOMAIN pool) <= MaxInstances
      BY <1>3, <2>2, <3>1, <3>2
    <3> QED
      BY <2>2, <3>1, <3>3, Zenon
  <2>3. ASSUME k \notin old, NEW u \in old, pool = Put(Without(items, u), k, NewInstance)
        PROVE  <1>8!:
    <3>1. /\ DOMAIN pool = (old \ {u}) \cup {k}
          /\ \A x \in DOMAIN pool : pool[x] = IF x = k THEN NewInstance ELSE items[x]
      BY <2>3, Zenon DEF Put, Without
    <3>2. IsFiniteSet(old \ {u}) /\ Cardinality(old \ {u}) = Cardinality(old) - 1
      BY <1>3, <2>3, FS_RemoveElement, Zenon
    <3>3. k \notin old \ {u}
      BY <2>3, Zenon
    <3>4. /\ IsFiniteSet((old \ {u}) \cup {k})
          /\ Cardinality((old \ {u}) \cup {k}) = Cardinality(old \ {u}) + 1
      BY <3>2, <3>3, FS_AddElement, Zenon
    <3> HIDE DEF old
    <3>5. IsFiniteSet(DOMAIN pool) /\ Cardinality(DOMAIN pool) <= MaxInstances
      BY <1>3, <3>1, <3>2, <3>4
    <3> QED
      BY <2>3, <3>1, <3>5, Zenon
  <2> QED
    BY <1>2, <2>1, <2>2, <2>3, Zenon
<1>9. ASSUME NEW x \in DOMAIN pool PROVE Exact(pool[x], f[x], last)
  <2>1. x \in Keys
    BY <1>3, <1>8, Zenon
  <2>2. f[x] = folded[x]
    BY <2>1, Zenon
  <2>3. CASE x \in old /\ pool[x] = items[x]
    BY <1>6, <2>2, <2>3, Zenon
  <2>4. CASE x = k /\ k \notin old /\ pool[x] = NewInstance
    <3>1. folded[x] = <<>>
      BY <1>6, <2>4, Zenon
    <3> QED
      BY <1>7, <2>2, <2>4, <3>1, Zenon
  <2> QED
    BY <1>8, <2>3, <2>4, Zenon
<1>10. DOMAIN pool \subseteq Keys
  BY <1>3, <1>8, Zenon
<1> HIDE DEF f
<1>11. PoolFits(pool, f, last)
  BY <1>4, <1>5, <1>8, <1>9, <1>10, Zenon DEF PoolFits
<1> QED
  BY <1>11, Zenon DEF f

(* The rings of all instances as time passes.                               *)
LEMMA PoolLater ==
  ASSUME NEW last \in Nat, NEW later \in Nat, last <= later,
         NEW pool, NEW f, PoolFits(pool, f, last)
  PROVE  PoolFits(pool, f, later)
<1>1. ASSUME NEW k \in DOMAIN pool PROVE Exact(pool[k], f[k], later)
  <2>1. k \in Keys /\ Exact(pool[k], f[k], last)
    BY Zenon DEF PoolFits
  <2>2. f[k] \in Seq(Sample)
    BY <2>1, Zenon DEF PoolFits
  <2> QED
    BY <2>1, <2>2, ExactLater, Zenon
<1> QED
  BY <1>1, Zenon DEF PoolFits

(* One instance of the pool and the samples in its rings change.            *)
LEMMA PoolWith ==
  ASSUME NEW last, NEW pool, NEW f, PoolFits(pool, f, last),
         NEW k \in DOMAIN pool, NEW inst, NEW s \in Seq(Sample), Exact(inst, s, last)
  PROVE  PoolFits([pool EXCEPT ![k] = inst], [f EXCEPT ![k] = s], last)
<1> DEFINE p == [pool EXCEPT ![k] = inst]
           g == [f EXCEPT ![k] = s]
<1>1. f \in [Keys -> Seq(Sample)] /\ k \in Keys
  BY Zenon DEF PoolFits
<1>2. DOMAIN p = DOMAIN pool /\ p[k] = inst /\ \A x \in DOMAIN pool \ {k} : p[x] = pool[x]
  BY Zenon
<1>3. g \in [Keys -> Seq(Sample)] /\ g[k] = s /\ \A x \in Keys \ {k} : g[x] = f[x]
  BY <1>1, Zenon
<1> HIDE DEF p, g
<1>4. ASSUME NEW x \in DOMAIN p PROVE Exact(p[x], g[x], last)
  <2>1. CASE x = k
    BY <1>2, <1>3, <2>1, Zenon
  <2>2. CASE x # k
    <3>1. x \in DOMAIN pool \ {k} /\ x \in Keys \ {k} /\ Exact(pool[x], f[x], last)
      BY <1>2, <2>2, Zenon DEF PoolFits
    <3> QED
      BY <1>2, <1>3, <3>1, Zenon
  <2> QED
    BY <2>1, <2>2, Zenon
<1>5. ASSUME NEW x \in Keys \ DOMAIN p PROVE g[x] = <<>>
  <2>1. x # k /\ f[x] = <<>>
    BY <1>2, Zenon DEF PoolFits
  <2> QED
    BY <1>3, <2>1, Zenon
<1>6. PoolFits(p, g, last)
  BY <1>2, <1>3, <1>4, <1>5, Zenon DEF PoolFits
<1> QED
  BY <1>6, Zenon DEF p, g

(* Rule.Observe keeps the rings exact.                                      *)
LEMMA ObserveFits ==
  ASSUME RingInv, NEW k \in Keys, NEW w \in Nat, NEW v, NEW at \in Int, NEW hits,
         Observe(k, w, v, at, hits)
  PROVE  PoolFits(items', folded', at) /\ lastAt' = at /\ at \in Nat /\ lastAt <= at /\ at <= now
<1> DEFINE sk == SketchAdd(k, w * Scale, hits)
<1>1. lastAt \in Nat /\ now \in Nat /\ PoolFits(items, folded, lastAt) /\ budget \in Scenarios
  BY Zenon DEF RingInv
<1>2. budget.lag \in Nat
  BY <1>1, TargetsAssumption, Zenon
<1>3. lastAt' = at /\ at \in Nat /\ lastAt <= at /\ at <= now
  <2>1. at \in now - budget.lag .. now /\ lastAt <= at /\ lastAt' = at
    BY Zenon DEF Observe
  <2> DEFINE lag == budget.lag
  <2>2. lag \in Int /\ at \in now - lag .. now
    BY <1>2, <2>1
  <2> HIDE DEF lag
  <2>3. lastAt <= at
    BY <2>1, Zenon
  <2>4. at \in Nat /\ at <= now
    BY <1>1, <2>2, <2>3
  <2> QED
    BY <2>1, <2>3, <2>4, Zenon
<1>4. PICK pool \in Admit(sk, k) :
        LET inst == Gated(pool[k], v)
            opens == k \in DOMAIN pool /\ Opens(inst)
        IN  /\ items' = IF k \notin DOMAIN pool THEN pool
                        ELSE [pool EXCEPT ![k] =
                               IF opens THEN InstanceAdd(inst, at, w) ELSE inst]
            /\ folded' = [x \in Keys |->
                           IF x \notin DOMAIN pool THEN <<>>
                           ELSE IF x = k /\ opens THEN FoldedWith(folded[x], at, w)
                           ELSE folded[x]]
  BY Zenon DEF Observe
<1> DEFINE f == [x \in Keys |-> IF x \notin DOMAIN pool THEN <<>> ELSE folded[x]]
           inst == Gated(pool[k], v)
<1> HIDE DEF sk
<1>5. PoolFits(pool, f, lastAt)
  BY <1>1, AdmitFits, Zenon
<1>6. PoolFits(pool, f, at)
  <2> HIDE DEF f
  <2> QED
    BY <1>1, <1>3, <1>5, PoolLater, Zenon
<1>7. f \in [Keys -> Seq(Sample)]
  BY <1>6, Zenon DEF PoolFits
<1>8. CASE k \notin DOMAIN pool
  <2>1. items' = pool
    BY <1>4, <1>8, Zenon
  <2>2. folded' = f
    BY <1>4, <1>8, Zenon
  <2> QED
    BY <1>3, <1>6, <2>1, <2>2, Zenon
<1>9. CASE k \in DOMAIN pool
  <2>1. f[k] = folded[k] /\ f[k] \in Seq(Sample)
    BY <1>7, <1>9, Zenon
  <2>2. Exact(pool[k], f[k], lastAt) /\ Exact(pool[k], f[k], at)
    BY <1>5, <1>6, <1>9, Zenon DEF PoolFits
  <2>3. Exact(inst, f[k], lastAt) /\ Exact(inst, f[k], at)
    <3>1. CASE Gate = None
      BY <2>2, <3>1, Zenon DEF Gated
    <3>2. CASE Gate # None
      <4>1. PICK g : Gated(pool[k], v) = [pool[k] EXCEPT !.spread = g]
        <5>1. pool[k] = [slots |-> pool[k].slots, spread |-> pool[k].spread]
          BY <2>2, Zenon DEF Exact
        <5> QED
          BY <3>2, <5>1, Zenon DEF Gated
      <4> HIDE DEF f
      <4>2. /\ Exact([pool[k] EXCEPT !.spread = g], f[k], lastAt)
            /\ Exact([pool[k] EXCEPT !.spread = g], f[k], at)
        BY <2>2, ExactGate, Zenon
      <4> QED
        BY <4>1, <4>2, Zenon
    <3> QED
      BY <3>1, <3>2, Zenon
  <2>4. CASE Opens(inst)
    <3> DEFINE s == FoldedWith(f[k], at, w)
               new == InstanceAdd(inst, at, w)
    <3>1. s \in Seq(Sample) /\ Exact(new, s, at)
      <4> HIDE DEF inst, f
      <4> QED
        BY <1>1, <1>3, <2>1, <2>3, ExactAdd, Zenon
    <3>2. items' = [pool EXCEPT ![k] = new]
      BY <1>4, <1>9, <2>4, Zenon
    <3>3. folded' = [x \in Keys |->
                           IF x \notin DOMAIN pool THEN <<>>
                           ELSE IF x = k THEN FoldedWith(folded[x], at, w)
                           ELSE folded[x]]
      BY <1>4, <1>9, <2>4, Zenon
    <3>4. folded' = [f EXCEPT ![k] = s]
      <4> HIDE DEF s
      <4>1. s = FoldedWith(folded[k], at, w)
        BY <2>1, Zenon DEF s
      <4> QED
        BY <1>9, <3>3, <4>1, Zenon
    <3> HIDE DEF s, new, f
    <3> QED
      BY <1>3, <1>6, <1>9, <3>1, <3>2, <3>4, PoolWith, Zenon
  <2>5. CASE ~Opens(inst)
    <3>1. items' = [pool EXCEPT ![k] = inst]
      BY <1>4, <1>9, <2>5, Zenon
    <3>2. folded' = f
      BY <1>4, <1>9, <2>5, Zenon
    <3>3. f = [f EXCEPT ![k] = f[k]]
      BY <1>7, Zenon
    <3>4. folded' = [f EXCEPT ![k] = f[k]]
      BY <3>2, <3>3, Zenon
    <3> HIDE DEF inst, f
    <3>5. PoolFits([pool EXCEPT ![k] = inst], [f EXCEPT ![k] = f[k]], at)
      BY <1>6, <1>9, <2>1, <2>3, PoolWith, Zenon
    <3> QED
      BY <1>3, <3>1, <3>4, <3>5, Zenon
  <2> QED
    BY <2>4, <2>5, Zenon
<1> QED
  BY <1>8, <1>9, Zenon

(* The pool of a new process (Engine.Import): what the file has, without    *)
(* the estimators, or nothing.                                              *)
LEMMA ImportFits ==
  ASSUME NEW last, NEW pool, NEW f, PoolFits(pool, f, last)
  PROVE  PoolFits([k \in DOMAIN pool |-> [pool[k] EXCEPT !.spread = None]], f, last)
<1> DEFINE p == [k \in DOMAIN pool |-> [pool[k] EXCEPT !.spread = None]]
<1>1. ASSUME NEW k \in DOMAIN p PROVE Exact(p[k], f[k], last)
  <2>1. k \in DOMAIN pool /\ p[k] = [pool[k] EXCEPT !.spread = None]
    BY Zenon
  <2> HIDE DEF p
  <2>2. Exact(pool[k], f[k], last)
    BY <2>1, Zenon DEF PoolFits
  <2>3. Exact([pool[k] EXCEPT !.spread = None], f[k], last)
    BY <2>2, ExactGate, Zenon
  <2> QED
    BY <2>1, <2>3, Zenon
<1>2. DOMAIN p = DOMAIN pool
  BY Zenon
<1> HIDE DEF p
<1>3. PoolFits(p, f, last)
  BY <1>1, <1>2, Zenon DEF PoolFits
<1> QED
  BY <1>3, Zenon DEF p

(* An empty pool fits. *)
LEMMA EmptyFits ==
  ASSUME NEW pool, DOMAIN pool = {}, NEW last
  PROVE  PoolFits(pool, [k \in Keys |-> <<>>], last)
<1>1. IsFiniteSet(DOMAIN pool) /\ Cardinality(DOMAIN pool) <= MaxInstances
  BY FS_EmptySet, TargetsAssumption
<1>2. [k \in Keys |-> <<>>] \in [Keys -> Seq(Sample)]
  OBVIOUS
<1> QED
  BY <1>1, <1>2, Zenon DEF PoolFits

(* The rings of every instance, in the pool and in the state file, are      *)
(* exact, and the pool is never too large.                                  *)
THEOREM RingInvariant == Spec => []RingInv
<1>1. Init => RingInv
  <2> SUFFICES ASSUME Init PROVE RingInv
    BY Zenon
  <2>1. now \in Nat /\ lastAt \in Nat /\ lastAt <= now /\ budget \in Scenarios
    <3>1. now = Base /\ lastAt = Base /\ budget \in Scenarios /\ Base \in Nat
      BY TargetsAssumption, Zenon DEF Init
    <3> QED
      BY <3>1
  <2>2. DOMAIN items = {} /\ folded = [k \in Keys |-> <<>>]
    BY DEF Init
  <2>3. PoolFits(items, folded, lastAt)
    BY <2>2, EmptyFits, Zenon
  <2>4. dump.items = items /\ dump.folded = folded
    BY Zenon DEF Init
  <2> QED
    BY <2>1, <2>3, <2>4, Zenon DEF RingInv
<1>2. RingInv /\ [Next]_vars => RingInv'
  <2> SUFFICES ASSUME RingInv, [Next]_vars PROVE RingInv'
    BY Zenon
  <2>0. /\ budget \in Scenarios /\ now \in Nat /\ lastAt \in Nat /\ lastAt <= now
        /\ PoolFits(items, folded, lastAt) /\ PoolFits(dump.items, dump.folded, lastAt)
    BY Zenon DEF RingInv
  <2>1. ASSUME NEW k \in budget.keys, NEW w \in budget.weights, NEW v \in budget.values,
               NEW at \in now - budget.lag .. now, NEW hits \in SUBSET Rows,
               Observe(k, w, v, at, hits)
        PROVE  RingInv'
    <3>1. k \in Keys /\ w \in Nat /\ at \in Int
      BY <2>0, TargetsAssumption
    <3>2. /\ PoolFits(items', folded', at) /\ lastAt' = at
          /\ at \in Nat /\ lastAt <= at /\ at <= now
      BY <2>1, <3>1, ObserveFits, Zenon
    <3>3. now' = now /\ budget' = budget /\ dump' = dump
      BY <2>1, Zenon DEF Observe
    <3>4. PoolFits(dump.items, dump.folded, at)
      BY <2>0, <3>2, PoolLater, Zenon
    <3> QED
      BY <2>0, <3>2, <3>3, <3>4, Zenon DEF RingInv
  <2>2. ASSUME NEW t \in now - budget.lag .. now, Tick(t) PROVE RingInv'
    <3>1. UNCHANGED <<now, lastAt, items, dump, folded, budget>>
      BY <2>2, Zenon DEF Tick
    <3> QED
      BY <2>0, <3>1, Zenon DEF RingInv
  <2>3. CASE Pass
    <3>1. UNCHANGED <<lastAt, items, dump, folded, budget>> /\ now' = now + 1
      BY <2>3, Zenon DEF Pass, hist
    <3>2. now' \in Nat /\ lastAt <= now'
      BY <2>0, <3>1
    <3> QED
      BY <2>0, <3>1, <3>2, Zenon DEF RingInv
  <2>4. ASSUME NEW save \in BOOLEAN, NEW same \in BOOLEAN, Restart(save, same)
        PROVE  RingInv'
    <3> DEFINE file == IF save THEN [items |-> items, folded |-> folded] ELSE dump
    <3>1. UNCHANGED <<now, lastAt, budget>> /\ dump' = file
      BY <2>4, Zenon DEF Restart
    <3>2. PoolFits(file.items, file.folded, lastAt)
      <4>1. CASE save
        <5>1. file.items = items /\ file.folded = folded
          BY <4>1, Zenon
        <5> QED
          BY <2>0, <5>1, Zenon
      <4>2. CASE ~save
        <5>1. file = dump
          BY <4>2, Zenon
        <5> QED
          BY <2>0, <5>1, Zenon
      <4> QED
        BY <4>1, <4>2, Zenon
    <3>3. /\ items' = [k \in IF same THEN DOMAIN file.items ELSE {} |->
                         [file.items[k] EXCEPT !.spread = None]]
          /\ folded' = IF same THEN file.folded ELSE [k \in Keys |-> <<>>]
      BY <2>4, Zenon DEF Restart
    <3> HIDE DEF file
    <3>4. PoolFits(items', folded', lastAt)
      <4>1. CASE same
        <5>1. /\ items' = [k \in DOMAIN file.items |-> [file.items[k] EXCEPT !.spread = None]]
              /\ folded' = file.folded
          BY <3>3, <4>1, Zenon
        <5>2. PoolFits([k \in DOMAIN file.items |-> [file.items[k] EXCEPT !.spread = None]],
                       file.folded, lastAt)
          BY <3>2, ImportFits, Zenon
        <5> QED
          BY <5>1, <5>2, Zenon
      <4>2. CASE ~same
        <5>1. DOMAIN items' = {} /\ folded' = [k \in Keys |-> <<>>]
          BY <3>3, <4>2, Zenon
        <5> QED
          BY <5>1, EmptyFits, Zenon
      <4> QED
        BY <4>1, <4>2, Zenon
    <3> QED
      BY <2>0, <3>1, <3>2, <3>4, Zenon DEF RingInv
  <2>5. CASE UNCHANGED vars
    <3>1. UNCHANGED <<now, lastAt, items, dump, folded, budget>>
      BY <2>5, Zenon DEF vars, hist
    <3> QED
      BY <2>0, <3>1, Zenon DEF RingInv
  <2> QED
    BY <2>1, <2>2, <2>3, <2>4, <2>5, Zenon DEF Next
<1> QED
  BY <1>1, <1>2, PTL DEF Spec

(* The pool within max_instances (instanceStore), the rings of every        *)
(* instance as the rule configures them, also after a restart, and every    *)
(* bucket with a target that is hashed there (heavyKeeper.add).             *)
THEOREM TypeCorrect == Spec => []TypeOK
<1>1. RingInv /\ SketchInv => TypeOK
  <2> SUFFICES ASSUME RingInv, SketchInv PROVE TypeOK
    BY Zenon
  <2>1. Cardinality(DOMAIN items) <= MaxInstances
    BY Zenon DEF RingInv, PoolFits
  <2>2. ASSUME NEW k \in DOMAIN items, NEW i \in DOMAIN Rings
        PROVE  DOMAIN items[k].slots[i] = 0 .. Rings[i].slots - 1
    <3>1. items[k].slots[i] \in [0 .. Rings[i].slots - 1 -> Slot]
      BY Zenon DEF RingInv, PoolFits, Exact
    <3> QED
      BY <3>1, Zenon
  <2>3. \A r \in Rows, c \in Columns : sketch[r][c].count > 0 =>
          sketch[r][c].fp \in Keys /\ Index[r][sketch[r][c].fp] = c
    BY Zenon DEF SketchInv
  <2> QED
    BY <2>1, <2>2, <2>3, Zenon DEF TypeOK
<1> QED
  BY <1>1, RingInvariant, SketchInvariant, PTL

(* The ring chosen for a term covers its window (chooseRing).               *)
LEMMA Chosen ==
  ASSUME NEW window, NEW offset, NEW i, i = ChooseRing(window, offset), i # 0
  PROVE  /\ i \in DOMAIN Rings /\ Rings[i].slots > 0
         /\ window % Rings[i].res = 0 /\ offset % Rings[i].res = 0
         /\ Rings[i].slots * Rings[i].res >= window + offset
<1> DEFINE Fits(j) == /\ Rings[j].slots > 0
                      /\ Rings[j].res <= window
                      /\ window % Rings[j].res = 0
                      /\ offset % Rings[j].res = 0
                      /\ Rings[j].slots * Rings[j].res >= window + offset
           fit == {j \in DOMAIN Rings : Fits(j)}
           Best(a) == \A j \in fit : /\ Rings[j].res <= Rings[a].res
                                     /\ Rings[j].res = Rings[a].res => a <= j
<1>1. i = IF fit = {} THEN 0 ELSE CHOOSE a \in fit : Best(a)
  BY Zenon DEF ChooseRing
<1>2. fit # {} /\ i = CHOOSE a \in fit : Best(a)
  BY <1>1, Zenon
<1>3. fit \subseteq {1, 2, 3}
  BY RingsFacts
<1>4. Rings[1].res \in Nat /\ Rings[2].res \in Nat /\ Rings[3].res \in Nat
  BY RingsFacts
<1> HIDE DEF Fits
<1>5. \E a \in fit : Best(a)
  <2> HIDE DEF fit
  <2> DEFINE r1 == Rings[1].res
             r2 == Rings[2].res
             r3 == Rings[3].res
  <2>0. ASSUME NEW j \in fit PROVE j = 1 \/ j = 2 \/ j = 3
    BY <1>3, Zenon
  <2>1. ASSUME 1 \in fit, 2 \in fit => r2 <= r1, 3 \in fit => r3 <= r1 PROVE Best(1)
    BY <1>4, <2>0, <2>1
  <2>2. ASSUME 2 \in fit, 1 \in fit => r1 < r2, 3 \in fit => r3 <= r2 PROVE Best(2)
    BY <1>4, <2>0, <2>2
  <2>3. ASSUME 3 \in fit, 1 \in fit => r1 < r3, 2 \in fit => r2 < r3 PROVE Best(3)
    BY <1>4, <2>0, <2>3
  <2>4. PICK j : j \in fit
    BY <1>2, Zenon
  <2>5. 1 \in fit \/ 2 \in fit \/ 3 \in fit
    BY <2>0, <2>4, Zenon
  <2> HIDE DEF Best
  <2> QED
    BY <1>4, <2>1, <2>2, <2>3, <2>5
<1>6. i \in fit
  <2> HIDE DEF fit, Best
  <2> QED
    BY <1>2, <1>5, Zenon
<1>7. i \in DOMAIN Rings /\ Fits(i)
  <2> HIDE DEF Best
  <2> QED
    BY <1>6, Zenon
<1> QED
  BY <1>7, Zenon DEF Fits

(* The windows of terms are numbers.                                        *)
LEMMA TermsFacts ==
  ASSUME NEW w \in Terms
  PROVE  w[1] \in Nat /\ w[2] \in Nat /\ ChooseRing(w[1], w[2]) # 0
<1> DEFINE S == {Rings[i].res * Rings[i].slots : i \in DOMAIN Rings}
           horizon == Largest(S)
           x1 == Rings[1].res * Rings[1].slots
           x2 == Rings[2].res * Rings[2].slots
           x3 == Rings[3].res * Rings[3].slots
<1>1. x1 \in Int /\ x2 \in Int /\ x3 \in Int
  BY RingsFacts
<1>2. S = {x1, x2, x3}
  <2>1. DOMAIN Rings = {1, 2, 3}
    BY RingsFacts
  <2> QED
    BY <2>1, Zenon
<1> HIDE DEF S, x1, x2, x3
<1>3. \E x \in S : \A y \in S : y <= x
  <2>1. CASE x2 <= x1 /\ x3 <= x1
    BY <1>1, <1>2, <2>1
  <2>2. CASE x1 <= x2 /\ x3 <= x2
    BY <1>1, <1>2, <2>2
  <2>3. CASE x1 <= x3 /\ x2 <= x3
    BY <1>1, <1>2, <2>3
  <2> QED
    BY <1>1, <2>1, <2>2, <2>3
<1>4. horizon \in S
  BY <1>3, Zenon DEF Largest
<1>5. horizon \in Int
  BY <1>1, <1>2, <1>4, Zenon
<1>6. w \in (1 .. horizon) \X (0 .. horizon - 1) /\ ChooseRing(w[1], w[2]) # 0
  BY Zenon DEF Terms, S
<1> HIDE DEF horizon
<1>7. w[1] \in 1 .. horizon /\ w[2] \in 0 .. horizon - 1
  BY <1>6, Zenon
<1> QED
  BY <1>5, <1>6, <1>7

(* The intervals of a window that a ring covers are less than the number of *)
(* slots behind the time of evaluation (terms are evaluated by              *)
(* windowRange).                                                            *)
LEMMA WindowWithin ==
  ASSUME NEW S \in Nat \ {0}, NEW res \in Nat \ {0}, NEW window \in Nat, NEW offset \in Nat,
         window % res = 0, offset % res = 0, S * res >= window + offset,
         NEW t \in Int, NEW end, end = (t - offset) \div res,
         NEW e \in end - (window \div res) + 1 .. end
  PROVE  e \in Int /\ t \div res < e + S
<1> DEFINE a == window \div res
           b == offset \div res
           q == t \div res
<1>1. a \in Int /\ b \in Int /\ window = res * a /\ offset = res * b
  BY Multiple
<1>2. q \in Int /\ (t - res * b) \div res = q - b
  <2> HIDE DEF b
  <2>1. q \in Int
    OBVIOUS
  <2> QED
    BY <1>1, <2>1, EpochShift, Zenon
<1>3. end = q - b
  BY <1>1, <1>2, Zenon
<1>4. e \in end - a + 1 .. end
  BY Zenon
<1> HIDE DEF a, b, q
<1>5. e \in Int /\ e >= (q - b) - a + 1
  BY <1>1, <1>2, <1>3, <1>4
<1>6. res * (S - (a + b)) >= 0
  <2>1. res * (S - (a + b)) = S * res - (res * a + res * b)
    BY <1>1
  <2> QED
    BY <1>1, <2>1
<1>7. S >= a + b
  <2> DEFINE d == S - (a + b)
  <2>1. d \in Int /\ res * d >= 0
    BY <1>1, <1>6
  <2>2. d >= 0
    <3> HIDE DEF d
    <3> QED
      BY <2>1
  <2> QED
    BY <1>1, <2>2
<1>8. q < e + S
  BY <1>1, <1>2, <1>5, <1>7
<1> QED
  BY <1>5, <1>8, Zenon DEF q

(* What a slot answers for an interval e: the packets of that interval, or  *)
(* nothing; and nothing is right when e is less than the number of slots    *)
(* behind the last sample.                                                  *)
Answers(ring, S, res, s, last, e) ==
  /\ ring[e % S].epoch = e => ring[e % S].packets = PacketsAt(s, res, e)
  /\ ring[e % S].epoch # e /\ last \div res < e + S => PacketsAt(s, res, e) = 0

(* The slots of a ring answer for every interval.                           *)
LEMMA SlotAnswers ==
  ASSUME NEW S \in Nat \ {0}, NEW res \in Nat \ {0}, NEW last \in Nat, NEW s \in Seq(Sample),
         \A m \in 1 .. Len(s) : s[m].at <= last,
         NEW ring \in [0 .. S - 1 -> Slot], Fit(ring, S, res, s, last), NEW e \in Int
  PROVE  Answers(ring, S, res, s, last, e)
<1>1. e % S \in 0 .. S - 1
  BY Euclid
<1>2. ring[e % S].epoch \in Nat
  <2>1. ring[e % S] \in Slot
    BY <1>1, Zenon
  <2> QED
    BY <2>1, Zenon DEF Slot
<1>3. ring[e % S].epoch = e => ring[e % S].packets = PacketsAt(s, res, e)
  <2> SUFFICES ASSUME ring[e % S].epoch = e PROVE ring[e % S].packets = PacketsAt(s, res, e)
    BY Zenon
  <2>1. ring[e % S].epoch % S = e % S =>
          ring[e % S].packets = PacketsAt(s, res, ring[e % S].epoch)
    BY <1>1, Zenon DEF Fit
  <2> QED
    BY <2>1, Zenon
<1>4. ASSUME ring[e % S].epoch # e, last \div res < e + S PROVE PacketsAt(s, res, e) = 0
  <2>1. ASSUME NEW m \in 1 .. Len(s), s[m].at \div res = e PROVE FALSE
    <3> DEFINE p == ring[e % S].epoch
    <3>1. s[m] \in Sample
      OBVIOUS
    <3>2. s[m].at \in Nat /\ e \in Nat
      <4>1. \A x \in Sample : x.at \in Nat
        BY Zenon DEF Sample
      <4>2. s[m].at \in Nat
        BY <3>1, <4>1, Zenon
      <4> QED
        BY <2>1, <4>2, EpochNatural, Zenon
    <3>3. p >= e
      BY <2>1, Zenon DEF Fit
    <3>4. p <= last \div res /\ (p % S = e % S \/ p = 0)
      BY <1>1, Zenon DEF Fit
    <3>5. p \in Nat /\ p # e /\ last \div res \in Int
      BY <1>2, <1>4
    <3> HIDE DEF p
    <3>6. e % S = p % S /\ e <= p /\ p < e + S /\ p \in Int
      BY <1>4, <3>2, <3>3, <3>4, <3>5
    <3>7. e = p
      BY <3>6, SameSlot, Zenon
    <3> QED
      BY <3>5, <3>7, Zenon
  <2> QED
    BY <2>1, PacketsNatural, Zenon
<1> QED
  BY <1>3, <1>4, Zenon DEF Answers

(* Whatever rings the rule configures and whatever window the compiler      *)
(* accepts for a term, every interval of it holds the packets folded into   *)
(* the instance in that interval (instance.add, chooseRing, windowRange),   *)
(* through the reuse of slots, evictions and restarts; a tick older than    *)
(* the newest sample may miss old intervals and never reads another's.      *)
THEOREM WindowsExact == Spec => []RingExact
<1>1. RingInv => RingExact
  <2> SUFFICES ASSUME RingInv,
                      NEW k \in DOMAIN items, NEW w \in Terms,
                      NEW i, i = ChooseRing(w[1], w[2]),
                      NEW t \in {lastAt - 1, lastAt, now, now + 1},
                      NEW e \in DOMAIN WindowSlots(items[k], i, t, w[1], w[2])
               PROVE  \/ WindowSlots(items[k], i, t, w[1], w[2])[e] = PacketsAt(folded[k], Rings[i].res, e)
                      \/ t < lastAt /\ WindowSlots(items[k], i, t, w[1], w[2])[e] = 0
    BY Zenon DEF RingExact
  <2> DEFINE S == Rings[i].slots
             res == Rings[i].res
             ring == items[k].slots[i]
             s == folded[k]
             end == (t - w[2]) \div res
             got == WindowSlots(items[k], i, t, w[1], w[2])
  <2>1. now \in Nat /\ lastAt \in Nat /\ lastAt <= now /\ t \in Int /\ (t < lastAt \/ lastAt <= t)
    BY DEF RingInv
  <2>2. w[1] \in Nat /\ w[2] \in Nat /\ i # 0
    BY TermsFacts, Zenon
  <2>3. /\ i \in DOMAIN Rings /\ S > 0
        /\ w[1] % res = 0 /\ w[2] % res = 0 /\ S * res >= w[1] + w[2]
    BY <2>2, Chosen, Zenon
  <2>4. S \in Nat \ {0} /\ res \in Nat \ {0}
    BY <2>3, RingsFacts, Zenon
  <2>5. got = [x \in end - (w[1] \div res) + 1 .. end |->
                 IF ring[x % S].epoch = x THEN ring[x % S].packets ELSE 0]
    BY Zenon DEF WindowSlots
  <2>6. e \in end - (w[1] \div res) + 1 .. end
    BY <2>5, Zenon
  <2>7. got[e] = IF ring[e % S].epoch = e THEN ring[e % S].packets ELSE 0
    BY <2>5, <2>6, Zenon
  <2>8. k \in Keys /\ Exact(items[k], s, lastAt) /\ folded \in [Keys -> Seq(Sample)]
    BY Zenon DEF RingInv, PoolFits
  <2>9. s \in Seq(Sample)
    BY <2>8, Zenon
  <2>10. /\ \A m \in 1 .. Len(s) : s[m].at <= lastAt
         /\ ring \in [0 .. S - 1 -> Slot] /\ Fit(ring, S, res, s, lastAt)
    BY <2>3, <2>8, Zenon DEF Exact
  <2> HIDE DEF S, res, ring, s, got
  <2>11. e \in Int /\ t \div res < e + S
    BY <2>1, <2>2, <2>3, <2>4, <2>6, WindowWithin, Zenon
  <2>12. /\ ring[e % S].epoch = e => ring[e % S].packets = PacketsAt(s, res, e)
         /\ ring[e % S].epoch # e /\ lastAt \div res < e + S => PacketsAt(s, res, e) = 0
    <3>1. Answers(ring, S, res, s, lastAt, e)
      BY <2>1, <2>4, <2>9, <2>10, <2>11, SlotAnswers, Zenon
    <3> QED
      BY <3>1, Zenon DEF Answers
  <2>13. lastAt <= t => lastAt \div res < e + S
    <3> SUFFICES ASSUME lastAt <= t PROVE lastAt \div res < e + S
      BY Zenon
    <3>1. lastAt \div res <= t \div res /\ lastAt \div res \in Int /\ t \div res \in Int
      BY <2>1, <2>4, EpochOrder
    <3> QED
      BY <2>4, <2>11, <3>1
  <2>14. got[e] = PacketsAt(s, res, e) \/ (t < lastAt /\ got[e] = 0)
    BY <2>1, <2>7, <2>12, <2>13, Zenon
  <2> QED
    BY <2>14, Zenon DEF got, s, res
<1> QED
  BY <1>1, RingInvariant, PTL
=============================================================================
