------------------------------ MODULE Targets -------------------------------
(***************************************************************************)
(* What a detection rule remembers (internal/detector rule.go, store.go,   *)
(* heavykeeper.go, spread.go, persist.go): the HeavyKeeper sketch that     *)
(* watches every target, the bounded pool of instances it admits targets   *)
(* to, the sample rings of an instance, the diversity gate in front of     *)
(* them, and the part of it that survives a restart.                       *)
(*                                                                         *)
(* Targets stand for descriptors and for their hashes, which are taken to  *)
(* be distinct.  Counts are in units of 1/Scale packets, Scale being a     *)
(* multiple of what ageing divides by in the time modelled.  Bytes are     *)
(* counted side by side with packets and are left out.  A draw of the      *)
(* sketch's generator and the order of a map are free choices.             *)
(***************************************************************************)
EXTENDS Integers, FiniteSets, Sequences

CONSTANTS
  Keys,          \* descriptors
  None,
  Rows,          \* of the sketch
  Index,         \* row -> key -> column
  Scale,         \* one packet: pruneBelow
  Divisor,       \* elapsed time -> what decayAll divides counts by
  MaxInstances,  \* history.max_instances
  SampleSize,    \* admitSampleSize
  History,       \* history.fine, medium and coarse: [res, dur]; 0 when not given
  MinSamples,    \* spreadMinSamples
  MaxBuckets,    \* spreadMaxBuckets
  Base,          \* the time at the start
  Scenarios      \* the rule's ratio_detection, for one field or None, and
                 \* bounds: [ratio, keys, weights, values, lag, time, samples, restarts]

(* compileRing: what it refuses; the medium and the coarse ring may be left *)
(* out.                                                                     *)
RingOK(c) == c.res > 0 /\ c.dur > 0 /\ c.dur % c.res = 0

HistoryOK ==
  /\ MaxInstances > 0
  /\ \A i \in DOMAIN History :
       RingOK(History[i]) \/ (i # 1 /\ History[i].res = 0 /\ History[i].dur = 0)

Rings ==
  [i \in DOMAIN History |->
    [res |-> History[i].res,
     slots |-> IF RingOK(History[i]) THEN History[i].dur \div History[i].res ELSE 0]]

ASSUME TargetsAssumption ==
  /\ HistoryOK
  /\ DOMAIN History = 1 .. 3 /\ \A i \in 1 .. 3 : {History[i].res, History[i].dur} \subseteq Nat
  /\ MaxInstances \in Nat /\ Base \in Nat
  /\ Scale \in Nat \ {0}
  /\ None \notin Keys
  /\ DOMAIN Divisor \subseteq Nat \ {0} /\ \A n \in DOMAIN Divisor : Divisor[n] \in Nat \ {0}
  /\ \A s \in Scenarios : s.keys \subseteq Keys /\ s.weights \subseteq Nat \ {0} /\ s.lag \in Nat

VARIABLES
  now,
  lastAt,     \* time of the newest sample taken from the channel
  sketch,     \* heavyKeeper.buckets: row -> column -> [fp, count]
  lastDecay,  \* Rule.lastDecay, None when zero
  items,      \* instanceStore.items: key -> [slots, spread]
  dump,       \* the instances in the state file
  weight,     \* history: key -> what a counter of its own would hold
  folded,     \* history: key -> [at, packets] of the samples in its rings
  seen,       \* history: key -> regions of the samples its gate was shown
  samples,    \* taken so far
  restarts,   \* so far
  budget      \* the scenario

hist == <<weight, folded, seen>>
vars == <<now, lastAt, sketch, lastDecay, items, dump, hist, samples, restarts, budget>>

Put(f, k, v) == [x \in DOMAIN f \cup {k} |-> IF x = k THEN v ELSE f[x]]

Without(f, k) == [x \in DOMAIN f \ {k} |-> f[x]]

Largest(S) == CHOOSE x \in S : \A y \in S : y <= x

Smaller(a, b) == IF a < b THEN a ELSE b

-----------------------------------------------------------------------------
(* The sketch *)

Columns == {Index[r][k] : r \in Rows, k \in Keys}

EmptyBucket == [fp |-> None, count |-> 0]

(* The weight is added on top of the incumbent's count at a take-over. *)
AddBucketInherit(b, k, w, hit) ==
  IF b.count <= 0 THEN [fp |-> k, count |-> w]
  ELSE IF b.fp = k THEN [b EXCEPT !.count = @ + w]
  ELSE IF ~hit THEN b
  ELSE IF b.count < w THEN [fp |-> k, count |-> b.count + w]
  ELSE IF b.count = w THEN EmptyBucket
  ELSE [b EXCEPT !.count = @ - w]

AddBucket(b, k, w, hit) ==
  IF b.count <= 0 THEN [fp |-> k, count |-> w]
  ELSE IF b.fp = k THEN [b EXCEPT !.count = @ + w]
  ELSE IF ~hit THEN b
  ELSE IF b.count < w THEN [fp |-> k, count |-> w - b.count]
  ELSE IF b.count = w THEN EmptyBucket
  ELSE [b EXCEPT !.count = @ - w]

(* heavyKeeper.add; hits says in which rows decayHits would answer yes. *)
SketchAdd(k, w, hits) ==
  [r \in Rows |-> [c \in Columns |->
    IF c = Index[r][k] THEN AddBucket(sketch[r][c], k, w, r \in hits) ELSE sketch[r][c]]]

(* What row r has for the key, 0 when its bucket counts for another. *)
RowEstimate(sk, r, k) ==
  LET b == sk[r][Index[r][k]] IN IF b.fp = k /\ b.count > 0 THEN b.count ELSE 0

(* estimate is the best of the rows: that of k exceeds that of u. *)
Heavier(sk, k, u) ==
  \E r \in Rows : \A q \in Rows : RowEstimate(sk, r, k) > RowEstimate(sk, q, u)

Aged(count, d) == IF count \div d < Scale THEN 0 ELSE count \div d

DecayBucket(b, d) ==
  IF Aged(b.count, d) = 0 THEN EmptyBucket ELSE [b EXCEPT !.count = Aged(@, d)]

DecayAll(d) == [r \in Rows |-> [c \in Columns |-> DecayBucket(sketch[r][c], d)]]

-----------------------------------------------------------------------------
(* The rings of an instance *)

EmptySlot == [epoch |-> 0, packets |-> 0]

NewSlots == [i \in DOMAIN Rings |-> [n \in 0 .. Rings[i].slots - 1 |-> EmptySlot]]

NewInstance == [slots |-> NewSlots, spread |-> None]

RingAddNoReset(ring, i, at, w) ==
  LET e == at \div Rings[i].res
      n == e % Rings[i].slots
  IN  [ring EXCEPT ![n] = [epoch |-> e, packets |-> @.packets + w]]

RingAdd(ring, i, at, w) ==
  LET e == at \div Rings[i].res
      n == e % Rings[i].slots
  IN  [ring EXCEPT ![n] = [epoch |-> e, packets |-> w + IF @.epoch # e THEN 0 ELSE @.packets]]

InstanceAdd(inst, at, w) ==
  [inst EXCEPT !.slots = [i \in DOMAIN Rings |->
     IF Rings[i].slots = 0 THEN @[i] ELSE RingAdd(@[i], i, at, w)]]

(* chooseRing: the coarsest ring that covers the window of a term; 0 when   *)
(* none does and the rule is refused.                                       *)
ChooseRing(window, offset) ==
  LET fit == {i \in DOMAIN Rings : /\ Rings[i].slots > 0
                                   /\ Rings[i].res <= window
                                   /\ window % Rings[i].res = 0
                                   /\ offset % Rings[i].res = 0
                                   /\ Rings[i].slots * Rings[i].res >= window + offset}
  IN  IF fit = {} THEN 0
      ELSE CHOOSE i \in fit : \A j \in fit : /\ Rings[j].res <= Rings[i].res
                                             /\ Rings[j].res = Rings[i].res => i <= j

(* The packets of the epochs of a window, at evaluation time t. *)
WindowSlots(inst, i, t, window, offset) ==
  LET end == (t - offset) \div Rings[i].res
      ring == inst.slots[i]
  IN  [e \in end - (window \div Rings[i].res) + 1 .. end |->
        IF ring[e % Rings[i].slots].epoch = e THEN ring[e % Rings[i].slots].packets ELSE 0]

-----------------------------------------------------------------------------
(* The diversity gate: compileRatio derives it from the aggregate of the    *)
(* field, which must leave a range to spread over.                          *)

(* portSpread; "exact" is refused. *)
PortSpread(agg) ==
  CASE agg.mode = "all"    -> [lo |-> 0, size |-> agg.max + 1, mod |-> FALSE]
    [] agg.mode = "range"  -> [lo |-> agg.lo, size |-> agg.hi - agg.lo + 1, mod |-> FALSE]
    [] agg.mode = "bucket" -> [lo |-> 0, size |-> agg.step, mod |-> TRUE]

(* ipBuckets, of a family with that many bits. *)
IpSpread(bits, mask) == 2 ^ (bits - mask)

RatioOK(f) ==
  /\ f.minRatio \in 1 .. 100
  /\ IF f.kind = "port" THEN f.agg.mode # "exact" /\ PortSpread(f.agg).size >= 2
     ELSE f.mask \in 0 .. f.bits - 1

ASSUME RatioAssumption == \A s \in Scenarios : s.ratio = None \/ RatioOK(s.ratio)

CompileRatio(f) ==
  IF f.kind = "port"
  THEN LET p == PortSpread(f.agg)
       IN  [kind |-> "port", minRatio |-> f.minRatio, buckets |-> Smaller(p.size, MaxBuckets),
            lo |-> p.lo, size |-> p.size, mod |-> p.mod]
  ELSE [kind |-> "ip", minRatio |-> f.minRatio,
        buckets |-> Smaller(IpSpread(f.bits, f.mask), MaxBuckets),
        bits |-> f.bits, mask |-> f.mask, word |-> f.word]

Gate == IF budget.ratio = None THEN None ELSE CompileRatio(budget.ratio)

PortRegion(g, p) ==
  LET v == IF p < g.lo THEN g.lo ELSE p
      varying == IF g.mod THEN p % g.size
                 ELSE IF v - g.lo >= g.size THEN g.size - 1 ELSE v - g.lo
  IN  IF g.size <= g.buckets THEN varying ELSE (varying * g.buckets) \div g.size

(* The bits below the mask, left-justified in a word (64 bits in the code). *)
IpRegion(g, a) ==
  LET spread == g.bits - g.mask
      varying == a % 2 ^ spread
      lj == IF spread > g.word THEN varying \div 2 ^ (spread - g.word)
            ELSE varying * 2 ^ (g.word - spread)
  IN  (lj * g.buckets) \div 2 ^ g.word

Region(g, v) == IF g.kind = "port" THEN PortRegion(g, v) ELSE IpRegion(g, v)

Window(g) == IF g.buckets < MinSamples THEN MinSamples ELSE g.buckets

NewSpreadEstimator(g) ==
  [ring |-> [n \in 0 .. Window(g) - 1 |-> 0], count |-> [b \in 0 .. g.buckets - 1 |-> 0],
   head |-> 0, filled |-> 0, distinct |-> 0]

SpreadObserveLate(g, e, region) ==
  LET old == e.ring[e.head]
      n1 == IF e.filled = Window(g)
            THEN [e EXCEPT !.count[old] = @ - 1]
            ELSE [e EXCEPT !.filled = @ + 1]
  IN  [n1 EXCEPT !.ring[e.head] = region,
                 !.distinct = IF n1.count[region] = 0 THEN @ + 1 ELSE @,
                 !.count[region] = @ + 1,
                 !.head = (@ + 1) % Window(g)]

SpreadObserve(g, e, region) ==
  LET old == e.ring[e.head]
      n1 == IF e.filled = Window(g)
            THEN [e EXCEPT !.count[old] = @ - 1,
                           !.distinct = IF e.count[old] = 1 THEN @ - 1 ELSE @]
            ELSE [e EXCEPT !.filled = @ + 1]
  IN  [n1 EXCEPT !.ring[e.head] = region,
                 !.distinct = IF n1.count[region] = 0 THEN @ + 1 ELSE @,
                 !.count[region] = @ + 1,
                 !.head = (@ + 1) % Window(g)]

RatioPct(g, e) == (e.distinct * 100) \div g.buckets

-----------------------------------------------------------------------------
(* Rule.Observe and Rule.Tick *)

(* weakestOfSample: the first of the weakest among as many instances as it *)
(* looks at.                                                                *)
Weakest(sk) ==
  {v \in DOMAIN items :
    \E S \in SUBSET DOMAIN items :
      /\ v \in S
      /\ Cardinality(S) = Smaller(SampleSize, Cardinality(DOMAIN items))
      /\ \A u \in S : ~Heavier(sk, v, u)}

(* The pool after a sample of k, by the victim that was looked at. *)
Pools(k, max, victims, beaten) ==
  IF k \in DOMAIN items THEN {items}
  ELSE IF Cardinality(DOMAIN items) < max THEN {Put(items, k, NewInstance)}
  ELSE {Put(Without(items, v), k, NewInstance) : v \in beaten}
       \cup {items : v \in victims \ beaten}

AdmitOnTie(sk, k) ==
  Pools(k, MaxInstances, Weakest(sk), {v \in Weakest(sk) : ~Heavier(sk, v, k)})

AdmitOffByOne(sk, k) ==
  Pools(k, MaxInstances + 1, Weakest(sk), {v \in Weakest(sk) : Heavier(sk, k, v)})

(* Only an instance that the sketch has lost is given up. *)
AdmitSticky(sk, k) ==
  Pools(k, MaxInstances, Weakest(sk),
        {v \in Weakest(sk) : \A r \in Rows : RowEstimate(sk, r, v) = 0})

Admit(sk, k) ==
  Pools(k, MaxInstances, Weakest(sk), {v \in Weakest(sk) : Heavier(sk, k, v)})

(* The instance after a sample: the gate is shown every sample, the rings   *)
(* those that leave it open.                                                *)
Gated(inst, v) ==
  IF Gate = None THEN inst
  ELSE [inst EXCEPT !.spread =
         SpreadObserve(Gate, IF @ = None THEN NewSpreadEstimator(Gate) ELSE @,
                       Region(Gate, v))]

Opens(inst) ==
  Gate = None \/ RatioPct(Gate, inst.spread) >= Gate.minRatio

FoldedWith(f, at, w) == Append(f, [at |-> at, packets |-> w])

LastOf(s, n) == IF Len(s) <= n THEN s ELSE SubSeq(s, Len(s) - n + 1, Len(s))

(* The runner takes a sample from the channel, where it may have waited.    *)
Observe(k, w, v, at, hits) ==
  LET sk == SketchAdd(k, w * Scale, hits)
  IN  /\ samples < budget.samples
      /\ k \in budget.keys /\ w \in budget.weights /\ v \in budget.values
      /\ at \in now - budget.lag .. now /\ at >= lastAt
      /\ lastAt' = at
      /\ sketch' = sk
      /\ weight' = [weight EXCEPT ![k] = @ + w * Scale]
      /\ \E pool \in Admit(sk, k) :
           LET inst == Gated(pool[k], v)
               opens == k \in DOMAIN pool /\ Opens(inst)
           IN  /\ items' = IF k \notin DOMAIN pool THEN pool
                           ELSE [pool EXCEPT ![k] =
                                  IF opens THEN InstanceAdd(inst, at, w) ELSE inst]
               /\ folded' = [x \in Keys |->
                              IF x \notin DOMAIN pool THEN <<>>
                              ELSE IF x = k /\ opens THEN FoldedWith(folded[x], at, w)
                              ELSE folded[x]]
               /\ seen' = [x \in Keys |->
                            IF x \notin DOMAIN pool \/ Gate = None THEN <<>>
                            ELSE IF x = k THEN LastOf(Append(seen[x], Region(Gate, v)),
                                                      Window(Gate))
                            ELSE seen[x]]
      /\ samples' = samples + 1
      /\ UNCHANGED <<now, lastDecay, dump, restarts, budget>>

(* ageSketch.  The tick may have waited in the ticker's channel while newer *)
(* samples were taken.                                                      *)
Tick(t) ==
  /\ t \in now - budget.lag .. now /\ (lastDecay # None => t - lastDecay \in DOMAIN Divisor)
  /\ lastDecay' = t
  /\ IF lastDecay = None THEN UNCHANGED <<sketch, weight>>
     ELSE LET d == Divisor[t - lastDecay]
          IN  /\ sketch' = DecayAll(d)
              /\ weight' = [k \in Keys |-> Aged(weight[k], d)]
  /\ UNCHANGED <<now, lastAt, items, dump, folded, seen, samples, restarts, budget>>

Pass ==
  /\ now < Base + budget.time
  /\ lastDecay # None => now < lastDecay + Cardinality(DOMAIN Divisor)
  /\ now' = now + 1
  /\ UNCHANGED <<lastAt, sketch, lastDecay, items, dump, hist, samples, restarts, budget>>

(* Engine.Export on the way down, or not, and Engine.Import into a new      *)
(* process, whose rule has the same fingerprint or not.  The sketch and the *)
(* estimators of the gate are not in the file.                              *)
Restart(save, same) ==
  LET file == IF save THEN [items |-> items, folded |-> folded] ELSE dump
  IN  /\ restarts < budget.restarts
      /\ dump' = file
      /\ items' = [k \in IF same THEN DOMAIN file.items ELSE {} |->
                     [file.items[k] EXCEPT !.spread = None]]
      /\ folded' = IF same THEN file.folded ELSE [k \in Keys |-> <<>>]
      /\ seen' = [k \in Keys |-> <<>>]
      /\ sketch' = [r \in Rows |-> [c \in Columns |-> EmptyBucket]]
      /\ lastDecay' = None
      /\ weight' = [k \in Keys |-> 0]
      /\ restarts' = restarts + 1
      /\ UNCHANGED <<now, lastAt, samples, budget>>

Init ==
  /\ now = Base /\ lastAt = Base
  /\ sketch = [r \in Rows |-> [c \in Columns |-> EmptyBucket]]
  /\ lastDecay = None
  /\ items = <<>>
  /\ weight = [k \in Keys |-> 0]
  /\ folded = [k \in Keys |-> <<>>] /\ seen = [k \in Keys |-> <<>>]
  /\ dump = [items |-> items, folded |-> folded]
  /\ samples = 0 /\ restarts = 0
  /\ budget \in Scenarios

Next ==
  \/ \E k \in budget.keys, w \in budget.weights, v \in budget.values,
        at \in now - budget.lag .. now, hits \in SUBSET Rows : Observe(k, w, v, at, hits)
  \/ \E t \in now - budget.lag .. now : Tick(t)
  \/ Pass
  \/ \E save, same \in BOOLEAN : Restart(save, same)

Spec == Init /\ [][Next]_vars

-----------------------------------------------------------------------------
(* Properties *)

(* The pool never holds more than max_instances, every instance has the     *)
(* rings the rule configures, and a bucket that counts belongs to a target  *)
(* that is hashed there.                                                    *)
TypeOK ==
  /\ Cardinality(DOMAIN items) <= MaxInstances
  /\ \A k \in DOMAIN items, i \in DOMAIN Rings :
       DOMAIN items[k].slots[i] = 0 .. Rings[i].slots - 1
  /\ \A r \in Rows, c \in Columns : sketch[r][c].count > 0 =>
       sketch[r][c].fp \in Keys /\ Index[r][sketch[r][c].fp] = c

(* However targets collide and whichever draws decay an incumbent, no       *)
(* bucket counts more for its target than a counter of the target's own,    *)
(* aged and pruned alike, would hold (heavyKeeper.add, decayAll).           *)
NeverOverestimates ==
  \A r \in Rows, c \in Columns :
    sketch[r][c].count > 0 => sketch[r][c].count <= weight[sketch[r][c].fp]

(* Some row of the sketch has a bucket that no other target is hashed to.   *)
Private(k) ==
  \E r \in Rows : \A j \in Keys \ {k} : Index[r][j] # Index[r][k]

Evicts(v, c) ==
  /\ restarts' = restarts
  /\ v \in DOMAIN items \ DOMAIN items'
  /\ c \in DOMAIN items' \ DOMAIN items

(* "a genuinely heavy instance is never evicted": the sample of a new       *)
(* target takes the place of an instance only if the new target is the      *)
(* heavier one, going by the traffic since the process started; the         *)
(* instance must have escaped collisions in one row, the new target not.    *)
EvictsLighter ==
  [][\A v, c \in Keys : Evicts(v, c) /\ Private(v) => weight[v] < weight'[c]]_vars

(* "a genuinely heavier new target always displaces a lighter incumbent":   *)
(* a target that outweighs every instance of a full pool is admitted with   *)
(* its next sample, whichever instances weakestOfSample looks at; it must   *)
(* have escaped collisions in one row, the instances not.                   *)
HeavierDisplaces ==
  [][\A c \in Keys :
       weight'[c] > weight[c] /\ Private(c) /\ (\A u \in DOMAIN items : weight'[c] > weight[u])
         => c \in DOMAIN items']_vars

(* What a term of the rule's trigger can ask for. *)
Terms ==
  LET horizon == Largest({Rings[i].res * Rings[i].slots : i \in DOMAIN Rings})
  IN  {w \in (1 .. horizon) \X (0 .. horizon - 1) : ChooseRing(w[1], w[2]) # 0}

PacketsAt(s, res, e) ==
  LET total[n \in 0 .. Len(s)] ==
        IF n = 0 THEN 0
        ELSE total[n - 1] + IF s[n].at \div res = e THEN s[n].packets ELSE 0
  IN  total[Len(s)]

(* Every interval of every window the compiler accepts for a term holds the *)
(* packets folded into the instance in that interval, through the reuse of  *)
(* slots and restarts; when the tick is older than the newest sample, the   *)
(* oldest intervals may be gone, but none holds packets of another.         *)
RingExact ==
  \A k \in DOMAIN items, w \in Terms :
    LET i == ChooseRing(w[1], w[2])
    IN  \A t \in {lastAt - 1, lastAt, now, now + 1} :
          LET got == WindowSlots(items[k], i, t, w[1], w[2])
          IN  \A e \in DOMAIN got :
                \/ got[e] = PacketsAt(folded[k], Rings[i].res, e)
                \/ t < lastAt /\ got[e] = 0

(* The gate's running count of distinct regions is the number of regions    *)
(* among the last samples of the window, and what it counts per region is   *)
(* what occurs there, however often the ring of samples went round.         *)
SpreadExact ==
  \A k \in DOMAIN items : items[k].spread # None =>
    LET e == items[k].spread
        at(b) == {n \in 1 .. Len(seen[k]) : seen[k][n] = b}
    IN  /\ e.filled = Len(seen[k])
        /\ \A b \in DOMAIN e.count : e.count[b] = Cardinality(at(b))
        /\ e.distinct = Cardinality({b \in DOMAIN e.count : at(b) # {}})
=============================================================================
