-------------------------- MODULE MitigationProofs --------------------------
(***************************************************************************)
(* Leases, routes and the timing of events, for any instances, TTL, tick,  *)
(* sustained, resolution and channel sizes.  The argument for coverage:    *)
(* after a tick that found a trigger true for long enough, its last event  *)
(* is younger than EmitInterval and one tick, an event of this process     *)
(* left a lease of which at most its age is used up, and that is less than *)
(* the TTL.                                                                *)
(***************************************************************************)
EXTENDS Mitigation, FiniteSetTheorems, WellFoundedInduction, TLAPS

Ages == (0 .. Oldest) \cup {None}
Operation == [op : {"announce", "withdraw"}, id : Ids]

(* Time since the last tick of a process that is up.                       *)
Elapsed == TickPeriod - tickIn

(* The last event of an instance was sent by this process.                 *)
Own(id) ==
  /\ sinceEvent[id] < Throttled
  /\ restored => heldFor[id] # None /\ sinceEvent[id] <= heldFor[id]

(* The inductive invariants: types, leases and wake-up, ...                *)
TypeInv ==
  /\ up \in BOOLEAN /\ lossless \in BOOLEAN /\ restored \in BOOLEAN
  /\ tickIn \in 0 .. TickPeriod
  /\ trueFor \in [Ids -> Ages] /\ heldFor \in [Ids -> Ages]
  /\ sinceEvent \in [Ids -> 0 .. Throttled]
  /\ left \in [Ids -> Nat \cup {None}] /\ timer \in Nat
  /\ events \in Seq(Ids) /\ out \in Seq(Operation) /\ updates \in Seq(Operation)
  /\ routes \subseteq Ids

(* ... what the manager will hold: the last update under way for an id     *)
(* decides, ...                                                            *)
Decides(p, i) == \A j \in DOMAIN p : j > i => p[j].id # p[i].id

Follows(p, id) ==
  /\ \A i \in DOMAIN p : p[i].id = id /\ Decides(p, i) =>
       (p[i].op = "announce" <=> id \in Leased)
  /\ (\A i \in DOMAIN p : p[i].id # id) => (id \in routes <=> id \in Leased)

RouteInv == \A id \in Ids : Follows(updates \o out, id)

(* ... what is in the BGP table, ...                                       *)
RibInv ==
  /\ \A i \in DOMAIN out : out[i].op = "announce" => out[i].id \in Leased
  /\ \A n \in rib :
       \/ \E id \in Leased : n = nlri[id]
       \/ \E i \in DOMAIN out : out[i].op = "withdraw" /\ n = nlri[out[i].id]

(* ... how ages relate, ...                                                *)
AgeInv ==
  /\ ~up => heldFor = Never
  /\ ~restored => heldFor = trueFor
  /\ \A id \in Ids : heldFor[id] # None =>
       trueFor[id] # None /\ heldFor[id] <= trueFor[id]
  /\ up => \A id \in Ids : sinceEvent[id] >= Elapsed
  /\ \A id \in Ids : Held(id, Sustained) => sinceEvent[id] < EmitInterval + Elapsed

(* ... and what is left of a lease.                                        *)
Tuned == Refresh /\ TTL > 2 * TickPeriod /\ TTL >= 2 * FineResolution

Leasing(id) ==
  \/ id \in Range(events)
  \/ left[id] # None /\ left[id] >= TTL - sinceEvent[id]

LeaseInv == lossless /\ Tuned => \A id \in Ids : Own(id) => Leasing(id)

(* What is left of a lease and the time since its trigger was true are a   *)
(* TTL at most, as an event reaches the controller before time passes.     *)
QuietInv ==
  /\ quiet \in [Ids -> 0 .. TTL]
  /\ ~up => left = Never /\ events = <<>>
  /\ lossless =>
       /\ \A id \in Leased : left[id] + quiet[id] <= TTL
       /\ \A id \in Range(events) : quiet[id] = 0
-----------------------------------------------------------------------------
(* The least element of a set of naturals, by which what an induction      *)
(* would show is shown.                                                    *)
LEMMA LeastNatural ==
  ASSUME NEW T \in SUBSET Nat, T # {}
  PROVE  \E n \in T : \A m \in T : n <= m
<1>1. PICK n \in T : \A m \in T : <<m, n>> \notin {ss \in Nat \X Nat : ss[1] < ss[2]}
  BY NatLessThanWellFounded, WFMin, Zenon DEF OpToRel
<1>2. \A m \in T : ~(m < n)
  BY <1>1, Zenon
<1> QED
  BY <1>2

(* The minimum of naturals is one of them. *)
LEMMA MinOfNaturals ==
  ASSUME NEW T \in SUBSET Nat, T # {}
  PROVE  Min(T) \in T /\ \A m \in T : Min(T) <= m
BY LeastNatural, Zenon DEF Min

(* The thresholds, as compileRule computes them.                           *)
LEMMA Thresholds ==
  /\ EmitInterval \in Nat \ {0}
  /\ TTL >= 2 * FineResolution => 2 * EmitInterval <= TTL
  /\ Throttled \in Nat /\ Throttled = EmitInterval + TickPeriod
  /\ Oldest \in Nat /\ Oldest >= Sustained + TickPeriod /\ Oldest >= Throttled
  /\ TickPeriod \in Nat \ {0} /\ TTL \in Nat \ {0} /\ Sustained \in Nat
  /\ LongWait \in Nat
  /\ None \notin Int
<1>1. TickPeriod \in Nat \ {0} /\ TTL \in Nat \ {0} /\ FineResolution \in Nat \ {0}
  BY MitigationAssumption, Zenon
<1>2. TTL \div 2 \in Nat /\ 2 * (TTL \div 2) <= TTL
  BY <1>1
<1>3. /\ EmitInterval \in Nat \ {0}
      /\ TTL >= 2 * FineResolution => 2 * EmitInterval <= TTL
  BY <1>1, <1>2 DEF EmitInterval
<1>4. Sustained \in Nat /\ None \notin Int /\ LongWait \in Nat
  BY MitigationAssumption, Zenon
<1> DEFINE M == Max({Sustained, EmitInterval})
<1>5. M \in Nat /\ M >= Sustained /\ M >= EmitInterval
  <2>1. \E x \in {Sustained, EmitInterval} : \A y \in {Sustained, EmitInterval} : x >= y
    BY <1>3, <1>4
  <2>2. M \in {Sustained, EmitInterval} /\ \A y \in {Sustained, EmitInterval} : M >= y
    BY <2>1, Zenon DEF Max
  <2> QED
    BY <2>2, <1>3, <1>4, Zenon
<1>6. Oldest = M + TickPeriod
  BY Zenon DEF Oldest
<1> QED
  BY <1>1, <1>3, <1>4, <1>5, <1>6 DEF Throttled

(* A permutation of a finite set (the order of a Go map) has its elements, *)
(* each once.                                                              *)
LEMMA Permutation ==
  ASSUME NEW S \in SUBSET Ids, NEW f \in Orders(S)
  PROVE  /\ f \in Seq(S) /\ f \in Seq(Ids)
         /\ Range(f) = S
         /\ \A i, j \in DOMAIN f : i # j => f[i] # f[j]
<1>1. IsFiniteSet(S)
  BY MitigationAssumption, FS_Subset, Zenon
<1> DEFINE n == Cardinality(S)
<1>2. n \in Nat
  BY <1>1, FS_CardinalityType, Zenon
<1>3. f \in [1 .. n -> S] /\ \A i, j \in 1 .. n : i # j => f[i] # f[j]
  BY Zenon DEF Orders, Bijection, Injection, IsInjective
<1>4. \A x \in S : \E i \in 1 .. n : f[i] = x
  BY Zenon DEF Orders, Bijection, Surjection
<1>5. f \in Seq(S) /\ DOMAIN f = 1 .. n
  BY <1>2, <1>3
<1>6. f \in Seq(Ids)
  BY <1>5
<1>7. Range(f) = S
  BY <1>3, <1>4, <1>5 DEF Range
<1> QED
  BY <1>3, <1>5, <1>6, <1>7, Zenon

-----------------------------------------------------------------------------
(* Types.                                                                  *)

(* nextWake is no later than the expiry of any lease. *)
LEMMA NextWakeFacts ==
  ASSUME NEW l \in [Ids -> Nat \cup {None}]
  PROVE  /\ NextWake(l) \in Nat
         /\ \A id \in Ids : l[id] # None => NextWake(l) <= l[id]
<1> DEFINE T == {LongWait} \cup {l[id] : id \in {i \in Ids : l[i] # None}}
<1>1. T \in SUBSET Nat /\ T # {}
  BY Thresholds, Zenon
<1>2. Min(T) \in T /\ \A m \in T : Min(T) <= m
  BY <1>1, MinOfNaturals, Zenon
<1>3. NextWake(l) = Min(T)
  BY Zenon DEF NextWake
<1> HIDE DEF T
<1>4. \A id \in Ids : l[id] # None => l[id] \in T
  BY Zenon DEF T
<1> QED
  BY <1>1, <1>2, <1>3, <1>4, Zenon

(* A sequence of updates of one kind, from a permutation of ids.           *)
LEMMA Withdrawals ==
  ASSUME NEW S \in SUBSET Ids, NEW f \in Orders(S)
  PROVE  [i \in DOMAIN f |-> Update("withdraw", f[i])] \in Seq(Operation)
<1>1. PICK n \in Nat : f \in [1 .. n -> Ids] /\ DOMAIN f = 1 .. n
  BY Permutation
<1> QED
  BY <1>1 DEF Update, Operation

(* What the event channel holds after a tick. *)
LEMMA DeliveredType ==
  ASSUME NEW order \in Seq(Ids), events \in Seq(Ids)
  PROVE  Delivered(order) \in Seq(Ids)
<1> DEFINE all == events \o order
           n == Min({EventQueue, Len(all)})
<1>1. all \in Seq(Ids) /\ Len(all) \in Nat
  OBVIOUS
<1>2. n \in Nat /\ n <= Len(all)
  <2> HIDE DEF all
  <2> DEFINE T == {EventQueue, Len(all)}
  <2>1. T \in SUBSET Nat /\ T # {} /\ Len(all) \in T
    BY <1>1, MitigationAssumption, Zenon
  <2> HIDE DEF T
  <2>2. Min(T) \in T /\ Min(T) <= Len(all)
    BY <2>1, MinOfNaturals, Zenon
  <2> QED
    BY <2>1, <2>2, Zenon DEF T
<1> HIDE DEF n, all
<1>3. SubSeq(all, 1, n) \in Seq(Ids)
  BY <1>1, <1>2
<1> QED
  BY <1>3, Zenon DEF Delivered, n, all

(* The types at the start, ... *)
LEMMA TypeInit == Init => TypeInv
<1> SUFFICES ASSUME Init PROVE TypeInv
  BY Zenon
<1>1. Never \in [Ids -> Ages] /\ Never \in [Ids -> Nat \cup {None}]
  BY Zenon DEF Never, Ages
<1>2. NoEvent \in [Ids -> 0 .. Throttled]
  BY Thresholds DEF NoEvent
<1>3. <<>> \in Seq(Ids) /\ <<>> \in Seq(Operation)
  OBVIOUS
<1>4. tickIn \in 0 .. TickPeriod /\ timer \in Nat
  BY Thresholds DEF Init
<1> QED
  BY <1>1, <1>2, <1>3, <1>4, Zenon DEF Init, TypeInv

(* ... after every step, a stop and a start included, ... *)
LEMMA TypeStep == TypeInv /\ [Next]_vars => TypeInv'
<1> SUFFICES ASSUME TypeInv, [Next]_vars PROVE TypeInv'
  BY Zenon
<1> USE Thresholds
<1>1. ASSUME NEW fired \in SUBSET Ids, Tick(fired) PROVE TypeInv'
  <2> DEFINE since == [id \in Ids |-> Since(trueFor, id, fired)]
             emit == Emitting(since, fired)
  <2>1. emit \subseteq Ids
    BY Zenon DEF Emitting
  <2>2. PICK order \in Orders(emit) :
          /\ events' = Delivered(order)
          /\ lossless' = (lossless /\ events' = events \o order)
    BY <1>1, Zenon DEF Tick
  <2>3. events' \in Seq(Ids)
    BY <2>1, <2>2, Permutation, DeliveredType, Zenon DEF TypeInv
  <2>4. lossless' \in BOOLEAN
    BY <2>2, Zenon
  <2>5. trueFor' \in [Ids -> Ages] /\ heldFor' \in [Ids -> Ages]
    <3>1. 0 \in Ages /\ None \in Ages
      BY Thresholds DEF Ages
    <3>2. \A age \in [Ids -> Ages], id \in Ids : Since(age, id, fired) \in Ages
      BY <3>1, Zenon DEF Since
    <3>3. trueFor' = since /\ heldFor' = [id \in Ids |-> Since(heldFor, id, fired)]
      BY <1>1, Zenon DEF Tick
    <3>4. trueFor \in [Ids -> Ages] /\ heldFor \in [Ids -> Ages]
      BY Zenon DEF TypeInv
    <3> QED
      BY <3>2, <3>3, <3>4, Zenon
  <2>6. sinceEvent' \in [Ids -> 0 .. Throttled]
    BY <1>1 DEF Tick, TypeInv
  <2>7. tickIn' \in 0 .. TickPeriod /\ UNCHANGED <<up, ctl, sinks, restored>>
    BY <1>1 DEF Tick
  <2> QED
    BY <2>3, <2>4, <2>5, <2>6, <2>7, Zenon DEF TypeInv, ctl, sinks
<1>2. ASSUME NEW id \in Ids, Evict(id) PROVE TypeInv'
  <2>1. trueFor' \in [Ids -> Ages] /\ heldFor' \in [Ids -> Ages]
    <3>1. None \in Ages /\ trueFor \in [Ids -> Ages] /\ heldFor \in [Ids -> Ages]
      BY Zenon DEF TypeInv, Ages
    <3>2. trueFor' = [trueFor EXCEPT ![id] = None] /\ heldFor' = [heldFor EXCEPT ![id] = None]
      BY <1>2, Zenon DEF Evict
    <3> QED
      BY <3>1, <3>2, Zenon
  <2>2. sinceEvent' \in [Ids -> 0 .. Throttled]
    <3>1. Throttled \in 0 .. Throttled
      BY Thresholds
    <3>2. sinceEvent \in [Ids -> 0 .. Throttled] /\ sinceEvent' = [sinceEvent EXCEPT ![id] = Throttled]
      BY <1>2, Zenon DEF Evict, TypeInv
    <3> QED
      BY <3>1, <3>2, Zenon
  <2> QED
    BY <1>2, <2>1, <2>2, Zenon DEF Evict, TypeInv, ctl, sinks
<1>3. CASE ApplyEvent
  <2> DEFINE id == Head(events)
  <2>1. id \in Ids /\ events' \in Seq(Ids)
    BY <1>3 DEF ApplyEvent, TypeInv
  <2>2. left' \in [Ids -> Nat \cup {None}] /\ out' \in Seq(Operation)
    <3>1. left' = IF left[id] = None \/ Refresh THEN [left EXCEPT ![id] = TTL] ELSE left
      BY <1>3, Zenon DEF ApplyEvent
    <3>2. left' \in [Ids -> Nat \cup {None}]
      BY <3>1, <2>1, Zenon DEF TypeInv
    <3>3. Update("announce", id) \in Operation
      BY <2>1, Zenon DEF Update, Operation
    <3> QED
      BY <1>3, <3>2, <3>3 DEF ApplyEvent
  <2>3. timer' \in Nat
    BY <1>3, <2>2, NextWakeFacts, Zenon DEF ApplyEvent
  <2> QED
    BY <1>3, <2>1, <2>2, <2>3, Zenon DEF ApplyEvent, TypeInv, inst, sinks
<1>4. CASE Expire
  <2> DEFINE over == {id \in Ids : left[id] = 0}
  <2>1. left' \in [Ids -> Nat \cup {None}]
    BY <1>4, Zenon DEF Expire, TypeInv
  <2>2. out' \in Seq(Operation)
    <3>1. PICK order \in Orders(over) :
            out' = [i \in DOMAIN order |-> Update("withdraw", order[i])]
      BY <1>4, Zenon DEF Expire
    <3>2. over \in SUBSET Ids
      BY Zenon
    <3> QED
      BY <3>1, <3>2, Withdrawals, Zenon
  <2>3. timer' \in Nat
    BY <1>4, <2>1, NextWakeFacts, Zenon DEF Expire
  <2> QED
    BY <1>4, <2>1, <2>2, <2>3, Zenon DEF Expire, TypeInv, inst, sinks
<1>5. CASE Send
  <2>1. Head(out) \in Operation /\ out' \in Seq(Operation) /\ updates' \in Seq(Operation)
    <3>1. out \in Seq(Operation) /\ updates \in Seq(Operation) /\ out # <<>>
      BY <1>5, Zenon DEF Send, TypeInv
    <3>2. updates' = Append(updates, Head(out)) /\ out' = Tail(out)
      BY <1>5, Zenon DEF Send
    <3> QED
      BY <3>1, <3>2
  <2>2. UNCHANGED <<up, tickIn, trueFor, sinceEvent, heldFor, events, left, timer, routes,
                    lossless, restored>>
    BY <1>5, Zenon DEF Send, inst
  <2> QED
    BY <2>1, <2>2, Zenon DEF TypeInv
<1>6. CASE Take
  <2>1. Head(updates) \in Operation /\ updates' \in Seq(Operation)
    <3>1. updates \in Seq(Operation) /\ updates # <<>> /\ updates' = Tail(updates)
      BY <1>6, Zenon DEF Take, TypeInv
    <3> QED
      BY <3>1
  <2>2. routes' \subseteq Ids
    <3>1. Head(updates).id \in Ids
      BY <2>1, Zenon DEF Operation
    <3>2. routes \subseteq Ids
      BY Zenon DEF TypeInv
    <3>3. routes' = routes \cup {Head(updates).id} \/ routes' = routes \ {Head(updates).id}
      BY <1>6, Zenon DEF Take
    <3> QED
      BY <3>1, <3>2, <3>3, Zenon
  <2> QED
    BY <1>6, <2>1, <2>2, Zenon DEF Take, TypeInv, inst, ctl
<1>7. ASSUME NEW saved \in BOOLEAN, Stop(saved) PROVE TypeInv'
  <2>1. Never \in [Ids -> Ages] /\ Never \in [Ids -> Nat \cup {None}]
    BY Zenon DEF Never, Ages
  <2>2. NoEvent \in [Ids -> 0 .. Throttled]
    BY DEF NoEvent
  <2>3. <<>> \in Seq(Ids) /\ <<>> \in Seq(Operation)
    OBVIOUS
  <2>4. tickIn' \in 0 .. TickPeriod /\ timer' \in Nat
    BY <1>7 DEF Stop
  <2>5. trueFor' \in [Ids -> Ages] /\ sinceEvent' \in [Ids -> 0 .. Throttled]
    BY <1>7, <2>1, <2>2, Zenon DEF Stop, TypeInv
  <2> QED
    BY <1>7, <2>1, <2>3, <2>4, <2>5, Zenon DEF Stop, TypeInv
<1>8. CASE Start
  BY <1>8 DEF Start, TypeInv, inst, ctl, sinks
<1>9. CASE Time
  <2>1. left' \in [Ids -> Nat \cup {None}] /\ timer' \in Nat
    <3>1. \A t \in Nat \cup {None} : Less(t) \in Nat \cup {None} /\ (t \in Nat => Less(t) \in Nat)
      BY Thresholds DEF Less
    <3>2. left \in [Ids -> Nat \cup {None}] /\ timer \in Nat
      BY Zenon DEF TypeInv
    <3>3. left' = [id \in Ids |-> Less(left[id])] /\ (timer' = timer \/ timer' = Less(timer))
      BY <1>9, Zenon DEF Time
    <3> QED
      BY <3>1, <3>2, <3>3, Zenon
  <2>2. trueFor' \in [Ids -> Ages] /\ heldFor' \in [Ids -> Ages]
    <3>1. \A a \in Ages : Older(a, Oldest) \in Ages
      BY Thresholds DEF Older, Ages
    <3>2. trueFor \in [Ids -> Ages] /\ heldFor \in [Ids -> Ages]
      BY Zenon DEF TypeInv
    <3>3. /\ trueFor' = [id \in Ids |-> Older(trueFor[id], Oldest)]
          /\ heldFor' = [id \in Ids |-> Older(heldFor[id], Oldest)]
      BY <1>9, Zenon DEF Time
    <3> QED
      BY <3>1, <3>2, <3>3, Zenon
  <2>3. sinceEvent' \in [Ids -> 0 .. Throttled]
    <3>1. ASSUME NEW id \in Ids PROVE Older(sinceEvent[id], Throttled) \in 0 .. Throttled
      <4>1. sinceEvent[id] \in 0 .. Throttled
        BY Zenon DEF TypeInv
      <4> QED
        BY <4>1 DEF Older
    <3> QED
      BY <1>9, <3>1, Zenon DEF Time
  <2>4. tickIn' \in 0 .. TickPeriod /\ lossless' \in BOOLEAN
    BY <1>9 DEF Time, TypeInv, Less
  <2> QED
    BY <1>9, <2>1, <2>2, <2>3, <2>4, Zenon DEF Time, TypeInv, sinks
<1>10. CASE UNCHANGED vars
  BY <1>10, Zenon DEF vars, TypeInv, inst, ctl, sinks
<1> QED
  BY <1>1, <1>2, <1>3, <1>4, <1>5, <1>6, <1>7, <1>8, <1>9, <1>10, Zenon
     DEF Next, SomeTick, Controller

(* ... and always: detector, controller and originator keep theirs. *)
THEOREM TypeCorrect == Spec => []TypeInv
BY TypeInit, TypeStep, PTL DEF Spec

-----------------------------------------------------------------------------
(* The wake-up of the controller.                                          *)

(* No step leaves the timer later than an expiry (nextWake). *)
LEMMA WakeStep == TypeInv /\ WakesInTime /\ [Next]_vars => WakesInTime'
<1> SUFFICES ASSUME TypeInv, WakesInTime, [Next]_vars PROVE WakesInTime'
  BY Zenon
<1> USE Thresholds
<1>1. CASE UNCHANGED <<left, timer>>
  BY <1>1, Zenon DEF WakesInTime, Leased
<1>2. CASE ApplyEvent \/ Expire
  <2>1. left' \in [Ids -> Nat \cup {None}]
    BY TypeStep, Zenon DEF TypeInv
  <2>2. timer' = NextWake(left')
    BY <1>2, Zenon DEF ApplyEvent, Expire
  <2> QED
    BY <2>1, <2>2, NextWakeFacts, Zenon DEF WakesInTime, Leased
<1>3. CASE Time
  <2> SUFFICES ASSUME NEW id \in Ids, left'[id] # None PROVE timer' <= left'[id]
    BY Zenon DEF WakesInTime, Leased
  <2>1. left'[id] = Less(left[id]) /\ left[id] \in Nat \cup {None} /\ timer \in Nat
    BY <1>3, Zenon DEF Time, TypeInv
  <2>2. left[id] \in Nat /\ id \in Leased
    BY <2>1, Zenon DEF Less, Leased
  <2>3. timer <= left[id] /\ timer' = Less(timer)
    BY <1>3, <2>2, Zenon DEF Time, WakesInTime
  <2> QED
    BY <2>1, <2>2, <2>3 DEF Less
<1>4. ASSUME NEW saved \in BOOLEAN, Stop(saved) PROVE WakesInTime'
  BY <1>4, Zenon DEF Stop, WakesInTime, Leased, Never
<1>5. ASSUME NEW fired \in SUBSET Ids, Tick(fired) PROVE UNCHANGED <<left, timer>>
  BY <1>5, Zenon DEF Tick, ctl
<1>6. ASSUME NEW id \in Ids, Evict(id) PROVE UNCHANGED <<left, timer>>
  BY <1>6, Zenon DEF Evict, ctl
<1>7. Send \/ Take \/ Start \/ UNCHANGED vars => UNCHANGED <<left, timer>>
  BY Zenon DEF Send, Take, Start, vars, ctl
<1> QED
  BY <1>1, <1>2, <1>3, <1>4, <1>5, <1>6, <1>7, Zenon DEF Next, SomeTick, Controller

(* Controller.Run never sleeps past the expiry of a lease, for any TTL,    *)
(* order of events and delay of the handler.                               *)
THEOREM ControllerWakes == Spec => []WakesInTime
<1>1. Init => WakesInTime
  BY Zenon DEF Init, WakesInTime, Leased, Never
<1> QED
  BY <1>1, WakeStep, TypeCorrect, PTL DEF Spec

-----------------------------------------------------------------------------
(* The BGP table.                                                          *)

(* Time alone ends no lease. *)
LEMMA LeasedKept ==
  ASSUME TypeInv, Time
  PROVE  Leased' = Leased
<1>1. \A id \in Ids : left[id] \in Nat \cup {None} /\ left'[id] = Less(left[id])
  BY Zenon DEF TypeInv, Time
<1>2. \A id \in Ids : left'[id] = None <=> left[id] = None
  BY <1>1, Thresholds DEF Less
<1> QED
  BY <1>2, Zenon DEF Leased

(* Every step of the controller and of what it sends to keeps RibInv. *)
LEMMA RibStep == TypeInv /\ RibInv /\ [Next]_vars => RibInv'
<1> SUFFICES ASSUME TypeInv, RibInv, [Next]_vars PROVE RibInv'
  BY Zenon
<1> USE Thresholds
<1>1. CASE Leased' = Leased /\ UNCHANGED <<out, rib>>
  BY <1>1 DEF RibInv
<1>2. CASE ApplyEvent
  <2> DEFINE id == Head(events)
  <2>1. id \in Ids /\ out = <<>>
    BY <1>2 DEF ApplyEvent, TypeInv
  <2>2. left' = IF left[id] = None \/ Refresh THEN [left EXCEPT ![id] = TTL] ELSE left
    BY <1>2, Zenon DEF ApplyEvent
  <2>3. Leased' = Leased \cup {id}
    BY <2>1, <2>2 DEF Leased, TypeInv
  <2>4. out' = IF left[id] = None THEN <<Update("announce", id)>> ELSE <<>>
    BY <1>2, Zenon DEF ApplyEvent
  <2>5. \A i \in DOMAIN out' : out'[i].op = "announce" => out'[i].id \in Leased'
    BY <2>3, <2>4 DEF Update
  <2>6. \A n \in rib : \E j \in Leased : n = nlri[j]
    BY <2>1 DEF RibInv
  <2>7. rib' = rib
    BY <1>2, Zenon DEF ApplyEvent, sinks
  <2> QED
    BY <2>3, <2>5, <2>6, <2>7, Zenon DEF RibInv
<1>3. CASE Expire
  <2> DEFINE over == {id \in Ids : left[id] = 0}
  <2>1. PICK order \in Orders(over) :
          out' = [i \in DOMAIN order |-> Update("withdraw", order[i])]
    BY <1>3, Zenon DEF Expire
  <2>2. over \in SUBSET Ids /\ Range(order) = over
    BY Permutation, Zenon
  <2>3. \A i \in DOMAIN out' : out'[i].op = "withdraw"
    BY <2>1, Zenon DEF Update
  <2>4. Leased' = Leased \ over /\ rib' = rib /\ out = <<>>
    BY <1>3, Zenon DEF Expire, Leased, TypeInv, sinks
  <2>5. \A id \in over : \E i \in DOMAIN out' : out'[i].op = "withdraw" /\ out'[i].id = id
    BY <2>1, <2>2, Zenon DEF Range, Update
  <2>6. \A n \in rib : \E j \in Leased : n = nlri[j]
    BY <2>4 DEF RibInv
  <2> QED
    BY <2>3, <2>4, <2>5, <2>6 DEF RibInv
<1>4. CASE Send
  <2> DEFINE u == Head(out)
  <2>1. /\ out \in Seq(Operation) /\ out # <<>> /\ out' = Tail(out) /\ Leased' = Leased
        /\ rib' = IF u.op = "announce" THEN rib \cup {nlri[u.id]} ELSE rib \ {nlri[u.id]}
    BY <1>4, Zenon DEF Send, TypeInv, Leased
  <2>2. /\ u \in Operation /\ u = out[1]
        /\ \A i \in DOMAIN out' : i + 1 \in DOMAIN out /\ out'[i] = out[i + 1]
        /\ \A i \in DOMAIN out \ {1} : i - 1 \in DOMAIN out' /\ out'[i - 1] = out[i]
        /\ 1 \in DOMAIN out
    BY <2>1
  <2>3. \A i \in DOMAIN out' : out'[i].op = "announce" => out'[i].id \in Leased'
    BY <2>1, <2>2 DEF RibInv
  <2>4. ASSUME NEW n \in rib'
        PROVE  \/ \E id \in Leased' : n = nlri[id]
               \/ \E i \in DOMAIN out' : out'[i].op = "withdraw" /\ n = nlri[out'[i].id]
    <3>1. CASE u.op = "announce" /\ n = nlri[u.id]
      BY <3>1, <2>1, <2>2 DEF RibInv
    <3>2. CASE n \in rib /\ (u.op = "withdraw" => n # nlri[u.id])
      <4>1. CASE \E id \in Leased : n = nlri[id]
        BY <4>1, <2>1, Zenon
      <4>2. ASSUME NEW i \in DOMAIN out, out[i].op = "withdraw", n = nlri[out[i].id]
            PROVE  \E j \in DOMAIN out' : out'[j].op = "withdraw" /\ n = nlri[out'[j].id]
        <5>1. i # 1
          BY <4>2, <3>2, <2>2, Zenon
        <5> QED
          BY <5>1, <4>2, <2>2
      <4> QED
        BY <3>2, <4>1, <4>2, Zenon DEF RibInv
    <3> QED
      BY <2>1, <2>2, <2>4, <3>1, <3>2, Zenon DEF Operation
  <2> QED
    BY <2>3, <2>4, Zenon DEF RibInv
<1>5. CASE Time
  BY <1>1, <1>5, LeasedKept, Zenon DEF Time, sinks
<1>6. ASSUME NEW saved \in BOOLEAN, Stop(saved) PROVE RibInv'
  BY <1>6 DEF Stop, RibInv
<1>7. ASSUME NEW fired \in SUBSET Ids, Tick(fired) PROVE Leased' = Leased /\ UNCHANGED <<out, rib>>
  BY <1>7, Zenon DEF Tick, ctl, sinks, Leased
<1>8. ASSUME NEW id \in Ids, Evict(id) PROVE Leased' = Leased /\ UNCHANGED <<out, rib>>
  BY <1>8, Zenon DEF Evict, ctl, sinks, Leased
<1>9. Take \/ Start \/ UNCHANGED vars => Leased' = Leased /\ UNCHANGED <<out, rib>>
  BY Zenon DEF Take, Start, vars, ctl, sinks, Leased
<1> QED
  BY <1>1, <1>2, <1>3, <1>4, <1>5, <1>6, <1>7, <1>8, <1>9, Zenon DEF Next, SomeTick, Controller

(* Nothing stays advertised upstream for which no lease is left, for any   *)
(* way the rules of instances share NLRIs.                                 *)
THEOREM UpstreamFollows == Spec => []NothingStaleUpstream
<1>1. Init => RibInv
  BY DEF Init, RibInv
<1>2. RibInv => NothingStaleUpstream
  BY DEF RibInv, NothingStaleUpstream
<1> QED
  BY <1>1, <1>2, RibStep, TypeCorrect, PTL DEF Spec

-----------------------------------------------------------------------------
(* The manager's routes.                                                   *)

(* Every announce and withdraw under way keeps RouteInv. *)
LEMMA RouteStep == TypeInv /\ RouteInv /\ [Next]_vars => RouteInv'
<1> SUFFICES ASSUME TypeInv, RouteInv, [Next]_vars PROVE RouteInv'
  BY Zenon
<1> USE Thresholds
<1> DEFINE p == updates \o out
<1>1. CASE Leased' = Leased /\ routes' = routes /\ updates' \o out' = p
  BY <1>1, Zenon DEF RouteInv, Follows, Decides
<1>2. CASE ApplyEvent
  <2> DEFINE id0 == Head(events)
  <2>1. id0 \in Ids /\ out = <<>> /\ updates \in Seq(Operation) /\ p = updates
    BY <1>2 DEF ApplyEvent, TypeInv
  <2>2. left' = IF left[id0] = None \/ Refresh THEN [left EXCEPT ![id0] = TTL] ELSE left
    BY <1>2, Zenon DEF ApplyEvent
  <2>3. Leased' = Leased \cup {id0}
    BY <2>1, <2>2 DEF Leased, TypeInv
  <2>4. /\ out' = IF left[id0] = None THEN <<Update("announce", id0)>> ELSE <<>>
        /\ updates' = updates /\ routes' = routes
    BY <1>2, Zenon DEF ApplyEvent, sinks
  <2>5. CASE left[id0] # None
    <3>1. Leased' = Leased
      BY <2>1, <2>3, <2>5, Zenon DEF Leased
    <3> QED
      BY <1>1, <2>1, <2>4, <2>5, <3>1, Zenon
  <2>6. CASE left[id0] = None
    <3> DEFINE q == updates' \o out'
               n == Len(updates) + 1
    <3>1. /\ DOMAIN q = 1 .. n /\ DOMAIN updates = 1 .. n - 1 /\ n \in Nat \ {0}
          /\ \A i \in 1 .. n - 1 : q[i] = updates[i]
          /\ q[n] = Update("announce", id0)
      BY <2>1, <2>4, <2>6 DEF Update
    <3> HIDE DEF q, n
    <3> SUFFICES ASSUME NEW id \in Ids
                 PROVE  /\ \A i \in DOMAIN q : q[i].id = id /\ Decides(q, i) =>
                             (q[i].op = "announce" <=> id \in Leased')
                        /\ (\A i \in DOMAIN q : q[i].id # id) =>
                             (id \in routes' <=> id \in Leased')
      BY Zenon DEF RouteInv, Follows, Decides, q
    <3>2. CASE id = id0
      <4>1. \A i \in DOMAIN q : q[i].id = id /\ Decides(q, i) => i = n
        BY <3>1, <3>2 DEF Decides, Update
      <4>2. n \in DOMAIN q /\ q[n].id = id0 /\ q[n].op = "announce"
        BY <3>1 DEF Update
      <4> QED
        BY <4>1, <4>2, <3>2, <2>3, Zenon
    <3>3. CASE id # id0
      <4>1. \A i \in DOMAIN q : q[i].id = id =>
              i \in DOMAIN updates /\ q[i] = updates[i] /\ (Decides(q, i) => Decides(updates, i))
        BY <3>1, <3>3 DEF Decides, Update
      <4>2. id \in Leased' <=> id \in Leased
        BY <2>3, <3>3, Zenon
      <4>3. Follows(updates, id)
        BY <2>1, Zenon DEF RouteInv
      <4>4. (\A i \in DOMAIN q : q[i].id # id) => \A i \in DOMAIN updates : updates[i].id # id
        BY <3>1
      <4> QED
        BY <4>1, <4>2, <4>3, <4>4, <2>4, Zenon DEF Follows
    <3> QED
      BY <3>2, <3>3, Zenon
  <2> QED
    BY <2>5, <2>6, Zenon
<1>3. CASE Expire
  <2> DEFINE over == {id \in Ids : left[id] = 0}
             q == updates' \o out'
             m == Len(updates)
  <2>1. PICK order \in Orders(over) :
          out' = [i \in DOMAIN order |-> Update("withdraw", order[i])]
    BY <1>3, Zenon DEF Expire
  <2>2. /\ over \in SUBSET Ids /\ Range(order) = over /\ order \in Seq(Ids)
        /\ \A i, j \in DOMAIN order : i # j => order[i] # order[j]
    BY Permutation, Zenon
  <2>3. /\ Leased' = Leased \ over /\ routes' = routes /\ out = <<>>
        /\ updates' = updates /\ updates \in Seq(Operation) /\ p = updates /\ m \in Nat
    BY <1>3 DEF Expire, Leased, TypeInv, sinks
  <2>4. PICK k \in Nat : DOMAIN order = 1 .. k
    BY <2>2
  <2>5. out' \in Seq(Operation) /\ Len(out') = k /\ DOMAIN out' = 1 .. k
    BY <2>1, <2>2, <2>4, Withdrawals
  <2>6. /\ DOMAIN q = 1 .. m + k /\ DOMAIN updates = 1 .. m
        /\ \A i \in 1 .. m : q[i] = updates[i]
        /\ \A i \in m + 1 .. m + k : i - m \in DOMAIN order /\ q[i] = Update("withdraw", order[i - m])
    BY <2>1, <2>3, <2>4, <2>5
  <2> HIDE DEF q, m
  <2>9. \A i \in m + 1 .. m + k :
          i - m \in DOMAIN order /\ q[i].op = "withdraw" /\ q[i].id = order[i - m]
    <3>1. \A x : Update("withdraw", x).op = "withdraw" /\ Update("withdraw", x).id = x
      BY Zenon DEF Update
    <3> QED
      BY <2>6, <3>1
  <2> SUFFICES ASSUME NEW id \in Ids
               PROVE  /\ \A i \in DOMAIN q : q[i].id = id /\ Decides(q, i) =>
                           (q[i].op = "announce" <=> id \in Leased')
                      /\ (\A i \in DOMAIN q : q[i].id # id) =>
                           (id \in routes' <=> id \in Leased')
    BY Zenon DEF RouteInv, Follows, Decides, q
  <2>7. CASE id \in over
    <3>1. PICK j \in DOMAIN order : order[j] = id
      BY <2>2, <2>7, Zenon DEF Range
    <3>2. m + j \in DOMAIN q /\ m + j > m /\ q[m + j] = Update("withdraw", id)
      BY <3>1, <2>3, <2>4, <2>6
    <3>3. \A i \in DOMAIN q : q[i].id = id /\ Decides(q, i) => i \in m + 1 .. m + k
      BY <3>2, <2>3, <2>4, <2>6 DEF Decides, Update
    <3>4. \A i \in DOMAIN q : q[i].id = id /\ Decides(q, i) => q[i].op = "withdraw"
      BY <3>3, <2>9, Zenon
    <3>5. q[m + j].id = id
      BY <3>2 DEF Update
    <3> QED
      BY <3>2, <3>4, <3>5, <2>3, <2>7, Zenon
  <2>8. CASE id \notin over
    <3>1. \A i \in m + 1 .. m + k : q[i].id # id
      <4>1. \A j \in DOMAIN order : order[j] # id
        BY <2>2, <2>8, Zenon DEF Range
      <4> QED
        BY <2>9, <4>1, Zenon
    <3>2. \A i \in DOMAIN q : q[i].id = id =>
            i \in DOMAIN updates /\ q[i] = updates[i] /\ (Decides(q, i) => Decides(updates, i))
      <4> SUFFICES ASSUME NEW i \in DOMAIN q, q[i].id = id
                   PROVE  /\ i \in DOMAIN updates /\ q[i] = updates[i]
                          /\ Decides(q, i) => Decides(updates, i)
        BY Zenon
      <4>1. i \in DOMAIN updates /\ q[i] = updates[i]
        BY <3>1, <2>3, <2>4, <2>6
      <4>2. \A j \in DOMAIN updates : j \in DOMAIN q /\ q[j] = updates[j]
        BY <2>3, <2>4, <2>6
      <4> QED
        BY <4>1, <4>2, Zenon DEF Decides
    <3>3. id \in Leased' <=> id \in Leased
      BY <2>3, <2>8, Zenon
    <3>4. Follows(updates, id)
      BY <2>3, Zenon DEF RouteInv
    <3>5. (\A i \in DOMAIN q : q[i].id # id) => \A i \in DOMAIN updates : updates[i].id # id
      BY <2>3, <2>4, <2>6
    <3> QED
      BY <3>2, <3>3, <3>4, <3>5, <2>3, Zenon DEF Follows
  <2> QED
    BY <2>7, <2>8, Zenon
<1>4. CASE Send
  <2>1. /\ out \in Seq(Operation) /\ out # <<>> /\ out' = Tail(out)
        /\ updates \in Seq(Operation) /\ updates' = Append(updates, Head(out))
        /\ Leased' = Leased /\ routes' = routes
    BY <1>4, Zenon DEF Send, TypeInv, Leased
  <2>2. Append(updates, Head(out)) \o Tail(out) = updates \o out
    BY <2>1
  <2> QED
    BY <1>1, <2>1, <2>2, Zenon
<1>5. CASE Take
  <2> DEFINE u == Head(updates)
             q == updates' \o out'
  <2>1. /\ out \in Seq(Operation) /\ out' = out
        /\ updates \in Seq(Operation) /\ updates # <<>> /\ updates' = Tail(updates)
        /\ Leased' = Leased
        /\ routes' = IF u.op = "announce" THEN routes \cup {u.id} ELSE routes \ {u.id}
    BY <1>5, Zenon DEF Take, TypeInv, Leased, ctl
  <2> DEFINE n == Len(Tail(updates)) + Len(out)
  <2>2. n \in Nat /\ DOMAIN p = 1 .. n + 1 /\ DOMAIN q = 1 .. n
    BY <2>1
  <2>3. p[1] = u /\ u \in Operation /\ \A i \in 1 .. n : q[i] = p[i + 1]
    BY <2>1, <2>2
  <2> HIDE DEF p, q, u, n
  <2> SUFFICES ASSUME NEW id \in Ids
               PROVE  /\ \A i \in DOMAIN q : q[i].id = id /\ Decides(q, i) =>
                           (q[i].op = "announce" <=> id \in Leased')
                      /\ (\A i \in DOMAIN q : q[i].id # id) =>
                           (id \in routes' <=> id \in Leased')
    BY Zenon DEF RouteInv, Follows, Decides, q
  <2>4. Follows(p, id)
    BY Zenon DEF RouteInv, p
  <2>5. ASSUME NEW i \in DOMAIN q, q[i].id = id, Decides(q, i)
        PROVE  q[i].op = "announce" <=> id \in Leased'
    <3>1. i + 1 \in DOMAIN p /\ p[i + 1] = q[i]
      BY <2>2, <2>3
    <3>2. ASSUME NEW j \in DOMAIN p, j > i + 1 PROVE p[j].id # p[i + 1].id
      <4>1. j - 1 \in DOMAIN q /\ j - 1 > i /\ q[j - 1] = p[j]
        BY <2>2, <2>3, <3>2
      <4> QED
        BY <4>1, <2>5, <3>1, Zenon DEF Decides
    <3>3. Decides(p, i + 1)
      BY <3>2, Zenon DEF Decides
    <3> QED
      BY <3>1, <3>3, <2>1, <2>4, <2>5, Zenon DEF Follows
  <2>6. ASSUME \A i \in DOMAIN q : q[i].id # id
        PROVE  id \in routes' <=> id \in Leased'
    <3>1. \A i \in DOMAIN p : i # 1 => p[i].id # id
      <4>1. \A i \in DOMAIN p : i # 1 => i - 1 \in DOMAIN q /\ p[i] = q[i - 1]
        BY <2>2, <2>3
      <4> QED
        BY <4>1, <2>6, Zenon
    <3>2. CASE u.id = id
      <4>1. 1 \in DOMAIN p /\ Decides(p, 1)
        BY <2>2, <2>3, <3>1, <3>2 DEF Decides
      <4>2. u.op = "announce" <=> id \in Leased
        BY <4>1, <2>3, <2>4, <3>2, Zenon DEF Follows
      <4> QED
        BY <4>2, <3>2, <2>1, Zenon
    <3>3. CASE u.id # id
      <4>1. \A i \in DOMAIN p : p[i].id # id
        BY <3>1, <3>3, <2>3, Zenon
      <4>2. id \in routes <=> id \in Leased
        BY <4>1, <2>4, Zenon DEF Follows
      <4> QED
        BY <4>2, <3>3, <2>1, Zenon
    <3> QED
      BY <3>2, <3>3, Zenon
  <2> QED
    BY <2>5, <2>6, Zenon
<1>6. CASE Time
  BY <1>1, <1>6, LeasedKept DEF Time, sinks
<1>7. ASSUME NEW saved \in BOOLEAN, Stop(saved) PROVE RouteInv'
  <2>1. updates' \o out' = <<>> /\ routes' = {} /\ Leased' = {}
    BY <1>7 DEF Stop, Leased, Never
  <2> QED
    BY <2>1 DEF RouteInv, Follows
<1>8. ASSUME NEW fired \in SUBSET Ids, Tick(fired)
      PROVE  Leased' = Leased /\ UNCHANGED <<routes, updates, out>>
  BY <1>8, Zenon DEF Tick, ctl, sinks, Leased
<1>9. ASSUME NEW id \in Ids, Evict(id)
      PROVE  Leased' = Leased /\ UNCHANGED <<routes, updates, out>>
  BY <1>9, Zenon DEF Evict, ctl, sinks, Leased
<1>10. Start \/ UNCHANGED vars => Leased' = Leased /\ UNCHANGED <<routes, updates, out>>
  BY Zenon DEF Start, vars, ctl, sinks, Leased
<1> QED
  BY <1>1, <1>2, <1>3, <1>4, <1>5, <1>6, <1>7, <1>8, <1>9, <1>10, Zenon DEF Next, SomeTick, Controller

(* Once everything is delivered the manager holds a route for each lease   *)
(* and no other, for any channel capacity and any order of expiries.       *)
THEOREM ManagerFollows == Spec => []RoutesFollowLeases
<1>1. Init => RouteInv
  <2> SUFFICES ASSUME Init PROVE RouteInv
    BY Zenon
  <2>1. updates \o out = <<>> /\ routes = {} /\ Leased = {}
    BY DEF Init, Leased, Never
  <2> QED
    BY <2>1 DEF RouteInv, Follows
<1>2. TypeInv /\ RouteInv => RoutesFollowLeases
  <2> SUFFICES ASSUME TypeInv, RouteInv, out = <<>>, updates = <<>> PROVE routes = Leased
    BY Zenon DEF RoutesFollowLeases
  <2>1. \A id \in Ids : Follows(<<>>, id)
    BY DEF RouteInv
  <2>2. \A id \in Ids : id \in routes <=> id \in Leased
    BY <2>1 DEF Follows
  <2> QED
    BY <2>2, Zenon DEF TypeInv, Leased
<1> QED
  BY <1>1, <1>2, RouteStep, TypeCorrect, PTL DEF Spec

-----------------------------------------------------------------------------
(* Ages.                                                                   *)

(* What a unit of time does to the ages of an instance. *)
LEMMA Ageing ==
  ASSUME TypeInv, Time, NEW id \in Ids
  PROVE  /\ sinceEvent[id] \in 0 .. Throttled /\ sinceEvent'[id] \in 0 .. Throttled
         /\ sinceEvent'[id] = IF sinceEvent[id] = Throttled THEN Throttled ELSE sinceEvent[id] + 1
         /\ heldFor[id] \in Ages /\ heldFor'[id] = Older(heldFor[id], Oldest)
         /\ trueFor[id] \in Ages /\ trueFor'[id] = Older(trueFor[id], Oldest)
         /\ left[id] \in Nat \cup {None} /\ left'[id] = Less(left[id])
<1>1. sinceEvent[id] \in 0 .. Throttled /\ sinceEvent'[id] = Older(sinceEvent[id], Throttled)
  BY Zenon DEF TypeInv, Time
<1>2. sinceEvent[id] # None
  BY <1>1, Thresholds
<1>3. sinceEvent'[id] = IF sinceEvent[id] = Throttled THEN Throttled ELSE sinceEvent[id] + 1
  BY <1>1, <1>2, Zenon DEF Older
<1>4. sinceEvent'[id] \in 0 .. Throttled
  BY <1>1, <1>3, Thresholds
<1> QED
  BY <1>1, <1>3, <1>4, Zenon DEF TypeInv, Time

(* Every tick, eviction, stop and start keeps the ages in relation. *)
LEMMA AgeStep == TypeInv /\ AgeInv /\ [Next]_vars => AgeInv'
<1> SUFFICES ASSUME TypeInv, AgeInv, [Next]_vars PROVE AgeInv'
  BY Zenon
<1>1. ASSUME NEW fired \in SUBSET Ids, Tick(fired) PROVE AgeInv'
  <2> DEFINE since == [id \in Ids |-> Since(trueFor, id, fired)]
             emit == Emitting(since, fired)
  <2>1. /\ up /\ up' /\ tickIn' = TickPeriod /\ restored' = restored
        /\ trueFor' = since
        /\ heldFor' = [id \in Ids |-> Since(heldFor, id, fired)]
        /\ sinceEvent' = [id \in Ids |-> IF id \in emit THEN 0 ELSE sinceEvent[id]]
    BY <1>1, Zenon DEF Tick
  <2>2. ~restored' => heldFor' = trueFor'
    BY <2>1, Zenon DEF AgeInv
  <2>3. ASSUME NEW id \in Ids, heldFor'[id] # None
        PROVE  /\ id \in fired /\ trueFor'[id] # None /\ heldFor'[id] <= trueFor'[id]
               /\ heldFor'[id] \in Nat /\ trueFor'[id] \in Nat
    <3>1. heldFor[id] \in Ages /\ trueFor[id] \in Ages
      BY Zenon DEF TypeInv
    <3>2. heldFor[id] # None => trueFor[id] # None /\ heldFor[id] <= trueFor[id]
      BY Zenon DEF AgeInv
    <3>3. heldFor'[id] = Since(heldFor, id, fired) /\ trueFor'[id] = Since(trueFor, id, fired)
      BY <2>1, Zenon
    <3>4. id \in fired
      BY <2>3, <3>3, Zenon DEF Since
    <3>5. CASE heldFor[id] = None
      <4>1. heldFor'[id] = 0 /\ (trueFor'[id] = 0 \/ (trueFor[id] # None /\ trueFor'[id] = trueFor[id]))
        BY <3>3, <3>4, <3>5, Zenon DEF Since
      <4>2. trueFor[id] # None => trueFor[id] \in Nat
        BY <3>1, Thresholds DEF Ages
      <4>3. None \notin Nat
        BY MitigationAssumption
      <4> QED
        BY <3>4, <4>1, <4>2, <4>3
    <3>6. CASE heldFor[id] # None
      <4>1. heldFor'[id] = heldFor[id] /\ trueFor[id] # None /\ trueFor'[id] = trueFor[id]
        BY <3>2, <3>3, <3>4, <3>6, Zenon DEF Since
      <4>2. heldFor[id] \in Nat /\ trueFor[id] \in Nat
        BY <3>1, <3>6, <4>1, Thresholds DEF Ages
      <4> QED
        BY <3>2, <3>4, <3>6, <4>1, <4>2, Zenon
    <3> QED
      BY <3>5, <3>6, Zenon
  <2>4. Elapsed' = 0
    BY <2>1, Thresholds DEF Elapsed
  <2>5. \A id \in Ids : sinceEvent'[id] \in Nat
    BY <2>1 DEF TypeInv
  <2>6. ASSUME NEW id \in Ids, Held(id, Sustained)'
        PROVE  sinceEvent'[id] < EmitInterval + Elapsed'
    <3>1. heldFor'[id] # None /\ heldFor'[id] >= Sustained
      BY <2>1, <2>6, <2>3, Thresholds DEF Held
    <3>2. id \in fired /\ since[id] >= Sustained
      BY <3>1, <2>1, <2>3, Thresholds
    <3>3. sinceEvent[id] \in Nat
      BY DEF TypeInv
    <3>4. CASE sinceEvent[id] >= EmitInterval
      <4>1. id \in emit
        BY <3>2, <3>4, Zenon DEF Emitting
      <4> QED
        BY <4>1, <2>1, <2>4, Thresholds
    <3>5. CASE sinceEvent[id] < EmitInterval
      BY <3>3, <3>5, <2>1, <2>4, Thresholds
    <3> QED
      BY <3>3, <3>4, <3>5, Thresholds
  <2> QED
    BY <2>1, <2>2, <2>3, <2>4, <2>5, <2>6 DEF AgeInv
<1>2. ASSUME NEW id \in Ids, Evict(id) PROVE AgeInv'
  <2>1. /\ up /\ UNCHANGED <<up, tickIn, restored>> /\ Elapsed' = Elapsed
        /\ \A j \in Ids \ {id} : /\ heldFor'[j] = heldFor[j] /\ trueFor'[j] = trueFor[j]
                                 /\ sinceEvent'[j] = sinceEvent[j]
        /\ heldFor'[id] = None /\ trueFor'[id] = None /\ sinceEvent'[id] = Throttled
        /\ heldFor' = [heldFor EXCEPT ![id] = None] /\ trueFor' = [trueFor EXCEPT ![id] = None]
    BY <1>2, Zenon DEF Evict, TypeInv, Elapsed
  <2>2. Throttled >= Elapsed
    BY Thresholds DEF TypeInv, Elapsed
  <2>3. ~restored' => heldFor' = trueFor'
    BY <2>1, Zenon DEF AgeInv
  <2> QED
    BY <2>1, <2>2, <2>3, Zenon DEF AgeInv, Held
<1>3. ASSUME NEW saved \in BOOLEAN, Stop(saved) PROVE AgeInv'
  BY <1>3, Zenon DEF Stop, AgeInv, Never, Held
<1>4. CASE Start
  <2>1. /\ heldFor = Never /\ heldFor' = Never /\ UNCHANGED <<trueFor, sinceEvent, restored>>
        /\ up' /\ tickIn' = TickPeriod
    BY <1>4, Zenon DEF Start, AgeInv, inst
  <2>2. Elapsed' = 0
    BY <2>1, Thresholds DEF Elapsed
  <2>3. \A id \in Ids : sinceEvent'[id] >= 0
    BY <2>1 DEF TypeInv
  <2> QED
    BY <2>1, <2>2, <2>3, Zenon DEF AgeInv, Never, Held
<1>5. CASE Time
  <2>1. /\ up' = up /\ restored' = restored /\ tickIn' = Less(tickIn)
        /\ trueFor' = [id \in Ids |-> Older(trueFor[id], Oldest)]
        /\ heldFor' = [id \in Ids |-> Older(heldFor[id], Oldest)]
    BY <1>5, Zenon DEF Time
  <2>2. ~up => heldFor' = Never
    BY <2>1, Zenon DEF AgeInv, Older, Never
  <2>3. ~restored' => heldFor' = trueFor'
    BY <2>1, Zenon DEF AgeInv
  <2>4. ASSUME NEW id \in Ids, heldFor'[id] # None
        PROVE  trueFor'[id] # None /\ heldFor'[id] <= trueFor'[id]
    <3>1. heldFor[id] # None => trueFor[id] # None /\ heldFor[id] <= trueFor[id]
      BY Zenon DEF AgeInv
    <3> QED
      BY <1>5, <2>4, <3>1, Ageing, Thresholds DEF Older, Ages
  <2>5. up => tickIn > 0 /\ tickIn \in Nat /\ tickIn <= TickPeriod /\ Elapsed' = Elapsed + 1
    <3>1. up => tickIn > 0
      BY <1>5, Zenon DEF Time, Idle
    <3>2. tickIn \in Nat /\ tickIn <= TickPeriod
      BY DEF TypeInv
    <3> QED
      BY <2>1, <3>1, <3>2, Thresholds DEF Less, Elapsed
  <2>6. ASSUME up, NEW id \in Ids PROVE sinceEvent'[id] >= Elapsed'
    <3>1. sinceEvent[id] >= Elapsed /\ Elapsed + 1 <= Throttled /\ Elapsed \in Int
      BY <2>5, <2>6, Thresholds DEF AgeInv, Elapsed
    <3> QED
      BY <1>5, <2>5, <2>6, <3>1, Ageing
  <2>7. ASSUME NEW id \in Ids, Held(id, Sustained)'
        PROVE  sinceEvent'[id] < EmitInterval + Elapsed'
    <3>1. up
      BY <2>2, <2>7, Zenon DEF Held, Never
    <3>2. heldFor[id] \in 0 .. Oldest
          /\ heldFor'[id] = IF heldFor[id] = Oldest THEN Oldest ELSE heldFor[id] + 1
      BY <1>5, <2>7, Ageing, Zenon DEF Held, Older, Ages
    <3>3. heldFor'[id] >= Sustained + Elapsed'
      BY <2>7, Zenon DEF Held, Elapsed
    <3>4. Elapsed \in 0 .. TickPeriod /\ Elapsed' = Elapsed + 1 /\ Elapsed' <= TickPeriod
      BY <3>1, <2>5, Thresholds DEF Elapsed
    <3>5. heldFor[id] >= Sustained + Elapsed
      BY <3>2, <3>3, <3>4, Thresholds
    <3>6. Held(id, Sustained)
      BY <3>2, <3>5, Thresholds DEF Held, Elapsed
    <3>7. sinceEvent[id] < EmitInterval + Elapsed
      BY <3>6, Zenon DEF AgeInv
    <3> QED
      BY <1>5, <3>4, <3>7, Ageing, Thresholds
  <2> QED
    BY <2>1, <2>2, <2>3, <2>4, <2>6, <2>7, Zenon DEF AgeInv
<1>6. CASE UNCHANGED <<up, tickIn, inst, restored>>
  BY <1>6, Zenon DEF AgeInv, inst, Held, Elapsed
<1>7. ApplyEvent \/ Expire \/ Send \/ Take \/ UNCHANGED vars => UNCHANGED <<up, tickIn, inst, restored>>
  BY Zenon DEF ApplyEvent, Expire, Send, Take, vars
<1> QED
  BY <1>1, <1>2, <1>3, <1>4, <1>5, <1>6, <1>7, Zenon DEF Next, SomeTick, Controller

(* The ages are always in relation. *)
LEMMA AgesCorrect == Spec => []AgeInv
<1>1. Init => AgeInv
  <2> SUFFICES ASSUME Init PROVE AgeInv
    BY Zenon
  <2>1. Elapsed = 0 /\ up /\ heldFor = Never /\ trueFor = Never /\ sinceEvent = NoEvent
    BY Thresholds DEF Init, Elapsed
  <2> QED
    BY <2>1, Thresholds DEF AgeInv, Never, NoEvent, Held
<1> QED
  BY <1>1, AgeStep, TypeCorrect, PTL DEF Spec

-----------------------------------------------------------------------------
(* What is left of a lease.                                                *)

(* The elements of a concatenation. *)
LEMMA Concatenation ==
  ASSUME NEW S, NEW s \in Seq(S), NEW t \in Seq(S)
  PROVE  Range(s \o t) = Range(s) \cup Range(t)
<1>1. /\ Len(s) \in Nat /\ Len(t) \in Nat
      /\ DOMAIN s = 1 .. Len(s) /\ DOMAIN t = 1 .. Len(t)
      /\ DOMAIN (s \o t) = 1 .. (Len(s) + Len(t))
  OBVIOUS
<1>2. ASSUME NEW i \in 1 .. Len(s) PROVE i \in DOMAIN (s \o t) /\ (s \o t)[i] = s[i]
  BY <1>1
<1>3. ASSUME NEW i \in 1 .. Len(t)
      PROVE  Len(s) + i \in DOMAIN (s \o t) /\ (s \o t)[Len(s) + i] = t[i]
  BY <1>1
<1>4. ASSUME NEW i \in DOMAIN (s \o t) PROVE (s \o t)[i] \in Range(s) \cup Range(t)
  <2>1. CASE i <= Len(s)
    BY <1>1, <1>2, <2>1 DEF Range
  <2>2. CASE i > Len(s)
    <3>1. i - Len(s) \in DOMAIN t /\ (s \o t)[i] = t[i - Len(s)]
      BY <1>1, <2>2
    <3> QED
      BY <3>1, Zenon DEF Range
  <2> QED
    BY <1>1, <2>1, <2>2
<1>5. Range(s \o t) \subseteq Range(s) \cup Range(t)
  BY <1>4, Zenon DEF Range
<1>6. Range(s) \subseteq Range(s \o t)
  BY <1>1, <1>2, Zenon DEF Range
<1>7. Range(t) \subseteq Range(s \o t)
  BY <1>1, <1>3, Zenon DEF Range
<1> QED
  BY <1>5, <1>6, <1>7, Zenon

(* Every step keeps what is left of a lease, or the event that renews it. *)
LEMMA LeaseStep == TypeInv /\ AgeInv /\ LeaseInv /\ [Next]_vars => LeaseInv'
<1> SUFFICES ASSUME TypeInv, AgeInv, LeaseInv, [Next]_vars, lossless', Tuned,
                    NEW id \in Ids, Own(id)'
             PROVE  Leasing(id)'
  BY Zenon DEF LeaseInv
<1>0. /\ sinceEvent[id] \in 0 .. Throttled /\ left[id] \in Nat \cup {None}
      /\ heldFor[id] \in Ages /\ lossless \in BOOLEAN /\ events \in Seq(Ids)
  BY Zenon DEF TypeInv
<1>own. /\ sinceEvent'[id] < Throttled
        /\ restored' => heldFor'[id] # None /\ sinceEvent'[id] <= heldFor'[id]
  BY Zenon DEF Own
<1>ttl. Throttled \in Nat /\ TTL \in Nat /\ TTL >= Throttled /\ None \notin Int
  BY Thresholds DEF Tuned
<1>num. sinceEvent[id] \in Nat /\ TickPeriod \in Nat \ {0}
  BY <1>0, Thresholds
<1>was. lossless /\ Own(id) => Leasing(id)
  BY Zenon DEF LeaseInv
<1>at. ASSUME Leasing(id), id \notin Range(events)
       PROVE  left[id] \in Nat /\ left[id] >= TTL - sinceEvent[id] /\ left[id] # None
  BY <1>0, <1>at, Zenon DEF Leasing
<1>1. ASSUME NEW fired \in SUBSET Ids, Tick(fired) PROVE Leasing(id)'
  <2> DEFINE since == [i \in Ids |-> Since(trueFor, i, fired)]
             emit == Emitting(since, fired)
  <2>1. /\ up /\ tickIn = 0 /\ restored' = restored /\ left' = left
        /\ heldFor'[id] = Since(heldFor, id, fired)
        /\ sinceEvent'[id] = IF id \in emit THEN 0 ELSE sinceEvent[id]
    BY <1>1, Zenon DEF Tick, ctl
  <2>2. PICK order \in Orders(emit) :
          lossless' = (lossless /\ events' = events \o order)
    BY <1>1, Zenon DEF Tick
  <2>3. lossless /\ events' = events \o order
    BY <2>2, <1>0, Zenon
  <2>4. emit \subseteq Ids
    BY Zenon DEF Emitting
  <2>5. order \in Seq(Ids) /\ Range(order) = emit
    BY <2>2, <2>4, Permutation, Zenon
  <2>6. Range(events') = Range(events) \cup emit
    BY <2>3, <2>5, <1>0, Concatenation
  <2>7. CASE id \in emit
    BY <2>6, <2>7, Zenon DEF Leasing
  <2>8. CASE id \notin emit
    <3>1. sinceEvent'[id] = sinceEvent[id]
      BY <2>1, <2>8, Zenon
    <3>2. sinceEvent[id] >= TickPeriod
      BY <2>1, Thresholds DEF AgeInv, Elapsed
    <3>3. sinceEvent[id] > 0
      BY <3>2, <1>num
    <3>4. restored => heldFor'[id] = heldFor[id]
      BY <2>1, <3>1, <3>3, <1>0, <1>own DEF Since
    <3>5. Own(id)
      BY <3>1, <3>4, <2>1, <1>own, Zenon DEF Own
    <3> QED
      BY <3>1, <3>5, <1>was, <2>1, <2>3, <2>6, Zenon DEF Leasing
  <2> QED
    BY <2>7, <2>8, Zenon
<1>2. ASSUME NEW j \in Ids, Evict(j) PROVE Leasing(id)'
  <2>1. id # j
    BY <1>2, <1>own, <1>ttl DEF Evict, TypeInv
  <2>2. /\ sinceEvent'[id] = sinceEvent[id] /\ heldFor'[id] = heldFor[id]
        /\ UNCHANGED <<left, events, lossless, restored>>
    BY <1>2, <2>1, Zenon DEF Evict, TypeInv, ctl
  <2>3. Own(id)
    BY <2>2, <1>own, Zenon DEF Own
  <2> QED
    BY <2>2, <2>3, <1>was, Zenon DEF Leasing
<1>3. CASE ApplyEvent
  <2>1. /\ UNCHANGED <<sinceEvent, heldFor, lossless, restored>> /\ events # <<>>
        /\ events' = Tail(events)
        /\ left' = [left EXCEPT ![Head(events)] = TTL]
    BY <1>3, Zenon DEF ApplyEvent, inst, Tuned
  <2>2. Leasing(id)
    BY <2>1, <1>was, Zenon DEF Own
  <2>3. CASE id = Head(events)
    <3>1. left'[id] = TTL
      BY <2>1, <2>3, Zenon DEF TypeInv
    <3> QED
      BY <3>1, <2>1, <1>0, <1>ttl DEF Leasing
  <2>4. CASE id # Head(events)
    <3>1. left'[id] = left[id]
      BY <2>1, <2>4, Zenon DEF TypeInv
    <3>2. ASSUME id \in Range(events) PROVE id \in Range(events')
      <4>1. PICK i \in 1 .. Len(events) : events[i] = id
        BY <3>2, <1>0 DEF Range
      <4>2. i # 1
        BY <4>1, <2>4, <1>0
      <4>3. i - 1 \in 1 .. Len(Tail(events)) /\ Tail(events)[i - 1] = id
        BY <4>1, <4>2, <2>1, <1>0
      <4>4. DOMAIN Tail(events) = 1 .. Len(Tail(events))
        BY <2>1, <1>0
      <4> QED
        BY <4>3, <4>4, <2>1, Zenon DEF Range
    <3> QED
      BY <3>1, <3>2, <2>1, <2>2, Zenon DEF Leasing
  <2> QED
    BY <2>3, <2>4, Zenon
<1>4. CASE Expire
  <2>1. /\ UNCHANGED <<sinceEvent, heldFor, lossless, restored, events>>
        /\ left'[id] = IF left[id] = 0 THEN None ELSE left[id]
    BY <1>4, Zenon DEF Expire, inst
  <2>2. Leasing(id) /\ sinceEvent[id] < Throttled
    BY <2>1, <1>was, <1>own, Zenon DEF Own
  <2>3. CASE id \in Range(events)
    BY <2>1, <2>3, Zenon DEF Leasing
  <2>4. CASE id \notin Range(events)
    <3>1. left[id] # 0
      BY <2>2, <2>4, <1>at, <1>0, <1>ttl
    <3> QED
      BY <3>1, <2>1, <2>2, <2>4, <1>at, Zenon DEF Leasing
  <2> QED
    BY <2>3, <2>4, Zenon
<1>5. ASSUME NEW saved \in BOOLEAN, Stop(saved) PROVE Leasing(id)'
  <2>1. CASE saved
    BY <1>own, <1>5, <2>1, Zenon DEF Stop, Never
  <2>2. CASE ~saved
    BY <1>own, <1>ttl, <1>5, <2>2 DEF Stop, NoEvent
  <2> QED
    BY <2>1, <2>2, Zenon
<1>6. CASE Time
  <2>1. /\ restored' = restored /\ events' = events /\ lossless
        /\ left'[id] = Less(left[id]) /\ heldFor'[id] = Older(heldFor[id], Oldest)
    BY <1>6, <1>0, Zenon DEF Time
  <2>2. sinceEvent[id] < Throttled /\ sinceEvent'[id] = sinceEvent[id] + 1
    <3>1. sinceEvent'[id] = IF sinceEvent[id] = Throttled THEN Throttled ELSE sinceEvent[id] + 1
      BY <1>6, Ageing, Zenon
    <3>2. sinceEvent[id] # Throttled
      BY <3>1, <1>own, <1>ttl
    <3>3. sinceEvent[id] < Throttled
      BY <3>2, <1>0, <1>ttl
    <3> QED
      BY <3>1, <3>2, <3>3, Zenon
  <2>3. restored => heldFor[id] # None /\ sinceEvent[id] <= heldFor[id]
    <3> SUFFICES ASSUME restored PROVE heldFor[id] # None /\ sinceEvent[id] <= heldFor[id]
      BY Zenon
    <3>1. heldFor'[id] # None /\ sinceEvent'[id] <= heldFor'[id]
      BY <2>1, <1>own, Zenon
    <3>2. heldFor[id] # None
      BY <3>1, <2>1, Zenon DEF Older
    <3>3. heldFor[id] \in 0 .. Oldest /\ Oldest \in Nat /\ Oldest >= Throttled
      BY <3>2, <1>0, Thresholds, Zenon DEF Ages
    <3>4. CASE heldFor[id] = Oldest
      BY <3>2, <3>3, <3>4, <2>2, <1>0, <1>ttl
    <3>5. CASE heldFor[id] # Oldest
      <4>1. heldFor'[id] = heldFor[id] + 1
        BY <3>2, <3>5, <2>1, Zenon DEF Older
      <4> QED
        BY <4>1, <3>1, <3>2, <3>3, <2>2, <1>0
    <3> QED
      BY <3>4, <3>5, Zenon
  <2>4. Leasing(id)
    BY <2>1, <2>2, <2>3, <1>was, Zenon DEF Own
  <2>5. CASE id \in Range(events)
    BY <2>1, <2>5, Zenon DEF Leasing
  <2>6. CASE id \notin Range(events)
    <3>1. left[id] \in Nat /\ left[id] >= TTL - sinceEvent[id] /\ left[id] # None
      BY <2>4, <2>6, <1>at, Zenon
    <3>2. left[id] # 0
      BY <3>1, <2>2, <1>num, <1>ttl
    <3>3. left'[id] = left[id] - 1
      BY <3>1, <3>2, <2>1, Zenon DEF Less
    <3>4. left'[id] >= TTL - sinceEvent'[id] /\ left'[id] # None
      BY <3>1, <3>3, <2>2, <1>num, <1>ttl
    <3> QED
      BY <3>4, Zenon DEF Leasing
  <2> QED
    BY <2>5, <2>6, Zenon
<1>7. CASE UNCHANGED <<sinceEvent, heldFor, left, events, lossless, restored>>
  <2>1. Leasing(id)
    BY <1>7, <1>was, Zenon DEF Own
  <2> QED
    BY <1>7, <2>1, Zenon DEF Leasing
<1>8. Start \/ Send \/ Take \/ UNCHANGED vars
        => UNCHANGED <<sinceEvent, heldFor, left, events, lossless, restored>>
  BY Zenon DEF Start, Send, Take, vars, inst, ctl
<1> QED
  BY <1>1, <1>2, <1>3, <1>4, <1>5, <1>6, <1>7, <1>8, Zenon DEF Next, SomeTick, Controller

(* With refresh, a lossless path and a TTL of more than two ticks and two  *)
(* fine resolutions, evalInstance, shouldEmit and applyEvent never leave a *)
(* trigger that held for sustained without a lease; after a restore from   *)
(* importDump it also takes EmitInterval.  For any values of the           *)
(* configuration, with evictions and restarts.                             *)
THEOREM CoveredWithoutGap == Spec => []Covered
<1>1. Init => LeaseInv
  <2> SUFFICES ASSUME Init, NEW id \in Ids PROVE ~Own(id)
    BY Zenon DEF LeaseInv
  <2> QED
    BY Thresholds DEF Init, NoEvent, Own
<1>2. TypeInv /\ AgeInv /\ LeaseInv => Covered
  <2> SUFFICES ASSUME TypeInv, AgeInv, LeaseInv, up, Idle, ~Blocked, lossless, Refresh,
                      TTL > 2 * TickPeriod, TTL >= 2 * FineResolution,
                      NEW id \in Ids, Held(id, Sustained), restored => Held(id, EmitInterval)
               PROVE  id \in Leased
    BY Zenon DEF Covered
  <2>1. Elapsed \in 0 .. TickPeriod /\ sinceEvent[id] \in Nat /\ heldFor[id] \in Ages
    BY Thresholds DEF TypeInv, Elapsed
  <2>2. sinceEvent[id] < EmitInterval + Elapsed
    BY Zenon DEF AgeInv
  <2>3. restored => heldFor[id] # None /\ heldFor[id] >= EmitInterval + Elapsed
    BY Zenon DEF Held, Elapsed
  <2>4. sinceEvent[id] < Throttled
    BY <2>1, <2>2, Thresholds
  <2>5. restored => heldFor[id] # None /\ sinceEvent[id] <= heldFor[id]
    BY <2>1, <2>2, <2>3, Thresholds DEF Ages
  <2>6. Own(id)
    BY <2>4, <2>5, Zenon DEF Own
  <2>7. Range(events) = {}
    BY DEF Idle, Range
  <2> QED
    BY <2>6, <2>7, Zenon DEF LeaseInv, Leasing, Leased, Tuned
<1> QED
  BY <1>1, <1>2, LeaseStep, AgesCorrect, TypeCorrect, PTL DEF Spec

-----------------------------------------------------------------------------
(* How long a rule outlives its trigger.                                   *)

(* Every step keeps the rest of a lease and the quiet time within a TTL.   *)
LEMMA QuietStep == TypeInv /\ WakesInTime /\ QuietInv /\ [Next]_vars => QuietInv'
<1> SUFFICES ASSUME TypeInv, WakesInTime, QuietInv, [Next]_vars PROVE QuietInv'
  BY Zenon
<1>0. /\ TTL \in Nat \ {0} /\ None \notin Int
      /\ events \in Seq(Ids) /\ left \in [Ids -> Nat \cup {None}]
      /\ lossless \in BOOLEAN /\ quiet \in [Ids -> 0 .. TTL] /\ timer \in Nat
  BY Thresholds, Zenon DEF TypeInv, QuietInv
<1>all. AllQuiet \in [Ids -> 0 .. TTL]
  BY <1>0 DEF AllQuiet
<1>1. ASSUME NEW fired \in SUBSET Ids, Tick(fired) PROVE QuietInv'
  <2> DEFINE since == [i \in Ids |-> Since(trueFor, i, fired)]
             emit == Emitting(since, fired)
             noted == [id \in Ids |-> IF id \in fired THEN 0 ELSE quiet[id]]
  <2>1. up' /\ left' = left /\ Leased' = Leased /\ quiet' = WhileLossless(noted)
    BY <1>1, Zenon DEF Tick, ctl, Leased
  <2>2. PICK order \in Orders(emit) :
          lossless' = (lossless /\ events' = events \o order)
    BY <1>1, Zenon DEF Tick
  <2>3. noted \in [Ids -> 0 .. TTL]
    BY <1>0
  <2>4. quiet' \in [Ids -> 0 .. TTL]
    BY <1>all, <2>1, <2>3, Zenon DEF WhileLossless
  <2>5. ASSUME lossless'
        PROVE  /\ \A id \in Leased : left[id] + noted[id] <= TTL
               /\ \A id \in Range(events') : noted[id] = 0
    <3>1. lossless /\ events' = events \o order
      BY <1>0, <2>2, <2>5, Zenon
    <3>2. emit \subseteq fired /\ emit \subseteq Ids
      BY Zenon DEF Emitting
    <3>3. order \in Seq(Ids) /\ Range(order) = emit
      BY <2>2, <3>2, Permutation, Zenon
    <3>4. Range(events') = Range(events) \cup emit
      BY <1>0, <3>1, <3>3, Concatenation
    <3>5. Range(events) \subseteq Ids
      BY <1>0 DEF Range
    <3>6. \A id \in Range(events') : noted[id] = 0
      BY <3>1, <3>2, <3>4, <3>5, Zenon DEF QuietInv
    <3>7. ASSUME NEW id \in Leased PROVE left[id] + noted[id] <= TTL
      <4>1. id \in Ids /\ left[id] \in Nat /\ quiet[id] \in Nat
        BY <1>0, <3>7 DEF Leased
      <4>2. left[id] + quiet[id] <= TTL
        BY <3>1, <3>7, Zenon DEF QuietInv
      <4>3. noted[id] = 0 \/ noted[id] = quiet[id]
        BY <4>1, Zenon
      <4> HIDE DEF noted
      <4> QED
        BY <4>1, <4>2, <4>3, <1>0
    <3> QED
      BY <3>6, <3>7, Zenon
  <2> HIDE DEF noted
  <2> QED
    BY <2>1, <2>4, <2>5, Zenon DEF QuietInv, WhileLossless
<1>2. CASE ApplyEvent
  <2> DEFINE e == Head(events)
  <2>1. /\ UNCHANGED <<quiet, lossless>> /\ up' /\ events # <<>> /\ events' = Tail(events)
        /\ left' = IF left[e] = None \/ Refresh THEN [left EXCEPT ![e] = TTL] ELSE left
    BY <1>2, Zenon DEF ApplyEvent, inst
  <2>2. e \in Ids /\ e \in Range(events) /\ Range(events') \subseteq Range(events)
    <3>1. e = events[1] /\ 1 \in DOMAIN events /\ e \in Ids
      BY <1>0, <2>1
    <3>2. \A i \in DOMAIN Tail(events) : i + 1 \in DOMAIN events /\ Tail(events)[i] = events[i + 1]
      BY <1>0, <2>1
    <3> HIDE DEF e
    <3> QED
      BY <3>1, <3>2, <2>1, Zenon DEF Range
  <2> HIDE DEF e
  <2>3. ASSUME lossless, NEW id \in Ids, left'[id] # None PROVE left'[id] + quiet[id] <= TTL
    <3>1. CASE id = e /\ (left[e] = None \/ Refresh)
      <4>1. left'[id] = TTL /\ quiet[id] = 0
        BY <1>0, <2>1, <2>2, <2>3, <3>1, Zenon DEF QuietInv
      <4> QED
        BY <1>0, <4>1
    <3>2. CASE ~(id = e /\ (left[e] = None \/ Refresh))
      <4>1. left'[id] = left[id]
        BY <1>0, <2>1, <3>2, Zenon
      <4> QED
        BY <2>3, <4>1, Zenon DEF QuietInv, Leased
    <3> QED
      BY <3>1, <3>2, Zenon
  <2> QED
    BY <2>1, <2>2, <2>3, Zenon DEF QuietInv, Leased
<1>3. CASE Expire
  <2>1. /\ UNCHANGED <<quiet, lossless, events>> /\ up'
        /\ left' = [id \in Ids |-> IF id \in {i \in Ids : left[i] = 0} THEN None ELSE left[id]]
    BY <1>3, Zenon DEF Expire, inst
  <2>2. \A id \in Ids : left'[id] # None => left[id] # None /\ left'[id] = left[id]
    BY <2>1, Zenon
  <2> QED
    BY <2>1, <2>2, Zenon DEF QuietInv, Leased
<1>4. ASSUME NEW saved \in BOOLEAN, Stop(saved) PROVE QuietInv'
  <2>1. /\ quiet' = AllQuiet /\ left' = Never /\ events' = <<>>
    BY <1>4, Zenon DEF Stop
  <2>2. Leased' = {} /\ Range(events') = {}
    BY <2>1 DEF Leased, Never, Range
  <2> QED
    BY <1>all, <2>1, <2>2, Zenon DEF QuietInv
<1>5. CASE Time
  <2> DEFINE noted == [id \in Ids |-> Older(quiet[id], TTL)]
  <2>1. /\ UNCHANGED <<up, events>> /\ lossless' = (lossless /\ ~Blocked)
        /\ quiet' = WhileLossless(noted) /\ left' = [id \in Ids |-> Less(left[id])]
        /\ up => Idle
    BY <1>5, Zenon DEF Time
  <2>2. \A q \in 0 .. TTL : Older(q, TTL) \in 0 .. TTL /\ Older(q, TTL) <= q + 1
    BY <1>0 DEF Older
  <2>3. noted \in [Ids -> 0 .. TTL]
    BY <1>0, <2>2, Zenon
  <2>4. quiet' \in [Ids -> 0 .. TTL]
    BY <1>all, <2>1, <2>3, Zenon DEF WhileLossless
  <2>5. ~up' => left' = Never /\ events' = <<>>
    BY <2>1, Zenon DEF QuietInv, Never, Less
  <2>6. ASSUME lossless'
        PROVE  /\ \A id \in Leased' : left'[id] + noted[id] <= TTL
               /\ Range(events') = {}
    <3>1. lossless /\ ~Blocked
      BY <1>0, <2>1, <2>6, Zenon
    <3>2. events' = <<>> /\ (up => timer > 0)
      BY <2>1, <2>5, <3>1, Zenon DEF Idle
    <3>3. ASSUME NEW id \in Leased' PROVE left'[id] + noted[id] <= TTL
      <4>1. id \in Ids /\ id \in Leased /\ left[id] \in Nat
        BY <1>0, <1>5, <3>3, LeasedKept, Zenon DEF Leased
      <4>2. up
        BY <4>1, Zenon DEF QuietInv, Leased, Never
      <4>3. timer > 0 /\ timer <= left[id]
        BY <3>2, <4>1, <4>2, Zenon DEF WakesInTime
      <4>4. left[id] + quiet[id] <= TTL /\ quiet[id] \in 0 .. TTL
        BY <1>0, <3>1, <4>1, Zenon DEF QuietInv
      <4>5. left'[id] = Less(left[id]) /\ noted[id] \in 0 .. TTL /\ noted[id] <= quiet[id] + 1
        BY <2>1, <2>2, <4>1, <4>4, Zenon
      <4>6. left'[id] = left[id] - 1
        BY <1>0, <4>1, <4>3, <4>5 DEF Less
      <4> HIDE DEF noted
      <4> QED
        BY <1>0, <4>1, <4>4, <4>5, <4>6
    <3> QED
      BY <3>2, <3>3 DEF Range
  <2> HIDE DEF noted
  <2> QED
    BY <2>1, <2>4, <2>5, <2>6, Zenon DEF QuietInv, WhileLossless
<1>6. ASSUME UNCHANGED <<quiet, left, events, lossless>>, up => up' PROVE QuietInv'
  BY <1>6, Zenon DEF QuietInv, Leased
<1>7. ASSUME NEW id \in Ids, Evict(id) PROVE QuietInv'
  BY <1>6, <1>7, Zenon DEF Evict, ctl
<1>8. CASE Start
  BY <1>6, <1>8, Zenon DEF Start, inst, ctl
<1>9. CASE Send \/ Take \/ UNCHANGED vars
  <2>1. UNCHANGED <<up, quiet, left, events, lossless>>
    BY <1>9, Zenon DEF Send, Take, vars, inst, ctl
  <2> QED
    BY <1>6, <2>1, Zenon
<1> QED
  BY <1>1, <1>2, <1>3, <1>4, <1>5, <1>6, <1>7, <1>8, <1>9, Zenon DEF Next, SomeTick, Controller

(* A drop rule outlives the last tick that found its trigger true by less  *)
(* than a TTL, unless the controller had to wait to send or an event was   *)
(* dropped: shouldEmit, applyEvent, expire and nextWake, for any values of *)
(* the configuration, with evictions and through restarts from a dump.     *)
THEOREM RulesEnd == Spec => []Released
<1>1. Init => QuietInv
  <2> SUFFICES ASSUME Init PROVE QuietInv
    BY Zenon
  <2>1. AllQuiet \in [Ids -> 0 .. TTL]
    BY Thresholds DEF AllQuiet
  <2>2. up /\ quiet = AllQuiet /\ Leased = {} /\ events = <<>>
    BY DEF Init, Leased, Never
  <2>3. Range(events) = {}
    BY <2>2 DEF Range
  <2> QED
    BY <2>1, <2>2, <2>3, Zenon DEF QuietInv
<1>2. TypeInv /\ WakesInTime /\ RoutesFollowLeases /\ QuietInv => Released
  <2> SUFFICES ASSUME TypeInv, WakesInTime, RoutesFollowLeases, QuietInv,
                      up, Idle, ~Blocked, lossless, updates = <<>>, NEW id \in routes
               PROVE  quiet[id] < TTL
    BY Zenon DEF Released
  <2>1. out = <<>> /\ timer > 0
    BY Zenon DEF Idle
  <2>2. id \in Leased /\ id \in Ids /\ left[id] \in Nat /\ timer \in Nat
    BY <2>1, Zenon DEF RoutesFollowLeases, Leased, TypeInv
  <2>3. timer <= left[id] /\ left[id] + quiet[id] <= TTL /\ quiet[id] \in 0 .. TTL
    BY <2>2, Zenon DEF WakesInTime, QuietInv
  <2> QED
    BY <2>1, <2>2, <2>3, Thresholds
<1> QED
  BY <1>1, <1>2, QuietStep, TypeCorrect, ControllerWakes, ManagerFollows, PTL DEF Spec
=============================================================================
