----------------------------- MODULE Mitigation -----------------------------
(***************************************************************************)
(* From a detection rule that fires to a drop rule and back: the emission  *)
(* side of the detector (internal/detector rule.go, store.go, runtime.go), *)
(* the bounded events channel, the lease controller                        *)
(* (internal/localrules/controller.go), the updates channel and the        *)
(* detector's rules in the manager and in the BGP table.                   *)
(*                                                                         *)
(* Times are kept as ages and remaining times, so that the clock can run   *)
(* for ever: an age stops counting where no comparison tells it apart any  *)
(* more.  Goroutines that have something to do and are not blocked do it   *)
(* before the next unit of time; the one that can be blocked is the lease  *)
(* controller, on an updates channel that a manager stuck in a VPP call    *)
(* does not empty.                                                         *)
(***************************************************************************)
EXTENDS Integers, Sequences, FiniteSetsExt, Functions

CONSTANTS
  Ids,            \* instances, and so event ids and Rule.Raw, one to one
  nlri,           \* the NLRI that the rule of an id is encoded to
  None,
  TTL,            \* flowspec.ttl
  Refresh,        \* flowspec.refresh
  FineResolution, \* of the fine ring of the rule's history
  TickPeriod,     \* of the runner's ticker, see TickInterval
  Sustained,      \* trigger.sustained
  LongWait,       \* an hour, more than any TTL
  EventQueue,     \* detector.event_queue
  UpdateQueue,    \* capacity of the updates channel
  MaxStops,       \* bound: ends of the process, none or one
  MaxEvictions    \* bound: instances evicted from the store

ASSUME MitigationAssumption ==
  /\ {TTL, FineResolution, TickPeriod} \subseteq Nat \ {0}
  /\ Sustained \in Nat
  /\ Refresh \in BOOLEAN
  /\ LongWait \in Nat /\ LongWait > TTL
  /\ {EventQueue, UpdateQueue, MaxEvictions} \subseteq Nat
  /\ MaxStops \in 0 .. 1
  /\ IsFiniteSet(Ids) /\ None \notin Int

VARIABLES
  up,         \* the process runs
  tickIn,     \* time to the next tick, or before the process can be back
  trueFor,    \* age of instance.trueSince, None when it is zero
  sinceEvent, \* age of instance.lastEvent
  events,     \* the events channel, ids only: ttl and refresh do not vary
  left,       \* lease id -> time to expiresAt, None when there is no lease
  timer,      \* time to the wake-up of Controller.Run
  out,        \* the updates the handler under way has still to send
  updates,    \* the updates channel
  routes,     \* the detector session's routes in the manager
  rib,        \* NLRIs originated into the BGP table
  heldFor,    \* history: for how long every tick found the trigger true
  quiet,      \* history: while lossless, time since a tick found it true
  lossless,   \* history: no event was dropped and no send had to wait
  restored,   \* history: the instance state came from the state file
  budget      \* what is left of the bounds

inst == <<trueFor, sinceEvent, heldFor, quiet>>
ctl == <<left, timer, out>>
sinks == <<updates, routes, rib>>
vars == <<up, tickIn, inst, events, ctl, sinks, lossless, restored, budget>>

(* Mutant: an event per TTL.                                               *)
EmitIntervalWhole == TTL

(* compileRule: half the TTL, at least the resolution of the fine ring.    *)
EmitInterval ==
  IF TTL \div 2 < FineResolution THEN FineResolution ELSE TTL \div 2

(* No comparison tells ages of trueSince beyond this apart.                *)
Oldest == Max({Sustained, EmitInterval}) + TickPeriod

(* No comparison tells ages of lastEvent beyond this apart.                *)
Throttled == EmitInterval + TickPeriod

Update(op, id) == [op |-> op, id |-> id]
Leased == {id \in Ids : left[id] # None}

(* The orders in which Go may go through the map of these instances.       *)
Orders(S) == Bijection(1 .. Cardinality(S), S)

Never == [id \in Ids |-> None]
NoEvent == [id \in Ids |-> Throttled]
AllQuiet == [id \in Ids |-> TTL]
WhileLossless(q) == IF lossless' THEN q ELSE AllQuiet

Init ==
  /\ up = TRUE
  /\ tickIn = TickPeriod
  /\ trueFor = Never
  /\ heldFor = Never
  /\ quiet = AllQuiet
  /\ sinceEvent = NoEvent
  /\ events = <<>>
  /\ left = Never
  /\ timer = LongWait
  /\ out = <<>>
  /\ updates = <<>>
  /\ routes = {}
  /\ rib = {}
  /\ lossless = TRUE
  /\ restored = FALSE
  /\ budget = [stops |-> MaxStops, evictions |-> MaxEvictions]

-----------------------------------------------------------------------------
(* The runner.                                                             *)

(* trueSince after an evaluation.  The expression compares floats and its  *)
(* evaluation does not fail.                                               *)
Since(age, id, fired) ==
  IF id \notin fired THEN None ELSE IF age[id] = None THEN 0 ELSE age[id]

(* Mutant: what the instance was before the evaluation decides.            *)
EmittingStale(since, fired) ==
  {id \in Ids : trueFor[id] # None /\ trueFor[id] >= Sustained /\ sinceEvent[id] >= EmitInterval}

(* The instances that get past sustained and shouldEmit.                   *)
Emitting(since, fired) ==
  {id \in fired : since[id] >= Sustained /\ sinceEvent[id] >= EmitInterval}

(* The channel after non-blocking sends of order: what does not fit is     *)
(* dropped, after lastEvent was set.                                       *)
Delivered(order) == SubSeq(events \o order, 1, Min({EventQueue, Len(events \o order)}))

(* One tick: evalInstance of every instance, fired being those whose       *)
(* expression is true, and a non-blocking send of every event, in the      *)
(* order of a Go map.                                                      *)
Tick(fired) ==
  LET since == [id \in Ids |-> Since(trueFor, id, fired)]
      emit  == Emitting(since, fired)
  IN /\ up /\ tickIn = 0
     /\ tickIn' = TickPeriod
     /\ trueFor' = since
     /\ heldFor' = [id \in Ids |-> Since(heldFor, id, fired)]
     /\ sinceEvent' = [id \in Ids |-> IF id \in emit THEN 0 ELSE sinceEvent[id]]
     /\ \E order \in Orders(emit) :
          /\ events' = Delivered(order)
          /\ lossless' = (lossless /\ events' = events \o order)
     /\ quiet' = WhileLossless([id \in Ids |-> IF id \in fired THEN 0 ELSE quiet[id]])
     /\ UNCHANGED <<up, ctl, sinks, restored, budget>>

(* instanceStore.admit evicts the instance for a heavier one: when it is   *)
(* seen again it starts anew.                                              *)
Evict(id) ==
  /\ up /\ budget.evictions > 0
  /\ budget' = [budget EXCEPT !.evictions = @ - 1]
  /\ trueFor' = [trueFor EXCEPT ![id] = None]
  /\ heldFor' = [heldFor EXCEPT ![id] = None]
  /\ sinceEvent' = [sinceEvent EXCEPT ![id] = Throttled]
  /\ UNCHANGED <<up, tickIn, quiet, events, ctl, sinks, lossless, restored>>

-----------------------------------------------------------------------------
(* The lease controller.                                                   *)

(* Mutant: the wake-up is left as it was.                                  *)
NextWakeKept(l) == timer

(* nextWake: the time to the first expiry.                                 *)
NextWake(l) == Min({LongWait} \cup {l[id] : id \in {i \in Ids : l[i] # None}})

(* applyEvent.  The rule of an id never changes, so a known lease is only  *)
(* refreshed.  The code computes the wake-up when the handler is done;     *)
(* here it is computed at once and counts down while the handler waits.    *)
ApplyEvent ==
  /\ up /\ out = <<>> /\ events # <<>>
  /\ LET id == Head(events)
     IN /\ left' = IF left[id] = None \/ Refresh THEN [left EXCEPT ![id] = TTL] ELSE left
        /\ out' = IF left[id] = None THEN <<Update("announce", id)>> ELSE <<>>
        /\ timer' = NextWake(left')
  /\ events' = Tail(events)
  /\ UNCHANGED <<up, tickIn, inst, sinks, lossless, restored, budget>>

(* Mutant: only one of the leases that expired is withdrawn.               *)
ExpireOne ==
  /\ up /\ out = <<>> /\ timer = 0
  /\ LET over == {id \in Ids : left[id] = 0}
     IN /\ left' = [id \in Ids |-> IF id \in over THEN None ELSE left[id]]
        /\ out' = IF over = {} THEN <<>> ELSE <<Update("withdraw", CHOOSE id \in over : TRUE)>>
        /\ timer' = NextWake(left')
  /\ UNCHANGED <<up, tickIn, inst, events, sinks, lossless, restored, budget>>

(* expire: the timer fires and every lease that is over goes.              *)
Expire ==
  /\ up /\ out = <<>> /\ timer = 0
  /\ LET over == {id \in Ids : left[id] = 0}
     IN /\ left' = [id \in Ids |-> IF id \in over THEN None ELSE left[id]]
        /\ \E order \in Orders(over) :
             out' = [i \in DOMAIN order |-> Update("withdraw", order[i])]
        /\ timer' = NextWake(left')
  /\ UNCHANGED <<up, tickIn, inst, events, sinks, lossless, restored, budget>>

(* Mutant: a withdraw is not sent upstream.                                *)
SendKeepsUpstream ==
  /\ up /\ out # <<>> /\ Len(updates) < UpdateQueue
  /\ LET u == Head(out)
     IN rib' = IF u.op = "announce" THEN rib \cup {nlri[u.id]} ELSE rib
  /\ updates' = Append(updates, Head(out))
  /\ out' = Tail(out)
  /\ UNCHANGED <<up, tickIn, inst, events, left, timer, routes, lossless, restored, budget>>

(* send, which waits for room in the channel, and then advertise.          *)
Send ==
  /\ up /\ out # <<>> /\ Len(updates) < UpdateQueue
  /\ LET u == Head(out)
     IN /\ updates' = Append(updates, u)
        /\ rib' = IF u.op = "announce" THEN rib \cup {nlri[u.id]} ELSE rib \ {nlri[u.id]}
  /\ out' = Tail(out)
  /\ UNCHANGED <<up, tickIn, inst, events, left, timer, routes, lossless, restored, budget>>

(* The manager takes an update; see Manager for the whole of it.           *)
Take ==
  /\ up /\ updates # <<>>
  /\ LET u == Head(updates)
     IN routes' = IF u.op = "announce" THEN routes \cup {u.id} ELSE routes \ {u.id}
  /\ updates' = Tail(updates)
  /\ UNCHANGED <<up, tickIn, inst, events, ctl, rib, lossless, restored, budget>>

-----------------------------------------------------------------------------
(* The process ends.  On a clean shutdown the instances are saved, with    *)
(* lastEvent and trueSince; a kill leaves no dump, and as it is the only   *)
(* end there is no older one.  Either way leases, updates, the manager's   *)
(* routes and the BGP table are gone.                                      *)
Stop(saved) ==
  /\ up /\ budget.stops > 0
  /\ up' = FALSE
  /\ budget' = [budget EXCEPT !.stops = @ - 1]
  /\ restored' = saved
  /\ trueFor' = IF saved THEN trueFor ELSE Never
  /\ sinceEvent' = IF saved THEN sinceEvent ELSE NoEvent
  /\ heldFor' = Never
  /\ quiet' = AllQuiet
  /\ tickIn' = 1
  /\ events' = <<>>
  /\ left' = Never
  /\ timer' = LongWait
  /\ out' = <<>>
  /\ updates' = <<>>
  /\ routes' = {}
  /\ rib' = {}
  /\ lossless' = TRUE

(* Mutant: without a state file the process does not come up.              *)
StartNeedsDump ==
  /\ ~up /\ tickIn = 0 /\ restored
  /\ up' = TRUE
  /\ tickIn' = TickPeriod
  /\ UNCHANGED <<inst, events, ctl, sinks, lossless, restored, budget>>

(* run in cmd/flowspec-vpp-agent: the dump is imported before the runner   *)
(* starts its ticker.                                                      *)
Start ==
  /\ ~up /\ tickIn = 0
  /\ up' = TRUE
  /\ tickIn' = TickPeriod
  /\ UNCHANGED <<inst, events, ctl, sinks, lossless, restored, budget>>

-----------------------------------------------------------------------------
Blocked == out # <<>> /\ Len(updates) = UpdateQueue

(* The runner and the controller have done what they can do now.           *)
Idle == tickIn > 0 /\ (Blocked \/ (out = <<>> /\ events = <<>> /\ timer > 0))

Older(age, max) == IF age = None \/ age = max THEN age ELSE age + 1
Less(t) == IF t = None \/ t = 0 THEN t ELSE t - 1

(* A unit of time.  The hourly wake-up without leases does nothing and is  *)
(* left out.                                                               *)
Time ==
  /\ up => Idle
  /\ tickIn' = Less(tickIn)
  /\ trueFor' = [id \in Ids |-> Older(trueFor[id], Oldest)]
  /\ heldFor' = [id \in Ids |-> Older(heldFor[id], Oldest)]
  /\ sinceEvent' = [id \in Ids |-> Older(sinceEvent[id], Throttled)]
  /\ left' = [id \in Ids |-> Less(left[id])]
  /\ timer' = IF Leased = {} THEN timer ELSE Less(timer)
  /\ lossless' = (lossless /\ ~Blocked)
  /\ quiet' = WhileLossless([id \in Ids |-> Older(quiet[id], TTL)])
  /\ UNCHANGED <<up, events, out, sinks, restored, budget>>

SomeTick == \E fired \in SUBSET Ids : Tick(fired)

Controller == ApplyEvent \/ Expire \/ Send

Next ==
  \/ SomeTick
  \/ \E id \in Ids : Evict(id)
  \/ Controller
  \/ Take
  \/ \E saved \in BOOLEAN : Stop(saved)
  \/ Start
  \/ Time

Spec == Init /\ [][Next]_vars

(* Goroutines run, the manager takes updates again, time passes, and the   *)
(* process is started again.                                               *)
FairSpec ==
  /\ Spec
  /\ WF_vars(SomeTick)
  /\ WF_vars(Controller) /\ WF_vars(Take) /\ WF_vars(Start) /\ WF_vars(Time)

-----------------------------------------------------------------------------
(* At the last tick the trigger had held for that long in this process.    *)
Held(id, long) == heldFor[id] # None /\ heldFor[id] >= long + (TickPeriod - tickIn)

(* With refresh, a trigger that keeps firing is covered without a gap, as  *)
(* events every half TTL renew the lease before it expires.  It takes a    *)
(* TTL of more than two ticks, as the event waits for the tick after       *)
(* EmitInterval, an EmitInterval that the fine resolution does not raise,  *)
(* and every event to get through.  After a restart lastEvent is restored  *)
(* and the leases are not, so that the target may be open until the        *)
(* trigger has held for EmitInterval too.                                  *)
Covered ==
  /\ up /\ Idle /\ ~Blocked /\ lossless /\ Refresh
  /\ TTL > 2 * TickPeriod /\ TTL >= 2 * FineResolution
  => \A id \in Ids :
       Held(id, Sustained) /\ (restored => Held(id, EmitInterval)) => id \in Leased

(* The controller never sleeps past an expiry, whatever order events,      *)
(* refreshes and expiries come in.                                         *)
WakesInTime == \A id \in Leased : timer <= left[id]

(* Once everything is delivered the manager holds a route for each lease   *)
(* and for nothing else.                                                   *)
RoutesFollowLeases == up /\ out = <<>> /\ updates = <<>> => routes = Leased

(* Nothing stays in the BGP table for which no lease is left.              *)
NothingStaleUpstream == out = <<>> => rib \subseteq {nlri[id] : id \in Leased}

(* A drop rule ends with what it answers to: once everything is delivered, *)
(* the manager has a rule only for a trigger that a tick of this process   *)
(* found true less than a TTL ago.  Event, lease and withdraw may each add *)
(* a delay, and lastEvent and trueSince may be older than the process; it  *)
(* only takes that no unit of time passed with the controller waiting to   *)
(* send (applyEvent, expire, nextWake).                                    *)
Released ==
  up /\ Idle /\ ~Blocked /\ lossless /\ updates = <<>> =>
    \A id \in routes : quiet[id] < TTL

(* Events dropped, evictions and a restart are made up for: once the       *)
(* manager keeps up, that is no unit of time passes with the controller    *)
(* waiting to send, a trigger that is true at every tick has a route again *)
(* and again.  Without that a dropped event can be dropped for ever, as    *)
(* lastEvent is set before the send (shouldEmit, Runner.Run).              *)
EventuallyCovered ==
  \A id \in Ids :
    /\ <>[](up => trueFor[id] # None)
    /\ <>[][Time => ~Blocked]_vars
    => []<>(id \in routes)
=============================================================================
