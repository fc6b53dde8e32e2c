# A TLA+ model of flowspec-vpp-agent

The agent receives BGP FlowSpec rules, and makes its own from sampled traffic,
and keeps two *Managed ACLs* in VPP (one per address family) that drop what the
rules match. This directory models the parts of the agent in which the order of
steps matters and the algorithms that decide what is dropped, model-checks them
with TLC on small instances, and proves most of the safety properties (of the
reference-counting core, the relay of updates, the leases, the detector's
admission, the statistics' poller, the shared ACL list and the shutdown) with
TLAPS for every instance.

## The system

    BGP peers ──> bgp.Server ──> updates ──> manager ──> vpp.Client ──> VPP
                     ^             ^            (refcount)
                     | Advertise   | updates
    samples ──> detector ──> events ──> localrules.Controller

* **bgp** embeds GoBGP. Paths and peer state changes become `Update`s
  (announce, withdraw, session down) on a bounded channel; a send blocks until
  it is taken. It also originates the detector's rules upstream.
* **flowspec / translate** turn an NLRI into a `Rule` and a rule into one ACL
  entry, or refuse it.
* **manager** is one goroutine. It counts, per ACL key and session, the routes
  that stand for the key, and replaces the ACL of every family whose desired
  set changed.
* **vpp** keeps the connection, creates the pair of ACLs, attaches it last on
  every selected interface, makes it anew after a reconnect, deletes orphans
  that carry its tag and takes the pair out on exit.
* **detector** feeds samples to rules; each keeps a bounded store of instances
  and emits events at thresholds. **localrules** turns events into leases that
  it announces, refreshes and withdraws.
* **vppstats** polls interface counters into rings; a **state file** carries
  detector and statistics over a restart.
* **agent** (`cmd/flowspec-vpp-agent`) starts these as goroutines, joins them by
  channels and undoes the set-up in reverse order at the end.
* **samplers**, **logging** and **configuration** are input and output.

## Modules

| Module | Models | Role |
| --- | --- | --- |
| `RefCount` | `manager/refcount.go` | the tables and the operations on them, as operators |
| `Manager` | `manager/manager.go`, `reconcile.go` | one action per update, pushes that may fail |
| `RouteTable` | the promise of the manager | abstract specification: which key each session holds under which text, no counts |
| `ManagerProofs` | | theorems about `Manager` |
| `AclList`, `AclListProofs` | `vpp/attach.go`, `cleanup.go` | the rewrites of an interface's ACL list, as operators |
| `SharedList`, `SharedListProofs` | `vpp/attach.go`, `cleanup.go` | an interface's list under agent and operator |
| `VppClient` | `vpp/client.go`, `acl.go`, `attach.go`, `cleanup.go` | bootstrap call by call, reconnect, push, close, with VPP and the manager as environment |
| `Mitigation`, `MitigationProofs` | `localrules/controller.go`, emission in `detector/rule.go`, `store.go`, `runtime.go`, `bgp/advertise.go` | events, leases, their routes and NLRIs, restart from a dump |
| `Translate` | `translate/*.go`, `flowspec/parse.go` (action) | the reductions as operators, and the packets that an NLRI and an ACL rule match |
| `RuleParse` | `flowspec/parse.go`, `rule.go`, `normalize.go` | a rule built component by component |
| `VppStats`, `VppStatsProofs` | `vppstats/*.go`, the reads in `detector/rule.go` | poller, store and windows, with VPP's interfaces as environment, dump and late import |
| `Targets`, `TargetsProofs` | `detector/store.go`, `heavykeeper.go`, `spread.go`, `persist.go`, parts of `rule.go` and `compile.go` | what a rule remembers: sketch, pool, rings, diversity gate |
| `Emission` | `detector/compile.go`, `rule.go`, `packet/packet.go` | from a packet's headers through the descriptor to the FlowSpec rule, and through `Translate` to what VPP drops |
| `Agent`, `AgentProofs` | `cmd/flowspec-vpp-agent/main.go`, `persiststate.go`, `bgp/server.go`, `watch.go`, `detector/runtime.go` | the goroutines, their channels, start, stop and the state file |
| `MC*` | | instances for TLC |

### Manager

`tables` is the record of the maps of `Manager` (`entries` with its owner
counts, `sessionRules`, `sessionRoutes`); a key that is absent in Go is 0, `{}`
or `NoKey`. `Run` handles an update to its end before it takes the next, so an
update is one action: the tables change, then each dirty family is pushed and
each push independently works or fails (`Reconcile`). A failed push is dropped,
as in the code; `failed` remembers it. `Recreate` is the client making both
ACLs anew and empty after a reconnect. Translation is the constant function
`aclKey`; the text of an NLRI is the constant function `routeIdentity`, and
nothing is assumed of it: NLRIs may share a text, as an IPv4 and an IPv6 one
without prefixes do. `RouteTable` is what the manager promises under that
identity. A session holds one key per text, the last one announced, and what is
wanted in a family is the keys that some session holds.

### VPP client

A VPP call is one action, because the connection can go and VPP can restart
between any two. `h` is the thread that holds `opMu` in `bootstrapLocked` (first
`Connect`, later `handleEvents`, at the end `Close`) with its local variables;
`Push` is the manager's `ReplaceACL`, which waits for `opMu`. A call whose
context has been cancelled reads no reply and may or may not have reached VPP.
VPP itself (indices handed out lowest first, `acl_del` refused while attached,
`acl_interface_set_acl_list` refused for an unknown interface or ACL) is
external and modelled from how the client uses it. The manager is reduced to
what it wants and what it has still to push. Enumerating an interface list goes
through `AclList`, which `SharedList` exercises with edits of the operator
between two rewrites.

### Mitigation

Times are ages (`trueFor` of `trueSince`, `sinceEvent` of `lastEvent`) and
remaining times (`left` of a lease, `timer`), so that time needs no bound; an
age stops where no comparison tells it apart. `Tick` evaluates every instance,
the set that fires being the environment's choice, sets `lastEvent` and sends
without blocking. `ApplyEvent` and `Expire` are the two handlers of
`Controller.Run`; their sends wait for room in the updates channel one by one
(`Send`, followed by `Advertise`), and `Take` is the manager. A unit of time
passes when the runner and the controller have done what they can, so the only
delay is a controller blocked by a manager that does not take updates. `Stop`
ends the process, with or without a dump; the dump has `lastEvent` and
`trueSince`, never leases. Which instances fire is free, so samples, rings and
expressions are abstracted; an eviction is free too. The history `quiet` counts
the time since a tick of this process last found the trigger true; it is
followed while `lossless`, that is while no event was dropped and no send had to
wait. An `Advertise` that fails, which the controller
only logs, is left out: it fails for a match that cannot be encoded, which the
compiler and the translation have accepted before, or when the speaker has
stopped. Dry run, a TTL that is not
positive (refused at compilation), an expression that cannot be evaluated and
a template that does not render are left out. The process ends at most once
(`MaxStops`): a second end that saves nothing would bring back the first dump,
which the model does not keep.

### Translate

`RuleParse` makes every rule with a few components a state. The operators of
`Translate` are the reductions: interval sets with sort and merge
(`Normalize`), the OR-of-AND terms (`TermsUnion`), exact values, and flags as
sets of bits. The references are written from the meaning of the operators, not
from the code: `RulePackets` (some term holds) and `AclPackets` (VPP, external).
Fields are scaled down, with `ByteMax <= PortMax` kept.

### VPP statistics

`heap` holds the `interfaceRings` objects and `rings` and `byAlias` point into
it, because `Import` replaces an object that an alias may still point to. A poll
is `Poll` (the counters are read) followed by one `AddRate` per interface found
in both snapshots, as `Import`, which takes the lock of the store, can come in
between: the poller is started first. VPP's interfaces (`Create`, `Delete`,
`Rename`, `Clear`, `Traffic`) are external. One counter stands for the six,
which are handled alike. Floating-point means are integer divisions of rates in
multiples of `Scale`, which is divisible by all the counts that occur, so that
they are exact. `log` records the samples given to the store, and the reference
of a window is written over it without rings; `account` compares rates with
packets. `log` and `polled`, which has the samples of the last poll, are
histories that an import does not rewrite. A sample is marked `early` when it was
added before the import of its process. An import puts the file's rings in the
place of those that have the same name, so the early samples of these are lost
(`Discarded`), and the aliases of an early sample can lead to either object
(`Overtaken`). The properties name these two cases and claim everything else.

### Targets

One rule. Descriptors and their hashes are keys; `Index` says where each row
hashes a key, so that collisions are chosen by the instance. The draw of
`decayHits` is free in each row, and so is the order in which `weakestOfSample`
meets the instances. Ageing, an exponential in the code, divides by `Divisor`
of the elapsed time. `Observe` is the whole of `Rule.Observe`: sketch, admission,
gate, rings. Samples and ticks may be `lag` old when they are taken. `Restart`
is `Export` and `Import`, for a rule with the same fingerprint or another: rings
survive, sketch and gate do not. The history variables are `weight` (a counter
for each target, aged alike), `folded` (the samples in its rings, in order)
and `seen` (regions in order). What the compiler refuses is an assumption
(`HistoryOK`, `RatioOK`).

### Emission

A scenario is a configuration and the packets of the wire. `Compile` loads or
refuses it, `Observe` decodes a packet as far as the sampler captured it and
counts it under its descriptor, and `Fire` emits for any counted descriptor.
What is dropped is `AclPackets` of `Translate` of the emitted rule, so the
properties compare the two ends: headers and VPP. A field is emitted by default,
not at all, as a literal or by a template of its own variable; other templates
(text that happens to parse, or a variable of another field) are left out.

### Agent

One action per step of a goroutine that others can observe. `watch` is GoBGP's
queue towards the callback, `callback`, `forwarder`, `notifying` and `sending`
are values that a goroutine holds while it waits in a `select`. `main` is where
`run` is: starting, running, joining the runner, saving (`Export`, `Write`,
`Rename`), then the deferred calls, speaker, client, HTTP. `StartFails` is the
early return after the speaker was started and before the manager runs, with
ctx not done. `Restart` at any step is a kill. The manager is its routes per
session, which `ManagerProofs` justifies, VPP takes every push and every
re-bootstrap works (`VppClient` has the failures).

## Runs

| Run | Shows |
| --- | --- |
| `manager` | counts equal routes; indexes agree; a family pushed without error holds the rules of the announced routes; an entry goes only with its last holder, also when two NLRIs share a text; the counted tables implement `RouteTable` |
| `shared_list` | the operator's part of a list is never changed; after an attach the pair is last, and no index is there twice |
| `client` | at rest the wanted rules are in VPP, on every interface, without orphans; a calm exit leaves nothing; the operator's ACLs stay, after two faults at any step |
| `client_live` | with interfaces coming and going and a VPP that boots with ACLs: rules come back; the operator's ACLs are exposed only while a Connected event is queued |
| `client_iface_gone` | **violated**: a re-bootstrap that fails is neither retried nor followed by a resync |
| `mitigation` | with refresh a firing target is covered without a gap, except for one emit interval after a restart; the controller never oversleeps an expiry; the manager's routes equal the leases and nothing stale stays upstream; a rule outlives the last true evaluation of its trigger by less than a TTL, through evictions and a restart; lost events are made up for |
| `stats` | windows are what the samples say, through slot reuse, restarts and changed configurations, but for the samples that a late import discards; rates never exceed what was received; an ifindex leads to the rings of the interface that has it, unless a late import replaced them |
| `stats_total` | **violated**: the rate of an interface that was renamed or deleted stays in the total |
| `targets` | the sketch never overestimates; windows and the gate count exactly; admission evicts only for a heavier target and admits every target that outweighs the pool |
| `emission` | an instance's rule drops what the instance counted and nothing of another instance, and is installable |
| `agent` | no update lost or overtaken; a resync after every reconnect, given that every re-bootstrap works and every push succeeds (`client_iface_gone` is the case where one does not); a state file that is whole and final; convergence, termination from anywhere, answered status requests |
| `translate` | an accepted rule matches the same packets in VPP; port lists are refused only when they are no single range |

The types of the manager's and of the mitigation's state are proved rather than
checked (`TypeCorrect`); `targets` checks `TypeOK` for the limit of the pool and
the shape of the rings, which is proved too.

Bounds. `manager`: two sessions, NLRIs that collapse to one key within and
across families, one that is not translatable, and two of different families
with one text; two sessions suffice to tell a last holder from another. `client`: two interfaces (an attach can stop half
way), at most `MaxFaults` losses and kills (two, so that the second meets the
handling of the first), interfaces deleted and created at most once. VPP hands
out the lowest free index, without a limit, and reuses indices as it does.
`mitigation`: two instances with one NLRI, a TTL of 5 with a tick of 2 and an
emit interval of 2, so that ticks and expiries interleave; queues of two events
and one update, so that both fill; one end of the process and one eviction.
`stats`: two indices and two names, so that a name and an index can each go to
another interface; rings of two or three slots, so that time goes round them; a
clock that starts at `Base`, far enough from 0 that, as with Unix time, the
epochs of one moment at two resolutions are not neighbours;
configurations with as many slots at another resolution, with fewer, and with a
duration below the resolution. Long times, changes and packets are bounded by
three budgets rather than together. `targets`: three keys for two places, all in
one bucket in one row and one of them alone in the other; seven scenarios, each
with room for what it is about (collisions; restart; time; four gates).
`emission`: fields are varied in groups, with packets that tell the values
apart; addresses of one and two bits, ports up to `PortMax`, with steps that do
not divide it. `agent`: two peers, one without receive, channels of one place,
so that every send meets a full one; budgets of a few events of each kind, in
combinations.
`translate`: three items, which OR mixed with AND needs; operands 0, inside, at
and beyond the limit; two flag bits, as many as tell one from several.

Fairness of `mitigation`: weak fairness of the ticker, the controller, the
manager, the clock and a supervisor that starts the process again.
`EventuallyCovered` assumes on top that the manager keeps up from some time on;
otherwise the event of a target can be dropped each time.

Fairness (`client_live`): weak fairness of the client's and the manager's
steps, which are goroutines that only wait for `opMu` or a channel; weak
fairness of `Reconnect`, as GoVPP retries without end; strong fairness of
`Resync`, as the updates channel is first in, first out and updates cannot
overtake it for ever. Deadlock is not checked for the client because it may end.

Fairness of `agent`: weak fairness of each goroutine's next step, and of each
`select` case that stays ready (a closed channel, a reply). The channels are
first in, first out and the senders' turn comes as the manager goes on taking
updates. Nothing is assumed of peers, signals, failures and kills. Deadlock is
not checked where a run may end (`stats`, `targets`, `emission`, `agent`):
budgets run out and the process exits; that it does not hang before is
`Terminates`.

Seen while modelling, beyond the runs: an interface created after the attach
gets no ACLs until the next reconnect; with `mode: list` orphans on interfaces
that are no longer selected cannot be deleted; a shutdown while a reconnect is
handled forgets the previous pair (`CleanExit` therefore speaks of calm exits);
a VPP that goes away during the first bootstrap ends the agent. Further,

* the text that identifies a route (`refcount.go:148`) has no family, so an IPv4
  and an IPv6 NLRI without prefixes replace each other: the session holds one
  rule where its peer announced two. `RouteTable` states this, and the manager
  implements it;
* between a reconnect to a restarted VPP and its Connected event a push uses an
  old index (`acl.go:30`), which may be the operator's ACL now; `StaleWindow`
  bounds the exposure;
* after a restart from a dump the downtime counts as sustained
  (`detector/persist.go:118`), so that an event may follow the first true tick.
  No property says how long a trigger must have held; `Released` says when the
  rule ends;
* `docs/en/configuration.md:492` says that an interface whose "ring shape changed
  (resolution/duration)" is skipped on reload. `importRing`
  (`vppstats/persist.go:115`) compares the number of slots alone, so a ring of
  another resolution with as many slots is restored. `WindowExact` shows that
  its epochs are not taken for current ones;
* the comment of `Import` says "Call before the poller starts"
  (`vppstats/persist.go:70`), and `run` starts the poller first (`main.go:203`).
  Samples that come before the import of their interface are lost, and an
  ifindex may lead to replaced rings until the next poll;
* two leases with one NLRI: the first to expire withdraws it upstream
  (`controller.go:190`); `NothingStaleUpstream` holds, its converse does not;
* protocol 0 becomes any protocol (`proto.go:42`), the exception in `Equivalent`
  and `DropsOnlyItsInstance`;
* restored instances weigh nothing until their next samples, so that a newcomer
  may displace one that was heavy (`store.go:247`); `EvictsLighter` counts
  traffic since the start;
* an ifindex that was polled without a name keeps rings under the index, which
  `findRing` finds before the alias (`vppstats/store.go:171`);
* packets whose transport header was not captured, later fragments among them,
  are counted under port 0 or type 0, and a rule for that drops other packets
  than those counted; `Readable` leaves them out;
* a port range given in `aggregate` is copied whether or not it holds the
  packet's port (`PortsHold`); a template that renders a range or `any` never
  parses, so that the rule compiles and never emits (`BuildFails`).

## Proofs

`ManagerProofs` assumes only `RefCountAssumption`:
finitely many routes and keys, and the types of the three constant functions.

`AclMatchesRoutes` is not inductive: that a push is exact depends on the
counts. The invariant `Inv` adds `Consistent`: every count is the number of the
session's routes for the key, entries are the keys with a count and a session
lists the keys it counts for. `ForgetRoute` and `RememberRoute` say what one
route does to a cardinality; `RemoveRouteSound`, `AddRouteSound`,
`AnnounceRouteSound` and `DropSessionSound` say that each operation keeps the
tables consistent and reports dirty at least the families whose desired set it
changed; `UpdateInv` then covers every handler, whichever pushes fail.
`TypeCorrect`, `CountsCorrect`, `IndexesCorrect` and `AclCorrect` follow.

`Refinement` and `HoldersDecide` assume nothing of the texts. The mapping takes
the routes of a session, text and key, for what it holds. `DesiredIsRouted` says
that in consistent tables the desired keys are those some session has a route
for, which makes the abstract wanted set the desired one (`WantedIsDesired`);
`AnnounceRouteSound` and `HeldAfter` say what each operation does to the
routes, and `AnnounceRefines`, `RemoveRefines` and `SessionDownRefines` that it
is the abstract step.

`TargetsProofs` assumes `TargetsAssumption` alone: any keys, rows, hash
functions, pool and sample sizes and divisors, any resolutions and lengths of
the three rings that the compiler accepts, and times that are natural numbers.
`SketchInv` strengthens
`NeverOverestimates` by where a key's buckets are (a bucket that counts belongs
to a key hashed there) and by equality for a key that is alone in its bucket.
`AddBucketFacts`, `DecayBucketFacts` and `AgedMonotone` say what one bucket does;
ageing keeps the order of two counts, which is why a sketch that is aged
together with the exact counters stays below them. `AdmissionEvictsLighter` and
`AdmissionHeavierDisplaces` combine the two bounds (an estimate is at most the
weight, and equal to it in a private bucket) with what `Admit` may do to the
pool (`ObservePool`).

`WindowsExact` is `RingExact`. A slot is reused for every epoch with the same
remainder, so that the property, which is about the epochs of a window, is not
inductive. `RingInv` says, of the instances in the pool and of those in the
state file, what every slot holds (`Fit`): no epoch later than the last
sample's, one that belongs in the slot or none, the packets of that epoch, and
for every sample an epoch no earlier than its own. `FitAdd` shows that a sample
keeps this; it needs that samples come in the order of their times, and is where
the reset of a stale slot is used. Two epochs in one slot are at least as far
apart as there are slots (`SameSlot`), and the windows for which `chooseRing`
finds a ring reach back less than that (`Chosen`, `WindowWithin`), so a slot
that holds another epoch means there was no sample (`SlotAnswers`). The size of
the pool is in the same invariant (`AdmitFits`); with `SketchInv` it gives
`TypeCorrect`.

`AgentProofs` assumes `AgentAssumption`. `SaveInv` ties the temporary file, the
exported state and the runner to where `run` is: the export happens after the
runner is done, after which nothing changes the engine, and the file is only
ever replaced by a temporary file that is complete. `StateFileWhole` and
`ShutdownSavesLastState` follow. `ResyncInv` adds to `ResyncComes` that the
channels are sequences, so that appending and taking at the two ends never loses
a resync that is queued (`ConcatHolds`, `AppendHolds`, `TailHolds`).

`NoUpdateLost` is `NothingLost`: what is under way between a peer and the
manager, applied in order to the manager's routes, gives what the peer has
announced, and the same for the controller and its leases. The property itself
is about one queue, `Underway`; the steps move updates between six. `RelayInv`
therefore states it queue by queue (`FlowInv`: `After` of one queue on top of
`After` of the next), with the kinds of update each queue can hold
(`QueueInv`). `AfterConcat`, `AfterAppend` and `AfterHead` say what appending,
taking and moving an update do to the result, `HandledEvent` that the callback
makes of an event an update with the same effect, and `OtherFlows` that the two
senders into one channel do not touch each other's routes. It holds while the
agent starts, too, when updates wait for a forwarder and a manager that do not
run yet; once ctx is done or the speaker is stopped, nothing is promised
(`Serving`).

`MitigationProofs` assumes `MitigationAssumption`: any finite set of instances,
any times, queue lengths and number of evictions. `TypeInv` has the ranges.
`RouteInv` says of every id that the last update under way for it decides, by
which `ManagerFollows` holds when nothing is under way; `RibInv` that what is in
the BGP table has a lease or a withdraw under way. `WakesInTime` is inductive
with the types. For `CoveredWithoutGap` two invariants are needed: `AgeInv`
relates the ages (a condition that has held long enough has had an event no
longer ago than an emit interval and a tick) and `LeaseInv` says that an event
of this process is still queued, or that the lease has at least its TTL less
the time since. `Covered` speaks of conditions that had held
long enough at the last tick, which is when the code looks.
`RulesEnd` is `Released`. Its invariant `QuietInv` says that what is left of a
lease is at most the TTL less the time since its trigger was last true, and that
the trigger of an event in the queue has just been found true (`QuietStep`); a
route without a lease has its withdraw under way by `RouteInv`.

`VppStatsProofs` assumes `VppStatsAssumption` (an even `Scale`, so that a
halved rate is exact, and values that stand for nothing apart from the rest).
`AccountInv` says that what was credited, and what the next rate will credit,
is at most what arrived, and equal to it when the counter was never reset;
while a poll is under way this is said of the interfaces already added and of
those still to come. `PollInv` says which snapshot those refer to. `StoreInv`
and `PolledInv` follow the pointers: a sample of the last poll is in the object
that its name leads to, and the alias leads to the same one, unless it was
added early and an import has brought its name or its index (`Overtaken`).

`AclListProofs` has the lemmas about `Kept`, the loop of `splitNonManaged`:
its range, that it distributes over concatenation, that filtering twice is
filtering by the union and that it keeps a list free of duplicates; `Halves` and
`DetachedIs` lift them to the two directions. `SharedListProofs` assumes
`SharedListAssumption`, that VPP gives no index twice. `SharedInv` says that
the list consists of two directions without a common index, each without a
duplicate, whose part without the agent's indices is the operator's;
`ManualNeverTouched` and `PairEndsLast` follow for any sets of indices and any
history.

Where a proof needed an induction over data (a queue, a list, a loop), it is
made with the least counterexample: the well-foundedness of the naturals is
cited on a set (`LeastNatural`, `Induction`, `SequenceInduction`), so no
operator has to be instantiated. The loops are recursive functions for that
reason. Out of reach remain the operators of the community modules that take an
operator as parameter, `SelectSeq` among them.

Two definitions of the model had `CASE` arms that were not exclusive, which TLC
resolves by order and the prover does not; they were found by failing proofs
and are exclusive now (`HandleEvent` in `Agent`, `EmitValue` in `Emission`).

Only model-checked are liveness (`Recovers`, `EventuallyCovered`, `Converges`,
`Terminates`, `StatusAnswered`), which is out of the prover's reach; the client
(`Enforced`, `NoOrphans` and the others of `client` and `client_live`), whose
properties depend on bounds on faults and on VPP's choice of indices; the
windows of the interface rates (`WindowExact`), which sum over sets, and the
gate (`SpreadExact`), which counts the positions of a sliding window; and the translation and the emission, which are functions
compared with a reference over enumerated inputs.

## Not modelled

* The set-up of peers and policies (`bgp/policy.go`, `addPeer`), flags, the
  conversion of the configuration and the loading of the rules directory run
  once, in order, before there is anything to interleave with.
* The configuration's parser, trigger expressions, template syntax, durations,
  the memory estimate and the status snapshot are functions of text. A trigger
  is any predicate in `Mitigation`.
* The wire formats (sFlow, netlink, the NLRI encoding, VPP's binary API, the gob encoding
  of the state file)
  are byte layout. IP headers are decoded in `Emission`.
* Logging and its Telegram sink are output that nothing reads back.
* A wall clock that is set back, an operator's edit between the dump and the
  write of an interface list, and more than 255 ACLs on an interface: the code
  has no answer to these, and no claim about them.
