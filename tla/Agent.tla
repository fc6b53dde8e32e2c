------------------------------- MODULE Agent -------------------------------
(***************************************************************************)
(* The goroutines of the agent around the manager (cmd/flowspec-vpp-agent/ *)
(* main.go), and how they stop: GoBGP's watch callback and the updates     *)
(* channel of internal/bgp, the forwarder, the reconnect callback and the  *)
(* lease controller that share the manager's updates channel, the          *)
(* detector's runner and the /status requests it answers, the state file,  *)
(* and the order in which run undoes what it set up.                       *)
(*                                                                         *)
(* What the manager, the VPP client, the leases and the detector do with   *)
(* an update, a rule or a sample is in Manager, VppClient, Mitigation and  *)
(* Targets.  Here the manager's table is the routes of each session, VPP   *)
(* takes every push, and the detector's state is the number of samples in  *)
(* it.                                                                     *)
(***************************************************************************)
EXTENDS Integers, Sequences, FiniteSets, Functions

CONSTANTS
  Peers,       \* configured BGP peers
  Receive,     \* those with receive set
  Local,       \* the session of the lease controller
  Routes,      \* FlowSpec routes
  Unusable,    \* those whose path does not decode
  Paths,       \* bound: peers and the routes they may announce
  BgpCap,      \* capacity of Server.updates
  UpdatesCap,  \* capacity of the manager's updates channel
  Torn,        \* a state file cut short
  Budgets      \* bounds: events of each kind in a behaviour

ASSUME AgentAssumption ==
  /\ Receive \subseteq Peers /\ Local \notin Peers /\ Unusable \subseteq Routes
  /\ Paths \subseteq Peers \X Routes
  /\ {BgpCap, UpdatesCap} \subseteq Nat \ {0}
  /\ Torn \notin Int

VARIABLES
  established,\* peers whose session is up
  rib,        \* peer -> adj-rib-in, {} when the session is down
  watch,      \* GoBGP's events that the callback has not got yet
  callback,   \* the update that the callback is sending, <<>> or one
  bgpUpdates, \* the channel Server.updates
  forwarder,  \* the update that the forwarder is sending, <<>> or one
  forwards,   \* it runs
  notifying,  \* OnReconnect is sending a resync
  lease,      \* routes leased by the controller
  sending,    \* updates the controller has still to send
  updates,    \* the manager's updates channel
  table,      \* session -> its routes in the manager
  installed,  \* rules in VPP
  engine,     \* samples in the detector's state
  runner,     \* "none", "run", "replying" or "done"
  request,    \* a /status request: "idle", "asking", "waiting"
  reply,      \* its reply channel holds the snapshot
  main,       \* where run is
  cancelled,  \* ctx is done
  stopped,    \* stopCh is closed
  file,       \* the state file, -1 when there is none
  temp,       \* the temporary file, likewise
  exported,   \* the state to be written
  saved,      \* history: this shutdown's rename succeeded
  budget      \* what is left of the bounds

bgp == <<established, rib, watch, callback>>
relay == <<forwarder, forwards>>
control == <<lease, sending>>
manager == <<table, installed>>
detector == <<engine, runner>>
http == <<request, reply>>
disk == <<file, temp, exported, saved>>
process == <<main, cancelled, stopped>>
vars == <<bgp, bgpUpdates, relay, notifying, control, updates, manager, detector, http, disk,
          process, budget>>

Sessions == Peers \cup {Local}
Update(op, s, r) == [op |-> op, session |-> s, route |-> r]
Resync == Update("resync", Local, Local)

(* The process has got past the return of run, or the deferred calls.      *)
Ending == main \notin {"starting", "running"}
Alive == main # "exited"

Started ==
  /\ established = Peers /\ rib = [s \in Peers |-> {}]
  /\ watch = <<>> /\ callback = <<>> /\ bgpUpdates = <<>> /\ forwarder = <<>> /\ forwards = TRUE
  /\ notifying = FALSE /\ lease = {} /\ sending = <<>> /\ updates = <<>>
  /\ table = [s \in Sessions |-> {}] /\ installed = {}
  /\ engine = 0 /\ runner = "none" /\ request = "idle" /\ reply = FALSE
  /\ main = "starting" /\ cancelled = FALSE /\ stopped = FALSE
  /\ temp = -1 /\ exported = 0 /\ saved = FALSE

Init == Started /\ file = -1 /\ budget \in Budgets

Spend(kind) == budget[kind] > 0 /\ budget' = [budget EXCEPT ![kind] = @ - 1]

-----------------------------------------------------------------------------
(* The peers, as GoBGP reports them.  Events are queued without bound and  *)
(* given to the callback one after the other.                              *)

Speaking == main \notin {"vpp", "http", "exited"}

Announce(s, r) ==
  /\ Speaking /\ s \in established /\ r \notin rib[s] /\ Spend("peer")
  /\ rib' = [rib EXCEPT ![s] = @ \cup {r}]
  /\ watch' = Append(watch, Update("announce", s, r))
  /\ UNCHANGED <<established, callback, bgpUpdates, relay, notifying, control, updates, manager,
                 detector, http, disk, process>>

Withdraw(s, r) ==
  /\ Speaking /\ s \in established /\ r \in rib[s] /\ Spend("peer")
  /\ rib' = [rib EXCEPT ![s] = @ \ {r}]
  /\ watch' = Append(watch, Update("withdraw", s, r))
  /\ UNCHANGED <<established, callback, bgpUpdates, relay, notifying, control, updates, manager,
                 detector, http, disk, process>>

SessionDown(s) ==
  /\ Speaking /\ s \in established /\ Spend("peer")
  /\ established' = established \ {s}
  /\ rib' = [rib EXCEPT ![s] = {}]
  /\ watch' = Append(watch, Update("state", s, "idle"))
  /\ UNCHANGED <<callback, bgpUpdates, relay, notifying, control, updates, manager,
                 detector, http, disk, process>>

(* On its way up a session passes states that are not established.         *)
SessionUp(s) ==
  /\ Speaking /\ s \notin established
  /\ established' = established \cup {s}
  /\ watch' = Append(Append(watch, Update("state", s, "openconfirm")), Update("state", s, "established"))
  /\ UNCHANGED <<rib, callback, bgpUpdates, relay, notifying, control, updates, manager,
                 detector, http, disk, process, budget>>

-----------------------------------------------------------------------------
(* handleEvent: the update of an event, if any.  A session that is not     *)
(* established is down, also on its way up.                                *)
HandleEvent(e) ==
  CASE e.op = "state" /\ e.route = "established" -> <<>>
    [] e.op = "state" /\ e.route # "established" -> <<Update("down", e.session, e.session)>>
    [] e.op # "state" /\ (e.session \notin Receive \/ e.route \in Unusable) -> <<>>
    [] OTHER                                     -> <<e>>

Callback ==
  /\ Speaking /\ callback = <<>> /\ watch # <<>>
  /\ callback' = HandleEvent(Head(watch))
  /\ watch' = Tail(watch)
  /\ UNCHANGED <<established, rib, bgpUpdates, relay, notifying, control, updates, manager,
                 detector, http, disk, process, budget>>

(* Mutant: a full channel drops the update.                                *)
SendOrDrop ==
  /\ Speaking /\ callback # <<>>
  /\ bgpUpdates' = IF Len(bgpUpdates) < BgpCap THEN bgpUpdates \o callback ELSE bgpUpdates
  /\ callback' = <<>>
  /\ UNCHANGED <<established, rib, watch, relay, notifying, control, updates, manager,
                 detector, http, disk, process, budget>>

(* Server.send blocks until there is room, or until stopCh is closed.      *)
Send ==
  /\ Speaking /\ callback # <<>>
  /\ \/ Len(bgpUpdates) < BgpCap /\ bgpUpdates' = bgpUpdates \o callback
     \/ stopped /\ UNCHANGED bgpUpdates
  /\ callback' = <<>>
  /\ UNCHANGED <<established, rib, watch, relay, notifying, control, updates, manager,
                 detector, http, disk, process, budget>>

(* The forwarder: from Server.updates to the manager's updates.            *)
Take ==
  /\ Alive /\ forwards /\ forwarder = <<>> /\ bgpUpdates # <<>>
  /\ forwarder' = <<Head(bgpUpdates)>>
  /\ bgpUpdates' = Tail(bgpUpdates)
  /\ UNCHANGED <<forwards, bgp, notifying, control, updates, manager, detector, http, disk, process, budget>>

(* Mutant: it returns after an update.                                     *)
ForwardOnce ==
  /\ Alive /\ forwards /\ forwarder # <<>> /\ Len(updates) < UpdatesCap
  /\ updates' = updates \o forwarder
  /\ forwarder' = <<>> /\ forwards' = FALSE
  /\ UNCHANGED <<bgp, bgpUpdates, notifying, control, manager, detector, http, disk, process, budget>>

Forward ==
  /\ Alive /\ forwards /\ forwarder # <<>> /\ Len(updates) < UpdatesCap
  /\ updates' = updates \o forwarder
  /\ forwarder' = <<>>
  /\ UNCHANGED <<forwards, bgp, bgpUpdates, notifying, control, manager, detector, http, disk, process, budget>>

ForwarderStops ==
  /\ Alive /\ forwards /\ cancelled
  /\ forwards' = FALSE /\ forwarder' = <<>>
  /\ UNCHANGED <<bgp, bgpUpdates, notifying, control, updates, manager, detector, http, disk, process,
                 budget>>

-----------------------------------------------------------------------------
(* A reconnect finds the Managed ACLs re-created empty, and OnReconnect    *)
(* then sends a resync.  The client's next event waits for it.             *)
Reconnect ==
  /\ Alive /\ ~cancelled /\ ~notifying /\ Spend("reconnect")
  /\ installed' = {}
  /\ notifying' = TRUE
  /\ UNCHANGED <<bgp, bgpUpdates, relay, control, updates, table, detector, http, disk, process>>

(* Mutant: a full channel drops the resync.                                *)
OnReconnectOrDrop ==
  /\ Alive /\ notifying
  /\ updates' = IF Len(updates) < UpdatesCap THEN Append(updates, Resync) ELSE updates
  /\ notifying' = FALSE
  /\ UNCHANGED <<bgp, bgpUpdates, relay, control, manager, detector, http, disk, process, budget>>

OnReconnect ==
  /\ Alive /\ notifying
  /\ \/ Len(updates) < UpdatesCap /\ updates' = Append(updates, Resync)
     \/ cancelled /\ UNCHANGED updates
  /\ notifying' = FALSE
  /\ UNCHANGED <<bgp, bgpUpdates, relay, control, manager, detector, http, disk, process, budget>>

(* The controller: an event or an expiry changes a lease, then the update  *)
(* is sent, or given up once ctx is done.                                  *)
Lease(r) ==
  /\ Alive /\ runner # "none" /\ sending = <<>> /\ ~cancelled /\ Spend("local")
  /\ lease' = IF r \in lease THEN lease \ {r} ELSE lease \cup {r}
  /\ sending' = <<Update(IF r \in lease THEN "withdraw" ELSE "announce", Local, r)>>
  /\ UNCHANGED <<bgp, bgpUpdates, relay, notifying, updates, manager, detector, http, disk, process>>

(* withdrawAll: Go goes through the map of the leases in any order.        *)
WithdrawAll ==
  /\ Alive /\ cancelled /\ sending = <<>> /\ lease # {}
  /\ \E order \in Bijection(1 .. Cardinality(lease), lease) :
       sending' = [i \in DOMAIN order |-> Update("withdraw", Local, order[i])]
  /\ lease' = {}
  /\ UNCHANGED <<bgp, bgpUpdates, relay, notifying, updates, manager, detector, http, disk, process,
                 budget>>

ControllerSend ==
  /\ Alive /\ sending # <<>>
  /\ \/ Len(updates) < UpdatesCap /\ updates' = Append(updates, Head(sending))
     \/ cancelled /\ UNCHANGED updates
  /\ sending' = Tail(sending)
  /\ UNCHANGED <<bgp, bgpUpdates, relay, notifying, lease, manager, detector, http, disk, process,
                 budget>>

(* Manager.Apply on the routes of a session.                               *)
Applied(t, u) ==
  CASE u.op = "announce" -> [t EXCEPT ![u.session] = @ \cup {u.route}]
    [] u.op = "withdraw" -> [t EXCEPT ![u.session] = @ \ {u.route}]
    [] u.op = "down"     -> [t EXCEPT ![u.session] = {}]
    [] OTHER             -> t

Desired(t) == UNION {t[s] : s \in Sessions}

(* Manager.Run takes an update; what changes the desired rules, or a       *)
(* resync, pushes all of them.                                             *)
Apply ==
  /\ main = "running" /\ updates # <<>>
  /\ table' = Applied(table, Head(updates))
  /\ installed' = IF Head(updates) = Resync \/ Desired(table') # Desired(table)
                  THEN Desired(table') ELSE installed
  /\ updates' = Tail(updates)
  /\ UNCHANGED <<bgp, bgpUpdates, relay, notifying, control, detector, http, disk, process, budget>>

-----------------------------------------------------------------------------
(* Runner.Run: a sample, a request, or the end.                            *)
Sample ==
  /\ Alive /\ runner = "run" /\ Spend("sample")
  /\ engine' = engine + 1
  /\ UNCHANGED <<bgp, bgpUpdates, relay, notifying, control, updates, manager, runner, http, disk,
                 process>>

TakeRequest ==
  /\ Alive /\ runner = "run" /\ request = "asking"
  /\ runner' = "replying" /\ request' = "waiting"
  /\ UNCHANGED <<bgp, bgpUpdates, relay, notifying, control, updates, manager, engine, reply, disk,
                 process, budget>>

(* The reply channel has room for it: the runner never waits.              *)
Reply ==
  /\ Alive /\ runner = "replying"
  /\ runner' = "run" /\ reply' = TRUE
  /\ UNCHANGED <<bgp, bgpUpdates, relay, notifying, control, updates, manager, engine, request, disk,
                 process, budget>>

RunnerStops ==
  /\ Alive /\ runner = "run" /\ cancelled
  /\ runner' = "done"
  /\ UNCHANGED <<bgp, bgpUpdates, relay, notifying, control, updates, manager, engine, http, disk,
                 process, budget>>

(* statusProvider.handler asks for a snapshot.                             *)
Ask ==
  /\ Alive /\ runner # "none" /\ request = "idle" /\ Spend("ask")
  /\ request' = "asking"
  /\ UNCHANGED <<bgp, bgpUpdates, relay, notifying, control, updates, manager, detector, reply, disk,
                 process>>

(* Mutant: the request is sent without an eye on done.                     *)
AnsweredInTime ==
  /\ Alive /\ request = "waiting" /\ (reply \/ runner = "done")
  /\ request' = "idle" /\ reply' = FALSE
  /\ UNCHANGED <<bgp, bgpUpdates, relay, notifying, control, updates, manager, detector, disk,
                 process, budget>>

(* Runner.Snapshot returns with the reply, or because the runner is done.  *)
Answered ==
  /\ Alive
  /\ \/ request = "waiting" /\ (reply \/ runner = "done")
     \/ request = "asking" /\ runner = "done"
  /\ request' = "idle" /\ reply' = FALSE
  /\ UNCHANGED <<bgp, bgpUpdates, relay, notifying, control, updates, manager, detector, disk,
                 process, budget>>

-----------------------------------------------------------------------------
(* run, from the start of the speaker to the last deferred call.           *)

pipeline == <<bgp, bgpUpdates, relay, notifying, control, updates>>

(* The detector is set up: loadState, Import, and the runner started.      *)
StartDetector ==
  /\ main = "starting"
  /\ main' = "running" /\ runner' = "run"
  /\ engine' = IF file \in Nat THEN file ELSE 0
  /\ UNCHANGED <<pipeline, manager, http, disk, cancelled, stopped, budget>>

(* A rule does not compile, or the collector cannot listen: run returns an *)
(* error with ctx not done.                                                *)
StartFails ==
  /\ main = "starting" /\ Spend("failure")
  /\ main' = "bgp"
  /\ UNCHANGED <<pipeline, manager, detector, http, disk, cancelled, stopped>>

(* A signal, or a collector that failed.                                   *)
Cancel ==
  /\ Alive /\ ~cancelled /\ Spend("cancel")
  /\ cancelled' = TRUE
  /\ UNCHANGED <<pipeline, manager, detector, http, disk, main, stopped>>

ManagerReturns ==
  /\ main = "running" /\ cancelled
  /\ main' = "joining"
  /\ UNCHANGED <<pipeline, manager, detector, http, disk, cancelled, stopped, budget>>

(* Mutant: the export does not wait for the runner.                        *)
ExportNoJoin ==
  /\ main = "joining"
  /\ main' = "saving"
  /\ exported' = engine /\ temp' = Torn
  /\ UNCHANGED <<pipeline, manager, detector, http, file, saved, cancelled, stopped, budget>>

(* Mutant: the file itself is truncated and written.                       *)
ExportInPlace ==
  /\ main = "joining" /\ runner = "done"
  /\ main' = "saving"
  /\ exported' = engine /\ file' = Torn
  /\ UNCHANGED <<pipeline, manager, detector, http, temp, saved, cancelled, stopped, budget>>

(* onShutdown waits for runnerDone and exports; saveState creates a        *)
(* temporary file.  A process killed from here on leaves it behind, under  *)
(* a name of its own.                                                      *)
Export ==
  /\ main = "joining" /\ runner = "done"
  /\ main' = "saving"
  /\ exported' = engine /\ temp' = Torn
  /\ UNCHANGED <<pipeline, manager, detector, http, file, saved, cancelled, stopped, budget>>

(* It is written and closed.                                               *)
Write ==
  /\ main = "saving"
  /\ main' = "renaming"
  /\ temp' = exported
  /\ UNCHANGED <<pipeline, manager, detector, http, exported, file, saved, cancelled, stopped, budget>>

(* A step fails: the temporary file is removed.                            *)
SaveFails ==
  /\ main \in {"saving", "renaming"} /\ Spend("failure")
  /\ main' = "bgp" /\ temp' = -1
  /\ UNCHANGED <<pipeline, manager, detector, http, file, exported, saved, cancelled, stopped>>

Rename ==
  /\ main = "renaming"
  /\ main' = "bgp"
  /\ file' = temp /\ temp' = -1 /\ saved' = TRUE
  /\ UNCHANGED <<pipeline, manager, detector, http, exported, cancelled, stopped, budget>>

(* Mutant: GoBGP is stopped before stopCh is closed.                       *)
CloseStopChLate ==
  /\ main = "bgp"
  /\ main' = "gobgp" /\ stopped' = FALSE
  /\ UNCHANGED <<pipeline, manager, detector, http, disk, cancelled, budget>>

(* Server.Stop closes stopCh, then stops GoBGP, which waits for a callback *)
(* under way.                                                              *)
CloseStopCh ==
  /\ main = "bgp"
  /\ main' = "gobgp" /\ stopped' = TRUE
  /\ UNCHANGED <<pipeline, manager, detector, http, disk, cancelled, budget>>

StopSpeaker ==
  /\ main = "gobgp" /\ callback = <<>>
  /\ main' = "vpp"
  /\ UNCHANGED <<pipeline, manager, detector, http, disk, cancelled, stopped, budget>>

(* Client.Close deletes the Managed ACLs.                                  *)
CloseClient ==
  /\ main = "vpp"
  /\ main' = "http" /\ installed' = {}
  /\ UNCHANGED <<pipeline, table, detector, http, disk, cancelled, stopped, budget>>

(* shutdownHTTP waits for the requests under way, which need less than the *)
(* two seconds it gives them, and the process exits.                       *)
Exit ==
  /\ main = "http" /\ request = "idle"
  /\ main' = "exited"
  /\ UNCHANGED <<pipeline, manager, detector, http, disk, cancelled, stopped, budget>>

(* The process is started again after it has exited or was killed; the     *)
(* peers set their sessions up anew.                                       *)
Restart ==
  /\ Spend("restart")
  /\ established' = Peers /\ rib' = [s \in Peers |-> {}]
  /\ watch' = <<>> /\ callback' = <<>> /\ bgpUpdates' = <<>> /\ forwarder' = <<>> /\ forwards' = TRUE
  /\ notifying' = FALSE /\ lease' = {} /\ sending' = <<>> /\ updates' = <<>>
  /\ table' = [s \in Sessions |-> {}] /\ installed' = {}
  /\ engine' = 0 /\ runner' = "none" /\ request' = "idle" /\ reply' = FALSE
  /\ main' = "starting" /\ cancelled' = FALSE /\ stopped' = FALSE
  /\ temp' = -1 /\ exported' = 0 /\ saved' = FALSE
  /\ UNCHANGED file

Shutdown ==
  \/ ManagerReturns \/ Export \/ Write \/ Rename
  \/ CloseStopCh \/ StopSpeaker \/ CloseClient \/ Exit

Next ==
  \/ \E path \in Paths : Announce(path[1], path[2]) \/ Withdraw(path[1], path[2])
  \/ \E s \in Peers : SessionDown(s) \/ SessionUp(s)
  \/ Callback \/ Send \/ Take \/ Forward \/ ForwarderStops
  \/ Reconnect \/ OnReconnect
  \/ \E r \in Routes \ Unusable : Lease(r)
  \/ WithdrawAll \/ ControllerSend \/ Apply
  \/ Sample \/ TakeRequest \/ Reply \/ RunnerStops \/ Ask \/ Answered
  \/ StartDetector \/ StartFails \/ Cancel \/ SaveFails \/ Shutdown \/ Restart

(* Every goroutine goes on when it can: one condition for each, and for    *)
(* each case of a select that ctx or a reply makes ready for good.         *)
Fairness ==
  /\ WF_vars(Callback) /\ WF_vars(Send)
  /\ WF_vars(Take) /\ WF_vars(Forward) /\ WF_vars(OnReconnect) /\ WF_vars(ControllerSend)
  /\ WF_vars(Apply)
  /\ WF_vars(TakeRequest) /\ WF_vars(Reply) /\ WF_vars(RunnerStops) /\ WF_vars(Answered)
  /\ WF_vars(StartDetector) /\ WF_vars(Shutdown)

Spec == Init /\ [][Next]_vars /\ Fairness

-----------------------------------------------------------------------------
Serving == ~cancelled /\ ~stopped

(* What is under way for the manager.                                      *)
Underway == updates \o forwarder \o bgpUpdates \o callback \o sending \o watch

(* What should decide on a route of a session: an update of the route,     *)
(* unless the peer has no receive or the path does not decode, and the end *)
(* of the session.                                                         *)
Concerns(u, s, r) ==
  /\ u.session = s
  /\ \/ u.op = "down" \/ (u.op = "state" /\ u.route # "established")
     \/ u.op \in {"announce", "withdraw"} /\ u.route = r /\ s \in Receive \cup {Local} /\ r \notin Unusable

(* The routes of a session that had those in held, once the updates of q   *)
(* are applied: the last update that concerns a route decides.             *)
After(q, s, held) ==
  {r \in Routes :
     \/ r \in held /\ \A i \in DOMAIN q : ~Concerns(q[i], s, r)
     \/ \E i \in DOMAIN q : /\ q[i].op = "announce" /\ Concerns(q[i], s, r)
                           /\ \A j \in DOMAIN q : j > i => ~Concerns(q[j], s, r)}

(* What the manager should hold: the usable routes that the peers with     *)
(* receive announce now, and the leases.                                   *)
Wanted ==
  [s \in Sessions |-> IF s = Local THEN lease ELSE IF s \in Receive THEN rib[s] \ Unusable ELSE {}]

(* "FlowSpec must not be silently dropped": nothing is lost or overtaken   *)
(* between the peers, the leases and the manager.  Once what is under way  *)
(* is applied, the manager holds what they ask for, however full the       *)
(* channels, whoever sends in between, also while the agent starts.        *)
NothingLost == Serving => \A s \in Sessions : After(Underway, s, table[s]) = Wanted[s]

(* VPP holds the manager's rules, or a resync is on its way.               *)
ResyncComes ==
  Serving => installed = Desired(table) \/ notifying \/ Resync \in Range(updates)

(* "A crash mid-write never leaves a truncated state file."                *)
FileWhole == file # Torn

(* "Engine no longer mutated; safe to export": what an orderly shutdown    *)
(* saved is all that the detector had seen when the process ended.         *)
SavedIsFinal == saved => file = engine

(* A change comes through: from some time on the manager and VPP hold what *)
(* is asked for, unless the agent is on its way out.                       *)
Converges == <>[](Serving => table = Wanted /\ installed = Desired(Wanted))

(* A run that is told to stop, or cannot start, ends, whatever is blocked  *)
(* on a full channel: "releasing send first avoids that deadlock".         *)
Terminates == cancelled \/ Ending ~> main = "exited" \/ (main = "starting" /\ ~cancelled)

(* "A request never blocks after the runner stops": a /status request is   *)
(* answered, also one that races the end of the runner.                    *)
StatusAnswered == request # "idle" ~> request = "idle"
=============================================================================
