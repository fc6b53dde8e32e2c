----------------------------- MODULE VppClient ------------------------------
(***************************************************************************)
(* The VPP client (internal/vpp), VPP as the client uses it, and the       *)
(* manager as the client sees it.                                          *)
(*                                                                         *)
(* VPP's binary API is a table of ACLs by index and a list of indices per  *)
(* interface; a call works while the connection is up.  The connection can *)
(* drop, with or without a restart of VPP, between any two calls.  Each    *)
(* reconnect queues a Connected event; handleEvents then forgets both      *)
(* indices and runs bootstrapLocked (create both ACLs, attach, delete      *)
(* orphans) under opMu, one VPP call per step here.  The manager's         *)
(* ReplaceACL is a single call under opMu, hence one step that waits for   *)
(* the handler.  The agent can be killed and started again, or shut down,  *)
(* in which case the context of the handler's calls is cancelled.          *)
(***************************************************************************)
EXTENDS AclList, FiniteSets

CONSTANTS
  Ifaces,        \* data-plane interfaces (local0 is never one)
  Selected,      \* those the configuration selects: all, or the listed ones
  dir,           \* cfg.Direction
  Unset,         \* aclIndexUnset
  Rules,         \* desired rule sets; NoRules is the empty one
  NoRules,
  FirstVpp,      \* what VPP may hold when the agent is first started
  BootVpp,       \* what VPP may hold after a restart of its own
  MaxFaults,     \* bound: losses of the connection and new starts of the agent
  MaxIfaceDels,  \* bound: interfaces deleted
  MaxIfaceAdds   \* bound: interfaces created

Families == {"ip4", "ip6"}
Manual == "manual"     \* the tag of the operator's ACL, any but the agent's

Acl == [tag : Families \cup {Manual}, rules : Rules]

(* The lists of ACLs with indices in D that VPP may hold.                  *)
AclLists(D) == {l \in [acls : Seq(D), nInput : Nat] : l.nInput <= Len(l.acls)}

(* A state of VPP: ACLs by index, and a list for every interface.          *)
VppState(v) ==
  /\ DOMAIN v.acls \subseteq Nat /\ IsFiniteSet(DOMAIN v.acls)
  /\ v.acls \in [DOMAIN v.acls -> Acl]
  /\ v.lists \in [Ifaces -> AclLists(DOMAIN v.acls)]

(* VPP starts without the ACLs of an earlier agent.                        *)
ASSUME VppClientAssumption ==
  /\ Selected \subseteq Ifaces
  /\ Unset \notin Nat
  /\ NoRules \in Rules
  /\ \A v \in FirstVpp \cup BootVpp : VppState(v)
  /\ \A v \in BootVpp : \A i \in DOMAIN v.acls : v.acls[i].tag = Manual

VARIABLES
  acls,       \* VPP: index -> [tag, rules]
  lists,      \* VPP: interface -> its ACL list
  conn,       \* the connection to VPP is up
  events,     \* Connected events not yet taken by handleEvents
  idx,        \* Client.idx
  h,          \* the thread in bootstrapLocked: [pc, ifs, managed, snap, orphans]
  phase,      \* of the process
  exit,       \* history: how things stood at shutdown
  want,       \* the manager's desired rules
  pushing,    \* the families the manager has still to push
  resyncDue,  \* OpResync is in the updates channel
  budget      \* what is left of the bounds

vpp == <<acls, lists>>
mgr == <<want, pushing, resyncDue>>
vars == <<acls, lists, conn, events, idx, h, phase, exit, want, pushing, resyncDue, budget>>

Idle == [pc |-> "idle", ifs |-> {}, managed |-> {}, snap |-> <<>>, orphans |-> {}]
At(pc) == [Idle EXCEPT !.pc = pc]

-----------------------------------------------------------------------------
(* VPP.                                                                    *)
(* VPP hands out an index that is not in use.                              *)
Fresh == CHOOSE i \in 0 .. Cardinality(DOMAIN acls) : i \notin DOMAIN acls

(* acl_add_replace on an index, new or not: rules and tag are replaced.    *)
AddReplace(i, tag, rules) ==
  acls' = [j \in DOMAIN acls \cup {i} |->
             IF j = i THEN [tag |-> tag, rules |-> rules] ELSE acls[j]]

Tagged == {i \in DOMAIN acls : acls[i].tag \in Families}

Attached == UNION {Range(lists[i].acls) : i \in DOMAIN lists}

(* acl_interface_set_acl_list wants a known interface and known ACLs.      *)
Settable(i, l) == i \in DOMAIN lists /\ Range(l.acls) \subseteq DOMAIN acls

(* acl_del refuses an ACL that is still attached.                          *)
Deletable(i) == i \in DOMAIN acls \ Attached

AclDel(i) == acls' = [j \in DOMAIN acls \ {i} |-> acls[j]]

-----------------------------------------------------------------------------
(* Nothing is running yet; VPP may hold ACLs of the operator and the pair  *)
(* of an earlier run that was killed.                                      *)
Init ==
  /\ \E v \in FirstVpp : acls = v.acls /\ lists = v.lists
  /\ conn = TRUE
  /\ events = 0
  /\ idx = [f \in Families |-> Unset]
  /\ h = At("connect")
  /\ phase = "starting"
  /\ exit = "none"
  /\ want = [f \in Families |-> NoRules]
  /\ pushing = {}
  /\ resyncDue = FALSE
  /\ budget = [faults |-> MaxFaults, dels |-> MaxIfaceDels, adds |-> MaxIfaceAdds]

(* A call whose reply is read.  Once the context is cancelled the reply is *)
(* not read, whether or not the request still reached VPP.                 *)
Works == conn /\ phase # "closing"

(* bootstrapLocked returns an error: Connect fails and the process ends,   *)
(* the event handler logs it and waits for the next event.                 *)
Fail ==
  /\ h' = Idle
  /\ phase' = IF phase = "starting" THEN "exited" ELSE phase

(* replaceACLLocked, when its call works.                                  *)
CanReplace(f) == idx[f] = Unset \/ idx[f] \in DOMAIN acls

Replace(f, rules) ==
  LET i == IF idx[f] = Unset THEN Fresh ELSE idx[f]
  IN AddReplace(i, f, rules) /\ idx' = [idx EXCEPT ![f] = i]

(* aclIndices, v4 before v6.                                               *)
Ours ==
  LET Index(f) == IF idx[f] = Unset THEN <<>> ELSE <<idx[f]>>
  IN Index("ip4") \o Index("ip6")

WaitConnected ==
  /\ h.pc = "connect"
  /\ conn
  /\ h' = At("ip4")
  /\ UNCHANGED <<vpp, conn, events, idx, phase, exit, mgr, budget>>

(* handleEvents takes a Connected event: opMu, both indices forgotten.     *)
Reconnected ==
  /\ h.pc = "idle"
  /\ phase \in {"running", "closing"}
  /\ events > 0
  /\ events' = events - 1
  /\ idx' = [f \in Families |-> Unset]
  /\ h' = At("ip4")
  /\ UNCHANGED <<vpp, conn, phase, exit, mgr, budget>>

(* The two creations of bootstrapLocked, in order.                         *)
Create(f) ==
  /\ h.pc = f
  /\ \/ /\ Works /\ CanReplace(f)
        /\ Replace(f, NoRules)
        /\ h' = At(IF f = "ip4" THEN "ip6" ELSE "ifs")
        /\ UNCHANGED phase
     \/ /\ ~(Works /\ CanReplace(f))
        /\ UNCHANGED acls \/ (conn /\ idx[f] = Unset /\ AddReplace(Fresh, f, NoRules))
        /\ Fail
        /\ UNCHANGED idx
  /\ UNCHANGED <<lists, conn, events, exit, mgr, budget>>

(* attachLocked, call by call: the interfaces,                             *)
DumpInterfaces ==
  /\ h.pc = "ifs"
  /\ LET ifs == Selected \cap DOMAIN lists
     IN IF Works
        THEN /\ h' = [At(IF ifs = {} THEN "dump" ELSE "tags") EXCEPT !.ifs = ifs]
             /\ UNCHANGED phase
        ELSE Fail
  /\ UNCHANGED <<vpp, conn, events, idx, exit, mgr, budget>>

(* Mutant: every ACL counts as managed.                                    *)
DumpTagsAll ==
  /\ h.pc = "tags"
  /\ h' = [h EXCEPT !.pc = "lists", !.managed = DOMAIN acls]
  /\ UNCHANGED <<vpp, conn, events, idx, phase, exit, mgr, budget>>

(* the ACLs with our tag; a failed dump leaves only the current pair,      *)
DumpTags ==
  /\ h.pc = "tags"
  /\ h' = [h EXCEPT !.pc = "lists",
                    !.managed = Range(Ours) \cup IF Works THEN Tagged ELSE {}]
  /\ UNCHANGED <<vpp, conn, events, idx, phase, exit, mgr, budget>>

(* the lists of all interfaces,                                            *)
DumpLists ==
  /\ h.pc = "lists"
  /\ IF Works THEN h' = [h EXCEPT !.pc = "set", !.snap = lists] /\ UNCHANGED phase
              ELSE Fail
  /\ UNCHANGED <<vpp, conn, events, idx, exit, mgr, budget>>

(* and the new list of each interface; the first failure ends the attach.  *)
SetList(i) ==
  /\ h.pc = "set"
  /\ i \in h.ifs
  /\ LET cur == IF i \in DOMAIN h.snap THEN h.snap[i] ELSE EmptyList
         new == MergeManagedLast(cur, h.managed, Ours, dir)
     IN \/ /\ Works /\ Settable(i, new)
           /\ lists' = [lists EXCEPT ![i] = new]
           /\ h' = IF h.ifs = {i} THEN At("dump") ELSE [h EXCEPT !.ifs = @ \ {i}]
           /\ UNCHANGED phase
        \/ /\ ~(Works /\ Settable(i, new))
           /\ \/ UNCHANGED lists
              \/ conn /\ Settable(i, new) /\ lists' = [lists EXCEPT ![i] = new]
           /\ Fail
  /\ UNCHANGED <<acls, conn, events, idx, exit, mgr, budget>>

(* Mutant: no OnReconnect after a reconnect.                               *)
BootstrappedSilently ==
  /\ h' = Idle
  /\ phase' = IF phase = "starting" THEN "running" ELSE phase

(* bootstrapLocked is done and opMu free: Connect returns, or the handler  *)
(* goes on to OnReconnect.                                                 *)
Bootstrapped ==
  /\ h' = At(IF phase = "starting" THEN "idle" ELSE "notify")
  /\ phase' = IF phase = "starting" THEN "running" ELSE phase

(* Mutant: no cleanup of orphans.                                          *)
DumpOrphansNot ==
  /\ h.pc = "dump"
  /\ Bootstrapped
  /\ UNCHANGED <<vpp, conn, events, idx, exit, mgr, budget>>

(* cleanupTaggedExcept: the dump, and the deletes, none of which is fatal. *)
DumpOrphans ==
  /\ h.pc = "dump"
  /\ LET orphans == IF Works THEN Tagged \ Range(Ours) ELSE {}
     IN IF orphans = {}
        THEN Bootstrapped
        ELSE h' = [At("delete") EXCEPT !.orphans = orphans] /\ UNCHANGED phase
  /\ UNCHANGED <<vpp, conn, events, idx, exit, mgr, budget>>

DeleteOrphan(i) ==
  /\ h.pc = "delete"
  /\ \/ conn /\ Deletable(i) /\ AclDel(i)
     \/ ~(Works /\ Deletable(i)) /\ UNCHANGED acls
  /\ IF h.orphans = {i}
     THEN Bootstrapped
     ELSE h' = [h EXCEPT !.orphans = @ \ {i}] /\ UNCHANGED phase
  /\ UNCHANGED <<lists, conn, events, idx, exit, mgr, budget>>

(* OnReconnect puts OpResync into the updates channel.                     *)
Notify ==
  /\ h.pc = "notify"
  /\ resyncDue' = TRUE
  /\ h' = Idle
  /\ UNCHANGED <<vpp, conn, events, idx, phase, exit, want, pushing, budget>>

-----------------------------------------------------------------------------
(* The manager: an update that changes a family's desired rules, a resync, *)
(* and the pushes they lead to, ReplaceACL under opMu.  A failed push is   *)
(* logged and dropped.                                                     *)
Update(f, rules) ==
  /\ phase = "running"
  /\ pushing = {}
  /\ rules # want[f]
  /\ want' = [want EXCEPT ![f] = rules]
  /\ pushing' = {f}
  /\ UNCHANGED <<vpp, conn, events, idx, h, phase, exit, resyncDue, budget>>

Resync ==
  /\ phase = "running"
  /\ pushing = {}
  /\ resyncDue
  /\ resyncDue' = FALSE
  /\ pushing' = Families
  /\ UNCHANGED <<vpp, conn, events, idx, h, phase, exit, want, budget>>

Push(f) ==
  /\ f \in pushing
  /\ h.pc \in {"idle", "notify"}
  /\ pushing' = pushing \ {f}
  /\ \/ Works /\ CanReplace(f) /\ Replace(f, want[f])
     \/ /\ ~(Works /\ CanReplace(f))
        /\ UNCHANGED idx
        /\ \/ UNCHANGED acls
           \/ /\ conn /\ CanReplace(f)
              /\ AddReplace(IF idx[f] = Unset THEN Fresh ELSE idx[f], f, want[f])
  /\ UNCHANGED <<lists, conn, events, h, phase, exit, want, resyncDue, budget>>

-----------------------------------------------------------------------------
(* Shutdown: the context is cancelled.  When the manager loop has returned *)
(* Close detaches and deletes the pair, with a context of its own.         *)
Shutdown ==
  /\ phase = "running"
  /\ phase' = "closing"
  /\ exit' = IF ~conn THEN "lost"
             ELSE IF h.pc = "idle" /\ events = 0 THEN "calm" ELSE "busy"
  /\ UNCHANGED <<vpp, conn, events, idx, h, mgr, budget>>

(* The manager's loop has returned, and what it wanted is of no account.   *)
Ended ==
  /\ want' = [f \in Families |-> NoRules]
  /\ resyncDue' = FALSE

(* Mutant: the pair is deleted without being detached.                     *)
CloseNoDetach ==
  /\ phase = "closing"
  /\ pushing = {}
  /\ h.pc \in {"idle", "notify"}
  /\ IF Ours = <<>>
     THEN phase' = "closed" /\ h' = Idle
     ELSE h' = [At("release") EXCEPT !.orphans = Range(Ours)] /\ UNCHANGED phase
  /\ Ended
  /\ UNCHANGED <<vpp, conn, events, idx, exit, pushing, budget>>

(* cleanupOnClose up to the list dump, which may fail.                     *)
Close ==
  /\ phase = "closing"
  /\ pushing = {}
  /\ h.pc \in {"idle", "notify"}
  /\ LET ours  == Range(Ours)
         using == {i \in DOMAIN lists : Range(lists[i].acls) \cap ours # {}}
     IN IF ours = {}
        THEN phase' = "closed" /\ h' = Idle
        ELSE /\ h' = [pc      |-> IF conn /\ using # {} THEN "detach" ELSE "release",
                      ifs     |-> IF conn THEN using ELSE {},
                      managed |-> ours, snap |-> lists, orphans |-> ours]
             /\ UNCHANGED phase
  /\ Ended
  /\ UNCHANGED <<vpp, conn, events, idx, exit, pushing, budget>>

Detach(i) ==
  /\ h.pc = "detach"
  /\ i \in h.ifs
  /\ LET new == Detached(h.snap[i], h.managed)
     IN IF conn /\ Settable(i, new)
        THEN /\ lists' = [lists EXCEPT ![i] = new]
             /\ h' = [h EXCEPT !.ifs = @ \ {i},
                               !.pc = IF h.ifs = {i} THEN "release" ELSE @]
        ELSE UNCHANGED lists /\ h' = [At("release") EXCEPT !.orphans = h.orphans]
  /\ UNCHANGED <<acls, conn, events, idx, phase, exit, mgr, budget>>

Release(i) ==
  /\ h.pc = "release"
  /\ IF conn /\ Deletable(i) THEN AclDel(i) ELSE UNCHANGED acls
  /\ IF h.orphans = {i}
     THEN h' = Idle /\ phase' = "closed" /\ idx' = [f \in Families |-> Unset]
     ELSE h' = [h EXCEPT !.orphans = @ \ {i}] /\ UNCHANGED <<phase, idx>>
  /\ UNCHANGED <<lists, conn, events, exit, mgr, budget>>

-----------------------------------------------------------------------------
(* The environment.                                                        *)
Drop ==
  /\ conn /\ budget.faults > 0
  /\ conn' = FALSE
  /\ budget' = [budget EXCEPT !.faults = @ - 1]
  /\ exit' = IF phase = "closing" THEN "lost" ELSE exit
  /\ UNCHANGED <<events, idx, h, phase, mgr>>

SocketLost == Drop /\ UNCHANGED vpp

VppRestarts ==
  /\ Drop
  /\ \E v \in BootVpp : /\ acls' = v.acls
                         /\ lists' = [i \in DOMAIN lists |-> v.lists[i]]

Reconnect ==
  /\ ~conn
  /\ conn' = TRUE
  /\ events' = IF phase \in {"closed", "exited"} \/ h.pc = "connect"
               THEN events ELSE events + 1
  /\ UNCHANGED <<vpp, idx, h, phase, exit, mgr, budget>>

(* The process is killed, or has ended, and is started again.              *)
AgentStarts ==
  /\ budget.faults > 0
  /\ budget' = [budget EXCEPT !.faults = @ - 1]
  /\ events' = 0
  /\ idx' = [f \in Families |-> Unset]
  /\ h' = At("connect")
  /\ phase' = "starting"
  /\ exit' = "none"
  /\ want' = [f \in Families |-> NoRules]
  /\ pushing' = {}
  /\ resyncDue' = FALSE
  /\ UNCHANGED <<vpp, conn>>

IfaceDel(i) ==
  /\ i \in DOMAIN lists /\ budget.dels > 0
  /\ lists' = [j \in DOMAIN lists \ {i} |-> lists[j]]
  /\ budget' = [budget EXCEPT !.dels = @ - 1]
  /\ UNCHANGED <<acls, conn, events, idx, h, phase, exit, mgr>>

IfaceAdd(i) ==
  /\ i \notin DOMAIN lists /\ budget.adds > 0
  /\ lists' = [j \in DOMAIN lists \cup {i} |->
                 IF j = i THEN EmptyList ELSE lists[j]]
  /\ budget' = [budget EXCEPT !.adds = @ - 1]
  /\ UNCHANGED <<acls, conn, events, idx, h, phase, exit, mgr>>

Client ==
  \/ WaitConnected
  \/ Reconnected
  \/ \E f \in Families : Create(f)
  \/ DumpInterfaces \/ DumpTags \/ DumpLists
  \/ \E i \in Ifaces : SetList(i)
  \/ DumpOrphans
  \/ \E i \in h.orphans : DeleteOrphan(i)
  \/ Notify

Pushes == \E f \in Families : Push(f)

Next ==
  \/ Client
  \/ \E f \in Families, rules \in Rules : Update(f, rules)
  \/ Resync \/ Pushes
  \/ Shutdown \/ Close
  \/ \E i \in Ifaces : Detach(i)
  \/ \E i \in h.orphans : Release(i)
  \/ SocketLost \/ VppRestarts \/ Reconnect \/ AgentStarts
  \/ \E i \in Ifaces : IfaceDel(i) \/ IfaceAdd(i)

Spec == Init /\ [][Next]_vars

(* GoVPP retries the connection without end and VPP comes back; goroutines *)
(* that can run do; the updates channel is first in, first out, so a       *)
(* resync is not passed over for ever by updates.                          *)
FairSpec ==
  /\ Spec
  /\ WF_vars(Client) /\ WF_vars(Pushes) /\ WF_vars(Reconnect)
  /\ SF_vars(Resync)
-----------------------------------------------------------------------------
(* Nothing is under way in a running agent that has its connection.        *)
Quiet ==
  /\ phase = "running" /\ conn /\ events = 0 /\ h.pc = "idle"
  /\ pushing = {} /\ ~resyncDue

RulesInPlace ==
  \A f \in Families :
    idx[f] \in DOMAIN acls /\ acls[idx[f]] = [tag |-> f, rules |-> want[f]]

EndsWith(s, t) == Len(t) <= Len(s) /\ SubSeq(s, Len(s) - Len(t) + 1, Len(s)) = t

InPlace(i) ==
  EndsWith(IF dir = "ingress" THEN Inputs(lists[i], {}) ELSE Outputs(lists[i], {}), Ours)

PairInPlace == \A i \in Selected \cap DOMAIN lists : InPlace(i)

(* Whatever connection losses, VPP restarts and agent restarts came        *)
(* before, in between any two calls: once nothing is under way, the two    *)
(* ACLs the client knows exist, carry its tags, hold the rules the manager *)
(* wants and are last on every selected interface.                         *)
Enforced == Quiet => RulesInPlace /\ PairInPlace

(* Once nothing is under way VPP holds no other ACL with the agent's tag:  *)
(* tagged ACLs do not accumulate across reconnects and restarts.           *)
NoOrphans == Quiet => Tagged = Range(Ours)

(* The operator's ACLs.                                                    *)
Manuals == DOMAIN acls \ Tagged

Begins(s, t) == Len(s) <= Len(t) /\ SubSeq(t, 1, Len(s)) = s

(* The agent touches only what carries its tag: in no step but a restart   *)
(* of VPP or a change of its interfaces does an ACL of the operator        *)
(* change, go, or leave its place in an interface's list.                  *)
ManualStays ==
  LET others == Nat \ Manuals
  IN \/ UNCHANGED vpp
     \/ DOMAIN lists' # DOMAIN lists
     \/ VppRestarts
     \/ /\ \A i \in Manuals : i \in DOMAIN acls' /\ acls'[i] = acls[i]
        /\ \A i \in DOMAIN lists :
             /\ Begins(Inputs(lists[i], others), Inputs(lists'[i], others))
             /\ Begins(Outputs(lists[i], others), Outputs(lists'[i], others))

ManualKept == [][ManualStays]_vars

(* Where VPP starts with ACLs of the operator, an index from before its    *)
(* restart may be theirs.  The agent uses such an index only while the     *)
(* Connected event of the new connection is still queued: once             *)
(* handleEvents has taken it, the operator's ACLs are safe again.          *)
SafeUnlessStale == events > 0 \/ ManualStays

StaleWindow == [][SafeUnlessStale]_vars

(* A clean exit leaves nothing of the agent behind, when no reconnect was  *)
(* being handled at the shutdown and VPP stayed reachable.                 *)
CleanExit == phase = "closed" /\ exit = "calm" => Tagged = {}

(* While no interface is deleted the rules are never lost for good: after  *)
(* any reconnect the manager's desired rules are in VPP again, unless the  *)
(* agent ends first.                                                       *)
Recovers ==
  [](phase = "running" =>
       <>(\/ phase # "running" \/ budget.dels < MaxIfaceDels
          \/ Quiet /\ RulesInPlace))

-----------------------------------------------------------------------------
(* What the repository says of the agent and the code does not keep.       *)

(* handleEvents: "On reconnect it re-creates and re-attaches the Managed   *)
(* ACLs ... and triggers a resync so the manager re-pushes all rules".     *)
ResyncFollows == Quiet => RulesInPlace
=============================================================================
