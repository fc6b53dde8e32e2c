---------------------------- MODULE AgentProofs ----------------------------
(***************************************************************************)
(* The state file and the resync, for any peers, routes, channels and      *)
(* bounds.                                                                 *)
(***************************************************************************)
EXTENDS Agent, TLAPS

(* While it is written, what is written is the state of a detector whose   *)
(* runner has returned, so that no sample gets past the export.            *)
SaveInv ==
  /\ engine \in Nat
  /\ file \in Nat \cup {-1}
  /\ main = "starting" => ~saved
  /\ main = "saving" => runner = "done" /\ exported = engine
  /\ main = "renaming" => runner = "done" /\ temp = engine
  /\ saved => runner = "done" /\ file = engine

(* The steps of the channels and of the peers do not touch any of it.      *)
LEMMA SaveUntouched ==
  SaveInv /\ UNCHANGED <<detector, disk, process>> => SaveInv'
BY DEF SaveInv, detector, disk, process

(* Every step of the agent, a kill and a restart included, preserves it.   *)
LEMMA SaveStep == SaveInv /\ [Next]_vars => SaveInv'
<1> SUFFICES ASSUME SaveInv, [Next]_vars PROVE SaveInv'
  BY Zenon
<1>1. CASE \E path \in Paths : Announce(path[1], path[2]) \/ Withdraw(path[1], path[2])
  BY <1>1, SaveUntouched, Zenon DEF Announce, Withdraw
<1>2. CASE \E s \in Peers : SessionDown(s) \/ SessionUp(s)
  BY <1>2, SaveUntouched, Zenon DEF SessionDown, SessionUp
<1>3. CASE Callback \/ Send \/ Take \/ Forward \/ ForwarderStops
  BY <1>3, SaveUntouched, Zenon DEF Callback, Send, Take, Forward, ForwarderStops
<1>4. CASE Reconnect \/ OnReconnect \/ WithdrawAll \/ ControllerSend \/ Apply
  BY <1>4, SaveUntouched, Zenon DEF Reconnect, OnReconnect, WithdrawAll, ControllerSend, Apply
<1>5. CASE \E r \in Routes \ Unusable : Lease(r)
  BY <1>5, SaveUntouched, Zenon DEF Lease
<1>6. CASE Ask \/ Answered
  BY <1>6, SaveUntouched, Zenon DEF Ask, Answered
<1>7. CASE Sample
  BY <1>7 DEF SaveInv, Sample, disk, process
<1>8. CASE TakeRequest \/ Reply \/ RunnerStops
  BY <1>8 DEF SaveInv, TakeRequest, Reply, RunnerStops, disk, process
<1>9. CASE StartDetector
  BY <1>9, Zenon DEF SaveInv, StartDetector, disk
<1>10. CASE StartFails \/ Cancel \/ SaveFails
  BY <1>10 DEF SaveInv, StartFails, Cancel, SaveFails, detector, disk
<1>11. CASE ManagerReturns \/ CloseStopCh \/ StopSpeaker \/ CloseClient \/ Exit
  BY <1>11 DEF SaveInv, ManagerReturns, CloseStopCh, StopSpeaker, CloseClient, Exit, detector, disk
<1>12. CASE Export
  BY <1>12, Zenon DEF SaveInv, Export, detector
<1>13. CASE Write
  BY <1>13, Zenon DEF SaveInv, Write, detector
<1>14. CASE Rename
  BY <1>14, Zenon DEF SaveInv, Rename, detector
<1>15. CASE Restart
  BY <1>15, Zenon DEF SaveInv, Restart
<1>16. CASE UNCHANGED vars
  BY <1>16, SaveUntouched, Zenon DEF vars
<1> QED
  BY <1>1, <1>2, <1>3, <1>4, <1>5, <1>6, <1>7, <1>8, <1>9, <1>10, <1>11, <1>12, <1>13, <1>14, <1>15,
     <1>16, Zenon DEF Next, Shutdown

(* saveState and the join before it keep SaveInv from the start on.        *)
LEMMA SaveInvariant == Spec => []SaveInv
<1>1. Init => SaveInv
  BY DEF Init, Started, SaveInv
<1> QED
  BY <1>1, SaveStep, PTL DEF Spec

(* saveState: whenever the process is killed, the file it was to replace   *)
(* or has replaced is whole.                                               *)
THEOREM StateFileWhole == Spec => []FileWhole
<1>1. SaveInv => FileWhole
  BY AgentAssumption DEF SaveInv, FileWhole
<1> QED
  BY <1>1, SaveInvariant, PTL

(* onShutdown: the state that a shutdown saves is the last one, whatever   *)
(* the runner, the samples and the requests did until it returned.         *)
THEOREM ShutdownSavesLastState == Spec => []SavedIsFinal
<1>1. SaveInv => SavedIsFinal
  BY Zenon DEF SaveInv, SavedIsFinal
<1> QED
  BY <1>1, SaveInvariant, PTL

-----------------------------------------------------------------------------
(* The resync.  The two channels on its way hold sequences, and the client *)
(* is closed only after stopCh.                                            *)
ResyncInv ==
  /\ \E S : updates \in Seq(S)
  /\ \E S : forwarder \in Seq(S)
  /\ main \in {"gobgp", "vpp", "http", "exited"} => stopped
  /\ ResyncComes

(* Both parts of a concatenation are in it.                                *)
LEMMA ConcatHolds ==
  ASSUME NEW S, NEW s \in Seq(S), NEW T, NEW t \in Seq(T)
  PROVE  /\ s \o t \in Seq(S \cup T)
         /\ Range(s) \subseteq Range(s \o t)
         /\ Range(t) \subseteq Range(s \o t)
<1>1. s \in Seq(S \cup T) /\ t \in Seq(S \cup T)
  OBVIOUS
<1>2. s \o t \in Seq(S \cup T)
  BY <1>1
<1>3. \A i \in DOMAIN s : i \in DOMAIN (s \o t) /\ (s \o t)[i] = s[i]
  BY <1>1
<1>4. \A i \in DOMAIN t : Len(s) + i \in DOMAIN (s \o t) /\ (s \o t)[Len(s) + i] = t[i]
  BY <1>1
<1> QED
  BY <1>2, <1>3, <1>4, Zenon DEF Range

(* The same for one more element at the end.                              *)
LEMMA AppendHolds ==
  ASSUME NEW S, NEW s \in Seq(S), NEW e
  PROVE  /\ Append(s, e) \in Seq(S \cup {e})
         /\ Range(s) \subseteq Range(Append(s, e))
         /\ e \in Range(Append(s, e))
<1>1. s \in Seq(S \cup {e}) /\ e \in S \cup {e}
  OBVIOUS
<1>2. Append(s, e) \in Seq(S \cup {e}) /\ Len(Append(s, e)) = Len(s) + 1
  BY <1>1
<1>3. \A i \in DOMAIN s : i \in DOMAIN Append(s, e) /\ Append(s, e)[i] = s[i]
  BY <1>1, <1>2
<1>4. Len(s) + 1 \in DOMAIN Append(s, e) /\ Append(s, e)[Len(s) + 1] = e
  BY <1>1, <1>2
<1> QED
  BY <1>2, <1>3, <1>4, Zenon DEF Range

(* The tail holds all but the head.                                        *)
LEMMA TailHolds ==
  ASSUME NEW S, NEW s \in Seq(S), s # <<>>
  PROVE  /\ Tail(s) \in Seq(S)
         /\ \A e \in Range(s) : e = Head(s) \/ e \in Range(Tail(s))
<1>1. Tail(s) \in Seq(S) /\ Len(Tail(s)) = Len(s) - 1 /\ Head(s) = s[1]
  OBVIOUS
<1>2. \A i \in DOMAIN s : i = 1 \/ (i - 1 \in DOMAIN Tail(s) /\ Tail(s)[i - 1] = s[i])
  BY <1>1
<1> QED
  BY <1>1, <1>2, Zenon DEF Range

(* Steps that leave the channels, the manager and the process alone.       *)
LEMMA ResyncUntouched ==
  ResyncInv /\ UNCHANGED <<updates, forwarder, notifying, manager, process>> => ResyncInv'
BY DEF ResyncInv, ResyncComes, Serving, manager, process, Desired

(* Every step keeps a resync on its way until the manager has handled it.  *)
LEMMA ResyncStep == ResyncInv /\ [Next]_vars => ResyncInv'
<1> SUFFICES ASSUME ResyncInv, [Next]_vars PROVE ResyncInv'
  BY Zenon
<1> PICK S : updates \in Seq(S)
  BY Zenon DEF ResyncInv
<1> PICK T : forwarder \in Seq(T)
  BY Zenon DEF ResyncInv
<1>1. CASE \E path \in Paths : Announce(path[1], path[2]) \/ Withdraw(path[1], path[2])
  BY <1>1, ResyncUntouched, Zenon DEF Announce, Withdraw, relay
<1>2. CASE \E s \in Peers : SessionDown(s) \/ SessionUp(s)
  BY <1>2, ResyncUntouched, Zenon DEF SessionDown, SessionUp, relay
<1>3. CASE Callback \/ Send
  BY <1>3, ResyncUntouched, Zenon DEF Callback, Send, relay
<1>4. CASE Take
  <2>1. forwarder' \in Seq({Head(bgpUpdates)})
    BY <1>4 DEF Take
  <2> QED
    BY <1>4, <2>1, Zenon DEF Take, ResyncInv, ResyncComes, Serving, manager, process, Desired
<1>5. CASE Forward
  <2>1. updates' \in Seq(S \cup T) /\ Range(updates) \subseteq Range(updates')
    BY <1>5, ConcatHolds, Zenon DEF Forward
  <2>2. forwarder' \in Seq(T)
    BY <1>5 DEF Forward
  <2> QED
    BY <1>5, <2>1, <2>2, Zenon DEF Forward, ResyncInv, ResyncComes, Serving, manager, process, Desired
<1>6. CASE ForwarderStops
  <2>1. forwarder' \in Seq(T)
    BY <1>6 DEF ForwarderStops
  <2> QED
    BY <1>6, <2>1, Zenon DEF ForwarderStops, ResyncInv, ResyncComes, Serving, manager, process, Desired
<1>7. CASE Reconnect
  BY <1>7, Zenon DEF Reconnect, ResyncInv, ResyncComes, relay, process
<1>8. CASE OnReconnect
  <2>1. CASE updates' = Append(updates, Resync)
    <3>1. updates' \in Seq(S \cup {Resync}) /\ Resync \in Range(updates')
      BY <2>1, AppendHolds, Zenon
    <3>2. Resync' = Resync
      BY Zenon DEF Resync, Update
    <3> QED
      BY <1>8, <3>1, <3>2, Zenon DEF OnReconnect, ResyncInv, ResyncComes, relay, process
  <2>2. CASE cancelled /\ UNCHANGED updates
    BY <1>8, <2>2, Zenon DEF OnReconnect, ResyncInv, ResyncComes, Serving, relay, process
  <2> QED
    BY <1>8, <2>1, <2>2, Zenon DEF OnReconnect
<1>9. CASE WithdrawAll \/ \E r \in Routes \ Unusable : Lease(r)
  BY <1>9, ResyncUntouched, Zenon DEF WithdrawAll, Lease, relay
<1>10. CASE ControllerSend
  <2>1. updates' \in Seq(S \cup {Head(sending)}) /\ Range(updates) \subseteq Range(updates')
    <3>1. CASE updates' = Append(updates, Head(sending))
      BY <3>1, AppendHolds, Zenon
    <3>2. CASE UNCHANGED updates
      <4>1. updates \in Seq(S \cup {Head(sending)})
        OBVIOUS
      <4> QED
        BY <3>2, <4>1, Zenon
    <3> QED
      BY <1>10, <3>1, <3>2, Zenon DEF ControllerSend
  <2> QED
    BY <1>10, <2>1, Zenon DEF ControllerSend, ResyncInv, ResyncComes, Serving, relay, manager, process, Desired
<1>11. CASE Apply
  <2>1. updates' \in Seq(S) /\ (Resync \in Range(updates) => Resync = Head(updates) \/ Resync \in Range(updates'))
    BY <1>11, TailHolds, Zenon DEF Apply
  <2>2. Desired(table)' = Desired(table')
    BY Zenon DEF Desired
  <2> QED
    BY <1>11, <2>1, <2>2, Zenon DEF Apply, ResyncInv, ResyncComes, Serving, relay, process
<1>12. CASE Sample \/ TakeRequest \/ Reply \/ RunnerStops \/ Ask \/ Answered
  BY <1>12, ResyncUntouched, Zenon DEF Sample, TakeRequest, Reply, RunnerStops, Ask, Answered, relay
<1>13. CASE StartDetector \/ StartFails \/ Cancel \/ SaveFails \/ ManagerReturns \/ Export \/ Write \/ Rename
  BY <1>13, Zenon DEF StartDetector, StartFails, Cancel, SaveFails, ManagerReturns, Export, Write, Rename,
     ResyncInv, ResyncComes, Serving, pipeline, relay, manager, Desired
<1>14. CASE CloseStopCh \/ StopSpeaker \/ CloseClient \/ Exit
  BY <1>14, Zenon DEF CloseStopCh, StopSpeaker, CloseClient, Exit, ResyncInv, ResyncComes, Serving, pipeline, relay,
     manager, Desired
<1>15. CASE Restart
  <2>1. updates' \in Seq({}) /\ forwarder' \in Seq({})
    BY <1>15 DEF Restart
  <2>2. installed' = Desired(table)'
    BY <1>15, Zenon DEF Restart, Desired
  <2> QED
    BY <1>15, <2>1, <2>2, Zenon DEF Restart, ResyncInv, ResyncComes
<1>16. CASE UNCHANGED vars
  BY <1>16, ResyncUntouched, Zenon DEF vars, relay
<1> QED
  BY <1>1, <1>2, <1>3, <1>4, <1>5, <1>6, <1>7, <1>8, <1>9, <1>10, <1>11, <1>12, <1>13, <1>14, <1>15,
     <1>16, Zenon DEF Next, Shutdown

(* OnReconnect and the manager: after a reconnect VPP gets the manager's   *)
(* rules again, whatever else is sent to the manager in the meantime.      *)
THEOREM ResyncAlwaysComes == Spec => []ResyncComes
<1>1. Init => ResyncInv
  <2> SUFFICES ASSUME Init PROVE ResyncInv
    BY Zenon
  <2>1. updates \in Seq({}) /\ forwarder \in Seq({})
    BY DEF Init, Started
  <2>2. installed = Desired(table)
    BY Zenon DEF Init, Started, Desired
  <2> QED
    BY <2>1, <2>2, Zenon DEF Init, Started, ResyncInv, ResyncComes
<1>2. ResyncInv => ResyncComes
  BY Zenon DEF ResyncInv
<1> QED
  BY <1>1, <1>2, ResyncStep, PTL DEF Spec

-----------------------------------------------------------------------------
(* Nothing is lost.  After(q, s, held) is what the updates of q make of    *)
(* the routes of a session; it is taken apart along the queues that        *)
(* Underway joins.                                                         *)

(* A queue that goes on with another one.                                  *)
Joined(w, q, t) == (\E S : q \in Seq(S) /\ t \in Seq(S)) /\ w = q \o t

(* Updates one queue after the other.                                      *)
LEMMA AfterConcat ==
  ASSUME NEW w, NEW q, NEW t, Joined(w, q, t), NEW s, NEW held
  PROVE  After(w, s, held) = After(t, s, After(q, s, held))
<1> w = q \o t
  BY Zenon DEF Joined
<1> PICK S : q \in Seq(S) /\ t \in Seq(S)
  BY Zenon DEF Joined
<1>1. q \in Seq(S) /\ t \in Seq(S)
  BY Zenon
<1>2. w \in Seq(S) /\ Len(w) = Len(q) + Len(t) /\ Len(q) \in Nat /\ Len(t) \in Nat
  BY <1>1
<1>3. DOMAIN q = 1 .. Len(q) /\ DOMAIN t = 1 .. Len(t) /\ DOMAIN w = 1 .. Len(q) + Len(t)
  BY <1>1, <1>2
<1>4. \A i \in DOMAIN q : i \in DOMAIN w /\ w[i] = q[i]
  BY <1>1
<1>5. \A i \in DOMAIN t : Len(q) + i \in DOMAIN w /\ w[Len(q) + i] = t[i]
  BY <1>1
<1>6. \A i \in DOMAIN w : i \in DOMAIN q \/ (i - Len(q) \in DOMAIN t /\ i = Len(q) + (i - Len(q)))
  BY <1>2, <1>3
<1>7. ASSUME NEW r \in Routes PROVE r \in After(w, s, held) <=> r \in After(t, s, After(q, s, held))
  <2> DEFINE C(u) == Concerns(u, s, r)
  <2> HIDE DEF C
  <2>1. \A x, h : r \in After(x, s, h) <=>
             \/ r \in h /\ \A i \in DOMAIN x : ~C(x[i])
             \/ \E i \in DOMAIN x : /\ x[i].op = "announce" /\ C(x[i])
                                    /\ \A j \in DOMAIN x : j > i => ~C(x[j])
    BY Zenon DEF After, C
  <2>2. (\A i \in DOMAIN w : ~C(w[i])) <=> (\A i \in DOMAIN q : ~C(q[i])) /\ (\A i \in DOMAIN t : ~C(t[i]))
    <3>1. ASSUME \A i \in DOMAIN w : ~C(w[i])
          PROVE  (\A i \in DOMAIN q : ~C(q[i])) /\ (\A i \in DOMAIN t : ~C(t[i]))
      BY <3>1, <1>4, <1>5, Zenon
    <3>2. ASSUME \A i \in DOMAIN q : ~C(q[i]), \A i \in DOMAIN t : ~C(t[i]), NEW i \in DOMAIN w
          PROVE  ~C(w[i])
      BY <3>2, <1>4, <1>5, <1>6, Zenon
    <3> QED
      BY <3>1, <3>2, Zenon
  <2> DEFINE LastOf(x, i) == x[i].op = "announce" /\ C(x[i]) /\ \A j \in DOMAIN x : j > i => ~C(x[j])
  <2>3. ASSUME NEW i \in DOMAIN w, LastOf(w, i)
        PROVE  \/ \E k \in DOMAIN t : LastOf(t, k)
               \/ (\E k \in DOMAIN q : LastOf(q, k)) /\ \A k \in DOMAIN t : ~C(t[k])
    <3>1. CASE i \in DOMAIN q
      <4>1. \A j \in DOMAIN q : j > i => ~C(q[j])
        BY <2>3, <1>4, Zenon
      <4>2. \A j \in DOMAIN t : Len(q) + j > i
        BY <3>1, <1>3, <1>2
      <4>3. \A j \in DOMAIN t : ~C(t[j])
        BY <2>3, <4>2, <1>5, Zenon
      <4>4. w[i] = q[i]
        BY <3>1, <1>4, Zenon
      <4> QED
        BY <3>1, <2>3, <4>1, <4>3, <4>4, Zenon
    <3>2. CASE i - Len(q) \in DOMAIN t
      <4>1. w[i] = t[i - Len(q)]
        <5>1. i = Len(q) + (i - Len(q))
          BY <1>2, <1>3
        <5> QED
          BY <3>2, <5>1, <1>5, Zenon
      <4>2. \A j \in DOMAIN t : j > i - Len(q) => Len(q) + j > i
        BY <1>2, <1>3
      <4>3. \A j \in DOMAIN t : j > i - Len(q) => ~C(t[j])
        BY <2>3, <4>2, <1>5, Zenon
      <4> QED
        BY <3>2, <2>3, <4>1, <4>3, Zenon
    <3> QED
      BY <3>1, <3>2, <1>6, Zenon
  <2>4. ASSUME NEW k \in DOMAIN t, LastOf(t, k) PROVE LastOf(w, Len(q) + k)
    <3>1. w[Len(q) + k] = t[k]
      BY <1>5, Zenon
    <3>2. ASSUME NEW j \in DOMAIN w, j > Len(q) + k PROVE ~C(w[j])
      <4>1. j \notin DOMAIN q /\ j - Len(q) > k
        BY <3>2, <1>2, <1>3
      <4>2. j - Len(q) \in DOMAIN t /\ w[j] = t[j - Len(q)]
        BY <4>1, <1>5, <1>6, Zenon
      <4> QED
        BY <4>1, <4>2, <2>4, Zenon
    <3> QED
      BY <3>1, <3>2, <2>4, Zenon
  <2>5. ASSUME NEW k \in DOMAIN q, LastOf(q, k), \A j \in DOMAIN t : ~C(t[j]) PROVE LastOf(w, k)
    <3>1. w[k] = q[k]
      BY <1>4, Zenon
    <3>2. ASSUME NEW j \in DOMAIN w, j > k PROVE ~C(w[j])
      BY <3>2, <2>5, <1>4, <1>5, <1>6, Zenon
    <3> QED
      BY <3>1, <3>2, <2>5, Zenon
  <2>6. \A x, h : r \in After(x, s, h) <=>
             (r \in h /\ \A i \in DOMAIN x : ~C(x[i])) \/ \E i \in DOMAIN x : LastOf(x, i)
    BY <2>1, Zenon
  <2>7. (\E i \in DOMAIN w : LastOf(w, i)) <=>
          \/ \E k \in DOMAIN t : LastOf(t, k)
          \/ (\E k \in DOMAIN q : LastOf(q, k)) /\ \A k \in DOMAIN t : ~C(t[k])
    <3> HIDE DEF LastOf
    <3> QED
      BY <2>3, <2>4, <2>5, <1>4, <1>5, Zenon
  <2> HIDE DEF LastOf
  <2> QED
    BY <2>2, <2>6, <2>7, Zenon
<1>8. After(w, s, held) \subseteq Routes /\ After(t, s, After(q, s, held)) \subseteq Routes
  BY Zenon DEF After
<1> QED
  BY <1>7, <1>8, Zenon

(* No update.                                                              *)
LEMMA AfterNone ==
  ASSUME NEW s, NEW held, held \subseteq Routes
  PROVE  After(<<>>, s, held) = held
<1>1. DOMAIN <<>> = {}
  OBVIOUS
<1> QED
  BY <1>1, Zenon DEF After

(* One update.                                                             *)
LEMMA AfterOne ==
  ASSUME NEW u, NEW s, NEW held
  PROVE  After(<<u>>, s, held) =
           {r \in Routes : IF Concerns(u, s, r) THEN u.op = "announce" ELSE r \in held}
<1>1. DOMAIN <<u>> = {1} /\ <<u>>[1] = u
  OBVIOUS
<1>2. ASSUME NEW r \in Routes
      PROVE  r \in After(<<u>>, s, held) <=> IF Concerns(u, s, r) THEN u.op = "announce" ELSE r \in held
  <2> DEFINE c == Concerns(u, s, r)
  <2>1. (\A i \in DOMAIN <<u>> : ~Concerns(<<u>>[i], s, r)) <=> ~c
    BY <1>1, Zenon
  <2>2. (\E i \in DOMAIN <<u>> : /\ <<u>>[i].op = "announce" /\ Concerns(<<u>>[i], s, r)
                                 /\ \A j \in DOMAIN <<u>> : j > i => ~Concerns(<<u>>[j], s, r))
          <=> u.op = "announce" /\ c
    <3>1. ~(1 > 1)
      OBVIOUS
    <3> HIDE DEF c
    <3> QED
      BY <1>1, <3>1, Zenon DEF c
  <2> QED
    BY <2>1, <2>2, Zenon DEF After
<1> QED
  BY <1>2, Zenon DEF After

(* An update more at the end, and the first one by itself.                 *)
LEMMA AfterAppend ==
  ASSUME NEW S, NEW q \in Seq(S), NEW u, NEW s, NEW held
  PROVE  After(Append(q, u), s, held) = After(<<u>>, s, After(q, s, held))
<1>1. q \in Seq(S \cup {u}) /\ <<u>> \in Seq(S \cup {u})
  OBVIOUS
<1>2. Append(q, u) = q \o <<u>>
  BY <1>1
<1>3. Joined(Append(q, u), q, <<u>>)
  BY <1>1, <1>2, Zenon DEF Joined
<1> QED
  BY <1>3, AfterConcat

(* Taking the first update of a queue. *)
LEMMA AfterHead ==
  ASSUME NEW S, NEW q \in Seq(S), q # <<>>, NEW s, NEW held
  PROVE  After(q, s, held) = After(Tail(q), s, After(<<Head(q)>>, s, held))
<1>1. Tail(q) \in Seq(S) /\ <<Head(q)>> \in Seq(S)
  OBVIOUS
<1>2. q = <<Head(q)>> \o Tail(q)
  OBVIOUS
<1>3. Joined(q, <<Head(q)>>, Tail(q))
  BY <1>1, <1>2, Zenon DEF Joined
<1> QED
  BY <1>3, AfterConcat

(* Updates of other sessions.                                              *)
LEMMA AfterOthers ==
  ASSUME NEW S, NEW q \in Seq(S), NEW s, \A u \in S : u.session # s, NEW held, held \subseteq Routes
  PROVE  After(q, s, held) = held
<1>1. \A i \in DOMAIN q : q[i].session # s
  OBVIOUS
<1> QED
  BY <1>1, Zenon DEF After, Concerns

(* Updates lead to sets of routes. *)
LEMMA AfterRoutes ==
  ASSUME NEW q, NEW s, NEW held PROVE After(q, s, held) \subseteq Routes
BY Zenon DEF After

-----------------------------------------------------------------------------
(* What the queues hold, and what they make of the table.  The updates of  *)
(* the controller and of the peers meet in the channel of the manager      *)
(* only, and do not concern each other's sessions.                         *)

PeerUpdates ==
  [op : {"announce", "withdraw"}, session : Receive, route : Routes \ Unusable]
  \cup [op : {"down"}, session : Peers, route : Peers]
LocalUpdates == [op : {"announce", "withdraw"}, session : {Local}, route : Routes \ Unusable]
Events ==
  [op : {"announce", "withdraw"}, session : Peers, route : Routes]
  \cup [op : {"state"}, session : Peers, route : {"idle", "openconfirm", "established"}]

QueueInv ==
  /\ established \subseteq Peers
  /\ rib \in [Peers -> SUBSET Routes]
  /\ \A s \in Peers \ established : rib[s] = {}
  /\ lease \subseteq Routes \ Unusable
  /\ table \in [Sessions -> SUBSET Routes]
  /\ watch \in Seq(Events)
  /\ callback \in Seq(PeerUpdates) /\ bgpUpdates \in Seq(PeerUpdates) /\ forwarder \in Seq(PeerUpdates)
  /\ sending \in Seq(LocalUpdates)
  /\ updates \in Seq(PeerUpdates \cup LocalUpdates \cup {Resync})

(* What the manager will make of the routes of a session when its channel  *)
(* is empty, and when what the relay holds is handled too.                 *)
Queued(s) == After(updates, s, table[s])
Relayed(s) == After(callback, s, After(bgpUpdates, s, After(forwarder, s, Queued(s))))

FlowInv ==
  /\ After(sending, Local, Queued(Local)) = lease
  /\ \A s \in Peers : After(watch, s, Relayed(s)) = IF s \in Receive THEN rib[s] \ Unusable ELSE {}

(* The code gives up on updates only when it is told to stop.              *)
RelayInv == Serving => QueueInv /\ FlowInv

(* The updates of the controller do not touch a peer's routes, nor those   *)
(* of the peers the leases.                                                *)
LEMMA OtherFlows ==
  ASSUME QueueInv
  PROVE  /\ \A s \in Peers, held \in SUBSET Routes : After(sending, s, held) = held
         /\ Relayed(Local) = Queued(Local)
         /\ \A held \in SUBSET Routes : After(watch, Local, held) = held
         /\ \A held \in SUBSET Routes : After(forwarder, Local, held) = held
<1>1. \A u \in PeerUpdates \cup Events : u.session # Local
  BY AgentAssumption, Zenon DEF PeerUpdates, Events
<1>2. \A u \in LocalUpdates : u.session = Local
  BY Zenon DEF LocalUpdates
<1>3. ASSUME NEW s \in Peers, NEW held \in SUBSET Routes PROVE After(sending, s, held) = held
  <2>1. s # Local /\ sending \in Seq(LocalUpdates)
    BY AgentAssumption, Zenon DEF QueueInv
  <2>2. \A u \in LocalUpdates : u.session # s
    BY <1>2, <2>1, Zenon
  <2> QED
    BY <2>1, <2>2, AfterOthers
<1>4. \A held \in SUBSET Routes : After(watch, Local, held) = held
  BY <1>1, AfterOthers DEF QueueInv
<1>5. ASSUME NEW q \in Seq(PeerUpdates), NEW held \in SUBSET Routes PROVE After(q, Local, held) = held
  BY <1>1, AfterOthers
<1>6. Queued(Local) \in SUBSET Routes
  BY AfterRoutes, Zenon DEF Queued
<1> QED
  BY <1>3, <1>4, <1>5, <1>6 DEF Relayed, QueueInv

(* NothingLost is the two flows side by side.                              *)
LEMMA FlowIsAll == RelayInv => NothingLost
<1> SUFFICES ASSUME QueueInv, FlowInv, NEW s \in Sessions
             PROVE  After(Underway, s, table[s]) = Wanted[s]
  BY Zenon DEF RelayInv, NothingLost
<1> DEFINE all == PeerUpdates \cup LocalUpdates \cup {Resync} \cup Events
           q1 == updates \o forwarder
           q2 == q1 \o bgpUpdates
           q3 == q2 \o callback
           q4 == q3 \o sending
<1>1. /\ updates \in Seq(all) /\ forwarder \in Seq(all) /\ bgpUpdates \in Seq(all) /\ callback \in Seq(all)
      /\ sending \in Seq(all) /\ watch \in Seq(all)
  <2> HIDE DEF all
  <2>1. PeerUpdates \cup LocalUpdates \cup {Resync} \subseteq all /\ Events \subseteq all /\ PeerUpdates \subseteq all /\ LocalUpdates \subseteq all
    BY Zenon DEF all
  <2> QED
    BY <2>1 DEF QueueInv
<1> HIDE DEF all
<1>2. q1 \in Seq(all) /\ q2 \in Seq(all) /\ q3 \in Seq(all) /\ q4 \in Seq(all)
  BY <1>1
<1>3. /\ Joined(q1, updates, forwarder) /\ Joined(q2, q1, bgpUpdates) /\ Joined(q3, q2, callback)
      /\ Joined(q4, q3, sending) /\ Joined(Underway, q4, watch)
  BY <1>1, <1>2, Zenon DEF Joined, Underway
<1> HIDE DEF q1, q2, q3, q4
<1>4. After(Underway, s, table[s]) = After(watch, s, After(sending, s, After(q3, s, table[s])))
  BY <1>3, AfterConcat
<1>5. After(q3, s, table[s]) = Relayed(s)
  BY <1>3, AfterConcat DEF Relayed, Queued
<1>6. CASE s = Local
  <2>1. Relayed(s) = Queued(s)
    BY <1>6, OtherFlows, Zenon
  <2>2. After(watch, s, After(sending, s, Queued(s))) = After(sending, s, Queued(s))
    BY <1>6, OtherFlows, AfterRoutes
  <2> QED
    BY <1>4, <1>5, <1>6, <2>1, <2>2, Zenon DEF FlowInv, Wanted, Sessions
<1>7. CASE s \in Peers
  <2>1. After(sending, s, Relayed(s)) = Relayed(s)
    BY <1>7, OtherFlows, AfterRoutes DEF Relayed
  <2>2. s # Local
    BY <1>7, AgentAssumption, Zenon
  <2> QED
    BY <1>4, <1>5, <1>7, <2>1, <2>2, Zenon DEF FlowInv, Wanted, Sessions
<1> QED
  BY <1>6, <1>7, Zenon DEF Sessions

(* handleEvent: what it makes of an event is an update that does to the    *)
(* routes what the event should.                                           *)
LEMMA HandledEvent ==
  ASSUME NEW e \in Events, NEW s, NEW held, held \subseteq Routes
  PROVE  /\ HandleEvent(e) \in Seq(PeerUpdates)
         /\ After(HandleEvent(e), s, held) = After(<<e>>, s, held)
<1> DEFINE down == Update("down", e.session, e.session)
<1>0. After(<<e>>, s, held) = {r \in Routes : IF Concerns(e, s, r) THEN e.op = "announce" ELSE r \in held}
  BY AfterOne
<1>1. CASE (\A r \in Routes : ~Concerns(e, s, r)) /\ HandleEvent(e) = <<>>
  <2>1. After(<<>>, s, held) = held
    BY AfterNone, Zenon
  <2>2. After(<<e>>, s, held) = held
    BY <1>0, <1>1, Zenon
  <2>3. <<>> \in Seq(PeerUpdates)
    OBVIOUS
  <2> QED
    BY <1>1, <2>1, <2>2, <2>3, Zenon
<1>2. CASE e.op = "state" /\ e.route = "established"
  <2>1. HandleEvent(e) = <<>>
    BY <1>2, Zenon DEF HandleEvent
  <2>2. \A r \in Routes : ~Concerns(e, s, r)
    BY <1>2, Zenon DEF Concerns
  <2> QED
    BY <1>1, <2>1, <2>2, Zenon
<1>3. CASE e.op = "state" /\ e.route # "established"
  <2>1. HandleEvent(e) = <<down>>
    BY <1>3, Zenon DEF HandleEvent
  <2>2. down \in PeerUpdates
    BY <1>3, Zenon DEF Events, PeerUpdates, Update
  <2>3. \A r : Concerns(e, s, r) <=> Concerns(down, s, r)
    BY <1>3, Zenon DEF Concerns, Update
  <2>4. down.op # "announce"
    BY Zenon DEF Update
  <2> HIDE DEF down
  <2>5. After(<<down>>, s, held) = {r \in Routes : IF Concerns(down, s, r) THEN down.op = "announce" ELSE r \in held}
    BY AfterOne
  <2>6. After(<<down>>, s, held) = After(<<e>>, s, held)
    BY <1>0, <1>3, <2>3, <2>4, <2>5, Zenon
  <2> QED
    BY <2>1, <2>2, <2>6
<1>4. CASE e.op # "state" /\ (e.session \notin Receive \/ e.route \in Unusable)
  <2>1. HandleEvent(e) = <<>>
    BY <1>4, Zenon DEF HandleEvent
  <2>2. e.session # Local /\ e.op \in {"announce", "withdraw"}
    BY <1>4, AgentAssumption, Zenon DEF Events
  <2>3. \A r \in Routes : ~Concerns(e, s, r)
    BY <1>4, <2>2, Zenon DEF Concerns
  <2> QED
    BY <1>1, <2>1, <2>3, Zenon
<1>5. CASE e.op # "state" /\ e.session \in Receive /\ e.route \notin Unusable
  <2>1. HandleEvent(e) = <<e>>
    BY <1>5, Zenon DEF HandleEvent
  <2>2. e \in PeerUpdates
    BY <1>5, Zenon DEF Events, PeerUpdates
  <2> QED
    BY <2>1, <2>2
<1> QED
  BY <1>2, <1>3, <1>4, <1>5, Zenon

(* Manager.Apply does to each session's routes what the update should.     *)
LEMMA HeadApplied ==
  ASSUME NEW t \in [Sessions -> SUBSET Routes], NEW u \in PeerUpdates \cup LocalUpdates \cup {Resync}
  PROVE  /\ Applied(t, u) \in [Sessions -> SUBSET Routes]
         /\ \A s \in Sessions : Applied(t, u)[s] = After(<<u>>, s, t[s])
<1> DEFINE Made(s) == {r \in Routes : IF Concerns(u, s, r) THEN u.op = "announce" ELSE r \in t[s]}
<1>0. ASSUME NEW s PROVE After(<<u>>, s, t[s]) = Made(s)
  BY AfterOne
<1> HIDE DEF Made
<1> SUFFICES Applied(t, u) \in [Sessions -> SUBSET Routes] /\ \A s \in Sessions : Applied(t, u)[s] = Made(s)
  BY <1>0, Zenon
<1> USE DEF Made
<1>1. CASE u \in [op : {"announce", "withdraw"}, session : Receive \cup {Local}, route : Routes \ Unusable]
  <2>1. u.session \in Sessions /\ u.route \in Routes
    BY <1>1, AgentAssumption, Zenon DEF Sessions
  <2>2. \A s, r : Concerns(u, s, r) <=> s = u.session /\ r = u.route
    BY <1>1, Zenon DEF Concerns
  <2>3. CASE u.op = "announce"
    <3>1. Applied(t, u) = [t EXCEPT ![u.session] = @ \cup {u.route}]
      BY <2>3, Zenon DEF Applied
    <3> QED
      BY <2>1, <2>2, <2>3, <3>1
  <2>4. CASE u.op = "withdraw"
    <3>1. Applied(t, u) = [t EXCEPT ![u.session] = @ \ {u.route}]
      BY <2>4, Zenon DEF Applied
    <3> QED
      BY <2>1, <2>2, <2>4, <3>1
  <2> QED
    BY <1>1, <2>3, <2>4, Zenon
<1>2. CASE u \in [op : {"down"}, session : Peers, route : Peers]
  <2>1. Applied(t, u) = [t EXCEPT ![u.session] = {}]
    BY <1>2, Zenon DEF Applied
  <2>2. \A s, r : Concerns(u, s, r) <=> s = u.session
    BY <1>2, Zenon DEF Concerns
  <2>3. u.op # "announce" /\ u.session \in Sessions
    BY <1>2, Zenon DEF Sessions
  <2> QED
    BY <2>1, <2>2, <2>3, Zenon
<1>3. CASE u = Resync
  <2>1. u.op = "resync"
    BY <1>3, Zenon DEF Resync, Update
  <2>2. Applied(t, u) = t
    BY <2>1, Zenon DEF Applied
  <2>3. \A s, r : ~Concerns(u, s, r)
    BY <2>1, Zenon DEF Concerns
  <2> QED
    BY <2>2, <2>3, Zenon
<1> QED
  BY <1>1, <1>2, <1>3, Zenon DEF PeerUpdates, LocalUpdates

(* What the queues hold, step by step, while the agent serves.             *)
LEMMA QueueStep ==
  ASSUME QueueInv, Serving, [Next]_vars, Serving' PROVE QueueInv'
<1>0. UNCHANGED <<PeerUpdates, LocalUpdates, Events, Sessions, Resync>>
  BY Zenon DEF PeerUpdates, LocalUpdates, Events, Sessions, Resync, Update
<1>1. ASSUME NEW path \in Paths, Announce(path[1], path[2]) \/ Withdraw(path[1], path[2]) PROVE QueueInv'
  <2>1. path[1] \in Peers /\ path[2] \in Routes
    BY AgentAssumption, Zenon
  <2>2. PICK e \in Events : watch' = Append(watch, e)
    BY <1>1, <2>1, Zenon DEF QueueInv, Announce, Withdraw, Update, Events
  <2>3. watch' \in Seq(Events)
    BY <2>2 DEF QueueInv
  <2>4. rib' \in [Peers -> SUBSET Routes] /\ \A s \in Peers \ established : rib'[s] = {}
    <3>1. PICK R \in SUBSET Routes : rib' = [rib EXCEPT ![path[1]] = R]
      BY <1>1, <2>1, Zenon DEF Announce, Withdraw, QueueInv
    <3>2. path[1] \in established
      BY <1>1, Zenon DEF Announce, Withdraw
    <3> QED
      BY <2>1, <3>1, <3>2, Zenon DEF QueueInv
  <2> QED
    BY <1>0, <1>1, <2>3, <2>4, Zenon DEF QueueInv, Announce, Withdraw, relay, control, manager
<1>2. ASSUME NEW s \in Peers, SessionDown(s) PROVE QueueInv'
  <2>1. Update("state", s, "idle") \in Events
    BY Zenon DEF Update, Events
  <2>2. watch' \in Seq(Events)
    BY <1>2, <2>1 DEF QueueInv, SessionDown
  <2> QED
    BY <1>0, <1>2, <2>2, Zenon DEF QueueInv, SessionDown, relay, control, manager
<1>3. ASSUME NEW s \in Peers, SessionUp(s) PROVE QueueInv'
  <2>1. PICK e \in Events, f \in Events : watch' = Append(Append(watch, e), f)
    BY <1>3, Zenon DEF SessionUp, Update, Events
  <2>2. watch' \in Seq(Events)
    BY <2>1 DEF QueueInv
  <2> QED
    BY <1>0, <1>3, <2>2, Zenon DEF QueueInv, SessionUp, relay, control, manager
<1>4. CASE Callback
  <2>1. Head(watch) \in Events /\ Tail(watch) \in Seq(Events)
    BY <1>4 DEF QueueInv, Callback
  <2>2. HandleEvent(Head(watch)) \in Seq(PeerUpdates)
    BY <2>1, HandledEvent, Zenon
  <2> QED
    BY <1>0, <1>4, <2>1, <2>2, Zenon DEF QueueInv, Callback, relay, control, manager
<1>5. CASE Send
  <2>1. bgpUpdates \in Seq(PeerUpdates) /\ callback \in Seq(PeerUpdates)
    BY Zenon DEF QueueInv
  <2>2. bgpUpdates' = bgpUpdates \o callback \/ bgpUpdates' = bgpUpdates
    BY <1>5, Zenon DEF Send
  <2>3. bgpUpdates \o callback \in Seq(PeerUpdates)
    BY <2>1
  <2>4. bgpUpdates' \in Seq(PeerUpdates)
    BY <2>1, <2>2, <2>3, Zenon
  <2> QED
    BY <1>0, <1>5, <2>4 DEF QueueInv, Send, relay, control, manager
<1>6. CASE Take
  BY <1>0, <1>6 DEF QueueInv, Take, bgp, control, manager
<1>7. CASE Forward
  <2>1. updates' \in Seq(PeerUpdates \cup LocalUpdates \cup {Resync})
    <3> DEFINE all == PeerUpdates \cup LocalUpdates \cup {Resync}
    <3>1. PeerUpdates \subseteq all
      BY Zenon
    <3>2. updates \in Seq(all)
      BY Zenon DEF QueueInv
    <3> HIDE DEF all
    <3>3. forwarder \in Seq(all)
      BY <3>1 DEF QueueInv
    <3>4. updates' \in Seq(all)
      BY <1>7, <3>2, <3>3 DEF Forward
    <3> QED
      BY <3>4, Zenon DEF all
  <2> QED
    BY <1>0, <1>7, <2>1 DEF QueueInv, Forward, bgp, control, manager
<1>8. CASE ForwarderStops \/ WithdrawAll
  BY <1>8, Zenon DEF ForwarderStops, WithdrawAll, Serving
<1>9. CASE Reconnect
  BY <1>0, <1>9, Zenon DEF QueueInv, Reconnect, bgp, relay, control
<1>10. CASE OnReconnect
  <2>1. updates' \in Seq(PeerUpdates \cup LocalUpdates \cup {Resync})
    <3> DEFINE all == PeerUpdates \cup LocalUpdates \cup {Resync}
    <3>1. Resync \in all /\ updates \in Seq(all)
      BY Zenon DEF QueueInv
    <3> HIDE DEF all
    <3>2. updates' \in Seq(all)
      BY <1>10, <3>1 DEF OnReconnect
    <3> QED
      BY <3>2, Zenon DEF all
  <2> QED
    BY <1>0, <1>10, <2>1, Zenon DEF QueueInv, OnReconnect, bgp, relay, control, manager
<1>11. ASSUME NEW r \in Routes \ Unusable, Lease(r) PROVE QueueInv'
  <2>1. Update("withdraw", Local, r) \in LocalUpdates /\ Update("announce", Local, r) \in LocalUpdates
    BY Zenon DEF Update, LocalUpdates
  <2>2. sending' \in Seq(LocalUpdates)
    BY <1>11, <2>1 DEF QueueInv, Lease
  <2> QED
    BY <1>0, <1>11, <2>2, Zenon DEF QueueInv, Lease, bgp, relay, manager
<1>12. CASE ControllerSend
  <2>1. Head(sending) \in LocalUpdates /\ Tail(sending) \in Seq(LocalUpdates)
    BY <1>12 DEF QueueInv, ControllerSend
  <2>2. updates' \in Seq(PeerUpdates \cup LocalUpdates \cup {Resync})
    <3> DEFINE all == PeerUpdates \cup LocalUpdates \cup {Resync}
    <3>1. Head(sending) \in all /\ updates \in Seq(all)
      BY <2>1, Zenon DEF QueueInv
    <3> HIDE DEF all
    <3>2. updates' \in Seq(all)
      BY <1>12, <3>1 DEF ControllerSend
    <3> QED
      BY <3>2, Zenon DEF all
  <2> QED
    BY <1>0, <1>12, <2>1, <2>2, Zenon DEF QueueInv, ControllerSend, bgp, relay, manager
<1>13. CASE Apply
  <2>1. updates' \in Seq(PeerUpdates \cup LocalUpdates \cup {Resync})
    BY <1>13 DEF QueueInv, Apply
  <2>2. Head(updates) \in PeerUpdates \cup LocalUpdates \cup {Resync}
    BY <1>13 DEF QueueInv, Apply
  <2>3. table \in [Sessions -> SUBSET Routes]
    BY Zenon DEF QueueInv
  <2>4. table' \in [Sessions -> SUBSET Routes]
    BY <1>13, <2>2, <2>3, HeadApplied, Zenon DEF Apply
  <2> QED
    BY <1>0, <1>13, <2>1, <2>4, Zenon DEF QueueInv, Apply, bgp, relay, control
<1>14. CASE Sample \/ TakeRequest \/ Reply \/ RunnerStops \/ Ask \/ Answered
  BY <1>0, <1>14, Zenon DEF QueueInv, Sample, TakeRequest, Reply, RunnerStops, Ask, Answered, bgp, relay, control, manager
<1>15. CASE StartDetector \/ StartFails \/ Cancel \/ SaveFails \/ ManagerReturns \/ Export \/ Write \/ Rename
  BY <1>0, <1>15, Zenon DEF QueueInv, StartDetector, StartFails, Cancel, SaveFails, ManagerReturns, Export, Write, Rename,
     pipeline, bgp, relay, control, manager
<1>16. CASE CloseStopCh \/ StopSpeaker \/ CloseClient \/ Exit
  BY <1>0, <1>16, Zenon DEF QueueInv, CloseStopCh, StopSpeaker, CloseClient, Exit, pipeline, bgp, relay, control, manager
<1>17. CASE Restart
  BY <1>0, <1>17 DEF QueueInv, Restart
<1>18. CASE UNCHANGED vars
  BY <1>0, <1>18, Zenon DEF QueueInv, vars, bgp, relay, control, manager
<1> QED
  BY <1>1, <1>2, <1>3, <1>4, <1>5, <1>6, <1>7, <1>8, <1>9, <1>10, <1>11, <1>12, <1>13, <1>14, <1>15,
     <1>16, <1>17, <1>18, Zenon DEF Next, Shutdown

(* What is asked of a peer's session, as it flows.                         *)
Asked(s) == IF s \in Receive THEN rib[s] \ Unusable ELSE {}

(* What a step makes of the flows.                                         *)
LEMMA FlowPrimed ==
  FlowInv' <=> /\ After(sending', Local, After(updates', Local, table'[Local])) = lease'
               /\ \A s \in Peers :
                    After(watch', s, After(callback', s, After(bgpUpdates', s, After(forwarder', s,
                      After(updates', s, table'[s]))))) = Asked(s)'
BY Zenon DEF FlowInv, Queued, Relayed, Asked

(* An event of a peer at the end of the watch.                             *)
LEMMA EventFlows ==
  ASSUME QueueInv, FlowInv, NEW e, watch' = Append(watch, e),
         UNCHANGED <<callback, bgpUpdates, forwarder, sending, updates, table, lease>>,
         \A s \in Peers : After(<<e>>, s, Asked(s)) = Asked(s)'
  PROVE  FlowInv'
<1>1. ASSUME NEW s \in Peers PROVE After(watch', s, Relayed(s)) = Asked(s)'
  <2>1. watch \in Seq(Events)
    BY Zenon DEF QueueInv
  <2>2. After(Append(watch, e), s, Relayed(s)) = After(<<e>>, s, After(watch, s, Relayed(s)))
    BY <2>1, AfterAppend
  <2>3. After(watch, s, Relayed(s)) = Asked(s)
    BY Zenon DEF FlowInv, Asked
  <2> QED
    BY <2>2, <2>3, Zenon
<1> QED
  BY <1>1, FlowPrimed, Zenon DEF FlowInv, Queued, Relayed

(* An update more in the manager's channel that does not touch a session.  *)
LEMMA AppendOther ==
  ASSUME QueueInv, NEW u, NEW s, \A r : ~Concerns(u, s, r)
  PROVE  After(Append(updates, u), s, table[s]) = Queued(s)
<1>1. updates \in Seq(PeerUpdates \cup LocalUpdates \cup {Resync})
  BY Zenon DEF QueueInv
<1>2. After(Append(updates, u), s, table[s]) = After(<<u>>, s, Queued(s))
  BY <1>1, AfterAppend DEF Queued
<1>3. After(<<u>>, s, Queued(s)) = {r \in Routes : IF Concerns(u, s, r) THEN u.op = "announce" ELSE r \in Queued(s)}
  BY AfterOne
<1>4. Queued(s) \subseteq Routes
  BY AfterRoutes, Zenon DEF Queued
<1> QED
  BY <1>2, <1>3, <1>4, Zenon

(* What the peers and the callback do to the flows.                        *)
LEMMA PeerFlows ==
  ASSUME QueueInv, FlowInv,
         \/ \E path \in Paths : Announce(path[1], path[2]) \/ Withdraw(path[1], path[2])
         \/ \E s \in Peers : SessionDown(s) \/ SessionUp(s)
         \/ Callback
  PROVE  FlowInv'
<1>1. ASSUME NEW path \in Paths, Announce(path[1], path[2]) PROVE FlowInv'
  <2> DEFINE p == path[1]
             r == path[2]
             e == Update("announce", p, r)
  <2>1. p \in Peers /\ r \in Routes /\ p # Local
    BY AgentAssumption, Zenon
  <2>2. ASSUME NEW s \in Peers PROVE After(<<e>>, s, Asked(s)) = Asked(s)'
    <3>1. After(<<e>>, s, Asked(s)) = {x \in Routes : IF Concerns(e, s, x) THEN e.op = "announce" ELSE x \in Asked(s)}
      BY AfterOne
    <3>2. \A x : Concerns(e, s, x) <=> s = p /\ x = r /\ s \in Receive /\ x \notin Unusable
      BY <2>1, Zenon DEF Concerns, Update
    <3>3. e.op = "announce"
      BY Zenon DEF Update
    <3>4. rib \in [Peers -> SUBSET Routes] /\ rib' = [rib EXCEPT ![p] = @ \cup {r}]
      BY <1>1, Zenon DEF Announce, QueueInv
    <3> HIDE DEF e, p, r
    <3>5. rib'[s] = IF s = p THEN rib[s] \cup {r} ELSE rib[s]
      BY <2>1, <3>4, Zenon
    <3>6. Asked(s)' = IF s \in Receive THEN rib'[s] \ Unusable ELSE {}
      BY Zenon DEF Asked
    <3>7. Asked(s) \subseteq Routes /\ (s \in Receive => Asked(s) = rib[s] \ Unusable) /\ (s \notin Receive => Asked(s) = {})
      BY <3>4, Zenon DEF Asked
    <3>8. ASSUME NEW x \in Routes PROVE x \in After(<<e>>, s, Asked(s)) <=> x \in Asked(s)'
      <4>1. CASE Concerns(e, s, x)
        <5>1. s = p /\ x = r /\ s \in Receive /\ x \notin Unusable
          BY <3>2, <4>1, Zenon
        <5>2. x \in After(<<e>>, s, Asked(s))
          BY <3>1, <3>3, <4>1, Zenon
        <5>3. x \in Asked(s)'
          <6>1. x \in rib'[s]
            BY <3>5, <5>1, Zenon
          <6> QED
            BY <3>6, <5>1, <6>1, Zenon
        <5> QED
          BY <5>2, <5>3, Zenon
      <4>2. CASE ~Concerns(e, s, x)
        <5>1. x \in After(<<e>>, s, Asked(s)) <=> x \in Asked(s)
          BY <3>1, <4>2, Zenon
        <5>2. CASE s \notin Receive
          BY <3>6, <3>7, <5>1, <5>2, Zenon
        <5>3. CASE s \in Receive
          <6>1. x \in Asked(s)' <=> x \in rib'[s] /\ x \notin Unusable
            BY <3>6, <5>3, Zenon
          <6>2. x \in Asked(s) <=> x \in rib[s] /\ x \notin Unusable
            BY <3>7, <5>3, Zenon
          <6>3. x \notin Unusable => (x \in rib'[s] <=> x \in rib[s])
            BY <3>2, <3>5, <4>2, <5>3, Zenon
          <6> QED
            BY <5>1, <6>1, <6>2, <6>3, Zenon
        <5> QED
          BY <5>2, <5>3, Zenon
      <4> QED
        BY <4>1, <4>2, Zenon
    <3>9. Asked(s)' \subseteq Routes
      BY <2>1, <3>4, <3>5, <3>6, Zenon
    <3> QED
      BY <3>1, <3>8, <3>9, Zenon
  <2> HIDE DEF e
  <2> QED
    BY <1>1, <2>2, EventFlows, Zenon DEF Announce, relay, control, manager, e
<1>2. ASSUME NEW path \in Paths, Withdraw(path[1], path[2]) PROVE FlowInv'
  <2> DEFINE p == path[1]
             r == path[2]
             e == Update("withdraw", p, r)
  <2>1. p \in Peers /\ r \in Routes /\ p # Local
    BY AgentAssumption, Zenon
  <2>2. ASSUME NEW s \in Peers PROVE After(<<e>>, s, Asked(s)) = Asked(s)'
    <3>1. After(<<e>>, s, Asked(s)) = {x \in Routes : IF Concerns(e, s, x) THEN e.op = "announce" ELSE x \in Asked(s)}
      BY AfterOne
    <3>2. \A x : Concerns(e, s, x) <=> s = p /\ x = r /\ s \in Receive /\ x \notin Unusable
      BY <2>1, Zenon DEF Concerns, Update
    <3>3. e.op # "announce"
      BY Zenon DEF Update
    <3>4. rib \in [Peers -> SUBSET Routes] /\ rib' = [rib EXCEPT ![p] = @ \ {r}]
      BY <1>2, Zenon DEF Withdraw, QueueInv
    <3> HIDE DEF e, p, r
    <3> QED
      BY <2>1, <3>1, <3>2, <3>3, <3>4, Zenon DEF Asked
  <2> HIDE DEF e
  <2> QED
    BY <1>2, <2>2, EventFlows, Zenon DEF Withdraw, relay, control, manager, e
<1>3. ASSUME NEW p \in Peers, SessionDown(p) PROVE FlowInv'
  <2> DEFINE e == Update("state", p, "idle")
  <2>1. ASSUME NEW s \in Peers PROVE After(<<e>>, s, Asked(s)) = Asked(s)'
    <3>1. After(<<e>>, s, Asked(s)) = {x \in Routes : IF Concerns(e, s, x) THEN e.op = "announce" ELSE x \in Asked(s)}
      BY AfterOne
    <3>2. \A x : Concerns(e, s, x) <=> s = p
      BY Zenon DEF Concerns, Update
    <3>3. e.op # "announce"
      BY Zenon DEF Update
    <3>4. rib \in [Peers -> SUBSET Routes] /\ rib' = [rib EXCEPT ![p] = {}]
      BY <1>3, Zenon DEF SessionDown, QueueInv
    <3> HIDE DEF e
    <3> QED
      BY <3>1, <3>2, <3>3, <3>4, Zenon DEF Asked
  <2> HIDE DEF e
  <2> QED
    BY <1>3, <2>1, EventFlows, Zenon DEF SessionDown, relay, control, manager, e
<1>4. ASSUME NEW p \in Peers, SessionUp(p) PROVE FlowInv'
  <2> DEFINE e == Update("state", p, "openconfirm")
             f == Update("state", p, "established")
  <2>1. watch \in Seq(Events) /\ e \in Events /\ f \in Events
    BY Zenon DEF QueueInv, Events, Update
  <2>2. rib[p] = {} /\ rib \in [Peers -> SUBSET Routes]
    BY <1>4, Zenon DEF SessionUp, QueueInv
  <2>3. watch' = Append(Append(watch, e), f)
    BY <1>4, Zenon DEF SessionUp
  <2>4. Append(watch, e) \in Seq(Events)
    BY <2>1
  <2>5. ASSUME NEW s \in Peers PROVE After(<<f>>, s, After(<<e>>, s, Asked(s))) = Asked(s)
    <3>1. After(<<e>>, s, Asked(s)) = {x \in Routes : IF Concerns(e, s, x) THEN e.op = "announce" ELSE x \in Asked(s)}
      BY AfterOne
    <3>2. \A x : Concerns(e, s, x) <=> s = p
      BY Zenon DEF Concerns, Update
    <3>3. e.op # "announce"
      BY Zenon DEF Update
    <3>4. \A x : ~Concerns(f, s, x)
      BY Zenon DEF Concerns, Update
    <3>5. After(<<f>>, s, Asked(s)) = {x \in Routes : IF Concerns(f, s, x) THEN f.op = "announce" ELSE x \in Asked(s)}
      BY AfterOne
    <3> HIDE DEF e, f
    <3>6. Asked(s) \subseteq Routes /\ (s = p => Asked(s) = {})
      BY <2>2, Zenon DEF Asked
    <3>7. After(<<e>>, s, Asked(s)) = Asked(s)
      BY <3>1, <3>2, <3>3, <3>6, Zenon
    <3>8. After(<<f>>, s, Asked(s)) = Asked(s)
      BY <3>4, <3>5, <3>6, Zenon
    <3> QED
      BY <3>7, <3>8, Zenon
  <2> HIDE DEF e, f
  <2>6. ASSUME NEW s \in Peers PROVE After(watch', s, Relayed(s)) = Asked(s)
    <3>1. After(watch, s, Relayed(s)) = Asked(s)
      BY Zenon DEF FlowInv, Asked
    <3>2. After(Append(watch, e), s, Relayed(s)) = After(<<e>>, s, After(watch, s, Relayed(s)))
      BY <2>1, AfterAppend
    <3> DEFINE w == Append(watch, e)
    <3>3. w \in Seq(Events) /\ watch' = Append(w, f)
      BY <2>3, <2>4, Zenon
    <3> HIDE DEF w
    <3>4. After(Append(w, f), s, Relayed(s)) = After(<<f>>, s, After(w, s, Relayed(s)))
      BY <3>3, AfterAppend
    <3> QED
      BY <2>5, <3>1, <3>2, <3>3, <3>4, Zenon DEF w
  <2>7. UNCHANGED <<callback, bgpUpdates, forwarder, sending, updates, table, lease, rib>>
    BY <1>4, Zenon DEF SessionUp, relay, control, manager
  <2> QED
    BY <2>6, <2>7, FlowPrimed, Zenon DEF FlowInv, Queued, Relayed, Asked
<1>5. CASE Callback
  <2>1. watch \in Seq(Events) /\ watch # <<>> /\ callback = <<>> /\ Head(watch) \in Events
    BY <1>5 DEF Callback, QueueInv
  <2>2. ASSUME NEW s \in Peers PROVE After(watch', s, After(callback', s, After(bgpUpdates, s, After(forwarder, s, Queued(s))))) = Asked(s)
    <3> DEFINE H == After(bgpUpdates, s, After(forwarder, s, Queued(s)))
    <3>1. H \subseteq Routes
      BY AfterRoutes, Zenon
    <3>2. Relayed(s) = H
      BY <2>1, <3>1, AfterNone, Zenon DEF Relayed
    <3>3. After(callback', s, H) = After(<<Head(watch)>>, s, H)
      BY <1>5, <2>1, <3>1, HandledEvent DEF Callback
    <3>4. After(watch, s, H) = After(Tail(watch), s, After(<<Head(watch)>>, s, H))
      BY <2>1, AfterHead
    <3>5. After(watch, s, H) = Asked(s)
      BY <3>2, Zenon DEF FlowInv, Asked
    <3>6. watch' = Tail(watch)
      BY <1>5, Zenon DEF Callback
    <3> HIDE DEF H
    <3>7. After(watch', s, After(callback', s, H)) = Asked(s)
      BY <3>3, <3>4, <3>5, <3>6, Zenon
    <3> QED
      BY <3>7, Zenon DEF H
  <2>3. UNCHANGED <<bgpUpdates, forwarder, sending, updates, table, lease, rib>>
    BY <1>5, Zenon DEF Callback, relay, control, manager
  <2> QED
    BY <2>2, <2>3, FlowPrimed, Zenon DEF FlowInv, Queued, Asked
<1> QED
  BY <1>1, <1>2, <1>3, <1>4, <1>5, Zenon

(* What the channels between the callback and the manager do to them.      *)
LEMMA RelayFlows ==
  ASSUME QueueInv, FlowInv, Serving, Send \/ Take \/ Forward PROVE FlowInv'
<1>1. CASE Send
  <2>1. Joined(bgpUpdates', bgpUpdates, callback) /\ callback' = <<>>
    BY <1>1, Zenon DEF Send, Serving, Joined, QueueInv
  <2>2. ASSUME NEW s \in Peers PROVE After(callback', s, After(bgpUpdates', s, After(forwarder, s, Queued(s)))) = Relayed(s)
    BY <2>1, AfterConcat, AfterNone, AfterRoutes DEF Relayed
  <2>3. UNCHANGED <<watch, forwarder, sending, updates, table, lease, rib>>
    BY <1>1, Zenon DEF Send, relay, control, manager
  <2> QED
    BY <2>2, <2>3, FlowPrimed, Zenon DEF FlowInv, Queued, Asked
<1>2. CASE Take
  <2>1. forwarder = <<>> /\ forwarder' = <<Head(bgpUpdates)>> /\ bgpUpdates' = Tail(bgpUpdates)
    BY <1>2, Zenon DEF Take
  <2>2. bgpUpdates \in Seq(PeerUpdates) /\ bgpUpdates # <<>>
    BY <1>2, Zenon DEF Take, QueueInv
  <2>3. ASSUME NEW s \in Peers PROVE After(callback, s, After(bgpUpdates', s, After(forwarder', s, Queued(s)))) = Relayed(s)
    <3>1. After(bgpUpdates, s, Queued(s)) = After(Tail(bgpUpdates), s, After(<<Head(bgpUpdates)>>, s, Queued(s)))
      BY <2>2, AfterHead
    <3>2. After(<<>>, s, Queued(s)) = Queued(s)
      BY AfterNone, AfterRoutes DEF Queued
    <3> QED
      BY <2>1, <3>1, <3>2, Zenon DEF Relayed
  <2>4. UNCHANGED <<watch, callback, sending, updates, table, lease, rib>>
    BY <1>2, Zenon DEF Take, bgp, control, manager
  <2> QED
    BY <2>3, <2>4, FlowPrimed, Zenon DEF FlowInv, Queued, Asked
<1>3. CASE Forward
  <2> DEFINE all == PeerUpdates \cup LocalUpdates \cup {Resync}
  <2>1. updates \in Seq(all) /\ PeerUpdates \subseteq all
    BY Zenon DEF QueueInv
  <2> HIDE DEF all
  <2>2. forwarder \in Seq(all)
    BY <2>1 DEF QueueInv
  <2>3. Joined(updates', updates, forwarder) /\ forwarder' = <<>>
    BY <1>3, <2>1, <2>2, Zenon DEF Forward, Joined
  <2>4. \A s : After(updates', s, table[s]) = After(forwarder, s, Queued(s))
    BY <2>3, AfterConcat DEF Queued
  <2>5. After(updates', Local, table[Local]) = Queued(Local)
    BY <2>4, OtherFlows, AfterRoutes DEF Queued
  <2>6. ASSUME NEW s \in Peers PROVE After(forwarder', s, After(updates', s, table[s])) = After(forwarder, s, Queued(s))
    BY <2>3, <2>4, AfterNone, AfterRoutes
  <2>7. UNCHANGED <<watch, callback, bgpUpdates, sending, table, lease, rib>>
    BY <1>3, Zenon DEF Forward, bgp, control, manager
  <2> QED
    BY <2>5, <2>6, <2>7, FlowPrimed, Zenon DEF FlowInv, Relayed, Asked
<1> QED
  BY <1>1, <1>2, <1>3, Zenon

(* What the controller, a reconnect and the manager do to them.            *)
LEMMA ManagerFlows ==
  ASSUME QueueInv, FlowInv, Serving,
         OnReconnect \/ (\E r \in Routes \ Unusable : Lease(r)) \/ ControllerSend \/ Apply
  PROVE  FlowInv'
<1> DEFINE all == PeerUpdates \cup LocalUpdates \cup {Resync}
<1>0. updates \in Seq(all) /\ table \in [Sessions -> SUBSET Routes]
  BY Zenon DEF QueueInv
<1>1. CASE OnReconnect
  <2>1. updates' = Append(updates, Resync)
    BY <1>1, Zenon DEF OnReconnect, Serving
  <2>2. \A s, r : ~Concerns(Resync, s, r)
    BY Zenon DEF Concerns, Resync, Update
  <2>3. \A s : After(updates', s, table[s]) = Queued(s)
    BY <2>1, <2>2, AppendOther, Zenon
  <2>4. UNCHANGED <<watch, callback, bgpUpdates, forwarder, sending, table, lease, rib>>
    BY <1>1, Zenon DEF OnReconnect, bgp, relay, control, manager
  <2> QED
    BY <2>3, <2>4, FlowPrimed, Zenon DEF FlowInv, Relayed, Asked
<1>2. ASSUME NEW r \in Routes \ Unusable, Lease(r) PROVE FlowInv'
  <2> DEFINE u == Update(IF r \in lease THEN "withdraw" ELSE "announce", Local, r)
  <2>1. sending = <<>> /\ sending' = <<u>> /\ lease \subseteq Routes
    BY <1>2, Zenon DEF Lease, QueueInv
  <2>2. Queued(Local) = lease
    <3>1. sending = <<>> /\ Queued(Local) \subseteq Routes
      BY <2>1, AfterRoutes, Zenon DEF Queued
    <3>2. After(<<>>, Local, Queued(Local)) = Queued(Local)
      BY <3>1, AfterNone, Zenon
    <3> QED
      BY <3>1, <3>2, Zenon DEF FlowInv
  <2>3. \A x : Concerns(u, Local, x) <=> x = r
    BY Zenon DEF Concerns, Update
  <2>4. (r \in lease => u.op = "withdraw") /\ (r \notin lease => u.op = "announce")
    BY Zenon DEF Update
  <2> HIDE DEF u
  <2>5. After(<<u>>, Local, lease) = {x \in Routes : IF Concerns(u, Local, x) THEN u.op = "announce" ELSE x \in lease}
    BY AfterOne
  <2>6. After(<<u>>, Local, lease) = lease'
    <3>1. CASE r \in lease
      <4>1. lease' = lease \ {r} /\ u.op = "withdraw"
        BY <1>2, <2>4, <3>1, Zenon DEF Lease
      <4> QED
        BY <2>1, <2>3, <2>5, <4>1, Zenon
    <3>2. CASE r \notin lease
      <4>1. lease' = lease \cup {r} /\ u.op = "announce"
        BY <1>2, <2>4, <3>2, Zenon DEF Lease
      <4> QED
        BY <2>1, <2>3, <2>5, <4>1, Zenon
    <3> QED
      BY <3>1, <3>2, Zenon
  <2>7. UNCHANGED <<watch, callback, bgpUpdates, forwarder, updates, table, rib>>
    BY <1>2, Zenon DEF Lease, bgp, relay, manager
  <2> QED
    BY <2>1, <2>2, <2>6, <2>7, FlowPrimed, Zenon DEF FlowInv, Queued, Relayed, Asked
<1>3. CASE ControllerSend
  <2> DEFINE u == Head(sending)
  <2>1. updates' = Append(updates, u) /\ sending' = Tail(sending) /\ sending # <<>>
    BY <1>3, Zenon DEF ControllerSend, Serving
  <2>2. sending \in Seq(LocalUpdates) /\ u \in LocalUpdates
    BY <2>1 DEF QueueInv
  <2>3. \A s \in Peers : \A r : ~Concerns(u, s, r)
    BY <2>2, AgentAssumption, Zenon DEF Concerns, LocalUpdates
  <2>4. \A s \in Peers : After(updates', s, table[s]) = Queued(s)
    BY <2>1, <2>3, AppendOther, Zenon
  <2>5. After(updates', Local, table[Local]) = After(<<u>>, Local, Queued(Local))
    BY <1>0, <2>1, AfterAppend DEF Queued
  <2>6. After(sending', Local, After(<<u>>, Local, Queued(Local))) = After(sending, Local, Queued(Local))
    BY <2>1, <2>2, AfterHead
  <2>7. UNCHANGED <<watch, callback, bgpUpdates, forwarder, table, lease, rib>>
    BY <1>3, Zenon DEF ControllerSend, bgp, relay, manager
  <2> HIDE DEF u
  <2> QED
    BY <2>4, <2>5, <2>6, <2>7, FlowPrimed, Zenon DEF FlowInv, Relayed, Asked
<1>4. CASE Apply
  <2> DEFINE u == Head(updates)
  <2>1. updates # <<>> /\ updates' = Tail(updates) /\ table' = Applied(table, u)
    BY <1>4, Zenon DEF Apply
  <2>2. u \in all
    BY <1>0, <2>1
  <2>3. ASSUME NEW s \in Sessions PROVE After(updates', s, table'[s]) = Queued(s)
    <3>1. table'[s] = After(<<u>>, s, table[s])
      BY <1>0, <2>1, <2>2, HeadApplied, Zenon
    <3>2. After(updates, s, table[s]) = After(Tail(updates), s, After(<<u>>, s, table[s]))
      BY <1>0, <2>1, AfterHead
    <3> QED
      BY <2>1, <3>1, <3>2, Zenon DEF Queued
  <2>4. Local \in Sessions /\ Peers \subseteq Sessions
    BY Zenon DEF Sessions
  <2>5. UNCHANGED <<watch, callback, bgpUpdates, forwarder, sending, lease, rib>>
    BY <1>4, Zenon DEF Apply, bgp, relay, control
  <2> HIDE DEF u
  <2> QED
    BY <2>3, <2>4, <2>5, FlowPrimed, Zenon DEF FlowInv, Relayed, Asked
<1> QED
  BY <1>1, <1>2, <1>3, <1>4, Zenon

(* A process that has just started has nothing under way.                  *)
LEMMA StartedFlows == Started => QueueInv /\ FlowInv
<1> SUFFICES ASSUME Started PROVE QueueInv /\ FlowInv
  BY Zenon
<1>1. QueueInv
  BY DEF Started, QueueInv
<1>2. \A s : After(<<>>, s, {}) = {}
  BY AfterNone
<1>3. table[Local] = {} /\ \A s \in Peers : table[s] = {} /\ rib[s] = {}
  BY Zenon DEF Started, Sessions
<1>4. /\ sending = <<>> /\ updates = <<>> /\ watch = <<>> /\ callback = <<>> /\ bgpUpdates = <<>>
      /\ forwarder = <<>> /\ lease = {}
  BY Zenon DEF Started
<1> QED
  BY <1>1, <1>2, <1>3, <1>4, Zenon DEF FlowInv, Relayed, Queued

(* Every step keeps the flows whole, or the agent is on its way out.       *)
LEMMA RelayStep == RelayInv /\ [Next]_vars => RelayInv'
<1> SUFFICES ASSUME RelayInv, [Next]_vars, Serving' PROVE QueueInv' /\ FlowInv'
  BY Zenon DEF RelayInv
<1>1. CASE Restart
  <2>1. Started'
    BY <1>1, Zenon DEF Restart, Started, Sessions
  <2>2. (QueueInv /\ FlowInv)'
    BY <2>1, StartedFlows, PTL
  <2> QED
    BY <2>2, Zenon
<1>2. CASE ~Restart
  <2>1. Serving
    <3>1. (cancelled' = cancelled \/ cancelled' = TRUE) /\ (stopped' = stopped \/ stopped' = TRUE)
      BY <1>2, Zenon DEF Next, Shutdown, vars, process, Announce, Withdraw, SessionDown, SessionUp, Callback, Send, Take,
         Forward, ForwarderStops, Reconnect, OnReconnect, Lease, WithdrawAll, ControllerSend, Apply, Sample,
         TakeRequest, Reply, RunnerStops, Ask, Answered, StartDetector, StartFails, Cancel, SaveFails,
         ManagerReturns, Export, Write, Rename, CloseStopCh, StopSpeaker, CloseClient, Exit
    <3> QED
      BY <3>1 DEF Serving
  <2>2. QueueInv /\ FlowInv
    BY <2>1, Zenon DEF RelayInv
  <2>3. QueueInv'
    BY <2>1, <2>2, QueueStep, Zenon
  <2>4. CASE UNCHANGED <<watch, callback, bgpUpdates, forwarder, sending, updates, table, lease, rib>>
    BY <2>2, <2>3, <2>4, FlowPrimed, Zenon DEF FlowInv, Queued, Relayed, Asked
  <2>5. CASE ForwarderStops \/ WithdrawAll
    BY <2>1, <2>5, Zenon DEF ForwarderStops, WithdrawAll, Serving
  <2>6. CASE Sample \/ TakeRequest \/ Reply \/ RunnerStops \/ Ask \/ Answered
    BY <2>4, <2>6, Zenon DEF Sample, TakeRequest, Reply, RunnerStops, Ask, Answered, bgp, relay, control, manager
  <2>7. CASE StartDetector \/ StartFails \/ Cancel \/ SaveFails \/ ManagerReturns \/ Export \/ Write \/ Rename
    BY <2>4, <2>7, Zenon DEF StartDetector, StartFails, Cancel, SaveFails, ManagerReturns, Export, Write, Rename,
       pipeline, bgp, relay, control, manager
  <2>8. CASE CloseStopCh \/ StopSpeaker \/ CloseClient \/ Exit \/ Reconnect
    BY <2>4, <2>8, Zenon DEF CloseStopCh, StopSpeaker, CloseClient, Exit, Reconnect, pipeline, bgp, relay, control, manager
  <2>9. CASE UNCHANGED vars
    BY <2>4, <2>9, Zenon DEF vars, bgp, relay, control, manager
  <2>10. CASE \/ \E path \in Paths : Announce(path[1], path[2]) \/ Withdraw(path[1], path[2])
              \/ \E s \in Peers : SessionDown(s) \/ SessionUp(s)
              \/ Callback
    BY <2>2, <2>3, <2>10, PeerFlows, Zenon
  <2>11. CASE Send \/ Take \/ Forward
    BY <2>1, <2>2, <2>3, <2>11, RelayFlows, Zenon
  <2>12. CASE OnReconnect \/ (\E r \in Routes \ Unusable : Lease(r)) \/ ControllerSend \/ Apply
    BY <2>1, <2>2, <2>3, <2>12, ManagerFlows, Zenon
  <2> QED
    BY <1>2, <2>3, <2>5, <2>6, <2>7, <2>8, <2>9, <2>10, <2>11, <2>12, Zenon DEF Next, Shutdown
<1> QED
  BY <1>1, <1>2, Zenon

(* Server.send, the forwarder and the controller: while the agent serves,  *)
(* no update of a peer or of a lease is lost or overtaken on its way to    *)
(* the manager, whatever the capacities of the channels.                   *)
THEOREM NoUpdateLost == Spec => []NothingLost
<1>1. Init => RelayInv
  BY StartedFlows, Zenon DEF Init, RelayInv
<1> QED
  BY <1>1, RelayStep, FlowIsAll, PTL DEF Spec
=============================================================================
