------------------------------ MODULE VppStats ------------------------------
(***************************************************************************)
(* The VPP interface counters as the detector sees them (internal/vppstats *)
(* poller.go, store.go, persist.go, and statsValue of detector/rule.go):   *)
(* the poller turns counter differences into rates, the store keeps them   *)
(* in three rings per interface, and a restarted agent takes the rings of  *)
(* the state file over.                                                    *)
(*                                                                         *)
(* One of the six rate fields is modelled: the others are computed side by *)
(* side with it.  Rates are rationals in units of 1/Scale of a packet per  *)
(* unit of time, Scale being a multiple of every divisor that occurs; the  *)
(* rounding of floating point is left out.  The poll interval is the unit  *)
(* of time.  VPP changes between the reading of its counters and the Adds  *)
(* that follow would commute with them, so they wait until the Adds are    *)
(* done.                                                                   *)
(***************************************************************************)
EXTENDS Integers, Sequences, FiniteSetsExt, Functions

CONSTANTS
  Index,      \* interface indexes, as "ifindex:N" strings
  Names,      \* interface names
  Unnamed,    \* the empty name
  None,
  Configs,    \* configurations the agent can be started with: for the fine,
              \* the medium and the coarse ring [res, dur], 0 when not given
  Defaults,   \* DefaultRingConfig
  Scale,
  Base,       \* the time at the start, far from the epoch
  Budgets     \* bounds, one of which a behaviour keeps: [time, packets received,
              \* changes of interfaces, faults (late polls, failed reads, restarts)]

ASSUME VppStatsAssumption ==
  /\ Unnamed \notin Index \cup Names /\ Index \cap Names = {} /\ None \notin Index
  /\ None \notin Int /\ None \notin (Index \cup Names) \X {"added", "imported"}
  /\ Scale \in Nat /\ Scale % 2 = 0 /\ Base \in Int
  /\ \A i \in DOMAIN Defaults : Defaults[i].res > 0 /\ Defaults[i].dur > 0
  /\ \A c \in Configs : DOMAIN c = DOMAIN Defaults

VARIABLES
  now,
  ifaces,    \* VPP: index -> [name, count], of the interfaces there are
  prev,      \* the poller's previous snapshot [at, count], None when nil
  cur,       \* the snapshot the poller is adding the rates of
  todo,      \* indexes whose rate has not been added yet
  config,    \* Store.config, defaults filled in
  heap,      \* interfaceRings objects: pointer -> [last, slots]
  rings,     \* Store.rings: canonical name -> pointer
  byAlias,   \* Store.byAlias: alias -> pointer
  total,     \* Store.total
  importing, \* the state file has not been imported yet
  dump,      \* the state file: [store, log]
  log,       \* history: name -> samples added, and those of the file restored
  polled,    \* history: samples of the last poll
  account,   \* history: index -> [arrived, credited, reset]
  budget

store == <<config, heap, rings, byAlias, total>>
vpp == <<ifaces, account>>
vars == <<now, vpp, prev, cur, todo, store, importing, dump, log, polled, budget>>

Empty == [x \in {} |-> None]

Put(f, k, v) == [x \in DOMAIN f \cup {k} |-> IF x = k THEN v ELSE f[x]]

-----------------------------------------------------------------------------
(* The rings *)

WithDefaults(c) ==
  [i \in DOMAIN c |-> [res |-> IF c[i].res <= 0 THEN Defaults[i].res ELSE c[i].res,
                       dur |-> IF c[i].dur <= 0 THEN Defaults[i].dur ELSE c[i].dur]]

RingCovers(res, slots, window, offset) ==
  /\ res > 0 /\ slots >= 1 /\ res <= window
  /\ window % res = 0 /\ offset % res = 0
  /\ slots * res >= window + offset

Covers(c, window, offset) ==
  \E i \in DOMAIN c : RingCovers(WithDefaults(c)[i].res,
                                 WithDefaults(c)[i].dur \div WithDefaults(c)[i].res,
                                 window, offset)

EmptySlot == [epoch |-> 0, count |-> 0, rate |-> 0]

NewRing(res, dur) == [k \in 0 .. Max({1, dur \div res}) - 1 |-> EmptySlot]

NewInterfaceRings(c) ==
  [last |-> [at |-> 0, rate |-> 0], slots |-> [i \in DOMAIN c |-> NewRing(c[i].res, c[i].dur)]]

Size(ring) == Cardinality(DOMAIN ring)

RingAddNoReset(ring, res, s) ==
  LET e == s.at \div res
      k == e % Size(ring)
      n == ring[k].count + 1
  IN  [ring EXCEPT ![k] = [epoch |-> e, count |-> n,
                           rate |-> ((n - 1) * @.rate + s.rate) \div n]]

(* The running mean cur + (sample - cur) / n, over one denominator. *)
RingAdd(ring, res, s) ==
  LET e == s.at \div res
      k == e % Size(ring)
      old == IF ring[k].epoch # e THEN [EmptySlot EXCEPT !.epoch = e] ELSE ring[k]
      n == old.count + 1
  IN  [ring EXCEPT ![k] = [epoch |-> e, count |-> n,
                           rate |-> ((n - 1) * old.rate + s.rate) \div n]]

(* The slots that hold an interval of the window. *)
ReadRange(ring, res, t, window, offset) ==
  LET end == (t - offset) \div res
      size == Size(ring)
  IN  {ring[e % size] : e \in {x \in end - Max({1, window \div res}) + 1 .. end :
                                 ring[x % size].epoch = x}}

Aggregate(ring, res, t, window, offset, peak) ==
  LET hit == ReadRange(ring, res, t, window, offset)
      rate(slot) == slot.rate
  IN  IF peak THEN Max({0} \cup {rate(slot) : slot \in hit})
      ELSE IF hit = {} THEN 0
      ELSE MapThenSumSet(rate, hit) \div Cardinality(hit)

(* The coarsest ring that covers the window; 0 when there is none. *)
ChooseRing(r, window, offset) ==
  LET fit == {i \in DOMAIN r.slots :
                RingCovers(config[i].res, Size(r.slots[i]), window, offset)}
  IN  IF fit = {} THEN 0
      ELSE CHOOSE i \in fit : \A j \in fit : /\ config[j].res <= config[i].res
                                             /\ config[j].res = config[i].res => i <= j

-----------------------------------------------------------------------------
(* Reading the store *)

FindRing(name) ==
  IF name \in DOMAIN rings THEN rings[name]
  ELSE IF name \in DOMAIN byAlias THEN byAlias[name]
  ELSE None

InterfaceRates(name) ==
  LET p == FindRing(name) IN IF p = None THEN None ELSE heap[p].last.rate

WindowOf(p, t, window, offset, peak) ==
  LET i == ChooseRing(heap[p], window, offset)
  IN  IF i = 0 THEN None
      ELSE Aggregate(heap[p].slots[i], config[i].res, t, window, offset, peak)

InterfaceWindow(name, t, window, offset, peak) ==
  LET p == FindRing(name) IN IF p = None THEN None ELSE WindowOf(p, t, window, offset, peak)

TotalWindow(t, window, offset, peak) ==
  LET at == [n \in DOMAIN rings |-> WindowOf(rings[n], t, window, offset, peak)]
      ok == {n \in DOMAIN rings : at[n] # None}
  IN  IF ok = {} THEN None ELSE MapThenSumSet(LAMBDA n : at[n], ok)

(* A vpp.* term; iface is the ingress interface of the instance, None for a *)
(* term over all interfaces.  Window 0: the latest poll.                    *)
StatsValue(iface, t, window, offset, peak) ==
  LET v == IF window <= 0
           THEN IF iface = None THEN total ELSE InterfaceRates(iface)
           ELSE IF iface = None THEN TotalWindow(t, window, offset, peak)
           ELSE InterfaceWindow(iface, t, window, offset, peak)
  IN  IF v = None THEN 0 ELSE v

-----------------------------------------------------------------------------
(* Store.Add and the poller *)

InterfaceRingsAdd(r, s) ==
  [last |-> [at |-> s.at, rate |-> s.rate],
   slots |-> [i \in DOMAIN r.slots |-> RingAdd(r.slots[i], config[i].res, s)]]

RecomputeTotal(h, rs) ==
  LET rate(n) == h[rs[n]].last.rate IN MapThenSumSet(rate, DOMAIN rs)

(* What the garbage collector leaves: an object Import replaced lives on    *)
(* for as long as an alias points to it.                                    *)
Live(h, rs, al) == Restrict(h, Range(rs) \cup Range(al))

AddKeepAlias(s) ==
  LET known == s.name \in DOMAIN rings
      p == IF known THEN rings[s.name] ELSE <<s.name, "added">>
      r == IF known THEN heap[p] ELSE NewInterfaceRings(config)
  IN  /\ rings' = Put(rings, s.name, p)
      /\ byAlias' = IF s.alias \in {Unnamed, s.name} \cup DOMAIN byAlias
                    THEN byAlias ELSE Put(byAlias, s.alias, p)
      /\ heap' = Live(Put(heap, p, InterfaceRingsAdd(r, s)), rings', byAlias')
      /\ total' = RecomputeTotal(heap', rings')

Add(s) ==
  LET known == s.name \in DOMAIN rings
      p == IF known THEN rings[s.name] ELSE <<s.name, "added">>
      r == IF known THEN heap[p] ELSE NewInterfaceRings(config)
  IN  /\ rings' = Put(rings, s.name, p)
      /\ byAlias' = IF s.alias \in {Unnamed, s.name}
                    THEN byAlias ELSE Put(byAlias, s.alias, p)
      /\ heap' = Live(Put(heap, p, InterfaceRingsAdd(r, s)), rings', byAlias')
      /\ total' = RecomputeTotal(heap', rings')

(* uint64 subtraction that wraps *)
DeltaRateWrapping(old, new, seconds) == (((new - old) % 64) * Scale) \div seconds

DeltaRate(old, new, seconds) ==
  IF new < old THEN 0 ELSE ((new - old) * Scale) \div seconds

Snapshot(t) == [at |-> t, ifs |-> ifaces]

LogOf(l, n) == IF n \in DOMAIN l THEN l[n] ELSE {}

NewAccount == [arrived |-> 0, credited |-> 0, reset |-> FALSE]

(* The ticker fires and the counters are read; the ticker drops ticks when  *)
(* the loop is late.                                                        *)
Poll(gap) ==
  LET snap == Snapshot(now + gap)
      both == IF prev = None THEN {} ELSE DOMAIN ifaces \cap DOMAIN prev.ifs
  IN  /\ todo = {} /\ now + gap <= Base + budget.time
      /\ now' = now + gap
      /\ todo' = both
      /\ IF both = {} THEN prev' = snap /\ cur' = None ELSE prev' = prev /\ cur' = snap
      /\ polled' = {}
      /\ account' = [i \in Index |->
                       IF i \in both \/ i \notin DOMAIN ifaces THEN account[i] ELSE NewAccount]
      /\ gap - 1 <= budget.faults
      /\ budget' = [budget EXCEPT !.faults = @ - (gap - 1)]
      /\ UNCHANGED <<ifaces, store, importing, dump, log>>

(* One pass of the loop of addRates. *)
AddRate(i) ==
  LET old == prev.ifs[i]
      c == cur.ifs[i]
      seconds == cur.at - prev.at
      s == [at |-> cur.at, rate |-> DeltaRate(old.count, c.count, seconds),
            name |-> IF c.name = Unnamed THEN i ELSE c.name,
            alias |-> IF c.name = Unnamed THEN Unnamed ELSE i]
      entry == [at |-> s.at, rate |-> s.rate, early |-> importing,
                res |-> [k \in DOMAIN config |-> config[k].res]]
  IN  /\ i \in todo
      /\ Add(s)
      /\ todo' = todo \ {i}
      /\ IF todo = {i} THEN prev' = cur /\ cur' = None ELSE UNCHANGED <<prev, cur>>
      /\ log' = Put(log, s.name, {entry} \cup LogOf(log, s.name))
      /\ polled' = polled \cup {[idx |-> i, name |-> s.name, rate |-> s.rate, early |-> importing]}
      /\ account' = [account EXCEPT ![i].credited = @ + s.rate * seconds]
      /\ UNCHANGED <<now, ifaces, config, importing, dump, budget>>

(* The read fails: the connection and the previous snapshot are given up. *)
ReadFails ==
  /\ todo = {} /\ prev # None /\ budget.faults > 0
  /\ prev' = None
  /\ budget' = [budget EXCEPT !.faults = @ - 1]
  /\ UNCHANGED <<now, vpp, cur, todo, store, importing, dump, log, polled>>

-----------------------------------------------------------------------------
(* The state file *)

Export ==
  [n \in DOMAIN rings |->
    [aliases |-> {a \in DOMAIN byAlias : byAlias[a] = rings[n]},
     last |-> heap[rings[n]].last,
     slots |-> heap[rings[n]].slots]]

(* importRing: the number of slots decides, the resolution is not compared. *)
ImportRing(ring, slots) == Size(ring) = Size(slots)

Importable(st) ==
  {n \in DOMAIN st : \A i \in DOMAIN config :
                       ImportRing(NewInterfaceRings(config).slots[i], st[n].slots[i])}

Import ==
  LET st == dump.store
      ok == Importable(st)
      ptr(n) == <<n, "imported">>
      owner(a) == CHOOSE n \in ok : a \in st[n].aliases
      aliases == UNION {st[n].aliases \ {Unnamed, n} : n \in ok}
  IN  /\ importing
      /\ importing' = FALSE
      /\ rings' = [n \in DOMAIN rings \cup ok |-> IF n \in ok THEN ptr(n) ELSE rings[n]]
      /\ byAlias' = [a \in DOMAIN byAlias \cup aliases |->
                       IF a \in aliases THEN ptr(owner(a)) ELSE byAlias[a]]
      /\ heap' = Live([p \in DOMAIN heap \cup {ptr(n) : n \in ok} |->
                         IF p[2] = "imported" THEN [last |-> st[p[1]].last, slots |-> st[p[1]].slots]
                         ELSE heap[p]], rings', byAlias')
      /\ total' = RecomputeTotal(heap', rings')
      /\ log' = [n \in DOMAIN log \cup ok |-> LogOf(log, n) \cup IF n \in ok THEN dump.log[n] ELSE {}]
      /\ UNCHANGED <<now, vpp, prev, cur, todo, config, dump, polled, budget>>

(* The samples that are gone: a late Import put the rings of the file in    *)
(* the place of those that they had been added to.                          *)
Discarded(n) ==
  IF importing \/ n \notin Importable(dump.store) THEN {} ELSE {s \in LogOf(log, n) : s.early}

Saved ==
  [n \in DOMAIN log |-> {[s EXCEPT !.early = FALSE] : s \in log[n] \ Discarded(n)}]

(* The process ends, having exported its state or not, and is started       *)
(* again, possibly with another configuration.  The poller is started       *)
(* before the state file is imported: Poll and AddRate may come first.      *)
Restart(save, c) ==
  /\ budget.faults > 0
  /\ save => ~importing
  /\ dump' = IF save THEN [store |-> Export, log |-> Saved] ELSE dump
  /\ config' = WithDefaults(c)
  /\ prev' = None /\ cur' = None /\ todo' = {}
  /\ heap' = Empty /\ rings' = Empty /\ byAlias' = Empty /\ total' = 0
  /\ log' = Empty /\ polled' = {} /\ importing' = TRUE
  /\ budget' = [budget EXCEPT !.faults = @ - 1]
  /\ UNCHANGED <<now, vpp>>

-----------------------------------------------------------------------------
(* VPP *)

Free == (Names \ {ifaces[i].name : i \in DOMAIN ifaces}) \cup {Unnamed}

Traffic(i) ==
  /\ todo = {} /\ i \in DOMAIN ifaces /\ budget.packets > 0
  /\ ifaces' = [ifaces EXCEPT ![i].count = @ + 1]
  /\ account' = [account EXCEPT ![i].arrived = @ + Scale]
  /\ budget' = [budget EXCEPT !.packets = @ - 1]
  /\ UNCHANGED <<now, prev, cur, todo, store, importing, dump, log, polled>>

(* An interface is created, at an index that may have been in use before,   *)
(* deleted, renamed, or has its counters cleared.                           *)
Change(i, new, reset) ==
  /\ todo = {} /\ budget.changes > 0
  /\ ifaces' = new
  /\ account' = IF reset THEN [account EXCEPT ![i].reset = TRUE] ELSE account
  /\ budget' = [budget EXCEPT !.changes = @ - 1]
  /\ UNCHANGED <<now, prev, cur, todo, store, importing, dump, log, polled>>

Create(i) ==
  /\ i \notin DOMAIN ifaces
  /\ \E n \in Free : Change(i, Put(ifaces, i, [name |-> n, count |-> 0]), TRUE)

Delete(i) == i \in DOMAIN ifaces /\ Change(i, Restrict(ifaces, DOMAIN ifaces \ {i}), TRUE)

Rename(i) ==
  /\ i \in DOMAIN ifaces
  /\ \E n \in Free \ {Unnamed, ifaces[i].name} :
       Change(i, [ifaces EXCEPT ![i].name = n], FALSE)

Clear(i) ==
  /\ i \in DOMAIN ifaces /\ ifaces[i].count > 0
  /\ Change(i, [ifaces EXCEPT ![i].count = 0], TRUE)

Init ==
  /\ now = Base
  /\ \E i \in Index, n \in Names \cup {Unnamed} :
       ifaces = [j \in {i} |-> [name |-> n, count |-> 0]]
  /\ config = Defaults
  /\ prev = None /\ cur = None /\ todo = {}
  /\ heap = Empty /\ rings = Empty /\ byAlias = Empty /\ total = 0
  /\ importing = FALSE /\ dump = [store |-> Empty, log |-> Empty]
  /\ log = Empty /\ polled = {} /\ account = [i \in Index |-> NewAccount]
  /\ budget \in Budgets

Next ==
  \/ \E gap \in 1 .. 2 : Poll(gap)
  \/ \E i \in Index : AddRate(i)
  \/ ReadFails
  \/ Import
  \/ \E save \in BOOLEAN, c \in Configs : Restart(save, c)
  \/ \E i \in Index : Traffic(i) \/ Create(i) \/ Delete(i) \/ Rename(i) \/ Clear(i)

Spec == Init /\ [][Next]_vars

-----------------------------------------------------------------------------
(* Properties *)

(* Of the intervals of ring i that have samples, the mean.                  *)
IntervalMeans(samples, i) ==
  LET res == config[i].res
      own == {s \in samples : s.res[i] = res}
      of(e) == {s \in own : s.at \div res = e}
      rate(s) == s.rate
  IN  [e \in {s.at \div res : s \in own} |-> MapThenSumSet(rate, of(e)) \div Cardinality(of(e))]

Reference(means, res, t, window, offset, peak) ==
  LET end == (t - offset) \div res
      es == DOMAIN means \cap (end - (window \div res) + 1 .. end)
      mean(e) == means[e]
  IN  IF es = {} THEN 0
      ELSE IF peak THEN Max({mean(e) : e \in es})
      ELSE MapThenSumSet(mean, es) \div Cardinality(es)

Serves(c, i, window, offset) ==
  RingCovers(c[i].res, Max({1, c[i].dur \div c[i].res}), window, offset)

(* The windows and offsets that the start-up check accepts, and the         *)
(* coarsest rings that serve them.                                          *)
Accepted ==
  [c \in {Defaults} \cup {WithDefaults(g) : g \in Configs} |->
    LET horizon == Max({c[i].dur : i \in DOMAIN c})
        coarsest(w) == {i \in DOMAIN c :
                          /\ Serves(c, i, w[1], w[2])
                          /\ \A j \in DOMAIN c : Serves(c, j, w[1], w[2]) => c[j].res <= c[i].res}
    IN  {<<w[1], w[2], coarsest(w)>> : w \in {x \in (1 .. horizon) \X (0 .. horizon - 1) :
                                               Covers(c, x[1], x[2])}}]

(* A window that the start-up check (RingConfig.Covers) accepts is served   *)
(* for every interface the store knows, and what InterfaceWindow and        *)
(* TotalWindow return is the mean, or the peak, of the interval means of    *)
(* all the samples added for those intervals, in spite of the reuse of      *)
(* slots, of restarts, and of a state file that was written with another    *)
(* resolution but as many slots, which is restored and whose intervals are  *)
(* never taken for the ones now in use.  Import may come in the middle of a *)
(* poll, as the poller is started before it; then exactly the samples that  *)
(* were added before it, to an interface that the file restores, are        *)
(* missing, and no others.                                                  *)
WindowExact ==
  LET means == [n \in DOMAIN log |->
                  [i \in DOMAIN config |-> IntervalMeans(log[n] \ Discarded(n), i)]]
  IN  todo = {} =>
        /\ DOMAIN rings = DOMAIN log
        /\ \A w \in Accepted[config] :
             \E i \in w[3] :
               \A t \in now .. now + 1, peak \in BOOLEAN :
                 LET value == [n \in DOMAIN rings |->
                                 Reference(means[n][i], config[i].res, t, w[1], w[2], peak)]
                 IN  /\ \A n \in DOMAIN rings :
                          InterfaceWindow(n, t, w[1], w[2], peak) = value[n]
                     /\ t = now => StatsValue(None, t, w[1], w[2], peak)
                                     = MapThenSumSet(LAMBDA n : value[n], DOMAIN rings)

(* The rates recorded for an index, multiplied by the time they stand for,  *)
(* never exceed the packets received there since the poller first saw it,   *)
(* though the interface behind it may be replaced, renamed or have its      *)
(* counters cleared between two polls and polls may be late (deltaRate); as *)
(* long as no counter was reset nothing is missing either.                  *)
Accounted ==
  \A i \in DOMAIN ifaces :
    prev # None /\ i \in DOMAIN prev.ifs /\ todo = {} =>
      /\ account[i].credited <= account[i].arrived
      /\ ~account[i].reset =>
           account[i].credited + (ifaces[i].count - prev.ifs[i].count) * Scale
             = account[i].arrived

(* An index that lost its name or had none has rings of its own under the   *)
(* key that is its alias now; findRing takes those first.                   *)
Shadowed(p) == p.name # p.idx /\ p.idx \in DOMAIN rings

(* A late Import may have put other rings under the name, or led the alias *)
(* to those of the interface that had the index in the previous process.    *)
Overtaken(p) ==
  /\ p.early /\ ~importing
  /\ \/ p.name \in Importable(dump.store)
     \/ \E n \in Importable(dump.store) : p.idx \in dump.store[n].aliases

(* "a named interface is stored once but still found by its ifindex": from  *)
(* the Add of a rate until the next poll, a lookup by the index that sFlow  *)
(* reports leads to the rings of the interface that has the index now and   *)
(* to that rate, whatever the interface was called and whichever one had    *)
(* the index before, in this process or in the one that wrote the state     *)
(* file.  The rates that an Import overtakes, which came too late for them, *)
(* are the exception; from the next poll on it holds for all again.         *)
LookupFollows ==
  \A p \in polled : ~Shadowed(p) /\ ~Overtaken(p) =>
    /\ FindRing(p.idx) = rings[p.name]
    /\ StatsValue(p.idx, now, 0, 0, FALSE) = p.rate

(* "the sum across all VPP interfaces": once a poll is added, the total is  *)
(* the sum of the rates of the interfaces that it found.                    *)
TotalCurrent ==
  LET rate(p) == p.rate
  IN  todo = {} /\ polled # {} => StatsValue(None, now, 0, 0, FALSE) = MapThenSumSet(rate, polled)
=============================================================================
