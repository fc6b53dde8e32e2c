--------------------------- MODULE VppStatsProofs ---------------------------
(***************************************************************************)
(* What the poller credits and where a lookup by index leads, for any      *)
(* interfaces, names, ring configurations and bounds.                      *)
(***************************************************************************)
EXTENDS VppStats, TLAPS

Keys == Index \cup Names
Pointers == Keys \X {"added", "imported"}

Interface == [name : Names \cup {Unnamed}, count : Nat]
Account == [arrived : Int, credited : Int, reset : BOOLEAN]

Partial(D, T) == UNION {[S -> T] : S \in SUBSET D}
Tables == Partial(Index, Interface)
Snapshots == [at : Int, ifs : Tables]

(* Two interfaces have the same name only if they have none.               *)
Distinct(ifs) ==
  \A i, j \in DOMAIN ifs : i # j => ifs[i].name # ifs[j].name \/ ifs[i].name = Unnamed

(* The inductive invariants: what the poller holds, ...                    *)
PollInv ==
  /\ now \in Int
  /\ ifaces \in Tables /\ Distinct(ifaces)
  /\ prev \in Snapshots \cup {None}
  /\ todo \subseteq DOMAIN ifaces
  /\ todo = {} /\ prev # None => prev.at = now
  /\ todo # {} => /\ prev # None /\ todo \subseteq DOMAIN prev.ifs
                  /\ cur = Snapshot(now)
                  /\ now - prev.at \in 1 .. 2

(* ... what was credited, base being the count the next rate starts from,  *)
(* ...                                                                     *)
Balanced(i, count, base) ==
  /\ account[i].credited + (count - base) * Scale <= account[i].arrived
  /\ ~account[i].reset => account[i].credited + (count - base) * Scale = account[i].arrived

AccountInv ==
  /\ account \in [Index -> Account]
  /\ prev # None => \A i \in DOMAIN prev.ifs : account[i].credited <= account[i].arrived
  /\ todo = {} /\ prev # None =>
       \A i \in DOMAIN ifaces \cap DOMAIN prev.ifs : Balanced(i, ifaces[i].count, prev.ifs[i].count)
  /\ todo # {} =>
       \A i \in DOMAIN ifaces :
         IF i \in todo THEN Balanced(i, ifaces[i].count, prev.ifs[i].count) ELSE Balanced(i, 0, 0)

(* ... how the tables of the store hang together, ...                      *)
StoreInv ==
  /\ rings \in Partial(Keys, Pointers)
  /\ \A n \in DOMAIN rings : rings[n][1] = n /\ rings[n] \in DOMAIN heap
  /\ byAlias \in Partial(Index, Pointers)
  /\ DOMAIN dump.store \subseteq Keys
  /\ \A n \in DOMAIN dump.store : dump.store[n].aliases \subseteq Index

(* ... and where the samples of the last poll are.                         *)
NameOf(i) == IF cur.ifs[i].name = Unnamed THEN i ELSE cur.ifs[i].name

Found(p) ==
  /\ p.name \in DOMAIN rings /\ heap[rings[p.name]].last.rate = p.rate
  /\ p.name # p.idx => p.idx \in DOMAIN byAlias /\ byAlias[p.idx] = rings[p.name]

PolledInv ==
  /\ \A p \in polled :
       /\ p.idx \in Index /\ p.name \in Keys /\ p.rate \in Int
       /\ \A j \in todo : j # p.idx /\ NameOf(j) # p.name
       /\ importing => p.early
       /\ ~Overtaken(p) => Found(p)
  /\ importing => \A n \in DOMAIN rings : rings[n][2] = "added"

-----------------------------------------------------------------------------
(* Partial functions, ... *)
LEMMA PartialIntro ==
  ASSUME NEW D, NEW T, NEW S \in SUBSET D, NEW f \in [S -> T]
  PROVE  f \in Partial(D, T)
BY Zenon DEF Partial

(* ... and what is known of one. *)
LEMMA PartialElim ==
  ASSUME NEW D, NEW T, NEW f \in Partial(D, T)
  PROVE  DOMAIN f \in SUBSET D /\ f \in [DOMAIN f -> T]
BY Zenon DEF Partial

(* What Put returns.                                                       *)
LEMMA PutType ==
  ASSUME NEW D, NEW T, NEW f \in Partial(D, T), NEW k \in D, NEW v \in T
  PROVE  /\ Put(f, k, v) \in Partial(D, T) /\ DOMAIN Put(f, k, v) = DOMAIN f \cup {k}
         /\ Put(f, k, v)[k] = v
         /\ \A x \in DOMAIN f \ {k} : Put(f, k, v)[x] = f[x]
<1>1. DOMAIN f \cup {k} \in SUBSET D /\ f \in [DOMAIN f -> T]
  BY PartialElim, Zenon
<1>2. Put(f, k, v) \in [DOMAIN f \cup {k} -> T]
  BY <1>1, Zenon DEF Put
<1>3. Put(f, k, v) \in Partial(D, T)
  BY <1>1, <1>2, PartialIntro, Zenon
<1> QED
  BY <1>3, Zenon DEF Put

(* The interfaces of a table. *)
LEMMA TableFacts ==
  ASSUME NEW t \in Tables
  PROVE  /\ DOMAIN t \subseteq Index /\ t \in [DOMAIN t -> Interface]
         /\ \A i \in DOMAIN t : t[i].count \in Nat /\ t[i].name \in Names \cup {Unnamed}
<1>1. DOMAIN t \subseteq Index /\ t \in [DOMAIN t -> Interface]
  BY PartialElim, Zenon DEF Tables
<1> QED
  BY <1>1, Zenon DEF Interface

-----------------------------------------------------------------------------
(* The poller and VPP.                                                     *)

(* The poller at the start, ... *)
LEMMA PollInit == Init => PollInv
<1> SUFFICES ASSUME Init PROVE PollInv
  BY Zenon
<1>1. PICK i \in Index, n \in Names \cup {Unnamed} :
        ifaces = [j \in {i} |-> [name |-> n, count |-> 0]]
  BY Zenon DEF Init
<1>2. ifaces \in [{i} -> Interface]
  BY <1>1, Zenon DEF Interface
<1>3. ifaces \in Tables
  BY <1>2, PartialIntro, Zenon DEF Tables
<1>4. Distinct(ifaces)
  BY <1>1, Zenon DEF Distinct
<1>5. now \in Int
  BY VppStatsAssumption, Zenon DEF Init
<1> QED
  BY <1>3, <1>4, <1>5, Zenon DEF Init, PollInv

(* What a change of the interfaces may do to the table.                    *)
LEMMA ChangeFacts ==
  ASSUME PollInv, NEW i \in Index, Traffic(i) \/ Create(i) \/ Delete(i) \/ Rename(i) \/ Clear(i)
  PROVE  /\ ifaces' \in Tables /\ Distinct(ifaces')
         /\ todo = {} /\ todo' = {} /\ UNCHANGED <<now, prev, cur>>
<1> DEFINE D == DOMAIN ifaces
<1>0. ifaces \in Tables /\ Distinct(ifaces) /\ D \subseteq Index /\ ifaces \in [D -> Interface]
  BY TableFacts, Zenon DEF PollInv
<1>1. todo = {} /\ todo' = {} /\ UNCHANGED <<now, prev, cur>>
  BY Zenon DEF Traffic, Create, Delete, Rename, Clear, Change
<1>2. CASE Traffic(i)
  <2>1. i \in D /\ ifaces' = [ifaces EXCEPT ![i].count = @ + 1]
    BY <1>2, Zenon DEF Traffic
  <2>2. ifaces' \in [D -> Interface] /\ \A j \in D : ifaces'[j].name = ifaces[j].name
    BY <1>0, <2>1 DEF Interface
  <2>3. ifaces' \in Tables
    BY <1>0, <2>2, PartialIntro, Zenon DEF Tables
  <2>4. Distinct(ifaces')
    BY <1>0, <2>2, Zenon DEF Distinct
  <2> QED
    BY <1>1, <2>3, <2>4, Zenon
<1>3. CASE Create(i)
  <2>1. PICK n \in Free : ifaces' = Put(ifaces, i, [name |-> n, count |-> 0])
    BY <1>3, Zenon DEF Create, Change
  <2> DEFINE r == [name |-> n, count |-> 0]
  <2>2. i \notin D /\ r \in Interface
    BY <1>3, Zenon DEF Create, Free, Interface
  <2>3. ifaces' \in Tables /\ DOMAIN ifaces' = D \cup {i} /\ ifaces'[i] = r
        /\ \A j \in D \ {i} : ifaces'[j] = ifaces[j]
    <3>1. ifaces \in Partial(Index, Interface)
      BY <1>0, Zenon DEF Tables
    <3> HIDE DEF r
    <3>2. /\ Put(ifaces, i, r) \in Partial(Index, Interface)
          /\ DOMAIN Put(ifaces, i, r) = DOMAIN ifaces \cup {i} /\ Put(ifaces, i, r)[i] = r
          /\ \A j \in DOMAIN ifaces \ {i} : Put(ifaces, i, r)[j] = ifaces[j]
      <4>1. r \in Interface
        BY <2>2, Zenon
      <4> QED
        BY <3>1, <4>1, PutType
    <3>3. ifaces' = Put(ifaces, i, r)
      BY <2>1, Zenon DEF r
    <3> QED
      BY <3>2, <3>3, Zenon DEF Tables
  <2>4. n = Unnamed \/ \A j \in D : ifaces[j].name # n
    BY Zenon DEF Free
  <2>5. Distinct(ifaces')
    <3> SUFFICES ASSUME NEW j \in DOMAIN ifaces', NEW k \in DOMAIN ifaces', j # k,
                        ifaces'[j].name = ifaces'[k].name
                 PROVE  ifaces'[j].name = Unnamed
      BY Zenon DEF Distinct
    <3>1. CASE j \in D /\ k \in D
      BY <1>0, <2>2, <2>3, <3>1, Zenon DEF Distinct
    <3>2. CASE j = i /\ k \in D
      BY <2>2, <2>3, <2>4, <3>2
    <3>3. CASE k = i /\ j \in D
      BY <2>2, <2>3, <2>4, <3>3
    <3> QED
      BY <2>3, <3>1, <3>2, <3>3, Zenon
  <2> QED
    BY <1>1, <2>3, <2>5, Zenon
<1>4. CASE Delete(i)
  <2>1. ifaces' = Restrict(ifaces, D \ {i})
    BY <1>4, Zenon DEF Delete, Change
  <2>2. ifaces' \in [D \ {i} -> Interface] /\ \A j \in D \ {i} : ifaces'[j] = ifaces[j]
    BY <1>0, <2>1, Zenon DEF Restrict
  <2>3. ifaces' \in Tables
    BY <1>0, <2>2, PartialIntro, Zenon DEF Tables
  <2>4. Distinct(ifaces')
    BY <1>0, <2>2 DEF Distinct
  <2> QED
    BY <1>1, <2>3, <2>4, Zenon
<1>5. CASE Rename(i)
  <2>1. PICK n \in Free \ {Unnamed, ifaces[i].name} :
          i \in D /\ ifaces' = [ifaces EXCEPT ![i].name = n]
    BY <1>5, Zenon DEF Rename, Change
  <2>2. n \in Names /\ \A j \in D : ifaces[j].name # n
    BY <2>1, Zenon DEF Free
  <2>3. /\ ifaces' \in [D -> Interface] /\ ifaces'[i].name = n
        /\ \A j \in D \ {i} : ifaces'[j].name = ifaces[j].name
    BY <1>0, <2>1, <2>2, Zenon DEF Interface
  <2>4. ifaces' \in Tables
    BY <1>0, <2>3, PartialIntro, Zenon DEF Tables
  <2>5. Distinct(ifaces')
    BY <1>0, <2>2, <2>3 DEF Distinct
  <2> QED
    BY <1>1, <2>4, <2>5, Zenon
<1>6. CASE Clear(i)
  <2>1. i \in D /\ ifaces' = [ifaces EXCEPT ![i].count = 0]
    BY <1>6, Zenon DEF Clear, Change
  <2>2. ifaces' \in [D -> Interface] /\ \A j \in D : ifaces'[j].name = ifaces[j].name
    BY <1>0, <2>1, Zenon DEF Interface
  <2>3. ifaces' \in Tables
    BY <1>0, <2>2, PartialIntro, Zenon DEF Tables
  <2>4. Distinct(ifaces')
    BY <1>0, <2>2, Zenon DEF Distinct
  <2> QED
    BY <1>1, <2>3, <2>4, Zenon
<1> QED
  BY <1>2, <1>3, <1>4, <1>5, <1>6, Zenon

(* ... and after every step. *)
LEMMA PollStep == PollInv /\ [Next]_vars => PollInv'
<1> SUFFICES ASSUME PollInv, [Next]_vars PROVE PollInv'
  BY Zenon
<1>1. ASSUME NEW gap \in 1 .. 2, Poll(gap) PROVE PollInv'
  <2> DEFINE both == IF prev = None THEN {} ELSE DOMAIN ifaces \cap DOMAIN prev.ifs
  <2>1. /\ todo = {} /\ now' = now + gap /\ todo' = both /\ ifaces' = ifaces
        /\ IF both = {} THEN prev' = Snapshot(now + gap) /\ cur' = None
           ELSE prev' = prev /\ cur' = Snapshot(now + gap)
    BY <1>1, Zenon DEF Poll
  <2>2. now' \in Int
    BY <2>1 DEF PollInv
  <2>3. Snapshot(now + gap) \in Snapshots /\ Snapshot(now + gap).at = now'
        /\ Snapshot(now + gap) = Snapshot(now)'
    BY <2>1, <2>2, Zenon DEF Snapshot, Snapshots, PollInv
  <2>4. CASE both = {}
    BY <2>1, <2>2, <2>3, <2>4, Zenon DEF PollInv
  <2>5. CASE both # {}
    <3>1. prev # None /\ prev.at = now /\ prev.at \in Int
      BY <2>1, <2>5, Zenon DEF PollInv
    <3>2. now' - prev'.at \in 1 .. 2
      BY <2>1, <2>5, <3>1
    <3> QED
      BY <2>1, <2>2, <2>3, <2>5, <3>1, <3>2, Zenon DEF PollInv
  <2> QED
    BY <2>4, <2>5, Zenon
<1>2. ASSUME NEW i \in Index, AddRate(i) PROVE PollInv'
  <2>1. /\ i \in todo /\ todo' = todo \ {i} /\ now' = now /\ ifaces' = ifaces
        /\ IF todo = {i} THEN prev' = cur /\ cur' = None ELSE UNCHANGED <<prev, cur>>
    BY <1>2, Zenon DEF AddRate
  <2>2. cur = Snapshot(now) /\ cur \in Snapshots /\ cur.at = now /\ Snapshot(now)' = Snapshot(now)
    BY <2>1 DEF PollInv, Snapshot, Snapshots
  <2> QED
    BY <2>1, <2>2, Zenon DEF PollInv
<1>3. CASE ReadFails
  BY <1>3, Zenon DEF ReadFails, PollInv, vpp
<1>4. CASE Import
  <2>1. UNCHANGED <<now, ifaces, prev, cur, todo>>
    BY <1>4, Zenon DEF Import, vpp
  <2> QED
    BY <2>1, Zenon DEF PollInv, Snapshot
<1>5. ASSUME NEW save \in BOOLEAN, NEW c \in Configs, Restart(save, c) PROVE PollInv'
  BY <1>5, Zenon DEF Restart, PollInv, vpp
<1>6. ASSUME NEW i \in Index, Traffic(i) \/ Create(i) \/ Delete(i) \/ Rename(i) \/ Clear(i)
      PROVE  PollInv'
  <2>1. /\ ifaces' \in Tables /\ Distinct(ifaces')
        /\ todo = {} /\ todo' = {} /\ UNCHANGED <<now, prev, cur>>
    BY <1>6, ChangeFacts, Zenon
  <2> QED
    BY <2>1, Zenon DEF PollInv
<1>7. CASE UNCHANGED vars
  BY <1>7, Zenon DEF vars, vpp, PollInv, Snapshot
<1> QED
  BY <1>1, <1>2, <1>3, <1>4, <1>5, <1>6, <1>7, Zenon DEF Next

-----------------------------------------------------------------------------
(* Accounts.                                                               *)

(* Differences of counters, scaled. *)
LEMMA Products ==
  ASSUME NEW a \in Int, NEW b \in Int, NEW c \in Int
  PROVE  /\ (a - b) * Scale \in Int /\ (a - a) * Scale = 0
         /\ (a + 1 - b) * Scale = (a - b) * Scale + Scale
         /\ a <= c => (a - b) * Scale <= (c - b) * Scale
<1>1. Scale \in Nat
  BY VppStatsAssumption, Zenon
<1>2. (a - b) * Scale \in Int /\ (a - a) * Scale = 0
  BY <1>1
<1>3. (a + 1 - b) * Scale = (a - b) * Scale + Scale
  BY <1>1
<1>4. ASSUME a <= c PROVE (a - b) * Scale <= (c - b) * Scale
  <2>1. (c - a) \in Nat /\ (c - a) * Scale >= 0
    BY <1>1, <1>4
  <2>2. (c - b) * Scale = (a - b) * Scale + (c - a) * Scale
    BY <1>1
  <2> QED
    BY <1>1, <2>1, <2>2
<1> QED
  BY <1>2, <1>3, <1>4, Zenon

(* deltaRate loses nothing, in units of 1/Scale.                           *)
LEMMA Credit ==
  ASSUME NEW old \in Nat, NEW new \in Nat, NEW seconds \in 1 .. 2
  PROVE  /\ DeltaRate(old, new, seconds) \in Int
         /\ DeltaRate(old, new, seconds) * seconds = IF new < old THEN 0 ELSE (new - old) * Scale
<1>1. Scale \in Nat /\ Scale % 2 = 0
  BY VppStatsAssumption, Zenon
<1>2. PICK h \in Nat : Scale = 2 * h
  BY <1>1
<1>3. CASE new < old
  BY <1>3 DEF DeltaRate
<1>4. CASE ~(new < old)
  <2> DEFINE d == new - old
             y == d * Scale
  <2>1. d \in Nat /\ y \in Int /\ DeltaRate(old, new, seconds) = y \div seconds
    BY <1>1, <1>4 DEF DeltaRate
  <2>2. y = 2 * (d * h) /\ d * h \in Int
    BY <1>2, <2>1
  <2> HIDE DEF y, d
  <2>3. CASE seconds = 1
    <3>1. y \div 1 = y /\ y * 1 = y
      BY <2>1
    <3> QED
      BY <1>4, <2>1, <2>3, <3>1, Zenon DEF y, d
  <2>4. CASE seconds = 2
    <3> DEFINE z == d * h
    <3>1. z \in Int /\ y = 2 * z
      BY <2>2, Zenon
    <3> HIDE DEF z
    <3>2. y \div 2 = z /\ z * 2 = y
      BY <3>1
    <3> QED
      BY <1>4, <2>1, <2>4, <3>1, <3>2, Zenon DEF y, d
  <2> QED
    BY <2>3, <2>4
<1> QED
  BY <1>3, <1>4, Zenon

(* Every poll, add, loss of a counter and change of the interfaces keeps the account. *)
LEMMA AccountStep == PollInv /\ AccountInv /\ [Next]_vars => AccountInv'
<1> SUFFICES ASSUME PollInv, AccountInv, [Next]_vars PROVE AccountInv'
  BY Zenon
<1> DEFINE D == DOMAIN ifaces
           P == DOMAIN prev.ifs
<1>0. /\ D \subseteq Index /\ \A i \in D : ifaces[i].count \in Nat
      /\ prev # None => prev \in Snapshots /\ P \subseteq Index /\ \A i \in P : prev.ifs[i].count \in Nat
  <2>1. D \subseteq Index /\ \A i \in D : ifaces[i].count \in Nat
    BY TableFacts, Zenon DEF PollInv
  <2>2. ASSUME prev # None
        PROVE  prev \in Snapshots /\ P \subseteq Index /\ \A i \in P : prev.ifs[i].count \in Nat
    <3>1. prev \in Snapshots /\ prev.ifs \in Tables
      BY <2>2, Zenon DEF PollInv, Snapshots
    <3> QED
      BY <3>1, TableFacts, Zenon
  <2> QED
    BY <2>1, <2>2, Zenon
<1>a. /\ account \in [Index -> Account]
      /\ \A i \in Index : /\ account[i].credited \in Int /\ account[i].arrived \in Int
                          /\ account[i].reset \in BOOLEAN
  BY Zenon DEF AccountInv, Account
<1>b. \A i \in Index : Balanced(i, 0, 0) <=>
        /\ account[i].credited <= account[i].arrived
        /\ ~account[i].reset => account[i].credited = account[i].arrived
  BY <1>a, Products DEF Balanced
<1>c. NewAccount \in Account /\ NewAccount.credited = 0 /\ NewAccount.arrived = 0
  BY DEF NewAccount, Account
<1>1. ASSUME NEW gap \in 1 .. 2, Poll(gap) PROVE AccountInv'
  <2> DEFINE both == IF prev = None THEN {} ELSE D \cap P
  <2>1. /\ todo = {} /\ todo' = both /\ ifaces' = ifaces
        /\ IF both = {} THEN prev' = Snapshot(now + gap) ELSE prev' = prev
        /\ account' = [i \in Index |-> IF i \in both \/ i \notin D THEN account[i] ELSE NewAccount]
    BY <1>1, Zenon DEF Poll
  <2>2. account' \in [Index -> Account]
    BY <2>1, <1>a, <1>c, Zenon
  <2>3. ASSUME NEW i \in D \ both, NEW c \in Int
        PROVE  Balanced(i, c, c)' /\ account'[i].credited <= account'[i].arrived
    <3>1. account'[i] = NewAccount
      BY <2>1, <1>0, Zenon
    <3>2. (c - c) * Scale = 0
      BY Products, Zenon
    <3> QED
      BY <3>1, <3>2, <1>c DEF Balanced
  <2>4. CASE both = {}
    <3>1. prev'.ifs = ifaces
      BY <2>1, <2>4 DEF Snapshot
    <3>2. \A i \in D : ifaces[i].count \in Int
      BY <1>0
    <3> QED
      BY <2>1, <2>2, <2>3, <2>4, <3>1, <3>2, Zenon DEF AccountInv
  <2>5. CASE both # {}
    <3>1. prev # None /\ prev' = prev
      BY <2>1, <2>5, Zenon
    <3>2. ASSUME NEW i \in P PROVE account'[i].credited <= account'[i].arrived
      <4>1. account'[i] = account[i]
        BY <2>1, <3>1, <1>0, Zenon
      <4> QED
        BY <4>1, <3>1, Zenon DEF AccountInv
    <3>3. ASSUME NEW i \in D
          PROVE  IF i \in todo' THEN Balanced(i, ifaces[i].count, prev.ifs[i].count)'
                 ELSE Balanced(i, 0, 0)'
      <4>1. CASE i \in both
        <5>1. account'[i] = account[i]
          BY <2>1, <1>0, <4>1, Zenon
        <5>2. Balanced(i, ifaces[i].count, prev.ifs[i].count)
          BY <2>1, <3>1, <4>1, Zenon DEF AccountInv
        <5> QED
          BY <5>1, <5>2, <4>1, <2>1, <3>1, Zenon DEF Balanced
      <4>2. CASE i \notin both
        BY <4>2, <2>1, <2>3
      <4> QED
        BY <4>1, <4>2, Zenon
    <3> QED
      BY <2>1, <2>2, <2>5, <3>1, <3>2, <3>3, Zenon DEF AccountInv
  <2> QED
    BY <2>4, <2>5, Zenon
<1>2. ASSUME NEW i \in Index, AddRate(i) PROVE AccountInv'
  <2> DEFINE old == prev.ifs[i].count
             new == ifaces[i].count
             seconds == now - prev.at
             got == DeltaRate(old, new, seconds) * seconds
  <2>1. /\ i \in todo /\ prev # None /\ i \in D /\ i \in P /\ cur = Snapshot(now)
        /\ seconds \in 1 .. 2 /\ old \in Nat /\ new \in Nat /\ todo \subseteq P
    BY <1>2, <1>0, Zenon DEF AddRate, PollInv
  <2>2. cur.at = now /\ cur.ifs = ifaces
    BY <2>1, Zenon DEF Snapshot
  <2>3. /\ todo' = todo \ {i} /\ ifaces' = ifaces
        /\ prev' = IF todo = {i} THEN cur ELSE prev
        /\ account' = [account EXCEPT ![i].credited = @ + got]
    BY <1>2, <2>2, Zenon DEF AddRate
  <2>4. got = (IF new < old THEN 0 ELSE (new - old) * Scale) /\ got \in Int
    <3> HIDE DEF old, new, seconds
    <3>1. got = (IF new < old THEN 0 ELSE (new - old) * Scale)
      BY <2>1, Credit, Zenon
    <3>2. old \in Int /\ new \in Int
      BY <2>1
    <3>3. (new - old) * Scale \in Int
      BY <3>2, Products, Zenon
    <3> QED
      BY <3>1, <3>3
  <2>5. /\ account' \in [Index -> Account]
        /\ account'[i].credited = account[i].credited + got
        /\ account'[i].arrived = account[i].arrived /\ account'[i].reset = account[i].reset
        /\ \A j \in Index \ {i} : account'[j] = account[j]
    <3> HIDE DEF got
    <3> QED
      BY <2>3, <2>4, <1>a DEF Account
  <2>6. account[i].credited <= account[i].arrived /\ Balanced(i, new, old)
    BY <2>1, Zenon DEF AccountInv
  <2>7. /\ account'[i].credited <= account'[i].arrived
        /\ ~account'[i].reset => account'[i].credited = account'[i].arrived
    <3> DEFINE w == (new - old) * Scale
    <3>1. w \in Int /\ (new < old => w <= 0)
      <4> HIDE DEF old, new
      <4>0. old \in Int /\ new \in Int
        BY <2>1
      <4>1. w \in Int /\ (old - old) * Scale = 0 /\ (new <= old => w <= (old - old) * Scale)
        BY <4>0, Products, Zenon
      <4> QED
        BY <4>1, <2>1
    <3>2. /\ account[i].credited + w <= account[i].arrived
          /\ ~account[i].reset => account[i].credited + w = account[i].arrived
      BY <2>6, Zenon DEF Balanced
    <3> HIDE DEF w
    <3>3. got = IF new < old THEN 0 ELSE w
      BY <2>4, Zenon DEF w
    <3> HIDE DEF got
    <3> QED
      BY <3>1, <3>2, <3>3, <2>5, <2>6, <1>a
  <2>8. ASSUME NEW j \in D, NEW c \in Int, j \notin todo'
        PROVE  Balanced(j, c, c)' /\ Balanced(j, 0, 0)' /\ account'[j].credited <= account'[j].arrived
    <3>1. /\ account'[j].credited <= account'[j].arrived
          /\ ~account'[j].reset => account'[j].credited = account'[j].arrived
          /\ account'[j].credited \in Int
      <4>1. CASE j = i
        BY <4>1, <2>5, <2>7, <2>4, <1>a
      <4>2. CASE j # i
        <5>1. account'[j] = account[j] /\ j \in Index /\ j \notin todo
          BY <4>2, <2>3, <2>5, <2>8, <1>0, Zenon
        <5>2. Balanced(j, 0, 0)
          BY <5>1, <2>1, Zenon DEF AccountInv
        <5> QED
          BY <5>1, <5>2, <1>a, <1>b, Zenon
      <4> QED
        BY <4>1, <4>2, Zenon
    <3>2. (c - c) * Scale = 0 /\ (0 - 0) * Scale = 0
      BY Products
    <3> QED
      BY <3>1, <3>2 DEF Balanced
  <2>9. CASE todo = {i}
    <3>1. todo' = {} /\ prev'.ifs = ifaces
      BY <2>2, <2>3, <2>9, Zenon
    <3>2. \A j \in D : ifaces[j].count \in Int
      BY <1>0
    <3> QED
      BY <3>1, <3>2, <2>3, <2>5, <2>8 DEF AccountInv
  <2>10. CASE todo # {i}
    <3>1. todo' # {} /\ prev' = prev
      BY <2>1, <2>3, <2>10, Zenon
    <3>2. ASSUME NEW j \in P PROVE account'[j].credited <= account'[j].arrived
      <4>1. j = i \/ account'[j] = account[j]
        BY <2>1, <2>5, <1>0, Zenon
      <4> QED
        BY <4>1, <2>1, <2>7, Zenon DEF AccountInv
    <3>3. ASSUME NEW j \in todo' PROVE Balanced(j, ifaces[j].count, prev.ifs[j].count)'
      <4>1. j \in todo /\ j \in D /\ account'[j] = account[j]
        BY <2>3, <2>5, <1>0, Zenon DEF PollInv
      <4>2. Balanced(j, ifaces[j].count, prev.ifs[j].count)
        BY <2>1, <4>1, Zenon DEF AccountInv
      <4> QED
        BY <4>1, <4>2, <2>3, <3>1, Zenon DEF Balanced
    <3> QED
      BY <3>1, <3>2, <3>3, <2>3, <2>5, <2>8 DEF AccountInv
  <2> QED
    BY <2>9, <2>10, Zenon
<1>3. CASE ReadFails
  BY <1>3, Zenon DEF ReadFails, AccountInv, vpp
<1>4. ASSUME NEW save \in BOOLEAN, NEW c \in Configs, Restart(save, c) PROVE AccountInv'
  BY <1>4, Zenon DEF Restart, AccountInv, vpp
<1>5. ASSUME NEW i \in Index, Traffic(i) \/ Create(i) \/ Delete(i) \/ Rename(i) \/ Clear(i)
      PROVE  AccountInv'
  <2>1. todo = {} /\ todo' = {} /\ prev' = prev
    BY <1>5, ChangeFacts, Zenon
  <2>2. CASE Traffic(i)
    <3>1. /\ i \in D /\ ifaces' = [ifaces EXCEPT ![i].count = @ + 1]
          /\ account' = [account EXCEPT ![i].arrived = @ + Scale]
      BY <2>2, Zenon DEF Traffic
    <3>2. Scale \in Nat
      BY VppStatsAssumption, Zenon
    <3>3. /\ account' \in [Index -> Account]
          /\ account'[i].arrived = account[i].arrived + Scale
          /\ account'[i].credited = account[i].credited /\ account'[i].reset = account[i].reset
          /\ \A j \in Index \ {i} : account'[j] = account[j]
      BY <3>1, <3>2, <1>a DEF Account
    <3>4. /\ DOMAIN ifaces' = D /\ ifaces'[i].count = ifaces[i].count + 1
          /\ \A j \in D \ {i} : ifaces'[j] = ifaces[j]
      BY <3>1, TableFacts, Zenon DEF PollInv, Interface
    <3>5. ASSUME prev # None, NEW j \in P PROVE account'[j].credited <= account'[j].arrived
      <4>1. account[j].credited <= account[j].arrived /\ j \in Index
        BY <3>5, <1>0, Zenon DEF AccountInv
      <4> QED
        BY <4>1, <3>2, <3>3, <1>a
    <3>6. ASSUME prev # None, NEW j \in D \cap P
          PROVE  Balanced(j, ifaces[j].count, prev.ifs[j].count)'
      <4>1. Balanced(j, ifaces[j].count, prev.ifs[j].count)
        BY <2>1, <3>6, Zenon DEF AccountInv
      <4>2. CASE j # i
        BY <4>1, <4>2, <3>3, <3>4, <2>1, <1>0, Zenon DEF Balanced
      <4>3. CASE j = i
        <5> DEFINE n == ifaces[i].count
                   b == prev.ifs[i].count
                   w == (n - b) * Scale
                   v == (n + 1 - b) * Scale
        <5>1. n \in Nat /\ b \in Nat
          BY <3>6, <4>3, <1>0, Zenon
        <5>2. w \in Int /\ v = w + Scale
          <6> HIDE DEF n, b
          <6>1. n \in Int /\ b \in Int
            BY <5>1
          <6> QED
            BY <6>1, Products, Zenon
        <5>3. /\ account[i].credited + w <= account[i].arrived
              /\ ~account[i].reset => account[i].credited + w = account[i].arrived
          BY <4>1, <4>3, Zenon DEF Balanced
        <5>4. /\ account'[i].credited + v <= account'[i].arrived
              /\ ~account'[i].reset => account'[i].credited + v = account'[i].arrived
          <6> HIDE DEF w, v
          <6> QED
            BY <5>2, <5>3, <3>2, <3>3, <1>a
        <5>5. (ifaces'[j].count - prev'.ifs[j].count) * Scale = v
          <6>1. ifaces'[j].count = n + 1
            BY <4>3, <3>4, Zenon
          <6>2. prev'.ifs[j].count = b
            BY <4>3, <2>1, Zenon
          <6> HIDE DEF n, b
          <6> QED
            BY <6>1, <6>2, <5>1, <3>2
        <5> HIDE DEF v
        <5> QED
          BY <5>4, <5>5, <4>3, Zenon DEF Balanced
      <4> QED
        BY <4>2, <4>3, Zenon
    <3> QED
      BY <2>1, <3>3, <3>4, <3>5, <3>6, Zenon DEF AccountInv
  <2>3. CASE Create(i) \/ Clear(i)
    <3>1. /\ DOMAIN ifaces' = D \cup {i} /\ ifaces'[i].count = 0
          /\ \A j \in D \ {i} : ifaces'[j] = ifaces[j]
          /\ account' = [account EXCEPT ![i].reset = TRUE]
      <4>1. CASE Create(i)
        BY <4>1 DEF Create, Change, Put
      <4>2. CASE Clear(i)
        <5>1. i \in D /\ ifaces' = [ifaces EXCEPT ![i].count = 0] /\ ifaces \in [D -> Interface]
              /\ account' = [account EXCEPT ![i].reset = TRUE]
          BY <4>2, TableFacts, Zenon DEF Clear, Change, PollInv
        <5> QED
          BY <5>1, Zenon DEF Interface
      <4> QED
        BY <2>3, <4>1, <4>2, Zenon
    <3>2. /\ account' \in [Index -> Account] /\ account'[i].reset
          /\ account'[i].credited = account[i].credited /\ account'[i].arrived = account[i].arrived
          /\ \A j \in Index \ {i} : account'[j] = account[j]
      BY <3>1, <1>a, Zenon DEF Account
    <3>3. ASSUME prev # None, NEW j \in P PROVE account'[j].credited <= account'[j].arrived
      BY <3>3, <3>2, <1>0, Zenon DEF AccountInv
    <3>4. ASSUME prev # None, NEW j \in DOMAIN ifaces' \cap P
          PROVE  Balanced(j, ifaces[j].count, prev.ifs[j].count)'
      <4>1. CASE j # i
        <5>1. Balanced(j, ifaces[j].count, prev.ifs[j].count)
          BY <2>1, <3>1, <3>4, <4>1, Zenon DEF AccountInv
        <5> QED
          BY <5>1, <4>1, <3>1, <3>2, <3>4, <2>1, <1>0, Zenon DEF Balanced
      <4>2. CASE j = i
        <5> DEFINE b == prev.ifs[i].count
                   w == (0 - b) * Scale
        <5>1. b \in Nat
          BY <3>4, <4>2, <1>0, Zenon
        <5>2. w \in Int /\ w <= 0
          <6> HIDE DEF b
          <6>1. w \in Int /\ (b - b) * Scale = 0 /\ (0 <= b => w <= (b - b) * Scale)
            BY <5>1, Products
          <6> QED
            BY <6>1, <5>1
        <5>3. account'[i].credited + w <= account'[i].arrived
          <6>1. account'[i].credited <= account'[i].arrived
            BY <3>3, <3>4, <4>2, Zenon
          <6> HIDE DEF w
          <6> QED
            BY <6>1, <5>2, <3>2, <1>a
        <5> QED
          BY <5>3, <4>2, <3>1, <3>2, <2>1, Zenon DEF Balanced
      <4> QED
        BY <4>1, <4>2, Zenon
    <3> QED
      BY <2>1, <3>2, <3>3, <3>4, Zenon DEF AccountInv
  <2>4. CASE Delete(i)
    <3>1. /\ DOMAIN ifaces' = D \ {i} /\ \A j \in D \ {i} : ifaces'[j] = ifaces[j]
          /\ account' = [account EXCEPT ![i].reset = TRUE]
      BY <2>4, Zenon DEF Delete, Change, Restrict
    <3>2. /\ account' \in [Index -> Account]
          /\ account'[i].credited = account[i].credited /\ account'[i].arrived = account[i].arrived
          /\ \A j \in Index \ {i} : account'[j] = account[j]
      BY <3>1, <1>a, Zenon DEF Account
    <3>3. ASSUME prev # None, NEW j \in P PROVE account'[j].credited <= account'[j].arrived
      BY <3>3, <3>2, <1>0, Zenon DEF AccountInv
    <3>4. ASSUME prev # None, NEW j \in DOMAIN ifaces' \cap P
          PROVE  Balanced(j, ifaces[j].count, prev.ifs[j].count)'
      <4>1. Balanced(j, ifaces[j].count, prev.ifs[j].count)
        BY <2>1, <3>1, <3>4, Zenon DEF AccountInv
      <4> QED
        BY <4>1, <3>1, <3>2, <3>4, <2>1, <1>0, Zenon DEF Balanced
    <3> QED
      BY <2>1, <3>2, <3>3, <3>4, Zenon DEF AccountInv
  <2>5. CASE Rename(i)
    <3>1. /\ DOMAIN ifaces' = D /\ \A j \in D : ifaces'[j].count = ifaces[j].count
          /\ account' = account
      BY <2>5, TableFacts DEF Rename, Change, PollInv, Interface
    <3> QED
      BY <2>1, <3>1, Zenon DEF AccountInv, Balanced
  <2> QED
    BY <1>5, <2>2, <2>3, <2>4, <2>5, Zenon
<1>6. CASE UNCHANGED <<account, ifaces, prev, todo>>
  BY <1>6, Zenon DEF AccountInv, Balanced
<1>7. Import \/ UNCHANGED vars => UNCHANGED <<account, ifaces, prev, todo>>
  BY Zenon DEF Import, vars, vpp
<1> QED
  BY <1>1, <1>2, <1>3, <1>4, <1>5, <1>6, <1>7, Zenon DEF Next

(* What the poller holds is always in order. *)
LEMMA PollerCorrect == Spec => []PollInv
BY PollInit, PollStep, PTL DEF Spec

(* The poller (addRates, deltaRate) credits an interface index with no     *)
(* more packets than arrived there, and with all of them when no counter   *)
(* was reset, for any interfaces and any order of polls, failed reads,     *)
(* restarts and changes in VPP.                                            *)
THEOREM PollerAccounts == Spec => []Accounted
<1>1. Init => AccountInv
  <2> SUFFICES ASSUME Init PROVE AccountInv
    BY Zenon
  <2>1. account \in [Index -> Account]
    BY DEF Init, NewAccount, Account
  <2> QED
    BY <2>1, Zenon DEF Init, AccountInv
<1>2. PollInv /\ AccountInv => Accounted
  BY Zenon DEF AccountInv, Accounted, Balanced
<1> QED
  BY <1>1, <1>2, AccountStep, PollerCorrect, PTL DEF Spec

-----------------------------------------------------------------------------
(* The store.                                                              *)

(* The empty function is a partial one. *)
LEMMA EmptyPartial == ASSUME NEW D, NEW T PROVE Empty \in Partial(D, T) /\ DOMAIN Empty = {}
<1>1. Empty \in [{} -> T]
  BY Zenon DEF Empty
<1> QED
  BY <1>1, PartialIntro, Zenon DEF Empty

(* Sample of the pass of addRates for i.                                   *)
RateOf(i) == DeltaRate(prev.ifs[i].count, cur.ifs[i].count, cur.at - prev.at)
PointerOf(n) == IF n \in DOMAIN rings THEN rings[n] ELSE <<n, "added">>

(* What a pass of addRates does to the tables of the store.                *)
LEMMA AddFacts ==
  ASSUME PollInv, StoreInv, NEW i \in Index, AddRate(i)
  PROVE  LET n == NameOf(i)
             p == PointerOf(n)
         IN /\ i \in todo /\ n \in Keys /\ (n = i \/ n \in Names) /\ p \in Pointers /\ p[1] = n
            /\ RateOf(i) \in Int
            /\ rings' = Put(rings, n, p)
            /\ byAlias' = IF n = i THEN byAlias ELSE Put(byAlias, i, p)
            /\ DOMAIN heap' = Range(rings') \cup Range(byAlias')
            /\ heap'[p].last.rate = RateOf(i)
            /\ \A q \in DOMAIN heap' \cap DOMAIN heap : q # p => heap'[q] = heap[q]
            /\ polled' = polled \cup {[idx |-> i, name |-> n, rate |-> RateOf(i), early |-> importing]}
            /\ todo' = todo \ {i} /\ (todo' # {} => cur' = cur) /\ UNCHANGED <<dump, importing>>
<1> DEFINE n == NameOf(i)
           p == PointerOf(n)
           s == [at |-> cur.at, rate |-> RateOf(i), name |-> n,
                 alias |-> IF cur.ifs[i].name = Unnamed THEN Unnamed ELSE i]
           r == IF n \in DOMAIN rings THEN heap[p] ELSE NewInterfaceRings(config)
           h == Put(heap, p, InterfaceRingsAdd(r, s))
<1>1. i \in todo /\ todo # {} /\ cur = Snapshot(now) /\ prev # None /\ i \in DOMAIN prev.ifs
      /\ now - prev.at \in 1 .. 2 /\ i \in DOMAIN ifaces
  BY Zenon DEF AddRate, PollInv
<1>2. cur.ifs = ifaces /\ cur.at = now
  BY <1>1, Zenon DEF Snapshot
<1>3. prev.ifs[i].count \in Nat /\ cur.ifs[i].count \in Nat /\ cur.ifs[i].name \in Names \cup {Unnamed}
  <2>1. prev.ifs \in Tables /\ ifaces \in Tables
    BY <1>1, Zenon DEF PollInv, Snapshots
  <2> QED
    BY <1>1, <1>2, <2>1, TableFacts, Zenon
<1>4. RateOf(i) \in Int
  BY <1>1, <1>2, <1>3, Credit, Zenon DEF RateOf
<1>5. n \in Keys /\ (n = i \/ n \in Names) /\ (n = i <=> cur.ifs[i].name = Unnamed)
  BY <1>3, VppStatsAssumption, Zenon DEF NameOf, Keys
<1>6. p \in Pointers /\ p[1] = n
  <2>1. CASE n \in DOMAIN rings
    <3>1. rings[n][1] = n /\ rings[n] \in Pointers
      BY <2>1, PartialElim DEF StoreInv
    <3> QED
      BY <2>1, <3>1, Zenon DEF PointerOf
  <2>2. CASE n \notin DOMAIN rings
    <3>1. <<n, "added">> \in Pointers
      BY <1>5, Zenon DEF Pointers
    <3> QED
      BY <2>2, <3>1, Zenon DEF PointerOf
  <2> QED
    BY <2>1, <2>2, Zenon
<1>7. Add(s)
  BY Zenon DEF AddRate, NameOf, RateOf
<1>8. /\ polled' = polled \cup {[idx |-> i, name |-> n, rate |-> RateOf(i), early |-> importing]}
      /\ todo' = todo \ {i} /\ (todo' # {} => cur' = cur) /\ UNCHANGED <<dump, importing>>
  BY Zenon DEF AddRate, NameOf, RateOf
<1>9. s.name = n /\ s.rate = RateOf(i) /\ s.alias = IF n = i THEN Unnamed ELSE i
  BY <1>5, Zenon
<1>10. /\ rings' = Put(rings, n, p)
       /\ byAlias' = IF s.alias \in {Unnamed, n} THEN byAlias ELSE Put(byAlias, s.alias, p)
       /\ heap' = Live(h, rings', byAlias')
  <2> HIDE DEF s
  <2> QED
    BY <1>7, <1>9, Zenon DEF Add, PointerOf
<1>11. byAlias' = IF n = i THEN byAlias ELSE Put(byAlias, i, p)
  <2>1. n # i => i # Unnamed /\ i # n
    BY VppStatsAssumption, Zenon
  <2> HIDE DEF s, n, p
  <2> QED
    BY <1>9, <1>10, <2>1, Zenon
<1>12. /\ DOMAIN heap' = Range(rings') \cup Range(byAlias')
       /\ \A q \in DOMAIN heap' : heap'[q] = h[q]
  <2> HIDE DEF h
  <2> QED
    BY <1>10, Zenon DEF Live, Restrict
<1>13. p \in DOMAIN heap'
  <2>1. n \in DOMAIN rings' /\ rings'[n] = p
    <3> HIDE DEF n, p
    <3> QED
      BY <1>10, Zenon DEF Put
  <2> QED
    BY <2>1, <1>12, Zenon DEF Range
<1>14. h[p] = InterfaceRingsAdd(r, s) /\ \A q \in DOMAIN heap : q # p => h[q] = heap[q]
  <2> HIDE DEF p, r, s
  <2> QED
    BY Zenon DEF Put
<1>15. heap'[p].last.rate = RateOf(i)
  <2>1. InterfaceRingsAdd(r, s).last.rate = s.rate
    <3> HIDE DEF r, s
    <3> QED
      BY Zenon DEF InterfaceRingsAdd
  <2> HIDE DEF h, p, s, r
  <2> QED
    BY <1>9, <1>12, <1>13, <1>14, <2>1, Zenon
<1>16. \A q \in DOMAIN heap' \cap DOMAIN heap : q # p => heap'[q] = heap[q]
  <2> HIDE DEF h, p
  <2> QED
    BY <1>12, <1>14, Zenon
<1> HIDE DEF n, p
<1> QED
  BY <1>1, <1>4, <1>5, <1>6, <1>8, <1>10, <1>11, <1>12, <1>15, <1>16, Zenon DEF n, p

(* The store at the start, ... *)
LEMMA StoreInit == Init => StoreInv
<1> SUFFICES ASSUME Init PROVE StoreInv
  BY Zenon
<1>1. rings = Empty /\ byAlias = Empty /\ dump.store = Empty
  BY Zenon DEF Init
<1> QED
  BY <1>1, EmptyPartial, Zenon DEF StoreInv

(* ... and after every add and import. *)
LEMMA StoreStep == PollInv /\ StoreInv /\ [Next]_vars => StoreInv'
<1> SUFFICES ASSUME PollInv, StoreInv, [Next]_vars PROVE StoreInv'
  BY Zenon
<1>0. /\ DOMAIN rings \subseteq Keys /\ rings \in [DOMAIN rings -> Pointers]
      /\ DOMAIN byAlias \subseteq Index /\ byAlias \in [DOMAIN byAlias -> Pointers]
  BY PartialElim, Zenon DEF StoreInv
<1>1. ASSUME NEW i \in Index, AddRate(i) PROVE StoreInv'
  <2> DEFINE n == NameOf(i)
             p == PointerOf(n)
  <2>1. /\ n \in Keys /\ p \in Pointers /\ p[1] = n
        /\ rings' = Put(rings, n, p)
        /\ byAlias' = IF n = i THEN byAlias ELSE Put(byAlias, i, p)
        /\ DOMAIN heap' = Range(rings') \cup Range(byAlias')
        /\ dump' = dump
    BY <1>1, AddFacts, Zenon
  <2> HIDE DEF n, p
  <2>2. rings \in Partial(Keys, Pointers) /\ byAlias \in Partial(Index, Pointers)
    BY Zenon DEF StoreInv
  <2>3. /\ rings' \in Partial(Keys, Pointers) /\ DOMAIN rings' = DOMAIN rings \cup {n}
        /\ rings'[n] = p /\ \A x \in DOMAIN rings \ {n} : rings'[x] = rings[x]
    <3>1. n \in Keys
      BY <2>1, Zenon
    <3>2. p \in Pointers
      BY <2>1, Zenon
    <3>3. rings \in Partial(Keys, Pointers)
      BY <2>2, Zenon
    <3>4. Put(rings, n, p) \in Partial(Keys, Pointers)
      BY <3>1, <3>2, <3>3, PutType, Zenon
    <3> QED
      BY <2>1, <3>4, Zenon DEF Put
  <2>4. byAlias' \in Partial(Index, Pointers)
    BY <2>1, <2>2, PutType, Zenon
  <2>5. \A x \in DOMAIN rings' : rings'[x][1] = x /\ rings'[x] \in DOMAIN heap'
    <3>1. \A x \in DOMAIN rings' : rings'[x][1] = x
      BY <2>1, <2>3, Zenon DEF StoreInv
    <3>2. \A x \in DOMAIN rings' : rings'[x] \in DOMAIN heap'
      BY <2>1, Zenon DEF Range
    <3> QED
      BY <3>1, <3>2, Zenon
  <2> QED
    BY <2>1, <2>3, <2>4, <2>5, Zenon DEF StoreInv
<1>2. CASE Import
  <2> DEFINE st == dump.store
             ok == Importable(st)
             aliases == UNION {st[n].aliases \ {Unnamed, n} : n \in ok}
             owner(a) == CHOOSE n \in ok : a \in st[n].aliases
  <2>1. /\ rings' = [n \in DOMAIN rings \cup ok |-> IF n \in ok THEN <<n, "imported">> ELSE rings[n]]
        /\ byAlias' = [a \in DOMAIN byAlias \cup aliases |->
                         IF a \in aliases THEN <<owner(a), "imported">> ELSE byAlias[a]]
        /\ dump' = dump
    BY <1>2, Zenon DEF Import
  <2>2. DOMAIN heap' = Range(rings') \cup Range(byAlias')
    BY <1>2, Zenon DEF Import, Live, Restrict
  <2>3. ok \subseteq Keys /\ ok \subseteq DOMAIN st
    BY Zenon DEF Importable, StoreInv
  <2>4. aliases \subseteq Index /\ \A a \in aliases : owner(a) \in ok
    BY <2>3, Zenon DEF StoreInv
  <2>5. \A n \in Keys : <<n, "imported">> \in Pointers /\ <<n, "imported">>[1] = n
    BY Zenon DEF Pointers
  <2> HIDE DEF ok, aliases, owner
  <2>6. rings' \in [DOMAIN rings \cup ok -> Pointers]
    BY <2>1, <2>3, <2>5, <1>0, Zenon
  <2>7. byAlias' \in [DOMAIN byAlias \cup aliases -> Pointers]
    BY <2>1, <2>3, <2>4, <2>5, <1>0, Zenon
  <2>8. rings' \in Partial(Keys, Pointers) /\ byAlias' \in Partial(Index, Pointers)
    <3>1. DOMAIN rings \cup ok \in SUBSET Keys /\ DOMAIN byAlias \cup aliases \in SUBSET Index
      BY <1>0, <2>3, <2>4, Zenon
    <3> QED
      BY <3>1, <2>6, <2>7, PartialIntro, Zenon
  <2>9. \A n \in DOMAIN rings' : rings'[n][1] = n
    BY <2>1, <2>3, <2>5, <1>0, Zenon DEF StoreInv
  <2>10. \A n \in DOMAIN rings' : rings'[n] \in DOMAIN heap'
    BY <2>2, Zenon DEF Range
  <2> QED
    BY <2>1, <2>8, <2>9, <2>10, Zenon DEF StoreInv
<1>3. ASSUME NEW save \in BOOLEAN, NEW c \in Configs, Restart(save, c) PROVE StoreInv'
  <2>1. /\ rings' = Empty /\ byAlias' = Empty
        /\ dump' = IF save THEN [store |-> Export, log |-> Saved] ELSE dump
    BY <1>3, Zenon DEF Restart
  <2>2. DOMAIN Export \subseteq Keys /\ \A n \in DOMAIN Export : Export[n].aliases \subseteq Index
    BY <1>0, Zenon DEF Export
  <2>3. dump'.store = IF save THEN Export ELSE dump.store
    BY <2>1, Zenon
  <2> HIDE DEF Export
  <2>4. DOMAIN dump'.store \subseteq Keys /\ \A n \in DOMAIN dump'.store : dump'.store[n].aliases \subseteq Index
    BY <2>2, <2>3, Zenon DEF StoreInv
  <2> QED
    BY <2>1, <2>4, EmptyPartial, Zenon DEF StoreInv
<1>4. CASE UNCHANGED <<store, dump>>
  BY <1>4, Zenon DEF store, StoreInv
<1>5. ASSUME NEW gap \in 1 .. 2, Poll(gap) PROVE UNCHANGED <<store, dump>>
  BY <1>5, Zenon DEF Poll
<1>6. ASSUME NEW i \in Index, Traffic(i) \/ Create(i) \/ Delete(i) \/ Rename(i) \/ Clear(i)
      PROVE  UNCHANGED <<store, dump>>
  BY <1>6, Zenon DEF Traffic, Create, Delete, Rename, Clear, Change
<1>7. ReadFails \/ UNCHANGED vars => UNCHANGED <<store, dump>>
  BY Zenon DEF ReadFails, vars
<1> QED
  BY <1>1, <1>2, <1>3, <1>4, <1>5, <1>6, <1>7, Zenon DEF Next

(* What the last poll added stays where lookups find it. *)
LEMMA PolledStep == PollInv /\ StoreInv /\ PolledInv /\ [Next]_vars => PolledInv'
<1> SUFFICES ASSUME PollInv, StoreInv, PolledInv, [Next]_vars PROVE PolledInv'
  BY Zenon
<1>0. ASSUME UNCHANGED <<config, dump>> PROVE Importable(dump.store)' = Importable(dump.store)
  BY <1>0, Zenon DEF Importable, NewInterfaceRings, NewRing, ImportRing, Size
<1>1. ASSUME NEW i \in Index, AddRate(i) PROVE PolledInv'
  <2> DEFINE n == NameOf(i)
             p == PointerOf(n)
             new == [idx |-> i, name |-> n, rate |-> RateOf(i), early |-> importing]
  <2>1. /\ i \in todo /\ n \in Keys /\ (n = i \/ n \in Names) /\ p \in Pointers /\ p[1] = n
        /\ RateOf(i) \in Int
        /\ rings' = Put(rings, n, p)
        /\ byAlias' = IF n = i THEN byAlias ELSE Put(byAlias, i, p)
        /\ DOMAIN heap' = Range(rings') \cup Range(byAlias')
        /\ heap'[p].last.rate = RateOf(i)
        /\ \A q \in DOMAIN heap' \cap DOMAIN heap : q # p => heap'[q] = heap[q]
        /\ polled' = polled \cup {new}
        /\ todo' = todo \ {i} /\ (todo' # {} => cur' = cur) /\ UNCHANGED <<dump, importing>>
    BY <1>1, AddFacts, Zenon
  <2>2. \A j \in todo' : NameOf(j)' = NameOf(j)
    BY <2>1, Zenon DEF NameOf
  <2>3. /\ new.idx = i /\ new.name = n /\ new.rate = RateOf(i) /\ new.early = importing
        /\ \A x \in polled' : x \in polled \/ x = new
    BY <2>1, Zenon
  <2>4. ASSUME NEW j \in todo' PROVE j # i /\ NameOf(j) # n
    <3>1. cur.ifs = ifaces /\ i \in DOMAIN ifaces /\ j \in DOMAIN ifaces /\ j # i /\ Distinct(ifaces)
          /\ ifaces \in Tables
      <4>1. /\ ifaces \in Tables /\ Distinct(ifaces) /\ todo \subseteq DOMAIN ifaces
            /\ todo # {} => cur = Snapshot(now)
        BY Zenon DEF PollInv
      <4>2. i \in todo /\ j \in todo /\ j # i
        BY <2>1, Zenon
      <4>3. cur.ifs = ifaces
        <5>1. Snapshot(now).ifs = ifaces
          BY Zenon DEF Snapshot
        <5> QED
          BY <4>1, <4>2, <5>1, Zenon
      <4> QED
        BY <4>1, <4>2, <4>3, Zenon
    <3>2. /\ i \in Index /\ j \in Index
          /\ ifaces[i].name \in Names \cup {Unnamed} /\ ifaces[j].name \in Names \cup {Unnamed}
          /\ ifaces[i].name # ifaces[j].name \/ ifaces[i].name = Unnamed
      BY <3>1, TableFacts, Zenon DEF Distinct
    <3> QED
      BY <3>1, <3>2, VppStatsAssumption, Zenon DEF NameOf
  <2> HIDE DEF n, p, new
  <2>5. /\ DOMAIN rings' = DOMAIN rings \cup {n} /\ rings'[n] = p
        /\ \A x \in DOMAIN rings \ {n} : rings'[x] = rings[x]
    BY <2>1, Zenon DEF Put
  <2>6. n # i => i \in DOMAIN byAlias' /\ byAlias'[i] = p
    BY <2>1, Zenon DEF Put
  <2>7. \A x \in DOMAIN byAlias : x # i => x \in DOMAIN byAlias' /\ byAlias'[x] = byAlias[x]
    BY <2>1, Zenon DEF Put
  <2>8. ASSUME NEW q \in polled
        PROVE  /\ q.idx \in Index /\ q.name \in Keys /\ q.rate \in Int
               /\ \A j \in todo' : j # q.idx /\ NameOf(j)' # q.name
               /\ importing' => q.early
               /\ ~Overtaken(q)' => Found(q)'
    <3>1. /\ q.idx \in Index /\ q.name \in Keys /\ q.rate \in Int
          /\ \A j \in todo : j # q.idx /\ NameOf(j) # q.name
          /\ importing => q.early
          /\ ~Overtaken(q) => Found(q)
      BY Zenon DEF PolledInv
    <3>2. q.idx # i /\ q.name # n
      BY <2>1, <3>1, Zenon DEF n
    <3>3. Overtaken(q)' = Overtaken(q)
      <4>1. config' = config
        BY <1>1, Zenon DEF AddRate
      <4>2. Importable(dump.store)' = Importable(dump.store)
        BY <2>1, <4>1, <1>0, Zenon
      <4> HIDE DEF Importable
      <4> QED
        BY <2>1, <4>2, Zenon DEF Overtaken
    <3>4. ASSUME Found(q) PROVE Found(q)'
      <4>1. /\ q.name \in DOMAIN rings /\ heap[rings[q.name]].last.rate = q.rate
            /\ q.name # q.idx => q.idx \in DOMAIN byAlias /\ byAlias[q.idx] = rings[q.name]
        BY <3>4, Zenon DEF Found
      <4>2. rings'[q.name] = rings[q.name] /\ q.name \in DOMAIN rings'
        BY <2>5, <4>1, <3>2, Zenon
      <4>3. rings[q.name] # p /\ rings[q.name] \in DOMAIN heap
        BY <2>1, <4>1, <3>2, Zenon DEF StoreInv
      <4>4. rings[q.name] \in DOMAIN heap'
        BY <2>1, <4>2, Zenon DEF Range
      <4>5. heap'[rings'[q.name]] = heap[rings[q.name]]
        BY <2>1, <4>2, <4>3, <4>4, Zenon
      <4> QED
        BY <2>7, <4>1, <4>2, <4>5, <3>2, Zenon DEF Found
    <3> QED
      BY <2>1, <2>2, <3>1, <3>3, <3>4, Zenon
  <2>9. /\ i \in Index /\ n \in Keys /\ RateOf(i) \in Int
        /\ \A j \in todo' : j # i /\ NameOf(j)' # n
    BY <2>1, <2>2, <2>4, Zenon
  <2>10. ASSUME NEW q, q = new PROVE Found(q)'
    BY <2>1, <2>3, <2>5, <2>6, <2>10, Zenon DEF Found
  <2>11. importing' => \A x \in DOMAIN rings' : rings'[x][2] = "added"
    <3>1. ASSUME importing PROVE p[2] = "added"
      BY <3>1 DEF p, PointerOf, PolledInv
    <3>2. importing' = importing
      BY <2>1, Zenon
    <3> QED
      BY <2>5, <3>1, <3>2, Zenon DEF PolledInv
  <2>12. ASSUME NEW q \in polled'
         PROVE  /\ q.idx \in Index /\ q.name \in Keys /\ q.rate \in Int
                /\ \A j \in todo' : j # q.idx /\ NameOf(j)' # q.name
                /\ importing' => q.early
                /\ ~Overtaken(q)' => Found(q)'
    <3>1. CASE q = new
      BY <3>1, <2>1, <2>3, <2>9, <2>10, Zenon
    <3> QED
      BY <3>1, <2>3, <2>8, Zenon
  <2> QED
    BY <2>11, <2>12, Zenon DEF PolledInv
<1>2. ASSUME NEW gap \in 1 .. 2, Poll(gap) PROVE PolledInv'
  BY <1>2, Zenon DEF Poll, PolledInv, store
<1>3. CASE Import
  <2> DEFINE st == dump.store
             ok == Importable(st)
             aliases == UNION {st[n].aliases \ {Unnamed, n} : n \in ok}
             owner(a) == CHOOSE n \in ok : a \in st[n].aliases
             h == [p \in DOMAIN heap \cup {<<n, "imported">> : n \in ok} |->
                     IF p[2] = "imported" THEN [last |-> st[p[1]].last, slots |-> st[p[1]].slots]
                     ELSE heap[p]]
  <2>1. /\ importing /\ ~importing'
        /\ rings' = [n \in DOMAIN rings \cup ok |-> IF n \in ok THEN <<n, "imported">> ELSE rings[n]]
        /\ byAlias' = [a \in DOMAIN byAlias \cup aliases |->
                         IF a \in aliases THEN <<owner(a), "imported">> ELSE byAlias[a]]
        /\ heap' = Live(h, rings', byAlias')
        /\ UNCHANGED <<config, dump, polled, todo, cur>>
    BY <1>3, Zenon DEF Import
  <2>2. Importable(dump.store)' = ok
    BY <2>1, <1>0, Zenon
  <2>3. ASSUME NEW q \in polled, ~Overtaken(q)' PROVE Found(q)'
    <3>1. q.early /\ Found(q)
      BY <2>1, Zenon DEF PolledInv, Overtaken
    <3>2. q.name \notin ok /\ \A n \in ok : q.idx \notin st[n].aliases
      BY <2>1, <2>2, <2>3, <3>1, Zenon DEF Overtaken
    <3>3. q.name \notin ok /\ q.idx \notin aliases
      BY <3>2, Zenon
    <3>4. /\ q.name \in DOMAIN rings /\ heap[rings[q.name]].last.rate = q.rate
          /\ q.name # q.idx => q.idx \in DOMAIN byAlias /\ byAlias[q.idx] = rings[q.name]
      BY <3>1, Zenon DEF Found
    <3>5. rings[q.name][2] # "imported" /\ rings[q.name] \in DOMAIN heap
      BY <2>1, <3>4 DEF PolledInv, StoreInv
    <3> HIDE DEF ok, aliases, owner
    <3>6. q.name \in DOMAIN rings' /\ rings'[q.name] = rings[q.name]
      BY <2>1, <3>3, <3>4, Zenon
    <3>7. q.name # q.idx => q.idx \in DOMAIN byAlias' /\ byAlias'[q.idx] = byAlias[q.idx]
      BY <2>1, <3>3, <3>4, Zenon
    <3>8. h[rings[q.name]] = heap[rings[q.name]]
      BY <3>5, Zenon
    <3> HIDE DEF h
    <3>9. heap'[rings'[q.name]] = h[rings'[q.name]]
      BY <2>1, <3>6, Zenon DEF Live, Restrict, Range
    <3> QED
      BY <3>4, <3>6, <3>7, <3>8, <3>9, Zenon DEF Found
  <2>4. \A j \in todo : NameOf(j)' = NameOf(j)
    BY <2>1, Zenon DEF NameOf
  <2>5. ASSUME NEW q \in polled'
        PROVE  /\ q.idx \in Index /\ q.name \in Keys /\ q.rate \in Int
               /\ \A j \in todo' : j # q.idx /\ NameOf(j)' # q.name
               /\ importing' => q.early
               /\ ~Overtaken(q)' => Found(q)'
    <3>1. q \in polled /\ todo' = todo /\ ~importing'
      BY <2>1, <2>5, Zenon
    <3> QED
      BY <3>1, <2>3, <2>4, Zenon DEF PolledInv
  <2> QED
    BY <2>1, <2>5, Zenon DEF PolledInv
<1>4. ASSUME NEW save \in BOOLEAN, NEW c \in Configs, Restart(save, c) PROVE PolledInv'
  BY <1>4, Zenon DEF Restart, PolledInv, Empty
<1>5. CASE UNCHANGED <<store, importing, dump, polled>> /\ todo' = {}
  <2>1. UNCHANGED <<config, heap, rings, byAlias, importing, dump, polled>> /\ todo' = {}
    BY <1>5, Zenon DEF store
  <2>2. Importable(dump.store)' = Importable(dump.store)
    BY <2>1, <1>0, Zenon
  <2>3. \A q \in polled : (Overtaken(q)' <=> Overtaken(q)) /\ (Found(q)' <=> Found(q))
    BY <2>1, <2>2, Zenon DEF Overtaken, Found
  <2> QED
    BY <2>1, <2>3, Zenon DEF PolledInv
<1>6. CASE UNCHANGED vars
  <2>1. UNCHANGED <<config, heap, rings, byAlias, importing, dump, polled, todo, cur>>
    BY <1>6, Zenon DEF vars, store
  <2>2. \A j \in todo : NameOf(j)' = NameOf(j)
    BY <2>1, Zenon DEF NameOf
  <2>3. Importable(dump.store)' = Importable(dump.store)
    BY <2>1, <1>0, Zenon
  <2>4. \A q \in polled : (Overtaken(q)' <=> Overtaken(q)) /\ (Found(q)' <=> Found(q))
    BY <2>1, <2>3, Zenon DEF Overtaken, Found
  <2> QED
    BY <2>1, <2>2, <2>4, Zenon DEF PolledInv
<1>7. ASSUME NEW i \in Index, Traffic(i) \/ Create(i) \/ Delete(i) \/ Rename(i) \/ Clear(i)
      PROVE  UNCHANGED <<store, importing, dump, polled>> /\ todo' = {}
  BY <1>7, Zenon DEF Traffic, Create, Delete, Rename, Clear, Change
<1>8. ReadFails => UNCHANGED <<store, importing, dump, polled>> /\ todo' = {}
  BY Zenon DEF ReadFails
<1> QED
  BY <1>1, <1>2, <1>3, <1>4, <1>5, <1>6, <1>7, <1>8, Zenon DEF Next

(* Store.Add keeps the alias of an interface with it, and findRing follows *)
(* it until the next poll, whatever happened to the index before: renames, *)
(* reuse of the index, a state file of another process.  Only a sample     *)
(* that an Import overtakes is exempt, and only if the file has its name   *)
(* or its index.                                                           *)
THEOREM LookupFindsInterface == Spec => []LookupFollows
<1>1. Init => PolledInv
  BY Zenon DEF Init, PolledInv
<1>2. StoreInv /\ PolledInv => LookupFollows
  <2> SUFFICES ASSUME StoreInv, PolledInv, NEW p \in polled, ~Shadowed(p), ~Overtaken(p)
               PROVE  /\ FindRing(p.idx) = rings[p.name]
                      /\ StatsValue(p.idx, now, 0, 0, FALSE) = p.rate
    BY Zenon DEF LookupFollows
  <2>1. /\ p.idx \in Index /\ p.rate \in Int /\ p.name \in DOMAIN rings
        /\ heap[rings[p.name]].last.rate = p.rate
        /\ p.name # p.idx => p.idx \in DOMAIN byAlias /\ byAlias[p.idx] = rings[p.name]
    BY Zenon DEF PolledInv, Found
  <2>2. FindRing(p.idx) = rings[p.name]
    BY <2>1, Zenon DEF FindRing, Shadowed
  <2>3. rings[p.name] \in Pointers
    BY <2>1, PartialElim DEF StoreInv
  <2>4. rings[p.name] # None /\ p.rate # None /\ p.idx # None
    BY <2>1, <2>3, VppStatsAssumption, Zenon DEF Pointers, Keys
  <2>5. InterfaceRates(p.idx) = p.rate
    BY <2>1, <2>2, <2>4, Zenon DEF InterfaceRates
  <2>6. StatsValue(p.idx, now, 0, 0, FALSE) = p.rate
    BY <2>4, <2>5 DEF StatsValue
  <2> QED
    BY <2>2, <2>6, Zenon
<1> QED
  BY <1>1, <1>2, StoreInit, StoreStep, PolledStep, PollerCorrect, PTL DEF Spec
=============================================================================
