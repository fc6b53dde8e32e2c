--------------------------- MODULE AclListProofs ---------------------------
(***************************************************************************)
(* What the loop of splitNonManaged keeps of a list, for lists of any      *)
(* length.                                                                 *)
(***************************************************************************)
EXTENDS AclList, NaturalsInduction, WellFoundedInduction, TLAPS

(* Induction on a natural number, and on the length of a sequence.         *)
LEMMA Induction ==
  ASSUME NEW G, 0 \in G, \A n \in Nat : n \in G => n + 1 \in G
  PROVE  Nat \subseteq G
<1> DEFINE T == Nat \ G
<1> SUFFICES ASSUME T # {} PROVE FALSE
  OBVIOUS
<1>1. PICK n \in T : \A m \in T : <<m, n>> \notin {ss \in Nat \X Nat : ss[1] < ss[2]}
  <2>1. T \in SUBSET Nat
    OBVIOUS
  <2> HIDE DEF T
  <2> QED
    BY <2>1, NatLessThanWellFounded, WFMin, Zenon DEF OpToRel
<1>2. n # 0 /\ n - 1 \in Nat /\ n = (n - 1) + 1
  OBVIOUS
<1>3. n - 1 \in G
  <2>1. \A m \in T : ~(m < n)
    BY <1>1, Zenon
  <2> QED
    BY <1>2, <2>1
<1> QED
  BY <1>2, <1>3

(* The same over sequences, by appending. *)
LEMMA SequenceInduction ==
  ASSUME NEW S, NEW G, <<>> \in G, \A s \in Seq(S), a \in S : s \in G => Append(s, a) \in G
  PROVE  Seq(S) \subseteq G
<1> DEFINE N == {n \in Nat : \A s \in Seq(S) : Len(s) = n => s \in G}
<1>1. 0 \in N
  <2>1. ASSUME NEW s \in Seq(S), Len(s) = 0 PROVE s = <<>>
    BY <2>1
  <2> QED
    BY <2>1
<1>2. ASSUME NEW n \in Nat, n \in N PROVE n + 1 \in N
  <2> SUFFICES ASSUME NEW s \in Seq(S), Len(s) = n + 1 PROVE s \in G
    OBVIOUS
  <2> DEFINE t == SubSeq(s, 1, n)
             a == s[n + 1]
  <2>1. t \in Seq(S) /\ Len(t) = n /\ a \in S
    OBVIOUS
  <2>2. Append(t, a) = s
    OBVIOUS
  <2>3. t \in G
    BY <1>2, <2>1, Zenon
  <2> HIDE DEF t, a
  <2>4. Append(t, a) \in G
    BY <2>1, <2>3
  <2> QED
    BY <2>2, <2>4
<1>3. Nat \subseteq N
  <2> HIDE DEF N
  <2> QED
    BY <1>1, <1>2, Induction
<1> QED
  BY <1>3

-----------------------------------------------------------------------------
(* The loop, step by step: Keeps(s, m, f, N) says that f[n] is what is kept  *)
(* of the first n entries.                                                 *)
Keeps(s, m, f, N) ==
  /\ f = [n \in 0 .. N |-> f[n]]
  /\ f[0] = <<>>
  /\ \A n \in 1 .. N : f[n] = IF s[n] \in m THEN f[n - 1] ELSE Append(f[n - 1], s[n])

(* The loop has partial results for every bound. *)
LEMMA KeepsExists ==
  ASSUME NEW s, NEW m, NEW N \in Nat PROVE \E f : Keeps(s, m, f, N)
<1> DEFINE G == {n \in Nat : \E f : Keeps(s, m, f, n)}
<1>1. 0 \in G
  <2> DEFINE f == [n \in 0 .. 0 |-> <<>>]
  <2>1. Keeps(s, m, f, 0)
    BY DEF Keeps
  <2> QED
    BY <2>1
<1>2. ASSUME NEW n \in Nat, n \in G PROVE n + 1 \in G
  <2> PICK f : Keeps(s, m, f, n)
    BY <1>2
  <2> DEFINE next == IF s[n + 1] \in m THEN f[n] ELSE Append(f[n], s[n + 1])
             g == [k \in 0 .. n + 1 |-> IF k = n + 1 THEN next ELSE f[k]]
  <2>1. g[0] = <<>> /\ g[n + 1] = next /\ \A k \in 0 .. n : g[k] = f[k]
    BY DEF Keeps
  <2>2. g = [k \in 0 .. n + 1 |-> g[k]]
    OBVIOUS
  <2> HIDE DEF g
  <2>3. ASSUME NEW k \in 1 .. n + 1
        PROVE  g[k] = IF s[k] \in m THEN g[k - 1] ELSE Append(g[k - 1], s[k])
    <3>1. CASE k = n + 1
      BY <2>1, <3>1
    <3>2. CASE k \in 1 .. n
      <4>1. g[k] = f[k] /\ g[k - 1] = f[k - 1]
        BY <2>1, <3>2
      <4> QED
        BY <3>2, <4>1 DEF Keeps
    <3> QED
      BY <3>1, <3>2
  <2>4. Keeps(s, m, g, n + 1)
    BY <2>1, <2>2, <2>3, Zenon DEF Keeps
  <2> QED
    BY <2>4
<1>3. Nat \subseteq G
  <2> HIDE DEF G
  <2> QED
    BY <1>1, <1>2, Induction
<1> QED
  BY <1>3

(* Kept is the result of the loop after the last element. *)
LEMMA KeptLoop ==
  ASSUME NEW s, NEW m, Len(s) \in Nat
  PROVE  \E f : Keeps(s, m, f, Len(s)) /\ Kept(s, m) = f[Len(s)]
<1> DEFINE Body(f) == [n \in 0 .. Len(s) |->
                         IF n = 0 THEN <<>> ELSE IF s[n] \in m THEN f[n - 1] ELSE Append(f[n - 1], s[n])]
           kept == CHOOSE f : f = Body(f)
<1>1. PICK f : Keeps(s, m, f, Len(s))
  BY KeepsExists
<1>2. f = Body(f)
  <2>1. f = [n \in 0 .. Len(s) |-> f[n]]
    BY <1>1 DEF Keeps
  <2>2. ASSUME NEW n \in 0 .. Len(s)
        PROVE  f[n] = IF n = 0 THEN <<>> ELSE IF s[n] \in m THEN f[n - 1] ELSE Append(f[n - 1], s[n])
    <3>1. n = 0 \/ n \in 1 .. Len(s)
      OBVIOUS
    <3> QED
      BY <1>1, <3>1, Zenon DEF Keeps
  <2>3. [n \in 0 .. Len(s) |-> f[n]] = Body(f)
    BY <2>2
  <2> QED
    BY <2>1, <2>3, Zenon
<1> HIDE DEF Body
<1>3. kept = Body(kept)
  BY <1>2, Zenon
<1>4. Keeps(s, m, kept, Len(s))
  <2> HIDE DEF kept
  <2>1. kept = [n \in 0 .. Len(s) |-> kept[n]]
    BY <1>3 DEF Body
  <2>2. ASSUME NEW n \in 0 .. Len(s)
        PROVE  kept[n] = IF n = 0 THEN <<>> ELSE IF s[n] \in m THEN kept[n - 1] ELSE Append(kept[n - 1], s[n])
    <3>1. Body(kept)[n] = IF n = 0 THEN <<>> ELSE IF s[n] \in m THEN kept[n - 1] ELSE Append(kept[n - 1], s[n])
      BY DEF Body
    <3> QED
      BY <1>3, <3>1, Zenon
  <2>3. kept[0] = <<>>
    BY <2>2
  <2>4. ASSUME NEW n \in 1 .. Len(s)
        PROVE  kept[n] = IF s[n] \in m THEN kept[n - 1] ELSE Append(kept[n - 1], s[n])
    <3>1. n \in 0 .. Len(s) /\ n # 0
      OBVIOUS
    <3> QED
      BY <2>2, <3>1
  <2> QED
    BY <2>1, <2>3, <2>4, Zenon DEF Keeps
<1>5. Kept(s, m) = kept[Len(s)]
  BY DEF Kept, Body
<1> QED
  BY <1>4, <1>5, Zenon

(* Loops over lists with a common prefix agree on it. *)
LEMMA KeepsSame ==
  ASSUME NEW s, NEW t, NEW m, NEW N \in Nat, NEW M \in Nat, N <= M, NEW f, NEW g,
         Keeps(s, m, f, N), Keeps(t, m, g, M), \A n \in 1 .. N : s[n] = t[n]
  PROVE  f[N] = g[N]
<1> DEFINE G == {n \in Nat : n <= N => f[n] = g[n]}
<1>1. 0 \in G
  BY DEF Keeps
<1>2. ASSUME NEW n \in Nat, n \in G PROVE n + 1 \in G
  <2> SUFFICES ASSUME n + 1 <= N PROVE f[n + 1] = g[n + 1]
    OBVIOUS
  <2>1. n + 1 \in 1 .. N /\ n + 1 \in 1 .. M /\ (n + 1) - 1 = n
    OBVIOUS
  <2>2. f[n + 1] = IF s[n + 1] \in m THEN f[n] ELSE Append(f[n], s[n + 1])
    BY <2>1 DEF Keeps
  <2>3. g[n + 1] = IF t[n + 1] \in m THEN g[n] ELSE Append(g[n], t[n + 1])
    BY <2>1, Zenon DEF Keeps
  <2>4. f[n] = g[n] /\ s[n + 1] = t[n + 1]
    BY <1>2, <2>1
  <2> QED
    BY <2>2, <2>3, <2>4, Zenon
<1>3. Nat \subseteq G
  <2> HIDE DEF G
  <2> QED
    BY <1>1, <1>2, Induction
<1> QED
  BY <1>3

(* What is kept of no entry, and of one entry more.                        *)
LEMMA KeptEmpty == ASSUME NEW m PROVE Kept(<<>>, m) = <<>>
<1>1. PICK f : Keeps(<<>>, m, f, Len(<<>>)) /\ Kept(<<>>, m) = f[Len(<<>>)]
  BY KeptLoop
<1> QED
  BY <1>1 DEF Keeps

(* What one more element does. *)
LEMMA KeptAppend ==
  ASSUME NEW S, NEW s \in Seq(S), NEW a, NEW m
  PROVE  Kept(Append(s, a), m) = IF a \in m THEN Kept(s, m) ELSE Append(Kept(s, m), a)
<1> DEFINE t == Append(s, a)
           N == Len(s)
<1>1. N \in Nat /\ Len(t) = N + 1 /\ N + 1 \in Nat /\ N <= N + 1 /\ t[N + 1] = a
  OBVIOUS
<1>2. \A n \in 1 .. N : s[n] = t[n]
  OBVIOUS
<1> HIDE DEF t
<1>3. PICK f : Keeps(s, m, f, N) /\ Kept(s, m) = f[N]
  BY <1>1, KeptLoop, Zenon
<1>4. PICK g : Keeps(t, m, g, N + 1) /\ Kept(t, m) = g[N + 1]
  <2>1. Len(t) \in Nat
    BY <1>1
  <2> QED
    BY <1>1, <2>1, KeptLoop
<1> HIDE DEF N
<1>5. f[N] = g[N]
  BY <1>1, <1>2, <1>3, <1>4, KeepsSame
<1>6. N + 1 \in 1 .. N + 1 /\ (N + 1) - 1 = N
  BY <1>1
<1>7. g[N + 1] = IF t[N + 1] \in m THEN g[N] ELSE Append(g[N], t[N + 1])
  BY <1>4, <1>6, Zenon DEF Keeps
<1>8. Kept(t, m) = IF a \in m THEN Kept(s, m) ELSE Append(Kept(s, m), a)
  BY <1>1, <1>3, <1>4, <1>5, <1>7, Zenon
<1> QED
  BY <1>8 DEF t

-----------------------------------------------------------------------------
(* The kept entries, and that they are those that are not managed.         *)
LEMMA AppendRange ==
  ASSUME NEW S, NEW s \in Seq(S), NEW a PROVE Range(Append(s, a)) = Range(s) \cup {a}
<1>1. DOMAIN Append(s, a) = 1 .. Len(s) + 1 /\ DOMAIN s = 1 .. Len(s) /\ Len(s) \in Nat
  OBVIOUS
<1>2. Append(s, a)[Len(s) + 1] = a /\ \A i \in DOMAIN s : Append(s, a)[i] = s[i]
  OBVIOUS
<1>3. \A i \in DOMAIN Append(s, a) : i = Len(s) + 1 \/ i \in DOMAIN s
  BY <1>1
<1>4. Len(s) + 1 \in DOMAIN Append(s, a) /\ \A i \in DOMAIN s : i \in DOMAIN Append(s, a)
  BY <1>1
<1> DEFINE t == Append(s, a)
<1> HIDE DEF t
<1>5. Range(t) = Range(s) \cup {a}
  BY <1>2, <1>3, <1>4 DEF Range, t
<1> QED
  BY <1>5 DEF t

(* splitNonManaged drops what is managed and nothing else. *)
LEMMA KeptRange ==
  ASSUME NEW S, NEW s \in Seq(S), NEW m
  PROVE  Kept(s, m) \in Seq(S) /\ Range(Kept(s, m)) = Range(s) \ m
<1> DEFINE G == {t \in Seq(S) : Kept(t, m) \in Seq(S) /\ Range(Kept(t, m)) = Range(t) \ m}
<1>1. <<>> \in G
  <2>1. Range(<<>>) = {}
    BY DEF Range
  <2>2. <<>> \in Seq(S)
    OBVIOUS
  <2> QED
    BY <2>1, <2>2, KeptEmpty, Zenon
<1>2. ASSUME NEW t \in Seq(S), NEW a \in S, t \in G PROVE Append(t, a) \in G
  <2> DEFINE k == Kept(t, m)
             u == Append(t, a)
  <2>1. k \in Seq(S) /\ Range(k) = Range(t) \ m
    BY <1>2
  <2>2. u \in Seq(S) /\ Range(u) = Range(t) \cup {a}
    BY AppendRange
  <2>3. Kept(u, m) = IF a \in m THEN k ELSE Append(k, a)
    BY KeptAppend
  <2> HIDE DEF u, k
  <2>4. Append(k, a) \in Seq(S) /\ Range(Append(k, a)) = Range(k) \cup {a}
    BY <2>1, AppendRange
  <2>5. Kept(u, m) \in Seq(S) /\ Range(Kept(u, m)) = Range(u) \ m
    <3>1. CASE a \in m
      BY <2>1, <2>2, <2>3, <3>1
    <3>2. CASE a \notin m
      <4>1. Kept(u, m) = Append(k, a)
        BY <2>3, <3>2
      <4>2. Range(Append(k, a)) = Range(u) \ m
        BY <2>1, <2>2, <2>4, <3>2
      <4> QED
        BY <2>4, <4>1, <4>2, Zenon
    <3> QED
      BY <3>1, <3>2
  <2>6. u \in G
    BY <2>2, <2>5
  <2> QED
    BY <2>6 DEF u
<1>3. Seq(S) \subseteq G
  <2> HIDE DEF G
  <2> QED
    BY <1>1, <1>2, SequenceInduction
<1> QED
  BY <1>3

(* Two lists one after the other, and a list filtered twice.               *)
LEMMA AppendConcat ==
  ASSUME NEW S, NEW s \in Seq(S), NEW t \in Seq(S), NEW a \in S
  PROVE  s \o Append(t, a) = Append(s \o t, a)
OBVIOUS

(* Filtering goes part by part. *)
LEMMA KeptConcat ==
  ASSUME NEW S, NEW s \in Seq(S), NEW t \in Seq(S), NEW m
  PROVE  Kept(s \o t, m) = Kept(s, m) \o Kept(t, m)
<1> DEFINE k == Kept(s, m)
           G == {u \in Seq(S) : Kept(s \o u, m) = k \o Kept(u, m)}
<1>0. k \in Seq(S)
  BY KeptRange
<1>1. <<>> \in G
  <2>1. s \o <<>> = s /\ k \o <<>> = k /\ <<>> \in Seq(S)
    BY <1>0
  <2>2. Kept(<<>>, m) = <<>>
    BY KeptEmpty
  <2> DEFINE u == s \o <<>>
  <2>3. Kept(u, m) = k
    <3> HIDE DEF u
    <3> QED
      BY <2>1 DEF u
  <2>4. k \o Kept(<<>>, m) = k
    BY <2>1, <2>2, Zenon
  <2> QED
    BY <2>1, <2>3, <2>4, Zenon
<1>2. ASSUME NEW u \in Seq(S), NEW a \in S, u \in G PROVE Append(u, a) \in G
  <2> DEFINE v == Append(u, a)
             su == s \o u
             ku == Kept(u, m)
  <2>1. su \in Seq(S) /\ v \in Seq(S) /\ s \o v = Append(su, a)
    BY AppendConcat
  <2>2. Kept(su, m) = k \o ku
    BY <1>2
  <2>3. ku \in Seq(S)
    BY KeptRange
  <2>4. Kept(v, m) = IF a \in m THEN ku ELSE Append(ku, a)
    BY KeptAppend
  <2> HIDE DEF su
  <2>5. Kept(Append(su, a), m) = IF a \in m THEN Kept(su, m) ELSE Append(Kept(su, m), a)
    BY <2>1, KeptAppend
  <2> HIDE DEF v, ku, k
  <2>6. k \o Append(ku, a) = Append(k \o ku, a)
    BY <1>0, <2>3, AppendConcat
  <2>7. Kept(s \o v, m) = k \o Kept(v, m)
    BY <2>1, <2>2, <2>4, <2>5, <2>6, Zenon
  <2>8. v \in G
    BY <2>1, <2>7, Zenon
  <2> QED
    BY <2>8 DEF v
<1>3. Seq(S) \subseteq G
  <2> HIDE DEF G
  <2> QED
    BY <1>1, <1>2, SequenceInduction
<1>4. t \in G
  BY <1>3, Zenon
<1> HIDE DEF k
<1>5. Kept(s \o t, m) = k \o Kept(t, m)
  BY <1>4, Zenon
<1> QED
  BY <1>5, Zenon DEF k

(* Filtering twice is filtering by the union. *)
LEMMA KeptTwice ==
  ASSUME NEW S, NEW s \in Seq(S), NEW m, NEW n
  PROVE  Kept(Kept(s, m), n) = Kept(s, m \cup n)
<1> DEFINE G == {t \in Seq(S) : Kept(Kept(t, m), n) = Kept(t, m \cup n)}
<1>1. <<>> \in G
  <2>1. <<>> \in Seq(S)
    OBVIOUS
  <2>2. Kept(<<>>, m) = <<>> /\ Kept(<<>>, n) = <<>> /\ Kept(<<>>, m \cup n) = <<>>
    BY KeptEmpty
  <2> QED
    BY <2>1, <2>2, Zenon
<1>2. ASSUME NEW t \in Seq(S), NEW a \in S, t \in G PROVE Append(t, a) \in G
  <2> DEFINE u == Append(t, a)
             k == Kept(t, m)
             both == m \cup n
  <2>1. u \in Seq(S) /\ k \in Seq(S)
    BY KeptRange
  <2>2. Kept(u, m) = IF a \in m THEN k ELSE Append(k, a)
    BY KeptAppend
  <2>3. Kept(u, both) = IF a \in both THEN Kept(t, both) ELSE Append(Kept(t, both), a)
    BY KeptAppend
  <2>4. Kept(k, n) = Kept(t, both)
    BY <1>2
  <2>5. a \in both <=> a \in m \/ a \in n
    OBVIOUS
  <2> HIDE DEF k, u, both
  <2>6. Kept(Append(k, a), n) = IF a \in n THEN Kept(k, n) ELSE Append(Kept(k, n), a)
    BY <2>1, KeptAppend
  <2>7. Kept(Kept(u, m), n) = Kept(u, both)
    <3>1. CASE a \in m
      BY <2>2, <2>3, <2>4, <2>5, <3>1, Zenon
    <3>2. CASE a \notin m /\ a \in n
      BY <2>2, <2>3, <2>4, <2>5, <2>6, <3>2, Zenon
    <3>3. CASE a \notin m /\ a \notin n
      BY <2>2, <2>3, <2>4, <2>5, <2>6, <3>3, Zenon
    <3> QED
      BY <3>1, <3>2, <3>3, Zenon
  <2>8. u \in G
    BY <2>1, <2>7, Zenon DEF both
  <2> QED
    BY <2>8 DEF u
<1>3. Seq(S) \subseteq G
  <2> HIDE DEF G
  <2> QED
    BY <1>1, <1>2, SequenceInduction
<1> QED
  BY <1>3, Zenon

(* A list without managed entries stays as it is; of one with no others    *)
(* nothing stays.                                                          *)
LEMMA KeptAll ==
  ASSUME NEW S, NEW s \in Seq(S), NEW m, Range(s) \cap m = {}
  PROVE  Kept(s, m) = s
<1> DEFINE G == {t \in Seq(S) : Range(t) \cap m = {} => Kept(t, m) = t}
<1>1. <<>> \in G
  <2>1. <<>> \in Seq(S)
    OBVIOUS
  <2> QED
    BY <2>1, KeptEmpty
<1>2. ASSUME NEW t \in Seq(S), NEW a \in S, t \in G PROVE Append(t, a) \in G
  <2> DEFINE u == Append(t, a)
  <2>1. u \in Seq(S) /\ Range(u) = Range(t) \cup {a}
    BY AppendRange
  <2>2. Kept(u, m) = IF a \in m THEN Kept(t, m) ELSE Append(Kept(t, m), a)
    BY KeptAppend
  <2>3. ASSUME Range(u) \cap m = {} PROVE Kept(u, m) = u
    <3>1. a \notin m /\ Range(t) \cap m = {}
      BY <2>1, <2>3
    <3>2. Kept(t, m) = t
      BY <1>2, <3>1
    <3> QED
      BY <2>2, <3>1, <3>2, Zenon
  <2> HIDE DEF u
  <2>4. u \in G
    BY <2>1, <2>3, Zenon
  <2> QED
    BY <2>4 DEF u
<1>3. Seq(S) \subseteq G
  <2> HIDE DEF G
  <2> QED
    BY <1>1, <1>2, SequenceInduction
<1> QED
  BY <1>3, Zenon

(* Nothing is left of a list that is managed throughout. *)
LEMMA KeptNone ==
  ASSUME NEW S, NEW s \in Seq(S), NEW m, Range(s) \subseteq m
  PROVE  Kept(s, m) = <<>>
<1> DEFINE k == Kept(s, m)
<1>1. k \in Seq(S) /\ Range(k) = {}
  BY KeptRange
<1> HIDE DEF k
<1>2. Len(k) = 0
  <2>1. ASSUME Len(k) # 0 PROVE FALSE
    <3>1. 1 \in DOMAIN k
      BY <1>1, <2>1
    <3>2. k[1] \in Range(k)
      BY <3>1, Zenon DEF Range
    <3> QED
      BY <1>1, <3>2, Zenon
  <2> QED
    BY <2>1
<1>3. k = <<>>
  BY <1>1, <1>2
<1> QED
  BY <1>3 DEF k

-----------------------------------------------------------------------------
(* Lists in which no index is twice.                                       *)
LEMMA ConcatRange ==
  ASSUME NEW S, NEW s \in Seq(S), NEW t \in Seq(S)
  PROVE  Range(s \o t) = Range(s) \cup Range(t)
<1> DEFINE w == s \o t
<1>1. /\ DOMAIN w = 1 .. (Len(s) + Len(t))
      /\ \A i \in 1 .. Len(s) : w[i] = s[i]
      /\ \A i \in 1 .. Len(t) : w[Len(s) + i] = t[i]
      /\ \A i \in DOMAIN w : i > Len(s) => i - Len(s) \in 1 .. Len(t) /\ w[i] = t[i - Len(s)]
      /\ DOMAIN s = 1 .. Len(s) /\ DOMAIN t = 1 .. Len(t)
      /\ Len(s) \in Nat /\ Len(t) \in Nat
  OBVIOUS
<1> HIDE DEF w
<1>2. ASSUME NEW i \in DOMAIN w PROVE w[i] \in Range(s) \cup Range(t)
  <2>1. i \in 1 .. Len(s) \/ i > Len(s)
    BY <1>1
  <2> QED
    BY <1>1, <2>1, Zenon DEF Range
<1>3. ASSUME NEW i \in DOMAIN s PROVE s[i] \in Range(w)
  <2>1. i \in DOMAIN w /\ w[i] = s[i]
    BY <1>1
  <2> QED
    BY <2>1 DEF Range
<1>4. ASSUME NEW i \in DOMAIN t PROVE t[i] \in Range(w)
  <2>1. Len(s) + i \in DOMAIN w /\ w[Len(s) + i] = t[i]
    BY <1>1
  <2> QED
    BY <2>1 DEF Range
<1>5. Range(w) = Range(s) \cup Range(t)
  BY <1>2, <1>3, <1>4, Zenon DEF Range
<1> QED
  BY <1>5 DEF w

(* Two lists apart, without duplicates, give one without. *)
LEMMA ConcatInjective ==
  ASSUME NEW S, NEW s \in Seq(S), NEW t \in Seq(S),
         IsInjective(s), IsInjective(t), Range(s) \cap Range(t) = {}
  PROVE  IsInjective(s \o t)
<1> DEFINE w == s \o t
<1>1. /\ DOMAIN w = 1 .. (Len(s) + Len(t))
      /\ \A i \in 1 .. Len(s) : w[i] = s[i]
      /\ \A i \in DOMAIN w : i > Len(s) => i - Len(s) \in 1 .. Len(t) /\ w[i] = t[i - Len(s)]
      /\ DOMAIN s = 1 .. Len(s) /\ DOMAIN t = 1 .. Len(t)
      /\ Len(s) \in Nat /\ Len(t) \in Nat
  OBVIOUS
<1> HIDE DEF w
<1>2. /\ \A i \in DOMAIN s : s[i] \in Range(s)
      /\ \A i \in DOMAIN t : t[i] \in Range(t)
  BY Zenon DEF Range
<1>3. ASSUME NEW i \in DOMAIN w, NEW j \in DOMAIN w, w[i] = w[j] PROVE i = j
  <2>1. CASE i <= Len(s) /\ j <= Len(s)
    BY <1>1, <1>3, <2>1 DEF IsInjective
  <2>2. CASE i > Len(s) /\ j > Len(s)
    BY <1>1, <1>3, <2>2 DEF IsInjective
  <2>3. CASE i <= Len(s) /\ j > Len(s)
    BY <1>1, <1>2, <1>3, <2>3
  <2>4. CASE i > Len(s) /\ j <= Len(s)
    BY <1>1, <1>2, <1>3, <2>4
  <2> QED
    BY <1>1, <2>1, <2>2, <2>3, <2>4
<1>4. IsInjective(w)
  BY <1>3, Zenon DEF IsInjective
<1> QED
  BY <1>4 DEF w

(* An append makes a duplicate only of what is there. *)
LEMMA AppendInjective ==
  ASSUME NEW S, NEW s \in Seq(S), NEW a \in S
  PROVE  IsInjective(Append(s, a)) <=> IsInjective(s) /\ a \notin Range(s)
<1> DEFINE w == Append(s, a)
           N == Len(s)
<1>1. /\ DOMAIN w = 1 .. (N + 1) /\ DOMAIN s = 1 .. N /\ N \in Nat
      /\ \A i \in 1 .. N : w[i] = s[i]
      /\ w[N + 1] = a
  OBVIOUS
<1> HIDE DEF w, N
<1>2. ASSUME IsInjective(w) PROVE IsInjective(s) /\ a \notin Range(s)
  BY <1>1, <1>2 DEF IsInjective, Range
<1>3. ASSUME IsInjective(s), a \notin Range(s) PROVE IsInjective(w)
  <2>1. \A i \in DOMAIN s : s[i] # a
    BY <1>3, Zenon DEF Range
  <2> QED
    BY <1>1, <1>3, <2>1 DEF IsInjective
<1>4. IsInjective(w) <=> IsInjective(s) /\ a \notin Range(s)
  BY <1>2, <1>3, Zenon
<1> QED
  BY <1>4 DEF w

(* Filtering makes no duplicate. *)
LEMMA KeptInjective ==
  ASSUME NEW S, NEW s \in Seq(S), NEW m, IsInjective(s)
  PROVE  IsInjective(Kept(s, m))
<1> DEFINE G == {t \in Seq(S) : IsInjective(t) => IsInjective(Kept(t, m))}
<1>1. <<>> \in G
  BY KeptEmpty DEF IsInjective
<1>2. ASSUME NEW t \in Seq(S), NEW a \in S, t \in G PROVE Append(t, a) \in G
  <2> DEFINE u == Append(t, a)
             k == Kept(t, m)
  <2>1. u \in Seq(S) /\ k \in Seq(S) /\ Range(k) = Range(t) \ m
    BY KeptRange
  <2>2. Kept(u, m) = IF a \in m THEN k ELSE Append(k, a)
    BY KeptAppend
  <2>3. IsInjective(u) <=> IsInjective(t) /\ a \notin Range(t)
    BY AppendInjective
  <2>4. IsInjective(t) => IsInjective(k)
    BY <1>2
  <2> HIDE DEF u, k
  <2>5. IsInjective(Append(k, a)) <=> IsInjective(k) /\ a \notin Range(k)
    BY <2>1, AppendInjective
  <2>6. IsInjective(u) => IsInjective(Kept(u, m))
    BY <2>1, <2>2, <2>3, <2>4, <2>5, Zenon
  <2>7. u \in G
    BY <2>1, <2>6, Zenon
  <2> QED
    BY <2>7 DEF u
<1>3. Seq(S) \subseteq G
  <2> HIDE DEF G
  <2> QED
    BY <1>1, <1>2, SequenceInduction
<1> QED
  BY <1>3, Zenon

-----------------------------------------------------------------------------
(* The two directions of a joined list are what was joined.                *)
LEMMA Halves ==
  ASSUME NEW S, NEW in \in Seq(S), NEW out \in Seq(S), NEW m
  PROVE  /\ Inputs(Joined(in, out), m) = Kept(in, m)
         /\ Outputs(Joined(in, out), m) = Kept(out, m)
<1> DEFINE w == in \o out
           N == Len(in)
           M == Len(w)
<1>1. SubSeq(w, 1, N) = in
  OBVIOUS
<1>2. SubSeq(w, N + 1, M) = out
  OBVIOUS
<1>3. Joined(in, out).acls = w /\ Joined(in, out).nInput = N
  BY DEF Joined
<1> HIDE DEF w, N
<1> QED
  BY <1>1, <1>2, <1>3, Zenon DEF Inputs, Outputs, M

(* detachManagedLocked takes its ACLs out of both directions, whether it   *)
(* writes the list or finds nothing to take out.                           *)
LEMMA DetachedIs ==
  ASSUME NEW S, NEW in \in Seq(S), NEW out \in Seq(S), NEW m
  PROVE  Detached(Joined(in, out), m) = Joined(Kept(in, m), Kept(out, m))
<1> DEFINE l == Joined(in, out)
<1>1. Range(l.acls) = Range(in) \cup Range(out)
  BY ConcatRange DEF Joined
<1>2. Inputs(l, m) = Kept(in, m) /\ Outputs(l, m) = Kept(out, m)
  BY Halves
<1>3. CASE Range(l.acls) \cap m = {}
  <2>1. Range(in) \cap m = {} /\ Range(out) \cap m = {}
    BY <1>1, <1>3
  <2>2. Kept(in, m) = in /\ Kept(out, m) = out
    BY <2>1, KeptAll
  <2> HIDE DEF l
  <2>3. Detached(l, m) = l
    BY <1>3, Zenon DEF Detached
  <2> QED
    BY <2>2, <2>3, Zenon DEF l
<1>4. CASE Range(l.acls) \cap m # {}
  <2> HIDE DEF l
  <2>1. Detached(l, m) = Joined(Kept(in, m), Kept(out, m))
    BY <1>2, <1>4, Zenon DEF Detached
  <2> QED
    BY <2>1, Zenon DEF l
<1> QED
  BY <1>3, <1>4, Zenon
=============================================================================
