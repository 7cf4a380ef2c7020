------------------------- MODULE InvariantEditLists -------------------------
(***************************************************************************)
(* Lemmas about the lists of conjectures of InvariantEdit: what the loop   *)
(* of ExecuteAction keeps and what CTIUI.Weaken leaves is the same list,   *)
(* and what is removed depends on nothing behind it.  They are proved by   *)
(* induction on the place in the list, which takes the form of a least     *)
(* number outside a set.                                                   *)
(***************************************************************************)
EXTENDS InvariantEdit, WellFoundedInduction, SequenceTheorems, TLAPS

(* Every set of natural numbers with an element has a least one.             *)
LEMMA LeastNat ==
  ASSUME NEW T, T \subseteq Nat, T # {}
  PROVE  \E m \in T : \A k \in T : m <= k
<1> DEFINE R == {p \in Nat \X Nat : p[1] < p[2]}
<1>1. IsWellFoundedOn(R, Nat)
  BY NatLessThanWellFounded DEF OpToRel
<1> HIDE DEF R
<1>2. PICK m \in T : \A k \in T : <<k, m>> \notin R
  BY <1>1, WFMin
<1>3. ASSUME NEW k \in T PROVE m <= k
  <2>1. <<k, m>> \in Nat \X Nat
    OBVIOUS
  <2>2. ~(k < m)
    BY <1>2, <2>1 DEF R
  <2> QED
    BY <2>2
<1> QED
  BY <1>3

(* Induction up to a number.                                                 *)
LEMMA UpTo ==
  ASSUME NEW n \in Nat, NEW T, 0 \in T, \A i \in 0..(n - 1) : i \in T => i + 1 \in T
  PROVE  0..n \subseteq T
<1> SUFFICES ASSUME ~(0..n \subseteq T) PROVE FALSE
  OBVIOUS
<1>1. PICK m \in (0..n) \ T : \A k \in (0..n) \ T : m <= k
  <2>1. (0..n) \ T \subseteq Nat /\ (0..n) \ T # {}
    OBVIOUS
  <2> QED
    BY <2>1, LeastNat
<1>2. m # 0 /\ m - 1 \in 0..(n - 1)
  BY <1>1
<1>3. m - 1 \in T
  BY <1>1, <1>2
<1> QED
  BY <1>1, <1>2, <1>3

-----------------------------------------------------------------------------
(* The loop of ExecuteAction, as an equation of the lists it goes through.   *)
KeptStep(s, I, f) ==
  [i \in 0..Len(s) |->
     IF i = 0 THEN << >> ELSE IF i \in I THEN f[i - 1] ELSE Append(f[i - 1], s[i])]

(* There are such lists,                                                     *)
LEMMA KeptExists ==
  ASSUME NEW S, NEW s \in Seq(S), NEW I
  PROVE  \E f : f = KeptStep(s, I, f)
<1> DEFINE Next1(f, i) == IF i \in I THEN f[i - 1] ELSE Append(f[i - 1], s[i])
           Good(n, f) == f[0] = << >> /\ \A i \in 1..n : f[i] = Next1(f, i)
           T == {n \in 0..Len(s) : \E f \in [0..n -> Seq(S)] : Good(n, f)}
<1>1. Len(s) \in Nat
  OBVIOUS
<1>2. 0 \in T
  <2> DEFINE z == [i \in 0..0 |-> << >>]
  <2>1. Good(0, z) /\ z \in [0..0 -> Seq(S)] /\ 0 \in 0..Len(s)
    BY <1>1
  <2> HIDE DEF Good, z
  <2> QED
    BY <1>1, <2>1
<1>3. ASSUME NEW n \in 0..(Len(s) - 1), n \in T PROVE n + 1 \in T
  <2>1. PICK f \in [0..n -> Seq(S)] : Good(n, f)
    BY <1>3
  <2> DEFINE v == IF n + 1 \in I THEN f[n] ELSE Append(f[n], s[n + 1])
             g == [i \in 0..(n + 1) |-> IF i = n + 1 THEN v ELSE f[i]]
  <2>2. v \in Seq(S)
    BY <1>1
  <2>3. g \in [0..(n + 1) -> Seq(S)]
    BY <1>1, <2>2
  <2>4. g[n + 1] = v /\ \A i \in 0..n : g[i] = f[i]
    BY <1>1
  <2>5. g[n + 1] = Next1(g, n + 1)
    BY <1>1, <2>4
  <2>6. ASSUME NEW i \in 1..(n + 1) PROVE g[i] = Next1(g, i)
    <3>1. CASE i = n + 1
      BY <2>5, <3>1
    <3>2. CASE i # n + 1
      <4>1. i \in 1..n /\ i - 1 \in 0..n /\ i \in 0..n
        BY <1>1, <3>2
      <4>2. g[i] = f[i] /\ g[i - 1] = f[i - 1]
        BY <2>4, <4>1
      <4> QED
        BY <2>1, <4>1, <4>2
    <3> QED
      BY <3>1, <3>2
  <2>7. g[0] = << >>
    BY <1>1, <2>1, <2>4
  <2>8. Good(n + 1, g)
    BY <2>6, <2>7
  <2> HIDE DEF Good, g
  <2> QED
    BY <1>1, <2>3, <2>8
<1>4. Len(s) \in T
  <2>1. Len(s) \in 0..Len(s)
    BY <1>1
  <2> HIDE DEF T
  <2> QED
    BY <1>1, <1>2, <1>3, <2>1, UpTo
<1>5. PICK f \in [0..Len(s) -> Seq(S)] : Good(Len(s), f)
  BY <1>4
<1>6. f = KeptStep(s, I, f)
  <2> DEFINE g == KeptStep(s, I, f)
  <2>1. ASSUME NEW i \in 0..Len(s) PROVE f[i] = g[i]
    <3>1. i = 0 \/ i \in 1..Len(s)
      BY <1>1
    <3> QED
      BY <1>1, <1>5, <3>1 DEF KeptStep
  <2>2. g = [i \in 0..Len(s) |-> g[i]]
    BY DEF KeptStep
  <2>3. f = [i \in 0..Len(s) |-> f[i]]
    OBVIOUS
  <2> HIDE DEF g
  <2>4. f = g
    BY <2>1, <2>2, <2>3
  <2> QED
    BY <2>4 DEF g
<1> QED
  BY <1>6

(* and what is kept is the last of them.                                     *)
LEMMA KeptLast ==
  ASSUME NEW S, NEW s \in Seq(S), NEW I
  PROVE  \E f : f = KeptStep(s, I, f) /\ Kept(s, I) = f[Len(s)]
<1> DEFINE f == CHOOSE g : g = KeptStep(s, I, g)
<1>1. f = KeptStep(s, I, f)
  BY KeptExists
<1>2. Kept(s, I) = f[Len(s)]
  BY DEF Kept, KeptStep
<1> QED
  BY <1>1, <1>2

(* What they are made of.                                                    *)
LEMMA KeptTyped ==
  ASSUME NEW S, NEW s \in Seq(S), NEW I, NEW f, f = KeptStep(s, I, f)
  PROVE  /\ f[0] = << >>
         /\ \A i \in 0..Len(s) : f[i] \in Seq(S)
         /\ \A i \in 0..(Len(s) - 1) :
              f[i + 1] = IF i + 1 \in I THEN f[i] ELSE Append(f[i], s[i + 1])
<1>1. Len(s) \in Nat
  OBVIOUS
<1>2. \A i \in 0..Len(s) :
        f[i] = IF i = 0 THEN << >> ELSE IF i \in I THEN f[i - 1] ELSE Append(f[i - 1], s[i])
  BY DEF KeptStep
<1>3. f[0] = << >>
  BY <1>1, <1>2
<1>4. ASSUME NEW i \in 0..(Len(s) - 1)
      PROVE  f[i + 1] = IF i + 1 \in I THEN f[i] ELSE Append(f[i], s[i + 1])
  <2>1. i + 1 \in 0..Len(s) /\ i + 1 # 0 /\ (i + 1) - 1 = i
    BY <1>1
  <2> QED
    BY <1>2, <2>1
<1>5. 0..Len(s) \subseteq {i \in 0..Len(s) : f[i] \in Seq(S)}
  <2> DEFINE T == {i \in 0..Len(s) : f[i] \in Seq(S)}
  <2>1. 0 \in T
    <3>1. << >> \in Seq(S) /\ 0 \in 0..Len(s)
      BY <1>1
    <3> QED
      BY <1>3, <3>1
  <2>2. ASSUME NEW i \in 0..(Len(s) - 1), i \in T PROVE i + 1 \in T
    <3>1. i + 1 \in 0..Len(s) /\ s[i + 1] \in S
      BY <1>1
    <3>2. f[i] \in Seq(S)
      BY <2>2
    <3>3. Append(f[i], s[i + 1]) \in Seq(S)
      BY <3>1, <3>2, AppendProperties
    <3>4. f[i + 1] \in Seq(S)
      BY <1>4, <3>2, <3>3
    <3> QED
      BY <3>1, <3>4
  <2> HIDE DEF T
  <2>3. 0..Len(s) \subseteq T
    BY <1>1, <2>1, <2>2, UpTo
  <2> QED
    BY <2>3 DEF T
<1> QED
  BY <1>3, <1>4, <1>5

(* Each of them begins like the one before.                                  *)
Begins(v, w) == Len(v) <= Len(w) /\ \A k \in 1..Len(v) : w[k] = v[k]

LEMMA KeptBegins ==
  ASSUME NEW S, NEW s \in Seq(S), NEW I, NEW f, f = KeptStep(s, I, f),
         NEW j \in 0..Len(s)
  PROVE  Begins(f[j], f[Len(s)])
<1> DEFINE T == {i \in 0..Len(s) : j <= i => Begins(f[j], f[i])}
<1>1. Len(s) \in Nat /\ \A i \in 0..Len(s) : f[i] \in Seq(S)
  BY KeptTyped
<1>2. 0 \in T
  BY <1>1 DEF Begins
<1>3. ASSUME NEW i \in 0..(Len(s) - 1), i \in T PROVE i + 1 \in T
  <2>1. i \in 0..Len(s) /\ i + 1 \in 0..Len(s)
    BY <1>1
  <2>2. Begins(f[i], f[i + 1])
    <3>1. f[i + 1] = IF i + 1 \in I THEN f[i] ELSE Append(f[i], s[i + 1])
      BY KeptTyped
    <3> QED
      BY <1>1, <2>1, <3>1 DEF Begins
  <2>3. CASE j = i + 1
    BY <1>1, <2>1, <2>3 DEF Begins
  <2>4. CASE j <= i
    <3>1. Begins(f[j], f[i])
      BY <1>3, <2>4
    <3>2. f[j] \in Seq(S) /\ f[i] \in Seq(S) /\ f[i + 1] \in Seq(S)
      BY <1>1, <2>1
    <3>3. Begins(f[j], f[i + 1])
      BY <2>2, <3>1, <3>2 DEF Begins
    <3> QED
      BY <2>1, <3>3
  <2>5. CASE i + 1 < j
    BY <1>1, <2>1, <2>5
  <2> QED
    BY <1>1, <2>3, <2>4, <2>5
<1>4. Len(s) \in T
  <2>1. Len(s) \in 0..Len(s)
    BY <1>1
  <2> HIDE DEF T
  <2> QED
    BY <1>1, <1>2, <1>3, <2>1, UpTo
<1> QED
  BY <1>1, <1>4

(* What is kept are conjectures of the list.                                 *)
LEMMA KeptSeq ==
  ASSUME NEW S, NEW s \in Seq(S), NEW I
  PROVE  Kept(s, I) \in Seq(S)
BY KeptLast, KeptTyped

(* A list without one of its places.                                         *)
LEMMA RemovedAt ==
  ASSUME NEW S, NEW v \in Seq(S), NEW j \in 1..Len(v)
  PROVE  /\ RemoveAt(v, j) \in Seq(S)
         /\ Len(RemoveAt(v, j)) = Len(v) - 1
         /\ \A k \in 1..(Len(v) - 1) :
              RemoveAt(v, j)[k] = IF k < j THEN v[k] ELSE v[k + 1]
<1> DEFINE a == SubSeq(v, 1, j - 1)
           b == SubSeq(v, j + 1, Len(v))
<1>1. Len(v) \in Nat /\ j \in Nat
  OBVIOUS
<1>2. /\ a \in Seq(S) /\ Len(a) = j - 1
      /\ \A k \in 1..(j - 1) : a[k] = v[k]
  BY <1>1
<1>3. /\ b \in Seq(S) /\ Len(b) = Len(v) - j
      /\ \A k \in 1..(Len(v) - j) : b[k] = v[j + k]
  BY <1>1
<1>4. RemoveAt(v, j) = a \o b
  BY DEF RemoveAt
<1> HIDE DEF a, b
<1>5. ASSUME NEW k \in 1..(Len(v) - 1)
      PROVE  (a \o b)[k] = IF k < j THEN v[k] ELSE v[k + 1]
  <2>1. CASE k < j
    BY <1>1, <1>2, <1>3, <2>1
  <2>2. CASE ~(k < j)
    <3>1. k - (j - 1) \in 1..(Len(v) - j) /\ j + (k - (j - 1)) = k + 1
      BY <1>1, <2>2
    <3>2. (a \o b)[k] = b[k - (j - 1)]
      BY <1>1, <1>2, <1>3, <2>2
    <3> QED
      BY <1>3, <2>2, <3>1, <3>2
  <2> QED
    BY <2>1, <2>2
<1>6. (a \o b) \in Seq(S) /\ Len(a \o b) = Len(v) - 1
  <2>1. (a \o b) \in Seq(S) /\ Len(a \o b) = Len(a) + Len(b)
    BY <1>2, <1>3, ConcatProperties
  <2> QED
    BY <1>1, <1>2, <1>3, <2>1
<1> QED
  BY <1>4, <1>5, <1>6

-----------------------------------------------------------------------------
(* CTIUI.Weaken goes through the same places from the other end.             *)
CutStep(s, I, g) ==
  [i \in 0..Len(s) |->
     IF i = Len(s) THEN s
     ELSE IF i + 1 \in I THEN RemoveAt(g[i + 1], i + 1) ELSE g[i + 1]]

(* The list v is s up to i, and t from behind l.                             *)
Spliced(v, s, i, t, l) ==
  /\ Len(v) = i + Len(t) - l
  /\ \A k \in 1..Len(v) : v[k] = IF k <= i THEN s[k] ELSE t[k - i + l]

LEMMA SpliceCut ==
  ASSUME NEW S, NEW s \in Seq(S), NEW t \in Seq(S), NEW v \in Seq(S), NEW w \in Seq(S),
         NEW i \in 0..(Len(s) - 1), NEW l \in 0..Len(t),
         Spliced(v, s, i, t, l), Spliced(w, s, i + 1, t, l)
  PROVE  v = RemoveAt(w, i + 1)
<1> DEFINE u == RemoveAt(w, i + 1)
<1>1. /\ Len(s) \in Nat /\ Len(t) \in Nat /\ i \in Nat /\ l \in Nat /\ l <= Len(t)
      /\ Len(v) = i + Len(t) - l /\ Len(w) = i + 1 + Len(t) - l
  BY DEF Spliced
<1>2. i + 1 \in 1..Len(w) /\ Len(w) - 1 = Len(v)
  BY <1>1
<1>3. /\ u \in Seq(S) /\ Len(u) = Len(v)
      /\ \A k \in 1..Len(v) : u[k] = IF k < i + 1 THEN w[k] ELSE w[k + 1]
  BY <1>2, RemovedAt
<1> HIDE DEF u
<1>4. ASSUME NEW k \in 1..Len(v) PROVE v[k] = u[k]
  <2>1. k \in 1..Len(w) /\ k + 1 \in 1..Len(w) /\ k \in Nat
    BY <1>1, <1>2
  <2>2. v[k] = IF k <= i THEN s[k] ELSE t[k - i + l]
    BY DEF Spliced
  <2>3. CASE k <= i
    <3>1. k < i + 1 /\ k <= i + 1
      BY <1>1, <2>1, <2>3
    <3>2. w[k] = s[k]
      BY <2>1, <3>1 DEF Spliced
    <3> QED
      BY <1>3, <2>2, <2>3, <3>1, <3>2
  <2>4. CASE ~(k <= i)
    <3>1. ~(k < i + 1) /\ ~(k + 1 <= i + 1) /\ (k + 1) - (i + 1) + l = k - i + l
      BY <1>1, <2>1, <2>4
    <3>2. w[k + 1] = t[(k + 1) - (i + 1) + l]
      BY <2>1, <3>1 DEF Spliced
    <3> QED
      BY <1>3, <2>2, <2>4, <3>1, <3>2
  <2> QED
    BY <2>3, <2>4
<1>5. v = u
  BY <1>3, <1>4, SeqEqual
<1> QED
  BY <1>5 DEF u

LEMMA SpliceKeep ==
  ASSUME NEW S, NEW s \in Seq(S), NEW t \in Seq(S), NEW v \in Seq(S), NEW w \in Seq(S),
         NEW i \in 0..(Len(s) - 1), NEW l \in 0..(Len(t) - 1), t[l + 1] = s[i + 1],
         Spliced(v, s, i, t, l), Spliced(w, s, i + 1, t, l + 1)
  PROVE  v = w
<1>1. /\ Len(s) \in Nat /\ Len(t) \in Nat /\ i \in Nat /\ l \in Nat
      /\ Len(v) = i + Len(t) - l /\ Len(w) = i + 1 + Len(t) - (l + 1)
  BY DEF Spliced
<1>2. Len(v) = Len(w)
  BY <1>1
<1>3. ASSUME NEW k \in 1..Len(v) PROVE v[k] = w[k]
  <2>1. k \in 1..Len(w) /\ k \in Nat
    BY <1>1, <1>2
  <2>2. /\ v[k] = IF k <= i THEN s[k] ELSE t[k - i + l]
        /\ w[k] = IF k <= i + 1 THEN s[k] ELSE t[k - (i + 1) + (l + 1)]
    BY <2>1 DEF Spliced
  <2>3. k - (i + 1) + (l + 1) = k - i + l
    BY <1>1, <2>1
  <2>4. CASE k <= i
    <3>1. k <= i + 1
      BY <1>1, <2>1, <2>4
    <3> QED
      BY <2>2, <2>4, <3>1
  <2>5. CASE k = i + 1
    <3>1. ~(k <= i) /\ k <= i + 1 /\ k - i + l = l + 1
      BY <1>1, <2>1, <2>5
    <3> QED
      BY <2>2, <2>5, <3>1
  <2>6. CASE k > i + 1
    <3>1. ~(k <= i) /\ ~(k <= i + 1)
      BY <1>1, <2>1, <2>6
    <3> QED
      BY <2>2, <2>3, <3>1
  <2> QED
    BY <1>1, <2>1, <2>4, <2>5, <2>6
<1> QED
  BY <1>2, <1>3, SeqEqual

(* When it has come to a place, the list is as it was up to there and as     *)
(* what is kept behind it.                                                   *)
Half(s, f, i) ==
  [k \in 1..(i + Len(f[Len(s)]) - Len(f[i])) |->
     IF k <= i THEN s[k] ELSE f[Len(s)][k - i + Len(f[i])]]

LEMMA HalfSpliced ==
  ASSUME NEW S, NEW s \in Seq(S), NEW I, NEW f, f = KeptStep(s, I, f),
         NEW i \in 0..Len(s)
  PROVE  /\ f[i] \in Seq(S) /\ f[Len(s)] \in Seq(S) /\ Len(f[i]) <= Len(f[Len(s)])
         /\ Half(s, f, i) \in Seq(S)
         /\ Spliced(Half(s, f, i), s, i, f[Len(s)], Len(f[i]))
<1> DEFINE K == f[Len(s)]
           l == Len(f[i])
           m == i + Len(K) - l
           h == Half(s, f, i)
<1>1. Len(s) \in Nat /\ i \in Nat /\ i <= Len(s)
  OBVIOUS
<1>2. K \in Seq(S) /\ f[i] \in Seq(S)
  BY <1>1, KeptTyped
<1>3. l <= Len(K)
  BY KeptBegins DEF Begins
<1>4. m \in Nat
  BY <1>1, <1>2, <1>3
<1>5. ASSUME NEW k \in 1..m
      PROVE  (IF k <= i THEN s[k] ELSE K[k - i + l]) \in S
  <2>1. CASE k <= i
    BY <1>1, <1>4, <2>1
  <2>2. CASE ~(k <= i)
    <3>1. k - i + l \in 1..Len(K)
      BY <1>1, <1>2, <1>3, <1>4, <2>2
    <3>2. K[k - i + l] \in S
      BY <1>2, <3>1
    <3> QED
      BY <2>2, <3>2
  <2> QED
    BY <2>1, <2>2
<1>6. h = [k \in 1..m |-> IF k <= i THEN s[k] ELSE K[k - i + l]]
  BY DEF Half
<1>7. m = i + Len(K) - l
  OBVIOUS
<1> HIDE DEF m, K, l, h
<1>8. h \in Seq(S) /\ Len(h) = m
  BY <1>4, <1>5, <1>6
<1>9. Spliced(h, s, i, K, l)
  BY <1>6, <1>7, <1>8 DEF Spliced
<1> QED
  BY <1>2, <1>3, <1>8, <1>9 DEF K, l, h

(* One turn of its loop.                                                     *)
LEMMA HalfStep ==
  ASSUME NEW S, NEW s \in Seq(S), NEW I, NEW f, f = KeptStep(s, I, f),
         NEW i \in 0..(Len(s) - 1)
  PROVE  Half(s, f, i) =
           IF i + 1 \in I THEN RemoveAt(Half(s, f, i + 1), i + 1) ELSE Half(s, f, i + 1)
<1> DEFINE K == f[Len(s)]
           v == Half(s, f, i)
           w == Half(s, f, i + 1)
           e == f[i]
           e1 == f[i + 1]
<1>1. Len(s) \in Nat /\ i \in 0..Len(s) /\ i + 1 \in 0..Len(s) /\ i + 1 \in 1..Len(s)
  OBVIOUS
<1>2. e1 = IF i + 1 \in I THEN e ELSE Append(e, s[i + 1])
  BY KeptTyped
<1>3. /\ e \in Seq(S) /\ K \in Seq(S) /\ Len(e) <= Len(K)
      /\ v \in Seq(S) /\ Spliced(v, s, i, K, Len(e))
  BY <1>1, HalfSpliced
<1>4. /\ e1 \in Seq(S) /\ Len(e1) <= Len(K)
      /\ w \in Seq(S) /\ Spliced(w, s, i + 1, K, Len(e1))
  BY <1>1, HalfSpliced
<1>5. Begins(e1, K)
  BY <1>1, KeptBegins
<1> HIDE DEF K, v, w, e, e1
<1>6. CASE i + 1 \in I
  <2>1. e1 = e /\ Len(e) \in 0..Len(K)
    BY <1>2, <1>3, <1>6
  <2>2. v = RemoveAt(w, i + 1)
    BY <1>3, <1>4, <2>1, SpliceCut
  <2> QED
    BY <1>6, <2>2 DEF v, w
<1>7. CASE i + 1 \notin I
  <2>1. e1 = Append(e, s[i + 1])
    BY <1>2, <1>7
  <2>2. Len(e1) = Len(e) + 1 /\ e1[Len(e) + 1] = s[i + 1]
    BY <1>1, <1>3, <2>1
  <2>3. Len(e) \in 0..(Len(K) - 1) /\ Len(e) + 1 \in 1..Len(e1)
    BY <1>3, <1>4, <2>2
  <2>4. K[Len(e) + 1] = s[i + 1]
    BY <1>5, <2>2, <2>3 DEF Begins
  <2>5. v = w
    BY <1>3, <1>4, <2>2, <2>3, <2>4, SpliceKeep
  <2> QED
    BY <1>7, <2>5 DEF v, w
<1> QED
  BY <1>6, <1>7

(* Both leave the same conjectures, in the same order.                       *)
LEMMA CutOutIsKept ==
  ASSUME NEW S, NEW s \in Seq(S), NEW I
  PROVE  CutOut(s, I) = Kept(s, I)
<1>1. PICK f : f = KeptStep(s, I, f) /\ Kept(s, I) = f[Len(s)]
  BY KeptLast
<1> DEFINE n == Len(s)
           W == [i \in 0..n |-> Half(s, f, i)]
           g == CHOOSE h : h = CutStep(s, I, h)
<1>2. n \in Nat
  OBVIOUS
<1>3. Half(s, f, n) = s
  <2> DEFINE h == Half(s, f, n)
             K == f[n]
  <2>1. h \in Seq(S) /\ K \in Seq(S) /\ Spliced(h, s, n, K, Len(K))
    <3>1. n \in 0..n
      BY <1>2
    <3> QED
      BY <1>1, <3>1, HalfSpliced
  <2> HIDE DEF h, K
  <2>2. Len(h) = n
    BY <1>2, <2>1 DEF Spliced
  <2>3. \A k \in 1..n : h[k] = s[k]
    BY <1>2, <2>1, <2>2 DEF Spliced
  <2>4. h = s
    BY <2>1, <2>2, <2>3, SeqEqual
  <2> QED
    BY <2>4 DEF h
<1>4. \A i \in 0..(n - 1) :
        Half(s, f, i) =
          IF i + 1 \in I THEN RemoveAt(Half(s, f, i + 1), i + 1) ELSE Half(s, f, i + 1)
  BY <1>1, HalfStep
<1>5. W = CutStep(s, I, W)
  <2>1. ASSUME NEW i \in 0..n
        PROVE  W[i] = IF i = n THEN s
                      ELSE IF i + 1 \in I THEN RemoveAt(W[i + 1], i + 1) ELSE W[i + 1]
    <3>1. CASE i = n
      BY <1>2, <1>3, <3>1
    <3>2. CASE i # n
      <4>1. i \in 0..(n - 1) /\ i + 1 \in 0..n
        BY <1>2, <3>2
      <4>2. W[i] = Half(s, f, i) /\ W[i + 1] = Half(s, f, i + 1)
        BY <4>1
      <4> HIDE DEF W
      <4> QED
        BY <1>4, <3>2, <4>1, <4>2
    <3> QED
      BY <3>1, <3>2
  <2>2. W = [i \in 0..n |-> W[i]]
    OBVIOUS
  <2> HIDE DEF W
  <2> QED
    BY <2>1, <2>2 DEF CutStep
<1>6. g = CutStep(s, I, g)
  <2> HIDE DEF W
  <2> QED
    BY <1>5
<1>7. CutOut(s, I) = g[0]
  BY DEF CutOut, CutStep
<1> HIDE DEF g, W
<1>8. \A i \in 0..n :
        g[i] = IF i = n THEN s
               ELSE IF i + 1 \in I THEN RemoveAt(g[i + 1], i + 1) ELSE g[i + 1]
  BY <1>6 DEF CutStep
<1>9. n \in {j \in 0..n : g[n - j] = Half(s, f, n - j)}
  <2> DEFINE T == {j \in 0..n : g[n - j] = Half(s, f, n - j)}
  <2>1. 0 \in T
    <3>1. n - 0 = n /\ 0 \in 0..n /\ n \in 0..n
      BY <1>2
    <3>2. g[n] = s
      BY <1>8, <3>1
    <3> QED
      BY <1>3, <3>1, <3>2
  <2>2. ASSUME NEW j \in 0..(n - 1), j \in T PROVE j + 1 \in T
    <3> DEFINE i == n - (j + 1)
    <3>1. i \in 0..(n - 1) /\ i \in 0..n /\ i # n /\ i + 1 = n - j /\ j + 1 \in 0..n
      BY <1>2
    <3>2. g[i + 1] = Half(s, f, i + 1)
      BY <2>2, <3>1
    <3> HIDE DEF i
    <3>3. g[i] = Half(s, f, i)
      BY <1>4, <1>8, <3>1, <3>2
    <3> QED
      BY <3>1, <3>3 DEF i
  <2>3. n \in 0..n
    BY <1>2
  <2> HIDE DEF T
  <2>4. n \in T
    BY <1>2, <2>1, <2>2, <2>3, UpTo
  <2> QED
    BY <2>4 DEF T
<1>10. g[0] = Half(s, f, 0)
  <2>1. n - n = 0
    BY <1>2
  <2> QED
    BY <1>9, <2>1
<1>11. Half(s, f, 0) = f[n]
  <2> DEFINE h == Half(s, f, 0)
             K == f[n]
  <2>1. 0 \in 0..n /\ f[0] = << >>
    BY <1>1, <1>2, KeptTyped
  <2>2. h \in Seq(S) /\ K \in Seq(S) /\ Spliced(h, s, 0, K, Len(f[0]))
    BY <1>1, <2>1, HalfSpliced
  <2>3. Len(f[0]) = 0
    BY <2>1
  <2> HIDE DEF h, K
  <2>4. Len(h) = Len(K) /\ \A k \in 1..Len(K) : h[k] = K[k]
    BY <2>2, <2>3 DEF Spliced
  <2>5. h = K
    BY <2>2, <2>4, SeqEqual
  <2> QED
    BY <2>5 DEF h, K
<1> QED
  BY <1>1, <1>7, <1>10, <1>11

-----------------------------------------------------------------------------
(* What is removed at places of the list t is the same from a list that      *)
(* begins like t.                                                            *)
LEMMA RemovedOfBeginning ==
  ASSUME NEW S, NEW s \in Seq(S), NEW t \in Seq(S), Begins(t, s),
         NEW I, I \subseteq DOMAIN t
  PROVE  Removed(s, I) = Removed(t, I)
<1> DEFINE n == Len(t)
           J == DOMAIN s \ I
           L == DOMAIN t \ I
<1>1. /\ Len(s) \in Nat /\ n \in Nat /\ n <= Len(s)
      /\ DOMAIN s = 1..Len(s) /\ DOMAIN t = 1..n
  BY DEF Begins
<1>2. PICK f : f = KeptStep(s, J, f) /\ Kept(s, J) = f[Len(s)]
  BY KeptLast
<1>3. PICK g : g = KeptStep(t, L, g) /\ Kept(t, L) = g[n]
  BY KeptLast
<1>4. /\ f[0] = << >> /\ g[0] = << >>
      /\ \A i \in 0..(Len(s) - 1) :
           f[i + 1] = IF i + 1 \in J THEN f[i] ELSE Append(f[i], s[i + 1])
      /\ \A i \in 0..(n - 1) :
           g[i + 1] = IF i + 1 \in L THEN g[i] ELSE Append(g[i], t[i + 1])
  BY <1>2, <1>3, KeptTyped
<1>5. n \in {i \in 0..n : f[i] = g[i]}
  <2> DEFINE T == {i \in 0..n : f[i] = g[i]}
  <2>1. 0 \in T /\ n \in 0..n
    BY <1>1, <1>4
  <2>2. ASSUME NEW i \in 0..(n - 1), i \in T PROVE i + 1 \in T
    <3>1. i \in 0..(Len(s) - 1) /\ i + 1 \in 1..n /\ i + 1 \in 0..n /\ i + 1 \in 1..Len(s)
      BY <1>1
    <3>2. s[i + 1] = t[i + 1]
      BY <3>1 DEF Begins
    <3>3. i + 1 \in J <=> i + 1 \in L
      BY <1>1, <3>1
    <3>4. f[i] = g[i]
      BY <2>2
    <3> HIDE DEF J, L
    <3>5. f[i + 1] = g[i + 1]
      BY <1>4, <3>1, <3>2, <3>3, <3>4
    <3> QED
      BY <3>1, <3>5
  <2> HIDE DEF T
  <2>3. n \in T
    BY <1>1, <2>1, <2>2, UpTo
  <2> QED
    BY <2>3 DEF T
<1>6. Len(s) \in {i \in 0..Len(s) : n <= i => f[i] = f[n]}
  <2> DEFINE T == {i \in 0..Len(s) : n <= i => f[i] = f[n]}
  <2>1. 0 \in T /\ Len(s) \in 0..Len(s)
    BY <1>1
  <2>2. ASSUME NEW i \in 0..(Len(s) - 1), i \in T PROVE i + 1 \in T
    <3>1. i + 1 \in 0..Len(s) /\ i + 1 \in 1..Len(s)
      BY <1>1
    <3>2. CASE i + 1 <= n
      BY <1>1, <3>1, <3>2
    <3>3. CASE n <= i
      <4>1. i + 1 \in J
        BY <1>1, <3>1, <3>3
      <4>2. f[i] = f[n]
        BY <2>2, <3>3
      <4> HIDE DEF J
      <4>3. f[i + 1] = f[n]
        BY <1>4, <4>1, <4>2
      <4> QED
        BY <3>1, <4>3
    <3> QED
      BY <1>1, <3>2, <3>3
  <2> HIDE DEF T
  <2>3. Len(s) \in T
    BY <1>1, <2>1, <2>2, UpTo
  <2> QED
    BY <2>3 DEF T
<1>7. f[Len(s)] = g[n]
  BY <1>1, <1>5, <1>6
<1> QED
  BY <1>2, <1>3, <1>7 DEF Removed
=============================================================================
