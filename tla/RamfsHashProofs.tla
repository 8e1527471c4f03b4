--------------------------- MODULE RamfsHashProofs ---------------------------
(***************************************************************************)
(* The hash tables implement NameMap, for every number of buckets, hash    *)
(* function and set of names, as long as the comparison tells apart the    *)
(* names that share a bucket (Exact).  _streq always does; _file_streq     *)
(* does not.                                                               *)
(***************************************************************************)
EXTENDS RamfsHash, RamfsKeys, SequenceTheorems, FiniteSetTheorems,
        WellFoundedInduction, TLAPS

(* Unlinking one element of a list keeps the others, in their order. *)
LEMMA RemoveAtFacts ==
    ASSUME NEW S, NEW s \in Seq(S), NEW i \in 1..Len(s)
    PROVE  /\ RemoveAt(s, i) \in Seq(S)
           /\ Len(RemoveAt(s, i)) = Len(s) - 1
           /\ \A j \in 1..(Len(s) - 1) :
                RemoveAt(s, i)[j] = IF j < i THEN s[j] ELSE s[j + 1]
<1> DEFINE a == SubSeq(s, 1, i - 1)
           z == SubSeq(s, i + 1, Len(s))
<1>1. a \in Seq(S) /\ Len(a) = i - 1 /\ \A j \in 1..(i - 1) : a[j] = s[j]
  BY SMT
<1>2. z \in Seq(S) /\ Len(z) = Len(s) - i /\ \A j \in 1..(Len(s) - i) : z[j] = s[i + j]
  BY SMT
<1>3. RemoveAt(s, i) = a \o z
  BY DEF RemoveAt
<1> HIDE DEF a, z
<1>4. a \o z \in Seq(S)
  BY <1>1, <1>2
<1>6. Len(a \o z) = Len(s) - 1
  <2>0. a \in Seq(S) /\ z \in Seq(S)
    BY <1>1, <1>2
  <2>1. Len(a \o z) = Len(a) + Len(z)
    BY <2>0, ConcatProperties, Zenon
  <2>2. Len(s) \in Nat /\ i \in Nat
    BY LenProperties
  <2> QED BY <1>1, <1>2, <2>1, <2>2
<1>5. \A j \in 1..(Len(s) - 1) : (a \o z)[j] = IF j < i THEN s[j] ELSE s[j + 1]
  BY <1>1, <1>2
<1> QED BY <1>3, <1>4, <1>5, <1>6

(* Pushing an element at the head of a list. *)
LEMMA ConsFacts ==
    ASSUME NEW S, NEW s \in Seq(S), NEW e \in S
    PROVE  /\ <<e>> \o s \in Seq(S)
           /\ Len(<<e>> \o s) = Len(s) + 1
           /\ (<<e>> \o s)[1] = e
           /\ \A j \in 1..Len(s) : (<<e>> \o s)[j + 1] = s[j]
           /\ \A j \in 2..(Len(s) + 1) : (<<e>> \o s)[j] = s[j - 1]
  OBVIOUS

(* Every set of numbers with an element has a least one. *)
LEMMA LeastNumber ==
    ASSUME NEW S \in SUBSET Nat, S # {}
    PROVE  \E m \in S : \A k \in S : m <= k
<1>. DEFINE T == {0..n : n \in S}
            R == StrictSubsetOrdering(Nat)
<1>1. T \subseteq FiniteSubsetsOf(Nat)
  <2>1. SUFFICES ASSUME NEW n \in S PROVE 0..n \in FiniteSubsetsOf(Nat)
    OBVIOUS
  <2>2. IsFiniteSet(0..n)
    BY FS_Interval
  <2>. QED BY <2>2 DEF FiniteSubsetsOf
<1>2. T # {}
  OBVIOUS
<1>3. IsWellFoundedOn(R, FiniteSubsetsOf(Nat))
  BY FS_StrictSubsetOrderingWellFounded
<1>4. PICK x \in T : \A y \in T : <<y, x>> \notin R
  <2>. HIDE DEF T, R
  <2>. QED BY <1>1, <1>2, <1>3, WFMin
<1>5. PICK m \in S : x = 0..m
  OBVIOUS
<1>6. ASSUME NEW k \in S, k < m PROVE FALSE
  <2>1. 0..k \in T
    OBVIOUS
  <2>2. 0..k \subseteq 0..m /\ 0..k # 0..m
    BY <1>6
  <2>3. <<0..k, 0..m>> \in (SUBSET Nat) \X (SUBSET Nat)
    OBVIOUS
  <2>4. <<0..k, 0..m>> \in R
    BY <2>2, <2>3 DEF StrictSubsetOrdering
  <2>. QED BY <2>1, <2>4, <1>4, <1>5
<1>. QED BY <1>6

(* A set with 0, and with n + 1 for every n in it, has all the numbers. *)
LEMMA SetInduction ==
    ASSUME NEW S, 0 \in S, \A n \in Nat : n \in S => n + 1 \in S
    PROVE  Nat \subseteq S
<1>1. SUFFICES ASSUME Nat \ S # {} PROVE FALSE
  OBVIOUS
<1>2. PICK m \in Nat \ S : \A k \in Nat \ S : m <= k
  BY <1>1, LeastNumber
<1>3. m - 1 \in Nat /\ m - 1 \in S
  BY <1>2
<1>. QED BY <1>2, <1>3

(* The states of n steps of a function next, which also sees the number of *)
(* the step, from init.                                                    *)
IsRun(n, V, init, next, w) ==
    /\ w \in [0..n -> V]
    /\ w[0] = init
    /\ \A j \in 1..n : w[j] = next[<<w[j - 1], j>>]

(* A list of steps can be carried out. *)
LEMMA Iteration ==
    ASSUME NEW V, NEW n \in Nat, NEW init \in V, NEW next \in [V \X (1..n) -> V]
    PROVE  \E w : IsRun(n, V, init, next, w)
<1>. DEFINE Run(k, w) == /\ w \in [0..k -> V]
                         /\ w[0] = init
                         /\ \A j \in 1..k : w[j] = next[<<w[j - 1], j>>]
            S == {k \in Nat : k <= n => \E w : Run(k, w)}
<1>1. 0 \in S
  <2>1. Run(0, [x \in 0..0 |-> init])
    OBVIOUS
  <2>. QED BY <2>1
<1>2. ASSUME NEW k \in Nat, k \in S PROVE k + 1 \in S
  <2>1. SUFFICES ASSUME k + 1 <= n PROVE \E w : Run(k + 1, w)
    OBVIOUS
  <2>2. PICK u : Run(k, u)
    BY <1>2, <2>1
  <2>. DEFINE w == [x \in 0..(k + 1) |-> IF x <= k THEN u[x] ELSE next[<<u[k], k + 1>>]]
  <2>3. u[k] \in V /\ k + 1 \in 1..n
    BY <2>1, <2>2
  <2>4. next[<<u[k], k + 1>>] \in V
    BY <2>3
  <2>5. w \in [0..(k + 1) -> V]
    BY <2>2, <2>4
  <2>6. w[0] = init
    BY <2>2
  <2>7. ASSUME NEW j \in 1..(k + 1) PROVE w[j] = next[<<w[j - 1], j>>]
    <3>1. CASE j <= k
      <4>1. w[j] = u[j] /\ w[j - 1] = u[j - 1] /\ j \in 1..k
        BY <3>1
      <4>. QED BY <4>1, <2>2
    <3>2. CASE j = k + 1
      <4>1. w[j] = next[<<u[k], k + 1>>] /\ w[j - 1] = u[k]
        BY <3>2
      <4>. QED BY <4>1, <3>2
    <3>. QED BY <3>1, <3>2
  <2>. QED BY <2>5, <2>6, <2>7
<1>3. Nat \subseteq S
  <2>. HIDE DEF S
  <2>. QED BY <1>1, <1>2, SetInduction
<1>4. n \in S /\ n <= n
  <2>. HIDE DEF S
  <2>. QED BY <1>3
<1>5. PICK w : Run(n, w)
  BY <1>4
<1>. QED BY <1>5 DEF IsRun

(* One after the other: the first j of several lists, joined. *)
IsJoin(S, seqs, w) ==
    /\ w \in [0..Len(seqs) -> Seq(S)]
    /\ w[0] = <<>>
    /\ \A j \in 1..Len(seqs) : w[j] = w[j - 1] \o seqs[j]

FlattenEq(seqs, f) ==
    f = [i \in 1..Len(seqs) |-> IF i = 1 THEN seqs[i] ELSE f[i - 1] \o seqs[i]]

LEMMA FlattenDef ==
    ASSUME NEW seqs
    PROVE  FlattenSeq(seqs) = IF Len(seqs) = 0 THEN seqs
                              ELSE (CHOOSE f : FlattenEq(seqs, f))[Len(seqs)]
  BY Zenon DEF FlattenSeq, FlattenEq

(* What FlattenSeq computes. *)
LEMMA FlattenJoins ==
    ASSUME NEW S, NEW seqs \in Seq(Seq(S))
    PROVE  \E w : IsJoin(S, seqs, w) /\ FlattenSeq(seqs) = w[Len(seqs)]
<1>. DEFINE n == Len(seqs)
            V == Seq(S)
            next == [x \in V \X (1..n) |-> x[1] \o seqs[x[2]]]
<1>1. n \in Nat /\ <<>> \in V
  BY LenProperties
<1>2. \A j \in 1..n : seqs[j] \in V
  BY ElementOfSeq
<1>. HIDE DEF V, n
<1>3. ASSUME NEW a \in V, NEW b \in V PROVE a \o b \in V
  BY ConcatProperties DEF V
<1>4. next \in [V \X (1..n) -> V]
  <2>1. ASSUME NEW x \in V \X (1..n) PROVE x[1] \o seqs[x[2]] \in V
    BY <1>2, <1>3
  <2>. QED BY <2>1
<1>5. PICK w : IsRun(n, V, <<>>, next, w)
  <2>. HIDE DEF next
  <2>. QED BY <1>1, <1>4, Iteration
<1>6. /\ w \in [0..n -> V] /\ w[0] = <<>>
      /\ \A j \in 1..n : w[j] = w[j - 1] \o seqs[j]
  <2>1. w \in [0..n -> V] /\ w[0] = <<>> /\ \A j \in 1..n : w[j] = next[<<w[j - 1], j>>]
    <3>. HIDE DEF next
    <3>. QED BY <1>5 DEF IsRun
  <2>2. ASSUME NEW j \in 1..n PROVE w[j] = w[j - 1] \o seqs[j]
    <3>1. j - 1 \in 0..n
      BY <1>1
    <3>2. <<w[j - 1], j>> \in V \X (1..n)
      BY <2>1, <3>1
    <3>. QED BY <2>1, <3>2
  <2>. QED BY <2>1, <2>2
<1>7. IsJoin(S, seqs, w)
  BY <1>6 DEF IsJoin, V, n
<1>8. CASE n = 0
  <2>1. seqs = <<>>
    BY <1>8, EmptySeq DEF n
  <2>2. FlattenSeq(seqs) = seqs
    BY <1>8, FlattenDef, Zenon DEF n
  <2>. QED BY <1>6, <1>7, <1>8, <2>1, <2>2 DEF n
<1>9. CASE n # 0
  <2>. DEFINE h == CHOOSE f : FlattenEq(seqs, f)
              g == [i \in 1..n |-> w[i]]
  <2>1. w[1] = seqs[1]
    <3>1. 1 \in 1..n /\ 1 - 1 = 0
      BY <1>1, <1>9
    <3>2. w[1] = <<>> \o seqs[1] /\ seqs[1] \in V
      BY <1>2, <1>6, <3>1
    <3>. QED BY <3>2, ConcatEmptySeq DEF V
  <2>2. ASSUME NEW i \in 1..n
        PROVE  g[i] = IF i = 1 THEN seqs[i] ELSE g[i - 1] \o seqs[i]
    <3>1. CASE i = 1
      BY <2>1, <3>1
    <3>2. CASE i # 1
      <4>1. i - 1 \in 1..n
        BY <1>1, <3>2
      <4>2. g[i] = w[i] /\ g[i - 1] = w[i - 1]
        BY <4>1
      <4>. QED BY <1>6, <3>2, <4>2
    <3>. QED BY <3>1, <3>2
  <2>3. FlattenEq(seqs, g)
    <3>1. g = [i \in 1..n |-> IF i = 1 THEN seqs[i] ELSE g[i - 1] \o seqs[i]]
      <4>1. g = [i \in 1..n |-> g[i]]
        OBVIOUS
      <4>. HIDE DEF g
      <4>. QED BY <2>2, <4>1
    <3>. HIDE DEF g
    <3>. QED BY <3>1 DEF FlattenEq, n
  <2>. HIDE DEF g
  <2>4. FlattenEq(seqs, h)
    BY <2>3
  <2>. HIDE DEF h
  <2>5. \A i \in 1..n : h[i] = IF i = 1 THEN seqs[i] ELSE h[i - 1] \o seqs[i]
    <3>1. h = [i \in 1..n |-> IF i = 1 THEN seqs[i] ELSE h[i - 1] \o seqs[i]]
      BY <2>4, Zenon DEF FlattenEq, n
    <3>. QED BY <3>1
  <2>. DEFINE T == {k \in Nat : k + 1 <= n => h[k + 1] = w[k + 1]}
  <2>6. 0 \in T
    <3>1. 1 \in 1..n
      BY <1>1, <1>9
    <3>. QED BY <2>1, <2>5, <3>1
  <2>7. ASSUME NEW k \in Nat, k \in T PROVE k + 1 \in T
    <3>1. SUFFICES ASSUME (k + 1) + 1 <= n PROVE h[(k + 1) + 1] = w[(k + 1) + 1]
      OBVIOUS
    <3>2. (k + 1) + 1 \in 1..n /\ (k + 1) + 1 # 1 /\ ((k + 1) + 1) - 1 = k + 1 /\ k + 1 <= n
      BY <1>1, <3>1
    <3>3. h[k + 1] = w[k + 1]
      BY <2>7, <3>2
    <3>4. PICK m \in 1..n : m = (k + 1) + 1
      BY <3>2
    <3>5. m # 1 /\ m - 1 = k + 1
      BY <3>2, <3>4
    <3>6. h[m] = h[m - 1] \o seqs[m] /\ w[m] = w[m - 1] \o seqs[m]
      BY <1>6, <2>5, <3>5
    <3>7. h[m] = w[m]
      BY <3>3, <3>5, <3>6
    <3>. QED BY <3>4, <3>7
  <2>8. Nat \subseteq T
    <3>. HIDE DEF T
    <3>. QED BY <2>6, <2>7, SetInduction
  <2>9. n - 1 \in Nat /\ (n - 1) + 1 = n
    BY <1>1, <1>9
  <2>10. h[n] = w[n]
    <3>1. n - 1 \in T
      BY <2>8, <2>9
    <3>. QED BY <2>9, <3>1
  <2>11. FlattenSeq(seqs) = h[n]
    BY <1>9, FlattenDef, Zenon DEF n, h
  <2>. QED BY <1>7, <2>10, <2>11 DEF n
<1>. QED BY <1>8, <1>9

(* A list has x; it has nothing twice. *)
In(s, x) == \E i \in 1..Len(s) : s[i] = x
Once(s) == \A i, j \in 1..Len(s) : s[i] = s[j] => i = j

LEMMA JoinOnce ==
    ASSUME NEW S, NEW a \in Seq(S), NEW b \in Seq(S), Once(a), Once(b),
           \A x : ~(In(a, x) /\ In(b, x))
    PROVE  /\ Once(a \o b)
           /\ \A x : In(a \o b, x) <=> In(a, x) \/ In(b, x)
<1>. DEFINE c == a \o b
<1>1. PICK m \in Nat, n \in Nat : m = Len(a) /\ n = Len(b)
  BY LenProperties
<1>2. /\ c \in Seq(S) /\ Len(c) = m + n
      /\ \A i \in 1..(m + n) : c[i] = IF i <= m THEN a[i] ELSE b[i - m]
  BY <1>1, ConcatProperties
<1>. HIDE DEF c
<1>3. /\ \A i \in 1..m : c[i] = a[i] /\ i \in 1..Len(c)
      /\ \A i \in 1..n : c[m + i] = b[i] /\ m + i \in 1..Len(c)
      /\ \A i \in 1..Len(c) : i \in 1..m \/ (i - m \in 1..n /\ c[i] = b[i - m])
  <2>1. ASSUME NEW i \in 1..m PROVE c[i] = a[i] /\ i \in 1..(m + n)
    BY <1>2
  <2>2. ASSUME NEW i \in 1..n PROVE c[m + i] = b[i] /\ m + i \in 1..(m + n)
    <3>1. m + i \in 1..(m + n) /\ ~(m + i <= m) /\ (m + i) - m = i
      OBVIOUS
    <3>. QED BY <1>2, <3>1
  <2>3. ASSUME NEW i \in 1..(m + n), i \notin 1..m
        PROVE  i - m \in 1..n /\ c[i] = b[i - m]
    <3>1. ~(i <= m) /\ i - m \in 1..n
      BY <2>3
    <3>. QED BY <1>2, <3>1
  <2>. QED BY <1>2, <2>1, <2>2, <2>3
<1>4. ASSUME NEW x PROVE In(c, x) <=> In(a, x) \/ In(b, x)
  <2>1. ASSUME In(a, x) PROVE In(c, x)
    BY <1>1, <1>3, <2>1 DEF In
  <2>2. ASSUME In(b, x) PROVE In(c, x)
    BY <1>1, <1>3, <2>2 DEF In
  <2>3. ASSUME In(c, x) PROVE In(a, x) \/ In(b, x)
    BY <1>1, <1>3, <2>3 DEF In
  <2>. QED BY <2>1, <2>2, <2>3
<1>5. Once(c)
  <2>1. SUFFICES ASSUME NEW i \in 1..Len(c), NEW j \in 1..Len(c), c[i] = c[j]
                 PROVE  i = j
    BY DEF Once
  <2>2. CASE i \in 1..m /\ j \in 1..m
    BY <1>1, <1>3, <2>1, <2>2 DEF Once
  <2>3. CASE i \notin 1..m /\ j \notin 1..m
    <3>1. /\ i - m \in 1..Len(b) /\ c[i] = b[i - m]
          /\ j - m \in 1..Len(b) /\ c[j] = b[j - m]
      BY <1>1, <1>3, <2>3
    <3>2. i - m = j - m
      BY <2>1, <3>1 DEF Once
    <3>. QED BY <1>1, <1>2, <3>2
  <2>4. CASE i \in 1..m /\ j \notin 1..m
    <3>1. In(a, c[i]) /\ In(b, c[j])
      BY <1>1, <1>3, <2>4 DEF In
    <3>. QED BY <2>1, <3>1
  <2>5. CASE i \notin 1..m /\ j \in 1..m
    <3>1. In(b, c[i]) /\ In(a, c[j])
      BY <1>1, <1>3, <2>5 DEF In
    <3>. QED BY <2>1, <3>1
  <2>. QED BY <2>2, <2>3, <2>4, <2>5
<1>. QED BY <1>4, <1>5 DEF c

(* Lists that have nothing twice, and nothing in common, joined. *)
LEMMA FlattenOnce ==
    ASSUME NEW S, NEW seqs \in Seq(Seq(S)),
           \A j \in 1..Len(seqs) : Once(seqs[j]),
           \A i, j \in 1..Len(seqs) : \A x : In(seqs[i], x) /\ In(seqs[j], x) => i = j
    PROVE  /\ FlattenSeq(seqs) \in Seq(S)
           /\ Once(FlattenSeq(seqs))
           /\ \A x : In(FlattenSeq(seqs), x) <=> \E j \in 1..Len(seqs) : In(seqs[j], x)
<1>1. PICK w : IsJoin(S, seqs, w) /\ FlattenSeq(seqs) = w[Len(seqs)]
  BY FlattenJoins
<1>2. PICK n \in Nat : n = Len(seqs)
  BY LenProperties
<1>3. /\ w \in [0..n -> Seq(S)] /\ w[0] = <<>>
      /\ \A j \in 1..n : w[j] = w[j - 1] \o seqs[j]
  BY <1>1, <1>2 DEF IsJoin
<1>4. \A j \in 1..n : seqs[j] \in Seq(S)
  BY <1>2, ElementOfSeq
<1>. DEFINE Good(k) == /\ Once(w[k])
                       /\ \A x : In(w[k], x) <=> \E j \in 1..k : In(seqs[j], x)
            T == {k \in Nat : k <= n => Good(k)}
<1>5. 0 \in T
  <2>1. Len(w[0]) = 0
    BY <1>3
  <2>2. Once(w[0]) /\ \A x : ~In(w[0], x)
    BY <2>1 DEF Once, In
  <2>. QED BY <2>2
<1>6. ASSUME NEW k \in Nat, k \in T PROVE k + 1 \in T
  <2>1. SUFFICES ASSUME k + 1 <= n PROVE Good(k + 1)
    OBVIOUS
  <2>2. PICK m \in 1..n : m = k + 1
    BY <2>1
  <2>3. Good(k) /\ m - 1 = k /\ k \in 0..n
    BY <1>6, <2>1, <2>2
  <2>. DEFINE a == w[k]
              b == seqs[m]
  <2>4. w[m] = a \o b /\ a \in Seq(S) /\ b \in Seq(S) /\ Once(b)
    BY <1>2, <1>3, <1>4, <2>3
  <2>5. ASSUME NEW x, In(a, x), In(b, x) PROVE FALSE
    <3>1. PICK j \in 1..k : In(seqs[j], x)
      BY <2>3, <2>5
    <3>2. j \in 1..Len(seqs) /\ m \in 1..Len(seqs)
      BY <1>2, <2>2
    <3>3. j = m
      BY <2>5, <3>1, <3>2
    <3>. QED BY <2>2, <3>1, <3>3
  <2>. HIDE DEF a, b
  <2>6. Once(a)
    BY <2>3 DEF a
  <2>7. Once(w[m]) /\ \A x : In(w[m], x) <=> In(a, x) \/ In(b, x)
    BY <2>4, <2>5, <2>6, JoinOnce
  <2>8. ASSUME NEW x PROVE In(w[m], x) <=> \E j \in 1..m : In(seqs[j], x)
    <3>1. In(w[m], x) <=> (\E j \in 1..k : In(seqs[j], x)) \/ In(seqs[m], x)
      BY <2>3, <2>7 DEF a, b
    <3>2. 1..m = (1..k) \cup {m}
      BY <2>2
    <3>. QED BY <3>1, <3>2
  <2>. QED BY <2>2, <2>7, <2>8
<1>7. n \in T
  <2>. HIDE DEF T
  <2>. QED BY <1>5, <1>6, SetInduction
<1>8. Good(n) /\ w[n] \in Seq(S)
  BY <1>3, <1>7
<1>. QED BY <1>1, <1>2, <1>8

(* A list that has nothing twice is as long as the set of what it has. *)
LEMMA OnceCounts ==
    ASSUME NEW S, NEW s \in Seq(S), Once(s), NEW C, \A x : x \in C <=> In(s, x)
    PROVE  Cardinality(C) = Len(s)
<1>1. PICK n \in Nat : n = Len(s) /\ DOMAIN s = 1..n
  BY LenProperties
<1>2. s \in [1..n -> C]
  BY <1>1 DEF In
<1>3. s \in Bijection(1..n, C)
  BY <1>1, <1>2 DEF Bijection, Injection, Surjection, Once, In, IsInjective
<1>4. ExistsBijection(1..n, C)
  BY <1>3 DEF ExistsBijection
<1>. QED BY <1>1, <1>4, FS_CountingElements
-----------------------------------------------------------------------------
(* One chain: has it a key, what entry, and is it sound for bucket b? *)
Has(s, x) == \E i \in DOMAIN s : s[i].key = x
Val(s, x) == s[CHOOSE i \in DOMAIN s : s[i].key = x].value
Sound(s, b) ==
    \A i \in DOMAIN s :
        /\ Bucket(s[i].key) = b
        /\ s[i].name = s[i].key
        /\ \A j \in DOMAIN s : s[i].key = s[j].key => i = j

(* A key that is there once has the entry of its node. *)
LEMMA ValOf ==
    ASSUME NEW s, NEW b, Sound(s, b), NEW i \in DOMAIN s
    PROVE  Val(s, s[i].key) = s[i].value
<1> DEFINE c == CHOOSE j \in DOMAIN s : s[j].key = s[i].key
<1>1. c \in DOMAIN s /\ s[c].key = s[i].key
  OBVIOUS
<1>2. c = i
  BY <1>1 DEF Sound
<1> QED BY <1>2 DEF Val

(* Linking a node with a new key at the head of a chain. *)
LEMMA ChainCons ==
    ASSUME NEW s \in Seq(Node), NEW b, Sound(s, b),
           NEW n \in Node, Bucket(n.key) = b, n.name = n.key, ~Has(s, n.key),
           NEW t, t = <<n>> \o s
    PROVE  /\ t \in Seq(Node)
           /\ Sound(t, b)
           /\ \A x : Has(t, x) <=> Has(s, x) \/ x = n.key
           /\ \A x : Has(t, x) => Val(t, x) = IF x = n.key THEN n.value ELSE Val(s, x)
<1>1. /\ t \in Seq(Node) /\ Len(t) = Len(s) + 1 /\ t[1] = n
      /\ \A j \in 1..Len(s) : t[j + 1] = s[j]
      /\ \A j \in 2..(Len(s) + 1) : t[j] = s[j - 1]
  BY ConsFacts
<1>2. Len(s) \in Nat /\ DOMAIN s = 1..Len(s) /\ DOMAIN t = 1..(Len(s) + 1)
  BY <1>1
<1>3. \A j \in DOMAIN t : j = 1 \/ (j - 1 \in DOMAIN s /\ t[j] = s[j - 1])
  BY <1>1, <1>2
<1>4. Sound(t, b)
  <2> SUFFICES ASSUME NEW i \in DOMAIN t
               PROVE  /\ Bucket(t[i].key) = b /\ t[i].name = t[i].key
                      /\ \A j \in DOMAIN t : t[i].key = t[j].key => i = j
    BY DEF Sound
  <2>1. Bucket(t[i].key) = b /\ t[i].name = t[i].key
    BY <1>1, <1>3 DEF Sound
  <2>2. ASSUME NEW j \in DOMAIN t, t[i].key = t[j].key PROVE i = j
    <3>1. i \in Int /\ j \in Int
      BY <1>2
    <3>2. CASE i = 1
      BY <1>1, <1>3, <2>2, <3>2 DEF Has
    <3>3. CASE j = 1
      BY <1>1, <1>3, <2>2, <3>3 DEF Has
    <3>4. CASE i # 1 /\ j # 1
      <4>1. i - 1 = j - 1
        BY <1>3, <2>2, <3>4 DEF Sound
      <4> QED BY <3>1, <4>1
    <3> QED BY <3>2, <3>3, <3>4
  <2> QED BY <2>1, <2>2
<1>5. ASSUME NEW x PROVE Has(t, x) <=> Has(s, x) \/ x = n.key
  <2>1. ASSUME Has(t, x) PROVE Has(s, x) \/ x = n.key
    BY <1>1, <1>3, <2>1 DEF Has
  <2>2. ASSUME Has(s, x) PROVE Has(t, x)
    <3>1. PICK j \in 1..Len(s) : s[j].key = x
      BY <1>2, <2>2 DEF Has
    <3>2. j + 1 \in DOMAIN t
      BY <1>2
    <3> QED BY <1>1, <3>1, <3>2 DEF Has
  <2>3. ASSUME x = n.key PROVE Has(t, x)
    BY <1>1, <1>2, <2>3 DEF Has
  <2> QED BY <2>1, <2>2, <2>3
<1>6. ASSUME NEW x, Has(t, x)
      PROVE  Val(t, x) = IF x = n.key THEN n.value ELSE Val(s, x)
  <2>1. PICK i \in DOMAIN t : t[i].key = x
    BY <1>6 DEF Has
  <2>2. Val(t, x) = t[i].value
    BY <1>4, <2>1, ValOf
  <2>3. CASE i = 1
    BY <1>1, <2>1, <2>2, <2>3
  <2>4. CASE i # 1
    <3>1. i - 1 \in DOMAIN s /\ t[i] = s[i - 1]
      BY <1>3, <2>4
    <3>2. Val(s, x) = s[i - 1].value
      BY <2>1, <3>1, ValOf
    <3>3. x # n.key
      BY <2>1, <3>1 DEF Has
    <3> QED BY <2>2, <3>1, <3>2, <3>3
  <2> QED BY <2>3, <2>4
<1> QED BY <1>1, <1>4, <1>5, <1>6

(* Replacing the entry of a node. *)
Replaced(s, t, i, v) ==
    /\ t \in Seq(Node) /\ Len(t) = Len(s)
    /\ t[i].key = s[i].key /\ t[i].name = s[i].key /\ t[i].value = v
    /\ \A j \in DOMAIN s : j # i => t[j] = s[j]

LEMMA ChainUpdate ==
    ASSUME NEW s \in Seq(Node), NEW b, Sound(s, b), NEW i \in DOMAIN s,
           NEW v, NEW t, Replaced(s, t, i, v)
    PROVE  /\ Sound(t, b)
           /\ \A x : Has(t, x) <=> Has(s, x)
           /\ Val(t, s[i].key) = v
           /\ \A x : Has(t, x) /\ x # s[i].key => Val(t, x) = Val(s, x)
<1>1. DOMAIN t = DOMAIN s /\ \A j \in DOMAIN s : t[j].key = s[j].key
  BY DEF Replaced
<1>2. Sound(t, b)
  BY <1>1 DEF Sound, Replaced
<1>3. \A x : Has(t, x) <=> Has(s, x)
  BY <1>1 DEF Has
<1>4. ASSUME NEW x, Has(t, x) PROVE Val(t, x) = IF x = s[i].key THEN v ELSE Val(s, x)
  <2>1. PICK j \in DOMAIN s : s[j].key = x /\ t[j].key = x
    BY <1>1, <1>4 DEF Has
  <2>2. Val(t, x) = t[j].value /\ Val(s, x) = s[j].value
    BY <1>1, <1>2, <2>1, ValOf
  <2>3. j = i <=> x = s[i].key
    BY <2>1 DEF Sound
  <2> QED BY <2>2, <2>3 DEF Replaced
<1>5. Val(t, s[i].key) = v
  <2>1. Has(t, s[i].key)
    BY <1>1 DEF Has
  <2> QED BY <1>4, <2>1
<1> QED BY <1>2, <1>3, <1>4, <1>5

(* Unlinking a node. *)
LEMMA ChainRemove ==
    ASSUME NEW s \in Seq(Node), NEW b, Sound(s, b), NEW i \in DOMAIN s,
           NEW t, t = RemoveAt(s, i)
    PROVE  /\ t \in Seq(Node)
           /\ Sound(t, b)
           /\ \A x : Has(t, x) <=> Has(s, x) /\ x # s[i].key
           /\ \A x : Has(t, x) => Val(t, x) = Val(s, x)
<1>1. /\ t \in Seq(Node) /\ Len(t) = Len(s) - 1
      /\ \A j \in 1..(Len(s) - 1) : t[j] = IF j < i THEN s[j] ELSE s[j + 1]
  <2>1. i \in 1..Len(s)
    OBVIOUS
  <2>2. /\ RemoveAt(s, i) \in Seq(Node) /\ Len(RemoveAt(s, i)) = Len(s) - 1
        /\ \A j \in 1..(Len(s) - 1) :
              RemoveAt(s, i)[j] = IF j < i THEN s[j] ELSE s[j + 1]
    BY <2>1, RemoveAtFacts, Zenon
  <2> QED BY <2>2
<1> DEFINE old(j) == IF j < i THEN j ELSE j + 1
<1>2. /\ Len(s) \in Nat /\ DOMAIN s = 1..Len(s) /\ DOMAIN t = 1..(Len(s) - 1)
      /\ i \in 1..Len(s)
  BY <1>1
<1>3. \A j \in DOMAIN t : old(j) \in DOMAIN s /\ old(j) # i /\ t[j] = s[old(j)]
  BY <1>1, <1>2
<1>4. \A j, l \in DOMAIN t : old(j) = old(l) => j = l
  BY <1>2
<1>5. \A l \in DOMAIN s : l # i => \E j \in DOMAIN t : old(j) = l
  <2> SUFFICES ASSUME NEW l \in DOMAIN s, l # i PROVE \E j \in DOMAIN t : old(j) = l
    OBVIOUS
  <2>1. CASE l < i
    <3>1. l \in DOMAIN t /\ old(l) = l
      BY <1>2, <2>1
    <3> QED BY <3>1
  <2>2. CASE ~(l < i)
    <3>1. l - 1 \in DOMAIN t /\ old(l - 1) = l
      BY <1>2, <2>2
    <3> QED BY <3>1
  <2> QED BY <2>1, <2>2
<1> HIDE DEF old
<1>6. Sound(t, b)
  <2> SUFFICES ASSUME NEW j \in DOMAIN t
               PROVE  /\ Bucket(t[j].key) = b /\ t[j].name = t[j].key
                      /\ \A l \in DOMAIN t : t[j].key = t[l].key => j = l
    BY DEF Sound
  <2>1. Bucket(t[j].key) = b /\ t[j].name = t[j].key
    BY <1>3 DEF Sound
  <2>2. ASSUME NEW l \in DOMAIN t, t[j].key = t[l].key PROVE j = l
    <3>1. old(j) = old(l)
      BY <1>3, <2>2 DEF Sound
    <3> QED BY <1>4, <3>1
  <2> QED BY <2>1, <2>2
<1>7. ASSUME NEW x PROVE Has(t, x) <=> Has(s, x) /\ x # s[i].key
  <2>1. ASSUME Has(t, x) PROVE Has(s, x) /\ x # s[i].key
    <3>1. PICK j \in DOMAIN t : t[j].key = x
      BY <2>1 DEF Has
    <3>2. old(j) \in DOMAIN s /\ old(j) # i /\ s[old(j)].key = x
      BY <1>3, <3>1
    <3> QED BY <3>2 DEF Has, Sound
  <2>2. ASSUME Has(s, x), x # s[i].key PROVE Has(t, x)
    <3>1. PICK l \in DOMAIN s : s[l].key = x /\ l # i
      BY <2>2 DEF Has
    <3>2. PICK j \in DOMAIN t : old(j) = l
      BY <1>5, <3>1
    <3> QED BY <1>3, <3>1, <3>2 DEF Has
  <2> QED BY <2>1, <2>2
<1>8. ASSUME NEW x, Has(t, x) PROVE Val(t, x) = Val(s, x)
  <2>1. PICK j \in DOMAIN t : t[j].key = x
    BY <1>8 DEF Has
  <2>2. Val(t, x) = t[j].value
    BY <1>6, <2>1, ValOf
  <2>3. old(j) \in DOMAIN s /\ t[j] = s[old(j)]
    BY <1>3
  <2>4. Val(s, x) = s[old(j)].value
    BY <2>1, <2>3, ValOf
  <2> QED BY <2>2, <2>3, <2>4
<1> QED BY <1>1, <1>6, <1>7, <1>8
-----------------------------------------------------------------------------
IInv ==
    /\ TypeOK
    /\ ChainsSound
    /\ IsFiniteSet(Present)
    /\ Cardinality(Present) = count

(* Under Exact, a search in a sound table finds the node of the name. *)
LEMMA TableFacts ==
    ASSUME TypeOK, ChainsSound, NEW k \in Names
    PROVE  /\ Bucket(k) \in 0..(NBuckets - 1)
           /\ Chain(k) \in Seq(Node)
           /\ Sound(Chain(k), Bucket(k))
           /\ k \in Present <=> Has(Chain(k), k)
           /\ Entry(k) = Val(Chain(k), k)
<1>1. Bucket(k) \in 0..(NBuckets - 1)
  BY HashAssumption
<1>2. Chain(k) \in Seq(Node)
  BY <1>1 DEF TypeOK, Chain
<1>3. Sound(Chain(k), Bucket(k))
  BY <1>1 DEF ChainsSound, Sound, Chain
<1>4. k \in Present <=> Has(Chain(k), k)
  BY DEF Present, Has
<1>5. Entry(k) = Val(Chain(k), k)
  BY DEF Entry, Val
<1> QED BY <1>1, <1>2, <1>3, <1>4, <1>5

LEMMA SearchFacts ==
    ASSUME TypeOK, ChainsSound, Exact, NEW k \in Names
    PROVE  /\ \A i \in DOMAIN Chain(k) : Match(Chain(k)[i].key, k) <=> Chain(k)[i].key = k
           /\ Miss(k) <=> k \notin Present
<1>1. Chain(k) \in Seq(Node) /\ Sound(Chain(k), Bucket(k)) /\ (k \in Present <=> Has(Chain(k), k))
  BY TableFacts
<1>2. ASSUME NEW i \in DOMAIN Chain(k)
      PROVE  Match(Chain(k)[i].key, k) <=> Chain(k)[i].key = k
  <2>1. Chain(k)[i] \in Node
    BY <1>1, <1>2
  <2>2. Chain(k)[i].key \in Names /\ Bucket(Chain(k)[i].key) = Bucket(k)
    BY <1>1, <1>2, <2>1 DEF Node, Sound
  <2> QED BY <2>2, HashAssumption DEF Exact
<1>3. Miss(k) <=> k \notin Present
  BY <1>1, <1>2 DEF Miss, Has
<1> QED BY <1>2, <1>3

(* Replacing one chain by a sound one keeps the table sound. *)
LEMMA TableStep ==
    ASSUME TypeOK, ChainsSound, NEW k \in Names,
           NEW t \in Seq(Node), Sound(t, Bucket(k)),
           buckets' = [buckets EXCEPT ![Bucket(k)] = t]
    PROVE  /\ buckets' \in [0..(NBuckets - 1) -> Seq(Node)]
           /\ ChainsSound'
           /\ \A x \in Names : Chain(x)' = IF Bucket(x) = Bucket(k) THEN t ELSE Chain(x)
<1>1. Bucket(k) \in 0..(NBuckets - 1)
  BY HashAssumption
<1>2. buckets \in [0..(NBuckets - 1) -> Seq(Node)]
  BY DEF TypeOK
<1>3. buckets' \in [0..(NBuckets - 1) -> Seq(Node)]
  BY <1>1, <1>2
<1>4. \A b \in 0..(NBuckets - 1) : buckets'[b] = IF b = Bucket(k) THEN t ELSE buckets[b]
  BY <1>1, <1>2
<1>5. \A b \in 0..(NBuckets - 1) : Sound(buckets[b], b)
  BY DEF ChainsSound, Sound
<1>6. \A b \in 0..(NBuckets - 1) : Sound(buckets'[b], b)
  BY <1>4, <1>5
<1>7. ChainsSound'
  BY <1>6 DEF ChainsSound, Sound
<1>8. \A x \in Names : Chain(x)' = IF Bucket(x) = Bucket(k) THEN t ELSE Chain(x)
  BY <1>4, HashAssumption DEF Chain
<1> QED BY <1>3, <1>7, <1>8

(* What the next table holds, from its chains. *)
LEMMA NextPresent ==
    /\ Present' = {x \in Names : Has(Chain(x)', x)}
    /\ Map' = [x \in Present' |-> Val(Chain(x)', x)]
  BY DEF Present, Map, Entry, Has, Val

(* insert on a name that is there. *)
LEMMA UpdateStep ==
    ASSUME IInv, Exact, NEW k \in Names, NEW v \in Values, insert_update(k, v)
    PROVE  IInv' /\ Abstract!Insert(k, v)
<1>1. PICK i \in DOMAIN Chain(k) :
        /\ Hit(k, i)
        /\ buckets' = [buckets EXCEPT ![Bucket(k)][i].value = v,
                                      ![Bucket(k)][i].name = k]
  BY DEF insert_update
<1>2. TypeOK /\ ChainsSound /\ count' = count /\ ret' = "ok"
  BY DEF IInv, insert_update
<1>3. /\ Bucket(k) \in 0..(NBuckets - 1) /\ Chain(k) \in Seq(Node)
      /\ Sound(Chain(k), Bucket(k)) /\ (k \in Present <=> Has(Chain(k), k))
  BY <1>2, TableFacts
<1>4. Chain(k)[i].key = k
  BY <1>1, <1>2, SearchFacts DEF Hit
<1> DEFINE s == Chain(k)
           n == [s[i] EXCEPT !.value = v, !.name = k]
           t == [s EXCEPT ![i] = n]
<1>5. s[i] \in Node /\ n \in Node /\ n.key = k /\ n.name = k /\ n.value = v
  <2>1. s[i] \in Node
    BY <1>3
  <2> QED BY <1>4, <2>1 DEF Node
<1>6. buckets' = [buckets EXCEPT ![Bucket(k)] = t]
  BY <1>1, <1>2, <1>3, <1>5 DEF TypeOK, Chain
<1> HIDE DEF n
<1>7. t \in Seq(Node) /\ Len(t) = Len(s) /\ t[i] = n /\ \A j \in DOMAIN s : j # i => t[j] = s[j]
  BY <1>3, <1>5
<1> HIDE DEF t, s
<1>8. /\ Sound(t, Bucket(k)) /\ s \in Seq(Node) /\ Sound(s, Bucket(k)) /\ s[i].key = k
      /\ \A x : Has(t, x) <=> Has(s, x)
      /\ \A x : Has(t, x) => Val(t, x) = IF x = k THEN v ELSE Val(s, x)
  <2>1. s \in Seq(Node) /\ Sound(s, Bucket(k)) /\ s[i].key = k /\ i \in DOMAIN s
    BY <1>1, <1>3, <1>4 DEF s
  <2>2. t[i].key = s[i].key /\ t[i].name = s[i].key /\ t[i].value = v
    BY <1>5, <1>7, <2>1
  <2>3. t \in Seq(Node) /\ Len(t) = Len(s) /\ \A j \in DOMAIN s : j # i => t[j] = s[j]
    BY <1>7
  <2>4. Replaced(s, t, i, v)
    BY <2>2, <2>3 DEF Replaced
  <2>5. /\ Sound(t, Bucket(k))
        /\ \A x : Has(t, x) <=> Has(s, x)
        /\ \A x : Has(t, x) => Val(t, x) = IF x = s[i].key THEN v ELSE Val(s, x)
    <3>1. ASSUME NEW S \in Seq(Node), NEW T, NEW B, Sound(S, B), i \in DOMAIN S, Replaced(S, T, i, v)
          PROVE  /\ Sound(T, B)
                 /\ \A x : Has(T, x) <=> Has(S, x)
                 /\ \A x : Has(T, x) => Val(T, x) = IF x = S[i].key THEN v ELSE Val(S, x)
      <4>1. Sound(T, B) /\ \A x : Has(T, x) <=> Has(S, x)
        BY <3>1, ChainUpdate
      <4>2. Val(T, S[i].key) = v
        BY <3>1, ChainUpdate
      <4>3. \A x : Has(T, x) /\ x # S[i].key => Val(T, x) = Val(S, x)
        BY <3>1, ChainUpdate
      <4> QED BY <4>1, <4>2, <4>3
    <3> QED BY <2>1, <2>4, <3>1, Zenon
  <2> QED BY <2>1, <2>5
<1>9. /\ buckets' \in [0..(NBuckets - 1) -> Seq(Node)] /\ ChainsSound'
      /\ \A x \in Names : Chain(x)' = IF Bucket(x) = Bucket(k) THEN t ELSE Chain(x)
  BY <1>2, <1>6, <1>7, <1>8, TableStep
<1>10. \A x \in Names : Bucket(x) = Bucket(k) => Chain(x) = s
  BY DEF Chain, s
<1>11. /\ Present = {x \in Names : Has(Chain(x), x)}
       /\ Map = [x \in Present |-> Val(Chain(x), x)]
  BY DEF Present, Map, Entry, Has, Val
<1>12. k \in Present
  BY <1>1, <1>4, <1>11 DEF Has
<1>13. Present' = Present
  BY <1>8, <1>9, <1>10, <1>11, NextPresent
<1>14. Map' = Abstract!Put(k, v)
  <2>1. \A x \in Present : Val(Chain(x)', x) = IF x = k THEN v ELSE Val(Chain(x), x)
    BY <1>8, <1>9, <1>10, <1>11
  <2>2. DOMAIN Map = Present /\ Present \cup {k} = Present
    BY <1>11, <1>12
  <2> QED BY <1>11, <1>13, <2>1, <2>2, NextPresent DEF Abstract!Put
<1>15. IInv'
  BY <1>2, <1>9, <1>13 DEF IInv, TypeOK
<1> QED BY <1>2, <1>11, <1>12, <1>14, <1>15 DEF Abstract!Insert

(* insert on a name that is not there. *)
LEMMA NewStep ==
    ASSUME IInv, Exact, NEW k \in Names, NEW v \in Values, insert_new(k, v)
    PROVE  IInv' /\ Abstract!Insert(k, v)
<1> DEFINE s == Chain(k)
           n == [key |-> k, name |-> k, value |-> v]
           t == <<n>> \o s
<1>1. TypeOK /\ ChainsSound /\ count' = count + 1 /\ ret' = "ok" /\ Miss(k)
  BY DEF IInv, insert_new
<1>2. /\ Bucket(k) \in 0..(NBuckets - 1) /\ s \in Seq(Node)
      /\ Sound(s, Bucket(k)) /\ (k \in Present <=> Has(s, k))
  BY <1>1, TableFacts
<1>3. k \notin Present
  BY <1>1, SearchFacts
<1>4. buckets' = [buckets EXCEPT ![Bucket(k)] = t]
  BY <1>1, <1>2 DEF insert_new, TypeOK, Chain
<1>5. n \in Node /\ n.key = k /\ n.name = k /\ n.value = v
  BY DEF Node
<1> HIDE DEF n
<1>6. /\ t \in Seq(Node) /\ Sound(t, Bucket(k))
      /\ \A x : Has(t, x) <=> Has(s, x) \/ x = k
      /\ \A x : Has(t, x) => Val(t, x) = IF x = k THEN v ELSE Val(s, x)
  <2>1. Bucket(n.key) = Bucket(k) /\ n.name = n.key /\ ~Has(s, n.key)
    BY <1>2, <1>3, <1>5
  <2>2. /\ t \in Seq(Node) /\ Sound(t, Bucket(k))
        /\ \A x : Has(t, x) <=> Has(s, x) \/ x = n.key
        /\ \A x : Has(t, x) => Val(t, x) = IF x = n.key THEN n.value ELSE Val(s, x)
    BY <1>2, <1>5, <2>1, ChainCons, Zenon
  <2> QED BY <1>5, <2>2
<1> HIDE DEF t, s
<1>7. /\ buckets' \in [0..(NBuckets - 1) -> Seq(Node)] /\ ChainsSound'
      /\ \A x \in Names : Chain(x)' = IF Bucket(x) = Bucket(k) THEN t ELSE Chain(x)
  BY <1>1, <1>4, <1>6, TableStep
<1>8. \A x \in Names : Bucket(x) = Bucket(k) => Chain(x) = s
  BY DEF Chain, s
<1>9. /\ Present = {x \in Names : Has(Chain(x), x)}
      /\ Map = [x \in Present |-> Val(Chain(x), x)]
  BY DEF Present, Map, Entry, Has, Val
<1>10. Present' = Present \cup {k}
  BY <1>6, <1>7, <1>8, <1>9, NextPresent
<1>11. Map' = Abstract!Put(k, v)
  <2>1. \A x \in Present' : Val(Chain(x)', x) = IF x = k THEN v ELSE Val(Chain(x), x)
    BY <1>6, <1>7, <1>8, <1>9, NextPresent
  <2>2. DOMAIN Map = Present /\ \A x \in Present : Map[x] = Val(Chain(x), x)
    BY <1>9
  <2>3. \A x \in Present' : Val(Chain(x)', x) = IF x = k THEN v ELSE Map[x]
    BY <1>10, <2>1, <2>2
  <2> QED BY <1>10, <2>2, <2>3, NextPresent DEF Abstract!Put
<1>12. IsFiniteSet(Present') /\ Cardinality(Present') = count'
  BY <1>1, <1>3, <1>10, FS_AddElement DEF IInv
<1>13. IInv'
  BY <1>1, <1>7, <1>12 DEF IInv, TypeOK
<1> QED BY <1>1, <1>3, <1>9, <1>11, <1>13 DEF Abstract!Insert

(* delete on a name that is there. *)
LEMMA DeleteStep ==
    ASSUME IInv, Exact, NEW k \in Names, delete_found(k)
    PROVE  IInv' /\ Abstract!Delete(k)
<1>1. PICK i \in DOMAIN Chain(k) :
        Hit(k, i) /\ buckets' = [buckets EXCEPT ![Bucket(k)] = RemoveAt(@, i)]
  BY DEF delete_found
<1> DEFINE s == Chain(k)
           t == RemoveAt(s, i)
<1>2. TypeOK /\ ChainsSound /\ count' = count - 1 /\ ret' = "ok"
  BY DEF IInv, delete_found
<1>3. /\ Bucket(k) \in 0..(NBuckets - 1) /\ s \in Seq(Node)
      /\ Sound(s, Bucket(k)) /\ (k \in Present <=> Has(s, k))
  BY <1>2, TableFacts
<1>4. s[i].key = k /\ i \in DOMAIN s
  BY <1>1, <1>2, SearchFacts DEF Hit
<1>5. buckets' = [buckets EXCEPT ![Bucket(k)] = t]
  BY <1>1, <1>2, <1>3 DEF TypeOK, Chain
<1>6. k \in Present
  BY <1>3, <1>4 DEF Has
<1> HIDE DEF s
<1>7. /\ t \in Seq(Node) /\ Sound(t, Bucket(k))
      /\ \A x : Has(t, x) <=> Has(s, x) /\ x # s[i].key
      /\ \A x : Has(t, x) => Val(t, x) = Val(s, x)
  BY <1>3, <1>4, ChainRemove, Zenon
<1> HIDE DEF t
<1>8. /\ buckets' \in [0..(NBuckets - 1) -> Seq(Node)] /\ ChainsSound'
      /\ \A x \in Names : Chain(x)' = IF Bucket(x) = Bucket(k) THEN t ELSE Chain(x)
  BY <1>2, <1>5, <1>7, TableStep
<1>9. \A x \in Names : Bucket(x) = Bucket(k) => Chain(x) = s
  BY DEF Chain, s
<1>10. /\ Present = {x \in Names : Has(Chain(x), x)}
       /\ Map = [x \in Present |-> Val(Chain(x), x)]
  BY DEF Present, Map, Entry, Has, Val
<1>11. Present' = Present \ {k}
  BY <1>4, <1>7, <1>8, <1>9, <1>10, NextPresent
<1>12. Map' = Abstract!Without(k)
  <2>1. \A x \in Present' : Val(Chain(x)', x) = Val(Chain(x), x)
    BY <1>7, <1>8, <1>9, NextPresent
  <2>2. DOMAIN Map = Present /\ \A x \in Present : Map[x] = Val(Chain(x), x)
    BY <1>10
  <2> QED BY <1>11, <2>1, <2>2, NextPresent DEF Abstract!Without
<1>13. IsFiniteSet(Present') /\ Cardinality(Present') = count'
  BY <1>2, <1>6, <1>11, FS_RemoveElement DEF IInv
<1>14. count' \in Nat
  BY <1>13, FS_CardinalityType
<1>15. IInv'
  BY <1>2, <1>8, <1>13, <1>14 DEF IInv, TypeOK
<1> QED BY <1>2, <1>6, <1>10, <1>12, <1>15 DEF Abstract!Delete

(* Calls that leave the chains alone. *)
LEMMA ChainsUnchanged ==
    ASSUME IInv, buckets' = buckets, count' = count,
           ret' \in Values \cup {"ok", "failed", "NULL"}
    PROVE  IInv' /\ Map' = Map /\ Present' = Present
<1>1. Present' = Present /\ Map' = Map
  BY DEF Present, Map, Entry, Chain
<1>2. ChainsSound' /\ TypeOK'
  BY DEF IInv, TypeOK, ChainsSound
<1> QED BY <1>1, <1>2 DEF IInv

(* find, and the calls that find nothing to do or no memory. *)
LEMMA FindStep ==
    ASSUME IInv, Exact, NEW k \in Names, hashmap_find(k)
    PROVE  IInv' /\ Abstract!Find(k)
<1>1. TypeOK /\ ChainsSound /\ buckets' = buckets /\ count' = count
  BY DEF IInv, hashmap_find
<1>2. /\ Chain(k) \in Seq(Node) /\ Sound(Chain(k), Bucket(k))
      /\ Entry(k) = Val(Chain(k), k) /\ (k \in Present <=> Has(Chain(k), k))
  BY <1>1, TableFacts
<1>3. DOMAIN Map = Present /\ (k \in Present => Map[k] = Entry(k))
  BY DEF Map
<1>4. CASE Miss(k) /\ ret' = "NULL"
  <2>1. k \notin Present
    BY <1>1, <1>4, SearchFacts
  <2> QED BY <1>1, <1>3, <1>4, <2>1, ChainsUnchanged DEF Abstract!Find
<1>5. ASSUME NEW i \in DOMAIN Chain(k), Hit(k, i), ret' = Chain(k)[i].value
      PROVE  IInv' /\ Abstract!Find(k)
  <2>1. Chain(k)[i].key = k /\ Chain(k)[i] \in Node
    BY <1>1, <1>2, <1>5, SearchFacts DEF Hit
  <2>2. ret' \in Values
    BY <1>5, <2>1 DEF Node
  <2>3. k \in Present
    BY <1>2, <2>1 DEF Has
  <2>4. Val(Chain(k), k) = Chain(k)[i].value
    BY <1>2, <2>1, ValOf
  <2> QED BY <1>1, <1>2, <1>3, <1>5, <2>2, <2>3, <2>4, ChainsUnchanged DEF Abstract!Find
<1> QED BY <1>4, <1>5 DEF hashmap_find

LEMMA NoMemStep ==
    ASSUME IInv, Exact, NEW k \in Names, NEW v \in Values, insert_nomem(k)
    PROVE  IInv' /\ Abstract!Insert(k, v)
<1>1. k \notin Present
  BY SearchFacts DEF IInv, insert_nomem
<1>2. IInv' /\ Map' = Map
  BY ChainsUnchanged DEF insert_nomem
<1>3. DOMAIN Map = Present
  BY DEF Map
<1> QED BY <1>1, <1>2, <1>3 DEF insert_nomem, Abstract!Insert

LEMMA MissedStep ==
    ASSUME IInv, Exact, NEW k \in Names, delete_missed(k)
    PROVE  IInv' /\ Abstract!Delete(k)
<1>1. k \notin Present
  BY SearchFacts DEF IInv, delete_missed
<1>2. IInv' /\ Map' = Map
  BY ChainsUnchanged DEF delete_missed
<1>3. DOMAIN Map = Present /\ Map = [x \in Present |-> Map[x]]
  BY DEF Map
<1>4. Map = Abstract!Without(k)
  <2>1. DOMAIN Map \ {k} = Present
    BY <1>1, <1>3
  <2> QED BY <1>3, <2>1 DEF Abstract!Without
<1> QED BY <1>1, <1>2, <1>3, <1>4 DEF delete_missed, Abstract!Delete

(* Empty chains hold nothing. *)
LEMMA EmptyTable ==
    ASSUME buckets = [i \in 0..(NBuckets - 1) |-> <<>>]
    PROVE  /\ buckets \in [0..(NBuckets - 1) -> Seq(Node)]
           /\ ChainsSound
           /\ Present = {}
           /\ Map = [x \in {} |-> x]
<1>1. \A b \in 0..(NBuckets - 1) : buckets[b] = <<>> /\ DOMAIN buckets[b] = {}
  OBVIOUS
<1>2. \A k \in Names : DOMAIN Chain(k) = {}
  BY <1>1, HashAssumption DEF Chain
<1>3. Present = {}
  BY <1>2 DEF Present
<1>4. ChainsSound
  BY <1>1 DEF ChainsSound
<1> QED BY <1>3, <1>4 DEF Map

EmptyHolds ==
    buckets = [i \in 0..(NBuckets - 1) |-> <<>>] =>
        /\ buckets \in [0..(NBuckets - 1) -> Seq(Node)]
        /\ ChainsSound /\ Present = {} /\ Map = [x \in {} |-> x]

LEMMA EmptyHolding == EmptyHolds
  BY EmptyTable DEF EmptyHolds

LEMMA DestroyStep ==
    ASSUME IInv, hashmap_destroy
    PROVE  IInv' /\ Abstract!Destroy
<1>1. EmptyHolds'
  BY EmptyHolding, PTL
<1>2. /\ buckets' \in [0..(NBuckets - 1) -> Seq(Node)]
      /\ ChainsSound' /\ Present' = {} /\ Map' = [x \in {} |-> x]
  BY <1>1 DEF hashmap_destroy, EmptyHolds
<1>3. count' = 0 /\ ret' = ret /\ ret \in Values \cup {"ok", "failed", "NULL"}
  BY DEF hashmap_destroy, IInv, TypeOK
<1>4. IsFiniteSet(Present') /\ Cardinality(Present') = 0
  BY <1>2, FS_EmptySet
<1> QED BY <1>2, <1>3, <1>4 DEF IInv, TypeOK, Abstract!Destroy

-----------------------------------------------------------------------------
(* Every call keeps the table sound and does what it does on a map. *)
LEMMA StepIsMapStep ==
    ASSUME IInv, Exact, [Next]_vars
    PROVE  IInv' /\ [Abstract!Next]_(Abstract!vars)
<1>1. ASSUME NEW k \in Names, NEW v \in Values, hashmap_insert(k, v)
      PROVE  IInv' /\ Abstract!Insert(k, v)
  BY <1>1, UpdateStep, NewStep, NoMemStep DEF hashmap_insert
<1>2. ASSUME NEW k \in Names, hashmap_find(k) PROVE IInv' /\ Abstract!Find(k)
  BY <1>2, FindStep
<1>3. ASSUME NEW k \in Names, hashmap_delete(k) PROVE IInv' /\ Abstract!Delete(k)
  BY <1>3, DeleteStep, MissedStep DEF hashmap_delete
<1>4. ASSUME hashmap_destroy PROVE IInv' /\ Abstract!Destroy
  BY <1>4, DestroyStep
<1>5. CASE UNCHANGED vars
  <2>1. IInv' /\ Map' = Map
    BY <1>5, ChainsUnchanged DEF vars, IInv, TypeOK
  <2> QED BY <1>5, <2>1 DEF vars, Abstract!vars
<1> QED BY <1>1, <1>2, <1>3, <1>4, <1>5 DEF Next, Abstract!Next

(* A new table is empty and sound. *)
LEMMA InitTable == Init => IInv /\ Abstract!Init
<1> SUFFICES ASSUME Init PROVE IInv /\ Abstract!Init
  OBVIOUS
<1>1. /\ buckets \in [0..(NBuckets - 1) -> Seq(Node)]
      /\ ChainsSound /\ Present = {} /\ Map = [x \in {} |-> x]
  BY EmptyTable DEF Init
<1>2. IsFiniteSet(Present) /\ Cardinality(Present) = 0
  BY <1>1, FS_EmptySet
<1> QED BY <1>1, <1>2 DEF Init, IInv, TypeOK, Abstract!Init

(* Chains are sound and count is the number of names, always. *)
THEOREM TableInvariant == Exact => (Spec => []IInv)
<1> SUFFICES ASSUME Exact PROVE Spec => []IInv
  OBVIOUS
<1>1. Init => IInv
  BY InitTable
<1>2. IInv /\ [Next]_vars => IInv'
  BY StepIsMapStep
<1> QED BY <1>1, <1>2, PTL DEF Spec

(* count never goes below zero and nodes stay well formed. *)
THEOREM TableTypeCorrect == Exact => (Spec => []TypeOK)
<1> SUFFICES ASSUME Exact PROVE Spec => []TypeOK
  OBVIOUS
<1>1. IInv => TypeOK
  BY DEF IInv
<1> QED BY <1>1, TableInvariant, PTL

(* No chain ever holds a key twice, a misplaced node or a stale name. *)
THEOREM ChainsStaySound == Exact => (Spec => []ChainsSound)
<1> SUFFICES ASSUME Exact PROVE Spec => []ChainsSound
  OBVIOUS
<1>1. IInv => ChainsSound
  BY DEF IInv
<1> QED BY <1>1, TableInvariant, PTL

(* The keys of bucket i, as list copies them. *)
KeysOf(i) == [j \in DOMAIN buckets[i - 1] |-> buckets[i - 1][j].key]
KeyLists == [i \in 1..NBuckets |-> KeysOf(i)]

LEMMA BucketKeys ==
    ASSUME TypeOK, ChainsSound, NEW i \in 1..NBuckets
    PROVE  /\ KeysOf(i) \in Seq(Names)
           /\ Once(KeysOf(i))
           /\ \A x : In(KeysOf(i), x) <=> x \in Names /\ Bucket(x) = i - 1 /\ Has(Chain(x), x)
<1> DEFINE s == buckets[i - 1]
           b == i - 1
<1>1. b \in 0..(NBuckets - 1)
  BY HashAssumption
<1>2. s \in Seq(Node) /\ Sound(s, b)
  BY <1>1 DEF TypeOK, ChainsSound, Sound
<1>3. PICK n \in Nat : n = Len(s) /\ DOMAIN s = 1..n
  BY <1>2, LenProperties
<1>4. \A j \in 1..n : s[j].key \in Names
  <2>1. \A j \in 1..n : s[j] \in Node
    BY <1>2, <1>3
  <2> QED BY <2>1 DEF Node
<1> DEFINE t == [j \in 1..n |-> s[j].key]
<1>5. KeysOf(i) = t
  BY <1>3 DEF KeysOf
<1>6. t \in Seq(Names) /\ Len(t) = n /\ \A j \in 1..n : t[j] = s[j].key
  BY <1>4
<1>7. Once(t)
  BY <1>2, <1>3, <1>6 DEF Once, Sound
<1>8. ASSUME NEW x PROVE In(t, x) <=> Has(s, x)
  BY <1>3, <1>6 DEF In, Has
<1>9. ASSUME NEW x, Has(s, x) PROVE x \in Names /\ Bucket(x) = b
  BY <1>2, <1>3, <1>4, <1>9 DEF Has, Sound
<1>10. ASSUME NEW x, Bucket(x) = b PROVE Chain(x) = s
  BY <1>10 DEF Chain
<1> HIDE DEF s, b, t
<1>11. ASSUME NEW x PROVE In(t, x) <=> x \in Names /\ Bucket(x) = b /\ Has(Chain(x), x)
  BY <1>8, <1>9, <1>10
<1> QED BY <1>5, <1>6, <1>7, <1>11 DEF b

(* The array that list allocates is exactly filled with the names that are *)
(* there, each once: count is the number of nodes in all the buckets.      *)
THEOREM ListFillsArray == Exact => (Spec => []ListFits)
<1> SUFFICES ASSUME Exact PROVE Spec => []ListFits
  OBVIOUS
<1>1. ASSUME IInv PROVE ListFits
  <2>1. TypeOK /\ ChainsSound /\ Cardinality(Present) = count /\ NBuckets \in Nat
    BY <1>1, HashAssumption DEF IInv
  <2>2. hashmap_list = FlattenSeq(KeyLists)
    BY Zenon DEF hashmap_list, KeyLists, KeysOf
  <2>3. ASSUME NEW i \in 1..NBuckets
        PROVE  /\ KeysOf(i) \in Seq(Names) /\ Once(KeysOf(i))
               /\ \A x : In(KeysOf(i), x) <=>
                            x \in Names /\ Bucket(x) = i - 1 /\ Has(Chain(x), x)
    BY <2>1, BucketKeys
  <2>4. /\ KeyLists \in Seq(Seq(Names)) /\ Len(KeyLists) = NBuckets
        /\ \A i \in 1..NBuckets : KeyLists[i] = KeysOf(i)
    BY <2>1, <2>3 DEF KeyLists
  <2> DEFINE L == KeyLists
  <2> HIDE DEF L
  <2>5. \A i \in 1..Len(L) : Once(L[i])
    BY <2>3, <2>4 DEF L
  <2>6. ASSUME NEW i \in 1..Len(L), NEW j \in 1..Len(L), NEW x, In(L[i], x), In(L[j], x)
        PROVE  i = j
    <3>1. i \in 1..NBuckets /\ j \in 1..NBuckets
      BY <2>4 DEF L
    <3>2. In(KeysOf(i), x) /\ In(KeysOf(j), x)
      BY <2>4, <2>6, <3>1 DEF L
    <3>3. Bucket(x) = i - 1 /\ Bucket(x) = j - 1
      BY <2>3, <3>1, <3>2
    <3> QED BY <2>1, <3>1, <3>3
  <2> DEFINE l == FlattenSeq(L)
  <2>7. /\ l \in Seq(Names) /\ Once(l)
        /\ \A x : In(l, x) <=> \E j \in 1..Len(L) : In(L[j], x)
    BY <2>4, <2>5, <2>6, FlattenOnce DEF L
  <2> HIDE DEF l
  <2>8. ASSUME NEW x PROVE x \in Present <=> In(l, x)
    <3>1. x \in Present <=> x \in Names /\ Has(Chain(x), x)
      BY DEF Present, Has
    <3>2. ASSUME x \in Present PROVE In(l, x)
      <4>1. PICK b \in 0..(NBuckets - 1) : Bucket(x) = b
        BY <3>1, <3>2, HashAssumption
      <4>2. b + 1 \in 1..NBuckets /\ (b + 1) - 1 = b
        BY <2>1
      <4>3. In(KeysOf(b + 1), x)
        BY <2>3, <3>1, <3>2, <4>1, <4>2
      <4> QED BY <2>4, <2>7, <4>2, <4>3 DEF L
    <3>3. ASSUME In(l, x) PROVE x \in Present
      <4>1. PICK j \in 1..NBuckets : In(KeysOf(j), x)
        BY <2>4, <2>7, <3>3 DEF L
      <4> QED BY <2>3, <3>1, <4>1
    <3> QED BY <3>2, <3>3
  <2>9. Len(l) = count
    BY <2>1, <2>7, <2>8, OnceCounts
  <2>10. {l[i] : i \in DOMAIN l} = Present
    <3>1. DOMAIN l = 1..Len(l)
      BY <2>7, LenProperties
    <3> QED BY <2>8, <3>1 DEF In
  <2>11. hashmap_list = l
    BY <2>2 DEF l, L
  <2> HIDE DEF L
  <2> QED BY <2>1, <2>9, <2>10, <2>11 DEF ListFits
<1> QED BY <1>1, TableInvariant, PTL

(* A hash table whose comparison is exact implements a map. *)
THEOREM TableIsMap == Exact => (Spec => NameMapSpec)
<1> SUFFICES ASSUME Exact PROVE Spec => NameMapSpec
  OBVIOUS
<1>1. Init => Abstract!Init
  BY InitTable
<1>2. IInv /\ [Next]_vars => [Abstract!Next]_(Abstract!vars)
  BY StepIsMapStep
<1> QED BY <1>1, <1>2, TableInvariant, PTL DEF Spec, NameMapSpec, Abstract!Spec

(* With an exact comparison, find returns the entry of the name asked for. *)
THEOREM FindsTheName == Exact => (Spec => []FindExact)
<1> SUFFICES ASSUME Exact PROVE Spec => []FindExact
  OBVIOUS
<1>1. IInv => FindExact
  BY SearchFacts DEF IInv, FindExact, Hit
<1> QED BY <1>1, TableInvariant, PTL

(* The folder table compares with _streq, so all of the above holds of it  *)
(* whatever the names are.                                                 *)
THEOREM FolderTableExact ==
    ASSUME Names \subseteq Seq(Nat), \A a, b \in Names : Match(a, b) <=> streq(a, b)
    PROVE  Exact
<1> SUFFICES ASSUME NEW a \in Names, NEW b \in Names, Match(a, b) PROVE a = b
  BY DEF Exact
<1>1. a \in Seq(Nat) /\ b \in Seq(Nat) /\ Len(a) = Len(b) /\ \A i \in 1..Len(a) : a[i] = b[i]
  BY DEF streq
<1> QED BY <1>1, SeqEqual
==============================================================================
