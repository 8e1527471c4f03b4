----------------------------- MODULE RamfsProofs -----------------------------
(***************************************************************************)
(* Proofs about the in-memory file system (module Ramfs): the nodes form   *)
(* one tree whose paths name them uniquely, whatever sequence of commands  *)
(* was given and whichever allocation failed; when the one of fs_write     *)
(* does not, file data has one owner, and nodes and tables implement the   *)
(* file system of paths of module FileTree.                                *)
(***************************************************************************)
EXTENDS Ramfs, SequenceTheorems, FiniteSetTheorems, WellFoundedInduction, TLAPS

(* Every set of numbers with an element has a least one. *)
LEMMA LeastNumber ==
    ASSUME NEW S \in SUBSET Nat, S # {}
    PROVE  \E m \in S : \A k \in S : m <= k
<1>. DEFINE T == {0..n : n \in S}
            R == StrictSubsetOrdering(Nat)
<1>1. T \subseteq FiniteSubsetsOf(Nat)
  <2>1. SUFFICES ASSUME NEW n \in S PROVE 0..n \in FiniteSubsetsOf(Nat)
    OBVIOUS
  <2>2. IsFiniteSet(0..n)
    BY FS_Interval
  <2>. QED BY <2>2 DEF FiniteSubsetsOf
<1>2. T # {}
  OBVIOUS
<1>3. IsWellFoundedOn(R, FiniteSubsetsOf(Nat))
  BY FS_StrictSubsetOrderingWellFounded
<1>4. PICK x \in T : \A y \in T : <<y, x>> \notin R
  <2>. HIDE DEF T, R
  <2>. QED BY <1>1, <1>2, <1>3, WFMin
<1>5. PICK m \in S : x = 0..m
  OBVIOUS
<1>6. ASSUME NEW k \in S, k < m PROVE FALSE
  <2>1. 0..k \in T
    OBVIOUS
  <2>2. 0..k \subseteq 0..m /\ 0..k # 0..m
    BY <1>6
  <2>3. <<0..k, 0..m>> \in (SUBSET Nat) \X (SUBSET Nat)
    OBVIOUS
  <2>4. <<0..k, 0..m>> \in R
    BY <2>2, <2>3 DEF StrictSubsetOrdering
  <2>. QED BY <2>1, <2>4, <1>4, <1>5
<1>. QED BY <1>6

(* A set with 0, and with n + 1 for every n in it, has all the numbers. *)
LEMMA SetInduction ==
    ASSUME NEW S, 0 \in S, \A n \in Nat : n \in S => n + 1 \in S
    PROVE  Nat \subseteq S
<1>1. SUFFICES ASSUME Nat \ S # {} PROVE FALSE
  OBVIOUS
<1>2. PICK m \in Nat \ S : \A k \in Nat \ S : m <= k
  BY <1>1, LeastNumber
<1>3. m - 1 \in Nat /\ m - 1 \in S
  BY <1>2
<1>. QED BY <1>2, <1>3

(* The states of n steps of a function next, which also sees the number of *)
(* the step, from init.                                                    *)
IsRun(n, V, init, next, w) ==
    /\ w \in [0..n -> V]
    /\ w[0] = init
    /\ \A j \in 1..n : w[j] = next[<<w[j - 1], j>>]

(* A list of steps can be carried out. *)
LEMMA Iteration ==
    ASSUME NEW V, NEW n \in Nat, NEW init \in V, NEW next \in [V \X (1..n) -> V]
    PROVE  \E w : IsRun(n, V, init, next, w)
<1>. DEFINE Run(k, w) == /\ w \in [0..k -> V]
                         /\ w[0] = init
                         /\ \A j \in 1..k : w[j] = next[<<w[j - 1], j>>]
            S == {k \in Nat : k <= n => \E w : Run(k, w)}
<1>1. 0 \in S
  <2>1. Run(0, [x \in 0..0 |-> init])
    OBVIOUS
  <2>. QED BY <2>1
<1>2. ASSUME NEW k \in Nat, k \in S PROVE k + 1 \in S
  <2>1. SUFFICES ASSUME k + 1 <= n PROVE \E w : Run(k + 1, w)
    OBVIOUS
  <2>2. PICK u : Run(k, u)
    BY <1>2, <2>1
  <2>. DEFINE w == [x \in 0..(k + 1) |-> IF x <= k THEN u[x] ELSE next[<<u[k], k + 1>>]]
  <2>3. u[k] \in V /\ k + 1 \in 1..n
    BY <2>1, <2>2
  <2>4. next[<<u[k], k + 1>>] \in V
    BY <2>3
  <2>5. w \in [0..(k + 1) -> V]
    BY <2>2, <2>4
  <2>6. w[0] = init
    BY <2>2
  <2>7. ASSUME NEW j \in 1..(k + 1) PROVE w[j] = next[<<w[j - 1], j>>]
    <3>1. CASE j <= k
      <4>1. w[j] = u[j] /\ w[j - 1] = u[j - 1] /\ j \in 1..k
        BY <3>1
      <4>. QED BY <4>1, <2>2
    <3>2. CASE j = k + 1
      <4>1. w[j] = next[<<u[k], k + 1>>] /\ w[j - 1] = u[k]
        BY <3>2
      <4>. QED BY <4>1, <3>2
    <3>. QED BY <3>1, <3>2
  <2>. QED BY <2>5, <2>6, <2>7
<1>3. Nat \subseteq S
  <2>. HIDE DEF S
  <2>. QED BY <1>1, <1>2, SetInduction
<1>4. n \in S /\ n <= n
  <2>. HIDE DEF S
  <2>. QED BY <1>3
<1>5. PICK w : Run(n, w)
  BY <1>4
<1>. QED BY <1>5 DEF IsRun
-----------------------------------------------------------------------------
(* What the name tables and the nodes are. *)
Table(V) == UNION {[S -> V] : S \in SUBSET STRING}

Node == [name : STRING \cup {"/"}, parent : DirIds \cup {NULL},
         foder_map : Table(DirIds), file_map : Table(FileInfo)]

(* The parts of the invariant about the nodes, for any collection D of     *)
(* them: before and after a step.                                          *)
NodesOK(D) == DOMAIN D \subseteq DirIds /\ D \in [DOMAIN D -> Node]

Linked(D) ==
    /\ Root \in DOMAIN D /\ D[Root].parent = NULL
    /\ \A d \in DOMAIN D \ {Root} :
        /\ D[d].parent \in DOMAIN D /\ D[d].parent # d
        /\ D[d].name \in DOMAIN D[D[d].parent].foder_map
        /\ D[D[d].parent].foder_map[D[d].name] = d
    /\ \A d \in DOMAIN D : \A n \in DOMAIN D[d].foder_map :
        /\ D[d].foder_map[n] \in DOMAIN D
        /\ D[D[d].foder_map[n]].parent = d
        /\ D[D[d].foder_map[n]].name = n

Exclusive(D) ==
    \A d \in DOMAIN D : \A n \in DOMAIN D[d].foder_map : n \notin DOMAIN D[d].file_map

GoodTree(D) == NodesOK(D) /\ Linked(D) /\ Exclusive(D)

(* The paths that the parent links spell, and that no two nodes share.     *)
(* That there are such paths says that no link leads round in a circle.    *)
IsPaths(D, f) ==
    /\ f \in [DOMAIN D -> Seq(STRING)]
    /\ f[Root] = <<>>
    /\ \A d \in DOMAIN D \ {Root} : f[d] = Append(f[D[d].parent], D[d].name)
    /\ \A d, e \in DOMAIN D : f[d] = f[e] => d = e

HasPaths(D) == \E f : IsPaths(D, f)

(* The three ways a command changes the nodes. *)
AddChild(D, p, n, c) ==
    [Bind(D, c, [name |-> n, parent |-> p, foder_map |-> Empty, file_map |-> Empty])
        EXCEPT ![p].foder_map = Bind(@, n, c)]
DropChild(D, p, n) == Unbind([D EXCEPT ![p].foder_map = Unbind(@, n)], D[p].foder_map[n])
SetFiles(D, d, g) == [D EXCEPT ![d].file_map = g]

(* What each of them leaves of the nodes, field by field. *)
IsAddChild(D, p, n, c, E) ==
    /\ NodesOK(E)
    /\ DOMAIN E = DOMAIN D \cup {c}
    /\ E[c] = [name |-> n, parent |-> p, foder_map |-> Empty, file_map |-> Empty]
    /\ \A d \in DOMAIN D :
         /\ E[d].name = D[d].name
         /\ E[d].parent = D[d].parent
         /\ E[d].file_map = D[d].file_map
         /\ d # p => E[d] = D[d]
    /\ E[p].foder_map = Bind(D[p].foder_map, n, c)

IsDropChild(D, p, n, c, E) ==
    /\ NodesOK(E)
    /\ DOMAIN E = DOMAIN D \ {c}
    /\ \A d \in DOMAIN E :
         /\ E[d].name = D[d].name
         /\ E[d].parent = D[d].parent
         /\ E[d].file_map = D[d].file_map
         /\ d # p => E[d] = D[d]
    /\ E[p].foder_map = Unbind(D[p].foder_map, n)

IsSetFiles(D, p, g, E) ==
    /\ NodesOK(E)
    /\ DOMAIN E = DOMAIN D
    /\ \A d \in DOMAIN D :
         /\ E[d].name = D[d].name
         /\ E[d].parent = D[d].parent
         /\ E[d].foder_map = D[d].foder_map
         /\ d # p => E[d] = D[d]
    /\ E[p].file_map = g

-----------------------------------------------------------------------------
(* Name tables. *)
LEMMA TableFacts ==
    ASSUME NEW V, NEW f
    PROVE  f \in Table(V) <=> DOMAIN f \subseteq STRING /\ f \in [DOMAIN f -> V]
<1>1. ASSUME f \in Table(V) PROVE DOMAIN f \subseteq STRING /\ f \in [DOMAIN f -> V]
  <2>1. PICK S \in SUBSET STRING : f \in [S -> V]
    BY <1>1, Zenon DEF Table
  <2>. QED BY <2>1
<1>2. ASSUME DOMAIN f \subseteq STRING, f \in [DOMAIN f -> V] PROVE f \in Table(V)
  BY <1>2, Zenon DEF Table
<1>. QED BY <1>1, <1>2

LEMMA BindFacts ==
    ASSUME NEW f, NEW k, NEW v
    PROVE  /\ DOMAIN Bind(f, k, v) = DOMAIN f \cup {k}
           /\ Bind(f, k, v)[k] = v
           /\ \A x \in DOMAIN f : x # k => Bind(f, k, v)[x] = f[x]
  BY DEF Bind

LEMMA BindType ==
    ASSUME NEW V, NEW f, f \in [DOMAIN f -> V], NEW k, NEW v \in V
    PROVE  Bind(f, k, v) \in [DOMAIN f \cup {k} -> V]
  BY DEF Bind

LEMMA UnbindFacts ==
    ASSUME NEW f, NEW k
    PROVE  /\ DOMAIN Unbind(f, k) = DOMAIN f \ {k}
           /\ \A x \in DOMAIN f : x # k => Unbind(f, k)[x] = f[x]
  BY DEF Unbind

LEMMA UnbindType ==
    ASSUME NEW V, NEW f, f \in [DOMAIN f -> V], NEW k
    PROVE  Unbind(f, k) \in [DOMAIN f \ {k} -> V]
  BY DEF Unbind

LEMMA EmptyTable ==
    /\ DOMAIN Empty = {}
    /\ \A V : Empty \in Table(V)
    /\ \A V : \A f \in Table(V) : DOMAIN f = {} => f = Empty
<1>1. DOMAIN Empty = {}
  BY DEF Empty
<1>2. ASSUME NEW V PROVE Empty \in [{} -> V]
  BY DEF Empty
<1>3. ASSUME NEW V, NEW f \in Table(V), DOMAIN f = {} PROVE f = Empty
  <2>1. f \in [{} -> V]
    BY <1>3, TableFacts
  <2>. QED BY <1>2, <2>1
<1>. QED BY <1>1, <1>2, <1>3, TableFacts

LEMMA TableBind ==
    ASSUME NEW V, NEW f \in Table(V), NEW k \in STRING, NEW v \in V
    PROVE  Bind(f, k, v) \in Table(V)
<1>1. DOMAIN f \subseteq STRING /\ f \in [DOMAIN f -> V]
  BY TableFacts
<1>2. DOMAIN Bind(f, k, v) = DOMAIN f \cup {k}
  BY BindFacts
<1>3. Bind(f, k, v) \in [DOMAIN f \cup {k} -> V]
  BY <1>1, BindType
<1>. QED BY <1>1, <1>2, <1>3, TableFacts

LEMMA TableUnbind ==
    ASSUME NEW V, NEW f \in Table(V), NEW k
    PROVE  Unbind(f, k) \in Table(V)
<1>1. DOMAIN f \subseteq STRING /\ f \in [DOMAIN f -> V]
  BY TableFacts
<1>2. DOMAIN Unbind(f, k) = DOMAIN f \ {k}
  BY UnbindFacts
<1>3. Unbind(f, k) \in [DOMAIN f \ {k} -> V]
  BY <1>1, UnbindType
<1>. QED BY <1>1, <1>2, <1>3, TableFacts
-----------------------------------------------------------------------------
(* What each way of changing the nodes leaves of them. *)
LEMMA AddChildFacts ==
    ASSUME NEW D, NodesOK(D), NEW p \in DOMAIN D, NEW n \in STRING,
           NEW c \in DirIds \ DOMAIN D
    PROVE  IsAddChild(D, p, n, c, AddChild(D, p, n, c))
<1>. DEFINE nd == [name |-> n, parent |-> p, foder_map |-> Empty, file_map |-> Empty]
            B == Bind(D, c, nd)
            E == AddChild(D, p, n, c)
            t == Bind(D[p].foder_map, n, c)
<1>1. DOMAIN D \subseteq DirIds /\ D \in [DOMAIN D -> Node]
  BY DEF NodesOK
<1>2. nd \in Node
  BY <1>1, EmptyTable DEF Node
<1>3. D[p] \in Node /\ D[p].foder_map \in Table(DirIds)
  BY <1>1 DEF Node
<1>4. t \in Table(DirIds)
  BY <1>3, TableBind
<1>5. /\ DOMAIN B = DOMAIN D \cup {c}
      /\ B[c] = nd
      /\ \A d \in DOMAIN D : B[d] = D[d]
      /\ B \in [DOMAIN D \cup {c} -> Node]
  <2>. HIDE DEF nd
  <2>. QED BY <1>1, <1>2 DEF Bind
<1>6. E = [B EXCEPT ![p].foder_map = t]
  <2>1. B[p].foder_map = D[p].foder_map
    BY <1>5
  <2>2. E = [B EXCEPT ![p].foder_map = Bind(B[p].foder_map, n, c)]
    BY DEF AddChild
  <2>. QED BY <2>1, <2>2
<1>7. E = [B EXCEPT ![p] = [D[p] EXCEPT !.foder_map = t]]
  <2>. HIDE DEF B, E, t
  <2>. QED BY <1>6, <1>5
<1>8. [D[p] EXCEPT !.foder_map = t] \in Node
  <2>. HIDE DEF t
  <2>. QED BY <1>3, <1>4 DEF Node
<1>9. DOMAIN E = DOMAIN D \cup {c} /\ E \in [DOMAIN D \cup {c} -> Node]
  <2>. HIDE DEF B, E, t
  <2>. QED BY <1>5, <1>7, <1>8
<1>10. NodesOK(E)
  <2>. HIDE DEF B, E, t
  <2>. QED BY <1>1, <1>9 DEF NodesOK
<1>11. p # c /\ E[c] = nd
  <2>. HIDE DEF B, E, t, nd
  <2>. QED BY <1>5, <1>7
<1>12. E[p] = [D[p] EXCEPT !.foder_map = t] /\ \A d \in DOMAIN D : d # p => E[d] = D[d]
  <2>. HIDE DEF B, E, t, nd
  <2>. QED BY <1>5, <1>7
<1>13. /\ E[p].name = D[p].name /\ E[p].parent = D[p].parent
       /\ E[p].file_map = D[p].file_map /\ E[p].foder_map = t
  <2>. HIDE DEF B, E, t, nd
  <2>. QED BY <1>12, <1>3 DEF Node
<1>. HIDE DEF B, E, t
<1>. QED BY <1>9, <1>10, <1>11, <1>12, <1>13 DEF E, t, IsAddChild

LEMMA DropChildFacts ==
    ASSUME NEW D, NodesOK(D), NEW p \in DOMAIN D, NEW n \in DOMAIN D[p].foder_map,
           D[p].foder_map[n] \in DOMAIN D, D[p].foder_map[n] # p
    PROVE  IsDropChild(D, p, n, D[p].foder_map[n], DropChild(D, p, n))
<1>. DEFINE c == D[p].foder_map[n]
            t == Unbind(D[p].foder_map, n)
            B == [D EXCEPT ![p].foder_map = t]
            E == DropChild(D, p, n)
<1>1. DOMAIN D \subseteq DirIds /\ D \in [DOMAIN D -> Node]
  BY DEF NodesOK
<1>2. D[p] \in Node /\ D[p].foder_map \in Table(DirIds)
  BY <1>1 DEF Node
<1>3. t \in Table(DirIds)
  BY <1>2, TableUnbind
<1>4. E = Unbind(B, c)
  BY DEF DropChild
<1>5. c \in DOMAIN D /\ c # p
  OBVIOUS
<1>. HIDE DEF E, c, t
<1>6. [D[p] EXCEPT !.foder_map = t] \in Node
  BY <1>2, <1>3 DEF Node
<1>7. /\ B \in [DOMAIN D -> Node]
      /\ B[p] = [D[p] EXCEPT !.foder_map = t]
      /\ \A d \in DOMAIN D : d # p => B[d] = D[d]
  BY <1>1, <1>6
<1>. HIDE DEF B
<1>8. /\ DOMAIN E = DOMAIN D \ {c} /\ E \in [DOMAIN D \ {c} -> Node]
      /\ \A d \in DOMAIN D \ {c} : E[d] = B[d]
  <2>1. DOMAIN B = DOMAIN D /\ B \in [DOMAIN B -> Node]
    BY <1>7
  <2>2. E \in [DOMAIN B \ {c} -> Node]
    BY <1>4, <2>1, UnbindType
  <2>. QED BY <1>4, <2>1, <2>2, UnbindFacts
<1>9. NodesOK(E)
  BY <1>1, <1>8 DEF NodesOK
<1>10. E[p] = [D[p] EXCEPT !.foder_map = t] /\ \A d \in DOMAIN E : d # p => E[d] = D[d]
  BY <1>8, <1>7, <1>5
<1>11. /\ E[p].name = D[p].name /\ E[p].parent = D[p].parent
       /\ E[p].file_map = D[p].file_map /\ E[p].foder_map = t
  BY <1>10, <1>2 DEF Node
<1>. QED BY <1>8, <1>9, <1>10, <1>11 DEF E, c, t, IsDropChild

LEMMA SetFilesFacts ==
    ASSUME NEW D, NodesOK(D), NEW p \in DOMAIN D, NEW g \in Table(FileInfo)
    PROVE  IsSetFiles(D, p, g, SetFiles(D, p, g))
<1>. DEFINE E == SetFiles(D, p, g)
<1>1. DOMAIN D \subseteq DirIds /\ D \in [DOMAIN D -> Node]
  BY DEF NodesOK
<1>2. D[p] \in Node
  BY <1>1
<1>3. [D[p] EXCEPT !.file_map = g] \in Node
  BY <1>2 DEF Node
<1>4. E = [D EXCEPT ![p] = [D[p] EXCEPT !.file_map = g]]
  BY DEF SetFiles
<1>. HIDE DEF E
<1>5. /\ E \in [DOMAIN D -> Node]
      /\ E[p] = [D[p] EXCEPT !.file_map = g]
      /\ \A d \in DOMAIN D : d # p => E[d] = D[d]
  BY <1>1, <1>3, <1>4
<1>6. NodesOK(E) /\ DOMAIN E = DOMAIN D
  BY <1>1, <1>5 DEF NodesOK
<1>7. /\ E[p].name = D[p].name /\ E[p].parent = D[p].parent
      /\ E[p].foder_map = D[p].foder_map /\ E[p].file_map = g
  BY <1>5, <1>2 DEF Node
<1>. QED BY <1>5, <1>6, <1>7 DEF E, IsSetFiles
-----------------------------------------------------------------------------
(* The fields of a node have their types. *)
LEMMA NodeTypes ==
    ASSUME NEW D, NodesOK(D), NEW d \in DOMAIN D
    PROVE  /\ d \in DirIds
           /\ D[d] \in Node
           /\ D[d].parent \in DirIds \cup {NULL}
           /\ D[d].foder_map \in Table(DirIds)
           /\ D[d].file_map \in Table(FileInfo)
  BY DEF NodesOK, Node

(* A node's name is one that its parent's table knows it by. *)
LEMMA NameType ==
    ASSUME NEW D, NodesOK(D), Linked(D), NEW d \in DOMAIN D \ {Root}
    PROVE  D[d].name \in STRING
<1>. DEFINE t == D[D[d].parent].foder_map
<1>1. D[d].parent \in DOMAIN D /\ D[d].name \in DOMAIN t
  BY DEF Linked
<1>2. t \in Table(DirIds)
  BY <1>1, NodeTypes
<1>3. DOMAIN t \subseteq STRING
  <2>. HIDE DEF t
  <2>. QED BY <1>2, TableFacts
<1>. QED BY <1>1, <1>3

(* A new empty child under a free name keeps the tree, *)
LEMMA AddChildTree ==
    ASSUME NEW D, GoodTree(D), NEW p \in DOMAIN D, NEW n \in STRING,
           n \notin DOMAIN D[p].foder_map, n \notin DOMAIN D[p].file_map,
           NEW c \in DirIds \ DOMAIN D
    PROVE  GoodTree(AddChild(D, p, n, c))
<1>. DEFINE E == AddChild(D, p, n, c)
<1>1. NodesOK(D) /\ Linked(D) /\ Exclusive(D)
  BY DEF GoodTree
<1>2a. IsAddChild(D, p, n, c, E)
  BY <1>1, AddChildFacts
<1>. HIDE DEF E
<1>2. /\ NodesOK(E)
      /\ DOMAIN E = DOMAIN D \cup {c}
      /\ E[c] = [name |-> n, parent |-> p, foder_map |-> Empty, file_map |-> Empty]
      /\ \A d \in DOMAIN D :
           /\ E[d].name = D[d].name
           /\ E[d].parent = D[d].parent
           /\ E[d].file_map = D[d].file_map
           /\ d # p => E[d] = D[d]
      /\ E[p].foder_map = Bind(D[p].foder_map, n, c)
  BY <1>2a DEF IsAddChild
<1>3. E[c].name = n /\ E[c].parent = p /\ DOMAIN E[c].foder_map = {} /\ DOMAIN E[c].file_map = {}
  BY <1>2, EmptyTable
<1>4. /\ DOMAIN E[p].foder_map = DOMAIN D[p].foder_map \cup {n}
      /\ E[p].foder_map[n] = c
      /\ \A m \in DOMAIN D[p].foder_map : E[p].foder_map[m] = D[p].foder_map[m]
  BY <1>2 DEF Bind
<1>5. \A d \in DOMAIN D : \A m \in DOMAIN D[d].foder_map :
        m \in DOMAIN E[d].foder_map /\ E[d].foder_map[m] = D[d].foder_map[m]
  BY <1>2, <1>4
<1>6. c \notin DOMAIN D /\ Root \in DOMAIN D /\ Root # c
  BY <1>1 DEF Linked
<1>7. Linked(E)
  <2>1. Root \in DOMAIN E /\ E[Root].parent = NULL
    BY <1>1, <1>2, <1>6 DEF Linked
  <2>2. ASSUME NEW d \in DOMAIN E \ {Root}
        PROVE  /\ E[d].parent \in DOMAIN E /\ E[d].parent # d
               /\ E[d].name \in DOMAIN E[E[d].parent].foder_map
               /\ E[E[d].parent].foder_map[E[d].name] = d
    <3>1. CASE d = c
      BY <3>1, <1>2, <1>3, <1>4, <1>6
    <3>2. CASE d # c
      <4>1. d \in DOMAIN D \ {Root} /\ E[d].parent = D[d].parent /\ E[d].name = D[d].name
        BY <3>2, <1>2
      <4>2. /\ D[d].parent \in DOMAIN D /\ D[d].parent # d
            /\ D[d].name \in DOMAIN D[D[d].parent].foder_map
            /\ D[D[d].parent].foder_map[D[d].name] = d
        BY <4>1, <1>1 DEF Linked
      <4>. QED BY <4>1, <4>2, <1>2, <1>5
    <3>. QED BY <3>1, <3>2
  <2>3. ASSUME NEW d \in DOMAIN E, NEW m \in DOMAIN E[d].foder_map
        PROVE  /\ E[d].foder_map[m] \in DOMAIN E
               /\ E[E[d].foder_map[m]].parent = d
               /\ E[E[d].foder_map[m]].name = m
    <3>1. d \in DOMAIN D
      BY <1>2, <1>3
    <3>2. CASE m \in DOMAIN D[d].foder_map
      <4>. DEFINE x == D[d].foder_map[m]
      <4>1. x \in DOMAIN D /\ D[x].parent = d /\ D[x].name = m
        BY <3>1, <3>2, <1>1 DEF Linked
      <4>2. E[d].foder_map[m] = x
        BY <3>1, <3>2, <1>5
      <4>. HIDE DEF x
      <4>. QED BY <4>1, <4>2, <1>2
    <3>3. CASE m \notin DOMAIN D[d].foder_map
      <4>1. d = p /\ m = n
        BY <3>1, <3>3, <1>2, <1>4
      <4>. QED BY <4>1, <1>2, <1>3, <1>4
    <3>. QED BY <3>2, <3>3
  <2>. QED BY <2>1, <2>2, <2>3 DEF Linked
<1>8. Exclusive(E)
  <2>1. SUFFICES ASSUME NEW d \in DOMAIN E, NEW m \in DOMAIN E[d].foder_map
                 PROVE  m \notin DOMAIN E[d].file_map
    BY DEF Exclusive
  <2>2. CASE d = c
    BY <2>2, <1>3
  <2>3. CASE d = p
    <3>1. E[p].file_map = D[p].file_map
      BY <1>2
    <3>2. \A x \in DOMAIN D[p].foder_map : x \notin DOMAIN D[p].file_map
      BY <1>1 DEF Exclusive
    <3>. QED BY <2>3, <3>1, <3>2, <1>4
  <2>4. CASE d # c /\ d # p
    <3>1. d \in DOMAIN D /\ E[d] = D[d]
      BY <2>4, <1>2
    <3>. QED BY <3>1, <1>1 DEF Exclusive
  <2>. QED BY <2>2, <2>3, <2>4
<1>. QED BY <1>2, <1>7, <1>8 DEF GoodTree, E

(* and its path is its parent's with its name at the end. *)
LEMMA AddChildPaths ==
    ASSUME NEW D, GoodTree(D), NEW p \in DOMAIN D, NEW n \in STRING,
           n \notin DOMAIN D[p].foder_map,
           NEW c \in DirIds \ DOMAIN D, NEW f, IsPaths(D, f)
    PROVE  IsPaths(AddChild(D, p, n, c), Bind(f, c, Append(f[p], n)))
<1>. DEFINE E == AddChild(D, p, n, c)
            g == Bind(f, c, Append(f[p], n))
<1>1. NodesOK(D) /\ Linked(D)
  BY DEF GoodTree
<1>2a. IsAddChild(D, p, n, c, E)
  BY <1>1, AddChildFacts
<1>2. /\ DOMAIN E = DOMAIN D \cup {c}
      /\ E[c] = [name |-> n, parent |-> p, foder_map |-> Empty, file_map |-> Empty]
      /\ \A d \in DOMAIN D : E[d].name = D[d].name /\ E[d].parent = D[d].parent
  <2>. HIDE DEF E
  <2>. QED BY <1>2a DEF IsAddChild
<1>3. E[c].name = n /\ E[c].parent = p
  BY <1>2
<1>4. /\ f \in [DOMAIN D -> Seq(STRING)]
      /\ f[Root] = <<>>
      /\ \A d \in DOMAIN D \ {Root} : f[d] = Append(f[D[d].parent], D[d].name)
      /\ \A d, e \in DOMAIN D : f[d] = f[e] => d = e
  BY DEF IsPaths
<1>5. f[p] \in Seq(STRING) /\ Append(f[p], n) \in Seq(STRING)
  BY <1>4
<1>6. /\ g \in [DOMAIN D \cup {c} -> Seq(STRING)]
      /\ g[c] = Append(f[p], n)
      /\ \A d \in DOMAIN D : g[d] = f[d]
  BY <1>4, <1>5 DEF Bind
<1>7. c \notin DOMAIN D /\ Root \in DOMAIN D
  BY <1>1 DEF Linked
<1>. HIDE DEF E, g
<1>8. ASSUME NEW d \in DOMAIN D PROVE f[d] # Append(f[p], n)
  <2>1. SUFFICES ASSUME f[d] = Append(f[p], n) PROVE FALSE
    OBVIOUS
  <2>2. Append(f[p], n) # <<>>
    BY <1>5
  <2>3. d # Root
    BY <2>1, <2>2, <1>4
  <2>4. /\ D[d].parent \in DOMAIN D
        /\ D[d].name \in DOMAIN D[D[d].parent].foder_map
    BY <2>3, <1>1 DEF Linked
  <2>5. f[D[d].parent] \in Seq(STRING) /\ D[d].name \in STRING
    BY <2>3, <2>4, <1>4, <1>1, NameType
  <2>6. f[D[d].parent] = f[p] /\ D[d].name = n
    <3>. DEFINE s == f[p]
                t == f[D[d].parent]
                m == D[d].name
    <3>1. Append(t, m) = Append(s, n)
      BY <2>1, <2>3, <1>4
    <3>2. s \in Seq(STRING) /\ t \in Seq(STRING) /\ m \in STRING /\ n \in STRING
      BY <2>5, <1>5
    <3>3. t = s /\ m = n
      <4>. HIDE DEF s, t, m
      <4>. QED BY <3>1, <3>2, AppendInjective
    <3>. QED BY <3>3
  <2>7. D[d].parent = p
    BY <2>6, <2>4, <1>4
  <2>. QED BY <2>7, <2>6, <2>4
<1>9. g[Root] = <<>>
  BY <1>4, <1>6, <1>7
<1>10. ASSUME NEW d \in DOMAIN E \ {Root} PROVE g[d] = Append(g[E[d].parent], E[d].name)
  <2>1. CASE d = c
    BY <2>1, <1>3, <1>6
  <2>2. CASE d # c
    <3>1. d \in DOMAIN D \ {Root} /\ E[d].parent = D[d].parent /\ E[d].name = D[d].name
      BY <2>2, <1>2
    <3>2. D[d].parent \in DOMAIN D
      BY <3>1, <1>1 DEF Linked
    <3>. QED BY <3>1, <3>2, <1>4, <1>6
  <2>. QED BY <2>1, <2>2
<1>11. ASSUME NEW d \in DOMAIN E, NEW e \in DOMAIN E, g[d] = g[e] PROVE d = e
  BY <1>11, <1>2, <1>4, <1>6, <1>8
<1>. QED BY <1>2, <1>6, <1>9, <1>10, <1>11 DEF IsPaths, E, g
(* Removing an empty child keeps the tree and the other nodes' paths. *)
LEMMA DropChildTree ==
    ASSUME NEW D, GoodTree(D), NEW p \in DOMAIN D, NEW n \in DOMAIN D[p].foder_map,
           NEW c, c = D[p].foder_map[n], DOMAIN D[c].foder_map = {}
    PROVE  /\ c \in DOMAIN D \ {Root, p}
           /\ IsDropChild(D, p, n, c, DropChild(D, p, n))
           /\ GoodTree(DropChild(D, p, n))
           /\ \A f : IsPaths(D, f) => IsPaths(DropChild(D, p, n), Unbind(f, c))
<1>. DEFINE E == DropChild(D, p, n)
<1>1. NodesOK(D) /\ Linked(D) /\ Exclusive(D)
  BY DEF GoodTree
<1>2. c \in DOMAIN D /\ D[c].parent = p /\ D[c].name = n /\ Root \in DOMAIN D
  BY <1>1 DEF Linked
<1>3. c # Root
  <2>1. p \in DirIds
    BY <1>1, NodeTypes
  <2>. QED BY <2>1, <1>2, <1>1, RamfsAssumption DEF Linked
<1>4. c # p
  BY <1>1, <1>2, <1>3 DEF Linked
<1>5. IsDropChild(D, p, n, c, E)
  BY <1>1, <1>2, <1>4, DropChildFacts
<1>. HIDE DEF E
<1>6. /\ NodesOK(E)
      /\ DOMAIN E = DOMAIN D \ {c}
      /\ \A d \in DOMAIN E :
           /\ E[d].name = D[d].name
           /\ E[d].parent = D[d].parent
           /\ E[d].file_map = D[d].file_map
           /\ d # p => E[d] = D[d]
      /\ E[p].foder_map = Unbind(D[p].foder_map, n)
  BY <1>5 DEF IsDropChild
<1>7. /\ DOMAIN E[p].foder_map = DOMAIN D[p].foder_map \ {n}
      /\ \A m \in DOMAIN D[p].foder_map : m # n => E[p].foder_map[m] = D[p].foder_map[m]
  BY <1>6 DEF Unbind
<1>8. ASSUME NEW d \in DOMAIN D \ {Root}, d # c PROVE D[d].parent \in DOMAIN E
  <2>1. D[d].parent \in DOMAIN D /\ D[d].name \in DOMAIN D[D[d].parent].foder_map
    BY <1>1 DEF Linked
  <2>2. D[d].parent # c
    BY <2>1
  <2>. QED BY <2>1, <2>2, <1>6
<1>9. Linked(E)
  <2>1. Root \in DOMAIN E /\ E[Root].parent = NULL
    BY <1>1, <1>2, <1>3, <1>6 DEF Linked
  <2>2. ASSUME NEW d \in DOMAIN E \ {Root}
        PROVE  /\ E[d].parent \in DOMAIN E /\ E[d].parent # d
               /\ E[d].name \in DOMAIN E[E[d].parent].foder_map
               /\ E[E[d].parent].foder_map[E[d].name] = d
    <3>. DEFINE up == D[d].parent
                m == D[d].name
    <3>1. d \in DOMAIN D \ {Root} /\ d # c /\ E[d].parent = up /\ E[d].name = m
      BY <1>6
    <3>2. /\ up \in DOMAIN D /\ up # d
          /\ m \in DOMAIN D[up].foder_map
          /\ D[up].foder_map[m] = d
      BY <3>1, <1>1 DEF Linked
    <3>3. up \in DOMAIN E
      BY <3>1, <1>8
    <3>4. up = p => m # n
      BY <3>1, <3>2
    <3>. HIDE DEF up, m
    <3>5. m \in DOMAIN E[up].foder_map /\ E[up].foder_map[m] = d
      BY <3>2, <3>3, <3>4, <1>6, <1>7
    <3>. QED BY <3>1, <3>2, <3>3, <3>5
  <2>3. ASSUME NEW d \in DOMAIN E, NEW m \in DOMAIN E[d].foder_map
        PROVE  /\ E[d].foder_map[m] \in DOMAIN E
               /\ E[E[d].foder_map[m]].parent = d
               /\ E[E[d].foder_map[m]].name = m
    <3>. DEFINE x == D[d].foder_map[m]
    <3>1. d \in DOMAIN D /\ m \in DOMAIN D[d].foder_map /\ E[d].foder_map[m] = x
      BY <1>6, <1>7
    <3>2. x \in DOMAIN D /\ D[x].parent = d /\ D[x].name = m
      BY <3>1, <1>1 DEF Linked
    <3>3. x # c
      BY <3>1, <3>2, <1>2, <1>7
    <3>. HIDE DEF x
    <3>. QED BY <3>1, <3>2, <3>3, <1>6
  <2>. QED BY <2>1, <2>2, <2>3 DEF Linked
<1>10. Exclusive(E)
  <2>1. SUFFICES ASSUME NEW d \in DOMAIN E, NEW m \in DOMAIN E[d].foder_map
                 PROVE  m \notin DOMAIN E[d].file_map
    BY DEF Exclusive
  <2>2. d \in DOMAIN D /\ m \in DOMAIN D[d].foder_map /\ E[d].file_map = D[d].file_map
    BY <1>6, <1>7
  <2>. QED BY <2>2, <1>1 DEF Exclusive
<1>11. ASSUME NEW f, IsPaths(D, f) PROVE IsPaths(E, Unbind(f, c))
  <2>. DEFINE g == Unbind(f, c)
  <2>1. /\ f \in [DOMAIN D -> Seq(STRING)]
        /\ f[Root] = <<>>
        /\ \A d \in DOMAIN D \ {Root} : f[d] = Append(f[D[d].parent], D[d].name)
        /\ \A d, e \in DOMAIN D : f[d] = f[e] => d = e
    BY <1>11 DEF IsPaths
  <2>2. g \in [DOMAIN E -> Seq(STRING)] /\ \A d \in DOMAIN E : g[d] = f[d]
    BY <2>1, <1>6 DEF Unbind
  <2>. HIDE DEF g
  <2>3. g[Root] = <<>>
    BY <2>1, <2>2, <1>2, <1>3, <1>6
  <2>4. ASSUME NEW d \in DOMAIN E \ {Root} PROVE g[d] = Append(g[E[d].parent], E[d].name)
    <3>1. d \in DOMAIN D \ {Root} /\ d # c /\ E[d].parent = D[d].parent /\ E[d].name = D[d].name
      BY <1>6
    <3>2. D[d].parent \in DOMAIN E
      BY <3>1, <1>8
    <3>. QED BY <3>1, <3>2, <2>1, <2>2
  <2>5. ASSUME NEW d \in DOMAIN E, NEW e \in DOMAIN E, g[d] = g[e] PROVE d = e
    BY <2>5, <2>1, <2>2, <1>6
  <2>. QED BY <2>2, <2>3, <2>4, <2>5 DEF IsPaths, g
<1>. QED BY <1>2, <1>3, <1>4, <1>5, <1>6, <1>9, <1>10, <1>11 DEF GoodTree, E

(* Changing the files of one node changes no path. *)
LEMMA SetFilesTree ==
    ASSUME NEW D, GoodTree(D), NEW p \in DOMAIN D, NEW g \in Table(FileInfo),
           \A n \in DOMAIN g : n \notin DOMAIN D[p].foder_map
    PROVE  /\ IsSetFiles(D, p, g, SetFiles(D, p, g))
           /\ GoodTree(SetFiles(D, p, g))
           /\ \A f : IsPaths(D, f) => IsPaths(SetFiles(D, p, g), f)
<1>. DEFINE E == SetFiles(D, p, g)
<1>1. NodesOK(D) /\ Linked(D) /\ Exclusive(D)
  BY DEF GoodTree
<1>2. IsSetFiles(D, p, g, E)
  BY <1>1, SetFilesFacts
<1>. HIDE DEF E
<1>3. /\ NodesOK(E)
      /\ DOMAIN E = DOMAIN D
      /\ \A d \in DOMAIN D :
           /\ E[d].name = D[d].name
           /\ E[d].parent = D[d].parent
           /\ E[d].foder_map = D[d].foder_map
           /\ d # p => E[d] = D[d]
      /\ E[p].file_map = g
  BY <1>2 DEF IsSetFiles
<1>4. Linked(E)
  BY <1>1, <1>3 DEF Linked
<1>5. Exclusive(E)
  BY <1>1, <1>3 DEF Exclusive
<1>6. ASSUME NEW f, IsPaths(D, f) PROVE IsPaths(E, f)
  BY <1>6, <1>3 DEF IsPaths
<1>. QED BY <1>2, <1>3, <1>4, <1>5, <1>6 DEF GoodTree, E

-----------------------------------------------------------------------------
(* The recursion of build_absolute_path, for any collection of nodes. *)
PathEq(D, g) ==
    g = [d \in DOMAIN D |->
            IF D[d].parent = NULL \/ d = Root THEN <<>>
            ELSE Append(g[D[d].parent], D[d].name)]

LEMMA BuildDef == build_absolute_path = CHOOSE g : PathEq(dirs, g)
  BY DEF build_absolute_path, PathEq

LEMMA BuildDefNext == build_absolute_path' = CHOOSE g : PathEq(dirs', g)
  BY DEF build_absolute_path, PathEq

(* In a tree it has one solution: by induction on the length of the paths. *)
LEMMA PathsUnique ==
    ASSUME NEW D, GoodTree(D), NEW f, IsPaths(D, f), NEW g, PathEq(D, g)
    PROVE  g = f
<1>. DEFINE S == {n \in Nat : \A d \in DOMAIN D : Len(f[d]) = n => g[d] = f[d]}
<1>1. NodesOK(D) /\ Linked(D)
  BY DEF GoodTree
<1>2. /\ f \in [DOMAIN D -> Seq(STRING)]
      /\ f[Root] = <<>>
      /\ \A d \in DOMAIN D \ {Root} : f[d] = Append(f[D[d].parent], D[d].name)
  BY DEF IsPaths
<1>3. /\ g = [d \in DOMAIN D |-> g[d]]
      /\ \A d \in DOMAIN D : g[d] = IF D[d].parent = NULL \/ d = Root THEN <<>>
                                     ELSE Append(g[D[d].parent], D[d].name)
  BY DEF PathEq
<1>4. ASSUME NEW d \in DOMAIN D \ {Root}
      PROVE  /\ D[d].parent \in DOMAIN D /\ D[d].parent # NULL
             /\ f[d] \in Seq(STRING) /\ f[D[d].parent] \in Seq(STRING)
             /\ Len(f[d]) = Len(f[D[d].parent]) + 1
             /\ g[d] = Append(g[D[d].parent], D[d].name)
  <2>1. D[d].parent \in DOMAIN D /\ D[d].parent \in DirIds
    BY <1>1, NodeTypes DEF Linked
  <2>2. D[d].parent # NULL
    BY <2>1, RamfsAssumption
  <2>3. f[d] \in Seq(STRING) /\ f[D[d].parent] \in Seq(STRING) /\ D[d].name \in STRING
    BY <1>1, <1>2, <2>1, NameType
  <2>4. Len(f[d]) = Len(f[D[d].parent]) + 1
    <3>. DEFINE s == f[D[d].parent]
                m == D[d].name
    <3>1. f[d] = Append(s, m) /\ s \in Seq(STRING)
      BY <1>2, <2>3
    <3>2. Len(Append(s, m)) = Len(s) + 1
      <4>. HIDE DEF s, m
      <4>. QED BY <3>1
    <3>. QED BY <3>1, <3>2
  <2>. QED BY <2>1, <2>2, <2>3, <2>4, <1>3
<1>5. f[Root] = <<>> /\ g[Root] = <<>> /\ Root \in DOMAIN D
  BY <1>1, <1>2, <1>3 DEF Linked
<1>6. 0 \in S
  <2>1. ASSUME NEW d \in DOMAIN D, Len(f[d]) = 0 PROVE g[d] = f[d]
    <3>1. CASE d = Root
      BY <3>1, <1>5
    <3>2. CASE d # Root
      <4>1. Len(f[D[d].parent]) \in Nat /\ Len(f[d]) = Len(f[D[d].parent]) + 1
        BY <3>2, <1>4, LenProperties
      <4>. QED BY <4>1, <2>1
    <3>. QED BY <3>1, <3>2
  <2>. QED BY <2>1
<1>7. ASSUME NEW n \in Nat, n \in S PROVE n + 1 \in S
  <2>1. ASSUME NEW d \in DOMAIN D, Len(f[d]) = n + 1 PROVE g[d] = f[d]
    <3>1. d # Root
      BY <2>1, <1>5
    <3>2. Len(f[D[d].parent]) \in Nat /\ Len(f[d]) = Len(f[D[d].parent]) + 1
      BY <3>1, <1>4, LenProperties
    <3>3. Len(f[D[d].parent]) = n
      BY <3>2, <2>1
    <3>4. g[D[d].parent] = f[D[d].parent]
      BY <3>1, <3>3, <1>4, <1>7
    <3>. QED BY <3>1, <3>4, <1>2, <1>4
  <2>. QED BY <2>1
<1>8. Nat \subseteq S
  <2>. HIDE DEF S
  <2>. QED BY <1>6, <1>7, SetInduction
<1>9. ASSUME NEW d \in DOMAIN D PROVE g[d] = f[d]
  <2>1. Len(f[d]) \in Nat
    BY <1>2, LenProperties
  <2>. QED BY <2>1, <1>8
<1>. QED BY <1>2, <1>3, <1>9

LEMMA PathsAre ==
    ASSUME NEW D, GoodTree(D), NEW f, IsPaths(D, f)
    PROVE  f = CHOOSE g : PathEq(D, g)
<1>1. NodesOK(D) /\ Linked(D)
  BY DEF GoodTree
<1>2. PathEq(D, f)
  <2>1. ASSUME NEW d \in DOMAIN D
        PROVE  f[d] = IF D[d].parent = NULL \/ d = Root THEN <<>>
                      ELSE Append(f[D[d].parent], D[d].name)
    <3>1. CASE d = Root
      BY <3>1 DEF IsPaths
    <3>2. CASE d # Root
      <4>1. D[d].parent \in DOMAIN D
        BY <3>2, <1>1 DEF Linked
      <4>2. D[d].parent # NULL
        BY <4>1, <1>1, RamfsAssumption DEF NodesOK
      <4>. QED BY <3>2, <4>2 DEF IsPaths
    <3>. QED BY <3>1, <3>2
  <2>. QED BY <2>1 DEF IsPaths, PathEq
<1>3. PathEq(D, CHOOSE g : PathEq(D, g))
  BY <1>2
<1>. QED BY <1>3, PathsUnique
-----------------------------------------------------------------------------
(* Walks: the state a walk can be in, one component, and the recursion of  *)
(* get_dir_by_path.                                                        *)
WalkState(D) == {w \in [at : DOMAIN D \cup {NULL}, done : BOOLEAN] : w.at = NULL => w.done}

StepIn(D, w, comp) ==
    IF w.done \/ comp \in {"", "."} THEN w
    ELSE IF comp = ".." THEN
        IF D[w.at].parent = NULL THEN [w EXCEPT !.done = TRUE]
        ELSE [w EXCEPT !.at = D[w.at].parent]
    ELSE IF comp \in DOMAIN D[w.at].foder_map
         THEN [w EXCEPT !.at = D[w.at].foder_map[comp]]
         ELSE [at |-> NULL, done |-> TRUE]

WalkFrom(base, p) == [at |-> IF p.abs THEN Root ELSE base, done |-> FALSE]

WalkEq(D, base, p, w) ==
    w = [k \in 0..Len(p.comps) |->
            IF k = 0 THEN [at |-> IF p.abs THEN Root ELSE base, done |-> FALSE]
            ELSE StepIn(D, w[k - 1], p.comps[k])]

NoPath == [abs |-> FALSE, comps |-> <<"">>]

LEMMA WalkDef ==
    ASSUME NEW base, NEW p, p # NoPath
    PROVE  get_dir_by_path(base, p)
             = (CHOOSE walk : WalkEq(dirs, base, p, walk))[Len(p.comps)].at
  BY Zenon DEF get_dir_by_path, WalkEq, Step, StepIn, NoPath

(* A step leads from a live node to a live node, or fails. *)
LEMMA StepStays ==
    ASSUME NEW D, GoodTree(D), NEW w \in WalkState(D), NEW comp \in STRING
    PROVE  StepIn(D, w, comp) \in WalkState(D)
<1>1. NodesOK(D) /\ Linked(D) /\ NULL \notin DOMAIN D
  BY RamfsAssumption DEF GoodTree, NodesOK
<1>2. /\ w = [at |-> w.at, done |-> w.done] /\ w.at \in DOMAIN D \cup {NULL}
      /\ w.done \in BOOLEAN /\ (w.at = NULL => w.done)
  BY DEF WalkState
<1>3. CASE w.done \/ comp \in {"", "."}
  BY <1>3, Zenon DEF StepIn
<1>4. CASE ~w.done /\ comp \notin {"", "."}
  <2>0. w.at \in DOMAIN D
    BY <1>2, <1>4, Zenon
  <2>1. CASE comp = ".." /\ D[w.at].parent = NULL
    <3>1. StepIn(D, w, comp) = [w EXCEPT !.done = TRUE]
      BY <1>4, <2>1, Zenon DEF StepIn
    <3>. QED BY <3>1, <2>0 DEF WalkState
  <2>2. CASE comp = ".." /\ D[w.at].parent # NULL
    <3>1. StepIn(D, w, comp) = [w EXCEPT !.at = D[w.at].parent]
      BY <1>4, <2>2, Zenon DEF StepIn
    <3>2. D[w.at].parent \in DOMAIN D
      BY <2>0, <2>2, <1>1 DEF Linked
    <3>. QED BY <3>1, <3>2, <1>1 DEF WalkState
  <2>3. CASE comp # ".." /\ comp \in DOMAIN D[w.at].foder_map
    <3>1. StepIn(D, w, comp) = [w EXCEPT !.at = D[w.at].foder_map[comp]]
      BY <1>4, <2>3, Zenon DEF StepIn
    <3>2. D[w.at].foder_map[comp] \in DOMAIN D
      BY <2>0, <2>3, <1>1 DEF Linked
    <3>. QED BY <3>1, <3>2, <1>1 DEF WalkState
  <2>4. CASE comp # ".." /\ comp \notin DOMAIN D[w.at].foder_map
    <3>1. StepIn(D, w, comp) = [at |-> NULL, done |-> TRUE]
      BY <1>4, <2>4, Zenon DEF StepIn
    <3>. QED BY <3>1 DEF WalkState
  <2>. QED BY <2>1, <2>2, <2>3, <2>4, Zenon
<1>. QED BY <1>3, <1>4, Zenon

LEMMA WalkStays ==
    ASSUME NEW D, GoodTree(D), NEW base \in DOMAIN D, NEW p \in Path
    PROVE  LET w == CHOOSE walk : WalkEq(D, base, p, walk)
           IN  /\ WalkEq(D, base, p, w)
               /\ w \in [0..Len(p.comps) -> WalkState(D)]
<1>. DEFINE N == Len(p.comps)
            V == WalkState(D)
            init == [at |-> IF p.abs THEN Root ELSE base, done |-> FALSE]
            next == [x \in V \X (1..N) |-> StepIn(D, x[1], p.comps[x[2]])]
<1>1. N \in Nat /\ p.abs \in BOOLEAN /\ p.comps \in Seq(STRING)
  BY LenProperties DEF Path
<1>2. Root \in DOMAIN D /\ NULL \notin DOMAIN D
  BY RamfsAssumption DEF GoodTree, NodesOK, Linked
<1>3. init \in V
  BY <1>1, <1>2 DEF WalkState
<1>4. next \in [V \X (1..N) -> V]
  <2>. HIDE DEF V
  <2>1. ASSUME NEW x \in V \X (1..N) PROVE StepIn(D, x[1], p.comps[x[2]]) \in V
    <3>1. x[1] \in V /\ x[2] \in 1..N
      OBVIOUS
    <3>2. p.comps[x[2]] \in STRING
      BY <1>1, <3>1
    <3>. QED BY <3>1, <3>2, StepStays DEF V
  <2>. QED BY <2>1
<1>5a. PICK u : IsRun(N, V, init, next, u)
  <2>. HIDE DEF N, V, init, next
  <2>. QED BY <1>1, <1>3, <1>4, Iteration
<1>5. /\ u \in [0..N -> V]
      /\ u[0] = init
      /\ \A j \in 1..N : u[j] = next[<<u[j - 1], j>>]
  <2>. HIDE DEF N, V, init, next
  <2>. QED BY <1>5a DEF IsRun
<1>6. ASSUME NEW j \in 1..N PROVE u[j] = StepIn(D, u[j - 1], p.comps[j])
  <2>1. u[j - 1] \in V
    <3>. HIDE DEF V, N
    <3>. QED BY <1>1, <1>5
  <2>2. next[<<u[j - 1], j>>] = StepIn(D, u[j - 1], p.comps[j])
    <3>. HIDE DEF V, N
    <3>. QED BY <2>1
  <2>. QED BY <1>5, <2>2
<1>7. WalkEq(D, base, p, u)
  <2>. HIDE DEF V, N
  <2>1. ASSUME NEW k \in 0..N PROVE u[k] = IF k = 0 THEN init ELSE StepIn(D, u[k - 1], p.comps[k])
    BY <1>1, <1>5, <1>6
  <2>2. u = [k \in 0..N |-> IF k = 0 THEN init ELSE StepIn(D, u[k - 1], p.comps[k])]
    BY <1>5, <2>1
  <2>. QED BY <2>2 DEF WalkEq, N
<1>. DEFINE w == CHOOSE walk : WalkEq(D, base, p, walk)
<1>8. WalkEq(D, base, p, w)
  BY <1>7
<1>. HIDE DEF w
<1>9. /\ w = [k \in 0..N |-> w[k]]
      /\ w[0] = init
      /\ \A k \in 1..N : w[k] = StepIn(D, w[k - 1], p.comps[k])
  <2>1. w = [k \in 0..N |-> IF k = 0 THEN init ELSE StepIn(D, w[k - 1], p.comps[k])]
    BY <1>8, Zenon DEF WalkEq
  <2>. HIDE DEF N, init
  <2>. QED BY <1>1, <2>1
<1>. DEFINE S == {k \in Nat : k <= N => w[k] \in V}
<1>10. 0 \in S
  <2>. HIDE DEF V, init
  <2>. QED BY <1>3, <1>9
<1>11. ASSUME NEW k \in Nat, k \in S PROVE k + 1 \in S
  <2>1. SUFFICES ASSUME k + 1 <= N PROVE w[k + 1] \in V
    OBVIOUS
  <2>2. w[k] \in V
    BY <1>1, <1>11, <2>1
  <2>3. w[k + 1] = StepIn(D, w[k], p.comps[k + 1])
    <3>1. k + 1 \in 1..N /\ (k + 1) - 1 = k
      BY <1>1, <2>1
    <3>. HIDE DEF N
    <3>. QED BY <3>1, <1>9
  <2>4. p.comps[k + 1] \in STRING
    BY <1>1, <2>1
  <2>. QED BY <2>2, <2>3, <2>4, StepStays
<1>12. Nat \subseteq S
  <2>. HIDE DEF S
  <2>. QED BY <1>10, <1>11, SetInduction
<1>13. \A k \in 0..N : w[k] \in V
  <2>. HIDE DEF V
  <2>. QED BY <1>1, <1>12
<1>14. w \in [0..N -> V]
  <2>. HIDE DEF V, N
  <2>. QED BY <1>9, <1>13
<1>. QED BY <1>8, <1>14 DEF w

(* Every path leads to a live node or nowhere. *)
LEMMA WalkResolves ==
    ASSUME GoodTree(dirs), NEW base \in DOMAIN dirs, NEW p \in Path
    PROVE  get_dir_by_path(base, p) \in DOMAIN dirs \cup {NULL}
<1>1. CASE p = NoPath
  <2>1. get_dir_by_path(base, p) = NULL
    BY <1>1, Zenon DEF get_dir_by_path, NoPath
  <2>. QED BY <2>1
<1>2. CASE p # NoPath
  <2>. DEFINE w == CHOOSE walk : WalkEq(dirs, base, p, walk)
  <2>1. w \in [0..Len(p.comps) -> WalkState(dirs)]
    BY WalkStays
  <2>2. get_dir_by_path(base, p) = w[Len(p.comps)].at
    BY <1>2, WalkDef
  <2>3. Len(p.comps) \in 0..Len(p.comps)
    BY LenProperties DEF Path
  <2>. HIDE DEF w
  <2>4. w[Len(p.comps)] \in WalkState(dirs)
    BY <2>1, <2>3
  <2>. QED BY <2>2, <2>4 DEF WalkState
<1>. QED BY <1>1, <1>2
-----------------------------------------------------------------------------
(* The inductive invariant.  A working directory and a mkdir -p in         *)
(* progress hold on to live nodes, and current_path is the path of the     *)
(* working directory among paths that the tree has.                        *)
CwdOK ==
    /\ current_dir \in DOMAIN dirs
    /\ \E f : IsPaths(dirs, f) /\ current_path = f[current_dir]
    /\ Len(current_path) <= PwdRoom => pwd = current_path

JobOK == job # NULL => job \in [path : Path, todo : Seq(STRING), at : DOMAIN dirs]

HeapOK == DOMAIN heap \subseteq Blocks

FsInv == GoodTree(dirs) /\ CwdOK /\ JobOK /\ HeapOK

LEMMA BuildIs ==
    ASSUME GoodTree(dirs), NEW f, IsPaths(dirs, f)
    PROVE  build_absolute_path = f
  BY BuildDef, PathsAre

LEMMA InvImplies == FsInv => NamespaceSound
<1>. SUFFICES ASSUME FsInv PROVE NamespaceSound
  OBVIOUS
<1>1. GoodTree(dirs) /\ CwdOK /\ HeapOK
  BY DEF FsInv
<1>2. NodesOK(dirs) /\ Linked(dirs) /\ Exclusive(dirs)
  BY <1>1 DEF GoodTree
<1>3. current_dir \in DOMAIN dirs /\ DOMAIN dirs \subseteq DirIds
  BY <1>1, <1>2 DEF CwdOK, NodesOK
<1>4. ASSUME NEW d \in DOMAIN dirs PROVE NodeOK(d)
  <2>1. /\ dirs[d] \in Node
        /\ dirs[d].parent \in DirIds \cup {NULL}
        /\ dirs[d].foder_map \in Table(DirIds)
        /\ dirs[d].file_map \in Table(FileInfo)
    BY <1>2, NodeTypes
  <2>2. DOMAIN dirs[d] = {"name", "parent", "foder_map", "file_map"}
    BY <2>1 DEF Node
  <2>3. dirs[d].foder_map \in [DOMAIN dirs[d].foder_map -> DirIds]
    BY <2>1, TableFacts
  <2>4. dirs[d].file_map \in [DOMAIN dirs[d].file_map -> FileInfo]
    BY <2>1, TableFacts
  <2>. QED BY <2>1, <2>2, <2>3, <2>4 DEF NodeOK
<1>5. TypeOK
  BY <1>1, <1>3, <1>4 DEF TypeOK, HeapOK
<1>6. TreeSound
  BY <1>2 DEF TreeSound, Linked
<1>7. CwdSound
  <2>1. PICK f : IsPaths(dirs, f) /\ current_path = f[current_dir]
    BY <1>1 DEF CwdOK
  <2>2. build_absolute_path = f
    BY <1>1, <2>1, BuildIs
  <2>. QED BY <1>1, <2>1, <2>2 DEF CwdSound, CwdOK
<1>8. PathsResolve
  BY <1>1, <1>3, WalkResolves, RamfsAssumption DEF PathsResolve
<1>9. NamesExclusive
  BY <1>2 DEF NamesExclusive, Exclusive
<1>. QED BY <1>5, <1>6, <1>7, <1>8, <1>9 DEF NamespaceSound

LEMMA InitHolds == Init => FsInv
<1>. SUFFICES ASSUME Init PROVE FsInv
  OBVIOUS
<1>. DEFINE r == [name |-> "/", parent |-> NULL, foder_map |-> Empty, file_map |-> Empty]
<1>1. r \in Node /\ DOMAIN r.foder_map = {} /\ r.parent = NULL
  <2>1. Empty \in Table(DirIds) /\ Empty \in Table(FileInfo) /\ DOMAIN Empty = {}
    BY EmptyTable
  <2>2. r \in Node
    BY <2>1 DEF Node
  <2>. QED BY <2>1, <2>2
<1>2. DOMAIN dirs = {Root} /\ dirs[Root] = r /\ dirs = [d \in {Root} |-> r]
  <2>. HIDE DEF r
  <2>1. dirs = Bind(Empty, Root, r)
    BY DEF Init, r
  <2>2. DOMAIN Empty = {}
    BY EmptyTable
  <2>. QED BY <2>1, <2>2 DEF Bind
<1>. HIDE DEF r
<1>3. NodesOK(dirs)
  BY <1>1, <1>2, RamfsAssumption DEF NodesOK
<1>4. Linked(dirs)
  BY <1>1, <1>2 DEF Linked
<1>5. Exclusive(dirs)
  BY <1>1, <1>2 DEF Exclusive
<1>6. IsPaths(dirs, [d \in {Root} |-> <<>>])
  BY <1>2 DEF IsPaths
<1>7. CwdOK
  <2>1. current_dir = Root /\ current_path = <<>> /\ pwd = <<>>
    BY DEF Init
  <2>2. [d \in {Root} |-> <<>>][Root] = <<>>
    OBVIOUS
  <2>. QED BY <1>2, <1>6, <2>1, <2>2 DEF CwdOK
<1>8. JobOK
  BY DEF Init, JobOK
<1>9. HeapOK
  <2>1. heap = Empty
    BY DEF Init
  <2>. QED BY <2>1 DEF HeapOK, Empty
<1>. QED BY <1>3, <1>4, <1>5, <1>7, <1>8, <1>9 DEF FsInv, GoodTree
-----------------------------------------------------------------------------
(* The invariant is kept by each kind of step. *)
LEMMA SameState ==
    ASSUME FsInv, UNCHANGED <<dirs, heap, current_dir, current_path, pwd, job>>
    PROVE  FsInv'
  BY DEF FsInv, CwdOK, JobOK, HeapOK

LEMMA ReturnStep == ASSUME FsInv, NEW call, NEW ret, Return(call, ret) PROVE FsInv'
  BY SameState DEF Return

(* A new directory. *)
LEMMA AddDirStep ==
    ASSUME FsInv, NEW p \in DOMAIN dirs, NEW n \in STRING, ~NameTaken(p, n), AddDir(p, n),
           UNCHANGED <<current_dir, current_path, pwd>>
    PROVE  /\ GoodTree(dirs')
           /\ CwdOK'
           /\ DOMAIN dirs' = DOMAIN dirs \cup {NewDir}
<1>. DEFINE c == NewDir
<1>1. GoodTree(dirs) /\ CwdOK
  BY DEF FsInv
<1>2. c \in DirIds \ DOMAIN dirs
  BY DEF AddDir, NewDir
<1>3. dirs' = AddChild(dirs, p, n, c)
  <2>. HIDE DEF c
  <2>. QED BY DEF AddDir, AddChild, c
<1>. HIDE DEF c
<1>4. n \notin DOMAIN dirs[p].foder_map /\ n \notin DOMAIN dirs[p].file_map
  BY DEF NameTaken
<1>5. GoodTree(dirs')
  BY <1>1, <1>2, <1>3, <1>4, AddChildTree
<1>6. PICK f : IsPaths(dirs, f) /\ current_path = f[current_dir]
  BY <1>1 DEF CwdOK
<1>. DEFINE g == Bind(f, c, Append(f[p], n))
<1>7. IsPaths(dirs', g)
  BY <1>1, <1>2, <1>3, <1>4, <1>6, AddChildPaths
<1>8. current_dir \in DOMAIN dirs /\ DOMAIN f = DOMAIN dirs /\ current_dir # c
  BY <1>1, <1>2, <1>6 DEF CwdOK, IsPaths
<1>9. g[current_dir] = f[current_dir]
  BY <1>8 DEF Bind
<1>10. DOMAIN dirs' = DOMAIN dirs \cup {c}
  <2>1. IsAddChild(dirs, p, n, c, dirs')
    BY <1>1, <1>2, <1>3, AddChildFacts DEF GoodTree
  <2>. QED BY <2>1 DEF IsAddChild
<1>11. CwdOK'
  <2>. HIDE DEF g
  <2>1. current_path' = g[current_dir']
    BY <1>6, <1>9
  <2>2. \E h : IsPaths(dirs', h) /\ current_path' = h[current_dir']
    BY <2>1, <1>7
  <2>. QED BY <2>2, <1>1, <1>8, <1>10 DEF CwdOK
<1>. QED BY <1>5, <1>10, <1>11 DEF c

(* New files in one directory. *)
LEMMA FilesStep ==
    ASSUME FsInv, NEW p \in DOMAIN dirs, NEW g \in Table(FileInfo),
           \A n \in DOMAIN g : n \notin DOMAIN dirs[p].foder_map,
           dirs' = SetFiles(dirs, p, g), HeapOK',
           UNCHANGED <<current_dir, current_path, pwd, job>>
    PROVE  FsInv'
<1>1. GoodTree(dirs) /\ CwdOK /\ JobOK
  BY DEF FsInv
<1>2. /\ IsSetFiles(dirs, p, g, dirs')
      /\ GoodTree(dirs')
      /\ \A f : IsPaths(dirs, f) => IsPaths(dirs', f)
  BY <1>1, SetFilesTree
<1>3. DOMAIN dirs' = DOMAIN dirs
  BY <1>2 DEF IsSetFiles
<1>4. PICK f : IsPaths(dirs, f) /\ current_path = f[current_dir]
  BY <1>1 DEF CwdOK
<1>5. IsPaths(dirs', f) /\ current_path' = f[current_dir']
  BY <1>2, <1>4
<1>6. CwdOK'
  BY <1>1, <1>3, <1>5 DEF CwdOK
<1>7. JobOK'
  BY <1>1, <1>3 DEF JobOK
<1>. QED BY <1>2, <1>6, <1>7 DEF FsInv

(* Changing one entry of a table that has it. *)
SetEntry(D, p, n, info) == [D EXCEPT ![p].file_map[n] = info]

IsSetEntry(D, p, n, info, E) ==
    \E g \in Table(FileInfo) :
        /\ E = SetFiles(D, p, g)
        /\ g = Bind(D[p].file_map, n, info)
        /\ DOMAIN g = DOMAIN D[p].file_map
        /\ \A m \in DOMAIN g : m \notin DOMAIN D[p].foder_map

LEMMA SetEntryFacts ==
    ASSUME NEW D, GoodTree(D), NEW p \in DOMAIN D, NEW n \in DOMAIN D[p].file_map,
           NEW info \in FileInfo
    PROVE  IsSetEntry(D, p, n, info, SetEntry(D, p, n, info))
<1>. DEFINE t == D[p].file_map
            g == Bind(t, n, info)
<1>1. t \in Table(FileInfo)
  BY NodeTypes DEF GoodTree
<1>2. DOMAIN t \subseteq STRING /\ t \in [DOMAIN t -> FileInfo]
  <2>. HIDE DEF t
  <2>. QED BY <1>1, TableFacts
<1>3. g \in Table(FileInfo) /\ DOMAIN g = DOMAIN t /\ g = [t EXCEPT ![n] = info]
  <2>. HIDE DEF t
  <2>1. n \in DOMAIN t
    BY DEF t
  <2>2. g \in Table(FileInfo)
    BY <1>1, <1>2, <2>1, TableBind
  <2>. QED BY <1>2, <2>1, <2>2 DEF Bind
<1>4. SetEntry(D, p, n, info) = [D EXCEPT ![p].file_map = [t EXCEPT ![n] = info]]
  BY DEF SetEntry
<1>5. SetEntry(D, p, n, info) = SetFiles(D, p, g)
  BY <1>3, <1>4 DEF SetFiles
<1>6. \A m \in DOMAIN t : m \notin DOMAIN D[p].foder_map
  BY DEF GoodTree, Exclusive
<1>7. g = Bind(D[p].file_map, n, info)
  OBVIOUS
<1>. HIDE DEF g
<1>8. DOMAIN g = DOMAIN D[p].file_map /\ \A m \in DOMAIN g : m \notin DOMAIN D[p].foder_map
  BY <1>3, <1>6
<1>. QED BY <1>3, <1>5, <1>7, <1>8 DEF IsSetEntry

LEMMA EntryStep ==
    ASSUME FsInv, NEW p \in DOMAIN dirs, NEW n \in DOMAIN dirs[p].file_map,
           NEW info \in FileInfo,
           dirs' = SetEntry(dirs, p, n, info), HeapOK',
           UNCHANGED <<current_dir, current_path, pwd, job>>
    PROVE  FsInv'
<1>1. GoodTree(dirs)
  BY DEF FsInv
<1>2. IsSetEntry(dirs, p, n, info, dirs')
  BY <1>1, SetEntryFacts
<1>3. PICK g \in Table(FileInfo) :
        /\ dirs' = SetFiles(dirs, p, g)
        /\ \A m \in DOMAIN g : m \notin DOMAIN dirs[p].foder_map
  BY <1>2 DEF IsSetEntry
<1>. QED BY <1>3, FilesStep

(* What free and a new block leave of the heap. *)
LEMMA HeapSteps ==
    ASSUME HeapOK
    PROVE  /\ \A ptr : DOMAIN free_data(ptr) \subseteq DOMAIN heap
           /\ \A b, data : DOMAIN Bind(heap, b, data) = DOMAIN heap \cup {b}
  BY DEF free_data, Bind, Unbind
-----------------------------------------------------------------------------
(* The commands. *)
LEMMA MkdirStep == ASSUME FsInv, NEW n \in Names, fs_mkdir(n) PROVE FsInv'
<1>. DEFINE call == <<"mkdir", n>>
            made == /\ job = NULL
                    /\ ~NameTaken(current_dir, n)
                    /\ AddDir(current_dir, n)
                    /\ UNCHANGED <<heap, current_dir, current_path, pwd, job>>
<1>1. (\E ret : Return(call, ret)) \/ made
  BY DEF fs_mkdir
<1>2. CASE \E ret : Return(call, ret)
  BY <1>2, ReturnStep
<1>3. CASE made
  <2>1. current_dir \in DOMAIN dirs /\ n \in STRING
    BY RamfsAssumption DEF FsInv, CwdOK
  <2>2. GoodTree(dirs') /\ CwdOK'
    BY <1>3, <2>1, AddDirStep
  <2>3. JobOK' /\ HeapOK'
    BY <1>3 DEF FsInv, JobOK, HeapOK
  <2>. QED BY <2>2, <2>3 DEF FsInv
<1>. QED BY <1>1, <1>2, <1>3

LEMMA MkdirPStep == ASSUME FsInv, NEW p \in DeepPaths, mkdir_p(p) PROVE FsInv'
<1>1. p.comps \in Seq(STRING) /\ p \in Path
  BY RamfsAssumption DEF Path
<1>2. Root \in DOMAIN dirs /\ current_dir \in DOMAIN dirs
  BY DEF FsInv, GoodTree, Linked, CwdOK
<1>3. PICK d \in DOMAIN dirs : job' = [path |-> p, todo |-> p.comps, at |-> d]
  <2>. DEFINE d == IF p.abs THEN Root ELSE current_dir
  <2>1. job' = [path |-> p, todo |-> p.comps, at |-> d]
    BY Zenon DEF mkdir_p
  <2>2. d \in DOMAIN dirs
    BY <1>2, Zenon
  <2>. HIDE DEF d
  <2>. QED BY <2>1, <2>2
<1>4. job' \in [path : Path, todo : Seq(STRING), at : DOMAIN dirs]
  BY <1>1, <1>3
<1>5. UNCHANGED <<dirs, heap, current_dir, current_path, pwd>>
  BY Zenon DEF mkdir_p
<1>6. GoodTree(dirs') /\ CwdOK' /\ HeapOK'
  BY <1>5 DEF FsInv, CwdOK, HeapOK
<1>7. JobOK'
  BY <1>4, <1>5 DEF JobOK
<1>. QED BY <1>6, <1>7 DEF FsInv

LEMMA MkdirPStepStep == ASSUME FsInv, mkdir_p_step PROVE FsInv'
<1>. DEFINE comp == Head(job.todo)
            Job(D) == [path : Path, todo : Seq(STRING), at : DOMAIN D]
<1>1. job \in Job(dirs) /\ job.todo \in Seq(STRING) /\ job.todo # <<>>
  <2>1. job # NULL /\ ~mkdir_p_ended
    BY Zenon DEF mkdir_p_step
  <2>2. job \in Job(dirs)
    BY <2>1 DEF FsInv, JobOK
  <2>3. job.todo # <<>>
    BY <2>1, Zenon DEF mkdir_p_ended
  <2>. QED BY <2>2, <2>3
<1>2. job.at \in DOMAIN dirs /\ comp \in STRING /\ Tail(job.todo) \in Seq(STRING)
  BY <1>1
<1>3. UNCHANGED <<heap, current_dir, current_path, pwd>>
  BY DEF mkdir_p_step
<1>4. HeapOK'
  BY <1>3 DEF FsInv, HeapOK
<1>5. \/ job' = [job EXCEPT !.todo = Tail(@)] /\ dirs' = dirs
      \/ /\ comp \in DOMAIN dirs[job.at].foder_map
         /\ job' = [job EXCEPT !.todo = Tail(@), !.at = dirs[job.at].foder_map[comp]]
         /\ dirs' = dirs
      \/ /\ ~NameTaken(job.at, comp)
         /\ AddDir(job.at, comp)
         /\ job' = [job EXCEPT !.todo = Tail(@), !.at = NewDir]
  BY DEF mkdir_p_step
<1>. HIDE DEF comp
<1>6. CASE job' = [job EXCEPT !.todo = Tail(@)] /\ dirs' = dirs
  <2>1. job' \in Job(dirs')
    BY <1>1, <1>2, <1>6
  <2>2. JobOK'
    BY <2>1 DEF JobOK
  <2>3. GoodTree(dirs') /\ CwdOK'
    BY <1>3, <1>6 DEF FsInv, CwdOK
  <2>. QED BY <2>2, <2>3, <1>4 DEF FsInv
<1>7. CASE /\ comp \in DOMAIN dirs[job.at].foder_map
           /\ job' = [job EXCEPT !.todo = Tail(@), !.at = dirs[job.at].foder_map[comp]]
           /\ dirs' = dirs
  <2>0. dirs[job.at].foder_map[comp] \in DOMAIN dirs
    BY <1>2, <1>7 DEF FsInv, GoodTree, Linked
  <2>1. job' \in Job(dirs')
    BY <1>1, <1>2, <1>7, <2>0
  <2>2. JobOK'
    BY <2>1 DEF JobOK
  <2>3. GoodTree(dirs') /\ CwdOK'
    BY <1>3, <1>7 DEF FsInv, CwdOK
  <2>. QED BY <2>2, <2>3, <1>4 DEF FsInv
<1>8. CASE /\ ~NameTaken(job.at, comp)
           /\ AddDir(job.at, comp)
           /\ job' = [job EXCEPT !.todo = Tail(@), !.at = NewDir]
  <2>1. GoodTree(dirs') /\ CwdOK' /\ DOMAIN dirs' = DOMAIN dirs \cup {NewDir}
    BY <1>2, <1>3, <1>8, AddDirStep
  <2>2. job' \in Job(dirs')
    BY <1>1, <1>2, <1>8, <2>1
  <2>3. JobOK'
    BY <2>2 DEF JobOK
  <2>. QED BY <2>1, <2>3, <1>4 DEF FsInv
<1>. QED BY <1>5, <1>6, <1>7, <1>8

LEMMA MkdirPReturnStep == ASSUME FsInv, mkdir_p_return PROVE FsInv'
<1>1. job' = NULL /\ UNCHANGED <<dirs, heap, current_dir, current_path, pwd>>
  BY Zenon DEF mkdir_p_return
<1>. QED BY <1>1 DEF FsInv, CwdOK, JobOK, HeapOK

LEMMA RmdirStep == ASSUME FsInv, NEW n \in Names, fs_rmdir(n) PROVE FsInv'
<1>. DEFINE call == <<"rmdir", n>>
            p == current_dir
            c == dirs[current_dir].foder_map[n]
            gone == /\ job = NULL
                    /\ n \in DOMAIN dirs[p].foder_map
                    /\ dirs[c].foder_map = Empty
                    /\ dirs' = DropChild(dirs, p, n)
                    /\ UNCHANGED <<heap, current_dir, current_path, pwd, job>>
<1>1. (\E ret : Return(call, ret)) \/ gone
  BY DEF fs_rmdir, DropChild
<1>2. CASE \E ret : Return(call, ret)
  BY <1>2, ReturnStep
<1>3. CASE gone
  <2>1. GoodTree(dirs) /\ CwdOK /\ p \in DOMAIN dirs
    BY DEF FsInv, CwdOK
  <2>2. DOMAIN dirs[c].foder_map = {}
    BY <1>3, EmptyTable
  <2>. HIDE DEF c
  <2>3. /\ c \in DOMAIN dirs \ {Root, p}
        /\ IsDropChild(dirs, p, n, c, dirs')
        /\ GoodTree(dirs')
        /\ \A f : IsPaths(dirs, f) => IsPaths(dirs', Unbind(f, c))
    BY <1>3, <2>1, <2>2, DropChildTree DEF c
  <2>4. DOMAIN dirs' = DOMAIN dirs \ {c}
    BY <2>3 DEF IsDropChild
  <2>5. PICK f : IsPaths(dirs, f) /\ current_path = f[current_dir]
    BY <2>1 DEF CwdOK
  <2>6. IsPaths(dirs', Unbind(f, c)) /\ Unbind(f, c)[p] = f[p]
    <3>1. DOMAIN f = DOMAIN dirs
      BY <2>5 DEF IsPaths
    <3>. QED BY <3>1, <2>1, <2>3, <2>5 DEF Unbind
  <2>7. current_path' = Unbind(f, c)[current_dir']
    BY <1>3, <2>5, <2>6
  <2>8. CwdOK'
    BY <1>3, <2>1, <2>3, <2>4, <2>6, <2>7 DEF CwdOK
  <2>9. JobOK' /\ HeapOK'
    BY <1>3 DEF FsInv, JobOK, HeapOK
  <2>. QED BY <2>3, <2>8, <2>9 DEF FsInv
<1>. QED BY <1>1, <1>2, <1>3

LEMMA CdStep == ASSUME FsInv, NEW p \in Paths, fs_cd(p) PROVE FsInv'
<1>1. \/ Return(<<"cd", p>>, "noparent")
      \/ /\ \E target \in DOMAIN dirs :
              /\ current_dir' = target
              /\ current_path' = build_absolute_path[target]
              /\ pwd' = env_value(build_absolute_path[target])
         /\ UNCHANGED <<dirs, heap, job>>
  BY Zenon DEF fs_cd
<1>2. CASE Return(<<"cd", p>>, "noparent")
  BY <1>2, ReturnStep
<1>3. CASE /\ \E target \in DOMAIN dirs :
                /\ current_dir' = target
                /\ current_path' = build_absolute_path[target]
                /\ pwd' = env_value(build_absolute_path[target])
           /\ UNCHANGED <<dirs, heap, job>>
  <2>1. GoodTree(dirs) /\ CwdOK
    BY DEF FsInv
  <2>2. PICK f : IsPaths(dirs, f)
    BY <2>1 DEF CwdOK
  <2>3. build_absolute_path = f
    BY <2>1, <2>2, BuildIs
  <2>4. /\ current_dir' \in DOMAIN dirs'
        /\ current_path' = f[current_dir'] /\ IsPaths(dirs', f)
        /\ pwd' = env_value(current_path')
    BY <1>3, <2>2, <2>3
  <2>5. CwdOK'
    BY <2>4 DEF CwdOK, env_value
  <2>. QED BY <1>3, <2>1, <2>5 DEF FsInv, JobOK, HeapOK
<1>. QED BY <1>1, <1>2, <1>3
(* touch, rm, write and backspace: the file table of one directory, and    *)
(* the heap.                                                               *)
LEMMA FileName == ASSUME NEW p \in Paths PROVE file_name(p) \in STRING
<1>1. p.comps \in Seq(STRING) /\ p.comps # <<>>
  BY RamfsAssumption DEF Path
<1>2. Len(p.comps) \in 1..Len(p.comps)
  BY <1>1, LenProperties, EmptySeq
<1>. QED BY <1>1, <1>2 DEF file_name, Last

LEMMA TouchStep == ASSUME FsInv, NEW p \in Paths, fs_touch(p) PROVE FsInv'
<1>. DEFINE call == <<"touch", p>>
            n == file_name(p)
            info == [length |-> 0, ptr |-> NULL]
            made(d) == /\ ~NameTaken(d, n)
                       /\ dirs' = [dirs EXCEPT ![d].file_map = Bind(@, n, info)]
                       /\ UNCHANGED <<heap, current_dir, current_path, pwd, job>>
<1>1. (\E ret : Return(call, ret)) \/ \E d \in DOMAIN dirs : made(d)
  BY Zenon DEF fs_touch
<1>2. CASE \E ret : Return(call, ret)
  BY <1>2, ReturnStep
<1>3. ASSUME NEW d \in DOMAIN dirs, made(d) PROVE FsInv'
  <2>. DEFINE g == Bind(dirs[d].file_map, n, info)
  <2>1. GoodTree(dirs) /\ dirs[d].file_map \in Table(FileInfo) /\ n \in STRING
    BY FileName, NodeTypes DEF FsInv, GoodTree
  <2>2. info \in FileInfo
    BY DEF FileInfo
  <2>. HIDE DEF n, info
  <2>3. g \in Table(FileInfo)
    BY <2>1, <2>2, TableBind
  <2>4. \A m \in DOMAIN g : m \notin DOMAIN dirs[d].foder_map
    <3>1. DOMAIN g = DOMAIN dirs[d].file_map \cup {n}
      BY DEF Bind
    <3>2. \A m \in DOMAIN dirs[d].file_map : m \notin DOMAIN dirs[d].foder_map
      BY <2>1 DEF GoodTree, Exclusive
    <3>3. n \notin DOMAIN dirs[d].foder_map
      BY <1>3 DEF NameTaken
    <3>. QED BY <3>1, <3>2, <3>3
  <2>5. dirs' = SetFiles(dirs, d, g)
    BY <1>3 DEF SetFiles
  <2>6. HeapOK'
    BY <1>3 DEF FsInv, HeapOK
  <2>. HIDE DEF g
  <2>. QED BY <1>3, <2>3, <2>4, <2>5, <2>6, FilesStep
<1>. QED BY <1>1, <1>2, <1>3

LEMMA RmStep == ASSUME FsInv, NEW p \in Paths, fs_rm(p) PROVE FsInv'
<1>. DEFINE call == <<"rm", p>>
            n == file_name(p)
            gone(d) == /\ heap' = free_data(dirs[d].file_map[n].ptr)
                       /\ dirs' = [dirs EXCEPT ![d].file_map = Unbind(@, n)]
                       /\ UNCHANGED <<current_dir, current_path, pwd, job>>
<1>1. (\E ret : Return(call, ret)) \/ \E d \in DOMAIN dirs : gone(d)
  BY Zenon DEF fs_rm
<1>2. CASE \E ret : Return(call, ret)
  BY <1>2, ReturnStep
<1>3. ASSUME NEW d \in DOMAIN dirs, gone(d) PROVE FsInv'
  <2>. DEFINE g == Unbind(dirs[d].file_map, n)
  <2>1. GoodTree(dirs) /\ dirs[d].file_map \in Table(FileInfo) /\ HeapOK
    BY NodeTypes DEF FsInv, GoodTree
  <2>. HIDE DEF n
  <2>3. g \in Table(FileInfo)
    BY <2>1, TableUnbind
  <2>4. \A m \in DOMAIN g : m \notin DOMAIN dirs[d].foder_map
    <3>1. DOMAIN g \subseteq DOMAIN dirs[d].file_map
      BY DEF Unbind
    <3>2. \A m \in DOMAIN dirs[d].file_map : m \notin DOMAIN dirs[d].foder_map
      BY <2>1 DEF GoodTree, Exclusive
    <3>. QED BY <3>1, <3>2
  <2>5. dirs' = SetFiles(dirs, d, g)
    BY <1>3 DEF SetFiles
  <2>6. HeapOK'
    BY <1>3, <2>1, HeapSteps DEF HeapOK
  <2>. HIDE DEF g
  <2>. QED BY <1>3, <2>3, <2>4, <2>5, <2>6, FilesStep
<1>. QED BY <1>1, <1>2, <1>3
(* A file gets the data that a block was allocated for, or none. *)
LEMMA StoreStep ==
    ASSUME FsInv, NEW d \in DOMAIN dirs, NEW n \in DOMAIN dirs[d].file_map,
           NEW old, DOMAIN old \subseteq DOMAIN heap, NEW data \in Seq(STRING),
           StoreData(d, n, old, data),
           UNCHANGED <<current_dir, current_path, pwd, job>>
    PROVE  FsInv'
<1>0. DOMAIN old \subseteq Blocks
  BY DEF FsInv, HeapOK
<1>1. CASE /\ heap' = old
           /\ dirs' = [dirs EXCEPT ![d].file_map[n] = [length |-> 0, ptr |-> NULL]]
  <2>1. [length |-> 0, ptr |-> NULL] \in FileInfo
    BY DEF FileInfo
  <2>2. HeapOK'
    BY <1>0, <1>1 DEF HeapOK
  <2>3. dirs' = SetEntry(dirs, d, n, [length |-> 0, ptr |-> NULL])
    BY <1>1 DEF SetEntry
  <2>. QED BY <2>1, <2>2, <2>3, EntryStep
<1>2. ASSUME NEW b \in Blocks,
             heap' = Bind(old, b, data),
             dirs' = [dirs EXCEPT ![d].file_map[n] = [length |-> Len(data), ptr |-> b]]
      PROVE  FsInv'
  <2>1. [length |-> Len(data), ptr |-> b] \in FileInfo
    BY LenProperties DEF FileInfo
  <2>2. HeapOK'
    BY <1>0, <1>2 DEF HeapOK, Bind
  <2>3. dirs' = SetEntry(dirs, d, n, [length |-> Len(data), ptr |-> b])
    BY <1>2 DEF SetEntry
  <2>. QED BY <2>1, <2>2, <2>3, EntryStep
<1>3. (Blocks \ DOMAIN old # {}) => (CHOOSE x \in Blocks \ DOMAIN old : TRUE) \in Blocks
  OBVIOUS
<1>. QED BY <1>1, <1>2, <1>3 DEF StoreData

LEMMA WriteStep ==
    ASSUME FsInv, NEW n \in Names, NEW data \in Data, fs_write(n, data) PROVE FsInv'
<1>. DEFINE d == current_dir
            old == free_data(dirs[d].file_map[n].ptr)
            call == <<"write", n, data>>
            stored == /\ n \in DOMAIN dirs[d].file_map
                      /\ StoreData(d, n, old, data)
                      /\ UNCHANGED <<current_dir, current_path, pwd, job>>
            failed == /\ heap' = old
                      /\ UNCHANGED <<dirs, current_dir, current_path, pwd, job>>
<1>1. Return(call, "notfound") \/ stored \/ failed
  BY Zenon DEF fs_write
<1>2. d \in DOMAIN dirs /\ HeapOK /\ data \in Seq(STRING)
  BY RamfsAssumption DEF FsInv, CwdOK
<1>3. DOMAIN old \subseteq DOMAIN heap
  BY <1>2, HeapSteps
<1>4. CASE Return(call, "notfound")
  BY <1>4, ReturnStep
<1>. HIDE DEF old
<1>5. CASE stored
  BY <1>2, <1>3, <1>5, StoreStep
<1>6. CASE failed
  <2>1. HeapOK'
    BY <1>2, <1>3, <1>6 DEF HeapOK
  <2>. QED BY <1>6, <2>1 DEF FsInv, CwdOK, JobOK
<1>. QED BY <1>1, <1>4, <1>5, <1>6

(* What backspace leaves of the length. *)
LEMMA NewLen ==
    ASSUME NEW length \in Nat, NEW count \in Nat
    PROVE  new_len(length, count) \in 0..length
  BY DEF new_len

LEMMA BackspaceStep ==
    ASSUME FsInv, NEW p \in Paths, NEW count \in Counts, fs_backspace(p, count) PROVE FsInv'
<1>. DEFINE n == file_name(p)
            call == <<"backspace", p, count>>
            info(d) == dirs[d].file_map[n]
            left(d) == new_len(info(d).length, count)
            b == CHOOSE x \in Blocks \ DOMAIN heap : TRUE
            emptied(d) ==
                /\ n \in DOMAIN dirs[d].file_map
                /\ heap' = free_data(info(d).ptr)
                /\ dirs' = [dirs EXCEPT ![d].file_map[n] = [length |-> 0, ptr |-> NULL]]
                /\ UNCHANGED <<current_dir, current_path, pwd, job>>
            moved(d) ==
                /\ n \in DOMAIN dirs[d].file_map
                /\ Blocks \ DOMAIN heap # {}
                /\ heap' = Unbind(Bind(heap, b, SubSeq(Contents(info(d)), 1, left(d))), info(d).ptr)
                /\ dirs' = [dirs EXCEPT ![d].file_map[n] = [length |-> left(d), ptr |-> b]]
                /\ UNCHANGED <<current_dir, current_path, pwd, job>>
<1>1. \/ \E ret : Return(call, ret)
      \/ \E d \in DOMAIN dirs : emptied(d) \/ moved(d)
  BY ZenonT(60) DEF fs_backspace
<1>2. CASE \E ret : Return(call, ret)
  BY <1>2, ReturnStep
<1>3. GoodTree(dirs) /\ HeapOK
  BY DEF FsInv
<1>4. ASSUME NEW d \in DOMAIN dirs, emptied(d) PROVE FsInv'
  <2>1. [length |-> 0, ptr |-> NULL] \in FileInfo
    BY DEF FileInfo
  <2>2. HeapOK'
    BY <1>3, <1>4, HeapSteps DEF HeapOK
  <2>3. dirs' = SetEntry(dirs, d, n, [length |-> 0, ptr |-> NULL])
    BY <1>4 DEF SetEntry
  <2>4. n \in DOMAIN dirs[d].file_map /\ UNCHANGED <<current_dir, current_path, pwd, job>>
    BY <1>4
  <2>. HIDE DEF n
  <2>. QED BY <2>1, <2>2, <2>3, <2>4, EntryStep
<1>5. ASSUME NEW d \in DOMAIN dirs, moved(d) PROVE FsInv'
  <2>1. n \in DOMAIN dirs[d].file_map /\ UNCHANGED <<current_dir, current_path, pwd, job>>
    BY <1>5
  <2>2. b \in Blocks
    BY <1>5
  <2>3. info(d) \in FileInfo
    <3>1. dirs[d].file_map \in Table(FileInfo)
      BY <1>3, NodeTypes DEF GoodTree
    <3>2. dirs[d].file_map \in [DOMAIN dirs[d].file_map -> FileInfo]
      BY <3>1, TableFacts
    <3>. QED BY <2>1, <3>2
  <2>4. left(d) \in Nat
    <3>1. info(d).length \in Nat /\ count \in Nat
      BY <2>3, RamfsAssumption DEF FileInfo
    <3>2. new_len(info(d).length, count) \in 0..info(d).length
      BY <3>1, NewLen
    <3>. QED BY <3>1, <3>2
  <2>. DEFINE r == [length |-> left(d), ptr |-> b]
              s == SubSeq(Contents(info(d)), 1, left(d))
              q == info(d).ptr
  <2>5. dirs' = SetEntry(dirs, d, n, r) /\ heap' = Unbind(Bind(heap, b, s), q)
    BY <1>5 DEF SetEntry
  <2>. HIDE DEF b, left, s, q, n
  <2>6. r \in FileInfo
    BY <2>2, <2>4 DEF FileInfo
  <2>7. HeapOK'
    BY <1>3, <2>2, <2>5 DEF HeapOK, Bind, Unbind
  <2>. HIDE DEF r
  <2>. QED BY <2>1, <2>5, <2>6, <2>7, EntryStep
<1>. QED BY <1>1, <1>2, <1>4, <1>5

LEMMA CatStep == ASSUME FsInv, NEW n \in Names, fs_cat(n) PROVE FsInv'
<1>1. \E call, ret : Return(call, ret)
  BY Zenon DEF fs_cat
<1>. QED BY <1>1, ReturnStep

LEMMA StepHolds == FsInv /\ [Next]_vars => FsInv'
<1>. SUFFICES ASSUME FsInv, [Next]_vars PROVE FsInv'
  OBVIOUS
<1>1. CASE UNCHANGED vars
  BY <1>1, SameState DEF vars
<1>2. CASE Next
  BY <1>2, MkdirStep, MkdirPStep, MkdirPStepStep, MkdirPReturnStep, RmdirStep, CdStep,
     TouchStep, RmStep, WriteStep, BackspaceStep, CatStep DEF Next
<1>. QED BY <1>1, <1>2

(* The nodes, the name tables, the working directory and a mkdir -p in     *)
(* progress satisfy the inductive invariant in every reachable state.      *)
THEOREM FsInvariant == Spec => []FsInv
<1>. QED BY InitHolds, StepHolds, PTL DEF Spec

(* fs_mkdir, fs_mkdir_api, fs_rmdir, fs_cd, fs_touch, fs_rm, fs_write and  *)
(* fs_backspace, in any order and with any allocation failing, leave one   *)
(* tree of live nodes, a live working directory with the path it claims,   *)
(* walks that end in the tree, and no name taken twice.                    *)
THEOREM NamespaceIsSound == Spec => []NamespaceSound
<1>. QED BY FsInvariant, InvImplies, PTL
-----------------------------------------------------------------------------
(* Data blocks.  Each file's pointer is to a live block of its length, no  *)
(* two files share one, and every block has a file.                        *)
HasFile(D, d, n) == d \in DOMAIN D /\ n \in DOMAIN D[d].file_map
Entry(D, d, n) == D[d].file_map[n]

PtrsOK(D, H) ==
    \A d, n : HasFile(D, d, n) =>
        IF Entry(D, d, n).ptr = NULL THEN Entry(D, d, n).length = 0
        ELSE /\ Entry(D, d, n).ptr \in DOMAIN H
             /\ Entry(D, d, n).length = Len(H[Entry(D, d, n).ptr])

Unshared(D) ==
    \A d, n, e, m :
        /\ HasFile(D, d, n) /\ HasFile(D, e, m)
        /\ Entry(D, d, n).ptr = Entry(D, e, m).ptr /\ Entry(D, d, n).ptr # NULL
        => d = e /\ n = m

NoLeak(D, H) == \A b \in DOMAIN H : \E d, n : HasFile(D, d, n) /\ Entry(D, d, n).ptr = b

BlocksOK(H) == DOMAIN H \subseteq Blocks /\ H \in [DOMAIN H -> Seq(STRING)]

Owned(D, H) == BlocksOK(H) /\ PtrsOK(D, H) /\ Unshared(D) /\ NoLeak(D, H)

(* From D to E only file n of directory p changes, *)
OtherFilesSame(D, E, p, n) ==
    \A d, m : ~(d = p /\ m = n) =>
        /\ HasFile(E, d, m) <=> HasFile(D, d, m)
        /\ HasFile(D, d, m) => Entry(E, d, m) = Entry(D, d, m)

(* where q is the block it had (or NULL) and r the one it has then,        *)
PtrIs(D, p, n, q) == IF HasFile(D, p, n) THEN q = Entry(D, p, n).ptr ELSE q = NULL

(* and from H to K block q goes and block r comes. *)
Exchanged(H, K, q, r) ==
    /\ BlocksOK(K)
    /\ DOMAIN K = (DOMAIN H \ {q}) \cup ({r} \ {NULL})
    /\ r \notin DOMAIN H \ {q}
    /\ \A x \in DOMAIN H \ {q} : K[x] = H[x]

LEMMA OwnedStep ==
    ASSUME NEW D, NEW H, Owned(D, H), NEW E, NEW K, NEW p, NEW n, NEW q, NEW r,
           OtherFilesSame(D, E, p, n), PtrIs(D, p, n, q), PtrIs(E, p, n, r),
           Exchanged(H, K, q, r),
           HasFile(E, p, n) => IF r = NULL THEN Entry(E, p, n).length = 0
                               ELSE Entry(E, p, n).length = Len(K[r])
    PROVE  Owned(E, K)
<1>1. PtrsOK(D, H) /\ Unshared(D) /\ NoLeak(D, H) /\ NULL \notin DOMAIN H
  BY RamfsAssumption DEF Owned, BlocksOK
<1>2. /\ BlocksOK(K)
      /\ DOMAIN K = (DOMAIN H \ {q}) \cup ({r} \ {NULL})
      /\ r \notin DOMAIN H \ {q}
      /\ \A x \in DOMAIN H \ {q} : K[x] = H[x]
  BY DEF Exchanged
<1>3. ASSUME NEW d, NEW m, HasFile(E, d, m), ~(d = p /\ m = n)
      PROVE  /\ HasFile(D, d, m) /\ Entry(E, d, m) = Entry(D, d, m)
             /\ Entry(D, d, m).ptr # NULL => Entry(D, d, m).ptr \in DOMAIN H \ {q}
  <2>1. HasFile(D, d, m) /\ Entry(E, d, m) = Entry(D, d, m)
    BY <1>3 DEF OtherFilesSame
  <2>2. ASSUME Entry(D, d, m).ptr # NULL PROVE Entry(D, d, m).ptr \in DOMAIN H \ {q}
    <3>1. Entry(D, d, m).ptr \in DOMAIN H
      BY <2>1, <2>2, <1>1 DEF PtrsOK
    <3>2. Entry(D, d, m).ptr # q
      BY <2>1, <2>2, <1>1, <1>3 DEF Unshared, PtrIs
    <3>. QED BY <3>1, <3>2
  <2>. QED BY <2>1, <2>2
<1>4. ASSUME HasFile(E, p, n) PROVE Entry(E, p, n).ptr = r
  BY <1>4 DEF PtrIs
<1>5. PtrsOK(E, K)
  <2>1. SUFFICES ASSUME NEW d, NEW m, HasFile(E, d, m)
                 PROVE  IF Entry(E, d, m).ptr = NULL THEN Entry(E, d, m).length = 0
                        ELSE /\ Entry(E, d, m).ptr \in DOMAIN K
                             /\ Entry(E, d, m).length = Len(K[Entry(E, d, m).ptr])
    BY DEF PtrsOK
  <2>2. CASE d = p /\ m = n
    BY <2>1, <2>2, <1>2, <1>4
  <2>3. CASE ~(d = p /\ m = n)
    <3>1. /\ HasFile(D, d, m) /\ Entry(E, d, m) = Entry(D, d, m)
          /\ Entry(D, d, m).ptr # NULL => Entry(D, d, m).ptr \in DOMAIN H \ {q}
      BY <2>1, <2>3, <1>3
    <3>. QED BY <3>1, <1>1, <1>2 DEF PtrsOK
  <2>. QED BY <2>2, <2>3
<1>6. Unshared(E)
  <2>1. SUFFICES ASSUME NEW d, NEW m, NEW e, NEW k, HasFile(E, d, m), HasFile(E, e, k),
                        Entry(E, d, m).ptr = Entry(E, e, k).ptr, Entry(E, d, m).ptr # NULL
                 PROVE  d = e /\ m = k
    BY DEF Unshared
  <2>2. CASE d = p /\ m = n
    <3>1. SUFFICES ASSUME ~(e = p /\ k = n) PROVE FALSE
      BY <2>2
    <3>2. Entry(E, e, k).ptr \in DOMAIN H \ {q}
      BY <2>1, <3>1, <1>3
    <3>. QED BY <2>1, <2>2, <3>2, <1>2, <1>4
  <2>3. CASE e = p /\ k = n
    <3>1. SUFFICES ASSUME ~(d = p /\ m = n) PROVE FALSE
      BY <2>3
    <3>2. Entry(E, d, m).ptr \in DOMAIN H \ {q}
      BY <2>1, <3>1, <1>3
    <3>. QED BY <2>1, <2>3, <3>2, <1>2, <1>4
  <2>4. CASE ~(d = p /\ m = n) /\ ~(e = p /\ k = n)
    <3>1. /\ HasFile(D, d, m) /\ Entry(E, d, m) = Entry(D, d, m)
          /\ HasFile(D, e, k) /\ Entry(E, e, k) = Entry(D, e, k)
      BY <2>1, <2>4, <1>3
    <3>. QED BY <2>1, <3>1, <1>1 DEF Unshared
  <2>. QED BY <2>2, <2>3, <2>4
<1>7. NoLeak(E, K)
  <2>1. SUFFICES ASSUME NEW b \in DOMAIN K
                 PROVE  \E d, m : HasFile(E, d, m) /\ Entry(E, d, m).ptr = b
    BY DEF NoLeak
  <2>2. CASE b = r /\ r # NULL
    BY <2>2 DEF PtrIs
  <2>3. CASE b \in DOMAIN H \ {q}
    <3>1. PICK d, m : HasFile(D, d, m) /\ Entry(D, d, m).ptr = b
      BY <2>3, <1>1 DEF NoLeak
    <3>2. ~(d = p /\ m = n)
      BY <3>1, <2>3 DEF PtrIs
    <3>. QED BY <3>1, <3>2 DEF OtherFilesSame
  <2>. QED BY <2>2, <2>3, <1>2
<1>. QED BY <1>2, <1>5, <1>6, <1>7 DEF Owned

(* Steps that change no file. *)
LEMMA OwnedSame ==
    ASSUME NEW D, NEW H, Owned(D, H), NEW E,
           \A d, n : /\ HasFile(E, d, n) <=> HasFile(D, d, n)
                     /\ HasFile(D, d, n) => Entry(E, d, n) = Entry(D, d, n)
    PROVE  Owned(E, H)
<1>1. BlocksOK(H) /\ PtrsOK(D, H) /\ Unshared(D) /\ NoLeak(D, H)
  BY DEF Owned
<1>2. PtrsOK(E, H)
  BY <1>1 DEF PtrsOK
<1>3. Unshared(E)
  BY <1>1 DEF Unshared
<1>4. NoLeak(E, H)
  BY <1>1 DEF NoLeak
<1>. QED BY <1>1, <1>2, <1>3, <1>4 DEF Owned
(* Binding and removing one file of a directory. *)
LEMMA BindFile ==
    ASSUME NEW D, NEW p \in DOMAIN D, NEW n, NEW info, NEW g, g = Bind(D[p].file_map, n, info),
           NEW E, IsSetFiles(D, p, g, E)
    PROVE  OtherFilesSame(D, E, p, n) /\ HasFile(E, p, n) /\ Entry(E, p, n) = info
<1>1. /\ DOMAIN E = DOMAIN D
      /\ \A d \in DOMAIN D : d # p => E[d] = D[d]
      /\ E[p].file_map = g
  BY DEF IsSetFiles
<1>2. /\ DOMAIN g = DOMAIN D[p].file_map \cup {n}
      /\ g[n] = info
      /\ \A m \in DOMAIN D[p].file_map : m # n => g[m] = D[p].file_map[m]
  BY DEF Bind
<1>3. OtherFilesSame(D, E, p, n)
  BY <1>1, <1>2 DEF OtherFilesSame, HasFile, Entry
<1>. QED BY <1>1, <1>2, <1>3 DEF HasFile, Entry

LEMMA UnbindFile ==
    ASSUME NEW D, NEW p \in DOMAIN D, NEW n, NEW g, g = Unbind(D[p].file_map, n),
           NEW E, IsSetFiles(D, p, g, E)
    PROVE  OtherFilesSame(D, E, p, n) /\ ~HasFile(E, p, n)
<1>1. /\ DOMAIN E = DOMAIN D
      /\ \A d \in DOMAIN D : d # p => E[d] = D[d]
      /\ E[p].file_map = g
  BY DEF IsSetFiles
<1>2. /\ DOMAIN g = DOMAIN D[p].file_map \ {n}
      /\ \A m \in DOMAIN D[p].file_map : m # n => g[m] = D[p].file_map[m]
  BY DEF Unbind
<1>3. OtherFilesSame(D, E, p, n)
  BY <1>1, <1>2 DEF OtherFilesSame, HasFile, Entry
<1>. QED BY <1>1, <1>2, <1>3 DEF HasFile, Entry

(* Freeing a block, and freeing one for another. *)
LEMMA FreeBlock ==
    ASSUME BlocksOK(heap), NEW q
    PROVE  /\ BlocksOK(free_data(q))
           /\ DOMAIN free_data(q) = DOMAIN heap \ {q}
           /\ \A x \in DOMAIN heap \ {q} : free_data(q)[x] = heap[x]
           /\ Exchanged(heap, free_data(q), q, NULL)
<1>1. NULL \notin DOMAIN heap /\ DOMAIN heap \subseteq Blocks /\ heap \in [DOMAIN heap -> Seq(STRING)]
  BY RamfsAssumption DEF BlocksOK
<1>2. /\ DOMAIN free_data(q) = DOMAIN heap \ {q}
      /\ \A x \in DOMAIN heap \ {q} : free_data(q)[x] = heap[x]
  BY <1>1 DEF free_data, Unbind
<1>3. free_data(q) \in [DOMAIN heap \ {q} -> Seq(STRING)]
  <2>1. CASE q = NULL
    BY <1>1, <2>1 DEF free_data
  <2>2. CASE q # NULL
    <3>1. free_data(q) = Unbind(heap, q)
      BY <2>2 DEF free_data
    <3>2. Unbind(heap, q) \in [DOMAIN heap \ {q} -> Seq(STRING)]
      BY <1>1, UnbindType
    <3>. QED BY <3>1, <3>2
  <2>. QED BY <2>1, <2>2
<1>4. BlocksOK(free_data(q))
  BY <1>1, <1>2, <1>3 DEF BlocksOK
<1>. QED BY <1>1, <1>2, <1>4 DEF Exchanged

LEMMA NewBlock ==
    ASSUME NEW H, BlocksOK(H), NEW old, BlocksOK(old), NEW q,
           DOMAIN old = DOMAIN H \ {q}, \A x \in DOMAIN old : old[x] = H[x],
           NEW b \in Blocks, b \notin DOMAIN old, NEW data \in Seq(STRING),
           NEW K, K = Bind(old, b, data)
    PROVE  Exchanged(H, K, q, b) /\ K[b] = data
<1>1. b # NULL /\ DOMAIN old \subseteq Blocks /\ old \in [DOMAIN old -> Seq(STRING)]
  BY RamfsAssumption DEF BlocksOK
<1>2. K \in [DOMAIN old \cup {b} -> Seq(STRING)]
  BY <1>1, BindType
<1>3. /\ DOMAIN K = DOMAIN old \cup {b} /\ K[b] = data
      /\ \A x \in DOMAIN old : K[x] = old[x]
  BY DEF Bind
<1>4. BlocksOK(K)
  BY <1>1, <1>2, <1>3 DEF BlocksOK
<1>5. DOMAIN K = (DOMAIN H \ {q}) \cup ({b} \ {NULL})
  BY <1>1, <1>3
<1>6. \A x \in DOMAIN H \ {q} : K[x] = H[x]
  BY <1>3
<1>7. Exchanged(H, K, q, b)
  BY <1>4, <1>5, <1>6 DEF Exchanged
<1>. QED BY <1>3, <1>7

(* Under Owned, what is read at a file's pointer is its block. *)
LEMMA ContentsAre ==
    ASSUME Owned(dirs, heap), NEW d, NEW n, HasFile(dirs, d, n)
    PROVE  LET info == Entry(dirs, d, n)
           IN  Contents(info) = IF info.ptr = NULL THEN <<>> ELSE heap[info.ptr]
<1>. DEFINE info == Entry(dirs, d, n)
<1>1. CASE info.ptr = NULL
  BY <1>1 DEF Contents
<1>2. CASE info.ptr # NULL
  <2>. DEFINE s == heap[info.ptr]
  <2>1. info.ptr \in DOMAIN heap /\ info.length = Len(s)
    BY <1>2 DEF Owned, PtrsOK
  <2>2. s \in Seq(STRING)
    BY <2>1 DEF Owned, BlocksOK
  <2>3. Contents(info) = [i \in 1..Len(s) |-> s[i]]
    BY <1>2, <2>1 DEF Contents
  <2>4. [i \in 1..Len(s) |-> s[i]] = s
    <3>. HIDE DEF s
    <3>. QED BY <2>2
  <2>. QED BY <1>2, <2>3, <2>4
<1>. QED BY <1>1, <1>2
(* One lemma per kind of step. *)
LEMMA AddDirOwned ==
    ASSUME FsInv, Owned(dirs, heap), NEW p \in DOMAIN dirs, NEW n \in STRING,
           AddDir(p, n), heap' = heap
    PROVE  Owned(dirs', heap')
<1>. DEFINE c == NewDir
<1>1. c \in DirIds \ DOMAIN dirs /\ NodesOK(dirs)
  BY DEF AddDir, NewDir, FsInv, GoodTree
<1>2. dirs' = AddChild(dirs, p, n, c)
  <2>. HIDE DEF c
  <2>. QED BY DEF AddDir, AddChild, c
<1>. HIDE DEF c
<1>3. IsAddChild(dirs, p, n, c, dirs')
  BY <1>1, <1>2, AddChildFacts
<1>4. /\ DOMAIN dirs' = DOMAIN dirs \cup {c}
      /\ DOMAIN dirs'[c].file_map = {}
      /\ \A d \in DOMAIN dirs : dirs'[d].file_map = dirs[d].file_map
  BY <1>3, EmptyTable DEF IsAddChild
<1>5. ASSUME NEW d, NEW m
      PROVE  /\ HasFile(dirs', d, m) <=> HasFile(dirs, d, m)
             /\ HasFile(dirs, d, m) => Entry(dirs', d, m) = Entry(dirs, d, m)
  BY <1>1, <1>4 DEF HasFile, Entry
<1>. QED BY <1>5, OwnedSame

LEMMA RmdirOwned ==
    ASSUME FsInv, Owned(dirs, heap), NEW n \in DOMAIN dirs[current_dir].foder_map,
           dirs[dirs[current_dir].foder_map[n]].foder_map = Empty,
           dirs[dirs[current_dir].foder_map[n]].file_map = Empty,
           dirs' = DropChild(dirs, current_dir, n), heap' = heap
    PROVE  Owned(dirs', heap')
<1>. DEFINE c == dirs[current_dir].foder_map[n]
<1>1. GoodTree(dirs) /\ current_dir \in DOMAIN dirs
  BY DEF FsInv, CwdOK
<1>2. DOMAIN dirs[c].foder_map = {} /\ DOMAIN dirs[c].file_map = {}
  BY EmptyTable
<1>. HIDE DEF c
<1>3. c \in DOMAIN dirs \ {Root, current_dir} /\ IsDropChild(dirs, current_dir, n, c, dirs')
  BY <1>1, <1>2, DropChildTree DEF c
<1>4. /\ DOMAIN dirs' = DOMAIN dirs \ {c}
      /\ \A d \in DOMAIN dirs' : dirs'[d].file_map = dirs[d].file_map
  BY <1>3 DEF IsDropChild
<1>5. ASSUME NEW d, NEW m
      PROVE  /\ HasFile(dirs', d, m) <=> HasFile(dirs, d, m)
             /\ HasFile(dirs, d, m) => Entry(dirs', d, m) = Entry(dirs, d, m)
  BY <1>2, <1>4 DEF HasFile, Entry
<1>. QED BY <1>5, OwnedSame

LEMMA TouchOwned ==
    ASSUME FsInv, Owned(dirs, heap), NEW d \in DOMAIN dirs, NEW n \in STRING,
           ~NameTaken(d, n), heap' = heap,
           dirs' = [dirs EXCEPT ![d].file_map = Bind(@, n, [length |-> 0, ptr |-> NULL])]
    PROVE  Owned(dirs', heap')
<1>. DEFINE info == [length |-> 0, ptr |-> NULL]
            g == Bind(dirs[d].file_map, n, info)
<1>1. NodesOK(dirs) /\ dirs[d].file_map \in Table(FileInfo)
  BY NodeTypes DEF FsInv, GoodTree
<1>2. info \in FileInfo /\ info.ptr = NULL /\ info.length = 0
  BY DEF FileInfo
<1>. HIDE DEF info
<1>3. g \in Table(FileInfo)
  BY <1>1, <1>2, TableBind
<1>4. dirs' = SetFiles(dirs, d, g)
  BY DEF SetFiles, info
<1>5. g = Bind(dirs[d].file_map, n, info)
  OBVIOUS
<1>. HIDE DEF g
<1>5a. IsSetFiles(dirs, d, g, dirs')
  <2>1. IsSetFiles(dirs, d, g, SetFiles(dirs, d, g))
    BY <1>1, <1>3, SetFilesFacts
  <2>. QED BY <1>4, <2>1, Zenon
<1>6. OtherFilesSame(dirs, dirs', d, n) /\ HasFile(dirs', d, n) /\ Entry(dirs', d, n) = info
  BY <1>5, <1>5a, BindFile
<1>7. ~HasFile(dirs, d, n)
  BY DEF HasFile, NameTaken
<1>8. PtrIs(dirs, d, n, NULL) /\ PtrIs(dirs', d, n, NULL)
  BY <1>2, <1>6, <1>7 DEF PtrIs
<1>9. Exchanged(heap, heap', NULL, NULL)
  BY RamfsAssumption DEF Exchanged, Owned, BlocksOK
<1>. QED BY <1>2, <1>6, <1>8, <1>9, OwnedStep

LEMMA RmOwned ==
    ASSUME FsInv, Owned(dirs, heap), NEW d \in DOMAIN dirs, NEW n \in DOMAIN dirs[d].file_map,
           heap' = free_data(dirs[d].file_map[n].ptr),
           dirs' = [dirs EXCEPT ![d].file_map = Unbind(@, n)]
    PROVE  Owned(dirs', heap')
<1>. DEFINE q == dirs[d].file_map[n].ptr
            g == Unbind(dirs[d].file_map, n)
<1>1. NodesOK(dirs) /\ dirs[d].file_map \in Table(FileInfo) /\ BlocksOK(heap)
  BY NodeTypes DEF FsInv, GoodTree, Owned
<1>2. PtrIs(dirs, d, n, q)
  BY DEF PtrIs, HasFile, Entry
<1>3. g \in Table(FileInfo)
  BY <1>1, TableUnbind
<1>4. dirs' = SetFiles(dirs, d, g)
  BY DEF SetFiles
<1>5. g = Unbind(dirs[d].file_map, n)
  OBVIOUS
<1>. HIDE DEF g
<1>5a. IsSetFiles(dirs, d, g, dirs')
  <2>1. IsSetFiles(dirs, d, g, SetFiles(dirs, d, g))
    BY <1>1, <1>3, SetFilesFacts
  <2>. QED BY <1>4, <2>1, Zenon
<1>6. OtherFilesSame(dirs, dirs', d, n) /\ ~HasFile(dirs', d, n)
  BY <1>5, <1>5a, UnbindFile
<1>7. PtrIs(dirs', d, n, NULL)
  BY <1>6 DEF PtrIs
<1>. HIDE DEF q
<1>8. Exchanged(heap, heap', q, NULL)
  BY <1>1, FreeBlock DEF q
<1>. QED BY <1>2, <1>6, <1>7, <1>8, OwnedStep

(* One entry and the heap change together. *)
LEMMA EntryOwned ==
    ASSUME FsInv, Owned(dirs, heap), NEW d \in DOMAIN dirs, NEW n \in DOMAIN dirs[d].file_map,
           NEW info \in FileInfo, dirs' = SetEntry(dirs, d, n, info),
           Exchanged(heap, heap', dirs[d].file_map[n].ptr, info.ptr),
           info.ptr = NULL => info.length = 0,
           info.ptr # NULL => info.length = Len(heap'[info.ptr])
    PROVE  /\ Owned(dirs', heap')
           /\ OtherFilesSame(dirs, dirs', d, n) /\ HasFile(dirs', d, n)
           /\ Entry(dirs', d, n) = info
<1>. DEFINE q == dirs[d].file_map[n].ptr
<1>1. GoodTree(dirs) /\ NodesOK(dirs)
  BY DEF FsInv, GoodTree
<1>2. IsSetEntry(dirs, d, n, info, dirs')
  BY <1>1, SetEntryFacts
<1>3. PICK g \in Table(FileInfo) :
        dirs' = SetFiles(dirs, d, g) /\ g = Bind(dirs[d].file_map, n, info)
  BY <1>2 DEF IsSetEntry
<1>4. IsSetFiles(dirs, d, g, dirs')
  BY <1>1, <1>3, SetFilesFacts
<1>5. OtherFilesSame(dirs, dirs', d, n) /\ HasFile(dirs', d, n) /\ Entry(dirs', d, n) = info
  BY <1>3, <1>4, BindFile
<1>6. PtrIs(dirs, d, n, q) /\ PtrIs(dirs', d, n, info.ptr)
  BY <1>5 DEF PtrIs, HasFile, Entry
<1>. HIDE DEF q
<1>7. Exchanged(heap, heap', q, info.ptr)
  BY DEF q
<1>8. Owned(dirs', heap')
  BY <1>5, <1>6, <1>7, OwnedStep
<1>. QED BY <1>5, <1>8

LEMMA StoreOwned ==
    ASSUME FsInv, Owned(dirs, heap), NEW d \in DOMAIN dirs, NEW n \in DOMAIN dirs[d].file_map,
           NEW data \in Seq(STRING),
           StoreData(d, n, free_data(dirs[d].file_map[n].ptr), data)
    PROVE  /\ Owned(dirs', heap')
           /\ OtherFilesSame(dirs, dirs', d, n) /\ HasFile(dirs', d, n)
           /\ Exchanged(heap, heap', dirs[d].file_map[n].ptr, Entry(dirs', d, n).ptr)
           /\ IF data = <<>> THEN Entry(dirs', d, n).ptr = NULL
              ELSE Entry(dirs', d, n).ptr # NULL /\ heap'[Entry(dirs', d, n).ptr] = data
<1>. DEFINE q == dirs[d].file_map[n].ptr
            old == free_data(q)
<1>1. BlocksOK(heap)
  BY DEF Owned
<1>2. /\ BlocksOK(old) /\ DOMAIN old = DOMAIN heap \ {q}
      /\ \A x \in DOMAIN old : old[x] = heap[x]
      /\ Exchanged(heap, old, q, NULL)
  BY <1>1, FreeBlock
<1>3. CASE /\ data = <<>>
           /\ heap' = old
           /\ dirs' = [dirs EXCEPT ![d].file_map[n] = [length |-> 0, ptr |-> NULL]]
  <2>. DEFINE info == [length |-> 0, ptr |-> NULL]
  <2>1. info \in FileInfo /\ info.ptr = NULL /\ info.length = 0
    BY DEF FileInfo
  <2>2. dirs' = SetEntry(dirs, d, n, info)
    BY <1>3 DEF SetEntry
  <2>. HIDE DEF info, old
  <2>3. Exchanged(heap, heap', dirs[d].file_map[n].ptr, info.ptr)
    BY <1>2, <1>3, <2>1
  <2>4. /\ Owned(dirs', heap')
        /\ OtherFilesSame(dirs, dirs', d, n) /\ HasFile(dirs', d, n)
        /\ Entry(dirs', d, n) = info
    BY <2>1, <2>2, <2>3, EntryOwned
  <2>. QED BY <1>3, <2>1, <2>3, <2>4
<1>4. ASSUME NEW b \in Blocks \ DOMAIN old,
             data # <<>>,
             heap' = Bind(old, b, data),
             dirs' = [dirs EXCEPT ![d].file_map[n] = [length |-> Len(data), ptr |-> b]]
      PROVE  /\ Owned(dirs', heap')
             /\ OtherFilesSame(dirs, dirs', d, n) /\ HasFile(dirs', d, n)
             /\ Exchanged(heap, heap', dirs[d].file_map[n].ptr, Entry(dirs', d, n).ptr)
             /\ Entry(dirs', d, n).ptr # NULL /\ heap'[Entry(dirs', d, n).ptr] = data
  <2>. DEFINE info == [length |-> Len(data), ptr |-> b]
  <2>1. info \in FileInfo /\ info.ptr = b /\ info.length = Len(data) /\ b # NULL
    BY LenProperties, RamfsAssumption DEF FileInfo
  <2>2. dirs' = SetEntry(dirs, d, n, info)
    BY <1>4 DEF SetEntry
  <2>. HIDE DEF info, old, q
  <2>3. Exchanged(heap, heap', q, b) /\ heap'[b] = data
    <3>1. PICK K : K = Bind(old, b, data)
      OBVIOUS
    <3>2. Exchanged(heap, K, q, b) /\ K[b] = data
      BY <1>1, <1>2, <3>1, NewBlock
    <3>. QED BY <3>1, <3>2, <1>4
  <2>4. Exchanged(heap, heap', dirs[d].file_map[n].ptr, info.ptr)
    BY <2>1, <2>3 DEF q
  <2>5. /\ Owned(dirs', heap')
        /\ OtherFilesSame(dirs, dirs', d, n) /\ HasFile(dirs', d, n)
        /\ Entry(dirs', d, n) = info
    BY <2>1, <2>2, <2>3, <2>4, EntryOwned
  <2>. QED BY <2>1, <2>3, <2>4, <2>5
<1>5. (Blocks \ DOMAIN old # {}) => (CHOOSE x \in Blocks \ DOMAIN old : TRUE) \in Blocks \ DOMAIN old
  OBVIOUS
<1>. HIDE DEF old
<1>6. CASE data = <<>>
  BY <1>3, <1>6 DEF StoreData, old
<1>7. CASE data # <<>>
  BY <1>4, <1>5, <1>7 DEF StoreData, old
<1>. QED BY <1>6, <1>7
(* backspace moves the rest of the data. *)
IsInfo(r, length, ptr) == r \in FileInfo /\ r.length = length /\ r.ptr = ptr

LEMMA MovedOwned ==
    ASSUME FsInv, Owned(dirs, heap), NEW d \in DOMAIN dirs, NEW n \in DOMAIN dirs[d].file_map,
           NEW info, info = dirs[d].file_map[n],
           NEW left \in 1..info.length,
           NEW b \in Blocks \ DOMAIN heap,
           heap' = Unbind(Bind(heap, b, SubSeq(Contents(info), 1, left)), info.ptr),
           NEW r, IsInfo(r, left, b), dirs' = SetEntry(dirs, d, n, r)
    PROVE  /\ Owned(dirs', heap')
           /\ OtherFilesSame(dirs, dirs', d, n) /\ HasFile(dirs', d, n)
           /\ Exchanged(heap, heap', info.ptr, Entry(dirs', d, n).ptr)
           /\ Entry(dirs', d, n).ptr # NULL
           /\ heap'[Entry(dirs', d, n).ptr] = SubSeq(Contents(info), 1, left)
<1>. DEFINE q == info.ptr
            s == SubSeq(Contents(info), 1, left)
            old == free_data(q)
<1>1. BlocksOK(heap) /\ PtrsOK(dirs, heap)
  BY DEF Owned
<1>2. HasFile(dirs, d, n) /\ Entry(dirs, d, n) = info
  BY DEF HasFile, Entry
<1>3. info \in FileInfo
  <2>1. dirs[d].file_map \in Table(FileInfo)
    BY NodeTypes DEF FsInv, GoodTree
  <2>2. dirs[d].file_map \in [DOMAIN dirs[d].file_map -> FileInfo]
    BY <2>1, TableFacts
  <2>. QED BY <2>2
<1>4. info.length \in Nat /\ left \in Nat /\ left # 0 /\ left <= info.length
  BY <1>3 DEF FileInfo
<1>5. q # NULL /\ q \in DOMAIN heap /\ info.length = Len(heap[q])
  <2>1. info.length # 0
    BY <1>4
  <2>. QED BY <1>1, <1>2, <2>1 DEF PtrsOK
<1>6. Contents(info) = heap[q] /\ heap[q] \in Seq(STRING)
  <2>1. Contents(info) = IF info.ptr = NULL THEN <<>> ELSE heap[info.ptr]
    BY <1>2, ContentsAre
  <2>. QED BY <1>1, <1>5, <2>1 DEF BlocksOK
<1>7. s \in Seq(STRING) /\ Len(s) = left
  <2>. DEFINE t == heap[q]
  <2>1. t \in Seq(STRING) /\ left <= Len(t) /\ s = SubSeq(t, 1, left)
    BY <1>4, <1>5, <1>6
  <2>. HIDE DEF t, s
  <2>. QED BY <1>4, <2>1
<1>8. /\ BlocksOK(old) /\ DOMAIN old = DOMAIN heap \ {q}
      /\ \A x \in DOMAIN old : old[x] = heap[x]
  BY <1>1, FreeBlock
<1>9. b \in Blocks /\ b \notin DOMAIN old /\ b # q /\ b # NULL
  BY <1>5, <1>8, RamfsAssumption
<1>10. heap' = Unbind(Bind(heap, b, s), q)
  OBVIOUS
<1>12. r \in FileInfo /\ r.ptr = b /\ r.length = left
  BY DEF IsInfo
<1>. HIDE DEF q, s, old
<1>13. heap' = Bind(old, b, s)
  BY <1>8, <1>9, <1>10 DEF Bind, Unbind
<1>14. Exchanged(heap, heap', q, b) /\ heap'[b] = s
  <2>1. PICK K : K = Bind(old, b, s)
    OBVIOUS
  <2>2. Exchanged(heap, K, q, b) /\ K[b] = s
    BY <1>1, <1>7, <1>8, <1>9, <2>1, NewBlock
  <2>. QED BY <2>1, <2>2, <1>13
<1>15. Exchanged(heap, heap', dirs[d].file_map[n].ptr, r.ptr)
  BY <1>12, <1>14 DEF q
<1>16. r.length = Len(heap'[r.ptr]) /\ r.ptr # NULL
  BY <1>7, <1>9, <1>12, <1>14
<1>17. /\ Owned(dirs', heap')
       /\ OtherFilesSame(dirs, dirs', d, n) /\ HasFile(dirs', d, n)
       /\ Entry(dirs', d, n) = r
  BY <1>12, <1>15, <1>16, EntryOwned
<1>. QED BY <1>9, <1>12, <1>14, <1>17 DEF q, s

LEMMA DataStep ==
    ASSUME "write" \notin MayFail, FsInv, Owned(dirs, heap), Next
    PROVE  Owned(dirs', heap')
<1>1. ASSUME NEW call, NEW ret, Return(call, ret) PROVE Owned(dirs', heap')
  BY <1>1 DEF Return
<1>2. current_dir \in DOMAIN dirs /\ GoodTree(dirs)
  BY DEF FsInv, CwdOK
<1>3. ASSUME NEW n \in Names, fs_mkdir(n) PROVE Owned(dirs', heap')
  <2>1. (\E call, ret : Return(call, ret)) \/ (AddDir(current_dir, n) /\ heap' = heap)
    BY <1>3, Zenon DEF fs_mkdir
  <2>2. n \in STRING
    BY RamfsAssumption
  <2>. QED BY <1>1, <1>2, <2>1, <2>2, AddDirOwned
<1>4. ASSUME NEW n \in Names, fs_rmdir(n) PROVE Owned(dirs', heap')
  <2>. DEFINE gone == /\ n \in DOMAIN dirs[current_dir].foder_map
                      /\ dirs[dirs[current_dir].foder_map[n]].foder_map = Empty
                      /\ dirs[dirs[current_dir].foder_map[n]].file_map = Empty
                      /\ dirs' = DropChild(dirs, current_dir, n)
                      /\ heap' = heap
  <2>1. (\E call, ret : Return(call, ret)) \/ gone
    BY <1>4, Zenon DEF fs_rmdir, DropChild
  <2>. QED BY <1>1, <2>1, RmdirOwned
<1>5. ASSUME NEW n \in Names, fs_cat(n) PROVE Owned(dirs', heap')
  <2>1. \E call, ret : Return(call, ret)
    BY <1>5, Zenon DEF fs_cat
  <2>. QED BY <1>1, <2>1
<1>6. ASSUME NEW n \in Names, NEW data \in Data, fs_write(n, data) PROVE Owned(dirs', heap')
  <2>. DEFINE old == free_data(dirs[current_dir].file_map[n].ptr)
  <2>1. \/ \E call, ret : Return(call, ret)
        \/ /\ n \in DOMAIN dirs[current_dir].file_map
           /\ StoreData(current_dir, n, old, data)
    BY <1>6, Zenon DEF fs_write
  <2>2. data \in Seq(STRING)
    BY RamfsAssumption
  <2>3. CASE \E call, ret : Return(call, ret)
    BY <1>1, <2>3
  <2>4. CASE /\ n \in DOMAIN dirs[current_dir].file_map
             /\ StoreData(current_dir, n, old, data)
    BY <1>2, <2>2, <2>4, StoreOwned
  <2>. QED BY <2>1, <2>3, <2>4
<1>7. ASSUME NEW p \in Paths, fs_cd(p) PROVE Owned(dirs', heap')
  <2>1. (\E call, ret : Return(call, ret)) \/ (dirs' = dirs /\ heap' = heap)
    BY <1>7, Zenon DEF fs_cd
  <2>. QED BY <1>1, <2>1
<1>8. ASSUME NEW p \in Paths, fs_touch(p) PROVE Owned(dirs', heap')
  <2>. DEFINE n == file_name(p)
              info == [length |-> 0, ptr |-> NULL]
              made(d) == /\ ~NameTaken(d, n)
                         /\ dirs' = [dirs EXCEPT ![d].file_map = Bind(@, n, info)]
                         /\ heap' = heap
  <2>1. (\E call, ret : Return(call, ret)) \/ \E d \in DOMAIN dirs : made(d)
    BY <1>8, Zenon DEF fs_touch
  <2>2. n \in STRING
    BY FileName
  <2>3. ASSUME NEW d \in DOMAIN dirs, made(d) PROVE Owned(dirs', heap')
    <3>. HIDE DEF n
    <3>. QED BY <2>2, <2>3, TouchOwned
  <2>. QED BY <1>1, <2>1, <2>3
<1>9. ASSUME NEW p \in Paths, fs_rm(p) PROVE Owned(dirs', heap')
  <2>. DEFINE n == file_name(p)
              gone(d) == /\ n \in DOMAIN dirs[d].file_map
                         /\ heap' = free_data(dirs[d].file_map[n].ptr)
                         /\ dirs' = [dirs EXCEPT ![d].file_map = Unbind(@, n)]
  <2>1. (\E call, ret : Return(call, ret)) \/ \E d \in DOMAIN dirs : gone(d)
    BY <1>9, Zenon DEF fs_rm
  <2>2. ASSUME NEW d \in DOMAIN dirs, gone(d) PROVE Owned(dirs', heap')
    <3>. HIDE DEF n
    <3>. QED BY <2>2, RmOwned
  <2>. QED BY <1>1, <2>1, <2>2
<1>10. ASSUME NEW p \in Paths, NEW count \in Counts, fs_backspace(p, count)
       PROVE  Owned(dirs', heap')
  <2>. DEFINE n == file_name(p)
              info(d) == dirs[d].file_map[n]
              left(d) == new_len(info(d).length, count)
              b == CHOOSE x \in Blocks \ DOMAIN heap : TRUE
              emptied(d) ==
                  /\ n \in DOMAIN dirs[d].file_map
                  /\ heap' = free_data(info(d).ptr)
                  /\ dirs' = [dirs EXCEPT ![d].file_map[n] = [length |-> 0, ptr |-> NULL]]
              moved(d) ==
                  /\ n \in DOMAIN dirs[d].file_map
                  /\ left(d) # 0
                  /\ Blocks \ DOMAIN heap # {}
                  /\ heap' = Unbind(Bind(heap, b, SubSeq(Contents(info(d)), 1, left(d))), info(d).ptr)
                  /\ dirs' = [dirs EXCEPT ![d].file_map[n] = [length |-> left(d), ptr |-> b]]
  <2>1. \/ \E call, ret : Return(call, ret)
        \/ \E d \in DOMAIN dirs : emptied(d) \/ moved(d)
    BY <1>10, ZenonT(60) DEF fs_backspace
  <2>2. ASSUME NEW d \in DOMAIN dirs, emptied(d) PROVE Owned(dirs', heap')
    <3>1. StoreData(d, n, free_data(dirs[d].file_map[n].ptr), <<>>)
      BY <2>2 DEF StoreData
    <3>2. n \in DOMAIN dirs[d].file_map /\ <<>> \in Seq(STRING)
      BY <2>2
    <3>. HIDE DEF n
    <3>. QED BY <3>1, <3>2, StoreOwned
  <2>3. ASSUME NEW d \in DOMAIN dirs, moved(d) PROVE Owned(dirs', heap')
    <3>1. n \in DOMAIN dirs[d].file_map /\ b \in Blocks \ DOMAIN heap
      BY <2>3
    <3>2. left(d) \in 1..info(d).length
      <4>1. dirs[d].file_map \in Table(FileInfo)
        BY <1>2, NodeTypes DEF GoodTree
      <4>2. dirs[d].file_map \in [DOMAIN dirs[d].file_map -> FileInfo]
        BY <4>1, TableFacts
      <4>3. info(d).length \in Nat /\ count \in Nat
        BY <3>1, <4>2, RamfsAssumption DEF FileInfo
      <4>4. left(d) \in 0..info(d).length /\ left(d) # 0
        BY <2>3, <4>3, NewLen
      <4>. HIDE DEF left, info
      <4>. QED BY <4>3, <4>4
    <3>3. /\ heap' = Unbind(Bind(heap, b, SubSeq(Contents(info(d)), 1, left(d))), info(d).ptr)
          /\ dirs' = SetEntry(dirs, d, n, [length |-> left(d), ptr |-> b])
      BY <2>3 DEF SetEntry
    <3>4. info(d) = dirs[d].file_map[n]
      OBVIOUS
    <3>. HIDE DEF n, b, left, info
    <3>5. PICK r : IsInfo(r, left(d), b) /\ dirs' = SetEntry(dirs, d, n, r)
      <4>. DEFINE r == [length |-> left(d), ptr |-> b]
      <4>1. IsInfo(r, left(d), b)
        BY <3>1, <3>2 DEF FileInfo, IsInfo
      <4>2. dirs' = SetEntry(dirs, d, n, r)
        BY <3>3
      <4>. HIDE DEF r
      <4>. QED BY <4>1, <4>2
    <3>. QED BY <3>1, <3>2, <3>3, <3>4, <3>5, MovedOwned
  <2>. QED BY <1>1, <2>1, <2>2, <2>3
<1>11. ASSUME mkdir_p_step PROVE Owned(dirs', heap')
  <2>1. heap' = heap
    BY <1>11, Zenon DEF mkdir_p_step
  <2>2. dirs' = dirs \/ AddDir(job.at, Head(job.todo))
    BY <1>11, Zenon DEF mkdir_p_step
  <2>3. job # NULL /\ ~mkdir_p_ended
    BY <1>11, Zenon DEF mkdir_p_step
  <2>4. job.at \in DOMAIN dirs /\ job.todo \in Seq(STRING)
    BY <2>3 DEF FsInv, JobOK
  <2>5. job.todo # <<>>
    BY <2>3, Zenon DEF mkdir_p_ended
  <2>6. Head(job.todo) \in STRING
    BY <2>4, <2>5
  <2>. QED BY <2>1, <2>2, <2>4, <2>6, AddDirOwned
<1>12. ASSUME mkdir_p_return PROVE Owned(dirs', heap')
  BY <1>12, Zenon DEF mkdir_p_return
<1>13. ASSUME NEW p \in DeepPaths, mkdir_p(p) PROVE Owned(dirs', heap')
  BY <1>13, Zenon DEF mkdir_p
<1>. QED BY <1>3, <1>4, <1>5, <1>6, <1>7, <1>8, <1>9, <1>10, <1>11, <1>12, <1>13 DEF Next

LEMMA DataInit == Init => Owned(dirs, heap)
<1>. SUFFICES ASSUME Init PROVE Owned(dirs, heap)
  OBVIOUS
<1>1. heap = Empty /\ DOMAIN heap = {}
  BY EmptyTable DEF Init
<1>2. DOMAIN dirs = {Root} /\ DOMAIN dirs[Root].file_map = {}
  <2>. DEFINE r == [name |-> "/", parent |-> NULL, foder_map |-> Empty, file_map |-> Empty]
  <2>1. DOMAIN Empty = {} /\ r.file_map = Empty
    BY EmptyTable
  <2>. HIDE DEF r
  <2>2. dirs = Bind(Empty, Root, r)
    BY DEF Init, r
  <2>. QED BY <2>1, <2>2 DEF Bind
<1>3. \A d, n : ~HasFile(dirs, d, n)
  BY <1>2 DEF HasFile
<1>4. BlocksOK(heap)
  BY <1>1 DEF BlocksOK, Empty
<1>. QED BY <1>1, <1>3, <1>4 DEF Owned, PtrsOK, Unshared, NoLeak

LEMMA FilesAre ==
    ASSUME NEW f PROVE f \in Files <=> \E d, n : HasFile(dirs, d, n) /\ f = <<d, n>>
<1>1. ASSUME f \in Files PROVE \E d, n : HasFile(dirs, d, n) /\ f = <<d, n>>
  <2>1. PICK d \in DOMAIN dirs : f \in {<<d, n>> : n \in DOMAIN dirs[d].file_map}
    BY <1>1, Zenon DEF Files
  <2>2. PICK n \in DOMAIN dirs[d].file_map : f = <<d, n>>
    BY <2>1
  <2>. QED BY <2>2 DEF HasFile
<1>2. ASSUME NEW d, NEW n, HasFile(dirs, d, n), f = <<d, n>> PROVE f \in Files
  <2>1. d \in DOMAIN dirs /\ f \in {<<d, m>> : m \in DOMAIN dirs[d].file_map}
    BY <1>2 DEF HasFile
  <2>. QED BY <2>1, Zenon DEF Files
<1>. QED BY <1>1, <1>2

LEMMA OwnedImplies == Owned(dirs, heap) => DataOwned
<1>. SUFFICES ASSUME Owned(dirs, heap) PROVE DataOwned
  OBVIOUS
<1>1. PtrsOK(dirs, heap) /\ Unshared(dirs) /\ NoLeak(dirs, heap) /\ NULL \notin DOMAIN heap
  BY RamfsAssumption DEF Owned, BlocksOK
<1>2. \A f : f \in Files <=> \E d, n : HasFile(dirs, d, n) /\ f = <<d, n>>
  BY FilesAre
<1>3. ASSUME NEW f \in Files
      PROVE  LET info == dirs[f[1]].file_map[f[2]]
             IN  IF info.ptr = NULL THEN info.length = 0
                 ELSE info.ptr \in DOMAIN heap /\ info.length = Len(heap[info.ptr])
  <2>1. PICK d, n : HasFile(dirs, d, n) /\ f = <<d, n>>
    BY <1>2
  <2>2. dirs[f[1]].file_map[f[2]] = Entry(dirs, d, n)
    BY <2>1 DEF Entry
  <2>. QED BY <1>1, <2>1, <2>2 DEF PtrsOK
<1>4. ASSUME NEW b \in DOMAIN heap PROVE \E f \in Files : Owner(b) = {f}
  <2>1. PICK d, n : HasFile(dirs, d, n) /\ Entry(dirs, d, n).ptr = b
    BY <1>1 DEF NoLeak
  <2>2. <<d, n>> \in Files
    BY <1>2, <2>1
  <2>3. b # NULL
    BY <1>1
  <2>4. ASSUME NEW g \in Files, dirs[g[1]].file_map[g[2]].ptr = b PROVE g = <<d, n>>
    <3>1. PICK e, m : HasFile(dirs, e, m) /\ g = <<e, m>>
      BY <1>2
    <3>2. Entry(dirs, e, m).ptr = b
      BY <2>4, <3>1 DEF Entry
    <3>3. e = d /\ m = n
      BY <1>1, <2>1, <2>3, <3>1, <3>2 DEF Unshared
    <3>. QED BY <3>1, <3>3
  <2>5. dirs[<<d, n>>[1]].file_map[<<d, n>>[2]].ptr = b
    BY <2>1 DEF Entry
  <2>6. Owner(b) = {<<d, n>>}
    BY <2>2, <2>4, <2>5 DEF Owner
  <2>. QED BY <2>2, <2>6
<1>. QED BY <1>3, <1>4 DEF DataOwned

(* fs_touch, fs_write, fs_backspace and fs_rm never read freed data, free  *)
(* it twice, share it between files or leak it, as long as the allocation  *)
(* in fs_write does not fail.  The other allocations may.                  *)
THEOREM DataIsOwned ==
    ASSUME "write" \notin MayFail
    PROVE  Spec => []DataOwned
<1>1. FsInv /\ Owned(dirs, heap) /\ [Next]_vars => Owned(dirs, heap)'
  <2>1. UNCHANGED vars /\ Owned(dirs, heap) => Owned(dirs', heap')
    BY DEF vars
  <2>. QED BY <2>1, DataStep
<1>. QED BY <1>1, FsInvariant, DataInit, OwnedImplies, PTL DEF Spec
-----------------------------------------------------------------------------
(* The refinement: nodes, tables and blocks implement the file system of   *)
(* paths (module FileTree).  Read(H, info) is what a file holds; F maps    *)
(* the paths of the files to what they hold.                               *)
Read(H, info) == IF info.ptr = NULL THEN <<>> ELSE H[info.ptr]

IsPathFiles(D, H, f, F) ==
    /\ F = [x \in DOMAIN F |-> F[x]]
    /\ \A x : x \in DOMAIN F <=> \E d, n : HasFile(D, d, n) /\ x = Append(f[d], n)
    /\ \A d, n : HasFile(D, d, n) => F[Append(f[d], n)] = Read(H, Entry(D, d, n))

(* The mapped variables of FileTree are what they should be. *)
PathsView ==
    /\ IsPaths(dirs, build_absolute_path)
    /\ IsPathFiles(dirs, heap, build_absolute_path, PathFiles)
    /\ current_path = build_absolute_path[current_dir]

(* STRING under another name: the provers treat the elements of STRING     *)
(* apart from other values, and then do not find facts about all values.   *)
Str == STRING

(* File names are strings, and different files have different paths. *)
LEMMA FileNames ==
    ASSUME NEW D, GoodTree(D), NEW d, NEW n, HasFile(D, d, n)
    PROVE  d \in DOMAIN D /\ n \in Str /\ Entry(D, d, n) \in FileInfo
<1>1. d \in DOMAIN D /\ n \in DOMAIN D[d].file_map /\ D[d].file_map \in Table(FileInfo)
  BY NodeTypes DEF HasFile, GoodTree
<1>. DEFINE t == D[d].file_map
<1>2. DOMAIN t \subseteq STRING /\ t \in [DOMAIN t -> FileInfo]
  <2>. HIDE DEF t
  <2>. QED BY <1>1, TableFacts DEF t
<1>. QED BY <1>1, <1>2 DEF Entry, Str

LEMMA PathsAreStr ==
    ASSUME NEW D, NEW f, IsPaths(D, f), NEW d \in DOMAIN D
    PROVE  f[d] \in Seq(Str)
  BY DEF IsPaths, Str

LEMMA PathsDiffer ==
    ASSUME NEW D, NEW f, IsPaths(D, f), NEW d \in DOMAIN D, NEW e \in DOMAIN D,
           NEW n \in Str, NEW m \in Str
    PROVE  Append(f[d], n) = Append(f[e], m) => d = e /\ n = m
<1>. DEFINE s == f[d]
            t == f[e]
<1>1. s \in Seq(Str) /\ t \in Seq(Str)
  BY PathsAreStr
<1>2. Append(s, n) = Append(t, m) => s = t /\ n = m
  <2>. HIDE DEF s, t
  <2>. QED BY <1>1, AppendInjective
<1>3. s = t => d = e
  BY DEF IsPaths
<1>. QED BY <1>2, <1>3

LEMMA ViewHolds == FsInv /\ Owned(dirs, heap) => PathsView
<1>. SUFFICES ASSUME FsInv, Owned(dirs, heap) PROVE PathsView
  OBVIOUS
<1>1. GoodTree(dirs) /\ CwdOK
  BY DEF FsInv
<1>2. PICK f : IsPaths(dirs, f) /\ current_path = f[current_dir]
  BY <1>1 DEF CwdOK
<1>3. build_absolute_path = f
  BY <1>1, <1>2, BuildIs
<1>4. \A x : x \in DOMAIN PathFiles <=> \E d, n : HasFile(dirs, d, n) /\ x = Append(f[d], n)
  <2>1. DOMAIN PathFiles = {PathOfFile(g) : g \in Files}
    BY Zenon DEF PathFiles
  <2>2. ASSUME NEW d, NEW n PROVE PathOfFile(<<d, n>>) = Append(f[d], n)
    BY <1>3 DEF PathOfFile
  <2>3. ASSUME NEW x, x \in DOMAIN PathFiles
        PROVE  \E d, n : HasFile(dirs, d, n) /\ x = Append(f[d], n)
    <3>1. PICK g \in Files : x = PathOfFile(g)
      BY <2>1, <2>3
    <3>2. PICK d, n : HasFile(dirs, d, n) /\ g = <<d, n>>
      BY <3>1, FilesAre
    <3>. QED BY <3>1, <3>2, <2>2
  <2>4. ASSUME NEW d, NEW n, HasFile(dirs, d, n)
        PROVE  Append(f[d], n) \in DOMAIN PathFiles
    <3>1. <<d, n>> \in Files
      BY <2>4, FilesAre
    <3>2. PathOfFile(<<d, n>>) \in DOMAIN PathFiles
      BY <2>1, <3>1
    <3>. QED BY <2>2, <3>2
  <2>. QED BY <2>3, <2>4
<1>5. ASSUME NEW d, NEW n, HasFile(dirs, d, n)
      PROVE  PathFiles[Append(f[d], n)] = Read(heap, Entry(dirs, d, n))
  <2>. DEFINE path == Append(f[d], n)
              g == CHOOSE h \in Files : PathOfFile(h) = path
  <2>1. <<d, n>> \in Files /\ PathOfFile(<<d, n>>) = path
    BY <1>3, <1>5, FilesAre DEF PathOfFile
  <2>2. g \in Files /\ PathOfFile(g) = path
    <3>. HIDE DEF path
    <3>. QED BY <2>1
  <2>3. path \in {PathOfFile(h) : h \in Files}
    <3>. HIDE DEF path
    <3>. QED BY <2>1
  <2>4. PathFiles[path] = Contents(dirs[g[1]].file_map[g[2]])
    <3>. HIDE DEF path
    <3>. QED BY <2>3, Zenon DEF PathFiles, g
  <2>. HIDE DEF g
  <2>5. PICK e, m : HasFile(dirs, e, m) /\ g = <<e, m>>
    BY <2>2, FilesAre
  <2>6. Append(f[e], m) = Append(f[d], n)
    BY <2>2, <2>5, <1>3 DEF PathOfFile
  <2>7. e = d /\ m = n
    <3>1. d \in DOMAIN dirs /\ n \in Str /\ e \in DOMAIN dirs /\ m \in Str
      BY <1>1, <1>5, <2>5, FileNames
    <3>2. Append(f[e], m) = Append(f[d], n) => e = d /\ m = n
      BY <3>1, <1>2, PathsDiffer
    <3>. QED BY <2>6, <3>2
  <2>8. dirs[g[1]].file_map[g[2]] = Entry(dirs, d, n)
    BY <2>5, <2>7 DEF Entry
  <2>9. Contents(Entry(dirs, d, n)) = Read(heap, Entry(dirs, d, n))
    BY <1>5, ContentsAre DEF Read
  <2>. QED BY <2>4, <2>8, <2>9
<1>6. PathFiles = [x \in DOMAIN PathFiles |-> PathFiles[x]]
  <2>. DEFINE P == {PathOfFile(h) : h \in Files}
              val(x) == LET g == CHOOSE h \in Files : PathOfFile(h) = x
                        IN  Contents(dirs[g[1]].file_map[g[2]])
  <2>1. PathFiles = [x \in P |-> val(x)]
    BY Zenon DEF PathFiles
  <2>. HIDE DEF P, val
  <2>. QED BY <2>1
<1>7. IsPathFiles(dirs, heap, f, PathFiles)
  BY <1>4, <1>5, <1>6 DEF IsPathFiles
<1>. QED BY <1>2, <1>3, <1>7 DEF PathsView

LEMMA ViewNext == FsInv' /\ Owned(dirs, heap)' => PathsView'
  BY ViewHolds, PTL
(* Looking up a name in a node is looking up a path. *)
LEMMA FrontAppend ==
    ASSUME NEW S, NEW s \in Seq(S), NEW n \in S
    PROVE  Append(s, n) # <<>> /\ Front(Append(s, n)) = s
  BY DEF Front

LEMMA RootPath ==
    ASSUME NEW D, GoodTree(D), NEW f, IsPaths(D, f), NEW d \in DOMAIN D
    PROVE  /\ f[d] = <<>> <=> d = Root
           /\ D[d].parent = NULL <=> d = Root
           /\ d # Root => /\ D[d].parent \in DOMAIN D /\ D[d].name \in Str
                         /\ f[d] = Append(f[D[d].parent], D[d].name)
                         /\ f[d] # <<>> /\ Front(f[d]) = f[D[d].parent]
<1>1. NodesOK(D) /\ Linked(D)
  BY DEF GoodTree
<1>2. f[Root] = <<>> /\ D[Root].parent = NULL
  BY <1>1 DEF IsPaths, Linked
<1>3. CASE d = Root
  BY <1>2, <1>3
<1>4. CASE d # Root
  <2>1. D[d].parent \in DOMAIN D /\ D[d].parent \in DirIds
    BY <1>1, <1>4, NodeTypes DEF Linked
  <2>2. D[d].parent # NULL
    BY <2>1, RamfsAssumption
  <2>3. D[d].name \in Str
    BY <1>1, <1>4, NameType DEF Str
  <2>4. f[d] = Append(f[D[d].parent], D[d].name)
    BY <1>4 DEF IsPaths
  <2>5. f[D[d].parent] \in Seq(Str)
    BY <2>1, PathsAreStr
  <2>6. f[d] # <<>> /\ Front(f[d]) = f[D[d].parent]
    <3>. DEFINE s == f[D[d].parent]
                m == D[d].name
    <3>1. Append(s, m) # <<>> /\ Front(Append(s, m)) = s
      <4>1. s \in Seq(Str) /\ m \in Str
        BY <2>3, <2>5
      <4>. HIDE DEF s, m
      <4>. QED BY <4>1, FrontAppend
    <3>2. f[d] = Append(s, m)
      BY <2>4
    <3>. QED BY <3>1, <3>2, Zenon
  <2>. QED BY <1>4, <2>1, <2>2, <2>3, <2>4, <2>6
<1>. QED BY <1>3, <1>4

LEMMA ChildPath ==
    ASSUME NEW D, GoodTree(D), NEW f, IsPaths(D, f), NEW d \in DOMAIN D, NEW n \in Str
    PROVE  /\ n \in DOMAIN D[d].foder_map <=> \E e \in DOMAIN D : f[e] = Append(f[d], n)
           /\ n \in DOMAIN D[d].foder_map =>
                /\ D[d].foder_map[n] \in DOMAIN D
                /\ f[D[d].foder_map[n]] = Append(f[d], n)
<1>1. NodesOK(D) /\ Linked(D)
  BY DEF GoodTree
<1>2. ASSUME n \in DOMAIN D[d].foder_map
      PROVE  D[d].foder_map[n] \in DOMAIN D /\ f[D[d].foder_map[n]] = Append(f[d], n)
  <2>. DEFINE e == D[d].foder_map[n]
  <2>1. e \in DOMAIN D /\ D[e].parent = d /\ D[e].name = n
    BY <1>1, <1>2 DEF Linked
  <2>2. d # NULL
    BY <1>1, RamfsAssumption DEF NodesOK
  <2>. HIDE DEF e
  <2>3. e # Root
    BY <2>1, <2>2, <1>1 DEF Linked
  <2>4. f[e] = Append(f[d], n)
    BY <2>1, <2>3 DEF IsPaths
  <2>. QED BY <2>1, <2>4 DEF e
<1>3. ASSUME NEW e \in DOMAIN D, f[e] = Append(f[d], n) PROVE n \in DOMAIN D[d].foder_map
  <2>1. Append(f[d], n) # <<>>
    <3>. DEFINE s == f[d]
    <3>1. s \in Seq(Str)
      BY PathsAreStr
    <3>2. Append(s, n) # <<>>
      <4>. HIDE DEF s
      <4>. QED BY <3>1, FrontAppend
    <3>. QED BY <3>2
  <2>2. e # Root
    BY <1>3, <2>1 DEF IsPaths
  <2>3. /\ D[e].parent \in DOMAIN D /\ D[e].name \in Str
        /\ f[e] = Append(f[D[e].parent], D[e].name)
    BY <2>2, RootPath
  <2>4. D[e].parent = d /\ D[e].name = n
    <3>. DEFINE u == D[e].parent
                m == D[e].name
    <3>1. Append(f[u], m) = Append(f[d], n) /\ u \in DOMAIN D /\ m \in Str
      BY <1>3, <2>3
    <3>2. Append(f[u], m) = Append(f[d], n) => u = d /\ m = n
      <4>. HIDE DEF u, m
      <4>. QED BY <3>1, PathsDiffer
    <3>. QED BY <3>1, <3>2
  <2>. QED BY <2>2, <2>4, <1>1 DEF Linked
<1>. QED BY <1>2, <1>3

LEMMA FilePath ==
    ASSUME NEW D, GoodTree(D), NEW f, IsPaths(D, f), NEW H, NEW F, IsPathFiles(D, H, f, F),
           NEW d \in DOMAIN D, NEW n \in Str
    PROVE  /\ n \in DOMAIN D[d].file_map <=> Append(f[d], n) \in DOMAIN F
           /\ n \in DOMAIN D[d].file_map =>
                F[Append(f[d], n)] = Read(H, D[d].file_map[n])
<1>1. ASSUME n \in DOMAIN D[d].file_map
      PROVE  Append(f[d], n) \in DOMAIN F /\ F[Append(f[d], n)] = Read(H, D[d].file_map[n])
  <2>1. HasFile(D, d, n) /\ Entry(D, d, n) = D[d].file_map[n]
    BY <1>1 DEF HasFile, Entry
  <2>2. Append(f[d], n) \in DOMAIN F
    BY <2>1, Zenon DEF IsPathFiles
  <2>3. F[Append(f[d], n)] = Read(H, Entry(D, d, n))
    BY <2>1, Zenon DEF IsPathFiles
  <2>. QED BY <2>1, <2>2, <2>3, Zenon
<1>2. ASSUME Append(f[d], n) \in DOMAIN F PROVE n \in DOMAIN D[d].file_map
  <2>1. PICK e, m : HasFile(D, e, m) /\ Append(f[d], n) = Append(f[e], m)
    BY <1>2 DEF IsPathFiles
  <2>2. e \in DOMAIN D /\ m \in Str
    BY <2>1, FileNames
  <2>3. Append(f[d], n) = Append(f[e], m) => d = e /\ n = m
    BY <2>2, PathsDiffer
  <2>. QED BY <2>1, <2>3 DEF HasFile
<1>. QED BY <1>1, <1>2
(* Walking the nodes is walking the paths. *)
PathStep(T, w, comp) ==
    IF w.done \/ comp \in {"", "."} THEN w
    ELSE IF comp = ".." THEN
        IF w.at = <<>> THEN [w EXCEPT !.done = TRUE] ELSE [w EXCEPT !.at = Front(@)]
    ELSE IF Append(w.at, comp) \in T THEN [w EXCEPT !.at = Append(@, comp)]
    ELSE [at |-> NULL, done |-> TRUE]

PathWalkEq(p, w) ==
    w = [k \in 0..Len(p.comps) |->
            IF k = 0 THEN [at |-> IF p.abs THEN <<>> ELSE current_path, done |-> FALSE]
            ELSE Tree!Walk(w[k - 1], p.comps[k])]

LEMMA DirDef ==
    ASSUME NEW p, p # NoPath
    PROVE  Tree!Dir(p) = (CHOOSE walk : PathWalkEq(p, walk))[Len(p.comps)].at
  BY Zenon DEF Tree!Dir, PathWalkEq, NoPath

LEMMA WalkIsPathStep ==
    ASSUME NEW w, NEW comp PROVE Tree!Walk(w, comp) = PathStep(PathTree, w, comp)
  BY Zenon DEF Tree!Walk, PathStep, Tree!Front, Front

Seen(f, d) == IF d = NULL THEN NULL ELSE f[d]
SeenWalk(f, w) == [at |-> Seen(f, w.at), done |-> w.done]

LEMMA StepSim ==
    ASSUME NEW D, GoodTree(D), NEW f, IsPaths(D, f), NEW w \in WalkState(D), NEW comp \in Str,
           NEW T, \A x : x \in T <=> \E e \in DOMAIN D : f[e] = x
    PROVE  SeenWalk(f, StepIn(D, w, comp)) = PathStep(T, SeenWalk(f, w), comp)
<1>. DEFINE v == SeenWalk(f, w)
<1>1. NULL \notin DOMAIN D
  BY RamfsAssumption DEF GoodTree, NodesOK
<1>2. /\ w = [at |-> w.at, done |-> w.done] /\ w.at \in DOMAIN D \cup {NULL}
      /\ w.done \in BOOLEAN /\ (w.at = NULL => w.done)
  BY DEF WalkState
<1>3. v = [at |-> Seen(f, w.at), done |-> w.done] /\ v.done = w.done /\ v.at = Seen(f, w.at)
  BY DEF SeenWalk
<1>4. CASE w.done \/ comp \in {"", "."}
  <2>1. StepIn(D, w, comp) = w
    BY <1>4, Zenon DEF StepIn
  <2>2. v.done \/ comp \in {"", "."}
    BY <1>3, <1>4, Zenon
  <2>. HIDE DEF v
  <2>3. PathStep(T, v, comp) = v
    BY <2>2, Zenon DEF PathStep
  <2>. QED BY <2>1, <2>3, Zenon DEF v
<1>5. CASE ~w.done /\ comp \notin {"", "."}
  <2>0. w.at \in DOMAIN D
    BY <1>2, <1>5, Zenon
  <2>1. w.at # NULL /\ v.at = f[w.at]
    BY <1>1, <1>3, <2>0 DEF Seen
  <2>2. ~v.done
    BY <1>3, <1>5, Zenon
  <2>3. /\ D[w.at].parent = NULL <=> v.at = <<>>
        /\ D[w.at].parent # NULL => D[w.at].parent \in DOMAIN D /\ Front(v.at) = f[D[w.at].parent]
    BY <2>0, <2>1, RootPath
  <2>4. comp \in DOMAIN D[w.at].foder_map <=> Append(v.at, comp) \in T
    <3>. DEFINE d == w.at
    <3>1. comp \in DOMAIN D[d].foder_map <=> \E e \in DOMAIN D : f[e] = Append(f[d], comp)
      <4>. HIDE DEF d
      <4>. QED BY <2>0, ChildPath DEF d
    <3>. QED BY <3>1, <2>1
  <2>5. comp \in DOMAIN D[w.at].foder_map =>
          /\ D[w.at].foder_map[comp] \in DOMAIN D
          /\ f[D[w.at].foder_map[comp]] = Append(v.at, comp)
    <3>. DEFINE d == w.at
    <3>1. comp \in DOMAIN D[d].foder_map =>
            /\ D[d].foder_map[comp] \in DOMAIN D
            /\ f[D[d].foder_map[comp]] = Append(f[d], comp)
      <4>. HIDE DEF d
      <4>. QED BY <2>0, ChildPath DEF d
    <3>. QED BY <3>1, <2>1
  <2>6. CASE comp = ".." /\ D[w.at].parent = NULL
    <3>1. StepIn(D, w, comp) = [w EXCEPT !.done = TRUE]
      BY <1>5, <2>6, Zenon DEF StepIn
    <3>2. PathStep(T, v, comp) = [v EXCEPT !.done = TRUE]
      <4>. HIDE DEF v
      <4>. QED BY <1>5, <2>2, <2>3, <2>6, Zenon DEF PathStep
    <3>3. SeenWalk(f, [w EXCEPT !.done = TRUE]) = [v EXCEPT !.done = TRUE]
      <4>. DEFINE t == TRUE
      <4>0. ASSUME NEW r, NEW a, NEW b, r = [at |-> a, done |-> b]
            PROVE  [r EXCEPT !.done = t] = [at |-> a, done |-> t]
        <5>. HIDE DEF t
        <5>. QED BY <4>0
      <4>1. [w EXCEPT !.done = TRUE] = [at |-> w.at, done |-> TRUE]
        <5>1. [w EXCEPT !.done = t] = [at |-> w.at, done |-> t]
          <6>. HIDE DEF t
          <6>. QED BY <1>2, <4>0
        <5>. QED BY <5>1, Zenon DEF t
      <4>2. [v EXCEPT !.done = TRUE] = [at |-> Seen(f, w.at), done |-> TRUE]
        <5>1. [v EXCEPT !.done = t] = [at |-> Seen(f, w.at), done |-> t]
          <6>. HIDE DEF t, v
          <6>. QED BY <1>3, <4>0
        <5>. QED BY <5>1, Zenon DEF t
      <4>3. SeenWalk(f, [at |-> w.at, done |-> TRUE]) = [at |-> Seen(f, w.at), done |-> TRUE]
        BY DEF SeenWalk
      <4>. QED BY <4>1, <4>2, <4>3, Zenon
    <3>. QED BY <3>1, <3>2, <3>3, Zenon
  <2>7. CASE comp = ".." /\ D[w.at].parent # NULL
    <3>1. StepIn(D, w, comp) = [w EXCEPT !.at = D[w.at].parent]
      BY <1>5, <2>7, Zenon DEF StepIn
    <3>2. PathStep(T, v, comp) = [v EXCEPT !.at = Front(v.at)]
      <4>. HIDE DEF v
      <4>. QED BY <1>5, <2>2, <2>3, <2>7, Zenon DEF PathStep
    <3>3. SeenWalk(f, [w EXCEPT !.at = D[w.at].parent]) = [v EXCEPT !.at = Front(v.at)]
      BY <1>2, <1>3, <2>3, <2>7 DEF SeenWalk, Seen
    <3>. QED BY <3>1, <3>2, <3>3, Zenon
  <2>8. CASE comp # ".." /\ comp \in DOMAIN D[w.at].foder_map
    <3>1. StepIn(D, w, comp) = [w EXCEPT !.at = D[w.at].foder_map[comp]]
      BY <1>5, <2>8, Zenon DEF StepIn
    <3>2. PathStep(T, v, comp) = [v EXCEPT !.at = Append(v.at, comp)]
      <4>. HIDE DEF v
      <4>. QED BY <1>5, <2>2, <2>4, <2>8, Zenon DEF PathStep
    <3>3. SeenWalk(f, [w EXCEPT !.at = D[w.at].foder_map[comp]]) = [v EXCEPT !.at = Append(v.at, comp)]
      <4>. DEFINE e == D[w.at].foder_map[comp]
      <4>1. e # NULL /\ f[e] = Append(v.at, comp)
        BY <1>1, <2>5, <2>8
      <4>. HIDE DEF e
      <4>0. ASSUME NEW r, NEW a, NEW b, NEW c, r = [at |-> a, done |-> b]
            PROVE  [r EXCEPT !.at = c] = [at |-> c, done |-> b]
        BY <4>0
      <4>3. [w EXCEPT !.at = e] = [at |-> e, done |-> w.done]
        BY <1>2, <4>0
      <4>4. ASSUME NEW c PROVE [v EXCEPT !.at = c] = [at |-> c, done |-> w.done]
        <5>. HIDE DEF v
        <5>. QED BY <1>3, <4>0
      <4>5. SeenWalk(f, [at |-> e, done |-> w.done]) = [at |-> f[e], done |-> w.done]
        BY <4>1 DEF SeenWalk, Seen
      <4>6. [v EXCEPT !.at = Append(v.at, comp)] = [at |-> f[e], done |-> w.done]
        <5>. HIDE DEF v
        <5>. QED BY <4>1, <4>4, Zenon
      <4>2. SeenWalk(f, [w EXCEPT !.at = e]) = [v EXCEPT !.at = Append(v.at, comp)]
        BY <4>3, <4>5, <4>6, Zenon
      <4>. QED BY <4>2 DEF e
    <3>. QED BY <3>1, <3>2, <3>3, Zenon
  <2>9. CASE comp # ".." /\ comp \notin DOMAIN D[w.at].foder_map
    <3>1. StepIn(D, w, comp) = [at |-> NULL, done |-> TRUE]
      BY <1>5, <2>9, Zenon DEF StepIn
    <3>2. PathStep(T, v, comp) = [at |-> NULL, done |-> TRUE]
      <4>. HIDE DEF v
      <4>. QED BY <1>5, <2>2, <2>4, <2>9, Zenon DEF PathStep
    <3>3. SeenWalk(f, [at |-> NULL, done |-> TRUE]) = [at |-> NULL, done |-> TRUE]
      BY DEF SeenWalk, Seen
    <3>. QED BY <3>1, <3>2, <3>3, Zenon
  <2>. QED BY <2>6, <2>7, <2>8, <2>9, Zenon
<1>. QED BY <1>4, <1>5, Zenon

LEMMA FullyPathStep ==
    ASSUME FsInv, NEW f, IsPaths(dirs, f), NEW w \in WalkState(dirs), NEW comp \in Str
    PROVE  Tree!Walk(SeenWalk(f, w), comp) = SeenWalk(f, StepIn(dirs, w, comp))
<1>1. GoodTree(dirs)
  BY DEF FsInv
<1>2. build_absolute_path = f
  BY <1>1, BuildIs
<1>. DEFINE T == PathTree
<1>3. \A x : x \in T <=> \E e \in DOMAIN dirs : f[e] = x
  BY <1>2 DEF PathTree
<1>4. SeenWalk(f, StepIn(dirs, w, comp)) = PathStep(T, SeenWalk(f, w), comp)
  <2>. HIDE DEF T
  <2>. QED BY <1>1, <1>3, StepSim
<1>5. Tree!Walk(SeenWalk(f, w), comp) = PathStep(T, SeenWalk(f, w), comp)
  BY WalkIsPathStep
<1>. QED BY <1>4, <1>5

LEMMA WalkSim ==
    ASSUME FsInv, NEW f, IsPaths(dirs, f), current_path = f[current_dir], NEW p \in Path
    PROVE  Tree!Dir(p) = Seen(f, get_dir_by_path(current_dir, p))
<1>1. /\ GoodTree(dirs) /\ current_dir \in DOMAIN dirs /\ Root \in DOMAIN dirs
      /\ NULL \notin DOMAIN dirs /\ f[Root] = <<>>
  BY RamfsAssumption DEF FsInv, CwdOK, GoodTree, Linked, NodesOK, IsPaths
<1>2. CASE p = NoPath
  <2>1. get_dir_by_path(current_dir, p) = NULL
    BY <1>2, Zenon DEF get_dir_by_path, NoPath
  <2>2. Tree!Dir(p) = NULL
    BY <1>2, Zenon DEF Tree!Dir, NoPath
  <2>. QED BY <2>1, <2>2 DEF Seen
<1>3. CASE p # NoPath
  <2>. DEFINE N == Len(p.comps)
              w == CHOOSE walk : WalkEq(dirs, current_dir, p, walk)
              u == CHOOSE walk : PathWalkEq(p, walk)
              v == [k \in 0..N |-> SeenWalk(f, w[k])]
              init == [at |-> IF p.abs THEN Root ELSE current_dir, done |-> FALSE]
              seen == [at |-> IF p.abs THEN <<>> ELSE current_path, done |-> FALSE]
  <2>1. N \in Nat /\ p.abs \in BOOLEAN /\ p.comps \in Seq(Str)
    BY LenProperties DEF Path, Str
  <2>2. WalkEq(dirs, current_dir, p, w) /\ w \in [0..N -> WalkState(dirs)]
    BY <1>1, WalkStays
  <2>3. get_dir_by_path(current_dir, p) = w[N].at
    BY <1>3, WalkDef
  <2>4. Tree!Dir(p) = u[N].at
    BY <1>3, DirDef
  <2>. HIDE DEF w
  <2>5. w[0] = init /\ \A k \in 1..N : w[k] = StepIn(dirs, w[k - 1], p.comps[k])
    <3>1. w = [k \in 0..N |-> IF k = 0 THEN init ELSE StepIn(dirs, w[k - 1], p.comps[k])]
      BY <2>2, Zenon DEF WalkEq
    <3>. HIDE DEF N, init
    <3>. QED BY <2>1, <3>1
  <2>6. v[0] = seen
    <3>1. v[0] = SeenWalk(f, init)
      <4>. HIDE DEF init
      <4>. QED BY <2>1, <2>5
    <3>2. Seen(f, IF p.abs THEN Root ELSE current_dir) = IF p.abs THEN <<>> ELSE current_path
      <4>1. CASE p.abs
        <5>1. Seen(f, Root) = <<>>
          BY <1>1 DEF Seen
        <5>. QED BY <4>1, <5>1, Zenon
      <4>2. CASE ~p.abs
        <5>1. Seen(f, current_dir) = current_path
          BY <1>1 DEF Seen
        <5>. QED BY <4>2, <5>1, Zenon
      <4>. QED BY <4>1, <4>2
    <3>3. ASSUME NEW a PROVE SeenWalk(f, [at |-> a, done |-> FALSE]) = [at |-> Seen(f, a), done |-> FALSE]
      BY DEF SeenWalk
    <3>. QED BY <3>1, <3>2, <3>3, Zenon
  <2>7. ASSUME NEW k \in 1..N PROVE v[k] = Tree!Walk(v[k - 1], p.comps[k])
    <3>1. k - 1 \in 0..N /\ k \in 0..N
      BY <2>1
    <3>2. v[k - 1] = SeenWalk(f, w[k - 1]) /\ v[k] = SeenWalk(f, w[k])
      BY <3>1
    <3>3. w[k - 1] \in WalkState(dirs) /\ p.comps[k] \in Str
      BY <2>1, <2>2, <3>1
    <3>4. w[k] = StepIn(dirs, w[k - 1], p.comps[k])
      BY <2>5
    <3>. DEFINE x == w[k - 1]
                c == p.comps[k]
    <3>5. Tree!Walk(SeenWalk(f, x), c) = SeenWalk(f, StepIn(dirs, x, c))
      <4>1. x \in WalkState(dirs) /\ c \in Str
        BY <3>3
      <4>. HIDE DEF x, c
      <4>. QED BY <4>1, FullyPathStep
    <3>. QED BY <3>2, <3>4, <3>5
  <2>8. PathWalkEq(p, v)
    <3>. DEFINE y == [k \in 0..N |-> IF k = 0 THEN seen ELSE Tree!Walk(v[k - 1], p.comps[k])]
    <3>1. ASSUME NEW k \in 0..N PROVE v[k] = y[k]
      <4>. HIDE DEF v, seen
      <4>. QED BY <2>1, <2>6, <2>7
    <3>2. v = y
      <4>1. v = [k \in 0..N |-> v[k]] /\ y = [k \in 0..N |-> y[k]]
        OBVIOUS
      <4>. HIDE DEF v, y, N
      <4>. QED BY <3>1, <4>1
    <3>. HIDE DEF v
    <3>. QED BY <3>2, Zenon DEF PathWalkEq
  <2>9. PathWalkEq(p, u)
    <3>. HIDE DEF v
    <3>. QED BY <2>8
  <2>. HIDE DEF u
  <2>10. u[0] = seen /\ \A k \in 1..N : u[k] = Tree!Walk(u[k - 1], p.comps[k])
    <3>1. u = [k \in 0..N |-> IF k = 0 THEN seen ELSE Tree!Walk(u[k - 1], p.comps[k])]
      BY <2>9, Zenon DEF PathWalkEq
    <3>. HIDE DEF N, seen
    <3>. QED BY <2>1, <3>1
  <2>. HIDE DEF v, seen, N
  <2>. DEFINE S == {k \in Nat : k <= N => u[k] = v[k]}
  <2>11. 0 \in S
    BY <2>6, <2>10
  <2>12. ASSUME NEW k \in Nat, k \in S PROVE k + 1 \in S
    <3>1. SUFFICES ASSUME k + 1 <= N PROVE u[k + 1] = v[k + 1]
      OBVIOUS
    <3>2. k + 1 \in 1..N /\ (k + 1) - 1 = k /\ u[k] = v[k]
      BY <2>1, <2>12, <3>1
    <3>3. /\ u[k + 1] = Tree!Walk(u[(k + 1) - 1], p.comps[k + 1])
          /\ v[k + 1] = Tree!Walk(v[(k + 1) - 1], p.comps[k + 1])
      BY <2>7, <2>10, <3>2
    <3>. QED BY <3>2, <3>3
  <2>13. Nat \subseteq S
    <3>. HIDE DEF S
    <3>. QED BY <2>11, <2>12, SetInduction
  <2>14. u[N] = v[N]
    BY <2>1, <2>13
  <2>15. v[N].at = Seen(f, w[N].at)
    <3>1. v[N] = SeenWalk(f, w[N])
      BY <2>1 DEF v
    <3>. QED BY <3>1 DEF SeenWalk
  <2>. QED BY <2>3, <2>4, <2>14, <2>15
<1>. QED BY <1>2, <1>3

-----------------------------------------------------------------------------
(* What the steps do to the mapped variables. *)
Good == FsInv /\ Owned(dirs, heap)

LEMMA PathsNext ==
    ASSUME FsInv', NEW g, IsPaths(dirs', g)
    PROVE  build_absolute_path' = g
<1>1. GoodTree(dirs')
  BY DEF FsInv
<1>. QED BY <1>1, BuildDefNext, PathsAre

LEMMA TreeIs ==
    /\ \A x : x \in PathTree <=> \E e \in DOMAIN dirs : build_absolute_path[e] = x
    /\ \A x : x \in PathTree' <=> \E e \in DOMAIN dirs' : build_absolute_path'[e] = x
<1>1. ASSUME NEW f PROVE \A x : x \in {f[d] : d \in DOMAIN dirs} <=> \E e \in DOMAIN dirs : f[e] = x
  OBVIOUS
<1>2. ASSUME NEW f PROVE \A x : x \in {f[d] : d \in DOMAIN dirs'} <=> \E e \in DOMAIN dirs' : f[e] = x
  OBVIOUS
<1>3. PathTree = {build_absolute_path[d] : d \in DOMAIN dirs}
  BY DEF PathTree
<1>4. PathTree' = {build_absolute_path'[d] : d \in DOMAIN dirs'}
  BY DEF PathTree
<1>. QED BY <1>1, <1>2, <1>3, <1>4, Zenon

(* Files that are the same, with the same data, in the same places. *)
LEMMA SameFiles ==
    ASSUME NEW D, NEW H, NEW f, NEW F, IsPathFiles(D, H, f, F),
           NEW E, NEW g, NEW G, IsPathFiles(E, H, g, G),
           \A d, n : /\ HasFile(E, d, n) <=> HasFile(D, d, n)
                     /\ HasFile(D, d, n) => Entry(E, d, n) = Entry(D, d, n) /\ g[d] = f[d]
    PROVE  G = F
<1>1. F = [x \in DOMAIN F |-> F[x]] /\ G = [x \in DOMAIN G |-> G[x]]
  BY Zenon DEF IsPathFiles
<1>2. ASSUME NEW x PROVE x \in DOMAIN F <=> x \in DOMAIN G
  <2>1. x \in DOMAIN F <=> \E d, n : HasFile(D, d, n) /\ x = Append(f[d], n)
    BY Zenon DEF IsPathFiles
  <2>2. x \in DOMAIN G <=> \E d, n : HasFile(E, d, n) /\ x = Append(g[d], n)
    BY Zenon DEF IsPathFiles
  <2>. QED BY <2>1, <2>2
<1>3. ASSUME NEW x \in DOMAIN F PROVE F[x] = G[x]
  <2>1. PICK d, n : HasFile(D, d, n) /\ x = Append(f[d], n)
    BY Zenon DEF IsPathFiles
  <2>2. F[x] = Read(H, Entry(D, d, n))
    BY <2>1, Zenon DEF IsPathFiles
  <2>3. HasFile(E, d, n) /\ Entry(E, d, n) = Entry(D, d, n) /\ x = Append(g[d], n)
    BY <2>1
  <2>4. G[x] = Read(H, Entry(E, d, n))
    BY <2>3, Zenon DEF IsPathFiles
  <2>. QED BY <2>2, <2>3, <2>4
<1>. QED BY <1>1, <1>2, <1>3

LEMMA SameView ==
    ASSUME Good, Good', dirs' = dirs, heap' = heap
    PROVE  PathTree' = PathTree /\ PathFiles' = PathFiles
<1>1. PathsView /\ PathsView'
  BY ViewHolds, ViewNext DEF Good
<1>2. IsPaths(dirs, build_absolute_path) /\ IsPathFiles(dirs, heap, build_absolute_path, PathFiles)
  BY <1>1 DEF PathsView
<1>3. build_absolute_path' = build_absolute_path
  BY <1>2, PathsNext DEF Good
<1>4. IsPathFiles(dirs', heap', build_absolute_path', PathFiles')
  BY <1>1 DEF PathsView
<1>5. PathFiles' = PathFiles
  <2>. DEFINE f == build_absolute_path
              F == PathFiles
              G == PathFiles'
  <2>1. IsPathFiles(dirs, heap, f, F) /\ IsPathFiles(dirs, heap, f, G)
    BY <1>2, <1>3, <1>4
  <2>2. F = G
    <3>. HIDE DEF f, F, G
    <3>. QED BY <2>1, SameFiles
  <2>. QED BY <2>2
<1>6. PathTree' = PathTree
  BY <1>3 DEF PathTree
<1>. QED BY <1>5, <1>6

(* A new directory is a new path, *)
LEMMA AddDirView ==
    ASSUME Good, Good', NEW p \in DOMAIN dirs, NEW n \in Str, ~NameTaken(p, n), AddDir(p, n),
           heap' = heap
    PROVE  /\ PathFiles' = PathFiles
           /\ PathTree' = PathTree \cup {Append(build_absolute_path[p], n)}
<1>. DEFINE c == NewDir
            f == build_absolute_path
            F == PathFiles
            G == PathFiles'
            g == Bind(f, c, Append(f[p], n))
<1>1. PathsView /\ PathsView' /\ GoodTree(dirs)
  BY ViewHolds, ViewNext DEF Good, FsInv
<1>2. IsPaths(dirs, f) /\ IsPathFiles(dirs, heap, f, F)
  BY <1>1 DEF PathsView
<1>3. c \in DirIds \ DOMAIN dirs
  BY DEF AddDir, NewDir
<1>4. dirs' = AddChild(dirs, p, n, c)
  <2>. HIDE DEF c
  <2>. QED BY DEF AddDir, AddChild, c
<1>5. IsPathFiles(dirs', heap', build_absolute_path', G)
  BY <1>1 DEF PathsView
<1>. HIDE DEF c, f, F, G
<1>6. n \in STRING /\ n \notin DOMAIN dirs[p].foder_map
  BY DEF NameTaken, Str
<1>7. IsPaths(dirs', g)
  BY <1>1, <1>2, <1>3, <1>4, <1>6, AddChildPaths
<1>8. build_absolute_path' = g
  <2>. HIDE DEF g
  <2>. QED BY <1>7, PathsNext DEF Good
<1>9. IsAddChild(dirs, p, n, c, dirs')
  BY <1>1, <1>3, <1>4, <1>6, AddChildFacts DEF GoodTree
<1>10. /\ DOMAIN dirs' = DOMAIN dirs \cup {c}
       /\ DOMAIN dirs'[c].file_map = {}
       /\ \A d \in DOMAIN dirs : dirs'[d].file_map = dirs[d].file_map
  BY <1>9, EmptyTable DEF IsAddChild
<1>11. DOMAIN f = DOMAIN dirs
  BY <1>2 DEF IsPaths
<1>12. g[c] = Append(f[p], n) /\ \A d \in DOMAIN dirs : g[d] = f[d]
  <2>1. ASSUME NEW a PROVE Bind(f, c, a)[c] = a /\ \A d \in DOMAIN dirs : Bind(f, c, a)[d] = f[d]
    BY <1>3, <1>11 DEF Bind
  <2>. QED BY <2>1, Zenon
<1>13. G = F
  <2>1. ASSUME NEW d, NEW m
        PROVE  /\ HasFile(dirs', d, m) <=> HasFile(dirs, d, m)
               /\ HasFile(dirs, d, m) => Entry(dirs', d, m) = Entry(dirs, d, m) /\ g[d] = f[d]
    <3>. HIDE DEF g
    <3>. QED BY <1>3, <1>10, <1>12 DEF HasFile, Entry
  <2>2. IsPathFiles(dirs', heap, g, G)
    BY <1>5, <1>8
  <2>. HIDE DEF g
  <2>. QED BY <1>2, <2>1, <2>2, SameFiles
<1>. DEFINE a == Append(f[p], n)
<1>14. PathTree' = PathTree \cup {a}
  <2>1. /\ \A x : x \in PathTree <=> \E e \in DOMAIN dirs : f[e] = x
        /\ \A x : x \in PathTree' <=> \E e \in DOMAIN dirs' : g[e] = x
    <3>. HIDE DEF g
    <3>. QED BY <1>8, TreeIs DEF f
  <2>2. g[c] = a
    BY <1>12
  <2>. DEFINE U == PathTree
              V == PathTree'
  <2>3. V = U \cup {a}
    <3>. HIDE DEF U, V, a, g
    <3>. QED BY <1>10, <1>12, <2>1, <2>2 DEF U, V
  <2>. QED BY <2>3
<1>. QED BY <1>13, <1>14 DEF f, F, G

(* removing an empty one removes a path, *)
LEMMA RmdirView ==
    ASSUME Good, Good', NEW n \in DOMAIN dirs[current_dir].foder_map,
           dirs[dirs[current_dir].foder_map[n]].foder_map = Empty,
           dirs[dirs[current_dir].foder_map[n]].file_map = Empty,
           dirs' = DropChild(dirs, current_dir, n), heap' = heap
    PROVE  /\ PathFiles' = PathFiles
           /\ PathTree' = PathTree \ {build_absolute_path[dirs[current_dir].foder_map[n]]}
<1>. DEFINE c == dirs[current_dir].foder_map[n]
            f == build_absolute_path
            F == PathFiles
            G == PathFiles'
            g == Unbind(f, c)
<1>1. PathsView /\ PathsView' /\ GoodTree(dirs) /\ current_dir \in DOMAIN dirs
  BY ViewHolds, ViewNext DEF Good, FsInv, CwdOK
<1>2. IsPaths(dirs, f) /\ IsPathFiles(dirs, heap, f, F)
  BY <1>1 DEF PathsView
<1>3. IsPathFiles(dirs', heap', build_absolute_path', G)
  BY <1>1 DEF PathsView
<1>4. DOMAIN dirs[c].foder_map = {} /\ DOMAIN dirs[c].file_map = {}
  BY EmptyTable
<1>. HIDE DEF c, f, F, G
<1>5. /\ c \in DOMAIN dirs \ {Root, current_dir} /\ IsDropChild(dirs, current_dir, n, c, dirs')
      /\ IsPaths(dirs', g)
  BY <1>1, <1>2, <1>4, DropChildTree DEF c
<1>6. build_absolute_path' = g
  <2>. HIDE DEF g
  <2>. QED BY <1>5, PathsNext DEF Good
<1>7. /\ DOMAIN dirs' = DOMAIN dirs \ {c}
      /\ \A d \in DOMAIN dirs' : dirs'[d].file_map = dirs[d].file_map
  BY <1>5 DEF IsDropChild
<1>8. DOMAIN f = DOMAIN dirs /\ \A d, e \in DOMAIN dirs : f[d] = f[e] => d = e
  BY <1>2 DEF IsPaths
<1>9. \A d \in DOMAIN dirs' : g[d] = f[d]
  BY <1>7, <1>8 DEF Unbind
<1>. HIDE DEF g
<1>10. G = F
  <2>1. ASSUME NEW d, NEW m
        PROVE  /\ HasFile(dirs', d, m) <=> HasFile(dirs, d, m)
               /\ HasFile(dirs, d, m) => Entry(dirs', d, m) = Entry(dirs, d, m) /\ g[d] = f[d]
    BY <1>4, <1>7, <1>9 DEF HasFile, Entry
  <2>2. IsPathFiles(dirs', heap, g, G)
    BY <1>3, <1>6
  <2>. QED BY <1>2, <2>1, <2>2, SameFiles
<1>11. PathTree' = PathTree \ {f[c]}
  <2>1. /\ \A x : x \in PathTree <=> \E e \in DOMAIN dirs : f[e] = x
        /\ \A x : x \in PathTree' <=> \E e \in DOMAIN dirs' : g[e] = x
    BY <1>6, TreeIs DEF f
  <2>. DEFINE U == PathTree
              V == PathTree'
              a == f[c]
  <2>2. V = U \ {a}
    <3>1. ASSUME NEW x, x \in V PROVE x \in U /\ x # a
      BY <3>1, <1>5, <1>7, <1>8, <1>9, <2>1
    <3>2. ASSUME NEW x, x \in U, x # a PROVE x \in V
      BY <3>2, <1>5, <1>7, <1>9, <2>1
    <3>. HIDE DEF U, V, a
    <3>. QED BY <3>1, <3>2
  <2>. QED BY <2>2
<1>. QED BY <1>10, <1>11 DEF f, F, G, c

(* and a change of one file changes what its path holds. *)
IsOneFile(F, G, E, K, p, n, a) ==
    /\ HasFile(E, p, n) => G = Bind(F, a, Read(K, Entry(E, p, n)))
    /\ ~HasFile(E, p, n) => G = Unbind(F, a)

LEMMA OneFileChanged ==
    ASSUME NEW D, GoodTree(D), NEW H, Owned(D, H), NEW f, IsPaths(D, f),
           NEW F, IsPathFiles(D, H, f, F),
           NEW E, NEW K, NEW G, IsPathFiles(E, K, f, G),
           NEW p \in DOMAIN D, NEW n \in Str, NEW q, NEW r,
           OtherFilesSame(D, E, p, n), PtrIs(D, p, n, q), Exchanged(H, K, q, r)
    PROVE  IsOneFile(F, G, E, K, p, n, Append(f[p], n))
<1>. DEFINE a == Append(f[p], n)
<1>1. F = [x \in DOMAIN F |-> F[x]] /\ G = [x \in DOMAIN G |-> G[x]]
  BY Zenon DEF IsPathFiles
<1>2. ASSUME NEW d, NEW m, HasFile(D, d, m), ~(d = p /\ m = n)
      PROVE  /\ HasFile(E, d, m) /\ Read(K, Entry(E, d, m)) = Read(H, Entry(D, d, m))
             /\ Append(f[d], m) # a
  <2>1. HasFile(E, d, m) /\ Entry(E, d, m) = Entry(D, d, m)
    BY <1>2 DEF OtherFilesSame
  <2>2. ASSUME Entry(D, d, m).ptr = NULL
        PROVE  Read(K, Entry(E, d, m)) = Read(H, Entry(D, d, m))
    BY <2>1, <2>2 DEF Read
  <2>3. ASSUME Entry(D, d, m).ptr # NULL
        PROVE  Read(K, Entry(E, d, m)) = Read(H, Entry(D, d, m))
    <3>1. Entry(D, d, m).ptr \in DOMAIN H
      BY <1>2, <2>3 DEF Owned, PtrsOK
    <3>2. Entry(D, d, m).ptr # q
      BY <1>2, <2>3 DEF Owned, Unshared, PtrIs
    <3>3. K[Entry(D, d, m).ptr] = H[Entry(D, d, m).ptr]
      BY <3>1, <3>2 DEF Exchanged
    <3>. QED BY <2>1, <2>3, <3>3 DEF Read
  <2>4. Append(f[d], m) # a
    <3>1. d \in DOMAIN D /\ m \in Str
      BY <1>2, FileNames
    <3>2. Append(f[d], m) = Append(f[p], n) => d = p /\ m = n
      BY <3>1, PathsDiffer
    <3>. QED BY <3>2, <1>2
  <2>. QED BY <2>1, <2>2, <2>3, <2>4
<1>3. ASSUME NEW d, NEW m, HasFile(E, d, m), ~(d = p /\ m = n) PROVE HasFile(D, d, m)
  BY <1>3 DEF OtherFilesSame
<1>4. ASSUME NEW x, x # a PROVE x \in DOMAIN G <=> x \in DOMAIN F
  <2>1. /\ x \in DOMAIN F <=> \E d, m : HasFile(D, d, m) /\ x = Append(f[d], m)
        /\ x \in DOMAIN G <=> \E d, m : HasFile(E, d, m) /\ x = Append(f[d], m)
    BY Zenon DEF IsPathFiles
  <2>2. ASSUME x \in DOMAIN G PROVE x \in DOMAIN F
    <3>1. PICK d, m : HasFile(E, d, m) /\ x = Append(f[d], m)
      BY <2>1, <2>2
    <3>2. ~(d = p /\ m = n)
      BY <3>1, <1>4
    <3>. QED BY <2>1, <3>1, <3>2, <1>3
  <2>3. ASSUME x \in DOMAIN F PROVE x \in DOMAIN G
    <3>1. PICK d, m : HasFile(D, d, m) /\ x = Append(f[d], m)
      BY <2>1, <2>3
    <3>2. ~(d = p /\ m = n)
      BY <3>1, <1>4
    <3>. QED BY <2>1, <3>1, <3>2, <1>2
  <2>. QED BY <2>2, <2>3
<1>5. ASSUME NEW x \in DOMAIN F, x # a PROVE G[x] = F[x]
  <2>1. PICK d, m : HasFile(D, d, m) /\ x = Append(f[d], m)
    BY Zenon DEF IsPathFiles
  <2>2. ~(d = p /\ m = n)
    BY <2>1, <1>5
  <2>3. HasFile(E, d, m) /\ Read(K, Entry(E, d, m)) = Read(H, Entry(D, d, m))
    BY <2>1, <2>2, <1>2
  <2>4. F[x] = Read(H, Entry(D, d, m))
    BY <2>1, Zenon DEF IsPathFiles
  <2>5. G[x] = Read(K, Entry(E, d, m))
    BY <2>1, <2>3, Zenon DEF IsPathFiles
  <2>. QED BY <2>3, <2>4, <2>5
<1>6. ASSUME HasFile(E, p, n) PROVE G = Bind(F, a, Read(K, Entry(E, p, n)))
  <2>. DEFINE v == Read(K, Entry(E, p, n))
  <2>1. a \in DOMAIN G /\ G[a] = v
    BY <1>6, Zenon DEF IsPathFiles
  <2>. HIDE DEF v, a
  <2>2. G = Bind(F, a, v)
    BY <1>1, <1>4, <1>5, <2>1 DEF Bind
  <2>. QED BY <2>2 DEF v
<1>7. ASSUME ~HasFile(E, p, n) PROVE G = Unbind(F, a)
  <2>1. a \notin DOMAIN G
    <3>1. SUFFICES ASSUME a \in DOMAIN G PROVE FALSE
      OBVIOUS
    <3>2. PICK d, m : HasFile(E, d, m) /\ a = Append(f[d], m)
      BY <3>1, Zenon DEF IsPathFiles
    <3>3. ~(d = p /\ m = n)
      BY <3>2, <1>7
    <3>. QED BY <3>2, <3>3, <1>2, <1>3
  <2>. HIDE DEF a
  <2>. QED BY <1>1, <1>4, <1>5, <2>1 DEF Unbind
<1>. QED BY <1>6, <1>7, Zenon DEF IsOneFile

LEMMA FileView ==
    ASSUME Good, Good', NEW p \in DOMAIN dirs, NEW n \in Str, NEW g \in Table(FileInfo),
           \A m \in DOMAIN g : m \notin DOMAIN dirs[p].foder_map,
           dirs' = SetFiles(dirs, p, g), NEW q, NEW r,
           OtherFilesSame(dirs, dirs', p, n), PtrIs(dirs, p, n, q), Exchanged(heap, heap', q, r)
    PROVE  /\ PathTree' = PathTree
           /\ HasFile(dirs', p, n) =>
                PathFiles' = Bind(PathFiles, Append(build_absolute_path[p], n),
                                  Read(heap', Entry(dirs', p, n)))
           /\ ~HasFile(dirs', p, n) =>
                PathFiles' = Unbind(PathFiles, Append(build_absolute_path[p], n))
<1>. DEFINE f == build_absolute_path
            F == PathFiles
            G == PathFiles'
<1>1. PathsView /\ PathsView' /\ GoodTree(dirs) /\ Owned(dirs, heap)
  BY ViewHolds, ViewNext DEF Good, FsInv
<1>2. IsPaths(dirs, f) /\ IsPathFiles(dirs, heap, f, F)
  BY <1>1 DEF PathsView
<1>3. IsPathFiles(dirs', heap', build_absolute_path', G)
  BY <1>1 DEF PathsView
<1>. HIDE DEF f, F, G
<1>4. IsSetFiles(dirs, p, g, dirs') /\ IsPaths(dirs', f)
  BY <1>1, <1>2, SetFilesTree
<1>5. build_absolute_path' = f
  BY <1>4, PathsNext DEF Good
<1>6. PathTree' = PathTree
  <2>1. DOMAIN dirs' = DOMAIN dirs
    BY <1>4 DEF IsSetFiles
  <2>. QED BY <1>5, <2>1 DEF PathTree, f
<1>7. PICK E : E = dirs'
  OBVIOUS
<1>8. PICK K : K = heap'
  OBVIOUS
<1>9. IsPathFiles(E, K, f, G) /\ OtherFilesSame(dirs, E, p, n) /\ Exchanged(heap, K, q, r)
  BY <1>3, <1>5, <1>7, <1>8
<1>10. IsOneFile(F, G, E, K, p, n, Append(f[p], n))
  BY <1>1, <1>2, <1>9, OneFileChanged
<1>. QED BY <1>6, <1>7, <1>8, <1>10, Zenon DEF f, F, G, IsOneFile

(* What the commands look up, and what FileTree's operators say of it. *)
LEMMA GoodFacts ==
    ASSUME Good
    PROVE  /\ GoodTree(dirs) /\ current_dir \in DOMAIN dirs /\ NULL \notin DOMAIN dirs
           /\ IsPaths(dirs, build_absolute_path)
           /\ IsPathFiles(dirs, heap, build_absolute_path, PathFiles)
           /\ current_path = build_absolute_path[current_dir]
<1>1. GoodTree(dirs) /\ current_dir \in DOMAIN dirs
  BY DEF Good, FsInv, CwdOK
<1>2. NULL \notin DOMAIN dirs
  BY <1>1, RamfsAssumption DEF GoodTree, NodesOK
<1>3. PathsView
  BY ViewHolds DEF Good
<1>. QED BY <1>1, <1>2, <1>3 DEF PathsView

LEMMA NameIs ==
    ASSUME Good, NEW d \in DOMAIN dirs, NEW n \in Str
    PROVE  /\ n \in DOMAIN dirs[d].foder_map <=> Append(build_absolute_path[d], n) \in PathTree
           /\ n \in DOMAIN dirs[d].foder_map =>
                build_absolute_path[dirs[d].foder_map[n]] = Append(build_absolute_path[d], n)
           /\ n \in DOMAIN dirs[d].file_map <=> Append(build_absolute_path[d], n) \in DOMAIN PathFiles
           /\ n \in DOMAIN dirs[d].file_map =>
                PathFiles[Append(build_absolute_path[d], n)] = Read(heap, dirs[d].file_map[n])
           /\ Tree!Taken(Append(build_absolute_path[d], n)) <=> NameTaken(d, n)
<1>. DEFINE f == build_absolute_path
            F == PathFiles
<1>1. GoodTree(dirs) /\ IsPaths(dirs, f) /\ IsPathFiles(dirs, heap, f, F)
  BY GoodFacts
<1>2. \A x : x \in PathTree <=> \E e \in DOMAIN dirs : f[e] = x
  BY TreeIs
<1>3. Tree!Taken(Append(f[d], n)) <=> Append(f[d], n) \in PathTree \/ Append(f[d], n) \in DOMAIN F
  BY DEF Tree!Taken
<1>. HIDE DEF f, F
<1>4. /\ n \in DOMAIN dirs[d].foder_map <=> \E e \in DOMAIN dirs : f[e] = Append(f[d], n)
      /\ n \in DOMAIN dirs[d].foder_map =>
           /\ dirs[d].foder_map[n] \in DOMAIN dirs
           /\ f[dirs[d].foder_map[n]] = Append(f[d], n)
  BY <1>1, ChildPath
<1>5. /\ n \in DOMAIN dirs[d].file_map <=> Append(f[d], n) \in DOMAIN F
      /\ n \in DOMAIN dirs[d].file_map => F[Append(f[d], n)] = Read(heap, dirs[d].file_map[n])
  BY <1>1, FilePath
<1>6. Append(f[d], n) \in PathTree <=> \E e \in DOMAIN dirs : f[e] = Append(f[d], n)
  BY <1>2
<1>7. NameTaken(d, n) <=> n \in DOMAIN dirs[d].foder_map \/ n \in DOMAIN dirs[d].file_map
  BY DEF NameTaken
<1>. QED BY <1>3, <1>4, <1>5, <1>6, <1>7 DEF f, F

LEMMA PathNotNull ==
    ASSUME Good, NEW d \in DOMAIN dirs \cup {NULL}
    PROVE  /\ Seen(build_absolute_path, d) = NULL <=> d = NULL
           /\ d # NULL => Seen(build_absolute_path, d) = build_absolute_path[d]
<1>1. \A e \in DOMAIN dirs : build_absolute_path[e] \in Seq(STRING)
  BY GoodFacts DEF IsPaths
<1>. QED BY <1>1, RamfsAssumption DEF Seen

LEMMA FrontPath ==
    ASSUME NEW p \in Path, Len(p.comps) > 1
    PROVE  [p EXCEPT !.comps = Front(p.comps)] \in Path
<1>1. p.comps \in Seq(STRING)
  BY DEF Path
<1>. DEFINE s == p.comps
<1>2. Front(s) \in Seq(STRING) /\ Front(s) # <<>>
  <2>1. s \in Seq(STRING) /\ Len(s) > 1
    BY <1>1
  <2>. HIDE DEF s
  <2>2. Front(s) = SubSeq(s, 1, Len(s) - 1)
    BY DEF Front
  <2>. DEFINE m == Len(s) - 1
  <2>3. m \in Nat /\ m # 0 /\ m <= Len(s)
    <3>1. PICK k \in Nat : k = Len(s)
      BY <2>1, LenProperties
    <3>2. k > 1
      BY <2>1, <3>1
    <3>3. k - 1 \in Nat /\ k - 1 # 0 /\ k - 1 <= k
      BY <3>2
    <3>. QED BY <3>1, <3>3
  <2>. DEFINE t == SubSeq(s, 1, m)
  <2>4. t \in Seq(STRING) /\ Len(t) = m
    <3>. HIDE DEF m
    <3>. QED BY <2>1, <2>3
  <2>5. t # <<>>
    <3>. HIDE DEF m, t
    <3>. QED BY <2>3, <2>4
  <2>. QED BY <2>2, <2>4, <2>5, Zenon
<1>3. Front(p.comps) \in Seq(STRING) \ {<<>>}
  BY <1>2
<1>. QED BY <1>3 DEF Path

(* The directory a file is looked up in. *)
LEMMA ParentIs ==
    ASSUME Good, NEW p \in Path
    PROVE  /\ parent_of(p) \in DOMAIN dirs \cup {NULL}
           /\ Tree!DirOf(p) = Seen(build_absolute_path, parent_of(p))
<1>. DEFINE f == build_absolute_path
<1>1. /\ FsInv /\ GoodTree(dirs) /\ current_dir \in DOMAIN dirs /\ NULL \notin DOMAIN dirs
      /\ IsPaths(dirs, f) /\ current_path = f[current_dir]
  BY GoodFacts DEF Good
<1>. HIDE DEF f
<1>2. CASE Len(p.comps) > 1
  <2>. DEFINE q == [p EXCEPT !.comps = Front(p.comps)]
  <2>1. q \in Path
    BY <1>2, FrontPath
  <2>2. parent_of(p) = get_dir_by_path(current_dir, q)
    BY <1>2, Zenon DEF parent_of
  <2>3. Tree!DirOf(p) = Tree!Dir(q)
    BY <1>2, Zenon DEF Tree!DirOf, Tree!Front, Front
  <2>. HIDE DEF q
  <2>4. get_dir_by_path(current_dir, q) \in DOMAIN dirs \cup {NULL}
    BY <1>1, <2>1, WalkResolves
  <2>5. Tree!Dir(q) = Seen(f, get_dir_by_path(current_dir, q))
    BY <1>1, <2>1, WalkSim
  <2>. QED BY <2>2, <2>3, <2>4, <2>5 DEF f
<1>3. CASE ~(Len(p.comps) > 1) /\ p.abs
  <2>1. parent_of(p) = NULL
    BY <1>3, Zenon DEF parent_of
  <2>2. Tree!DirOf(p) = NULL
    BY <1>3, Zenon DEF Tree!DirOf
  <2>. QED BY <2>1, <2>2 DEF Seen
<1>4. CASE ~(Len(p.comps) > 1) /\ ~p.abs
  <2>1. parent_of(p) = current_dir
    BY <1>4, Zenon DEF parent_of
  <2>2. Tree!DirOf(p) = current_path
    BY <1>4, Zenon DEF Tree!DirOf
  <2>. QED BY <1>1, <2>1, <2>2 DEF Seen, f
<1>. QED BY <1>2, <1>3, <1>4, Zenon

LEMMA TargetIs ==
    ASSUME Good, NEW p \in Paths
    PROVE  /\ p \in Path /\ file_name(p) \in Str
           /\ Tree!Unnamed(p) <=> file_name(p) = ""
           /\ parent_of(p) \in DOMAIN dirs \cup {NULL}
           /\ Tree!DirOf(p) = NULL <=> parent_of(p) = NULL
           /\ parent_of(p) # NULL =>
                Tree!Target(p) = Append(build_absolute_path[parent_of(p)], file_name(p))
<1>1. p \in Path /\ file_name(p) \in Str
  BY RamfsAssumption, FileName DEF Str
<1>2. Tree!Unnamed(p) <=> file_name(p) = ""
  BY Zenon DEF Tree!Unnamed, file_name, Last, Tree!Last
<1>3. /\ parent_of(p) \in DOMAIN dirs \cup {NULL}
      /\ Tree!DirOf(p) = Seen(build_absolute_path, parent_of(p))
  BY <1>1, ParentIs
<1>4. Tree!Target(p) = Append(Tree!DirOf(p), file_name(p))
  BY Zenon DEF Tree!Target, file_name, Last, Tree!Last
<1>5. /\ Seen(build_absolute_path, parent_of(p)) = NULL <=> parent_of(p) = NULL
      /\ parent_of(p) # NULL =>
           Seen(build_absolute_path, parent_of(p)) = build_absolute_path[parent_of(p)]
  BY <1>3, PathNotNull
<1>. QED BY <1>1, <1>2, <1>3, <1>4, <1>5, Zenon

LEMMA ReturnRefuses ==
    ASSUME Good, Good', NEW call, NEW ret, Return(call, ret)
    PROVE  Tree!Refuse(call, ret)
<1>1. /\ dirs' = dirs /\ heap' = heap /\ current_path' = current_path
      /\ last' = [call |-> call, ret |-> ret]
  BY DEF Return, Result
<1>2. PathTree' = PathTree /\ PathFiles' = PathFiles
  BY <1>1, SameView
<1>. QED BY <1>1, <1>2 DEF Tree!Refuse, Tree!Result

(* A file holds as many characters as its entry says. *)
LEMMA ReadFacts ==
    ASSUME Good, NEW d \in DOMAIN dirs, NEW n \in DOMAIN dirs[d].file_map
    PROVE  /\ dirs[d].file_map[n].length \in Nat
           /\ Read(heap, dirs[d].file_map[n]) \in Seq(STRING)
           /\ Len(Read(heap, dirs[d].file_map[n])) = dirs[d].file_map[n].length
           /\ Contents(dirs[d].file_map[n]) = Read(heap, dirs[d].file_map[n])
<1>. DEFINE info == dirs[d].file_map[n]
<1>1. HasFile(dirs, d, n) /\ Entry(dirs, d, n) = info
  BY DEF HasFile, Entry
<1>2. GoodTree(dirs) /\ Owned(dirs, heap) /\ PtrsOK(dirs, heap) /\ BlocksOK(heap)
  BY DEF Good, FsInv, Owned
<1>3. info \in FileInfo
  BY <1>1, <1>2, FileNames
<1>4. Contents(info) = Read(heap, info)
  BY <1>1, <1>2, ContentsAre DEF Read
<1>5. IF info.ptr = NULL THEN info.length = 0
      ELSE info.ptr \in DOMAIN heap /\ info.length = Len(heap[info.ptr])
  BY <1>1, <1>2 DEF PtrsOK
<1>6. CASE info.ptr = NULL
  <2>1. Read(heap, info) = <<>> /\ info.length = 0
    BY <1>5, <1>6 DEF Read
  <2>. QED BY <1>4, <2>1
<1>7. CASE info.ptr # NULL
  <2>1. Read(heap, info) = heap[info.ptr] /\ info.ptr \in DOMAIN heap
    BY <1>5, <1>7 DEF Read
  <2>2. heap[info.ptr] \in Seq(STRING)
    BY <1>2, <2>1 DEF BlocksOK
  <2>. QED BY <1>3, <1>4, <1>5, <1>7, <2>1, <2>2 DEF FileInfo
<1>. QED BY <1>6, <1>7

-----------------------------------------------------------------------------
(* Each command is the command of the same name on paths. *)
LEMMA MkdirSim ==
    ASSUME Good, Good', NEW n \in Names, fs_mkdir(n)
    PROVE  Tree!Mkdir(n)
<1>. DEFINE path == Append(current_path, n)
            call == <<"mkdir", n>>
            made == /\ ~NameTaken(current_dir, n)
                    /\ AddDir(current_dir, n)
                    /\ Result(call, "ok")
                    /\ heap' = heap /\ current_path' = current_path
<1>1. n \in Str /\ current_dir \in DOMAIN dirs /\ current_path = build_absolute_path[current_dir]
  BY RamfsAssumption, GoodFacts DEF Str
<1>2. Tree!Taken(path) <=> NameTaken(current_dir, n)
  BY <1>1, NameIs
<1>3. \/ NameTaken(current_dir, n) /\ Return(call, "exists")
      \/ ~NameTaken(current_dir, n) /\ Return(call, "nomem")
      \/ made
  BY Zenon DEF fs_mkdir
<1>4. CASE NameTaken(current_dir, n) /\ Return(call, "exists")
  <2>1. Tree!Refuse(call, "exists")
    BY <1>4, ReturnRefuses, Zenon
  <2>. QED BY <1>2, <1>4, <2>1, Zenon DEF Tree!Mkdir
<1>5. CASE ~NameTaken(current_dir, n) /\ Return(call, "nomem")
  <2>1. Tree!Refuse(call, "nomem")
    BY <1>5, ReturnRefuses, Zenon
  <2>. QED BY <1>2, <1>5, <2>1, Zenon DEF Tree!Mkdir
<1>6. CASE made
  <2>1. PathFiles' = PathFiles /\ PathTree' = PathTree \cup {path}
    BY <1>1, <1>6, AddDirView
  <2>2. Tree!Result(call, "ok")
    BY <1>6, Zenon DEF Result, Tree!Result
  <2>. QED BY <1>2, <1>6, <2>1, <2>2, Zenon DEF Tree!Mkdir
<1>. QED BY <1>3, <1>4, <1>5, <1>6

LEMMA CatSim ==
    ASSUME Good, Good', NEW n \in Names, fs_cat(n)
    PROVE  Tree!Cat(n)
<1>. DEFINE path == Append(current_path, n)
            files == dirs[current_dir].file_map
<1>1. n \in Str /\ current_dir \in DOMAIN dirs /\ current_path = build_absolute_path[current_dir]
  BY RamfsAssumption, GoodFacts DEF Str
<1>2. /\ n \in DOMAIN files <=> path \in DOMAIN PathFiles
      /\ n \in DOMAIN files => PathFiles[path] = Read(heap, files[n])
  BY <1>1, NameIs
<1>3. \/ n \notin DOMAIN files /\ Return(<<"cat", n>>, "notfound")
      \/ n \in DOMAIN files /\ Return(<<"cat", n, Contents(files[n])>>, "ok")
  BY Zenon DEF fs_cat
<1>4. CASE n \notin DOMAIN files /\ Return(<<"cat", n>>, "notfound")
  <2>1. Tree!Refuse(<<"cat", n>>, "notfound")
    BY <1>4, ReturnRefuses, Zenon
  <2>. QED BY <1>2, <1>4, <2>1, Zenon DEF Tree!Cat
<1>5. CASE n \in DOMAIN files /\ Return(<<"cat", n, Contents(files[n])>>, "ok")
  <2>1. Tree!Refuse(<<"cat", n, Contents(files[n])>>, "ok")
    BY <1>5, ReturnRefuses, Zenon
  <2>2. Contents(files[n]) = PathFiles[path]
    BY <1>1, <1>2, <1>5, ReadFacts
  <2>. QED BY <1>2, <1>5, <2>1, <2>2, Zenon DEF Tree!Cat
<1>. QED BY <1>3, <1>4, <1>5

LEMMA CdSim ==
    ASSUME Good, Good', NEW p \in Paths, fs_cd(p)
    PROVE  Tree!Cd(p)
<1>. DEFINE call == <<"cd", p>>
            d == get_dir_by_path(current_dir, p)
            f == build_absolute_path
            moved == /\ d \in DOMAIN dirs
                     /\ current_path' = f[d]
                     /\ Result(call, "ok")
                     /\ dirs' = dirs /\ heap' = heap
<1>1. /\ FsInv /\ GoodTree(dirs) /\ current_dir \in DOMAIN dirs /\ NULL \notin DOMAIN dirs
      /\ IsPaths(dirs, f) /\ current_path = f[current_dir] /\ p \in Path
  BY RamfsAssumption, GoodFacts DEF Good
<1>2. d \in DOMAIN dirs \cup {NULL}
  BY <1>1, WalkResolves
<1>3. Tree!Dir(p) = Seen(f, d)
  <2>. HIDE DEF f
  <2>. QED BY <1>1, WalkSim
<1>4. (Seen(f, d) = NULL <=> d = NULL) /\ (d # NULL => Seen(f, d) = f[d])
  BY <1>2, PathNotNull
<1>5. (d = NULL /\ Return(call, "noparent")) \/ moved
  BY Zenon DEF fs_cd
<1>. HIDE DEF d, f
<1>6. CASE d = NULL /\ Return(call, "noparent")
  <2>1. Tree!Refuse(call, "noparent")
    BY <1>6, ReturnRefuses, Zenon
  <2>. QED BY <1>3, <1>4, <1>6, <2>1, Zenon DEF Tree!Cd
<1>7. CASE moved
  <2>1. PathTree' = PathTree /\ PathFiles' = PathFiles
    BY <1>7, SameView
  <2>2. Tree!Result(call, "ok")
    BY <1>7, Zenon DEF Result, Tree!Result
  <2>3. d # NULL
    BY <1>1, <1>7
  <2>4. Tree!Dir(p) # NULL /\ current_path' = Tree!Dir(p)
    BY <1>3, <1>4, <1>7, <2>3
  <2>. QED BY <2>1, <2>2, <2>4, Zenon DEF Tree!Cd
<1>. QED BY <1>5, <1>6, <1>7

(* mkdir -p makes one path after the other, or nothing. *)
LEMMA MkdirPSim ==
    ASSUME Good, Good', mkdir_p_step
    PROVE  Tree!MkdirDeep \/ UNCHANGED <<PathTree, PathFiles, current_path, last>>
<1>1. heap' = heap /\ current_path' = current_path /\ last' = last
  BY Zenon DEF mkdir_p_step
<1>. DEFINE c == Head(job.todo)
            d == job.at
            made == AddDir(d, c) /\ ~NameTaken(d, c)
<1>2. dirs' = dirs \/ made
  BY Zenon DEF mkdir_p_step
<1>3. job # NULL /\ ~mkdir_p_ended
  BY Zenon DEF mkdir_p_step
<1>4. d \in DOMAIN dirs /\ job.todo \in Seq(STRING)
  BY <1>3 DEF Good, FsInv, JobOK
<1>5. job.todo # <<>>
  BY <1>3, Zenon DEF mkdir_p_ended
<1>6. c \in Str
  BY <1>4, <1>5 DEF Str
<1>. HIDE DEF c, d
<1>7. CASE dirs' = dirs
  BY <1>1, <1>7, SameView
<1>8. CASE made
  <2>. DEFINE s == build_absolute_path[d]
              path == Append(s, c)
  <2>1. PathFiles' = PathFiles /\ PathTree' = PathTree \cup {path}
    BY <1>1, <1>4, <1>6, <1>8, AddDirView
  <2>2. s \in Seq(Str) /\ s \in PathTree
    <3>1. s \in Seq(Str)
      BY <1>4, GoodFacts, PathsAreStr
    <3>2. s \in PathTree
      BY <1>4, TreeIs
    <3>. QED BY <3>1, <3>2
  <2>3. path # <<>> /\ Front(path) = s
    <3>. HIDE DEF s
    <3>. QED BY <1>6, <2>2, FrontAppend
  <2>4. ~Tree!Taken(path)
    BY <1>4, <1>6, <1>8, NameIs
  <2>5. path \notin PathTree
    BY <2>4, Zenon DEF Tree!Taken
  <2>. HIDE DEF path, s
  <2>6. path \in PathTree' \ PathTree
    BY <2>1, <2>5
  <2>7. Tree!Front(path) \in PathTree
    BY <2>2, <2>3, Zenon DEF Tree!Front, Front
  <2>. QED BY <1>1, <2>1, <2>3, <2>4, <2>6, <2>7, Zenon DEF Tree!MkdirDeep
<1>. QED BY <1>2, <1>7, <1>8

LEMMA MkdirPReportsSim ==
    ASSUME Good, Good', mkdir_p_return \/ \E p \in DeepPaths : mkdir_p(p)
    PROVE  Tree!MkdirDeepReports
<1>1. dirs' = dirs /\ heap' = heap /\ current_path' = current_path
  BY Zenon DEF mkdir_p, mkdir_p_return
<1>2. \E ret \in {"begun", "ok", "failed"} : last' = [call |-> <<"mkdir -p">>, ret |-> ret]
  <2>1. Result(<<"mkdir -p">>, "begun") \/ Result(<<"mkdir -p">>, "ok") \/ Result(<<"mkdir -p">>, "failed")
    BY Zenon DEF mkdir_p, mkdir_p_return
  <2>. QED BY <2>1, Zenon DEF Result
<1>3. PathTree' = PathTree /\ PathFiles' = PathFiles
  BY <1>1, SameView
<1>. QED BY <1>1, <1>2, <1>3, Zenon DEF Tree!MkdirDeepReports, Tree!Refuse, Tree!Result

(* A directory that is empty in its tables is one no path leads through. *)
EmptyIn(T, F, path) == \A q \in T \cup DOMAIN F : q = <<>> \/ Front(q) # path

LEMMA EmptyIs ==
    ASSUME Good, NEW c \in DOMAIN dirs
    PROVE  (dirs[c].foder_map = Empty /\ dirs[c].file_map = Empty)
             <=> EmptyIn(PathTree, PathFiles, build_absolute_path[c])
<1>. DEFINE f == build_absolute_path
            F == PathFiles
            T == PathTree
<1>1. GoodTree(dirs) /\ IsPaths(dirs, f) /\ IsPathFiles(dirs, heap, f, F)
  BY GoodFacts
<1>2. \A x : x \in T <=> \E e \in DOMAIN dirs : f[e] = x
  BY TreeIs
<1>. HIDE DEF f, F, T
<1>3. /\ dirs[c].foder_map = Empty <=> DOMAIN dirs[c].foder_map = {}
      /\ dirs[c].file_map = Empty <=> DOMAIN dirs[c].file_map = {}
  <2>1. dirs[c].foder_map \in Table(DirIds) /\ dirs[c].file_map \in Table(FileInfo)
    BY <1>1, NodeTypes DEF GoodTree
  <2>2. ASSUME NEW V, NEW t \in Table(V) PROVE t = Empty <=> DOMAIN t = {}
    <3>1. t \in [DOMAIN t -> V]
      BY TableFacts
    <3>. QED BY <3>1 DEF Empty
  <2>. QED BY <2>1, <2>2
<1>4. \A d \in DOMAIN dirs : f[d] \in Seq(Str)
  BY <1>1, PathsAreStr
<1>5. \A d, e \in DOMAIN dirs : f[d] = f[e] => d = e
  BY <1>1 DEF IsPaths
<1>6. ASSUME NEW d \in DOMAIN dirs, NEW m \in Str
      PROVE  Append(f[d], m) # <<>> /\ Front(Append(f[d], m)) = f[d]
  <2>. DEFINE s == f[d]
  <2>1. s \in Seq(Str)
    BY <1>4
  <2>2. Append(s, m) # <<>> /\ Front(Append(s, m)) = s
    <3>. HIDE DEF s
    <3>. QED BY <2>1, FrontAppend
  <2>. QED BY <2>2
<1>7. ASSUME DOMAIN dirs[c].foder_map = {}, DOMAIN dirs[c].file_map = {}, NEW q \in T \cup DOMAIN F
      PROVE  q = <<>> \/ Front(q) # f[c]
  <2>1. CASE q \in T
    <3>1. PICK e \in DOMAIN dirs : f[e] = q
      BY <1>2, <2>1
    <3>2. CASE e = Root
      BY <3>1, <3>2, <1>1, RootPath
    <3>3. CASE e # Root
      <4>1. dirs[e].parent \in DOMAIN dirs /\ Front(f[e]) = f[dirs[e].parent]
        BY <3>3, <1>1, RootPath
      <4>2. dirs[e].name \in DOMAIN dirs[dirs[e].parent].foder_map
        BY <3>3, <1>1 DEF GoodTree, Linked
      <4>3. dirs[e].parent # c
        BY <4>2, <1>7
      <4>. QED BY <3>1, <4>1, <4>3, <1>5
    <3>. QED BY <3>2, <3>3
  <2>2. CASE q \in DOMAIN F
    <3>1. PICK d, m : HasFile(dirs, d, m) /\ q = Append(f[d], m)
      BY <1>1, <2>2, Zenon DEF IsPathFiles
    <3>2. d \in DOMAIN dirs /\ m \in Str
      BY <1>1, <3>1, FileNames
    <3>3. d # c
      BY <3>1, <1>7 DEF HasFile
    <3>4. f[d] # f[c]
      BY <3>2, <3>3, <1>5
    <3>5. Front(q) = f[d]
      BY <3>1, <3>2, <1>6
    <3>. QED BY <3>4, <3>5
  <2>. QED BY <2>1, <2>2
<1>8. ASSUME NEW m, m \in DOMAIN dirs[c].foder_map \cup DOMAIN dirs[c].file_map
      PROVE  \E q \in T \cup DOMAIN F : q # <<>> /\ Front(q) = f[c]
  <2>1. CASE m \in DOMAIN dirs[c].foder_map
    <3>. DEFINE e == dirs[c].foder_map[m]
    <3>1. e \in DOMAIN dirs /\ dirs[e].parent = c /\ c # NULL
      BY <1>1, <2>1, RamfsAssumption DEF GoodTree, Linked, NodesOK
    <3>. HIDE DEF e
    <3>2. e # Root
      BY <1>1, <3>1 DEF GoodTree, Linked
    <3>3. f[e] # <<>> /\ Front(f[e]) = f[c]
      BY <1>1, <3>1, <3>2, RootPath
    <3>4. f[e] \in T
      BY <1>2, <3>1
    <3>. QED BY <3>3, <3>4
  <2>2. CASE m \in DOMAIN dirs[c].file_map
    <3>1. HasFile(dirs, c, m)
      BY <2>2 DEF HasFile
    <3>2. m \in Str
      BY <1>1, <3>1, FileNames
    <3>. DEFINE q == Append(f[c], m)
    <3>3. q \in DOMAIN F
      BY <1>1, <3>1, Zenon DEF IsPathFiles
    <3>4. q # <<>> /\ Front(q) = f[c]
      BY <3>2, <1>6
    <3>. HIDE DEF q
    <3>. QED BY <3>3, <3>4
  <2>. QED BY <1>8, <2>1, <2>2
<1>9. (DOMAIN dirs[c].foder_map = {} /\ DOMAIN dirs[c].file_map = {}) <=> EmptyIn(T, F, f[c])
  <2>1. ASSUME DOMAIN dirs[c].foder_map = {}, DOMAIN dirs[c].file_map = {}
        PROVE  EmptyIn(T, F, f[c])
    BY <1>7, <2>1 DEF EmptyIn
  <2>2. ASSUME EmptyIn(T, F, f[c])
        PROVE  DOMAIN dirs[c].foder_map = {} /\ DOMAIN dirs[c].file_map = {}
    <3>1. \A m : m \notin DOMAIN dirs[c].foder_map \cup DOMAIN dirs[c].file_map
      BY <1>8, <2>2, Zenon DEF EmptyIn
    <3>. QED BY <3>1
  <2>. QED BY <2>1, <2>2
<1>. QED BY <1>3, <1>9 DEF f, F, T

LEMMA RmdirSim ==
    ASSUME Good, Good', NEW n \in Names, fs_rmdir(n)
    PROVE  Tree!Rmdir(n)
<1>. DEFINE path == Append(current_path, n)
            call == <<"rmdir", n>>
            c == dirs[current_dir].foder_map[n]
            empty == dirs[c].foder_map = Empty /\ dirs[c].file_map = Empty
            free == EmptyIn(PathTree, PathFiles, path)
            gone == /\ n \in DOMAIN dirs[current_dir].foder_map /\ empty
                    /\ dirs' = DropChild(dirs, current_dir, n)
                    /\ Result(call, "ok")
                    /\ heap' = heap /\ current_path' = current_path
<1>1. n \in Str /\ current_dir \in DOMAIN dirs /\ current_path = build_absolute_path[current_dir]
  BY RamfsAssumption, GoodFacts DEF Str
<1>2. n \in DOMAIN dirs[current_dir].foder_map <=> path \in PathTree
  BY <1>1, NameIs
<1>3. ASSUME n \in DOMAIN dirs[current_dir].foder_map
      PROVE  build_absolute_path[c] = path /\ (empty <=> free)
  <2>1. build_absolute_path[c] = path
    BY <1>1, <1>3, NameIs
  <2>2. c \in DOMAIN dirs
    BY <1>1, <1>3, GoodFacts DEF GoodTree, Linked
  <2>. HIDE DEF c
  <2>3. empty <=> EmptyIn(PathTree, PathFiles, build_absolute_path[c])
    BY <2>2, EmptyIs
  <2>. QED BY <2>1, <2>3
<1>4. \/ n \notin DOMAIN dirs[current_dir].foder_map /\ Return(call, "notfound")
      \/ n \in DOMAIN dirs[current_dir].foder_map /\ ~empty /\ Return(call, "notempty")
      \/ gone
  BY Zenon DEF fs_rmdir, DropChild
<1>5. Tree!Rmdir(n) <=>
        \/ path \notin PathTree /\ Tree!Refuse(call, "notfound")
        \/ path \in PathTree /\ ~free /\ Tree!Refuse(call, "notempty")
        \/ /\ path \in PathTree /\ free
           /\ PathTree' = PathTree \ {path}
           /\ UNCHANGED <<PathFiles, current_path>>
           /\ Tree!Result(call, "ok")
  BY Zenon DEF Tree!Rmdir, EmptyIn, Tree!Front, Front
<1>. HIDE DEF free
<1>6. CASE n \notin DOMAIN dirs[current_dir].foder_map /\ Return(call, "notfound")
  <2>1. Tree!Refuse(call, "notfound")
    BY <1>6, ReturnRefuses, Zenon
  <2>. QED BY <1>2, <1>5, <1>6, <2>1, Zenon
<1>7. CASE n \in DOMAIN dirs[current_dir].foder_map /\ ~empty /\ Return(call, "notempty")
  <2>1. Tree!Refuse(call, "notempty")
    BY <1>7, ReturnRefuses, Zenon
  <2>. QED BY <1>2, <1>3, <1>5, <1>7, <2>1, Zenon
<1>8. CASE gone
  <2>1. PathFiles' = PathFiles /\ PathTree' = PathTree \ {build_absolute_path[c]}
    BY <1>8, RmdirView
  <2>2. Tree!Result(call, "ok")
    BY <1>8, Zenon DEF Result, Tree!Result
  <2>. QED BY <1>2, <1>3, <1>5, <1>8, <2>1, <2>2, Zenon
<1>. QED BY <1>4, <1>6, <1>7, <1>8

(* The commands on files. *)
LEMMA TouchView ==
    ASSUME Good, Good', NEW d \in DOMAIN dirs, NEW n \in Str, ~NameTaken(d, n), heap' = heap,
           dirs' = [dirs EXCEPT ![d].file_map = Bind(@, n, [length |-> 0, ptr |-> NULL])]
    PROVE  /\ PathTree' = PathTree
           /\ PathFiles' = Bind(PathFiles, Append(build_absolute_path[d], n), <<>>)
<1>. DEFINE info == [length |-> 0, ptr |-> NULL]
            g == Bind(dirs[d].file_map, n, info)
<1>1. /\ GoodTree(dirs) /\ NodesOK(dirs) /\ Exclusive(dirs) /\ BlocksOK(heap)
      /\ dirs[d].file_map \in Table(FileInfo) /\ n \in STRING
  BY NodeTypes DEF Good, FsInv, GoodTree, Owned, Str
<1>2. info \in FileInfo /\ info.ptr = NULL
  BY DEF FileInfo
<1>. HIDE DEF info
<1>3. g \in Table(FileInfo)
  BY <1>1, <1>2, TableBind
<1>4. dirs' = SetFiles(dirs, d, g)
  BY DEF SetFiles, info
<1>5. g = Bind(dirs[d].file_map, n, info) /\ DOMAIN g = DOMAIN dirs[d].file_map \cup {n}
  BY BindFacts
<1>. HIDE DEF g
<1>6. IsSetFiles(dirs, d, g, dirs')
  <2>1. IsSetFiles(dirs, d, g, SetFiles(dirs, d, g))
    BY <1>1, <1>3, SetFilesFacts
  <2>. QED BY <1>4, <2>1, Zenon
<1>7. OtherFilesSame(dirs, dirs', d, n) /\ HasFile(dirs', d, n) /\ Entry(dirs', d, n) = info
  BY <1>5, <1>6, BindFile
<1>8. PtrIs(dirs, d, n, NULL)
  BY DEF PtrIs, HasFile, NameTaken
<1>9. Exchanged(heap, heap', NULL, NULL)
  BY <1>1, RamfsAssumption DEF Exchanged, BlocksOK
<1>10. \A m \in DOMAIN g : m \notin DOMAIN dirs[d].foder_map
  BY <1>1, <1>5 DEF Exclusive, NameTaken
<1>11. /\ PathTree' = PathTree
       /\ PathFiles' = Bind(PathFiles, Append(build_absolute_path[d], n),
                            Read(heap', Entry(dirs', d, n)))
  BY <1>3, <1>4, <1>7, <1>8, <1>9, <1>10, FileView
<1>12. Read(heap', Entry(dirs', d, n)) = <<>>
  BY <1>2, <1>7 DEF Read
<1>. QED BY <1>11, <1>12, Zenon

LEMMA RmView ==
    ASSUME Good, Good', NEW d \in DOMAIN dirs, NEW n \in DOMAIN dirs[d].file_map,
           heap' = free_data(dirs[d].file_map[n].ptr),
           dirs' = [dirs EXCEPT ![d].file_map = Unbind(@, n)]
    PROVE  /\ PathTree' = PathTree
           /\ PathFiles' = Unbind(PathFiles, Append(build_absolute_path[d], n))
<1>. DEFINE q == dirs[d].file_map[n].ptr
            g == Unbind(dirs[d].file_map, n)
<1>1. /\ GoodTree(dirs) /\ NodesOK(dirs) /\ Exclusive(dirs) /\ BlocksOK(heap)
      /\ dirs[d].file_map \in Table(FileInfo)
  BY NodeTypes DEF Good, FsInv, GoodTree, Owned
<1>2. PtrIs(dirs, d, n, q)
  BY DEF PtrIs, HasFile, Entry
<1>3. g \in Table(FileInfo)
  BY <1>1, TableUnbind
<1>4. dirs' = SetFiles(dirs, d, g)
  BY DEF SetFiles
<1>5. g = Unbind(dirs[d].file_map, n) /\ DOMAIN g = DOMAIN dirs[d].file_map \ {n}
  BY UnbindFacts
<1>. HIDE DEF g
<1>6. IsSetFiles(dirs, d, g, dirs')
  <2>1. IsSetFiles(dirs, d, g, SetFiles(dirs, d, g))
    BY <1>1, <1>3, SetFilesFacts
  <2>. QED BY <1>4, <2>1, Zenon
<1>7. OtherFilesSame(dirs, dirs', d, n) /\ ~HasFile(dirs', d, n)
  BY <1>5, <1>6, UnbindFile
<1>. HIDE DEF q
<1>8. Exchanged(heap, heap', q, NULL)
  BY <1>1, FreeBlock DEF q
<1>9. \A m \in DOMAIN g : m \notin DOMAIN dirs[d].foder_map
  BY <1>1, <1>5 DEF Exclusive
<1>10. n \in Str
  BY <1>1, FileNames DEF HasFile
<1>. QED BY <1>2, <1>3, <1>4, <1>7, <1>8, <1>9, <1>10, FileView

LEMMA EntryView ==
    ASSUME Good, Good', NEW d \in DOMAIN dirs, NEW n \in DOMAIN dirs[d].file_map,
           NEW info \in FileInfo, dirs' = SetEntry(dirs, d, n, info),
           NEW r, Exchanged(heap, heap', dirs[d].file_map[n].ptr, r)
    PROVE  /\ PathTree' = PathTree
           /\ PathFiles' = Bind(PathFiles, Append(build_absolute_path[d], n),
                                Read(heap', Entry(dirs', d, n)))
<1>. DEFINE q == dirs[d].file_map[n].ptr
<1>1. GoodTree(dirs) /\ NodesOK(dirs)
  BY DEF Good, FsInv, GoodTree
<1>2. IsSetEntry(dirs, d, n, info, dirs')
  BY <1>1, SetEntryFacts
<1>3. PICK g \in Table(FileInfo) :
        /\ dirs' = SetFiles(dirs, d, g) /\ g = Bind(dirs[d].file_map, n, info)
        /\ \A m \in DOMAIN g : m \notin DOMAIN dirs[d].foder_map
  BY <1>2 DEF IsSetEntry
<1>4. IsSetFiles(dirs, d, g, dirs')
  BY <1>1, <1>3, SetFilesFacts
<1>5. OtherFilesSame(dirs, dirs', d, n) /\ HasFile(dirs', d, n) /\ Entry(dirs', d, n) = info
  BY <1>3, <1>4, BindFile
<1>6. PtrIs(dirs, d, n, q)
  BY DEF PtrIs, HasFile, Entry
<1>. HIDE DEF q
<1>7. Exchanged(heap, heap', q, r)
  BY DEF q
<1>8. n \in Str
  BY <1>1, FileNames DEF HasFile
<1>. QED BY <1>3, <1>5, <1>6, <1>7, <1>8, FileView

LEMMA StoreView ==
    ASSUME Good, Good', NEW d \in DOMAIN dirs, NEW n \in DOMAIN dirs[d].file_map,
           NEW data \in Seq(STRING),
           StoreData(d, n, free_data(dirs[d].file_map[n].ptr), data)
    PROVE  /\ PathTree' = PathTree
           /\ PathFiles' = Bind(PathFiles, Append(build_absolute_path[d], n), data)
<1>. DEFINE q == dirs[d].file_map[n].ptr
            old == free_data(q)
<1>1. /\ Exchanged(heap, heap', q, Entry(dirs', d, n).ptr)
      /\ IF data = <<>> THEN Entry(dirs', d, n).ptr = NULL
         ELSE Entry(dirs', d, n).ptr # NULL /\ heap'[Entry(dirs', d, n).ptr] = data
  BY StoreOwned DEF Good
<1>2. PICK info \in FileInfo : dirs' = SetEntry(dirs, d, n, info)
  <2>1. CASE dirs' = [dirs EXCEPT ![d].file_map[n] = [length |-> 0, ptr |-> NULL]]
    <3>. DEFINE r == [length |-> 0, ptr |-> NULL]
    <3>1. r \in FileInfo
      BY DEF FileInfo
    <3>2. dirs' = SetEntry(dirs, d, n, r)
      BY <2>1 DEF SetEntry
    <3>. HIDE DEF r
    <3>. QED BY <3>1, <3>2
  <2>2. ASSUME NEW b \in Blocks,
               dirs' = [dirs EXCEPT ![d].file_map[n] = [length |-> Len(data), ptr |-> b]]
        PROVE  \E r \in FileInfo : dirs' = SetEntry(dirs, d, n, r)
    <3>. DEFINE r == [length |-> Len(data), ptr |-> b]
    <3>1. r \in FileInfo
      BY LenProperties DEF FileInfo
    <3>2. dirs' = SetEntry(dirs, d, n, r)
      BY <2>2 DEF SetEntry
    <3>. HIDE DEF r
    <3>. QED BY <3>1, <3>2
  <2>3. (Blocks \ DOMAIN old # {}) => (CHOOSE x \in Blocks \ DOMAIN old : TRUE) \in Blocks
    OBVIOUS
  <2>. HIDE DEF old
  <2>. QED BY <2>1, <2>2, <2>3 DEF StoreData, old
<1>3. Read(heap', Entry(dirs', d, n)) = data
  BY <1>1 DEF Read
<1>4. PICK r : Exchanged(heap, heap', q, r)
  BY <1>1
<1>5. /\ PathTree' = PathTree
      /\ PathFiles' = Bind(PathFiles, Append(build_absolute_path[d], n),
                           Read(heap', Entry(dirs', d, n)))
  BY <1>2, <1>4, EntryView
<1>. QED BY <1>3, <1>5, Zenon

(* A bound path that was there already is a path whose contents change. *)
LEMMA BindIsExcept ==
    ASSUME NEW F, F = [x \in DOMAIN F |-> F[x]], NEW a \in DOMAIN F, NEW v
    PROVE  Bind(F, a, v) = [F EXCEPT ![a] = v]
  BY DEF Bind

LEMMA TouchSim ==
    ASSUME Good, Good', NEW p \in Paths, fs_touch(p)
    PROVE  Tree!Touch(p)
<1>. DEFINE n == file_name(p)
            d == parent_of(p)
            call == <<"touch", p>>
            f == Tree!Target(p)
            here == n # "" /\ d \in DOMAIN dirs
            made == /\ ~NameTaken(d, n)
                    /\ dirs' = [dirs EXCEPT ![d].file_map = Bind(@, n, [length |-> 0, ptr |-> NULL])]
                    /\ Result(call, "ok")
                    /\ heap' = heap /\ current_path' = current_path
<1>1. /\ n \in Str
      /\ Tree!Unnamed(p) <=> n = ""
      /\ Tree!DirOf(p) = NULL <=> d = NULL
      /\ d # NULL => f = Append(build_absolute_path[d], n)
  BY TargetIs, Zenon
<1>2. NULL \notin DOMAIN dirs
  BY GoodFacts
<1>3. \/ n = "" /\ Return(call, "invalid")
      \/ n # "" /\ d = NULL /\ Return(call, "noparent")
      \/ here /\ NameTaken(d, n) /\ Return(call, "exists")
      \/ here /\ ~NameTaken(d, n) /\ Return(call, "nomem")
      \/ here /\ made
  BY Zenon DEF fs_touch
<1>4. Tree!Touch(p) <=>
        \/ Tree!Unnamed(p) /\ Tree!Refuse(call, "invalid")
        \/ ~Tree!Unnamed(p) /\ Tree!DirOf(p) = NULL /\ Tree!Refuse(call, "noparent")
        \/ /\ ~Tree!Unnamed(p) /\ Tree!DirOf(p) # NULL
           /\ \/ Tree!Taken(f) /\ Tree!Refuse(call, "exists")
              \/ ~Tree!Taken(f) /\ Tree!Refuse(call, "nomem")
              \/ /\ ~Tree!Taken(f)
                 /\ PathFiles' = Bind(PathFiles, f, <<>>)
                 /\ UNCHANGED <<PathTree, current_path>>
                 /\ Tree!Result(call, "ok")
  BY Zenon DEF Tree!Touch, Tree!Lookup, Bind
<1>. HIDE DEF n, d, f, call
<1>5. ASSUME NEW ret, Return(call, ret) PROVE Tree!Refuse(call, ret)
  BY <1>5, ReturnRefuses
<1>6. ASSUME here
      PROVE  /\ ~Tree!Unnamed(p) /\ Tree!DirOf(p) # NULL
             /\ f = Append(build_absolute_path[d], n)
             /\ Tree!Taken(f) <=> NameTaken(d, n)
  <2>1. d # NULL
    BY <1>2, <1>6, Zenon
  <2>. QED BY <1>1, <1>6, <2>1, NameIs, Zenon
<1>7. CASE n = "" /\ Return(call, "invalid")
  BY <1>1, <1>4, <1>5, <1>7, Zenon
<1>8. CASE n # "" /\ d = NULL /\ Return(call, "noparent")
  BY <1>1, <1>4, <1>5, <1>8, Zenon
<1>9. CASE here /\ NameTaken(d, n) /\ Return(call, "exists")
  BY <1>4, <1>5, <1>6, <1>9, Zenon
<1>10. CASE here /\ ~NameTaken(d, n) /\ Return(call, "nomem")
  BY <1>4, <1>5, <1>6, <1>10, Zenon
<1>11. CASE here /\ made
  <2>1. /\ PathTree' = PathTree
        /\ PathFiles' = Bind(PathFiles, Append(build_absolute_path[d], n), <<>>)
    <3>1. d \in DOMAIN dirs /\ n \in Str /\ made
      BY <1>1, <1>11, Zenon
    <3>. QED BY <3>1, TouchView
  <2>2. Tree!Result(call, "ok")
    BY <1>11, Zenon DEF Result, Tree!Result
  <2>. QED BY <1>4, <1>6, <1>11, <2>1, <2>2, Zenon
<1>. QED BY <1>3, <1>7, <1>8, <1>9, <1>10, <1>11, Zenon

LEMMA RmSim ==
    ASSUME Good, Good', NEW p \in Paths, fs_rm(p)
    PROVE  Tree!Rm(p)
<1>. DEFINE n == file_name(p)
            d == parent_of(p)
            call == <<"rm", p>>
            f == Tree!Target(p)
            here == n # "" /\ d \in DOMAIN dirs
            gone == /\ n \in DOMAIN dirs[d].file_map
                    /\ heap' = free_data(dirs[d].file_map[n].ptr)
                    /\ dirs' = [dirs EXCEPT ![d].file_map = Unbind(@, n)]
                    /\ Result(call, "ok")
                    /\ current_path' = current_path
<1>1. /\ n \in Str
      /\ Tree!Unnamed(p) <=> n = ""
      /\ Tree!DirOf(p) = NULL <=> d = NULL
      /\ d # NULL => f = Append(build_absolute_path[d], n)
  BY TargetIs, Zenon
<1>2. NULL \notin DOMAIN dirs
  BY GoodFacts
<1>3. \/ n = "" /\ Return(call, "invalid")
      \/ n # "" /\ d = NULL /\ Return(call, "noparent")
      \/ here /\ n \notin DOMAIN dirs[d].file_map /\ Return(call, "notfound")
      \/ here /\ gone
  BY Zenon DEF fs_rm
<1>4. Tree!Rm(p) <=>
        \/ Tree!Unnamed(p) /\ Tree!Refuse(call, "invalid")
        \/ ~Tree!Unnamed(p) /\ Tree!DirOf(p) = NULL /\ Tree!Refuse(call, "noparent")
        \/ /\ ~Tree!Unnamed(p) /\ Tree!DirOf(p) # NULL
           /\ \/ f \notin DOMAIN PathFiles /\ Tree!Refuse(call, "notfound")
              \/ /\ f \in DOMAIN PathFiles
                 /\ PathFiles' = Unbind(PathFiles, f)
                 /\ UNCHANGED <<PathTree, current_path>>
                 /\ Tree!Result(call, "ok")
  BY Zenon DEF Tree!Rm, Tree!Lookup, Unbind
<1>. HIDE DEF n, d, f, call
<1>5. ASSUME NEW ret, Return(call, ret) PROVE Tree!Refuse(call, ret)
  BY <1>5, ReturnRefuses
<1>6. ASSUME here
      PROVE  /\ ~Tree!Unnamed(p) /\ Tree!DirOf(p) # NULL
             /\ f = Append(build_absolute_path[d], n)
             /\ f \in DOMAIN PathFiles <=> n \in DOMAIN dirs[d].file_map
  <2>1. d # NULL
    BY <1>2, <1>6, Zenon
  <2>. QED BY <1>1, <1>6, <2>1, NameIs, Zenon
<1>7. CASE n = "" /\ Return(call, "invalid")
  BY <1>1, <1>4, <1>5, <1>7, Zenon
<1>8. CASE n # "" /\ d = NULL /\ Return(call, "noparent")
  BY <1>1, <1>4, <1>5, <1>8, Zenon
<1>9. CASE here /\ n \notin DOMAIN dirs[d].file_map /\ Return(call, "notfound")
  BY <1>4, <1>5, <1>6, <1>9, Zenon
<1>10. CASE here /\ gone
  <2>1. /\ PathTree' = PathTree
        /\ PathFiles' = Unbind(PathFiles, Append(build_absolute_path[d], n))
    <3>1. d \in DOMAIN dirs /\ gone
      BY <1>10, Zenon
    <3>. QED BY <3>1, RmView
  <2>2. Tree!Result(call, "ok")
    BY <1>10, Zenon DEF Result, Tree!Result
  <2>. QED BY <1>4, <1>6, <1>10, <2>1, <2>2, Zenon
<1>. QED BY <1>3, <1>7, <1>8, <1>9, <1>10, Zenon

(* fs_write, when its allocation does not fail. *)
LEMMA WriteSim ==
    ASSUME "write" \notin MayFail, Good, Good', NEW n \in Names, NEW data \in Data,
           fs_write(n, data)
    PROVE  Tree!Write(n, data)
<1>. DEFINE path == Append(current_path, n)
            call == <<"write", n, data>>
            files == dirs[current_dir].file_map
            old == free_data(files[n].ptr)
            stored == /\ n \in DOMAIN files
                      /\ StoreData(current_dir, n, old, data)
                      /\ Result(call, "ok")
                      /\ current_path' = current_path
<1>1. /\ n \in Str /\ data \in Seq(STRING) /\ current_dir \in DOMAIN dirs
      /\ current_path = build_absolute_path[current_dir]
      /\ PathFiles = [x \in DOMAIN PathFiles |-> PathFiles[x]]
  <2>1. PathFiles = [x \in DOMAIN PathFiles |-> PathFiles[x]]
    BY GoodFacts, Zenon DEF IsPathFiles
  <2>. QED BY <2>1, RamfsAssumption, GoodFacts DEF Str
<1>2. n \in DOMAIN files <=> path \in DOMAIN PathFiles
  BY <1>1, NameIs
<1>3. (n \notin DOMAIN files /\ Return(call, "notfound")) \/ stored
  BY Zenon DEF fs_write
<1>. HIDE DEF call
<1>4. CASE n \notin DOMAIN files /\ Return(call, "notfound")
  <2>1. Tree!Refuse(call, "notfound")
    BY <1>4, ReturnRefuses
  <2>. QED BY <1>2, <1>4, <2>1, Zenon DEF Tree!Write, call
<1>5. CASE stored
  <2>1. PathTree' = PathTree /\ PathFiles' = Bind(PathFiles, path, data)
    BY <1>1, <1>5, StoreView
  <2>2. Tree!Result(call, "ok")
    BY <1>5, Zenon DEF Result, Tree!Result
  <2>3. Bind(PathFiles, path, data) = [PathFiles EXCEPT ![path] = data]
    <3>. DEFINE F == PathFiles
    <3>1. F = [x \in DOMAIN F |-> F[x]] /\ path \in DOMAIN F
      BY <1>1, <1>2, <1>5
    <3>2. Bind(F, path, data) = [F EXCEPT ![path] = data]
      <4>. HIDE DEF F, path
      <4>. QED BY <3>1, BindIsExcept
    <3>. QED BY <3>2
  <2>. QED BY <1>2, <1>5, <2>1, <2>2, <2>3, Zenon DEF Tree!Write, call
<1>. QED BY <1>3, <1>4, <1>5

LEMMA MovedView ==
    ASSUME Good, Good', NEW d \in DOMAIN dirs, NEW n \in DOMAIN dirs[d].file_map,
           NEW info, info = dirs[d].file_map[n],
           NEW left \in 1..info.length,
           NEW b \in Blocks \ DOMAIN heap,
           heap' = Unbind(Bind(heap, b, SubSeq(Contents(info), 1, left)), info.ptr),
           NEW r, IsInfo(r, left, b), dirs' = SetEntry(dirs, d, n, r)
    PROVE  /\ PathTree' = PathTree
           /\ PathFiles' = Bind(PathFiles, Append(build_absolute_path[d], n),
                                SubSeq(Contents(info), 1, left))
<1>1. /\ Exchanged(heap, heap', info.ptr, Entry(dirs', d, n).ptr)
      /\ Entry(dirs', d, n).ptr # NULL
      /\ heap'[Entry(dirs', d, n).ptr] = SubSeq(Contents(info), 1, left)
  BY MovedOwned DEF Good
<1>2. Read(heap', Entry(dirs', d, n)) = SubSeq(Contents(info), 1, left)
  BY <1>1 DEF Read
<1>3. PICK s : Exchanged(heap, heap', dirs[d].file_map[n].ptr, s)
  BY <1>1
<1>4. r \in FileInfo
  BY DEF IsInfo
<1>5. /\ PathTree' = PathTree
      /\ PathFiles' = Bind(PathFiles, Append(build_absolute_path[d], n),
                           Read(heap', Entry(dirs', d, n)))
  BY <1>3, <1>4, EntryView
<1>. QED BY <1>2, <1>5, Zenon

(* What is left of a file of that length. *)
LEMMA LeftIs ==
    ASSUME NEW length \in Nat, NEW count \in Nat
    PROVE  /\ new_len(length, count) # 0 <=> length - count > 0
           /\ new_len(length, count) # 0 => /\ new_len(length, count) = length - count
                                            /\ new_len(length, count) \in 0..length
  BY DEF new_len

LEMMA BackspaceSim ==
    ASSUME Good, Good', NEW p \in Paths, NEW count \in Counts, fs_backspace(p, count)
    PROVE  Tree!Backspace(p, count)
<1>. DEFINE n == file_name(p)
            d == parent_of(p)
            call == <<"backspace", p, count>>
            f == Tree!Target(p)
            here == n # "" /\ d \in DOMAIN dirs
            has == n \in DOMAIN dirs[d].file_map
            info == dirs[d].file_map[n]
            left == new_len(info.length, count)
            b == CHOOSE x \in Blocks \ DOMAIN heap : TRUE
            done == Result(call, "ok") /\ current_path' = current_path
            emptied == /\ has /\ info.length # 0 /\ left = 0 /\ done
                       /\ heap' = free_data(info.ptr)
                       /\ dirs' = [dirs EXCEPT ![d].file_map[n] = [length |-> 0, ptr |-> NULL]]
            moved == /\ has /\ info.length # 0 /\ left # 0 /\ done
                     /\ Blocks \ DOMAIN heap # {}
                     /\ heap' = Unbind(Bind(heap, b, SubSeq(Contents(info), 1, left)), info.ptr)
                     /\ dirs' = [dirs EXCEPT ![d].file_map[n] = [length |-> left, ptr |-> b]]
            v == PathFiles[f]
            rest == IF Len(v) - count > 0 THEN SubSeq(v, 1, Len(v) - count) ELSE <<>>
<1>1. /\ n \in Str
      /\ Tree!Unnamed(p) <=> n = ""
      /\ Tree!DirOf(p) = NULL <=> d = NULL
      /\ d # NULL => f = Append(build_absolute_path[d], n)
  BY TargetIs, Zenon
<1>2. NULL \notin DOMAIN dirs /\ count \in Nat
  BY GoodFacts, RamfsAssumption
<1>3. \/ count = 0 /\ Return(call, "ok")
      \/ count > 0 /\ n = "" /\ Return(call, "invalid")
      \/ count > 0 /\ n # "" /\ d = NULL /\ Return(call, "noparent")
      \/ count > 0 /\ here /\ ~has /\ Return(call, "notfound")
      \/ count > 0 /\ here /\ has /\ info.length = 0 /\ Return(call, "empty")
      \/ count > 0 /\ here /\ has /\ left # 0 /\ Return(call, "nomem")
      \/ count > 0 /\ here /\ emptied
      \/ count > 0 /\ here /\ moved
  BY ZenonT(60) DEF fs_backspace
<1>4. Tree!Backspace(p, count) <=>
        \/ count = 0 /\ Tree!Refuse(call, "ok")
        \/ count > 0 /\ Tree!Unnamed(p) /\ Tree!Refuse(call, "invalid")
        \/ count > 0 /\ ~Tree!Unnamed(p) /\ Tree!DirOf(p) = NULL /\ Tree!Refuse(call, "noparent")
        \/ /\ count > 0 /\ ~Tree!Unnamed(p) /\ Tree!DirOf(p) # NULL
           /\ \/ f \notin DOMAIN PathFiles /\ Tree!Refuse(call, "notfound")
              \/ f \in DOMAIN PathFiles /\ v = <<>> /\ Tree!Refuse(call, "empty")
              \/ f \in DOMAIN PathFiles /\ Len(v) - count > 0 /\ Tree!Refuse(call, "nomem")
              \/ /\ f \in DOMAIN PathFiles /\ v # <<>>
                 /\ PathFiles' = [PathFiles EXCEPT ![f] = rest]
                 /\ UNCHANGED <<PathTree, current_path>>
                 /\ Tree!Result(call, "ok")
  BY ZenonT(60) DEF Tree!Backspace, Tree!Lookup
<1>. HIDE DEF n, d, f, call, b
<1>5. ASSUME NEW ret, Return(call, ret) PROVE Tree!Refuse(call, ret)
  BY <1>5, ReturnRefuses
<1>6. ASSUME here
      PROVE  /\ ~Tree!Unnamed(p) /\ Tree!DirOf(p) # NULL
             /\ f = Append(build_absolute_path[d], n)
             /\ f \in DOMAIN PathFiles <=> has
             /\ has => v = Read(heap, info)
  <2>1. d # NULL
    BY <1>2, <1>6, Zenon
  <2>. QED BY <1>1, <1>6, <2>1, NameIs, Zenon
<1>7. ASSUME here, has
      PROVE  /\ info.length \in Nat /\ v \in Seq(STRING) /\ Len(v) = info.length
             /\ Contents(info) = v
             /\ v = <<>> <=> info.length = 0
             /\ left # 0 <=> Len(v) - count > 0
             /\ left # 0 => left = Len(v) - count /\ left \in 1..info.length
  <2>1. d \in DOMAIN dirs /\ has /\ v = Read(heap, info)
    BY <1>6, <1>7, Zenon
  <2>2. /\ info.length \in Nat /\ v \in Seq(STRING) /\ Len(v) = info.length
        /\ Contents(info) = v
    BY <2>1, ReadFacts
  <2>. DEFINE k == info.length
  <2>3. /\ left # 0 <=> k - count > 0
        /\ left # 0 => left = k - count /\ left \in 0..k
    <3>1. k \in Nat
      BY <2>2
    <3>. HIDE DEF k
    <3>. QED BY <1>2, <3>1, LeftIs DEF k
  <2>4. left # 0 => left \in 1..k
    <3>. HIDE DEF k, left
    <3>1. k \in Nat
      BY <2>2 DEF k
    <3>. QED BY <2>3, <3>1
  <2>5. v = <<>> <=> info.length = 0
    <3>1. PICK w : w = v
      OBVIOUS
    <3>2. w \in Seq(STRING) /\ Len(w) = info.length
      BY <2>2, <3>1
    <3>3. w = <<>> <=> Len(w) = 0
      BY <3>2, EmptySeq
    <3>. QED BY <3>1, <3>2, <3>3
  <2>. QED BY <2>2, <2>3, <2>4, <2>5
<1>8. CASE count = 0 /\ Return(call, "ok")
  BY <1>4, <1>5, <1>8, Zenon
<1>9. CASE count > 0 /\ n = "" /\ Return(call, "invalid")
  BY <1>1, <1>4, <1>5, <1>9, Zenon
<1>10. CASE count > 0 /\ n # "" /\ d = NULL /\ Return(call, "noparent")
  BY <1>1, <1>4, <1>5, <1>10, Zenon
<1>11. CASE count > 0 /\ here /\ ~has /\ Return(call, "notfound")
  BY <1>4, <1>5, <1>6, <1>11, Zenon
<1>12. CASE count > 0 /\ here /\ has /\ info.length = 0 /\ Return(call, "empty")
  <2>1. f \in DOMAIN PathFiles /\ v = <<>>
    BY <1>6, <1>7, <1>12, Zenon
  <2>. HIDE DEF v, here
  <2>. QED BY <1>4, <1>5, <1>6, <1>12, <2>1, Zenon
<1>13. CASE count > 0 /\ here /\ has /\ left # 0 /\ Return(call, "nomem")
  <2>1. f \in DOMAIN PathFiles /\ Len(v) - count > 0
    BY <1>6, <1>7, <1>13, Zenon
  <2>. HIDE DEF v, here
  <2>. QED BY <1>4, <1>5, <1>6, <1>13, <2>1, Zenon
<1>14. ASSUME count > 0, here, has, info.length # 0, done, PathTree' = PathTree,
              PathFiles' = Bind(PathFiles, Append(build_absolute_path[d], n), rest)
       PROVE  Tree!Backspace(p, count)
  <2>1. f \in DOMAIN PathFiles /\ v # <<>> /\ f = Append(build_absolute_path[d], n)
    BY <1>6, <1>7, <1>14, Zenon
  <2>2. PathFiles = [x \in DOMAIN PathFiles |-> PathFiles[x]]
    BY GoodFacts, Zenon DEF IsPathFiles
  <2>3. Bind(PathFiles, f, rest) = [PathFiles EXCEPT ![f] = rest]
    <3>. DEFINE F == PathFiles
    <3>1. F = [x \in DOMAIN F |-> F[x]] /\ f \in DOMAIN F
      BY <2>1, <2>2
    <3>2. Bind(F, f, rest) = [F EXCEPT ![f] = rest]
      <4>. HIDE DEF F, rest
      <4>. QED BY <3>1, BindIsExcept
    <3>. QED BY <3>2
  <2>4. Tree!Result(call, "ok") /\ current_path' = current_path
    BY <1>14, Zenon DEF Result, Tree!Result
  <2>. HIDE DEF v, here, rest
  <2>. QED BY <1>4, <1>6, <1>14, <2>1, <2>3, <2>4, Zenon
<1>15. CASE count > 0 /\ here /\ emptied
  <2>1. d \in DOMAIN dirs /\ has /\ emptied
    BY <1>15, Zenon
  <2>2. StoreData(d, n, free_data(dirs[d].file_map[n].ptr), <<>>)
    BY <2>1 DEF StoreData
  <2>3. <<>> \in Seq(STRING)
    OBVIOUS
  <2>4. PathTree' = PathTree /\ PathFiles' = Bind(PathFiles, Append(build_absolute_path[d], n), <<>>)
    BY <2>1, <2>2, <2>3, StoreView
  <2>5. rest = <<>>
    BY <1>7, <1>15, Zenon
  <2>. HIDE DEF rest
  <2>. QED BY <1>14, <1>15, <2>4, <2>5, Zenon
<1>16. CASE count > 0 /\ here /\ moved
  <2>1. d \in DOMAIN dirs /\ has /\ moved
    BY <1>16, Zenon
  <2>2. b \in Blocks \ DOMAIN heap
    BY <2>1 DEF b
  <2>3. /\ left \in 1..info.length /\ Contents(info) = v /\ left = Len(v) - count
        /\ Len(v) - count > 0
    BY <1>7, <1>16, Zenon
  <2>4. /\ heap' = Unbind(Bind(heap, b, SubSeq(Contents(info), 1, left)), info.ptr)
        /\ dirs' = SetEntry(dirs, d, n, [length |-> left, ptr |-> b])
    BY <2>1 DEF SetEntry
  <2>5. info = dirs[d].file_map[n] /\ d \in DOMAIN dirs /\ n \in DOMAIN dirs[d].file_map
    BY <2>1
  <2>6. rest = SubSeq(Contents(info), 1, left)
    BY <2>3, Zenon
  <2>. HIDE DEF left, info, v, rest
  <2>7. PICK r : IsInfo(r, left, b) /\ dirs' = SetEntry(dirs, d, n, r)
    <3>. DEFINE r == [length |-> left, ptr |-> b]
    <3>1. IsInfo(r, left, b)
      BY <2>2, <2>3 DEF FileInfo, IsInfo
    <3>2. dirs' = SetEntry(dirs, d, n, r)
      BY <2>4
    <3>. HIDE DEF r
    <3>. QED BY <3>1, <3>2
  <2>8. /\ PathTree' = PathTree
        /\ PathFiles' = Bind(PathFiles, Append(build_absolute_path[d], n),
                             SubSeq(Contents(info), 1, left))
    BY <2>2, <2>3, <2>4, <2>5, <2>7, MovedView
  <2>. QED BY <1>14, <1>16, <2>6, <2>8, Zenon
<1>. QED BY <1>3, <1>8, <1>9, <1>10, <1>11, <1>12, <1>13, <1>15, <1>16, Zenon

(* The file system of nodes, tables and blocks implements the file system  *)
(* of paths: under the map to paths every command of ramfs.c is the        *)
(* command of module FileTree with the same result, or changes nothing     *)
(* there.  The hypothesis is the one of DataIsOwned: when the allocation   *)
(* of fs_write fails, cat reads freed memory.                              *)
THEOREM ImplementsFileTree ==
    ASSUME "write" \notin MayFail
    PROVE  Spec => TreeSpec
<1>1. Init => Tree!Init
  <2>. SUFFICES ASSUME Init PROVE Tree!Init
    OBVIOUS
  <2>1. Good
    BY InitHolds, DataInit DEF Good
  <2>2. DOMAIN dirs = {Root} /\ DOMAIN dirs[Root].file_map = {} /\ current_path = <<>>
    <3>. DEFINE r == [name |-> "/", parent |-> NULL, foder_map |-> Empty, file_map |-> Empty]
    <3>1. DOMAIN Empty = {} /\ r.file_map = Empty
      BY EmptyTable
    <3>. HIDE DEF r
    <3>2. dirs = Bind(Empty, Root, r) /\ current_path = <<>>
      BY DEF Init, r
    <3>. QED BY <3>1, <3>2 DEF Bind
  <2>3. build_absolute_path[Root] = <<>>
    BY <2>1, GoodFacts DEF IsPaths
  <2>4. PathTree = {<<>>}
    <3>. DEFINE T == PathTree
    <3>1. \A x : x \in T <=> \E e \in DOMAIN dirs : build_absolute_path[e] = x
      BY TreeIs
    <3>. HIDE DEF T
    <3>2. T = {<<>>}
      BY <2>2, <2>3, <3>1
    <3>. QED BY <3>2 DEF T
  <2>5. PathFiles = [x \in {} |-> x]
    <3>. DEFINE F == PathFiles
    <3>1. IsPathFiles(dirs, heap, build_absolute_path, F)
      BY <2>1, GoodFacts
    <3>. HIDE DEF F
    <3>2. F = [x \in DOMAIN F |-> F[x]]
      BY <3>1, Zenon DEF IsPathFiles
    <3>3. ASSUME NEW x PROVE x \notin DOMAIN F
      <4>1. \A d, n : ~HasFile(dirs, d, n)
        BY <2>2 DEF HasFile
      <4>. QED BY <3>1, <4>1, Zenon DEF IsPathFiles
    <3>4. F = [x \in {} |-> x]
      BY <3>2, <3>3
    <3>. QED BY <3>4 DEF F
  <2>. QED BY <2>2, <2>4, <2>5, Zenon DEF Tree!Init
<1>2. ASSUME Good, Good', Next
      PROVE  Tree!Next \/ UNCHANGED <<PathTree, PathFiles, current_path, last>>
  <2>1. ASSUME NEW n \in Names, fs_mkdir(n) \/ fs_rmdir(n) \/ fs_cat(n)
        PROVE  Tree!Mkdir(n) \/ Tree!Rmdir(n) \/ Tree!Cat(n)
    BY <1>2, <2>1, MkdirSim, RmdirSim, CatSim, Zenon
  <2>2. ASSUME NEW n \in Names, NEW data \in Data, fs_write(n, data)
        PROVE  Tree!Write(n, data)
    BY <1>2, <2>2, WriteSim, Zenon
  <2>3. ASSUME NEW p \in Paths, fs_cd(p) \/ fs_touch(p) \/ fs_rm(p)
        PROVE  Tree!Cd(p) \/ Tree!Touch(p) \/ Tree!Rm(p)
    BY <1>2, <2>3, CdSim, TouchSim, RmSim, Zenon
  <2>4. ASSUME NEW p \in Paths, NEW count \in Counts, fs_backspace(p, count)
        PROVE  Tree!Backspace(p, count)
    BY <1>2, <2>4, BackspaceSim, Zenon
  <2>5. ASSUME mkdir_p_step
        PROVE  Tree!MkdirDeep \/ UNCHANGED <<PathTree, PathFiles, current_path, last>>
    BY <1>2, <2>5, MkdirPSim, Zenon
  <2>6. ASSUME mkdir_p_return \/ \E p \in DeepPaths : mkdir_p(p)
        PROVE  Tree!MkdirDeepReports
    BY <1>2, <2>6, MkdirPReportsSim, Zenon
  <2>. QED BY <1>2, <2>1, <2>2, <2>3, <2>4, <2>5, <2>6, Zenon DEF Next, Tree!Next
<1>3. Good /\ Good' /\ [Next]_vars => [Tree!Next]_(Tree!vars)
  <2>1. ASSUME Good, Good', UNCHANGED vars
        PROVE  UNCHANGED <<PathTree, PathFiles, current_path, last>>
    BY <2>1, SameView DEF vars
  <2>. QED BY <1>2, <2>1, Zenon DEF Tree!vars
<1>4. Spec => []Good
  <2>1. FsInv /\ Owned(dirs, heap) /\ [Next]_vars => Owned(dirs, heap)'
    <3>1. UNCHANGED vars /\ Owned(dirs, heap) => Owned(dirs', heap')
      BY DEF vars
    <3>. QED BY <3>1, DataStep
  <2>2. Good <=> FsInv /\ Owned(dirs, heap)
    BY DEF Good
  <2>. QED BY <2>1, <2>2, FsInvariant, DataInit, PTL DEF Spec
<1>. QED BY <1>1, <1>3, <1>4, PTL DEF Spec, TreeSpec, Tree!Spec
==============================================================================
