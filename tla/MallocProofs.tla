---------------------------- MODULE MallocProofs ----------------------------
(***************************************************************************)
(* Proofs about the heap of malloc.c, for every pool size, memory size,    *)
(* request size and kernel end address that MallocAssumption and NoWrap    *)
(* admit.                                                                  *)
(***************************************************************************)
EXTENDS Malloc, SequenceTheorems, TLAPS

(* Unlinking one element of a list keeps the others, in their order. *)
LEMMA RemoveAtFacts ==
    ASSUME NEW S, NEW s \in Seq(S), NEW i \in 1..Len(s)
    PROVE  /\ RemoveAt(s, i) \in Seq(S)
           /\ Len(RemoveAt(s, i)) = Len(s) - 1
           /\ \A j \in 1..(Len(s) - 1) :
                RemoveAt(s, i)[j] = IF j < i THEN s[j] ELSE s[j + 1]
<1> DEFINE a == SubSeq(s, 1, i - 1)
           z == SubSeq(s, i + 1, Len(s))
<1>1. a \in Seq(S) /\ Len(a) = i - 1 /\ \A j \in 1..(i - 1) : a[j] = s[j]
  BY SMT
<1>2. z \in Seq(S) /\ Len(z) = Len(s) - i /\ \A j \in 1..(Len(s) - i) : z[j] = s[i + j]
  BY SMT
<1>3. RemoveAt(s, i) = a \o z
  BY DEF RemoveAt
<1> HIDE DEF a, z
<1>4. a \o z \in Seq(S)
  BY <1>1, <1>2
<1>6. Len(a \o z) = Len(s) - 1
  <2>0. a \in Seq(S) /\ z \in Seq(S)
    BY <1>1, <1>2
  <2>1. Len(a \o z) = Len(a) + Len(z)
    BY <2>0, ConcatProperties, Zenon
  <2>2. Len(s) \in Nat /\ i \in Nat
    BY LenProperties
  <2> QED BY <1>1, <1>2, <2>1, <2>2
<1>5. \A j \in 1..(Len(s) - 1) : (a \o z)[j] = IF j < i THEN s[j] ELSE s[j + 1]
  BY <1>1, <1>2
<1> QED BY <1>3, <1>4, <1>5, <1>6

(* Pushing an element at the head of a list. *)
LEMMA ConsFacts ==
    ASSUME NEW S, NEW s \in Seq(S), NEW e \in S
    PROVE  /\ <<e>> \o s \in Seq(S)
           /\ Len(<<e>> \o s) = Len(s) + 1
           /\ (<<e>> \o s)[1] = e
           /\ \A j \in 1..Len(s) : (<<e>> \o s)[j + 1] = s[j]
           /\ \A j \in 2..(Len(s) + 1) : (<<e>> \o s)[j] = s[j - 1]
  OBVIOUS
-----------------------------------------------------------------------------
(* A number below the modulus is its own remainder. *)
LEMMA ModFacts ==
    ASSUME NEW N \in Nat, N > 0, NEW x \in Nat
    PROVE  /\ x % N \in 0..(N - 1)
           /\ x < N => x % N = x
  OBVIOUS

(* A pool size is already aligned. *)
LEMMA AlignPool == AlignUp(PoolSize) = PoolSize
<1>1. PoolSize + 7 < AddrSpace
  BY MallocAssumption
<1>2. (PoolSize + 7) % AddrSpace = PoolSize + 7
  BY <1>1, MallocAssumption
<1> QED BY <1>2, MallocAssumption DEF AlignUp

(* What malloc makes of the size it is asked for. *)
LEMMA ReqFacts ==
    ASSUME NEW n \in ReqSizes, n # 0
    PROVE  /\ ReqSize(n) \in 8..AddrSpace
           /\ ReqSize(n) % 8 = 0
           /\ n <= ReqSize(n)
           /\ n \in 1..AddrSpace
<1>1. n \in Nat /\ n + 7 < AddrSpace /\ AddrSpace >= 8
  BY MallocAssumption
<1>2. (n + 7) % AddrSpace = n + 7
  BY <1>1, MallocAssumption
<1> QED BY <1>1, <1>2, MallocAssumption DEF AlignUp, ReqSize

(* The limit malloc_init sets leaves room for one more pool. *)
LEMMA HeapMaxFacts ==
    ASSUME NoWrap, NEW total_mb \in MemSizes
    PROVE  HeapMax(total_mb) \in Nat /\ HeapMax(total_mb) < AddrSpace - PoolSize
<1> DEFINE t == total_mb * MB
<1>1. t \in Nat
  BY MallocAssumption
<1> HIDE DEF t
<1>2. t % AddrSpace \in Nat
  BY <1>1, ModFacts, MallocAssumption
<1>3. (End + (t % AddrSpace)) % AddrSpace \in Nat
  BY <1>2, ModFacts, MallocAssumption
<1> QED BY <1>3, MallocAssumption DEF HeapMax, NoWrap, t

-----------------------------------------------------------------------------
IInv == TypeOK /\ BlocksApart /\ HeapTiled /\ HeapInv

(* The strengthened invariant holds before malloc_init. *)
THEOREM InitIInv == Init => IInv
<1> SUFFICES ASSUME Init PROVE IInv
  OBVIOUS
<1>1. TypeOK
  <2>1. heap_brk \in 0..AddrSpace /\ heap_max \in 0..AddrSpace
    BY MallocAssumption DEF Init
  <2>2. \A i \in DOMAIN free_list : free_list[i] \in Block
    BY DEF Init
  <2>3. live \subseteq LiveBlock /\ req \in ReqSizes \cup {0}
    BY DEF Init
  <2>4. booted \in BOOLEAN
    BY DEF Init
  <2> QED BY <2>1, <2>2, <2>3, <2>4 DEF TypeOK
<1>2. BlocksApart /\ HeapTiled
  BY MallocAssumption DEF Init, BlocksApart, HeapTiled
<1>3. HeapInv
  BY MallocAssumption DEF Init, HeapInv, OnGrid
<1> QED BY <1>1, <1>2, <1>3 DEF IInv

-----------------------------------------------------------------------------
(* Types of the numbers the invariant speaks of. *)
LEMMA BlockTypes ==
    ASSUME IInv
    PROVE  /\ heap_brk \in Nat /\ heap_max \in Nat
           /\ free_list \in Seq(Block)
           /\ Len(free_list) \in Nat /\ DOMAIN free_list = 1..Len(free_list)
           /\ \A i \in 1..Len(free_list) :
                /\ free_list[i] \in Block
                /\ free_list[i].addr \in Nat
                /\ free_list[i].size \in Nat
                /\ Top(free_list[i]) \in Nat
           /\ \A b \in live :
                /\ b \in LiveBlock
                /\ b.addr \in Nat /\ b.size \in Nat /\ b.want \in Nat
                /\ Top(b) \in Nat
<1>1. \A b \in Block : b.addr \in Nat /\ b.size \in Nat /\ Top(b) \in Nat
  BY MallocAssumption DEF Block, Top, Header
<1>2. \A b \in LiveBlock :
        b.addr \in Nat /\ b.size \in Nat /\ b.want \in Nat /\ Top(b) \in Nat
  BY MallocAssumption DEF LiveBlock, Top, Header
<1>3. free_list \in Seq(Block) /\ live \subseteq LiveBlock
  BY DEF IInv, TypeOK, HeapInv
<1>4. heap_brk \in Nat /\ heap_max \in Nat
  BY MallocAssumption DEF IInv, TypeOK
<1> QED BY <1>1, <1>2, <1>3, <1>4

(* A new pool, the same for malloc_init and expand_heap: nothing wraps,    *)
(* and the block lies behind every other one.                              *)
LEMMA AddPoolPreserves ==
    ASSUME IInv, AddPool, UNCHANGED <<live, req>>,
           NEW max \in Nat, heap_max' = max, max < AddrSpace - PoolSize,
           PoolFits(max), booted', heap_brk = End \/ heap_brk <= max
    PROVE  IInv'
<1> DEFINE e == [addr |-> heap_brk, size |-> PoolSize - Header]
<1>1. /\ heap_brk \in Nat /\ heap_brk + PoolSize < AddrSpace
      /\ heap_brk >= End /\ OnGrid(heap_brk)
  BY MallocAssumption DEF IInv, TypeOK, HeapInv
<1>2. heap_brk' = heap_brk + PoolSize /\ heap_brk' <= max
  <2>1. (heap_brk + PoolSize) % AddrSpace = heap_brk + PoolSize
    BY <1>1, MallocAssumption
  <2> QED BY <2>1, AlignPool DEF AddPool, PoolFits
<1>3. e \in Block /\ Top(e) = heap_brk'
  BY <1>1, <1>2, MallocAssumption DEF Block, Header, Top
<1>4. free_list \in Seq(Block) /\ free_list' = <<e>> \o free_list
  BY DEF IInv, HeapInv, AddPool
<1> HIDE DEF e
<1>5. /\ free_list' \in Seq(Block)
      /\ DOMAIN free_list' = 1..(Len(free_list) + 1)
      /\ DOMAIN free_list = 1..Len(free_list) /\ Len(free_list) \in Nat
      /\ free_list'[1] = e
      /\ \A j \in 1..Len(free_list) : free_list'[j + 1] = free_list[j]
      /\ \A j \in 2..(Len(free_list) + 1) : free_list'[j] = free_list[j - 1]
  BY <1>3, <1>4, ConsFacts
<1>6. TypeOK'
  <2>1. heap_brk' \in 0..AddrSpace /\ heap_max' \in 0..AddrSpace
    BY <1>1, <1>2, MallocAssumption
  <2>2. \A i \in DOMAIN free_list' : free_list'[i] \in Block
    BY <1>5
  <2>3. live' \subseteq LiveBlock /\ req' \in ReqSizes \cup {0} /\ booted' \in BOOLEAN
    BY DEF IInv, TypeOK
  <2> QED BY <2>1, <2>2, <2>3 DEF TypeOK
<1>7. BlocksApart'
  <2>1. \A j \in 1..Len(free_list) : Apart(free_list[j], e) /\ Apart(e, free_list[j])
    BY <1>5 DEF IInv, HeapTiled, Apart, e
  <2>2. \A b \in live : Apart(e, b)
    BY DEF IInv, HeapTiled, Apart, e
  <2>3. \A i, j \in DOMAIN free_list' : i # j => Apart(free_list'[i], free_list'[j])
    <3> SUFFICES ASSUME NEW i \in DOMAIN free_list', NEW j \in DOMAIN free_list', i # j
                 PROVE  Apart(free_list'[i], free_list'[j])
      OBVIOUS
    <3>1. CASE i = 1
      BY <3>1, <1>5, <2>1
    <3>2. CASE j = 1
      BY <3>2, <1>5, <2>1
    <3>3. CASE i # 1 /\ j # 1
      <4>1. /\ i - 1 \in DOMAIN free_list /\ j - 1 \in DOMAIN free_list /\ i - 1 # j - 1
            /\ free_list'[i] = free_list[i - 1] /\ free_list'[j] = free_list[j - 1]
        BY <3>3, <1>5
      <4>2. Apart(free_list[i - 1], free_list[j - 1])
        BY <4>1 DEF IInv, BlocksApart
      <4> QED BY <4>1, <4>2
    <3> QED BY <3>1, <3>2, <3>3
  <2>4. \A i \in DOMAIN free_list', b \in live' : Apart(free_list'[i], b)
    BY <1>5, <2>2 DEF IInv, BlocksApart
  <2> QED BY <2>3, <2>4 DEF IInv, BlocksApart
<1>8. HeapTiled'
  <2>1. \A i \in DOMAIN free_list' :
            End <= free_list'[i].addr /\ Top(free_list'[i]) <= heap_brk'
    <3> SUFFICES ASSUME NEW i \in DOMAIN free_list'
                 PROVE  End <= free_list'[i].addr /\ Top(free_list'[i]) <= heap_brk'
      OBVIOUS
    <3>1. CASE i = 1
      BY <3>1, <1>1, <1>2, <1>3, <1>5, MallocAssumption DEF e
    <3>2. CASE i # 1
      <4>1. i - 1 \in DOMAIN free_list /\ free_list'[i] = free_list[i - 1]
        BY <3>2, <1>5
      <4>2. End <= free_list[i - 1].addr /\ Top(free_list[i - 1]) <= heap_brk
        BY <4>1 DEF IInv, HeapTiled
      <4> QED BY <4>1, <4>2, <1>1, <1>2, BlockTypes, MallocAssumption
    <3> QED BY <3>1, <3>2
  <2>2. \A b \in live' : End <= b.addr /\ Top(b) <= heap_brk'
    BY <1>1, <1>2, BlockTypes, MallocAssumption DEF IInv, HeapTiled
  <2>3. ASSUME NEW x \in End..(heap_brk' - 1)
        PROVE  \/ \E i \in DOMAIN free_list' :
                    free_list'[i].addr <= x /\ x < Top(free_list'[i])
               \/ \E b \in live' : b.addr <= x /\ x < Top(b)
    <3>1. CASE x < heap_brk
      BY <3>1, <1>1, <1>5 DEF IInv, HeapTiled
    <3>2. CASE x >= heap_brk
      BY <3>2, <1>1, <1>2, <1>3, <1>5 DEF e
    <3> QED BY <3>1, <3>2, <1>1, MallocAssumption
  <2> QED BY <2>1, <2>2, <2>3 DEF HeapTiled
<1>9. HeapInv'
  <2>1. OnGrid(heap_brk') /\ heap_brk' >= End
    BY <1>1, <1>2, MallocAssumption DEF OnGrid
  <2>2. \A i \in DOMAIN free_list' : OnGrid(free_list'[i].addr)
    <3>1. OnGrid(e.addr)
      BY <1>1 DEF e
    <3>2. \A i \in 1..Len(free_list) : OnGrid(free_list[i].addr)
      BY <1>5 DEF IInv, HeapInv
    <3> SUFFICES ASSUME NEW i \in DOMAIN free_list' PROVE OnGrid(free_list'[i].addr)
      OBVIOUS
    <3>3. CASE i = 1
      BY <3>1, <3>3, <1>5
    <3>4. CASE i # 1
      BY <3>2, <3>4, <1>5
    <3> QED BY <3>3, <3>4
  <2> QED BY <1>2, <1>5, <2>1, <2>2 DEF IInv, HeapInv, OnGrid
<1> QED BY <1>6, <1>7, <1>8, <1>9 DEF IInv

-----------------------------------------------------------------------------
(* free moves a live block to the head of the list. *)
LEMMA FreePreserves ==
    ASSUME IInv, NEW b \in live, free(b)
    PROVE  IInv'
<1> DEFINE e == [addr |-> b.addr, size |-> b.size]
<1>1. /\ free_list' = <<e>> \o free_list
      /\ live' = live \ {b}
      /\ heap_brk' = heap_brk /\ heap_max' = heap_max /\ req' = req /\ booted' = booted
  BY DEF free
<1>2. b \in LiveBlock
  BY BlockTypes
<1>3. e \in Block /\ Top(e) = Top(b) /\ e.addr = b.addr
  BY <1>2 DEF Block, LiveBlock, Top
<1> HIDE DEF e
<1>5. /\ free_list' \in Seq(Block)
      /\ DOMAIN free_list' = 1..(Len(free_list) + 1)
      /\ DOMAIN free_list = 1..Len(free_list) /\ Len(free_list) \in Nat
      /\ free_list'[1] = e
      /\ \A j \in 1..Len(free_list) : free_list'[j + 1] = free_list[j]
      /\ \A j \in 2..(Len(free_list) + 1) :
            j - 1 \in DOMAIN free_list /\ free_list'[j] = free_list[j - 1]
  BY <1>1, <1>3, BlockTypes, ConsFacts
<1>6. TypeOK'
  <2>1. \A i \in DOMAIN free_list' : free_list'[i] \in Block
    BY <1>5
  <2> QED BY <1>1, <2>1 DEF IInv, TypeOK
<1>7. BlocksApart'
  <2>1. \A j \in DOMAIN free_list : Apart(free_list[j], e) /\ Apart(e, free_list[j])
    BY <1>3 DEF IInv, BlocksApart, Apart
  <2>2. \A c \in live' : Apart(e, c)
    BY <1>1, <1>3 DEF IInv, BlocksApart, Apart
  <2>3. ASSUME NEW i \in DOMAIN free_list', NEW j \in DOMAIN free_list', i # j
        PROVE  Apart(free_list'[i], free_list'[j])
    <3>1. CASE i = 1
      BY <3>1, <2>3, <1>5, <2>1
    <3>2. CASE j = 1
      BY <3>2, <2>3, <1>5, <2>1
    <3>3. CASE i # 1 /\ j # 1
      <4>1. /\ i - 1 \in DOMAIN free_list /\ j - 1 \in DOMAIN free_list /\ i - 1 # j - 1
            /\ free_list'[i] = free_list[i - 1] /\ free_list'[j] = free_list[j - 1]
        BY <3>3, <2>3, <1>5
      <4> QED BY <4>1 DEF IInv, BlocksApart
    <3> QED BY <3>1, <3>2, <3>3
  <2>4. ASSUME NEW i \in DOMAIN free_list', NEW c \in live'
        PROVE  Apart(free_list'[i], c)
    <3>1. CASE i = 1
      BY <3>1, <1>5, <2>2
    <3>2. CASE i # 1
      <4>1. i - 1 \in DOMAIN free_list /\ free_list'[i] = free_list[i - 1]
        BY <3>2, <1>5
      <4> QED BY <4>1, <1>1 DEF IInv, BlocksApart
    <3> QED BY <3>1, <3>2
  <2>5. \A c, d \in live' : c # d => Apart(c, d)
    BY <1>1 DEF IInv, BlocksApart
  <2> QED BY <2>3, <2>4, <2>5 DEF BlocksApart
<1>8. HeapTiled'
  <2>1. ASSUME NEW i \in DOMAIN free_list'
        PROVE  End <= free_list'[i].addr /\ Top(free_list'[i]) <= heap_brk'
    <3>1. CASE i = 1
      BY <3>1, <1>1, <1>3, <1>5 DEF IInv, HeapTiled
    <3>2. CASE i # 1
      <4>1. i - 1 \in DOMAIN free_list /\ free_list'[i] = free_list[i - 1]
        BY <3>2, <1>5
      <4> QED BY <4>1, <1>1 DEF IInv, HeapTiled
    <3> QED BY <3>1, <3>2
  <2>2. \A c \in live' : End <= c.addr /\ Top(c) <= heap_brk'
    BY <1>1 DEF IInv, HeapTiled
  <2>3. ASSUME NEW x \in End..(heap_brk - 1)
        PROVE  \/ \E i \in DOMAIN free_list' :
                    free_list'[i].addr <= x /\ x < Top(free_list'[i])
               \/ \E c \in live' : c.addr <= x /\ x < Top(c)
    <3>1. CASE \E i \in DOMAIN free_list : free_list[i].addr <= x /\ x < Top(free_list[i])
      <4>1. PICK i \in DOMAIN free_list : free_list[i].addr <= x /\ x < Top(free_list[i])
        BY <3>1
      <4>2. i + 1 \in DOMAIN free_list' /\ free_list'[i + 1] = free_list[i]
        BY <1>5
      <4> QED BY <4>1, <4>2
    <3>2. CASE \E c \in live : c.addr <= x /\ x < Top(c)
      <4>1. PICK c \in live : c.addr <= x /\ x < Top(c)
        BY <3>2
      <4>2. CASE c = b
        <5>1. 1 \in DOMAIN free_list' /\ free_list'[1] = e
          BY <1>5
        <5> QED BY <4>1, <4>2, <5>1, <1>3
      <4>3. CASE c # b
        BY <4>1, <4>3, <1>1
      <4> QED BY <4>2, <4>3
    <3> QED BY <3>1, <3>2 DEF IInv, HeapTiled
  <2>4. heap_brk' = heap_brk
    BY <1>1
  <2> QED BY <2>1, <2>2, <2>3, <2>4 DEF HeapTiled
<1>9. HeapInv'
  <2>1. ASSUME NEW i \in DOMAIN free_list' PROVE OnGrid(free_list'[i].addr)
    <3>1. CASE i = 1
      BY <3>1, <1>3, <1>5 DEF IInv, HeapInv
    <3>2. CASE i # 1
      <4>1. i - 1 \in DOMAIN free_list /\ free_list'[i] = free_list[i - 1]
        BY <3>2, <1>5
      <4> QED BY <4>1 DEF IInv, HeapInv
    <3> QED BY <3>1, <3>2
  <2>2. \A c \in live' : OnGrid(c.addr) /\ c.want <= c.size
    BY <1>1 DEF IInv, HeapInv
  <2> QED BY <1>1, <1>5, <2>1, <2>2 DEF IInv, HeapInv, OnGrid
<1> QED BY <1>6, <1>7, <1>8, <1>9 DEF IInv

-----------------------------------------------------------------------------
(* A block apart from b is apart from every part of b. *)
LEMMA ApartFromPart ==
    ASSUME NEW b, NEW c, NEW p,
           b.addr \in Nat, c.addr \in Nat, p.addr \in Nat,
           Top(b) \in Nat, Top(c) \in Nat, Top(p) \in Nat,
           b.addr <= p.addr, Top(p) <= Top(b), Apart(c, b)
    PROVE  Apart(c, p) /\ Apart(p, c)
  BY DEF Apart

(* Being apart does not depend on the order. *)
LEMMA ApartSym ==
    ASSUME NEW b, NEW c, Apart(b, c)
    PROVE  Apart(c, b)
  BY DEF Apart

(* The arithmetic of a split: a block of n bytes at address a, k of them   *)
(* served.                                                                 *)
LEMMA SplitArith ==
    ASSUME NEW a \in Nat, NEW n \in Nat, NEW k \in Nat,
           n <= AddrSpace, n % 8 = 0, k % 8 = 0, k >= 8, n - k >= 16
    PROVE  /\ a + 8 + k \in Nat
           /\ n - k - 8 \in 8..AddrSpace /\ (n - k - 8) % 8 = 0
           /\ a <= a + 8 + k /\ a + 8 + k <= a + 8 + n
           /\ (a + 8 + k) + 8 + (n - k - 8) = a + 8 + n
           /\ (a - End) % 8 = 0 => ((a + 8 + k) - End) % 8 = 0
  BY MallocAssumption

(* The split: the head of block i goes to the caller, its tail stays. *)
LEMMA SplitPreserves ==
    ASSUME IInv, malloc_split
    PROVE  IInv'
<1>1. PICK i \in DOMAIN free_list :
        /\ FirstFit(i)
        /\ CanSplit(free_list[i], ReqSize(req))
        /\ free_list' = [free_list EXCEPT ![i] = Remainder(free_list[i], ReqSize(req))]
        /\ live' = live \cup {[addr |-> free_list[i].addr, size |-> ReqSize(req), want |-> req]}
  BY DEF malloc_split
<1> DEFINE b == free_list[i]
           r == ReqSize(req)
           m == Remainder(b, r)
           g == [addr |-> b.addr, size |-> r, want |-> req]
<1>2. /\ req # 0 /\ req' = 0
      /\ heap_brk' = heap_brk /\ heap_max' = heap_max /\ booted' = booted
  BY DEF malloc_split
<1>3. /\ req \in ReqSizes /\ req \in 1..AddrSpace
      /\ r \in 8..AddrSpace /\ r % 8 = 0 /\ req <= r
  BY <1>2, ReqFacts DEF IInv, TypeOK
<1>4. /\ i \in 1..Len(free_list) /\ b \in Block
      /\ b.addr \in Nat /\ b.size \in Nat /\ Top(b) \in Nat
      /\ b.size <= AddrSpace /\ b.size % 8 = 0
  BY <1>1, BlockTypes DEF Block
<1>5. b.size - r >= 16
  BY <1>1 DEF CanSplit, Header
<1>6. /\ m \in Block /\ g \in LiveBlock
      /\ m.addr = b.addr + 8 + r /\ g.addr = b.addr /\ g.want = req /\ g.size = r
      /\ Top(m) = Top(b) /\ Top(g) = m.addr
      /\ b.addr <= m.addr /\ m.addr <= Top(b)
      /\ OnGrid(b.addr) => OnGrid(m.addr)
      /\ m.addr \in Nat
  <2>1. m.addr = b.addr + 8 + r /\ m.size = b.size - r - 8
    BY DEF Remainder, Header
  <2>2. r \in Nat /\ r >= 8
    BY <1>3, MallocAssumption
  <2>3. /\ b.addr + 8 + r \in Nat
        /\ b.size - r - 8 \in 8..AddrSpace /\ (b.size - r - 8) % 8 = 0
        /\ b.addr <= b.addr + 8 + r /\ b.addr + 8 + r <= b.addr + 8 + b.size
        /\ (b.addr + 8 + r) + 8 + (b.size - r - 8) = b.addr + 8 + b.size
        /\ (b.addr - End) % 8 = 0 => ((b.addr + 8 + r) - End) % 8 = 0
    <3> HIDE DEF b, r
    <3>1. /\ b.addr \in Nat /\ b.size \in Nat /\ b.size <= AddrSpace
          /\ b.size % 8 = 0 /\ r % 8 = 0
      BY <1>3, <1>4
    <3> QED BY <2>2, <3>1, <1>5, SplitArith, Zenon
  <2>4. m \in Block
    BY <2>3 DEF Block, Remainder, Header
  <2>5. g \in LiveBlock
    BY <1>3, <1>4 DEF LiveBlock
  <2>6. g.addr = b.addr /\ g.want = req /\ g.size = r
    OBVIOUS
  <2> HIDE DEF b, r, m, g
  <2>7. Top(b) = b.addr + 8 + b.size /\ Top(g) = b.addr + 8 + r
    BY <2>6 DEF Top, Header
  <2>8. Top(m) = (b.addr + 8 + r) + 8 + (b.size - r - 8)
    BY <2>1 DEF Top, Header
  <2>9. Top(m) = Top(b) /\ Top(g) = m.addr
    BY <2>1, <2>3, <2>7, <2>8
  <2>10. b.addr <= m.addr /\ m.addr <= Top(b) /\ m.addr \in Nat
    BY <2>1, <2>3, <2>7
  <2>11. OnGrid(b.addr) => OnGrid(m.addr)
    BY <2>1, <2>3 DEF OnGrid
  <2> QED BY <2>1, <2>4, <2>5, <2>6, <2>9, <2>10, <2>11
<1>7. /\ free_list' \in Seq(Block)
      /\ DOMAIN free_list' = DOMAIN free_list
      /\ free_list'[i] = m
      /\ \A j \in DOMAIN free_list : j # i => free_list'[j] = free_list[j]
  <2>1. free_list \in Seq(Block)
    BY BlockTypes
  <2> QED BY <1>1, <1>4, <1>6, <2>1, ExceptSeq
<1>8. live' = live \cup {g}
  BY <1>1
<1> HIDE DEF b, r, m, g
<1>9. b.addr <= m.addr /\ Top(m) <= Top(b) /\ b.addr <= g.addr /\ Top(g) <= Top(b)
  BY <1>4, <1>6
<1>10. Apart(m, g) /\ Apart(g, m)
  BY <1>6 DEF Apart
<1>11. \A j \in DOMAIN free_list : j # i =>
          /\ Apart(free_list[j], m) /\ Apart(m, free_list[j])
          /\ Apart(free_list[j], g) /\ Apart(g, free_list[j])
  <2> SUFFICES ASSUME NEW j \in DOMAIN free_list, j # i
               PROVE  /\ Apart(free_list[j], m) /\ Apart(m, free_list[j])
                      /\ Apart(free_list[j], g) /\ Apart(g, free_list[j])
    OBVIOUS
  <2>1. Apart(free_list[j], b)
    BY DEF IInv, BlocksApart, b
  <2>2. free_list[j].addr \in Nat /\ Top(free_list[j]) \in Nat
    BY BlockTypes
  <2>3. Top(m) \in Nat /\ Top(g) \in Nat
    BY <1>4, <1>6
  <2>4. Apart(free_list[j], m) /\ Apart(m, free_list[j])
    BY <2>1, <2>2, <2>3, <1>4, <1>6, <1>9, ApartFromPart
  <2>5. Apart(free_list[j], g) /\ Apart(g, free_list[j])
    BY <2>1, <2>2, <2>3, <1>4, <1>6, <1>9, ApartFromPart
  <2> QED BY <2>4, <2>5
<1>12. \A c \in live : Apart(c, m) /\ Apart(m, c) /\ Apart(c, g) /\ Apart(g, c)
  <2> SUFFICES ASSUME NEW c \in live
               PROVE  Apart(c, m) /\ Apart(m, c) /\ Apart(c, g) /\ Apart(g, c)
    OBVIOUS
  <2>1. Apart(c, b)
    BY ApartSym DEF IInv, BlocksApart, b
  <2>2. c.addr \in Nat /\ Top(c) \in Nat
    BY BlockTypes
  <2>3. Top(m) \in Nat /\ Top(g) \in Nat
    BY <1>4, <1>6
  <2>4. Apart(c, m) /\ Apart(m, c)
    BY <2>1, <2>2, <2>3, <1>4, <1>6, <1>9, ApartFromPart
  <2>5. Apart(c, g) /\ Apart(g, c)
    BY <2>1, <2>2, <2>3, <1>4, <1>6, <1>9, ApartFromPart
  <2> QED BY <2>4, <2>5
<1>13. TypeOK'
  <2>1. \A j \in DOMAIN free_list' : free_list'[j] \in Block
    BY <1>7
  <2>2. live' \subseteq LiveBlock
    BY <1>6, <1>8 DEF IInv, TypeOK
  <2> QED BY <1>2, <2>1, <2>2 DEF IInv, TypeOK
<1>14. BlocksApart'
  <2>1. ASSUME NEW j \in DOMAIN free_list', NEW k \in DOMAIN free_list', j # k
        PROVE  Apart(free_list'[j], free_list'[k])
    BY <2>1, <1>7, <1>11 DEF IInv, BlocksApart
  <2>2. ASSUME NEW j \in DOMAIN free_list', NEW c \in live'
        PROVE  Apart(free_list'[j], c)
    BY <1>7, <1>8, <1>10, <1>11, <1>12 DEF IInv, BlocksApart
  <2>3. ASSUME NEW c \in live', NEW d \in live', c # d PROVE Apart(c, d)
    BY <2>3, <1>8, <1>12 DEF IInv, BlocksApart
  <2> QED BY <2>1, <2>2, <2>3 DEF BlocksApart
<1>15. HeapTiled'
  <2>1. End <= b.addr /\ Top(b) <= heap_brk
    BY DEF IInv, HeapTiled, b
  <2>2. End <= m.addr /\ Top(m) <= heap_brk /\ End <= g.addr /\ Top(g) <= heap_brk
    BY <2>1, <1>4, <1>6, <1>9, BlockTypes, MallocAssumption
  <2>3. ASSUME NEW x \in End..(heap_brk - 1)
        PROVE  \/ \E j \in DOMAIN free_list' :
                    free_list'[j].addr <= x /\ x < Top(free_list'[j])
               \/ \E c \in live' : c.addr <= x /\ x < Top(c)
    <3>1. CASE \E j \in DOMAIN free_list : free_list[j].addr <= x /\ x < Top(free_list[j])
      <4>1. PICK j \in DOMAIN free_list : free_list[j].addr <= x /\ x < Top(free_list[j])
        BY <3>1
      <4>2. CASE j # i
        BY <4>1, <4>2, <1>7
      <4>3. CASE j = i /\ x < m.addr
        <5>1. g \in live' /\ g.addr <= x /\ x < Top(g)
          BY <4>1, <4>3, <1>6, <1>8 DEF b
        <5> QED BY <5>1
      <4>4. CASE j = i /\ m.addr <= x
        <5>1. free_list'[i].addr <= x /\ x < Top(free_list'[i])
          BY <4>1, <4>4, <1>6, <1>7 DEF b
        <5> QED BY <5>1, <1>7
      <4> QED BY <4>2, <4>3, <4>4, <1>6, MallocAssumption, BlockTypes
    <3>2. CASE \E c \in live : c.addr <= x /\ x < Top(c)
      BY <3>2, <1>8
    <3> QED BY <3>1, <3>2 DEF IInv, HeapTiled
  <2>4. \A j \in DOMAIN free_list' :
            End <= free_list'[j].addr /\ Top(free_list'[j]) <= heap_brk
    BY <2>2, <1>7 DEF IInv, HeapTiled
  <2>5. \A c \in live' : End <= c.addr /\ Top(c) <= heap_brk
    BY <2>2, <1>8 DEF IInv, HeapTiled
  <2> QED BY <2>3, <2>4, <2>5, <1>2 DEF HeapTiled
<1>16. HeapInv'
  <2>1. OnGrid(b.addr)
    BY DEF IInv, HeapInv, b
  <2>2. OnGrid(m.addr) /\ OnGrid(g.addr)
    BY <2>1, <1>6
  <2>3. \A j \in DOMAIN free_list' : OnGrid(free_list'[j].addr)
    BY <2>2, <1>7 DEF IInv, HeapInv
  <2>4. \A c \in live' : OnGrid(c.addr) /\ c.want <= c.size
    BY <2>2, <1>3, <1>6, <1>8 DEF IInv, HeapInv
  <2> QED BY <1>2, <1>7, <2>3, <2>4 DEF IInv, HeapInv, OnGrid
<1> QED BY <1>13, <1>14, <1>15, <1>16 DEF IInv

(* A block too small to split is unlinked and goes to the caller whole. *)
LEMMA WholePreserves ==
    ASSUME IInv, malloc_whole
    PROVE  IInv'
<1>1. PICK i \in DOMAIN free_list :
        /\ FirstFit(i)
        /\ free_list' = RemoveAt(free_list, i)
        /\ live' = live \cup {[addr |-> free_list[i].addr, size |-> free_list[i].size,
                               want |-> req]}
  BY DEF malloc_whole
<1> DEFINE b == free_list[i]
           g == [addr |-> b.addr, size |-> b.size, want |-> req]
           old(j) == IF j < i THEN j ELSE j + 1
<1>2. /\ req # 0 /\ req' = 0
      /\ heap_brk' = heap_brk /\ heap_max' = heap_max /\ booted' = booted
  BY DEF malloc_whole
<1>3. req \in ReqSizes /\ req \in 1..AddrSpace /\ req <= ReqSize(req) /\ ReqSize(req) \in Nat
  BY <1>2, ReqFacts, MallocAssumption DEF IInv, TypeOK
<1>4. /\ i \in 1..Len(free_list) /\ Len(free_list) \in Nat /\ b \in Block
      /\ DOMAIN free_list = 1..Len(free_list) /\ free_list \in Seq(Block)
      /\ b.addr \in Nat /\ b.size \in Nat /\ Top(b) \in Nat
  BY <1>1, BlockTypes
<1>5. ReqSize(req) <= b.size
  BY <1>1 DEF FirstFit, Fits
<1>6. /\ g \in LiveBlock /\ g.addr = b.addr /\ Top(g) = Top(b)
      /\ g.want <= g.size
  <2>1. req <= b.size
    BY <1>3, <1>4, <1>5, MallocAssumption
  <2>2. g \in LiveBlock
    BY <1>3, <1>4 DEF Block, LiveBlock
  <2> QED BY <2>1, <2>2 DEF Top
<1>7. live' = live \cup {g}
  BY <1>1
<1>8. /\ free_list' \in Seq(Block)
      /\ DOMAIN free_list' = 1..(Len(free_list) - 1)
      /\ \A j \in 1..(Len(free_list) - 1) :
            free_list'[j] = IF j < i THEN free_list[j] ELSE free_list[j + 1]
  <2>1. /\ RemoveAt(free_list, i) \in Seq(Block)
        /\ Len(RemoveAt(free_list, i)) = Len(free_list) - 1
        /\ \A j \in 1..(Len(free_list) - 1) :
              RemoveAt(free_list, i)[j] = IF j < i THEN free_list[j] ELSE free_list[j + 1]
    BY <1>4, RemoveAtFacts, Zenon
  <2>2. free_list' = RemoveAt(free_list, i)
    BY <1>1
  <2> QED BY <1>4, <2>1, <2>2
<1> HIDE DEF b, g
<1>9. \A j \in DOMAIN free_list' :
        /\ old(j) \in DOMAIN free_list /\ old(j) # i
        /\ free_list'[j] = free_list[old(j)]
  BY <1>4, <1>8
<1>10. \A j, k \in DOMAIN free_list' : j # k => old(j) # old(k)
  BY <1>4, <1>8
<1>11. \A k \in DOMAIN free_list : k # i => \E j \in DOMAIN free_list' : old(j) = k
  <2> SUFFICES ASSUME NEW k \in DOMAIN free_list, k # i
               PROVE  \E j \in DOMAIN free_list' : old(j) = k
    OBVIOUS
  <2>1. CASE k < i
    BY <2>1, <1>4, <1>8
  <2>2. CASE k > i
    <3>1. k - 1 \in DOMAIN free_list' /\ old(k - 1) = k
      BY <2>2, <1>4, <1>8
    <3> QED BY <3>1
  <2> QED BY <2>1, <2>2, <1>4
<1> HIDE DEF old
<1>12. TypeOK'
  <2>1. \A j \in DOMAIN free_list' : free_list'[j] \in Block
    BY <1>8
  <2>2. live' \subseteq LiveBlock
    BY <1>6, <1>7 DEF IInv, TypeOK
  <2> QED BY <1>2, <2>1, <2>2 DEF IInv, TypeOK
<1>13. BlocksApart'
  <2>1. \A j, k \in DOMAIN free_list' : j # k => Apart(free_list'[j], free_list'[k])
    BY <1>9, <1>10 DEF IInv, BlocksApart
  <2>2. \A k \in DOMAIN free_list : k # i => Apart(free_list[k], g)
    BY <1>6 DEF IInv, BlocksApart, Apart, b
  <2>3. \A c \in live : Apart(c, g) /\ Apart(g, c)
    BY <1>6 DEF IInv, BlocksApart, Apart, b
  <2>4. \A j \in DOMAIN free_list', c \in live' : Apart(free_list'[j], c)
    BY <1>7, <1>9, <2>2 DEF IInv, BlocksApart
  <2>5. \A c, d \in live' : c # d => Apart(c, d)
    BY <1>7, <2>3 DEF IInv, BlocksApart
  <2> QED BY <2>1, <2>4, <2>5 DEF BlocksApart
<1>14. HeapTiled'
  <2>1. \A j \in DOMAIN free_list' :
            End <= free_list'[j].addr /\ Top(free_list'[j]) <= heap_brk
    BY <1>9 DEF IInv, HeapTiled
  <2>2. \A c \in live' : End <= c.addr /\ Top(c) <= heap_brk
    BY <1>6, <1>7 DEF IInv, HeapTiled, b
  <2>3. ASSUME NEW x \in End..(heap_brk - 1)
        PROVE  \/ \E j \in DOMAIN free_list' :
                    free_list'[j].addr <= x /\ x < Top(free_list'[j])
               \/ \E c \in live' : c.addr <= x /\ x < Top(c)
    <3>1. CASE \E k \in DOMAIN free_list : free_list[k].addr <= x /\ x < Top(free_list[k])
      <4>1. PICK k \in DOMAIN free_list : free_list[k].addr <= x /\ x < Top(free_list[k])
        BY <3>1
      <4>2. CASE k = i
        <5>1. g.addr <= x /\ x < Top(g) /\ g \in live'
          BY <4>1, <4>2, <1>6, <1>7 DEF b
        <5> QED BY <5>1
      <4>3. CASE k # i
        <5>1. PICK j \in DOMAIN free_list' : old(j) = k
          BY <4>3, <1>11
        <5>2. free_list'[j] = free_list[k]
          BY <5>1, <1>9
        <5> QED BY <4>1, <5>2
      <4> QED BY <4>2, <4>3
    <3>2. CASE \E c \in live : c.addr <= x /\ x < Top(c)
      BY <3>2, <1>7
    <3> QED BY <3>1, <3>2 DEF IInv, HeapTiled
  <2> QED BY <2>1, <2>2, <2>3, <1>2 DEF HeapTiled
<1>15. HeapInv'
  <2>1. OnGrid(g.addr)
    BY <1>6 DEF IInv, HeapInv, b
  <2>2. \A j \in DOMAIN free_list' : OnGrid(free_list'[j].addr)
    BY <1>9 DEF IInv, HeapInv
  <2>3. \A c \in live' : OnGrid(c.addr) /\ c.want <= c.size
    BY <2>1, <1>6, <1>7 DEF IInv, HeapInv
  <2> QED BY <1>2, <1>8, <2>2, <2>3 DEF IInv, HeapInv, OnGrid
<1> QED BY <1>12, <1>13, <1>14, <1>15 DEF IInv

-----------------------------------------------------------------------------
(* Every step of the heap, and of its callers, keeps the invariant. *)
THEOREM NextIInv ==
    ASSUME NoWrap, IInv, [Next]_vars
    PROVE  IInv'
<1>1. CASE UNCHANGED vars
  BY <1>1 DEF vars, IInv, TypeOK, BlocksApart, HeapTiled, HeapInv, OnGrid
<1>2. ASSUME NEW total_mb \in MemSizes, malloc_init(total_mb) PROVE IInv'
  <2> DEFINE max == HeapMax(total_mb)
  <2>1. /\ ~booted /\ booted' /\ heap_max' = max
        /\ live' = live /\ req' = req
        /\ heap_brk = End
    BY <1>2 DEF malloc_init, IInv, HeapInv
  <2>2. max \in Nat /\ max < AddrSpace - PoolSize
    BY HeapMaxFacts
  <2>3. CASE PoolFits(max)
    <3>1. AddPool
      BY <1>2, <2>1, <2>3 DEF malloc_init
    <3> HIDE DEF max
    <3> QED BY <2>1, <2>2, <2>3, <3>1, AddPoolPreserves
  <2>4. CASE ~PoolFits(max)
    <3>1. heap_brk' = heap_brk /\ free_list' = free_list
      BY <1>2, <2>1, <2>4 DEF malloc_init
    <3> HIDE DEF max
    <3>2. heap_max' \in 0..AddrSpace
      BY <2>1, <2>2, MallocAssumption
    <3>3. booted' \in BOOLEAN
      BY <1>2 DEF malloc_init
    <3>4. TypeOK'
      BY <2>1, <3>1, <3>2, <3>3 DEF IInv, TypeOK
    <3>5. BlocksApart' /\ HeapTiled'
      BY <2>1, <3>1 DEF IInv, BlocksApart, HeapTiled
    <3>6. HeapInv'
      BY <2>1, <2>2, <3>1 DEF IInv, HeapInv, OnGrid
    <3> QED BY <3>4, <3>5, <3>6 DEF IInv
  <2> QED BY <2>3, <2>4
<1>3. ASSUME NEW n \in ReqSizes, malloc(n) PROVE IInv'
  BY <1>3 DEF malloc, IInv, TypeOK, BlocksApart, HeapTiled, HeapInv, OnGrid
<1>4. CASE malloc_split
  BY <1>4, SplitPreserves
<1>5. CASE malloc_whole
  BY <1>5, WholePreserves
<1>6. CASE expand_heap
  <2>1. /\ heap_max' = heap_max /\ live' = live /\ req' = req /\ booted' = booted
        /\ PoolFits(heap_max) /\ AddPool
    BY <1>6 DEF expand_heap
  <2>2. /\ heap_max \in Nat /\ heap_max < AddrSpace - PoolSize
        /\ heap_brk = End \/ heap_brk <= heap_max
    BY BlockTypes DEF IInv, HeapInv
  <2>3. CASE booted
    BY <2>1, <2>2, <2>3, AddPoolPreserves
  <2>4. CASE ~booted
    BY <1>6, <2>4 DEF expand_heap, IInv, HeapInv
  <2> QED BY <2>3, <2>4
<1>7. CASE malloc_null
  BY <1>7 DEF malloc_null, IInv, TypeOK, BlocksApart, HeapTiled, HeapInv, OnGrid
<1>8. ASSUME NEW b \in live, free(b) PROVE IInv'
  BY <1>8, FreePreserves
<1> QED BY <1>1, <1>2, <1>3, <1>4, <1>5, <1>6, <1>7, <1>8 DEF Next, MallocStep

(* The strengthened invariant holds in every reachable state. *)
THEOREM HeapInvariant == ASSUME NoWrap PROVE Spec => []IInv
<1>1. Init => IInv
  BY InitIInv
<1>2. IInv /\ [Next]_vars => IInv'
  BY NextIInv
<1> QED BY <1>1, <1>2, PTL DEF Spec

(* The heap is well typed: every free block can hold its list node, and    *)
(* every size in a header is a positive multiple of 8.                     *)
THEOREM TypeCorrect == ASSUME NoWrap PROVE Spec => []TypeOK
<1>1. IInv => TypeOK
  BY DEF IInv
<1> QED BY <1>1, HeapInvariant, PTL

(* No byte of the heap ever belongs to two blocks of malloc.c. *)
THEOREM BlocksNeverOverlap == ASSUME NoWrap PROVE Spec => []BlocksApart
<1>1. IInv => BlocksApart
  BY DEF IInv
<1> QED BY <1>1, HeapInvariant, PTL

(* The splits and frees of malloc.c never lose a byte of a pool, and no    *)
(* block reaches past heap_brk.                                            *)
THEOREM NothingLeaks == ASSUME NoWrap PROVE Spec => []HeapTiled
<1>1. IInv => HeapTiled
  BY DEF IInv
<1> QED BY <1>1, HeapInvariant, PTL

(* What malloc returns is as large as asked for and on the 8-byte grid.    *)
THEOREM BlocksUsable == ASSUME NoWrap PROVE Spec => []LiveUsable
<1>1. IInv => LiveUsable
  BY DEF IInv, HeapInv, LiveUsable, OnGrid
<1> QED BY <1>1, HeapInvariant, PTL

-----------------------------------------------------------------------------
(* The block a successful call hands out is new, inside the heap and apart *)
(* from every block in use; it is as large as asked for.                   *)
LEMMA Served ==
    ASSUME IInv, malloc_split \/ malloc_whole
    PROVE  \E g \in LiveBlock :
              /\ live' = live \cup {g}
              /\ g \notin live
              /\ g.want = req /\ req # 0 /\ req \in Nat
<1>1. PICK i \in DOMAIN free_list, n \in Nat :
        live' = live \cup {[addr |-> free_list[i].addr, size |-> n, want |-> req]}
  <2>1. CASE malloc_split
    <3>1. ReqSize(req) \in Nat
      BY <2>1, ReqFacts, MallocAssumption DEF malloc_split, IInv, TypeOK
    <3> QED BY <2>1, <3>1 DEF malloc_split
  <2>2. CASE malloc_whole
    BY <2>2, BlockTypes DEF malloc_whole
  <2> QED BY <2>1, <2>2
<1> DEFINE g == [addr |-> free_list[i].addr, size |-> n, want |-> req]
<1>2. g.addr = free_list[i].addr /\ g.want = req /\ live' = live \cup {g}
  BY <1>1
<1> HIDE DEF g
<1>3. req # 0 /\ req \in Nat
  BY ReqFacts DEF malloc_split, malloc_whole, IInv, TypeOK
<1>4. IInv'
  BY SplitPreserves, WholePreserves
<1>5. g \in LiveBlock
  BY <1>2, <1>4 DEF IInv, TypeOK
<1>6. ASSUME g \in live PROVE FALSE
  <2>1. Apart(free_list[i], g)
    BY <1>6 DEF IInv, BlocksApart
  <2>2. /\ free_list[i].addr \in Nat /\ free_list[i].size \in Nat
        /\ g.addr \in Nat /\ g.size \in Nat
    BY <1>6, BlockTypes
  <2> QED BY <2>1, <2>2, <1>2 DEF Apart, Top, Header
<1> QED BY <1>2, <1>3, <1>5, <1>6

(* A block smaller than the aligned request is smaller than the request. *)
LEMMA TooSmall ==
    ASSUME NEW n \in ReqSizes, n # 0, NEW k \in Nat, k % 8 = 0, k >= 8, ~(k >= ReqSize(n))
    PROVE  k < n
<1>1. n \in Nat /\ n + 7 < AddrSpace /\ AddrSpace >= 8
  BY MallocAssumption
<1>2. (n + 7) % AddrSpace = n + 7
  BY <1>1, MallocAssumption
<1> QED BY <1>1, <1>2, MallocAssumption DEF AlignUp, ReqSize

(* malloc returns NULL only when no free block is large enough and the     *)
(* next pool would pass heap_max.                                          *)
THEOREM NullMeansExhausted == ASSUME NoWrap PROVE Spec => NullOnlyWhenExhausted
<1> DEFINE Exhausted == /\ \A i \in DOMAIN free_list : free_list[i].size < req
                        /\ heap_brk + PoolSize > heap_max
<1>1. ASSUME IInv, malloc_null PROVE Exhausted
  <2>1. req # 0 /\ req \in ReqSizes
    BY <1>1 DEF malloc_null, IInv, TypeOK
  <2>2. ASSUME NEW i \in DOMAIN free_list PROVE free_list[i].size < req
    <3>1. ~(free_list[i].size >= ReqSize(req))
      BY <1>1 DEF malloc_null, NoFit, Fits
    <3>2. free_list[i] \in Block
      BY <1>1, BlockTypes
    <3>3. free_list[i].size \in Nat /\ free_list[i].size % 8 = 0 /\ free_list[i].size >= 8
      BY <3>2, MallocAssumption DEF Block
    <3> QED BY <2>1, <3>1, <3>3, TooSmall
  <2>3. heap_brk + PoolSize > heap_max
    <3>1. /\ heap_brk \in Nat /\ heap_max \in Nat
          /\ heap_brk = End \/ heap_brk <= heap_max
          /\ heap_max < AddrSpace - PoolSize
      BY <1>1, BlockTypes DEF IInv, HeapInv
    <3>2. (heap_brk + PoolSize) % AddrSpace = heap_brk + PoolSize
      BY <3>1, MallocAssumption
    <3>3. ~((heap_brk + PoolSize) % AddrSpace <= heap_max)
      BY <1>1, AlignPool DEF malloc_null, PoolFits
    <3> QED BY <3>1, <3>2, <3>3, MallocAssumption
  <2> QED BY <2>2, <2>3
<1>2. ASSUME IInv, Next, req # 0, req' = 0, live' = live PROVE malloc_null
  <2>1. ~(malloc_split \/ malloc_whole)
    BY <1>2, Served
  <2>2. \A total_mb \in MemSizes : ~malloc_init(total_mb)
    BY <1>2 DEF malloc_init
  <2>3. \A n \in ReqSizes : ~malloc(n)
    BY <1>2 DEF malloc
  <2>4. ~expand_heap
    BY <1>2 DEF expand_heap
  <2>5. \A b \in live : ~free(b)
    BY <1>2 DEF free
  <2> QED BY <1>2, <2>1, <2>2, <2>3, <2>4, <2>5 DEF Next, MallocStep
<1>3. IInv /\ [Next]_vars => [(req # 0 /\ req' = 0 /\ live' = live) => Exhausted]_vars
  BY <1>1, <1>2
<1> QED BY <1>3, HeapInvariant, PTL DEF Spec, NullOnlyWhenExhausted

-----------------------------------------------------------------------------
(* The user area of a block, as the contract sees it. *)
Area(b) == [base |-> b.addr + Header, len |-> b.want]
Areas == {Area(b) : b \in live}

(* The areas of two blocks in use do not overlap, and so differ. *)
LEMMA AreasApart ==
    ASSUME NEW b \in LiveBlock, NEW c \in LiveBlock,
           Apart(b, c), b.want <= b.size, c.want <= c.size
    PROVE  Contract!Disjoint(Area(b), Area(c)) /\ Area(b) # Area(c)
<1>1. /\ b.addr \in Nat /\ b.size \in Nat /\ b.want \in Nat /\ b.want > 0
      /\ c.addr \in Nat /\ c.size \in Nat /\ c.want \in Nat /\ c.want > 0
  BY MallocAssumption DEF LiveBlock
<1>2. /\ Area(b).base = b.addr + 8 /\ Area(b).len = b.want
      /\ Area(c).base = c.addr + 8 /\ Area(c).len = c.want
  BY DEF Area, Header
<1>3. Contract!Disjoint(Area(b), Area(c))
  BY <1>1, <1>2 DEF Contract!Disjoint, Apart, Top, Header
<1>4. Area(b).base # Area(c).base
  BY <1>1, <1>2 DEF Apart, Top, Header
<1> QED BY <1>3, <1>4

(* A successful call is an allocation of the contract. *)
LEMMA ServedIsAlloc ==
    ASSUME IInv, malloc_split \/ malloc_whole
    PROVE  Contract!Alloc
<1>1. PICK g \in LiveBlock :
        live' = live \cup {g} /\ g \notin live /\ g.want = req /\ req # 0 /\ req \in Nat
  BY Served
<1>2. IInv'
  BY SplitPreserves, WholePreserves
<1>3. g \in live' /\ g.want <= g.size
  BY <1>1, <1>2 DEF IInv, HeapInv
<1>4. \A c \in live : Contract!Disjoint(Area(g), Area(c)) /\ Area(g) # Area(c)
  <2> SUFFICES ASSUME NEW c \in live
               PROVE  Contract!Disjoint(Area(g), Area(c)) /\ Area(g) # Area(c)
    OBVIOUS
  <2>1. c \in LiveBlock /\ c.want <= c.size
    BY BlockTypes DEF IInv, HeapInv
  <2>2. Apart(g, c)
    BY <1>1, <1>2, <1>3 DEF IInv, BlocksApart
  <2> QED BY <2>1, <2>2, <1>3, AreasApart
<1>5. Area(g) \notin Areas /\ Areas' = Areas \cup {Area(g)}
  BY <1>1, <1>4 DEF Areas, Area
<1>6. Area(g).base >= End /\ Area(g).len > 0 /\ Area(g).base + Area(g).len <= AddrSpace
  <2>1. g.addr \in Nat /\ g.size \in Nat /\ g.want \in Nat /\ g.want > 0
    BY MallocAssumption DEF LiveBlock
  <2>2. End <= g.addr /\ Top(g) <= heap_brk'
    BY <1>2, <1>3 DEF IInv, HeapTiled
  <2>3. heap_brk' = heap_brk /\ heap_brk \in 0..AddrSpace
    BY DEF malloc_split, malloc_whole, IInv, TypeOK
  <2> QED BY <1>3, <2>1, <2>2, <2>3, MallocAssumption DEF Area, Top, Header
<1>7. Contract!Grant(Area(g))
  BY <1>4, <1>5, <1>6 DEF Contract!Grant, Areas, Area
<1> QED BY <1>5, <1>7 DEF Contract!Alloc, Areas, Area

(* A free is a release of the contract. *)
LEMMA FreeIsRelease ==
    ASSUME IInv, NEW b \in live, free(b)
    PROVE  Contract!Release
<1>1. \A c \in live : c # b => Area(c) # Area(b)
  <2> SUFFICES ASSUME NEW c \in live, c # b PROVE Area(c) # Area(b)
    OBVIOUS
  <2>1. /\ b \in LiveBlock /\ c \in LiveBlock
        /\ b.want <= b.size /\ c.want <= c.size /\ Apart(c, b)
    BY BlockTypes DEF IInv, HeapInv, BlocksApart
  <2> QED BY <2>1, AreasApart
<1>2. Areas' = Areas \ {Area(b)} /\ Area(b) \in Areas
  BY <1>1 DEF free, Areas, Area
<1> QED BY <1>2 DEF Contract!Release, Areas, Area

(* The heap of malloc.c implements the allocator its callers rely on.      *)
THEOREM HeapImplementsContract == ASSUME NoWrap PROVE Spec => ContractSpec
<1>1. Init => Contract!Init
  BY DEF Init, Contract!Init
<1>2. ASSUME IInv, [Next]_vars PROVE [Contract!Next]_Areas
  <2>1. CASE live' = live
    BY <2>1 DEF Areas, Area
  <2>2. CASE malloc_split \/ malloc_whole
    BY <1>2, <2>2, ServedIsAlloc DEF Contract!Next
  <2>3. ASSUME NEW b \in live, free(b) PROVE Contract!Next
    BY <1>2, <2>3, FreeIsRelease DEF Contract!Next
  <2> QED BY <1>2, <2>1, <2>2, <2>3
        DEF Next, MallocStep, vars, malloc_init, malloc, expand_heap, malloc_null
<1>3. IInv /\ [Next]_vars => [Contract!Next]_({[base |-> b.addr + Header, len |-> b.want] : b \in live})
  BY <1>2 DEF Areas, Area
<1> QED BY <1>1, <1>3, HeapInvariant, PTL DEF Spec, ContractSpec, Contract!Spec
=============================================================================
