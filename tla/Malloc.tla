------------------------------- MODULE Malloc -------------------------------
(***************************************************************************)
(* The kernel heap of kernel/src/malloc.c: a first-fit allocator that      *)
(* splits blocks, never merges them, and grows by pools of a fixed size    *)
(* taken from the memory behind the kernel image.                          *)
(*                                                                         *)
(* Addresses and sizes are bytes.  A block is its header (sizeof           *)
(* free_block_t, 8 bytes on this 32-bit build) and the user area behind    *)
(* it.  The linked list free_list is the sequence of its blocks; a block   *)
(* the caller holds is in the set live together with the size that was     *)
(* asked for.  The header of a live block still carries the block's size,  *)
(* which is what free relies on.                                           *)
(***************************************************************************)
EXTENDS Integers, Sequences, SequencesExt

CONSTANTS
    End,        \* address of the linker symbol _end
    PoolSize,   \* POOL_SIZE, 16 MB in the code
    MB,         \* 1024 * 1024
    AddrSpace,  \* 2^32: pointers, size_t and uint32_t wrap here
    MemSizes,   \* the memory sizes in MB the boot loader may report
    ReqSizes    \* the sizes callers ask for

(* sizeof(free_block_t) *)
Header == 8

ASSUME MallocAssumption ==
    /\ End \in Nat
    /\ PoolSize \in Nat /\ PoolSize % 8 = 0 /\ PoolSize >= 24
    /\ AddrSpace \in Nat /\ AddrSpace % 8 = 0 /\ End + PoolSize < AddrSpace
    /\ MB \in Nat
    /\ MemSizes \subseteq Nat
    /\ ReqSizes \subseteq 0..(AddrSpace - 8)

VARIABLES
    heap_brk,   \* first byte not yet part of a pool
    heap_max,   \* limit of heap_brk; 0 until malloc_init
    free_list,  \* sequence of [addr, size]
    live,       \* blocks in the callers' hands: [addr, size, want]
    req,        \* size of the malloc call in progress, 0 when there is none
    booted      \* malloc_init has run

vars == <<heap_brk, heap_max, free_list, live, req, booted>>

-----------------------------------------------------------------------------
(* Definitions that end in _bug are deliberately wrong variants of the one *)
(* that follows: what a property must detect if the code were changed so.  *)

AlignUp_bug(s) == (s \div 8) * 8

(* ALIGN_UP on size_t. *)
AlignUp(s) == (((s + 7) % AddrSpace) \div 8) * 8

(* The request malloc serves: aligned, and at least 8 bytes. *)
ReqSize(n) == IF AlignUp(n) < 8 THEN 8 ELSE AlignUp(n)

(* The limit malloc_init computes, in 32-bit arithmetic. *)
HeapMax(total_mb) == (End + ((total_mb * MB) % AddrSpace)) % AddrSpace

PoolFits_bug(max) == (heap_brk + AlignUp(PoolSize)) % AddrSpace < max

(* The test of request_memory for one more pool under the limit max. *)
PoolFits(max) == (heap_brk + AlignUp(PoolSize)) % AddrSpace <= max

AddPool_bug ==
    /\ heap_brk' = (heap_brk + AlignUp(PoolSize)) % AddrSpace
    /\ free_list' = <<[addr |-> heap_brk, size |-> PoolSize]>> \o free_list

(* request_memory succeeded: the new pool is one free block, at the head. *)
AddPool ==
    /\ heap_brk' = (heap_brk + AlignUp(PoolSize)) % AddrSpace
    /\ free_list' = <<[addr |-> heap_brk, size |-> PoolSize - Header]>> \o free_list

CanSplit_bug(b, r) == b.size - r >= Header
Remainder_bug(b, r) == [addr |-> b.addr + r, size |-> b.size - r - Header]

(* What stays in the list when block b serves a request of r bytes, and    *)
(* what the caller gets.                                                   *)
CanSplit(b, r) == b.size - r >= Header + 8
Remainder(b, r) == [addr |-> b.addr + Header + r, size |-> b.size - r - Header]

Fits(i) == free_list[i].size >= ReqSize(req)

FirstFit(i) ==
    /\ i \in DOMAIN free_list
    /\ Fits(i)
    /\ \A j \in 1..(i - 1) : ~Fits(j)

NoFit == \A i \in DOMAIN free_list : ~Fits(i)

-----------------------------------------------------------------------------
Init ==
    /\ heap_brk = End
    /\ heap_max = 0
    /\ free_list = <<>>
    /\ live = {}
    /\ req = 0
    /\ booted = FALSE

(* When the first pool does not fit, malloc_init reports it and returns:   *)
(* the heap stays empty and every malloc fails.                            *)
malloc_init(total_mb) ==
    /\ ~booted
    /\ booted' = TRUE
    /\ heap_max' = HeapMax(total_mb)
    /\ IF PoolFits(heap_max') THEN AddPool ELSE UNCHANGED <<heap_brk, free_list>>
    /\ UNCHANGED <<live, req>>

(* A caller enters malloc(n); malloc(0) returns at once and changes        *)
(* nothing.                                                                *)
malloc(n) ==
    /\ booted
    /\ req = 0
    /\ n # 0
    /\ req' = n
    /\ UNCHANGED <<heap_brk, heap_max, free_list, live, booted>>

(* The scan stops at a block that leaves room for another one: the tail    *)
(* of the block takes its place in the list.                               *)
malloc_split ==
    /\ req # 0
    /\ \E i \in DOMAIN free_list :
        LET b == free_list[i]
            r == ReqSize(req)
        IN  /\ FirstFit(i)
            /\ CanSplit(b, r)
            /\ free_list' = [free_list EXCEPT ![i] = Remainder(b, r)]
            /\ live' = live \cup {[addr |-> b.addr, size |-> r, want |-> req]}
    /\ req' = 0
    /\ UNCHANGED <<heap_brk, heap_max, booted>>

malloc_whole_bug ==
    /\ req # 0
    /\ \E i \in DOMAIN free_list :
        LET b == free_list[i]
        IN  /\ FirstFit(i)
            /\ ~CanSplit(b, ReqSize(req))
            /\ live' = live \cup {[addr |-> b.addr, size |-> b.size, want |-> req]}
    /\ req' = 0
    /\ UNCHANGED <<free_list, heap_brk, heap_max, booted>>

(* The block is too small to split: it is unlinked and served whole. *)
malloc_whole ==
    /\ req # 0
    /\ \E i \in DOMAIN free_list :
        LET b == free_list[i]
        IN  /\ FirstFit(i)
            /\ ~CanSplit(b, ReqSize(req))
            /\ free_list' = RemoveAt(free_list, i)
            /\ live' = live \cup {[addr |-> b.addr, size |-> b.size, want |-> req]}
    /\ req' = 0
    /\ UNCHANGED <<heap_brk, heap_max, booted>>

(* No block fits: the heap grows by one pool and malloc calls itself. *)
expand_heap ==
    /\ req # 0
    /\ NoFit
    /\ PoolFits(heap_max)
    /\ AddPool
    /\ UNCHANGED <<heap_max, live, req, booted>>

malloc_null_bug == req # 0 /\ NoFit /\ ~PoolFits(heap_max) /\ UNCHANGED vars

(* No block fits and the heap cannot grow: malloc returns NULL. *)
malloc_null ==
    /\ req # 0
    /\ NoFit
    /\ ~PoolFits(heap_max)
    /\ req' = 0
    /\ UNCHANGED <<heap_brk, heap_max, free_list, live, booted>>

(* The block goes back to the head of the list, unmerged. *)
free(b) ==
    /\ req = 0
    /\ live' = live \ {b}
    /\ free_list' = <<[addr |-> b.addr, size |-> b.size]>> \o free_list
    /\ UNCHANGED <<heap_brk, heap_max, req, booted>>

MallocStep == malloc_split \/ malloc_whole \/ expand_heap \/ malloc_null

Next ==
    \/ \E total_mb \in MemSizes : malloc_init(total_mb)
    \/ \E n \in ReqSizes : malloc(n)
    \/ MallocStep
    \/ \E b \in live : free(b)

Spec == Init /\ [][Next]_vars

(* A call that has begun runs on: nothing else runs on the CPU but         *)
(* interrupt handlers, which return.                                       *)
FairSpec == Spec /\ WF_vars(MallocStep)

-----------------------------------------------------------------------------
(* Shape of the state: free blocks and live blocks have room for at least  *)
(* 8 user bytes, and a list node's next pointer has somewhere to be.       *)
Block == [addr : Nat, size : {s \in 8..AddrSpace : s % 8 = 0}]
LiveBlock == [addr : Nat, size : {s \in 8..AddrSpace : s % 8 = 0},
              want : 1..AddrSpace]

TypeOK ==
    /\ heap_brk \in 0..AddrSpace
    /\ heap_max \in 0..AddrSpace
    /\ \A i \in DOMAIN free_list : free_list[i] \in Block
    /\ live \subseteq LiveBlock
    /\ req \in ReqSizes \cup {0}
    /\ booted \in BOOLEAN

Top(b) == b.addr + Header + b.size
Apart(a, b) == Top(a) <= b.addr \/ Top(b) <= a.addr

(* No byte belongs to two blocks: neither to two blocks of the free list   *)
(* (a list that names a block twice hands it out twice), nor to a free and *)
(* a live one, nor to two live ones, whatever the splits and frees so far. *)
BlocksApart ==
    /\ \A i, j \in DOMAIN free_list : i # j => Apart(free_list[i], free_list[j])
    /\ \A i \in DOMAIN free_list, b \in live : Apart(free_list[i], b)
    /\ \A b, c \in live : b # c => Apart(b, c)

(* The blocks tile the heap: none reaches out of _end .. heap_brk, and     *)
(* every byte between them is in a block, so nothing leaks in a split.     *)
HeapTiled ==
    /\ \A i \in DOMAIN free_list :
            End <= free_list[i].addr /\ Top(free_list[i]) <= heap_brk
    /\ \A b \in live : End <= b.addr /\ Top(b) <= heap_brk
    /\ \A x \in End..(heap_brk - 1) :
            \/ \E i \in DOMAIN free_list :
                    free_list[i].addr <= x /\ x < Top(free_list[i])
            \/ \E b \in live : b.addr <= x /\ x < Top(b)

(* What malloc returned is as large as asked for and aligned to 8 bytes    *)
(* counted from _end ("returns an 8-byte aligned user block").             *)
LiveUsable ==
    \A b \in live : b.want <= b.size /\ (b.addr - End) % 8 = 0

(* malloc returns NULL only when no free block is large enough and the     *)
(* heap cannot take another pool.                                          *)
NullOnlyWhenExhausted ==
    [][(req # 0 /\ req' = 0 /\ live' = live) =>
        /\ \A i \in DOMAIN free_list : free_list[i].size < req
        /\ heap_brk + PoolSize > heap_max]_vars

(* Every call of malloc returns: even a request larger than a pool, which  *)
(* grows the heap over and over, comes to the end of the memory.           *)
MallocReturns == req # 0 ~> req = 0

(* Strengthening that makes the three invariants above inductive: every    *)
(* block and the break lie on the 8-byte grid that starts at _end, no live *)
(* block is smaller than asked for, and one more pool never wraps.         *)
OnGrid(a) == (a - End) % 8 = 0

HeapInv ==
    /\ free_list \in Seq(Block)
    /\ OnGrid(heap_brk) /\ heap_brk >= End
    /\ \A i \in DOMAIN free_list : OnGrid(free_list[i].addr)
    /\ \A b \in live : OnGrid(b.addr) /\ b.want <= b.size
    /\ heap_max < AddrSpace - PoolSize
    /\ heap_brk = End \/ (booted /\ heap_brk <= heap_max)
    /\ req # 0 => booted

(* The contract is about the user area of each live block. *)
Contract == INSTANCE HeapContract WITH
    Lo <- End,
    Hi <- AddrSpace,
    held <- {[base |-> b.addr + Header, len |-> b.want] : b \in live}

(* What the callers rely on, whatever split, pool growth and list order    *)
(* did: each malloc returns an area of the asked size that overlaps no     *)
(* area still held, and only free ends a hold.                             *)
ContractSpec == Contract!Spec

(* The pool arithmetic of request_memory does not wrap: no reported memory *)
(* size puts heap_max within a pool of the end of the address space.       *)
NoWrap ==
    \A total_mb \in MemSizes :
        HeapMax(total_mb) + PoolSize < AddrSpace
=============================================================================
