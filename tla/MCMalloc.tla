------------------------------ MODULE MCMalloc ------------------------------
(* Instance for TLC.  A pool of 48 bytes stands for                        *)
(* the 16 MB pool, an address space of 384 bytes for 2^32.                 *)
EXTENDS Malloc

(* Too little for one pool; two pools; two pools and some; a size whose    *)
(* byte count wraps to 0, as 4096 MB does.                                 *)
MCMemSizes == {1, 4, 5, 16}

(* malloc(0); two sizes that split a pool and, in turn, leave remainders   *)
(* that are taken whole; one larger than any pool.                         *)
MCReqSizes == {0, 3, 12, 45}
=============================================================================
