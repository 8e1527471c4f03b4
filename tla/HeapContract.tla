---------------------------- MODULE HeapContract ----------------------------
(***************************************************************************)
(* What the callers of malloc and free rely on: an allocation is a fresh   *)
(* area of the requested length, inside the heap and apart from every area *)
(* still held, and it stays the caller's until it is given back.  Nothing  *)
(* is said about headers, lists, pools or when an allocation succeeds.     *)
(***************************************************************************)
EXTENDS Integers

CONSTANTS Lo, Hi   \* the heap lies in Lo .. Hi - 1

VARIABLE held      \* the areas [base, len] in callers' hands

Disjoint(a, h) == a.base + a.len <= h.base \/ h.base + h.len <= a.base

Init == held = {}

Grant(a) ==
    /\ a.base >= Lo
    /\ a.len > 0
    /\ a.base + a.len <= Hi
    /\ \A h \in held : Disjoint(a, h)
    /\ held' = held \cup {a}

Alloc == \E a \in held' \ held : Grant(a)

Release == \E a \in held : held' = held \ {a}

Next == Alloc \/ Release

Spec == Init /\ [][Next]_held
=============================================================================
