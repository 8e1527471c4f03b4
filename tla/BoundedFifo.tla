----------------------------- MODULE BoundedFifo -----------------------------
(***************************************************************************)
(* What the reader of the keyboard relies on: a queue of at most Cap       *)
(* characters that delivers them once each, in the order they were typed,  *)
(* and loses one only when it is full.                                     *)
(***************************************************************************)
EXTENDS Naturals, Sequences

CONSTANTS
    Cap,    \* how many characters wait at most
    Char    \* the characters

VARIABLES
    q,      \* the characters typed and not yet delivered
    got,    \* the last character delivered
    lost    \* TRUE once a character was lost

vars == <<q, got, lost>>

Init == q = <<>> /\ lost = FALSE

Put ==
    /\ Len(q) < Cap
    /\ \E ch \in Char : q' = Append(q, ch)
    /\ UNCHANGED <<got, lost>>

Drop ==
    /\ Len(q) = Cap
    /\ lost' = TRUE
    /\ UNCHANGED <<q, got>>

Take ==
    /\ q # <<>>
    /\ got' = Head(q)
    /\ q' = Tail(q)
    /\ UNCHANGED lost

Next == Put \/ Drop \/ Take

Spec == Init /\ [][Next]_vars
==============================================================================
