-------------------------------- MODULE MCTty --------------------------------
(* The terminal alone, for TLC. *)
EXTENDS Tty

MCGlyphs == {"SP", "x"}
MCBehind == {[i \in Cell |-> "x"], [i \in Cell |-> Nul]}
==============================================================================
