--------------------------------- MODULE MCDfs ---------------------------------
(* Instance for TLC: a partition on which nothing has been written yet, or *)
(* one that another system has filled: two files in neighbouring blocks,   *)
(* whose bits share the first byte of the bitmap.                          *)
EXTENDS Dfs

MCBlank == [magic |-> FALSE, root |-> NULL, bitmap |-> {},
            data |-> [b \in Blocks |-> NULL]]

MCUsed == [magic |-> TRUE,
           root |-> [f \in Names |-> [length |-> 1, addr |-> IF f = "a" THEN 1 ELSE 2]],
           bitmap |-> {0, 1},
           data |-> [b \in Blocks |-> IF b \in {0, 1} THEN "old" ELSE NULL]]

MCNew == {MCBlank}
MCAny == {MCBlank, MCUsed}
===============================================================================
