------------------------------- MODULE MCRamfs -------------------------------
(* Instances of the file system for TLC.                                   *)
EXTENDS Ramfs

Rel(comps) == [abs |-> FALSE, comps |-> comps]
Abs(comps) == [abs |-> TRUE, comps |-> comps]

(* "a", "..", "a/b", "../b", "/a", "/a/b", "a/": here, above, below, beside,*)
(* from the root, and the two forms that touch, rm and backspace refuse.   *)
MCPaths == {Rel(<<"a">>), Rel(<<"..">>), Rel(<<"a", "b">>), Rel(<<"..", "b">>),
            Abs(<<"a">>), Abs(<<"a", "b">>), Rel(<<"a", "">>)}
(* "a/b", "/b" and "a//b", which ends at its empty component.              *)
MCDeepPaths == {Rel(<<"a", "b">>), Abs(<<"b">>), Rel(<<"a", "", "b">>)}

MCData == {<<>>, <<"x">>, <<"x", "y">>}

(* No action reads last: two states that differ in it alone have the same  *)
(* successors.                                                             *)
StateView == <<dirs, heap, current_dir, current_path, pwd, job>>
==============================================================================
