------------------------------- MODULE MCShell -------------------------------
(* Instances of the shell and its terminal for TLC. *)
EXTENDS Shell

MCGlyphs == {"SP", "x", "$", ">"}
MCBehind == {[i \in Cell |-> "x"]}
MCKeys == {"SP", "x", "$"}
MCCommands == {<<"x">>}
MCEnv == [name \in {<<"x">>} |-> <<"x", "x">>]
MCPrompt == <<">">>
MCBanner == <<"LF", "LF">>
MCNotFound == <<"x", "LF">>
MCOutputs == {<<>>, <<"x", "LF">>}
==============================================================================
