-------------------------------- MODULE Shell --------------------------------
(***************************************************************************)
(* The shell loop of kernel/src/Little_Linux.c on the terminal of module   *)
(* Tty: it edits a line, echoing each key, splits it into a command and    *)
(* its arguments, replaces arguments that name an environment variable,    *)
(* and calls the command.  Text waits in out until it is printed; the      *)
(* shell goes on when all of it is.                                        *)
(*                                                                         *)
(* An argument is where it starts in the line buffer and what is there up  *)
(* to the next NUL.  Command names are taken to be shorter than the 64     *)
(* bytes of cmd_name, as all registered ones are.                          *)
(***************************************************************************)
EXTENDS Tty, Sequences

CONSTANTS
    Keys,        \* glyphs the keyboard gives
    MAX_ARGS,    \* 64 in the code
    LineMax,     \* bound on the line; the code has 512 bytes and no check
    VarRoom,     \* bytes that expanding a variable writes, 256 in the code
    Commands,    \* names of the registered commands
    Env,         \* environment variables and their values
    Prompt,      \* what is printed before a line is read,
    Banner,      \* when the line is complete,
    NotFound,    \* when there is no such command,
    Outputs      \* and what commands may print

(* What is printed: only the erasing of a character has a backspace, and   *)
(* nothing has a carriage return.                                          *)
Plain == Glyphs \cup {"LF"}

(* A line fits on the screen without its last row (512 bytes, 24 rows of   *)
(* 80 in the code).                                                        *)
ASSUME ShellAssumption ==
    /\ Keys \subseteq Glyphs
    /\ MAX_ARGS \in Nat /\ MAX_ARGS >= 1
    /\ LineMax \in Nat /\ LineMax <= (VGA_HEIGHT - 1) * VGA_WIDTH
    /\ VarRoom \in Nat \ {0}
    /\ \A name \in DOMAIN Env : Env[name] \in Seq(Glyphs)
    /\ {Prompt, Banner, NotFound} \subseteq Seq(Plain) /\ Outputs \subseteq Seq(Plain)
    /\ Prompt # <<>>

VARIABLES
    buffer,     \* the line: the first buf_len characters of the array
    pc,         \* "edit", "search", "split", "expand"
    out,        \* text still to be printed
    p,          \* how much of the line has been split
    argv,       \* the arguments after the command's name: [at, text]
    arg         \* how many of them have been looked at for variables

shellvars == <<buffer, pc, p, argv, arg>>
vars == <<ttyvars, shellvars, out>>

Init ==
    /\ initTerminal
    /\ buffer = <<>> /\ pc = "edit" /\ out = Prompt
    /\ p = 0 /\ argv = <<>> /\ arg = 0

(* printf hands the text to the terminal, one character after the other. *)
terminalPutS ==
    /\ out # <<>>
    /\ terminalPutC(Head(out))
    /\ out' = Tail(out)
    /\ UNCHANGED shellvars

At(here) == pc = here /\ out = <<>> /\ UNCHANGED ttyvars

-----------------------------------------------------------------------------
(* Definitions that end in _bug are deliberately wrong variants of the one *)
(* that follows: what a property must detect if the code were changed so.  *)

(* my_own_os_main: a character is echoed and kept, *)
KeyGlyph(k) ==
    /\ At("edit")
    /\ Len(buffer) < LineMax /\ InMemory
    /\ out' = <<k>>
    /\ buffer' = Append(buffer, k)
    /\ UNCHANGED <<pc, p, argv, arg>>

Erase_bug == <<"BS">>

(* the backspace key takes the last one back, here and on the screen, *)
Erase == <<"BS", "SP", "BS">>

KeyBackspace ==
    /\ At("edit")
    /\ \/ /\ buffer # <<>>
          /\ out' = Erase
          /\ buffer' = SubSeq(buffer, 1, Len(buffer) - 1)
       \/ /\ buffer = <<>>
          /\ UNCHANGED <<out, buffer>>
    /\ UNCHANGED <<pc, p, argv, arg>>

(* enter ends the line. *)
KeyEnter ==
    /\ At("edit") /\ InMemory
    /\ out' = Banner
    /\ pc' = "search"
    /\ UNCHANGED <<buffer, p, argv, arg>>

-----------------------------------------------------------------------------
(* The first place from i on that has a character other than a space, or   *)
(* that has a space; the end of the line when there is none.               *)
Where(i, stop) ==
    CHOOSE j \in i..(Len(buffer) + 1) :
        /\ j = Len(buffer) + 1 \/ stop[buffer[j]]
        /\ \A k \in i..(j - 1) : ~stop[buffer[k]]

IsSpace == [ch \in Glyphs |-> ch = "SP"]
IsWord == [ch \in Glyphs |-> ch # "SP"]

(* my_os_command_search: the name is what comes before the first space. *)
CmdName == SubSeq(buffer, 1, Where(1, IsSpace) - 1)

Finish(text) ==
    /\ out' = text \o Prompt
    /\ pc' = "edit"
    /\ buffer' = <<>> /\ p' = 0 /\ argv' = <<>> /\ arg' = 0

Search ==
    /\ At("search")
    /\ \/ CmdName \notin Commands /\ Finish(NotFound)
       \/ /\ CmdName \in Commands
          /\ p' = Where(Where(1, IsSpace), IsWord)
          /\ pc' = "split"
          /\ UNCHANGED <<buffer, argv, arg, out>>

AfterWord_bug(i) == i + 1

(* Behind a word and the spaces that follow it. *)
AfterWord(i) == Where(i, IsWord)

Split_bug ==
    /\ At("split")
    /\ \/ /\ p <= Len(buffer) /\ Len(argv) < MAX_ARGS
          /\ LET end == Where(p, IsSpace)
             IN  /\ argv' = Append(argv, [at |-> p, text |-> SubSeq(buffer, p, end - 1)])
                 /\ p' = IF end > Len(buffer) THEN end ELSE AfterWord(end)
          /\ UNCHANGED pc
       \/ /\ p > Len(buffer) \/ Len(argv) >= MAX_ARGS
          /\ pc' = "expand"
          /\ UNCHANGED <<argv, p>>
    /\ UNCHANGED <<buffer, arg, out>>

(* Each word becomes an argument, up to MAX_ARGS with the command's name.  *)
Split ==
    /\ At("split")
    /\ \/ /\ p <= Len(buffer) /\ Len(argv) + 1 < MAX_ARGS
          /\ LET end == Where(p, IsSpace)
             IN  /\ argv' = Append(argv, [at |-> p, text |-> SubSeq(buffer, p, end - 1)])
                 /\ p' = IF end > Len(buffer) THEN end ELSE AfterWord(end)
          /\ UNCHANGED pc
       \/ /\ p > Len(buffer) \/ Len(argv) + 1 >= MAX_ARGS
          /\ pc' = "expand"
          /\ UNCHANGED <<argv, p>>
    /\ UNCHANGED <<buffer, arg, out>>

(* What a string reads as, d places on from where strncpy wrote value. *)
ReadAt(value, d) == SubSeq(value, d + 1, Len(value))

(* my_os_command_expand_env_var: the value, and zeros up to VarRoom bytes, *)
(* go to where the argument starts.  Other arguments may start there too,  *)
(* and one that was replaced before may reach up to there.                 *)
ExpandArg(i, value) ==
    LET kept == SubSeq(value, 1, IF Len(value) < VarRoom THEN Len(value) ELSE VarRoom - 1)
        d(j) == argv[j].at - argv[i].at
    IN  [j \in DOMAIN argv |->
            IF d(j) \in 0..(VarRoom - 1)
            THEN [argv[j] EXCEPT !.text = ReadAt(kept, d(j))]
            ELSE IF d(j) < 0 /\ d(j) + Len(argv[j].text) >= 0
            THEN [argv[j] EXCEPT !.text = SubSeq(argv[j].text, 1, 0 - d(j)) \o kept]
            ELSE argv[j]]

(* "$" and the name of a variable that is set. *)
IsVariable(text) == text # <<>> /\ Head(text) = "$" /\ Tail(text) \in DOMAIN Env

Expand_bug ==
    /\ At("expand")
    /\ arg < Len(argv)
    /\ \/ /\ IsVariable(argv[arg + 1].text)
          /\ argv' = ExpandArg(arg + 1, Env[Tail(argv[arg + 1].text)])
       \/ /\ ~IsVariable(argv[arg + 1].text)
          /\ UNCHANGED argv
    /\ UNCHANGED <<buffer, pc, p, arg, out>>

(* my_os_command_run: the arguments in order, then the command.  The loop  *)
(* looks at the command's name too, but no registered name starts with     *)
(* "$", so that pass changes nothing.                                      *)
Expand ==
    /\ At("expand")
    /\ arg < Len(argv)
    /\ arg' = arg + 1
    /\ \/ /\ IsVariable(argv[arg + 1].text)
          /\ argv' = ExpandArg(arg + 1, Env[Tail(argv[arg + 1].text)])
       \/ /\ ~IsVariable(argv[arg + 1].text)
          /\ UNCHANGED argv
    /\ UNCHANGED <<buffer, pc, p, out>>

(* The command runs and returns, and the next line is read. *)
Call ==
    /\ At("expand")
    /\ arg = Len(argv)
    /\ \E text \in Outputs : Finish(text)

Next ==
    \/ terminalPutS
    \/ \E k \in Keys : KeyGlyph(k)
    \/ KeyBackspace
    \/ KeyEnter
    \/ Search
    \/ Split
    \/ Expand
    \/ Call

Spec == Init /\ [][Next]_vars

(* The shell does not wait between keys: it prints and runs what is there. *)
FairSpec == Spec /\ WF_vars(terminalPutS \/ Search \/ Split \/ Expand \/ Call)

-----------------------------------------------------------------------------
TypeOK ==
    /\ TtyTypeOK
    /\ buffer \in Seq(Keys) /\ Len(buffer) <= LineMax
    /\ pc \in {"edit", "search", "split", "expand"}
    /\ Len(argv) < MAX_ARGS /\ arg \in 0..Len(argv)

(* What the user sees is what will run: once the echo is printed, the line *)
(* stands on the screen right before the cursor, over line ends, scrolling *)
(* and backspaces, and nothing but blanks stands behind it on the screen.  *)
EchoMatches ==
    pc = "edit" /\ out = <<>> =>
        LET here == getCharOffset(terminal_column, terminal_row)
        IN  /\ \A i \in 1..Len(buffer) :
                terminal_buffer[here - Len(buffer) + i - 1] = buffer[i]
            /\ \A i \in here..(VGA_HEIGHT * VGA_WIDTH - 1) : terminal_buffer[i] \in Blank

(* The arguments are the words behind the command's name: they start at    *)
(* the words of the line, in order, and none is left out unless there are  *)
(* MAX_ARGS of them.  Up to the call each reads as its word, unless one at *)
(* or before it is a variable that has been replaced, and the VarRoom      *)
(* bytes written there reach it: at once, or over arguments in between     *)
(* that the new text made variables too.                                   *)
Word(from) == SubSeq(buffer, from, Where(from, IsSpace) - 1)

Overwritten(j) ==
    \E i \in 1..arg :
       /\ i <= j /\ IsVariable(Word(argv[i].at))
       /\ \A k \in i..(j - 1) : argv[k + 1].at - argv[k].at < VarRoom

ArgvIsWords ==
    pc = "expand" =>
        /\ \A j \in DOMAIN argv :
            /\ buffer[argv[j].at - 1] = "SP" /\ buffer[argv[j].at] # "SP"
            /\ \A k \in DOMAIN argv : j < k => argv[j].at < argv[k].at
            /\ argv[j].text = Word(argv[j].at) \/ Overwritten(j)
        /\ \A i \in 2..Len(buffer) :
            buffer[i] # "SP" /\ buffer[i - 1] = "SP" /\ Len(argv) + 1 < MAX_ARGS
                => \E j \in DOMAIN argv : argv[j].at = i

(* Enter always leads back to the prompt. *)
PromptReturns == pc # "edit" ~> pc = "edit" /\ out = <<>>
==============================================================================
