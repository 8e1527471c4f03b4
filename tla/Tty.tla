--------------------------------- MODULE Tty ---------------------------------
(***************************************************************************)
(* The VGA text terminal of drivers/src/tty.c: a row and a column, video   *)
(* memory, and the hardware cursor, which the code sets after every        *)
(* character and reads back to step over the last one.  Nothing calls it   *)
(* from an interrupt, so one character is one action.                      *)
(***************************************************************************)
EXTENDS Integers

CONSTANTS
    VGA_HEIGHT, VGA_WIDTH,   \* 25 and 80 in the code
    Cells,                   \* cells of video memory; more than are shown
    Byte,                    \* values of a byte: the cursor has two registers
    Glyphs,                  \* characters that are drawn, the space among them
    Behind                   \* what video memory may hold before the start

ASSUME TtyAssumption ==
    /\ VGA_HEIGHT \in Nat /\ VGA_HEIGHT >= 2
    /\ VGA_WIDTH \in Nat /\ VGA_WIDTH >= 2
    /\ Cells \in Nat /\ Cells >= (VGA_HEIGHT + 1) * VGA_WIDTH
    /\ Byte \in Nat /\ Byte * Byte >= Cells
    /\ "SP" \in Glyphs /\ Glyphs \cap {"LF", "CR", "BS"} = {}
    /\ Behind \subseteq [0..(Cells - 1) -> Glyphs \cup {"NUL"}]

VARIABLES
    terminal_row, terminal_column,
    terminal_buffer,    \* video memory, colours left out
    cursor              \* the cursor registers [hi, lo]

ttyvars == <<terminal_row, terminal_column, terminal_buffer, cursor>>

Nul == "NUL"            \* what doScroll fills the last row with
Blank == {"SP", Nul}
Cell == 0..(Cells - 1)

getCharOffset(col, row) == row * VGA_WIDTH + col

-----------------------------------------------------------------------------
(* Definitions that end in _bug are deliberately wrong variants of the one *)
(* that follows: what a property must detect if the code were changed so.  *)

(* The registers hold the offset's two bytes. *)
ttySetCursor(offset) == [hi |-> (offset \div Byte) % Byte, lo |-> offset % Byte]
ttyGetCursor == cursor.hi * Byte + cursor.lo

(* The screen is cleared.  Video memory behind it is as it was, and so is  *)
(* the cursor, wherever on the screen the boot loader has left it.         *)
initTerminal ==
    /\ terminal_row = 0 /\ terminal_column = 0
    /\ \E old \in Behind : terminal_buffer =
            [i \in Cell |-> IF i < VGA_HEIGHT * VGA_WIDTH THEN "SP" ELSE old[i]]
    /\ \E offset \in 0..(VGA_HEIGHT * VGA_WIDTH - 1) : cursor = ttySetCursor(offset)

(* Every row moves up; the last one is emptied, and as much again behind   *)
(* in video memory.                                                        *)
doScroll(buffer) ==
    [i \in Cell |-> IF i < (VGA_HEIGHT - 1) * VGA_WIDTH THEN buffer[i + VGA_WIDTH]
                    ELSE IF i < (VGA_HEIGHT + 1) * VGA_WIDTH THEN Nul
                    ELSE buffer[i]]

NextColumn_bug(col) == IF col = VGA_WIDTH THEN 0 ELSE col + 1

(* Where the column after the current one is. *)
NextRow(col, row) == IF col + 1 = VGA_WIDTH THEN row + 1 ELSE row
NextColumn(col) == IF col + 1 = VGA_WIDTH THEN 0 ELSE col + 1

checkScroll_bug(col, row, buffer) ==
    /\ terminal_row' = NextRow(col, row)
    /\ terminal_buffer' = IF NextRow(col, row) > VGA_HEIGHT THEN doScroll(buffer) ELSE buffer

(* checkScroll with the buffer so far: it moves on by a column, and        *)
(* scrolls when that leads to the row behind the last, to that row only.   *)
checkScroll(col, row, buffer) ==
    LET down == NextRow(col, row)
    IN  \/ /\ down = VGA_HEIGHT
           /\ terminal_row' = VGA_HEIGHT - 1
           /\ terminal_buffer' = doScroll(buffer)
        \/ /\ down # VGA_HEIGHT
           /\ terminal_row' = down
           /\ terminal_buffer' = buffer

(* A glyph is drawn where the row and the column say.  What is drawn       *)
(* behind video memory is lost.                                            *)
terminalMvPutC(c, col, row) ==
    IF getCharOffset(col, row) \in Cell
    THEN [terminal_buffer EXCEPT ![getCharOffset(col, row)] = c]
    ELSE terminal_buffer

PutGlyph(c) ==
    /\ c \in Glyphs
    /\ checkScroll(terminal_column, terminal_row,
                   terminalMvPutC(c, terminal_column, terminal_row))
    /\ terminal_column' = NextColumn(terminal_column)

(* A new line goes down, and on by a column like a glyph does. *)
PutNewline ==
    /\ checkScroll(terminal_column, terminal_row + 1, terminal_buffer)
    /\ terminal_column' = 0

PutReturn ==
    /\ terminal_column' = 0
    /\ UNCHANGED <<terminal_row, terminal_buffer>>

(* One step back from the hardware cursor, not past the first cell. *)
PutBackspace ==
    LET pos == IF ttyGetCursor = 0 THEN 0 ELSE ttyGetCursor - 1
    IN  /\ terminal_column' = pos % VGA_WIDTH
        /\ terminal_row' = pos \div VGA_WIDTH
        /\ UNCHANGED terminal_buffer

terminalPutC(c) ==
    /\ \/ PutGlyph(c)
       \/ c = "LF" /\ PutNewline
       \/ c = "CR" /\ PutReturn
       \/ c = "BS" /\ PutBackspace
    /\ cursor' = ttySetCursor(getCharOffset(terminal_column', terminal_row'))

(* The terminal alone, with any text, as long as the rows it runs to are   *)
(* in video memory.                                                        *)
Text == Glyphs \cup {"LF", "CR", "BS"}
InMemory == getCharOffset(0, terminal_row + 3) <= Cells
TtyNext == \E c \in Text : (InMemory \/ c = "BS") /\ terminalPutC(c)
TtySpec == initTerminal /\ [][TtyNext]_ttyvars

-----------------------------------------------------------------------------
(* Shape of the state. *)
TtyTypeOK ==
    /\ terminal_row \in Nat
    /\ terminal_column \in 0..(VGA_WIDTH - 1)
    /\ terminal_buffer \in [Cell -> Glyphs \cup {Nul}]
    /\ cursor \in [hi : 0..(Byte - 1), lo : 0..(Byte - 1)]

(* The terminal leaves the screen, and stops scrolling, in one case only:  *)
(* a new line in the last column of the last row.                          *)
OnlyWayOff ==
    [][(terminal_row < VGA_HEIGHT /\ terminal_row' >= VGA_HEIGHT) =>
        /\ terminal_row = VGA_HEIGHT - 1 /\ terminal_column = VGA_WIDTH - 1
        /\ terminal_row' = VGA_HEIGHT + 1 /\ terminal_column' = 0]_ttyvars

(* What the comments in checkScroll say: it checks if the terminal needs   *)
(* to be scrolled, and goes back to the last row.                          *)
OnScreen == terminal_row < VGA_HEIGHT
==============================================================================
