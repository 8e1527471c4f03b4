----------------------------- MODULE ShellProofs -----------------------------
(***************************************************************************)
(* Proofs about the terminal and about the shell that runs on it, for      *)
(* every screen size, set of keys and table of commands.  The terminal:    *)
(* its state keeps its shape, and the one way off the screen.  The shell:  *)
(* the line on the screen is the line in the buffer, and the arguments of  *)
(* a command are the words behind its name.                                *)
(***************************************************************************)
EXTENDS Shell, SequencesExt, SequenceTheorems, FiniteSetTheorems, WellFoundedInduction, TLAPS

(* Every set of numbers with an element has a least one. *)
LEMMA LeastNumber ==
    ASSUME NEW S \in SUBSET Nat, S # {}
    PROVE  \E m \in S : \A k \in S : m <= k
<1>. DEFINE T == {0..n : n \in S}
            R == StrictSubsetOrdering(Nat)
<1>1. T \subseteq FiniteSubsetsOf(Nat)
  <2>1. SUFFICES ASSUME NEW n \in S PROVE 0..n \in FiniteSubsetsOf(Nat)
    OBVIOUS
  <2>2. IsFiniteSet(0..n)
    BY FS_Interval
  <2>. QED BY <2>2 DEF FiniteSubsetsOf
<1>2. T # {}
  OBVIOUS
<1>3. IsWellFoundedOn(R, FiniteSubsetsOf(Nat))
  BY FS_StrictSubsetOrderingWellFounded
<1>4. PICK x \in T : \A y \in T : <<y, x>> \notin R
  <2>. HIDE DEF T, R
  <2>. QED BY <1>1, <1>2, <1>3, WFMin
<1>5. PICK m \in S : x = 0..m
  OBVIOUS
<1>6. ASSUME NEW k \in S, k < m PROVE FALSE
  <2>1. 0..k \in T
    OBVIOUS
  <2>2. 0..k \subseteq 0..m /\ 0..k # 0..m
    BY <1>6
  <2>3. <<0..k, 0..m>> \in (SUBSET Nat) \X (SUBSET Nat)
    OBVIOUS
  <2>4. <<0..k, 0..m>> \in R
    BY <2>2, <2>3 DEF StrictSubsetOrdering
  <2>. QED BY <2>1, <2>4, <1>4, <1>5
<1>. QED BY <1>6
-----------------------------------------------------------------------------
(* Once a character has been printed, the hardware cursor stands where the *)
(* next one will be drawn; before that, somewhere on the screen.  A        *)
(* backspace starts from it.                                               *)
CursorAgrees == ttyGetCursor = getCharOffset(terminal_column, terminal_row)
CursorShown == ttyGetCursor < VGA_HEIGHT * VGA_WIDTH

(* The row and the column stay where the offset fits into the registers:   *)
(* it is what keeps the cursor in step.                                    *)
InRange == getCharOffset(terminal_column, terminal_row) < Cells

TtyInv == TtyTypeOK /\ (CursorAgrees \/ CursorShown) /\ InRange

(* The two registers hold an offset below Byte * Byte exactly. *)
LEMMA RegistersExact ==
    ASSUME NEW o \in Nat, NEW B \in Nat, o < B * B
    PROVE  /\ (o \div B) % B \in 0..(B - 1)
           /\ o % B \in 0..(B - 1)
           /\ ((o \div B) % B) * B + (o % B) = o
<1>1. B > 0
    BY Z3
<1>. DEFINE q == o \div B
            r == o % B
<1>2. q \in Nat /\ r \in 0..(B - 1) /\ o = q * B + r
    BY <1>1, Z3
<1>. HIDE DEF q, r
<1>3. q < B
    <2>1. SUFFICES ASSUME q >= B PROVE FALSE
        BY <1>2
    <2>2. q * B >= B * B
        BY <2>1, <1>1, <1>2, Z3
    <2>. QED  BY <2>2, <1>2, Z3
<1>4. q % B = q
    BY <1>2, <1>3, <1>1, Z3
<1>5. (q % B) * B + r = o
    BY <1>2, <1>4
<1>6. q % B \in 0..(B - 1)
    BY <1>2, <1>3, <1>4
<1>. QED  BY <1>2, <1>5, <1>6 DEF q, r

(* An offset is below that of the row behind its own. *)
LEMMA OffsetBelow ==
    ASSUME NEW W \in Nat, NEW r \in Nat, NEW s \in Nat, NEW c \in 0..(W - 1), r <= s
    PROVE  r * W + c \in Nat /\ r * W + c < (s + 1) * W
<1>1. r * W <= s * W
    BY Z3
<1>2. (s + 1) * W = s * W + W
    BY Z3
<1>3. r * W \in Nat /\ s * W \in Nat
    BY Z3
<1>. QED  BY <1>1, <1>2, <1>3

(* A column and a row computed from an offset give the offset again. *)
LEMMA OffsetSplit ==
    ASSUME NEW W \in Nat, W > 0, NEW o \in Nat
    PROVE  /\ o \div W \in Nat
           /\ o % W \in 0..(W - 1)
           /\ (o \div W) * W + (o % W) = o
BY Z3

(* Offsets on the screen and rows of the screen. *)
LEMMA RowEnd ==
    ASSUME NEW W \in Nat, NEW H \in Nat, NEW r \in Nat, NEW c \in 0..(W - 1), r + 1 <= H
    PROVE  r * W + c \in Nat /\ r * W + c < H * W
<1>1. r * W \in Nat /\ (r + 1) * W = r * W + W /\ (r + 1) * W <= H * W /\ H * W \in Nat
    BY Z3
<1>. QED  BY <1>1

LEMMA RowBelow ==
    ASSUME NEW W \in Nat, W > 0, NEW H \in Nat, NEW o \in Nat, o < H * W
    PROVE  o \div W < H
<1>. DEFINE q == o \div W
            r == o % W
<1>1. q \in Nat /\ r \in 0..(W - 1) /\ q * W + r = o
    BY OffsetSplit
<1>. HIDE DEF q, r
<1>2. SUFFICES ASSUME q >= H PROVE FALSE
    BY <1>1 DEF q
<1>3. q * W >= H * W /\ q * W \in Nat /\ H * W \in Nat
    BY <1>1, <1>2, Z3
<1>. QED  BY <1>1, <1>3

(* doScroll keeps video memory a function on the cells. *)
LEMMA ScrollType ==
    ASSUME NEW b \in [Cell -> Glyphs \cup {Nul}]
    PROVE  doScroll(b) \in [Cell -> Glyphs \cup {Nul}]
<1>1. SUFFICES ASSUME NEW i \in Cell, i < (VGA_HEIGHT - 1) * VGA_WIDTH
               PROVE  i + VGA_WIDTH \in Cell
    BY <1>1 DEF doScroll
<1>2. (VGA_HEIGHT - 1) * VGA_WIDTH + VGA_WIDTH = VGA_HEIGHT * VGA_WIDTH
    BY TtyAssumption, Z3
<1>3. (VGA_HEIGHT + 1) * VGA_WIDTH = VGA_HEIGHT * VGA_WIDTH + VGA_WIDTH
    BY TtyAssumption, Z3
<1>4. (VGA_HEIGHT - 1) * VGA_WIDTH \in Int /\ VGA_HEIGHT * VGA_WIDTH \in Int
    BY TtyAssumption, Z3
<1>. QED  BY <1>1, <1>2, <1>3, <1>4, TtyAssumption DEF Cell

(* Where checkScroll leads: down at most two rows when it starts one down. *)
LEMMA ScrollRow ==
    ASSUME NEW col \in 0..(VGA_WIDTH - 1), NEW row \in Nat,
           NEW b \in [Cell -> Glyphs \cup {Nul}], checkScroll(col, row, b)
    PROVE  /\ terminal_row' \in Nat /\ terminal_row' <= row + 1
           /\ terminal_buffer' \in [Cell -> Glyphs \cup {Nul}]
           /\ terminal_row' >= VGA_HEIGHT => terminal_row' = NextRow(col, row)
           /\ terminal_row' # VGA_HEIGHT
<1>1. NextRow(col, row) \in Nat /\ NextRow(col, row) <= row + 1
    BY DEF NextRow
<1>2. CASE NextRow(col, row) = VGA_HEIGHT
    <2>1. terminal_row' = VGA_HEIGHT - 1 /\ terminal_buffer' = doScroll(b)
        BY <1>2 DEF checkScroll
    <2>. QED  BY <1>1, <1>2, <2>1, ScrollType, TtyAssumption
<1>3. CASE NextRow(col, row) # VGA_HEIGHT
    <2>1. terminal_row' = NextRow(col, row) /\ terminal_buffer' = b
        BY <1>3 DEF checkScroll
    <2>. QED  BY <1>1, <1>3, <2>1
<1>. QED  BY <1>2, <1>3

-----------------------------------------------------------------------------
(* Places on the screen are in video memory. *)
LEMMA ShownInMemory ==
    VGA_HEIGHT * VGA_WIDTH \in Nat /\ VGA_HEIGHT * VGA_WIDTH <= Cells /\ Cells \in Nat
<1>1. /\ VGA_HEIGHT \in Nat /\ VGA_WIDTH \in Nat /\ Cells \in Nat
      /\ Cells >= (VGA_HEIGHT + 1) * VGA_WIDTH
    BY TtyAssumption
<1>2. /\ VGA_HEIGHT * VGA_WIDTH \in Nat
      /\ (VGA_HEIGHT + 1) * VGA_WIDTH = VGA_HEIGHT * VGA_WIDTH + VGA_WIDTH
    BY <1>1, Z3
<1>. QED  BY <1>1, <1>2

(* What the registers hold is a place. *)
LEMMA CursorPlace == TtyTypeOK => ttyGetCursor \in Nat
<1>1. ASSUME TtyTypeOK PROVE ttyGetCursor \in Nat
    <2>1. cursor.hi \in Nat /\ cursor.lo \in Nat /\ Byte \in Nat
        BY <1>1, TtyAssumption DEF TtyTypeOK
    <2>2. cursor.hi * Byte \in Nat
        BY <2>1, Z3
    <2>. QED  BY <2>1, <2>2 DEF ttyGetCursor
<1>. QED  BY <1>1

(* The terminal starts in the invariant. *)
LEMMA InitTtyInv == initTerminal => TtyInv
<1>. SUFFICES ASSUME initTerminal PROVE TtyInv
    OBVIOUS
<1>1. VGA_HEIGHT * VGA_WIDTH \in Nat /\ VGA_HEIGHT * VGA_WIDTH <= Cells /\ Cells \in Nat
    BY ShownInMemory
<1>2. PICK o \in 0..(VGA_HEIGHT * VGA_WIDTH - 1) : cursor = ttySetCursor(o)
    BY DEF initTerminal
<1>3. o \in Nat /\ o < VGA_HEIGHT * VGA_WIDTH /\ o < Cells
    BY <1>1, <1>2
<1>4. Byte \in Nat /\ Byte * Byte \in Nat /\ o < Byte * Byte
    <2>1. Byte \in Nat /\ Byte * Byte >= Cells
        BY TtyAssumption
    <2>2. Byte * Byte \in Nat
        BY <2>1, Z3
    <2>. QED  BY <1>1, <1>3, <2>1, <2>2
<1>5. /\ (o \div Byte) % Byte \in 0..(Byte - 1) /\ o % Byte \in 0..(Byte - 1)
      /\ ((o \div Byte) % Byte) * Byte + (o % Byte) = o
    BY <1>3, <1>4, RegistersExact
<1>6. cursor \in [hi : 0..(Byte - 1), lo : 0..(Byte - 1)] /\ ttyGetCursor = o
    BY <1>2, <1>5 DEF ttySetCursor, ttyGetCursor
<1>7. terminal_buffer \in [Cell -> Glyphs \cup {Nul}]
    <2>1. PICK old \in Behind : terminal_buffer =
              [k \in Cell |-> IF k < VGA_HEIGHT * VGA_WIDTH THEN "SP" ELSE old[k]]
        BY DEF initTerminal
    <2>2. old \in [Cell -> Glyphs \cup {Nul}] /\ "SP" \in Glyphs
        BY TtyAssumption DEF Cell, Nul
    <2>. QED  BY <2>1, <2>2
<1>8. TtyTypeOK
    BY <1>6, <1>7, TtyAssumption DEF initTerminal, TtyTypeOK, Cell
<1>9. InRange
    <2>1. 0 * VGA_WIDTH + 0 = 0
        BY TtyAssumption
    <2>. QED  BY <1>1, <1>3, <2>1 DEF initTerminal, InRange, getCharOffset
<1>. QED  BY <1>3, <1>6, <1>8, <1>9 DEF TtyInv, CursorShown

(* What one character does to the row, the column and video memory. *)
LEMMA PutCPlace ==
    ASSUME TtyInv, NEW ch \in Text, InMemory \/ ch = "BS", terminalPutC(ch)
    PROVE  /\ terminal_row' \in Nat
           /\ terminal_column' \in 0..(VGA_WIDTH - 1)
           /\ terminal_buffer' \in [Cell -> Glyphs \cup {Nul}]
           /\ terminal_row' * VGA_WIDTH + terminal_column' \in Nat
           /\ terminal_row' * VGA_WIDTH + terminal_column' < Cells
<1>a. /\ VGA_WIDTH \in Nat /\ VGA_WIDTH >= 2 /\ Cells \in Nat
      /\ ch \in Glyphs => ch \notin {"LF", "CR", "BS"}
    BY TtyAssumption
<1>. USE <1>a
<1>t. /\ terminal_row \in Nat
      /\ terminal_column \in 0..(VGA_WIDTH - 1)
      /\ terminal_buffer \in [Cell -> Glyphs \cup {Nul}]
    BY DEF TtyInv, TtyTypeOK
<1>o. /\ terminal_row * VGA_WIDTH + terminal_column \in Nat
      /\ terminal_row * VGA_WIDTH + terminal_column < Cells
    BY <1>t, OffsetBelow DEF TtyInv, InRange, getCharOffset
<1>m. ASSUME InMemory, NEW r \in Nat, NEW c \in 0..(VGA_WIDTH - 1), r <= terminal_row + 2
      PROVE  r * VGA_WIDTH + c \in Nat /\ r * VGA_WIDTH + c < Cells
    <2>1. r * VGA_WIDTH + c \in Nat /\ r * VGA_WIDTH + c < (terminal_row + 2 + 1) * VGA_WIDTH
        BY <1>m, <1>t, OffsetBelow
    <2>2. (terminal_row + 3) * VGA_WIDTH + 0 <= Cells
        BY <1>m DEF InMemory, getCharOffset
    <2>3. terminal_row + 2 + 1 = terminal_row + 3 /\ (terminal_row + 3) * VGA_WIDTH \in Int
        BY <1>t, Z3
    <2>. QED  BY <2>1, <2>2, <2>3
<1>1. CASE PutGlyph(ch)
    <2>1. ch \in Glyphs /\ InMemory
        BY <1>1 DEF PutGlyph
    <2>. DEFINE b == terminalMvPutC(ch, terminal_column, terminal_row)
    <2>2. b \in [Cell -> Glyphs \cup {Nul}]
        BY <2>1, <1>t DEF terminalMvPutC
    <2>3. checkScroll(terminal_column, terminal_row, b)
        BY <1>1 DEF PutGlyph
    <2>. HIDE DEF b
    <2>4. /\ terminal_row' \in Nat /\ terminal_row' <= terminal_row + 1
          /\ terminal_buffer' \in [Cell -> Glyphs \cup {Nul}]
        BY <2>2, <2>3, <1>t, ScrollRow
    <2>5. terminal_column' \in 0..(VGA_WIDTH - 1)
        BY <1>1, <1>t DEF PutGlyph, NextColumn
    <2>6. terminal_row' <= terminal_row + 2
        BY <2>4, <1>t
    <2>. QED  BY <2>1, <2>4, <2>5, <2>6, <1>m
<1>2. CASE ch = "LF" /\ PutNewline
    <2>1. InMemory
        BY <1>2
    <2>2. checkScroll(terminal_column, terminal_row + 1, terminal_buffer)
        BY <1>2 DEF PutNewline
    <2>3. /\ terminal_row' \in Nat /\ terminal_row' <= terminal_row + 1 + 1
          /\ terminal_buffer' \in [Cell -> Glyphs \cup {Nul}]
        BY <2>2, <1>t, ScrollRow
    <2>4. terminal_column' \in 0..(VGA_WIDTH - 1)
        BY <1>2 DEF PutNewline
    <2>5. terminal_row' <= terminal_row + 2
        BY <2>3, <1>t
    <2>. QED  BY <2>1, <2>3, <2>4, <2>5, <1>m
<1>3. CASE ch = "CR" /\ PutReturn
    <2>1. InMemory
        BY <1>3
    <2>2. terminal_column' = 0 /\ terminal_row' = terminal_row /\ terminal_buffer' = terminal_buffer
        BY <1>3 DEF PutReturn
    <2>3. terminal_row' <= terminal_row + 2 /\ terminal_column' \in 0..(VGA_WIDTH - 1)
        BY <2>2, <1>t
    <2>. QED  BY <2>1, <2>2, <2>3, <1>m, <1>t
<1>4. CASE ch = "BS" /\ PutBackspace
    <2>. DEFINE pos == IF ttyGetCursor = 0 THEN 0 ELSE ttyGetCursor - 1
    <2>1. pos \in Nat /\ pos < Cells
        BY <1>o, <1>t, CursorPlace, ShownInMemory
           DEF TtyInv, CursorAgrees, CursorShown, getCharOffset
    <2>2. /\ terminal_column' = pos % VGA_WIDTH
          /\ terminal_row' = pos \div VGA_WIDTH
          /\ terminal_buffer' = terminal_buffer
        BY <1>4 DEF PutBackspace
    <2>. HIDE DEF pos
    <2>3. /\ pos \div VGA_WIDTH \in Nat
          /\ pos % VGA_WIDTH \in 0..(VGA_WIDTH - 1)
          /\ (pos \div VGA_WIDTH) * VGA_WIDTH + (pos % VGA_WIDTH) = pos
        BY <2>1, OffsetSplit
    <2>. QED  BY <2>1, <2>2, <2>3, <1>t
<1>. QED  BY <1>1, <1>2, <1>3, <1>4 DEF terminalPutC

(* Every character, and standing still, keeps the invariant. *)
LEMMA NextTtyInv == TtyInv /\ [TtyNext]_ttyvars => TtyInv'
<1>1. ASSUME TtyInv, TtyNext PROVE TtyInv'
    <2>1. PICK ch \in Text : (InMemory \/ ch = "BS") /\ terminalPutC(ch)
        BY <1>1 DEF TtyNext
    <2>. DEFINE o == terminal_row' * VGA_WIDTH + terminal_column'
    <2>2. /\ terminal_row' \in Nat
          /\ terminal_column' \in 0..(VGA_WIDTH - 1)
          /\ terminal_buffer' \in [Cell -> Glyphs \cup {Nul}]
          /\ o \in Nat /\ o < Cells
        BY <1>1, <2>1, PutCPlace
    <2>3. cursor' = [hi |-> (o \div Byte) % Byte, lo |-> o % Byte]
        BY <2>1 DEF terminalPutC, ttySetCursor, getCharOffset
    <2>. HIDE DEF o
    <2>4. Byte \in Nat /\ Byte * Byte \in Nat /\ o < Byte * Byte
        <3>1. Byte \in Nat /\ Byte * Byte >= Cells /\ Cells \in Nat
            BY TtyAssumption
        <3>2. Byte * Byte \in Nat
            BY <3>1, Z3
        <3>. QED  BY <2>2, <3>1, <3>2
    <2>5. /\ (o \div Byte) % Byte \in 0..(Byte - 1)
          /\ o % Byte \in 0..(Byte - 1)
          /\ ((o \div Byte) % Byte) * Byte + (o % Byte) = o
        BY <2>2, <2>4, RegistersExact
    <2>6. cursor'.hi * Byte + cursor'.lo = o /\ cursor' \in [hi : 0..(Byte - 1), lo : 0..(Byte - 1)]
        BY <2>3, <2>5
    <2>7. TtyTypeOK'
        BY <2>2, <2>6 DEF TtyTypeOK, Cell
    <2>8. CursorAgrees' /\ InRange'
        BY <2>2, <2>6 DEF CursorAgrees, InRange, ttyGetCursor, getCharOffset, o
    <2>. QED  BY <2>7, <2>8 DEF TtyInv
<1>2. ASSUME TtyInv, UNCHANGED ttyvars PROVE TtyInv'
    BY <1>2 DEF ttyvars, TtyInv, TtyTypeOK, CursorAgrees, CursorShown, InRange, ttyGetCursor,
                getCharOffset, Cell
<1>. QED  BY <1>1, <1>2

(* The terminal's state keeps its shape, whatever text is printed. *)
THEOREM TtyTypeCorrect == TtySpec => []TtyTypeOK
<1>1. TtyInv => TtyTypeOK
    BY DEF TtyInv
<1>. QED  BY InitTtyInv, NextTtyInv, <1>1, PTL DEF TtySpec

(* On every screen size, only a new line in the last column of the last    *)
(* row leads off the screen.                                               *)
THEOREM LeavesAtCorner == TtySpec => OnlyWayOff
<1>. DEFINE A == (terminal_row < VGA_HEIGHT /\ terminal_row' >= VGA_HEIGHT) =>
                    /\ terminal_row = VGA_HEIGHT - 1 /\ terminal_column = VGA_WIDTH - 1
                    /\ terminal_row' = VGA_HEIGHT + 1 /\ terminal_column' = 0
<1>1. ASSUME TtyInv, [TtyNext]_ttyvars PROVE [A]_ttyvars
    <2>a. VGA_WIDTH \in Nat /\ VGA_WIDTH >= 2 /\ VGA_HEIGHT \in Nat /\ VGA_HEIGHT >= 2
        BY TtyAssumption
    <2>. USE <2>a
    <2>t. /\ terminal_row \in Nat
          /\ terminal_column \in 0..(VGA_WIDTH - 1)
          /\ terminal_buffer \in [Cell -> Glyphs \cup {Nul}]
        BY <1>1 DEF TtyInv, TtyTypeOK
    <2>1. SUFFICES ASSUME TtyNext, terminal_row < VGA_HEIGHT, terminal_row' >= VGA_HEIGHT
                   PROVE  /\ terminal_row = VGA_HEIGHT - 1 /\ terminal_column = VGA_WIDTH - 1
                          /\ terminal_row' = VGA_HEIGHT + 1 /\ terminal_column' = 0
        BY <1>1
    <2>2. PICK ch \in Text : terminalPutC(ch)
        BY <2>1 DEF TtyNext
    <2>3. CASE PutGlyph(ch)
        <3>. DEFINE b == terminalMvPutC(ch, terminal_column, terminal_row)
        <3>1. b \in [Cell -> Glyphs \cup {Nul}] /\ checkScroll(terminal_column, terminal_row, b)
            BY <2>3, <2>t DEF PutGlyph, terminalMvPutC
        <3>. HIDE DEF b
        <3>2. /\ terminal_row' # VGA_HEIGHT
              /\ terminal_row' = NextRow(terminal_column, terminal_row)
            BY <3>1, <2>1, <2>t, ScrollRow
        <3>. QED  BY <3>2, <2>1, <2>t DEF NextRow
    <2>4. CASE ch = "LF" /\ PutNewline
        <3>1. checkScroll(terminal_column, terminal_row + 1, terminal_buffer) /\ terminal_column' = 0
            BY <2>4 DEF PutNewline
        <3>2. /\ terminal_row' # VGA_HEIGHT
              /\ terminal_row' = NextRow(terminal_column, terminal_row + 1)
            BY <3>1, <2>1, <2>t, ScrollRow
        <3>. QED  BY <3>1, <3>2, <2>1, <2>t DEF NextRow
    <2>5. CASE ch = "CR" /\ PutReturn
        BY <2>5, <2>1, <2>t DEF PutReturn
    <2>6. CASE ch = "BS" /\ PutBackspace
        <3>1. PICK o : o = ttyGetCursor
            OBVIOUS
        <3>2. VGA_WIDTH \in Nat /\ VGA_WIDTH > 0 /\ VGA_HEIGHT \in Nat /\ terminal_row + 1 <= VGA_HEIGHT
            BY <2>1, <2>t
        <3>3. o \in Nat /\ o < VGA_HEIGHT * VGA_WIDTH
            <4>1. /\ terminal_row * VGA_WIDTH + terminal_column \in Nat
                  /\ terminal_row * VGA_WIDTH + terminal_column < VGA_HEIGHT * VGA_WIDTH
                BY <3>2, <2>t, RowEnd
            <4>. QED  BY <1>1, <3>1, <4>1, CursorPlace
                      DEF TtyInv, CursorAgrees, CursorShown, getCharOffset
        <3>. DEFINE pos == IF o = 0 THEN 0 ELSE o - 1
        <3>4. terminal_row' = pos \div VGA_WIDTH
            BY <2>6, <3>1 DEF PutBackspace
        <3>5. pos \in Nat /\ pos <= o
            BY <3>3
        <3>. HIDE DEF pos
        <3>6. VGA_HEIGHT * VGA_WIDTH \in Nat
            BY <3>2, Z3
        <3>7. pos < VGA_HEIGHT * VGA_WIDTH
            BY <3>3, <3>5, <3>6
        <3>8. pos \div VGA_WIDTH < VGA_HEIGHT
            BY <3>2, <3>5, <3>7, RowBelow
        <3>. QED  BY <3>2, <3>4, <3>5, <3>8, <2>1
    <2>. QED  BY <2>2, <2>3, <2>4, <2>5, <2>6 DEF terminalPutC
<1>. QED  BY InitTtyInv, NextTtyInv, <1>1, PTL DEF TtySpec, OnlyWayOff
-----------------------------------------------------------------------------
(* The first place from i on with (or without) a space is there: numbers   *)
(* have a least one among those that qualify.                              *)
IsWhere(s, i, stop, j) ==
    /\ j \in i..(Len(s) + 1)
    /\ j = Len(s) + 1 \/ stop[s[j]]
    /\ \A k \in i..(j - 1) : ~stop[s[k]]

LEMMA WhereFound ==
    ASSUME buffer \in Seq(Keys), NEW stop, NEW i \in 1..(Len(buffer) + 1)
    PROVE  IsWhere(buffer, i, stop, Where(i, stop))
<1>1. PICK n \in Nat : n = Len(buffer)
    BY LenProperties
<1>. DEFINE S == {j \in i..(n + 1) : j = n + 1 \/ stop[buffer[j]]}
<1>2. S \in SUBSET Nat /\ n + 1 \in S
    BY <1>1
<1>3. PICK m \in S : \A k \in S : m <= k
    <2>. HIDE DEF S
    <2>. QED  BY <1>2, LeastNumber
<1>4. \A k \in i..(m - 1) : ~stop[buffer[k]]
    <2>1. SUFFICES ASSUME NEW k \in i..(m - 1), stop[buffer[k]] PROVE FALSE
        OBVIOUS
    <2>2. k \in S /\ k < m
        BY <1>1, <2>1
    <2>. QED  BY <1>2, <1>3, <2>2
<1>5. IsWhere(buffer, i, stop, m)
    BY <1>1, <1>4 DEF IsWhere
<1>6. Where(i, stop) = CHOOSE j \in i..(Len(buffer) + 1) :
                          (j = Len(buffer) + 1 \/ stop[buffer[j]])
                          /\ \A k \in i..(j - 1) : ~stop[buffer[k]]
    BY DEF Where
<1>. QED  BY <1>5, <1>6 DEF IsWhere

(* The first space from i on, and the first other character. *)
LEMMA WhereSpace ==
    ASSUME buffer \in Seq(Keys), NEW i \in 1..(Len(buffer) + 1)
    PROVE  LET j == Where(i, IsSpace)
           IN  /\ j \in i..(Len(buffer) + 1)
               /\ j <= Len(buffer) => buffer[j] = "SP"
               /\ \A k \in i..(j - 1) : buffer[k] # "SP"
<1>. DEFINE j == Where(i, IsSpace)
<1>1. IsWhere(buffer, i, IsSpace, j)
    BY WhereFound
<1>2. \A k \in 1..Len(buffer) : IsSpace[buffer[k]] <=> buffer[k] = "SP"
    <2>1. \A k \in 1..Len(buffer) : buffer[k] \in Glyphs
        BY ShellAssumption
    <2>. QED  BY <2>1, Zenon DEF IsSpace
<1>. HIDE DEF j
<1>3. Len(buffer) \in Nat
    BY LenProperties
<1>4. j \in i..(Len(buffer) + 1)
    BY <1>1 DEF IsWhere
<1>5. j <= Len(buffer) => buffer[j] = "SP"
    BY <1>1, <1>2, <1>3, <1>4 DEF IsWhere
<1>6. ASSUME NEW k \in i..(j - 1) PROVE buffer[k] # "SP"
    BY <1>1, <1>2, <1>3, <1>4 DEF IsWhere
<1>. QED  BY <1>4, <1>5, <1>6 DEF j

LEMMA WhereWord ==
    ASSUME buffer \in Seq(Keys), NEW i \in 1..(Len(buffer) + 1)
    PROVE  LET j == Where(i, IsWord)
           IN  /\ j \in i..(Len(buffer) + 1)
               /\ j <= Len(buffer) => buffer[j] # "SP"
               /\ \A k \in i..(j - 1) : buffer[k] = "SP"
<1>. DEFINE j == Where(i, IsWord)
<1>1. IsWhere(buffer, i, IsWord, j)
    BY WhereFound
<1>2. \A k \in 1..Len(buffer) : IsWord[buffer[k]] <=> buffer[k] # "SP"
    <2>1. \A k \in 1..Len(buffer) : buffer[k] \in Glyphs
        BY ShellAssumption
    <2>. QED  BY <2>1, Zenon DEF IsWord
<1>. HIDE DEF j
<1>3. Len(buffer) \in Nat
    BY LenProperties
<1>4. j \in i..(Len(buffer) + 1)
    BY <1>1 DEF IsWhere
<1>5. j <= Len(buffer) => buffer[j] # "SP"
    BY <1>1, <1>2, <1>3, <1>4 DEF IsWhere
<1>6. ASSUME NEW k \in i..(j - 1) PROVE buffer[k] = "SP"
    BY <1>1, <1>2, <1>3, <1>4 DEF IsWhere
<1>. QED  BY <1>4, <1>5, <1>6 DEF j
-----------------------------------------------------------------------------
(* The line and its arguments.  While a line is split, every word up to p  *)
(* is an argument and p is where the next one starts; while variables are  *)
(* replaced, arguments stay where they are.                                *)
Arg == [at : Nat, text : Seq(Glyphs)]

LineTyped ==
    /\ buffer \in Seq(Keys) /\ Len(buffer) <= LineMax
    /\ pc \in {"edit", "search", "split", "expand"}
    /\ argv \in Seq(Arg) /\ Len(argv) < MAX_ARGS /\ arg \in 0..Len(argv)

Starts(i) == i \in 2..Len(buffer) /\ buffer[i - 1] = "SP" /\ buffer[i] # "SP"

ArgsSound ==
    /\ \A j \in 1..Len(argv) : Starts(argv[j].at)
    /\ \A j, k \in 1..Len(argv) : j < k => argv[j].at < argv[k].at

FoundUpTo(e) ==
    \A i \in 2..Len(buffer) :
        Starts(i) /\ i < e => \E j \in 1..Len(argv) : argv[j].at = i

Splitting ==
    /\ p \in 1..(Len(buffer) + 1) /\ (p <= Len(buffer) => Starts(p))
    /\ arg = 0 /\ ArgsSound /\ FoundUpTo(p)
    /\ \A j \in 1..Len(argv) : argv[j].at < p /\ argv[j].text = Word(argv[j].at)

Expanding ==
    /\ ArgsSound
    /\ Len(argv) + 1 < MAX_ARGS => FoundUpTo(Len(buffer) + 1)
    /\ \A j \in 1..Len(argv) : argv[j].text = Word(argv[j].at) \/ Overwritten(j)

LineInv ==
    /\ LineTyped
    /\ pc = "split" => Splitting
    /\ pc = "expand" => Expanding
    /\ pc \in {"edit", "search"} => argv = <<>> /\ arg = 0

(* The invariant is what the property says. *)
LEMMA LineInvWords == LineInv => ArgvIsWords
<1>. SUFFICES ASSUME LineInv, pc = "expand" PROVE ArgvIsWords
    BY DEF ArgvIsWords
<1>1. Expanding /\ argv \in Seq(Arg) /\ buffer \in Seq(Keys)
    BY DEF LineInv, LineTyped
<1>2. PICK n \in Nat : n = Len(argv) /\ DOMAIN argv = 1..n
    BY <1>1, LenProperties
<1>3. Len(buffer) \in Nat
    BY <1>1, LenProperties
<1>4. ASSUME NEW j \in 1..n
      PROVE  /\ buffer[argv[j].at - 1] = "SP" /\ buffer[argv[j].at] # "SP"
             /\ \A k \in 1..n : j < k => argv[j].at < argv[k].at
             /\ argv[j].text = Word(argv[j].at) \/ Overwritten(j)
    BY <1>1, <1>2 DEF Expanding, ArgsSound, Starts
<1>5. ASSUME NEW i \in 2..Len(buffer), buffer[i] # "SP", buffer[i - 1] = "SP",
             Len(argv) + 1 < MAX_ARGS
      PROVE  \E j \in 1..n : argv[j].at = i
    <2>1. Starts(i) /\ i < Len(buffer) + 1
        BY <1>3, <1>5 DEF Starts
    <2>. QED  BY <1>1, <1>2, <1>5, <2>1 DEF Expanding, FoundUpTo
<1>. QED  BY <1>2, <1>4, <1>5 DEF ArgvIsWords

LEMMA LineInit == Init => LineInv
<1>. SUFFICES ASSUME Init PROVE LineInv
    OBVIOUS
<1>1. buffer = <<>> /\ pc = "edit" /\ argv = <<>> /\ arg = 0
    BY DEF Init
<1>2. LineTyped
    BY <1>1, ShellAssumption DEF LineTyped
<1>. QED  BY <1>1, <1>2 DEF LineInv

(* Nothing of the line changes: what was true of it stays true. *)
LEMMA WordKept ==
    ASSUME buffer' = buffer, NEW i PROVE Word(i)' = Word(i)
  BY DEF Word, Where, IsSpace

LEMMA LineKept ==
    ASSUME LineInv, UNCHANGED <<buffer, pc, p, argv, arg>> PROVE LineInv'
<1>1. \A i : Word(i)' = Word(i)
    BY WordKept
<1>2. LineTyped'
    BY DEF LineInv, LineTyped
<1>3. \A i : Starts(i)' <=> Starts(i)
    BY DEF Starts
<1>4. ArgsSound' <=> ArgsSound
    BY <1>3 DEF ArgsSound
<1>5. \A e : FoundUpTo(e)' <=> FoundUpTo(e)
    BY <1>3 DEF FoundUpTo
<1>6. \A j : Overwritten(j)' <=> Overwritten(j)
    BY <1>1 DEF Overwritten, IsVariable
<1>7. Splitting' <=> Splitting
    BY <1>1, <1>3, <1>4, <1>5 DEF Splitting
<1>8. Expanding' <=> Expanding
    BY <1>1, <1>4, <1>5, <1>6 DEF Expanding
<1>. QED  BY <1>2, <1>7, <1>8 DEF LineInv
(* Typing, and the start of the next line: there are no arguments yet. *)
LEMMA LineTyping ==
    ASSUME LineInv, (\E k \in Keys : KeyGlyph(k)) \/ KeyBackspace \/ KeyEnter
    PROVE  LineInv'
<1>1. /\ pc = "edit" /\ argv = <<>> /\ arg = 0 /\ argv' = argv /\ arg' = arg
      /\ pc' \in {"edit", "search"}
    BY DEF LineInv, KeyGlyph, KeyBackspace, KeyEnter, At
<1>2. buffer \in Seq(Keys) /\ Len(buffer) <= LineMax /\ LineMax \in Nat
    BY ShellAssumption DEF LineInv, LineTyped
<1>3. buffer' \in Seq(Keys) /\ Len(buffer') <= LineMax
    <2>1. ASSUME NEW k \in Keys, KeyGlyph(k) PROVE buffer' \in Seq(Keys) /\ Len(buffer') <= LineMax
        <3>1. buffer' = Append(buffer, k) /\ Len(buffer) < LineMax
            BY <2>1 DEF KeyGlyph
        <3>2. buffer' \in Seq(Keys) /\ Len(buffer') = Len(buffer) + 1 /\ Len(buffer) \in Nat
            BY <1>2, <3>1, AppendProperties, LenProperties
        <3>. QED  BY <1>2, <3>1, <3>2
    <2>2. CASE KeyBackspace
        <3>1. CASE buffer' = buffer
            BY <1>2, <3>1
        <3>2. CASE buffer # <<>> /\ buffer' = SubSeq(buffer, 1, Len(buffer) - 1)
            <4>1. PICK n \in Nat : n = Len(buffer) /\ n > 0
                BY <1>2, <3>2, EmptySeq, LenProperties
            <4>2. \A i \in 1..(n - 1) : buffer[i] \in Keys
                BY <1>2, <4>1, ElementOfSeq
            <4>3. /\ SubSeq(buffer, 1, n - 1) \in Seq(Keys)
                  /\ Len(SubSeq(buffer, 1, n - 1)) = IF 1 <= n - 1 THEN n - 1 - 1 + 1 ELSE 0
                BY <4>1, <4>2, SubSeqProperties
            <4>4. buffer' \in Seq(Keys) /\ Len(buffer') = IF 1 <= n - 1 THEN n - 1 - 1 + 1 ELSE 0
                BY <3>2, <4>1, <4>3
            <4>. QED  BY <1>2, <4>1, <4>4
        <3>. QED  BY <2>2, <3>1, <3>2 DEF KeyBackspace
    <2>3. CASE KeyEnter
        BY <1>2, <2>3 DEF KeyEnter
    <2>. QED  BY <2>1, <2>2, <2>3
<1>4. LineTyped'
    BY <1>1, <1>3, ShellAssumption DEF LineTyped
<1>. QED  BY <1>1, <1>4 DEF LineInv

LEMMA LineFinish ==
    ASSUME NEW text, Finish(text) PROVE LineInv'
<1>1. pc' = "edit" /\ buffer' = <<>> /\ argv' = <<>> /\ arg' = 0
    BY DEF Finish
<1>2. LineTyped'
    BY <1>1, ShellAssumption DEF LineTyped
<1>. QED  BY <1>1, <1>2 DEF LineInv

(* The search leaves p at the first word behind the name. *)
LEMMA LineSearch ==
    ASSUME LineInv, Search PROVE LineInv'
<1>1. CASE \E text : Finish(text)
    BY <1>1, LineFinish
<1>2. CASE /\ p' = Where(Where(1, IsSpace), IsWord) /\ pc' = "split"
           /\ UNCHANGED <<buffer, argv, arg, out>>
    <2>1. /\ argv = <<>> /\ arg = 0 /\ buffer \in Seq(Keys) /\ LineTyped
        BY DEF LineInv, LineTyped, Search, At
    <2>2. PICK n \in Nat : n = Len(buffer)
        BY <2>1, LenProperties
    <2>. DEFINE a == Where(1, IsSpace)
                b == Where(a, IsWord)
    <2>3. /\ a \in 1..(n + 1) /\ (a <= n => buffer[a] = "SP")
          /\ \A k \in 1..(a - 1) : buffer[k] # "SP"
        <3>1. 1 \in 1..(Len(buffer) + 1)
            BY <2>2
        <3>. QED  BY <2>1, <2>2, <3>1, WhereSpace
    <2>. HIDE DEF a
    <2>4. /\ b \in a..(n + 1) /\ (b <= n => buffer[b] # "SP")
          /\ \A k \in a..(b - 1) : buffer[k] = "SP"
        BY <2>1, <2>2, <2>3, WhereWord
    <2>5. p' = b
        BY <1>2 DEF a, b
    <2>. HIDE DEF b
    <2>6. b <= n => Starts(b)
        <3>1. SUFFICES ASSUME b <= n PROVE Starts(b)
            OBVIOUS
        <3>2. a <= n /\ a # b
            BY <2>2, <2>3, <2>4, <3>1
        <3>3. b - 1 \in a..(b - 1) /\ b \in 2..n
            BY <2>2, <2>3, <2>4, <3>1, <3>2
        <3>. QED  BY <2>2, <2>4, <3>1, <3>3 DEF Starts
    <2>7. ASSUME NEW i \in 2..n, Starts(i), i < b PROVE FALSE
        <3>1. buffer[i - 1] = "SP" /\ buffer[i] # "SP"
            BY <2>7 DEF Starts
        <3>2. ~(i - 1 \in 1..(a - 1)) /\ ~(i \in a..(b - 1))
            BY <2>3, <2>4, <3>1
        <3>. QED  BY <2>3, <2>4, <2>7, <3>2
    <2>8. FoundUpTo(p)'
        BY <1>2, <2>2, <2>5, <2>7 DEF FoundUpTo, Starts
    <2>9. argv' = <<>> /\ Len(argv') = 0 /\ arg' = 0
        BY <1>2, <2>1
    <2>10. ArgsSound'
        BY <2>9 DEF ArgsSound
    <2>11. p' \in 1..(Len(buffer') + 1) /\ (p' <= Len(buffer') => Starts(p)')
        BY <1>2, <2>2, <2>3, <2>4, <2>5, <2>6 DEF Starts
    <2>12. Splitting'
        BY <2>8, <2>9, <2>10, <2>11 DEF Splitting
    <2>13. LineTyped'
        BY <1>2, <2>1 DEF LineTyped
    <2>. QED  BY <1>2, <2>12, <2>13 DEF LineInv
<1>. QED  BY <1>1, <1>2 DEF Search
LEMMA WordTyped ==
    ASSUME buffer \in Seq(Keys), NEW i \in 1..Len(buffer) PROVE Word(i) \in Seq(Glyphs)
<1>1. PICK n \in Nat : n = Len(buffer)
    BY LenProperties
<1>2. Where(i, IsSpace) \in i..(n + 1)
    BY <1>1, WhereSpace
<1>3. PICK e \in i..(n + 1) : e = Where(i, IsSpace)
    BY <1>2
<1>4. \A k \in i..(e - 1) : buffer[k] \in Glyphs
    <2>1. \A k \in 1..n : buffer[k] \in Glyphs
        BY <1>1, ShellAssumption
    <2>2. \A k \in i..(e - 1) : k \in 1..n
        BY <1>1, <1>3
    <2>. QED  BY <2>1, <2>2
<1>5. SubSeq(buffer, i, e - 1) \in Seq(Glyphs)
    BY <1>1, <1>3, <1>4, SubSeqProperties
<1>. QED  BY <1>3, <1>5 DEF Word

(* A word becomes an argument, and p goes to the next. *)
LEMMA LineSplit ==
    ASSUME LineInv, Split PROVE LineInv'
<1>1. /\ pc = "split" /\ Splitting /\ LineTyped /\ buffer \in Seq(Keys) /\ argv \in Seq(Arg)
      /\ buffer' = buffer /\ arg' = arg /\ arg = 0 /\ Len(argv) < MAX_ARGS
      /\ MAX_ARGS \in Nat
    BY ShellAssumption DEF LineInv, LineTyped, Split, At, Splitting
<1>2. PICK n \in Nat : n = Len(buffer)
    BY <1>1, LenProperties
<1>3. PICK m \in Nat : m = Len(argv)
    BY <1>1, LenProperties
<1>4. \A i : Word(i)' = Word(i)
    BY <1>1, WordKept
<1>5. \A i : Starts(i)' <=> Starts(i)
    BY <1>1 DEF Starts
<1>6. CASE /\ p > Len(buffer) \/ Len(argv) + 1 >= MAX_ARGS
           /\ pc' = "expand" /\ UNCHANGED <<argv, p>>
    <2>1. ArgsSound'
        BY <1>1, <1>5, <1>6 DEF Splitting, ArgsSound
    <2>2. Len(argv) + 1 < MAX_ARGS => FoundUpTo(Len(buffer) + 1)'
        <3>1. SUFFICES ASSUME Len(argv) + 1 < MAX_ARGS PROVE FoundUpTo(n + 1)'
            BY <1>1, <1>2
        <3>2. p = n + 1
            BY <1>1, <1>2, <1>3, <1>6, <3>1 DEF Splitting
        <3>3. FoundUpTo(n + 1)
            BY <1>1, <3>2 DEF Splitting
        <3>. QED  BY <1>1, <1>5, <1>6, <3>3 DEF FoundUpTo
    <2>3. \A j \in 1..Len(argv') : argv'[j].text = Word(argv[j].at)'
        BY <1>1, <1>4, <1>6 DEF Splitting
    <2>4. Expanding'
        BY <1>1, <1>6, <2>1, <2>2, <2>3 DEF Expanding
    <2>5. LineTyped'
        BY <1>1, <1>6 DEF LineTyped
    <2>. QED  BY <1>6, <2>4, <2>5 DEF LineInv
<1>7. CASE /\ p <= Len(buffer) /\ Len(argv) + 1 < MAX_ARGS
           /\ LET end == Where(p, IsSpace)
              IN  /\ argv' = Append(argv, [at |-> p, text |-> SubSeq(buffer, p, end - 1)])
                  /\ p' = IF end > Len(buffer) THEN end ELSE AfterWord(end)
           /\ UNCHANGED pc
    <2>. DEFINE end == Where(p, IsSpace)
                new == [at |-> p, text |-> Word(p)]
                q == p'
    <2>1. p \in 1..n /\ Starts(p)
        BY <1>1, <1>2, <1>7 DEF Splitting
    <2>2. /\ end \in p..(n + 1) /\ (end <= n => buffer[end] = "SP")
          /\ \A k \in p..(end - 1) : buffer[k] # "SP"
        BY <1>1, <1>2, <2>1, WhereSpace
    <2>3. new \in Arg /\ new.at = p /\ new.text = Word(p)
        BY <1>1, <1>2, <2>1, WordTyped DEF Arg
    <2>4. argv' = Append(argv, new) /\ q = IF end > n THEN end ELSE Where(end, IsWord)
        BY <1>2, <1>7 DEF Word, AfterWord
    <2>. HIDE DEF end, new, q
    <2>5. /\ q \in end..(n + 1) /\ (q <= n => buffer[q] # "SP" /\ end <= n)
          /\ \A k \in end..(q - 1) : buffer[k] = "SP"
        <3>1. CASE end > n
            BY <1>2, <2>1, <2>2, <2>4, <3>1
        <3>2. CASE ~(end > n)
            <4>1. end \in 1..(Len(buffer) + 1) /\ q = Where(end, IsWord) /\ end <= n
                BY <1>2, <2>1, <2>2, <2>4, <3>2
            <4>. QED  BY <1>1, <1>2, <4>1, WhereWord
        <3>. QED  BY <3>1, <3>2
    <2>6. p < end
        <3>1. buffer[p] # "SP"
            BY <2>1 DEF Starts
        <3>. QED  BY <2>1, <2>2, <3>1
    <2>7. q <= n => Starts(q)
        <3>1. SUFFICES ASSUME q <= n PROVE Starts(q)
            OBVIOUS
        <3>2. q # end
            BY <2>2, <2>5, <3>1
        <3>3. q - 1 \in end..(q - 1) /\ q \in 2..n
            BY <2>1, <2>2, <2>5, <3>1, <3>2
        <3>. QED  BY <1>2, <2>5, <3>1, <3>3 DEF Starts
    <2>8. ASSUME NEW i \in 2..n, Starts(i), i < q PROVE i <= p
        <3>1. SUFFICES ASSUME i > p PROVE FALSE
            BY <2>1
        <3>2. buffer[i - 1] = "SP" /\ buffer[i] # "SP"
            BY <2>8 DEF Starts
        <3>3. ~(i - 1 \in p..(end - 1)) /\ ~(i \in end..(q - 1))
            BY <2>2, <2>5, <3>2
        <3>. QED  BY <2>1, <2>2, <2>5, <2>8, <3>1, <3>3
    <2>9. /\ argv' \in Seq(Arg) /\ Len(argv') = m + 1 /\ argv'[m + 1] = new
          /\ \A j \in 1..m : argv'[j] = argv[j]
        BY <1>1, <1>3, <2>3, <2>4, AppendProperties
    <2>10. \A j \in 1..m : /\ Starts(argv[j].at) /\ argv[j].at < p
                           /\ argv[j].text = Word(argv[j].at)
        BY <1>1, <1>3 DEF Splitting, ArgsSound
    <2>11. ASSUME NEW j \in 1..(m + 1)
           PROVE  /\ Starts(argv'[j].at) /\ argv'[j].at < q
                  /\ argv'[j].text = Word(argv'[j].at)
        <3>1. CASE j = m + 1
            BY <2>1, <2>2, <2>3, <2>5, <2>6, <2>9, <3>1
        <3>2. CASE j # m + 1
            <4>1. j \in 1..m /\ argv'[j] = argv[j]
                BY <2>9, <3>2
            <4>2. argv[j].at < p /\ p < q /\ argv[j].at \in Int
                BY <2>1, <2>2, <2>5, <2>6, <2>10, <4>1 DEF Starts
            <4>. QED  BY <2>1, <2>2, <2>5, <2>10, <4>1, <4>2
        <3>. QED  BY <3>1, <3>2
    <2>12. ASSUME NEW j \in 1..(m + 1), NEW k \in 1..(m + 1), j < k
           PROVE  argv'[j].at < argv'[k].at
        <3>1. j \in 1..m /\ argv'[j] = argv[j]
            BY <2>9, <2>12
        <3>2. CASE k = m + 1
            BY <2>3, <2>9, <2>10, <3>1, <3>2
        <3>3. CASE k # m + 1
            <4>1. k \in 1..m /\ argv'[k] = argv[k]
                BY <2>9, <3>3
            <4>. QED  BY <1>1, <1>3, <2>12, <3>1, <4>1 DEF Splitting, ArgsSound
        <3>. QED  BY <3>2, <3>3
    <2>13. ArgsSound'
        BY <1>5, <2>9, <2>11, <2>12 DEF ArgsSound
    <2>14. ASSUME NEW i \in 2..n, Starts(i), i < q
           PROVE  \E j \in 1..(m + 1) : argv'[j].at = i
        <3>1. CASE i = p
            BY <2>3, <2>9, <3>1
        <3>2. CASE i # p
            <4>1. i < p
                BY <2>1, <2>8, <2>14, <3>2
            <4>2. PICK j \in 1..m : argv[j].at = i
                BY <1>1, <1>2, <1>3, <2>14, <4>1 DEF Splitting, FoundUpTo
            <4>. QED  BY <2>9, <4>2
        <3>. QED  BY <3>1, <3>2
    <2>15. FoundUpTo(p)'
        BY <1>1, <1>2, <1>5, <2>9, <2>14 DEF FoundUpTo, q
    <2>16. p' \in 1..(Len(buffer') + 1) /\ (p' <= Len(buffer') => Starts(p)')
        <3>1. q \in 1..(n + 1)
            BY <2>1, <2>2, <2>5
        <3>. QED  BY <1>1, <1>2, <2>7, <3>1 DEF Starts, q
    <2>17. \A j \in 1..Len(argv') : argv'[j].at < p' /\ argv'[j].text = Word(argv[j].at)'
        BY <1>4, <2>9, <2>11 DEF q
    <2>18. Splitting'
        BY <1>1, <2>13, <2>15, <2>16, <2>17 DEF Splitting
    <2>19. LineTyped'
        <3>1. Len(argv') < MAX_ARGS /\ arg' \in 0..Len(argv')
            BY <1>1, <1>3, <1>7, <2>9
        <3>. QED  BY <1>1, <1>7, <2>9, <3>1 DEF LineTyped
    <2>. QED  BY <1>1, <1>7, <2>18, <2>19 DEF LineInv
<1>. QED  BY <1>6, <1>7 DEF Split
(* Replacing argument i changes the text of arguments within VarRoom bytes *)
(* of it and of those that reach up to it, and nothing else.               *)
Rewritten(a, b, i) ==
    /\ b \in Seq(Arg) /\ Len(b) = Len(a)
    /\ \A j \in 1..Len(a) : b[j].at = a[j].at
    /\ \A j \in 1..Len(a) : \/ b[j].text = a[j].text
                            \/ a[j].at - a[i].at \in 0..(VarRoom - 1)
                            \/ a[j].at < a[i].at /\ a[j].at + Len(a[j].text) >= a[i].at

LEMMA ExpandRewrites ==
    ASSUME argv \in Seq(Arg), NEW i \in 1..Len(argv), NEW value \in Seq(Glyphs)
    PROVE  Rewritten(argv, ExpandArg(i, value), i)
<1>1. PICK m \in Nat : m = Len(argv) /\ DOMAIN argv = 1..m
    BY LenProperties
<1>2. PICK n \in Nat : n = Len(value)
    BY LenProperties
<1>. DEFINE cut == IF n < VarRoom THEN n ELSE VarRoom - 1
            kept == SubSeq(value, 1, cut)
            d(j) == argv[j].at - argv[i].at
            over(j) == d(j) < 0 /\ d(j) + Len(argv[j].text) >= 0
            b == [j \in 1..m |-> IF d(j) \in 0..(VarRoom - 1)
                                 THEN [argv[j] EXCEPT !.text = ReadAt(kept, d(j))]
                                 ELSE IF over(j)
                                 THEN [argv[j] EXCEPT !.text =
                                          SubSeq(argv[j].text, 1, 0 - d(j)) \o kept]
                                 ELSE argv[j]]
<1>3. ExpandArg(i, value) = b
    BY <1>1, <1>2, Zenon DEF ExpandArg
<1>4. cut \in Nat /\ cut <= n
    BY <1>2, ShellAssumption
<1>5. kept \in Seq(Glyphs)
    <2>. HIDE DEF cut
    <2>1. \A k \in 1..cut : value[k] \in Glyphs
        BY <1>2, <1>4, ElementOfSeq
    <2>. QED  BY <1>4, <2>1, SubSeqProperties
<1>. HIDE DEF kept, cut
<1>6. \A j \in 1..m : argv[j] \in Arg
    BY <1>1, ElementOfSeq
<1>7. \A j \in 1..m : d(j) \in Int
    BY <1>1, <1>6 DEF Arg
<1>8. ASSUME NEW e \in Nat PROVE ReadAt(kept, e) \in Seq(Glyphs)
    <2>1. PICK l \in Nat : l = Len(kept)
        BY <1>5, LenProperties
    <2>2. \A k \in (e + 1)..l : kept[k] \in Glyphs
        BY <1>5, <2>1, ElementOfSeq
    <2>3. SubSeq(kept, e + 1, l) \in Seq(Glyphs)
        BY <2>1, <2>2, SubSeqProperties
    <2>. QED  BY <2>1, <2>3 DEF ReadAt
<1>9. ASSUME NEW j \in 1..m
      PROVE  /\ b[j] \in Arg /\ b[j].at = argv[j].at
             /\ b[j].text = argv[j].text \/ d(j) \in 0..(VarRoom - 1) \/ over(j)
    <2>1. CASE d(j) \in 0..(VarRoom - 1)
        <3>1. b[j] = [argv[j] EXCEPT !.text = ReadAt(kept, d(j))]
            BY <2>1
        <3>2. d(j) \in Nat
            BY <2>1
        <3>3. ReadAt(kept, d(j)) \in Seq(Glyphs)
            BY <1>8, <3>2
        <3>. HIDE DEF d, b
        <3>. QED  BY <1>6, <2>1, <3>1, <3>3 DEF Arg
    <2>2. CASE d(j) \notin 0..(VarRoom - 1) /\ ~over(j)
        <3>1. b[j] = argv[j]
            BY <2>2
        <3>. HIDE DEF d, b
        <3>. QED  BY <1>6, <3>1
    <2>3. CASE d(j) \notin 0..(VarRoom - 1) /\ over(j)
        <3>. DEFINE new == SubSeq(argv[j].text, 1, 0 - d(j)) \o kept
        <3>1. b[j] = [argv[j] EXCEPT !.text = new]
            BY <2>3
        <3>2. argv[j].text \in Seq(Glyphs) /\ d(j) \in Int
            BY <1>6, <1>7 DEF Arg
        <3>3. PICK l \in Nat : l = Len(argv[j].text)
            BY <3>2, LenProperties
        <3>4. PICK e \in 1..l : e = 0 - d(j)
            <4>1. 0 - d(j) \in 1..l
                BY <2>3, <3>2, <3>3
            <4>. QED  BY <4>1
        <3>5. SubSeq(argv[j].text, 1, e) \in Seq(Glyphs)
            <4>1. \A k \in 1..e : argv[j].text[k] \in Glyphs
                BY <3>2, <3>3, ElementOfSeq
            <4>. QED  BY <4>1, SubSeqProperties
        <3>6. new \in Seq(Glyphs)
            BY <1>5, <3>4, <3>5, ConcatProperties
        <3>. HIDE DEF d, b, new, over
        <3>. QED  BY <1>6, <2>3, <3>1, <3>6 DEF Arg
    <2>. QED  BY <2>1, <2>2, <2>3
<1>10. b \in Seq(Arg) /\ Len(b) = m
    <2>1. b = [j \in 1..m |-> b[j]]
        OBVIOUS
    <2>. HIDE DEF b
    <2>. QED  BY <1>1, <1>9, <2>1
<1>. HIDE DEF b
<1>11. ASSUME NEW j \in 1..m, over(j)
       PROVE  argv[j].at < argv[i].at /\ argv[j].at + Len(argv[j].text) >= argv[i].at
    <2>1. argv[j].at \in Nat /\ argv[i].at \in Nat /\ Len(argv[j].text) \in Nat
        BY <1>1, <1>6, LenProperties DEF Arg
    <2>. QED  BY <1>11, <2>1
<1>. HIDE DEF over
<1>. QED  BY <1>1, <1>3, <1>9, <1>10, <1>11 DEF Rewritten

LEMMA LineExpand ==
    ASSUME LineInv, Expand PROVE LineInv'
<1>1. /\ pc = "expand" /\ Expanding /\ LineTyped /\ argv \in Seq(Arg) /\ arg \in 0..Len(argv)
      /\ buffer' = buffer /\ pc' = pc /\ arg < Len(argv) /\ arg' = arg + 1
    BY DEF LineInv, LineTyped, Expand, At
<1>2. PICK m \in Nat : m = Len(argv)
    BY <1>1, LenProperties
<1>. DEFINE i == arg + 1
<1>3. i \in 1..m /\ arg \in 0..m
    BY <1>1, <1>2
<1>4. /\ Rewritten(argv, argv', i)
      /\ IsVariable(argv[i].text) \/ argv' = argv
    <2>1. CASE ~IsVariable(argv[i].text) /\ argv' = argv
        BY <1>1, <2>1 DEF Rewritten
    <2>2. CASE IsVariable(argv[i].text) /\ argv' = ExpandArg(i, Env[Tail(argv[i].text)])
        <3>1. Env[Tail(argv[i].text)] \in Seq(Glyphs)
            BY <2>2, ShellAssumption DEF IsVariable
        <3>2. Rewritten(argv, ExpandArg(i, Env[Tail(argv[i].text)]), i)
            BY <1>1, <1>2, <1>3, <3>1, ExpandRewrites
        <3>. QED  BY <2>2, <3>2
    <2>. QED  BY <2>1, <2>2 DEF Expand
<1>5. /\ argv' \in Seq(Arg) /\ Len(argv') = m
      /\ \A j \in 1..m : argv'[j].at = argv[j].at
      /\ \A j \in 1..m : \/ argv'[j].text = argv[j].text
                         \/ argv[j].at - argv[i].at \in 0..(VarRoom - 1)
                         \/ argv[j].at < argv[i].at /\ argv[j].at + Len(argv[j].text) >= argv[i].at
    BY <1>2, <1>4 DEF Rewritten
<1>6. \A k : Word(k)' = Word(k)
    BY <1>1, WordKept
<1>7. \A k : Starts(k)' <=> Starts(k)
    BY <1>1 DEF Starts
<1>8. ArgsSound'
    <2>1. /\ \A j \in 1..m : Starts(argv[j].at)
          /\ \A j, k \in 1..m : j < k => argv[j].at < argv[k].at
        BY <1>1, <1>2 DEF Expanding, ArgsSound
    <2>2. \A j \in 1..m : Starts(argv[j].at)'
        BY <1>5, <1>7, <2>1
    <2>3. \A j, k \in 1..m : j < k => argv'[j].at < argv'[k].at
        BY <1>5, <2>1
    <2>. QED  BY <1>5, <2>2, <2>3 DEF ArgsSound
<1>9. Len(argv') + 1 < MAX_ARGS => FoundUpTo(Len(buffer) + 1)'
    BY <1>1, <1>2, <1>5, <1>7 DEF Expanding, FoundUpTo
<1>. DEFINE Reach(h, j) == /\ h \in 1..i /\ h <= j /\ IsVariable(Word(argv[h].at))
                           /\ \A k \in h..(j - 1) : argv[k + 1].at - argv[k].at < VarRoom
<1>10. ASSUME NEW j \in 1..m, NEW h, Reach(h, j) PROVE Overwritten(j)'
    <2>1. h \in 1..arg' /\ h <= j /\ h \in 1..m
        BY <1>1, <1>3, <1>10
    <2>2. IsVariable(Word(argv[h].at)')
        BY <1>5, <1>6, <1>10, <2>1
    <2>3. ASSUME NEW k \in h..(j - 1) PROVE argv'[k + 1].at - argv'[k].at < VarRoom
        <3>1. k \in 1..m /\ k + 1 \in 1..m
            BY <2>1
        <3>. QED  BY <1>5, <1>10, <3>1
    <2>. QED  BY <2>1, <2>2, <2>3 DEF Overwritten
<1>11. ASSUME NEW j \in 1..m, Overwritten(j) PROVE \E h : Reach(h, j)
    <2>1. PICK h \in 1..arg : /\ h <= j /\ IsVariable(Word(argv[h].at))
                              /\ \A k \in h..(j - 1) : argv[k + 1].at - argv[k].at < VarRoom
        BY <1>11 DEF Overwritten
    <2>2. h \in 1..i
        BY <1>3
    <2>. QED  BY <2>1, <2>2
<1>w. ASSUME NEW j \in 1..m, argv[j].at < argv[i].at,
             argv[j].at + Len(argv[j].text) >= argv[i].at
      PROVE  Overwritten(j)
    <2>1. buffer \in Seq(Keys) /\ Starts(argv[j].at) /\ Starts(argv[i].at)
        BY <1>1, <1>2, <1>3 DEF LineTyped, Expanding, ArgsSound
    <2>2. PICK n \in Nat : n = Len(buffer)
        BY <2>1, LenProperties
    <2>3. PICK f \in 2..n : f = argv[j].at
        BY <2>1, <2>2 DEF Starts
    <2>4. PICK g \in 2..n : g = argv[i].at /\ buffer[g - 1] = "SP" /\ f < g
        BY <1>w, <2>1, <2>2, <2>3 DEF Starts
    <2>5. /\ Where(f, IsSpace) \in f..(n + 1)
          /\ \A k \in f..(Where(f, IsSpace) - 1) : buffer[k] # "SP"
        BY <2>1, <2>2, <2>3, WhereSpace
    <2>6. PICK e \in f..(n + 1) : e = Where(f, IsSpace) /\ e <= g - 1
        BY <2>4, <2>5
    <2>7. Len(Word(f)) = IF f <= e - 1 THEN e - 1 - f + 1 ELSE 0
        <3>1. \A k \in f..(e - 1) : k \in 1..n
            BY <2>3, <2>6
        <3>2. \A k \in f..(e - 1) : buffer[k] \in Keys
            BY <2>1, <2>2, <3>1, ElementOfSeq
        <3>. QED  BY <2>3, <2>6, <3>2, SubSeqProperties DEF Word
    <2>8. ~(argv[j].text = Word(argv[j].at))
        <3>1. PICK w : w = Word(f)
            OBVIOUS
        <3>2. PICK l : l = Len(w)
            OBVIOUS
        <3>3. l = IF f <= e - 1 THEN e - 1 - f + 1 ELSE 0
            BY <2>7, <3>1, <3>2
        <3>4. ~(f + l >= g)
            BY <2>3, <2>4, <2>6, <3>3
        <3>5. PICK t : t = argv[j].text
            OBVIOUS
        <3>6. f + Len(t) >= g
            BY <1>w, <2>3, <2>4, <3>5
        <3>7. t # w
            BY <3>2, <3>4, <3>6, Zenon
        <3>. QED  BY <2>3, <3>1, <3>5, <3>7
    <2>. QED  BY <1>1, <1>2, <2>8 DEF Expanding
<1>12. ASSUME NEW j \in 1..m, argv'[j].text # argv[j].text, ~Overwritten(j)
       PROVE  \E h : Reach(h, j)
    <2>. DEFINE at(k) == argv[k].at
    <2>1. IsVariable(argv[i].text) /\ at(j) - at(i) \in 0..(VarRoom - 1)
        BY <1>4, <1>5, <1>12, <1>w
    <2>2. \A k \in 1..m : at(k) \in Int
        <3>1. \A k \in 1..m : argv[k] \in Arg
            BY <1>1, <1>2, ElementOfSeq
        <3>. QED  BY <3>1 DEF Arg
    <2>3. \A k, l \in 1..m : k < l => at(k) < at(l)
        BY <1>1, <1>2 DEF Expanding, ArgsSound
    <2>4. VarRoom \in Int
        BY ShellAssumption
    <2>. HIDE DEF at
    <2>5. i <= j
        <3>1. ~(j < i)
            BY <1>3, <2>1, <2>2, <2>3
        <3>. QED  BY <1>3, <3>1
    <2>6. ASSUME NEW k \in i..(j - 1) PROVE at(k + 1) - at(k) < VarRoom
        <3>1. k \in 1..m /\ k + 1 \in 1..m /\ i <= k /\ k + 1 <= j /\ i \in 1..m /\ j \in 1..m
            BY <1>3
        <3>2. at(i) <= at(k) /\ at(k + 1) <= at(j)
            <4>. HIDE DEF i
            <4>1. i = k \/ i < k
                BY <3>1
            <4>2. k + 1 = j \/ k + 1 < j
                BY <3>1
            <4>. QED  BY <2>2, <2>3, <3>1, <4>1, <4>2
        <3>3. at(i) \in Int /\ at(j) \in Int /\ at(k) \in Int /\ at(k + 1) \in Int
            BY <2>2, <3>1
        <3>. QED  BY <2>1, <2>4, <3>2, <3>3
    <2>7. CASE argv[i].text = Word(argv[i].at)
        <3>1. IsVariable(Word(argv[i].at)) /\ i \in 1..i
            BY <1>3, <2>1, <2>7
        <3>2. Reach(i, j)
            BY <2>5, <2>6, <3>1 DEF at
        <3>. QED  BY <3>2
    <2>8. CASE Overwritten(i)
        <3>1. PICK h : Reach(h, i)
            BY <1>3, <1>11, <2>8
        <3>2. ASSUME NEW k \in h..(j - 1) PROVE argv[k + 1].at - argv[k].at < VarRoom
            <4>1. k \in h..(i - 1) \/ k \in i..(j - 1)
                BY <1>3, <2>5, <3>1
            <4>. QED  BY <2>6, <3>1, <4>1 DEF at
        <3>3. h <= j
            BY <1>3, <2>5, <3>1
        <3>4. Reach(h, j)
            BY <3>1, <3>2, <3>3
        <3>. QED  BY <3>4
    <2>. QED  BY <1>1, <1>2, <1>3, <2>7, <2>8 DEF Expanding
<1>. HIDE DEF Reach
<1>13. ASSUME NEW j \in 1..m PROVE argv'[j].text = Word(argv[j].at)' \/ Overwritten(j)'
    <2>1. CASE argv'[j].text # argv[j].text \/ Overwritten(j)
        BY <1>10, <1>11, <1>12, <2>1
    <2>2. CASE argv'[j].text = argv[j].text /\ ~Overwritten(j)
        BY <1>1, <1>2, <1>5, <1>6, <2>2 DEF Expanding
    <2>. QED  BY <2>1, <2>2
<1>14. Expanding'
    BY <1>5, <1>8, <1>9, <1>13 DEF Expanding
<1>15. LineTyped'
    <2>1. Len(argv') < MAX_ARGS /\ arg' \in 0..Len(argv')
        BY <1>1, <1>2, <1>3, <1>5 DEF LineTyped
    <2>. QED  BY <1>1, <1>5, <2>1 DEF LineTyped
<1>. QED  BY <1>1, <1>14, <1>15 DEF LineInv

LEMMA LineNext == LineInv /\ [Next]_vars => LineInv'
<1>. SUFFICES ASSUME LineInv, [Next]_vars PROVE LineInv'
    OBVIOUS
<1>1. CASE terminalPutS \/ UNCHANGED vars
    BY <1>1, LineKept DEF terminalPutS, shellvars, vars
<1>2. CASE (\E k \in Keys : KeyGlyph(k)) \/ KeyBackspace \/ KeyEnter
    BY <1>2, LineTyping
<1>3. CASE Search
    BY <1>3, LineSearch
<1>4. CASE Split
    BY <1>4, LineSplit
<1>5. CASE Expand
    BY <1>5, LineExpand
<1>6. CASE Call
    BY <1>6, LineFinish DEF Call
<1>. QED  BY <1>1, <1>2, <1>3, <1>4, <1>5, <1>6 DEF Next

(* The arguments handed to a command are the words of the line behind its  *)
(* name, in order and each once, but for what replacing a variable wrote   *)
(* over the ones that follow it.                                           *)
THEOREM ArgumentsAreWords == Spec => []ArgvIsWords
  BY LineInit, LineNext, LineInvWords, PTL DEF Spec
-----------------------------------------------------------------------------
(* The echo.  Here is the place of the next character, TopRows the cells   *)
(* of all rows but the last.                                               *)
Here == getCharOffset(terminal_column, terminal_row)
TopRows == (VGA_HEIGHT - 1) * VGA_WIDTH

LEMMA Sizes ==
    /\ TopRows \in Nat /\ VGA_WIDTH \in Nat /\ VGA_WIDTH >= 2 /\ TopRows >= VGA_WIDTH
    /\ VGA_HEIGHT * VGA_WIDTH = TopRows + VGA_WIDTH
    /\ (VGA_HEIGHT + 1) * VGA_WIDTH = TopRows + VGA_WIDTH + VGA_WIDTH
    /\ Cells \in Nat /\ Cells >= TopRows + VGA_WIDTH + VGA_WIDTH
    /\ LineMax \in Nat /\ LineMax <= TopRows
    /\ VGA_HEIGHT \in Nat /\ VGA_HEIGHT >= 2
<1>1. /\ VGA_HEIGHT \in Nat /\ VGA_HEIGHT >= 2 /\ VGA_WIDTH \in Nat /\ VGA_WIDTH >= 2
      /\ Cells \in Nat /\ Cells >= (VGA_HEIGHT + 1) * VGA_WIDTH
    BY TtyAssumption
<1>2. ASSUME NEW H \in Nat, NEW W \in Nat, H >= 2
      PROVE  /\ (H - 1) * W \in Nat /\ (H - 1) * W >= W
             /\ H * W = (H - 1) * W + W /\ (H + 1) * W = (H - 1) * W + W + W
    <2>1. PICK g \in Nat : H = g + 2
        <3>1. H - 2 \in Nat /\ H = (H - 2) + 2
            BY <1>2
        <3>. QED  BY <3>1
    <2>2. /\ g * W \in Nat /\ (g + 1) * W = g * W + W
          /\ (g + 2) * W = g * W + W + W /\ (g + 3) * W = g * W + W + W + W
        BY Z3
    <2>3. H - 1 = g + 1 /\ H + 1 = g + 3
        BY <2>1
    <2>. QED  BY <2>1, <2>2, <2>3
<1>3. /\ TopRows \in Nat /\ TopRows >= VGA_WIDTH
      /\ VGA_HEIGHT * VGA_WIDTH = TopRows + VGA_WIDTH
      /\ (VGA_HEIGHT + 1) * VGA_WIDTH = TopRows + VGA_WIDTH + VGA_WIDTH
    BY <1>1, <1>2 DEF TopRows
<1>4. LineMax \in Nat /\ LineMax <= TopRows
    BY ShellAssumption DEF TopRows
<1>. QED  BY <1>1, <1>3, <1>4

(* Rows and places. *)
LEMMA Places ==
    ASSUME NEW r \in Nat, NEW c \in 0..(VGA_WIDTH - 1)
    PROVE  /\ r * VGA_WIDTH + c \in Nat
           /\ (r + 1) * VGA_WIDTH = r * VGA_WIDTH + VGA_WIDTH
           /\ (r + 2) * VGA_WIDTH = r * VGA_WIDTH + VGA_WIDTH + VGA_WIDTH
           /\ r * VGA_WIDTH \in Nat
           /\ r < VGA_HEIGHT => r * VGA_WIDTH + c < TopRows + VGA_WIDTH
           /\ r > VGA_HEIGHT => r * VGA_WIDTH + c >= TopRows + VGA_WIDTH + VGA_WIDTH
           /\ r = VGA_HEIGHT - 1 => r * VGA_WIDTH = TopRows
<1>1. VGA_WIDTH \in Nat /\ VGA_HEIGHT \in Nat /\ VGA_HEIGHT >= 2
    BY Sizes
<1>2. ASSUME NEW W \in Nat
      PROVE  /\ r * W \in Nat /\ (r + 1) * W = r * W + W
             /\ (r + 2) * W = r * W + W + W
    BY Z3
<1>3. ASSUME NEW W \in Nat, NEW a \in Nat, NEW b \in Nat, a <= b PROVE a * W <= b * W
    BY <1>3, Z3
<1>4. r < VGA_HEIGHT => (r + 1) * VGA_WIDTH <= VGA_HEIGHT * VGA_WIDTH
    BY <1>1, <1>3
<1>5. r > VGA_HEIGHT => (VGA_HEIGHT + 1) * VGA_WIDTH <= r * VGA_WIDTH
    BY <1>1, <1>3
<1>6. /\ r * VGA_WIDTH \in Nat /\ (r + 1) * VGA_WIDTH = r * VGA_WIDTH + VGA_WIDTH
      /\ (r + 2) * VGA_WIDTH = r * VGA_WIDTH + VGA_WIDTH + VGA_WIDTH
    BY <1>1, <1>2
<1>7. r = VGA_HEIGHT - 1 => r * VGA_WIDTH = TopRows
    BY DEF TopRows
<1>. QED  BY <1>1, <1>4, <1>5, <1>6, <1>7, Sizes

LEMMA PlaceNow ==
    ASSUME TtyTypeOK
    PROVE  /\ Here \in Nat /\ Here = terminal_row * VGA_WIDTH + terminal_column
           /\ terminal_row < VGA_HEIGHT => Here < TopRows + VGA_WIDTH
           /\ terminal_row > VGA_HEIGHT => Here >= TopRows + VGA_WIDTH + VGA_WIDTH
<1>1. terminal_row \in Nat /\ terminal_column \in 0..(VGA_WIDTH - 1)
    BY DEF TtyTypeOK
<1>. QED  BY <1>1, Places DEF Here, getCharOffset

(* A glyph is drawn, and the place goes on by one; behind the last one of  *)
(* the screen, the screen scrolls.                                         *)
Drawn(ch) == terminalMvPutC(ch, terminal_column, terminal_row)

GlyphStep(ch) ==
    \/ /\ Here = TopRows + VGA_WIDTH - 1 /\ Here' = TopRows
       /\ terminal_row' = VGA_HEIGHT - 1 /\ terminal_buffer' = doScroll(Drawn(ch))
    \/ /\ Here' = Here + 1 /\ terminal_buffer' = Drawn(ch)
       /\ terminal_row' > VGA_HEIGHT => terminal_row > VGA_HEIGHT

LEMMA GlyphPlace ==
    ASSUME TtyTypeOK, terminal_row # VGA_HEIGHT, NEW ch \in Glyphs, terminalPutC(ch)
    PROVE  GlyphStep(ch) /\ terminal_row' # VGA_HEIGHT
           /\ terminal_row' \in Nat /\ terminal_column' \in 0..(VGA_WIDTH - 1)
<1>. DEFINE r == terminal_row
            c == terminal_column
            b == Drawn(ch)
            down == NextRow(c, r)
<1>1. r \in Nat /\ c \in 0..(VGA_WIDTH - 1) /\ r # VGA_HEIGHT
    BY DEF TtyTypeOK
<1>2. checkScroll(c, r, b) /\ terminal_column' = NextColumn(c)
    <2>1. ch \notin {"LF", "CR", "BS"}
        BY TtyAssumption
    <2>2. PutGlyph(ch)
        BY <2>1 DEF terminalPutC
    <2>. QED  BY <2>2 DEF PutGlyph, Drawn
<1>3. /\ Here = r * VGA_WIDTH + c
      /\ Here' = terminal_row' * VGA_WIDTH + terminal_column'
    BY DEF Here, getCharOffset
<1>4. /\ r * VGA_WIDTH \in Nat /\ (r + 1) * VGA_WIDTH = r * VGA_WIDTH + VGA_WIDTH
      /\ r = VGA_HEIGHT - 1 => r * VGA_WIDTH = TopRows
    BY <1>1, Places
<1>5. CASE c + 1 = VGA_WIDTH
    <2>1. down = r + 1 /\ terminal_column' = 0
        BY <1>2, <1>5 DEF NextRow, NextColumn
    <2>2. CASE r + 1 = VGA_HEIGHT
        <3>1. terminal_row' = VGA_HEIGHT - 1 /\ terminal_buffer' = doScroll(b)
            BY <1>2, <2>1, <2>2 DEF checkScroll
        <3>2. r = VGA_HEIGHT - 1 /\ Here' = TopRows
            BY <1>1, <1>3, <1>4, <2>1, <2>2, <3>1, Sizes
        <3>. QED  BY <1>1, <1>3, <1>4, <1>5, <2>1, <3>1, <3>2, Sizes DEF GlyphStep
    <2>3. CASE r + 1 # VGA_HEIGHT
        <3>1. terminal_row' = r + 1 /\ terminal_buffer' = b
            BY <1>2, <2>1, <2>3 DEF checkScroll
        <3>2. Here' = Here + 1
            <4>1. Here' = (r + 1) * VGA_WIDTH + 0
                BY <1>3, <2>1, <3>1
            <4>. QED  BY <1>1, <1>3, <1>4, <1>5, <4>1, Sizes
        <3>. QED  BY <1>1, <2>1, <2>3, <3>1, <3>2, Sizes DEF GlyphStep
    <2>. QED  BY <2>2, <2>3
<1>6. CASE c + 1 # VGA_WIDTH
    <2>1. down = r /\ terminal_column' = c + 1
        BY <1>2, <1>6 DEF NextRow, NextColumn
    <2>2. terminal_row' = r /\ terminal_buffer' = b
        BY <1>1, <1>2, <2>1 DEF checkScroll
    <2>3. Here' = Here + 1
        BY <1>1, <1>3, <1>4, <2>1, <2>2
    <2>. QED  BY <1>1, <1>6, <2>1, <2>2, <2>3, Sizes DEF GlyphStep
<1>. QED  BY <1>5, <1>6
(* A new line goes down; on the last row the screen scrolls. *)
NewlineStep ==
    \/ /\ Here < TopRows + VGA_WIDTH /\ Here' = TopRows
       /\ terminal_buffer' = doScroll(terminal_buffer)
    \/ Here' >= Here /\ terminal_buffer' = terminal_buffer

LEMMA NewlinePlace ==
    ASSUME TtyTypeOK, terminal_row # VGA_HEIGHT, terminalPutC("LF")
    PROVE  NewlineStep /\ terminal_row' # VGA_HEIGHT
           /\ terminal_row' \in Nat /\ terminal_column' \in 0..(VGA_WIDTH - 1)
<1>. DEFINE r == terminal_row
            c == terminal_column
            down == NextRow(c, r + 1)
<1>1. r \in Nat /\ c \in 0..(VGA_WIDTH - 1)
    BY DEF TtyTypeOK
<1>2. checkScroll(c, r + 1, terminal_buffer) /\ terminal_column' = 0
    <2>1. "LF" \notin Glyphs
        BY TtyAssumption
    <2>2. PutNewline
        BY <2>1 DEF terminalPutC, PutGlyph
    <2>. QED  BY <2>2 DEF PutNewline
<1>3. /\ Here = r * VGA_WIDTH + c
      /\ Here' = terminal_row' * VGA_WIDTH + terminal_column'
    BY DEF Here, getCharOffset
<1>4. /\ r * VGA_WIDTH \in Nat /\ (r + 1) * VGA_WIDTH = r * VGA_WIDTH + VGA_WIDTH
      /\ (r + 2) * VGA_WIDTH = r * VGA_WIDTH + VGA_WIDTH + VGA_WIDTH
      /\ r < VGA_HEIGHT => r * VGA_WIDTH + c < TopRows + VGA_WIDTH
    BY <1>1, Places
<1>5. down \in {r + 1, r + 2}
    BY <1>1 DEF NextRow
<1>6. 0 \in 0..(VGA_WIDTH - 1)
    BY Sizes
<1>7. CASE down = VGA_HEIGHT
    <2>1. terminal_row' = VGA_HEIGHT - 1 /\ terminal_buffer' = doScroll(terminal_buffer)
        BY <1>2, <1>7 DEF checkScroll
    <2>2. terminal_row' * VGA_WIDTH = TopRows
        BY <2>1 DEF TopRows
    <2>3. Here' = TopRows
        BY <1>2, <1>3, <2>2, Sizes
    <2>4. r < VGA_HEIGHT
        BY <1>1, <1>5, <1>7, Sizes
    <2>. QED  BY <1>2, <1>3, <1>4, <1>6, <2>1, <2>3, <2>4, Sizes DEF NewlineStep
<1>8. CASE down # VGA_HEIGHT
    <2>1. terminal_row' = down /\ terminal_buffer' = terminal_buffer
        BY <1>2, <1>8 DEF checkScroll
    <2>2. Here' = down * VGA_WIDTH
        <3>1. Here' = down * VGA_WIDTH + 0
            BY <1>2, <1>3, <2>1
        <3>2. down * VGA_WIDTH \in Nat
            BY <1>1, <1>4, <1>5, Sizes
        <3>. QED  BY <3>1, <3>2
    <2>3. Here' >= Here
        <3>1. CASE down = r + 1
            BY <1>1, <1>3, <1>4, <2>2, <3>1, Sizes
        <3>2. CASE down = r + 2
            BY <1>1, <1>3, <1>4, <2>2, <3>2, Sizes
        <3>. QED  BY <1>5, <3>1, <3>2
    <2>. QED  BY <1>1, <1>2, <1>5, <1>6, <1>8, <2>1, <2>3 DEF NewlineStep
<1>. QED  BY <1>7, <1>8

(* A backspace goes back by one. *)
LEMMA BackPlace ==
    ASSUME TtyTypeOK, CursorAgrees, Here >= 1, terminalPutC("BS")
    PROVE  /\ Here' = Here - 1 /\ terminal_buffer' = terminal_buffer
           /\ terminal_row' \in Nat /\ terminal_column' \in 0..(VGA_WIDTH - 1)
           /\ Here - 1 < TopRows + VGA_WIDTH => terminal_row' < VGA_HEIGHT
           /\ Here - 1 >= TopRows + VGA_WIDTH + VGA_WIDTH => terminal_row' > VGA_HEIGHT
<1>1. PutBackspace
    <2>1. "BS" \notin Glyphs
        BY TtyAssumption
    <2>. QED  BY <2>1 DEF terminalPutC, PutGlyph
<1>2. Here \in Nat /\ ttyGetCursor = Here
    BY PlaceNow DEF CursorAgrees, Here
<1>3. PICK o \in Nat : o = Here - 1
    BY <1>2
<1>4. /\ terminal_column' = o % VGA_WIDTH /\ terminal_row' = o \div VGA_WIDTH
      /\ terminal_buffer' = terminal_buffer
    BY <1>1, <1>2, <1>3 DEF PutBackspace
<1>5. /\ o \div VGA_WIDTH \in Nat /\ o % VGA_WIDTH \in 0..(VGA_WIDTH - 1)
      /\ (o \div VGA_WIDTH) * VGA_WIDTH + (o % VGA_WIDTH) = o
    BY OffsetSplit, Sizes
<1>6. PICK r \in Nat, c \in 0..(VGA_WIDTH - 1) :
          /\ r * VGA_WIDTH + c = o /\ terminal_row' = r /\ terminal_column' = c
    BY <1>4, <1>5
<1>7. Here' = o
    BY <1>6 DEF Here, getCharOffset
<1>8. o < TopRows + VGA_WIDTH => r < VGA_HEIGHT
    <2>1. SUFFICES ASSUME o < TopRows + VGA_WIDTH PROVE r < VGA_HEIGHT
        OBVIOUS
    <2>2. o < VGA_HEIGHT * VGA_WIDTH /\ VGA_WIDTH \in Nat /\ VGA_WIDTH > 0 /\ VGA_HEIGHT \in Nat
        BY <2>1, Sizes
    <2>3. o \div VGA_WIDTH < VGA_HEIGHT
        BY <2>2, RowBelow
    <2>. QED  BY <1>4, <1>6, <2>3
<1>9. o >= TopRows + VGA_WIDTH + VGA_WIDTH => r > VGA_HEIGHT
    <2>1. SUFFICES ASSUME r <= VGA_HEIGHT PROVE o < TopRows + VGA_WIDTH + VGA_WIDTH
        BY <1>3, <1>6, Sizes
    <2>2. r * VGA_WIDTH + c < (VGA_HEIGHT + 1) * VGA_WIDTH
        BY <1>6, <2>1, Sizes, OffsetBelow
    <2>. QED  BY <1>6, <2>2, Sizes
<1>. QED  BY <1>3, <1>4, <1>6, <1>7, <1>8, <1>9

(* What is drawn and what scrolls, cell by cell. *)
LEMMA DrawnCells ==
    ASSUME TtyTypeOK, NEW ch \in Glyphs
    PROVE  /\ Drawn(ch) \in [Cell -> Glyphs \cup {Nul}]
           /\ Here \in Cell => Drawn(ch)[Here] = ch
           /\ \A i \in Cell : i # Here => Drawn(ch)[i] = terminal_buffer[i]
<1>1. terminal_buffer \in [Cell -> Glyphs \cup {Nul}]
    BY DEF TtyTypeOK
<1>2. Drawn(ch) = IF Here \in Cell THEN [terminal_buffer EXCEPT ![Here] = ch]
                  ELSE terminal_buffer
    BY DEF Drawn, terminalMvPutC, Here
<1>. QED  BY <1>1, <1>2

LEMMA ScrolledCells ==
    ASSUME NEW b \in [Cell -> Glyphs \cup {Nul}], NEW i \in Cell
    PROVE  /\ i < TopRows => doScroll(b)[i] = b[i + VGA_WIDTH]
           /\ i >= TopRows /\ i < TopRows + VGA_WIDTH + VGA_WIDTH => doScroll(b)[i] = Nul
           /\ i >= TopRows + VGA_WIDTH + VGA_WIDTH => doScroll(b)[i] = b[i]
<1>1. doScroll(b)[i] = IF i < TopRows THEN b[i + VGA_WIDTH]
                       ELSE IF i < TopRows + VGA_WIDTH + VGA_WIDTH THEN Nul
                       ELSE b[i]
    BY Sizes DEF doScroll, TopRows
<1>2. i \in Int /\ TopRows \in Int /\ VGA_WIDTH \in Int /\ VGA_WIDTH >= 2
    BY Sizes DEF Cell
<1>. QED  BY <1>1, <1>2

(* The shape of the terminal, for text that may run off video memory. *)
LEMMA TtyKept ==
    ASSUME TtyTypeOK, NEW ch, terminalPutC(ch) PROVE TtyTypeOK'
<1>1. /\ terminal_row \in Nat /\ terminal_column \in 0..(VGA_WIDTH - 1)
      /\ terminal_buffer \in [Cell -> Glyphs \cup {Nul}]
      /\ VGA_WIDTH \in Nat /\ VGA_WIDTH >= 2
    BY Sizes DEF TtyTypeOK
<1>2. /\ terminal_row' \in Nat /\ terminal_column' \in 0..(VGA_WIDTH - 1)
      /\ terminal_buffer' \in [Cell -> Glyphs \cup {Nul}]
    <2>1. CASE PutGlyph(ch)
        <3>1. Drawn(ch) \in [Cell -> Glyphs \cup {Nul}]
            BY <2>1, DrawnCells DEF PutGlyph
        <3>2. checkScroll(terminal_column, terminal_row, Drawn(ch))
            BY <2>1 DEF PutGlyph, Drawn
        <3>3. terminal_column' \in 0..(VGA_WIDTH - 1)
            BY <1>1, <2>1 DEF PutGlyph, NextColumn
        <3>. QED  BY <1>1, <3>1, <3>2, <3>3, ScrollRow
    <2>2. CASE PutNewline
        <3>1. checkScroll(terminal_column, terminal_row + 1, terminal_buffer) /\ terminal_column' = 0
            BY <2>2 DEF PutNewline
        <3>2. terminal_row + 1 \in Nat /\ 0 \in 0..(VGA_WIDTH - 1)
            BY <1>1
        <3>. QED  BY <1>1, <3>1, <3>2, ScrollRow
    <2>3. CASE PutReturn
        BY <1>1, <2>3 DEF PutReturn
    <2>4. CASE PutBackspace
        <3>1. ttyGetCursor \in Nat
            <4>1. cursor.hi \in Nat /\ cursor.lo \in Nat /\ Byte \in Nat
                BY TtyAssumption DEF TtyTypeOK
            <4>2. cursor.hi * Byte \in Nat
                BY <4>1, Z3
            <4>. QED  BY <4>1, <4>2 DEF ttyGetCursor
        <3>2. PICK pos \in Nat : /\ terminal_column' = pos % VGA_WIDTH
                                 /\ terminal_row' = pos \div VGA_WIDTH
                                 /\ terminal_buffer' = terminal_buffer
            BY <2>4, <3>1 DEF PutBackspace
        <3>3. pos \div VGA_WIDTH \in Nat /\ pos % VGA_WIDTH \in 0..(VGA_WIDTH - 1)
            BY <1>1, OffsetSplit
        <3>. QED  BY <1>1, <3>2, <3>3
    <2>. QED  BY <2>1, <2>2, <2>3, <2>4 DEF terminalPutC
<1>3. cursor' \in [hi : 0..(Byte - 1), lo : 0..(Byte - 1)]
    <2>. DEFINE o == Here'
    <2>1. o \in Nat
        BY <1>2, Places DEF Here, getCharOffset
    <2>2. cursor' = [hi |-> (o \div Byte) % Byte, lo |-> o % Byte]
        BY DEF terminalPutC, ttySetCursor, Here
    <2>. HIDE DEF o
    <2>3. Byte \in Nat /\ Byte > 0
        <3>1. Byte \in Nat /\ Byte * Byte >= Cells /\ Cells \in Nat /\ Cells > 0
            BY TtyAssumption, Sizes
        <3>. QED  BY <3>1, Z3
    <2>4. o \div Byte \in Nat
        BY <2>1, <2>3, OffsetSplit
    <2>5. (o \div Byte) % Byte \in 0..(Byte - 1) /\ o % Byte \in 0..(Byte - 1)
        BY <2>1, <2>3, <2>4, OffsetSplit
    <2>. QED  BY <2>2, <2>5
<1>. QED  BY <1>2, <1>3 DEF TtyTypeOK, Cell

(* As long as the place fits into the registers, they hold it. *)
LEMMA CursorSet ==
    ASSUME TtyTypeOK', NEW ch, terminalPutC(ch), Here' < Cells
    PROVE  CursorAgrees'
<1>. DEFINE o == Here'
<1>1. o \in Nat
    BY Places DEF Here, getCharOffset, TtyTypeOK
<1>2. cursor' = [hi |-> (o \div Byte) % Byte, lo |-> o % Byte]
    BY DEF terminalPutC, ttySetCursor, Here
<1>. HIDE DEF o
<1>3. Byte \in Nat /\ Byte * Byte \in Nat /\ o < Byte * Byte
    <2>1. Byte \in Nat /\ Byte * Byte >= Cells /\ Cells \in Nat
        BY TtyAssumption
    <2>2. Byte * Byte \in Nat
        BY <2>1, Z3
    <2>. QED  BY <1>1, <2>1, <2>2 DEF o
<1>4. ((o \div Byte) % Byte) * Byte + (o % Byte) = o
    BY <1>1, <1>3, RegistersExact
<1>5. cursor'.hi * Byte + cursor'.lo = o
    BY <1>2, <1>4
<1>. QED  BY <1>5 DEF CursorAgrees, ttyGetCursor, o, Here
-----------------------------------------------------------------------------
(* The screen is blank from place e on; the first n characters of a line   *)
(* stand right before e, and all of them on the screen if e is.            *)
BlankFrom(b, e) == \A c \in Cell : c >= e /\ c < TopRows + VGA_WIDTH => b[c] \in Blank

Shows(line, n, b, e, row) ==
    /\ n <= e /\ e <= Cells
    /\ \A i \in 1..n : b[e - n + i - 1] = line[i]
    /\ row > VGA_HEIGHT => e - n >= TopRows + VGA_WIDTH + VGA_WIDTH

LEMMA BlankGlyph ==
    ASSUME TtyTypeOK, NEW ch \in Glyphs, GlyphStep(ch),
           BlankFrom(terminal_buffer, Here)
    PROVE  BlankFrom(terminal_buffer', Here')
<1>1. /\ Here \in Nat /\ Drawn(ch) \in [Cell -> Glyphs \cup {Nul}]
      /\ \A i \in Cell : i # Here => Drawn(ch)[i] = terminal_buffer[i]
    BY PlaceNow, DrawnCells
<1>2. \A c \in Cell : c \in Nat
    BY Sizes DEF Cell
<1>3. CASE /\ Here = TopRows + VGA_WIDTH - 1 /\ Here' = TopRows
           /\ terminal_buffer' = doScroll(Drawn(ch))
    <2>1. SUFFICES ASSUME NEW c \in Cell, c >= TopRows, c < TopRows + VGA_WIDTH
                   PROVE  doScroll(Drawn(ch))[c] \in Blank
        BY <1>3 DEF BlankFrom
    <2>2. c < TopRows + VGA_WIDTH + VGA_WIDTH
        BY <1>2, <2>1, Sizes
    <2>. QED  BY <1>1, <2>1, <2>2, ScrolledCells DEF Blank
<1>4. CASE Here' = Here + 1 /\ terminal_buffer' = Drawn(ch)
    <2>1. SUFFICES ASSUME NEW c \in Cell, c >= Here + 1, c < TopRows + VGA_WIDTH
                   PROVE  Drawn(ch)[c] \in Blank
        BY <1>4 DEF BlankFrom
    <2>2. c # Here /\ c >= Here
        BY <1>1, <1>2, <2>1
    <2>. QED  BY <1>1, <2>1, <2>2 DEF BlankFrom
<1>. QED  BY <1>3, <1>4 DEF GlyphStep

LEMMA BlankNewline ==
    ASSUME TtyTypeOK, NewlineStep, Here' \in Nat, BlankFrom(terminal_buffer, Here)
    PROVE  BlankFrom(terminal_buffer', Here')
<1>1. Here \in Nat /\ terminal_buffer \in [Cell -> Glyphs \cup {Nul}]
    BY PlaceNow DEF TtyTypeOK
<1>2. \A c \in Cell : c \in Nat
    BY Sizes DEF Cell
<1>3. CASE /\ Here < TopRows + VGA_WIDTH /\ Here' = TopRows
           /\ terminal_buffer' = doScroll(terminal_buffer)
    <2>1. SUFFICES ASSUME NEW c \in Cell, c >= TopRows, c < TopRows + VGA_WIDTH
                   PROVE  doScroll(terminal_buffer)[c] \in Blank
        BY <1>3 DEF BlankFrom
    <2>2. c < TopRows + VGA_WIDTH + VGA_WIDTH
        BY <1>2, <2>1, Sizes
    <2>. QED  BY <1>1, <2>1, <2>2, ScrolledCells DEF Blank
<1>4. CASE Here' >= Here /\ terminal_buffer' = terminal_buffer
    <2>1. SUFFICES ASSUME NEW c \in Cell, c >= Here', c < TopRows + VGA_WIDTH
                   PROVE  terminal_buffer[c] \in Blank
        BY <1>4 DEF BlankFrom
    <2>2. c >= Here
        BY <1>1, <1>2, <1>4, <2>1
    <2>. QED  BY <2>1, <2>2 DEF BlankFrom
<1>. QED  BY <1>3, <1>4 DEF NewlineStep

(* The echo of one more character of the line, over the end of the screen  *)
(* too: a line is shorter than the rows that stay.                         *)
LEMMA ShowsGlyph ==
    ASSUME TtyTypeOK, NEW line, NEW n \in Nat, n + 1 <= LineMax,
           NEW ch \in Glyphs, GlyphStep(ch), line[n + 1] = ch,
           Shows(line, n, terminal_buffer, Here, terminal_row), Here + 1 <= Cells
    PROVE  Shows(line, n + 1, terminal_buffer', Here', terminal_row')
<1>1. /\ Here \in Nat /\ Drawn(ch) \in [Cell -> Glyphs \cup {Nul}]
      /\ Here \in Cell => Drawn(ch)[Here] = ch
      /\ \A i \in Cell : i # Here => Drawn(ch)[i] = terminal_buffer[i]
    BY PlaceNow, DrawnCells
<1>2. Cell = 0..(Cells - 1) /\ Cells \in Nat
    BY Sizes DEF Cell
<1>3. /\ n <= Here
      /\ \A i \in 1..n : terminal_buffer[Here - n + i - 1] = line[i]
      /\ terminal_row > VGA_HEIGHT => Here - n >= TopRows + VGA_WIDTH + VGA_WIDTH
    BY DEF Shows
<1>4. ASSUME NEW i \in 1..(n + 1)
      PROVE  /\ Here - n + i - 1 \in Cell
             /\ Drawn(ch)[Here - n + i - 1] = line[i]
    <2>1. Here - n + i - 1 \in 0..(Cells - 1)
        BY <1>1, <1>2, <1>3
    <2>2. CASE i = n + 1
        <3>1. Here - n + i - 1 = Here
            BY <1>1, <2>2
        <3>. QED  BY <1>1, <1>2, <2>1, <2>2, <3>1
    <2>3. CASE i # n + 1
        <3>1. i \in 1..n /\ Here - n + i - 1 # Here
            BY <1>1, <2>3
        <3>. QED  BY <1>1, <1>2, <1>3, <2>1, <3>1
    <2>. QED  BY <2>2, <2>3
<1>5. CASE Here' = Here + 1 /\ terminal_buffer' = Drawn(ch)
           /\ (terminal_row' > VGA_HEIGHT => terminal_row > VGA_HEIGHT)
    <2>1. ASSUME NEW i \in 1..(n + 1) PROVE Drawn(ch)[(Here + 1) - (n + 1) + i - 1] = line[i]
        <3>1. (Here + 1) - (n + 1) + i - 1 = Here - n + i - 1
            BY <1>1
        <3>. QED  BY <1>4, <3>1
    <2>2. (Here + 1) - (n + 1) = Here - n /\ n + 1 <= Here + 1
        BY <1>1, <1>3
    <2>. QED  BY <1>3, <1>5, <2>1, <2>2 DEF Shows
<1>6. CASE /\ Here = TopRows + VGA_WIDTH - 1 /\ Here' = TopRows
           /\ terminal_row' = VGA_HEIGHT - 1 /\ terminal_buffer' = doScroll(Drawn(ch))
    <2>1. n + 1 <= TopRows /\ TopRows <= Cells /\ ~(VGA_HEIGHT - 1 > VGA_HEIGHT)
        BY Sizes
    <2>2. ASSUME NEW i \in 1..(n + 1) PROVE doScroll(Drawn(ch))[TopRows - (n + 1) + i - 1] = line[i]
        <3>1. PICK k \in Int : k = TopRows - (n + 1) + i - 1
            BY Sizes
        <3>2. k \in Cell /\ k < TopRows /\ k + VGA_WIDTH = Here - n + i - 1
            BY <1>2, <1>6, <2>1, <3>1, Sizes
        <3>3. doScroll(Drawn(ch))[k] = Drawn(ch)[k + VGA_WIDTH]
            BY <1>1, <3>2, ScrolledCells
        <3>. QED  BY <1>4, <3>1, <3>2, <3>3
    <2>. QED  BY <1>6, <2>1, <2>2 DEF Shows
<1>. QED  BY <1>5, <1>6 DEF GlyphStep
-----------------------------------------------------------------------------
(* The text that waits in out completes the echo: it is plain text with no *)
(* line typed yet, nothing, the last character of the line, or what is     *)
(* left of erasing the character behind the line.  The registers are in    *)
(* step once the first character is out.                                   *)
Settled == Here < Cells => CursorAgrees

Printing ==
    /\ out \in Seq(Plain) /\ BlankFrom(terminal_buffer, Here)
    /\ pc = "edit" => buffer = <<>>
    /\ out = <<>> => Settled

Echoed ==
    /\ pc = "edit" /\ out = <<>> /\ Here < Cells
    /\ Shows(buffer, Len(buffer), terminal_buffer, Here, terminal_row)
    /\ BlankFrom(terminal_buffer, Here)

Echoing ==
    /\ pc = "edit" /\ Len(buffer) > 0 /\ out = <<buffer[Len(buffer)]>>
    /\ Here + 1 < Cells
    /\ Shows(buffer, Len(buffer) - 1, terminal_buffer, Here, terminal_row)
    /\ BlankFrom(terminal_buffer, Here)

StepBack ==
    /\ pc = "edit" /\ out = <<"BS", "SP", "BS">> /\ Here >= 1 /\ Here < Cells
    /\ Shows(buffer, Len(buffer), terminal_buffer, Here - 1, terminal_row)
    /\ BlankFrom(terminal_buffer, Here)

Overdraw ==
    /\ pc = "edit" /\ out = <<"SP", "BS">>
    /\ Here + 1 < Cells /\ Here + 1 # TopRows + VGA_WIDTH
    /\ Shows(buffer, Len(buffer), terminal_buffer, Here, terminal_row)
    /\ BlankFrom(terminal_buffer, Here + 1)

BackAgain ==
    /\ pc = "edit" /\ out = <<"BS">> /\ Here >= 1 /\ Here < Cells
    /\ Shows(buffer, Len(buffer), terminal_buffer, Here - 1, terminal_row)
    /\ BlankFrom(terminal_buffer, Here - 1)

Screen ==
    /\ TtyTypeOK
    /\ terminal_row # VGA_HEIGHT

EchoInv ==
    /\ Screen
    /\ Printing \/ (Settled /\ (Echoed \/ Echoing \/ StepBack \/ Overdraw \/ BackAgain))

(* Once the echo is printed, it is Echoed or an empty line. *)
LEMMA EchoShown == LineInv /\ EchoInv => TypeOK /\ EchoMatches
<1>. SUFFICES ASSUME LineInv, EchoInv PROVE TypeOK /\ EchoMatches
    OBVIOUS
<1>1. TypeOK
    BY DEF LineInv, LineTyped, EchoInv, Screen, TypeOK
<1>2. EchoMatches
    <2>1. SUFFICES ASSUME pc = "edit", out = <<>>
                   PROVE  /\ \A i \in 1..Len(buffer) :
                                terminal_buffer[Here - Len(buffer) + i - 1] = buffer[i]
                          /\ \A i \in Here..(VGA_HEIGHT * VGA_WIDTH - 1) :
                                terminal_buffer[i] \in Blank
        BY DEF EchoMatches, Here
    <2>2. Here \in Nat /\ Cells \in Nat
        BY PlaceNow, Sizes DEF EchoInv, Screen
    <2>3. BlankFrom(terminal_buffer, Here)
          /\ (buffer = <<>> \/ Shows(buffer, Len(buffer), terminal_buffer, Here, terminal_row))
        BY <2>1 DEF EchoInv, Printing, Echoed, Echoing, StepBack, Overdraw, BackAgain
    <2>4. \A i \in 1..Len(buffer) : terminal_buffer[Here - Len(buffer) + i - 1] = buffer[i]
        BY <2>3 DEF Shows
    <2>5. \A i \in Here..(VGA_HEIGHT * VGA_WIDTH - 1) :
              i \in Cell /\ i >= Here /\ i < TopRows + VGA_WIDTH
        BY <2>2, Sizes DEF Cell
    <2>. QED  BY <2>3, <2>4, <2>5 DEF BlankFrom
<1>. QED  BY <1>1, <1>2

LEMMA EchoInit == Init => EchoInv
<1>. SUFFICES ASSUME Init PROVE EchoInv
    OBVIOUS
<1>1. initTerminal /\ out = Prompt /\ buffer = <<>> /\ pc = "edit"
    BY DEF Init
<1>2. TtyInv
    BY <1>1, InitTtyInv
<1>3. Screen
    BY <1>1, <1>2, Sizes DEF TtyInv, Screen, initTerminal
<1>4. BlankFrom(terminal_buffer, Here)
    BY <1>1, Sizes DEF initTerminal, BlankFrom, Blank
<1>. QED  BY <1>1, <1>3, <1>4, ShellAssumption DEF EchoInv, Printing

(* Every character keeps the registers in step. *)
LEMMA ScreenKept ==
    ASSUME Screen, NEW ch, terminalPutC(ch), terminal_row' # VGA_HEIGHT
    PROVE  Screen' /\ Settled'
<1>1. TtyTypeOK'
    BY TtyKept DEF Screen
<1>2. Here' < Cells => CursorAgrees'
    BY <1>1, CursorSet
<1>. QED  BY <1>1, <1>2 DEF Screen, Settled

LEMMA PutPrinting ==
    ASSUME Screen, Printing, terminalPutS PROVE EchoInv'
<1>1. /\ out \in Seq(Plain) /\ out # <<>> /\ terminalPutC(Head(out)) /\ out' = Tail(out)
      /\ pc' = pc /\ buffer' = buffer /\ BlankFrom(terminal_buffer, Here)
    BY DEF Printing, terminalPutS, shellvars
<1>2. Head(out) \in Plain /\ out' \in Seq(Plain)
    BY <1>1, HeadTailProperties
<1>3. PICK ch \in Plain : ch = Head(out) /\ terminalPutC(ch)
    BY <1>1, <1>2
<1>4. TtyTypeOK /\ terminal_row # VGA_HEIGHT
    BY DEF Screen
<1>5. BlankFrom(terminal_buffer', Here') /\ terminal_row' # VGA_HEIGHT
    <2>1. CASE ch \in Glyphs
        BY <1>1, <1>3, <1>4, <2>1, GlyphPlace, BlankGlyph
    <2>2. CASE ch = "LF"
        <3>1. /\ NewlineStep /\ terminal_row' # VGA_HEIGHT /\ terminal_row' \in Nat
              /\ terminal_column' \in 0..(VGA_WIDTH - 1)
            BY <1>3, <1>4, <2>2, NewlinePlace
        <3>2. Here' \in Nat
            BY <3>1, Places DEF Here, getCharOffset
        <3>. QED  BY <1>1, <1>4, <3>1, <3>2, BlankNewline
    <2>. QED  BY <2>1, <2>2 DEF Plain
<1>6. Screen' /\ Settled'
    BY <1>3, <1>5, ScreenKept
<1>7. Printing'
    BY <1>1, <1>2, <1>5, <1>6 DEF Printing
<1>. QED  BY <1>6, <1>7 DEF EchoInv

LEMMA PutEchoing ==
    ASSUME LineInv, Screen, Echoing, terminalPutS PROVE EchoInv'
<1>1. /\ buffer \in Seq(Keys) /\ Len(buffer) <= LineMax /\ TtyTypeOK /\ terminal_row # VGA_HEIGHT
      /\ pc' = "edit" /\ buffer' = buffer
    BY DEF LineInv, LineTyped, Screen, Echoing, terminalPutS, shellvars
<1>2. PICK n \in Nat : Len(buffer) = n + 1
    <2>1. Len(buffer) \in Nat /\ Len(buffer) > 0
        BY <1>1, LenProperties DEF Echoing
    <2>2. Len(buffer) - 1 \in Nat /\ Len(buffer) = (Len(buffer) - 1) + 1
        BY <2>1
    <2>. QED  BY <2>2
<1>3. PICK ch \in Glyphs : ch = buffer[n + 1]
    BY <1>1, <1>2, ShellAssumption
<1>4. Head(out) = ch /\ Tail(out) = <<>>
    BY <1>2, <1>3 DEF Echoing
<1>5. terminalPutC(ch) /\ out' = <<>>
    BY <1>4 DEF terminalPutS
<1>6. /\ GlyphStep(ch) /\ terminal_row' # VGA_HEIGHT /\ terminal_row' \in Nat
      /\ terminal_column' \in 0..(VGA_WIDTH - 1)
    BY <1>1, <1>5, GlyphPlace
<1>7. /\ Shows(buffer, n, terminal_buffer, Here, terminal_row)
      /\ BlankFrom(terminal_buffer, Here) /\ Here + 1 < Cells
    <2>1. n = Len(buffer) - 1
        BY <1>2
    <2>. QED  BY <2>1 DEF Echoing
<1>8. Here \in Nat /\ Cells \in Nat
    BY <1>1, PlaceNow, Sizes
<1>9. BlankFrom(terminal_buffer', Here')
    BY <1>1, <1>6, <1>7, BlankGlyph
<1>10. Shows(buffer, n + 1, terminal_buffer', Here', terminal_row')
    BY <1>1, <1>2, <1>3, <1>6, <1>7, <1>8, ShowsGlyph
<1>11. Here' < Cells
    BY <1>6, <1>7, <1>8, Sizes DEF GlyphStep
<1>12. Screen' /\ Settled'
    BY <1>5, <1>6, ScreenKept
<1>13. Echoed'
    BY <1>1, <1>2, <1>5, <1>9, <1>10, <1>11 DEF Echoed
<1>. QED  BY <1>12, <1>13 DEF EchoInv
(* A backspace behind the line: the line stays where it is, and the place  *)
(* it is left from is not the row that is never reached.                   *)
LEMMA BackShows ==
    ASSUME Screen, Settled, Here >= 1, Here < Cells, NEW line, NEW n \in Nat,
           Shows(line, n, terminal_buffer, Here - 1, terminal_row), terminalPutC("BS")
    PROVE  /\ Screen' /\ Settled' /\ Here' = Here - 1 /\ terminal_buffer' = terminal_buffer
           /\ Shows(line, n, terminal_buffer', Here', terminal_row')
           /\ Here # TopRows + VGA_WIDTH
<1>1. TtyTypeOK /\ CursorAgrees /\ terminal_row # VGA_HEIGHT /\ terminal_row \in Nat
    BY DEF Screen, Settled, TtyTypeOK
<1>2. /\ Here' = Here - 1 /\ terminal_buffer' = terminal_buffer /\ terminal_row' \in Nat
      /\ Here - 1 < TopRows + VGA_WIDTH => terminal_row' < VGA_HEIGHT
      /\ Here - 1 >= TopRows + VGA_WIDTH + VGA_WIDTH => terminal_row' > VGA_HEIGHT
    BY <1>1, BackPlace
<1>3. /\ Here \in Nat
      /\ terminal_row < VGA_HEIGHT => Here < TopRows + VGA_WIDTH
      /\ terminal_row > VGA_HEIGHT => Here >= TopRows + VGA_WIDTH + VGA_WIDTH
    BY <1>1, PlaceNow
<1>4. /\ n <= Here - 1 /\ Here - 1 <= Cells
      /\ \A i \in 1..n : terminal_buffer[Here - 1 - n + i - 1] = line[i]
      /\ terminal_row > VGA_HEIGHT => Here - 1 - n >= TopRows + VGA_WIDTH + VGA_WIDTH
    BY DEF Shows
<1>5. CASE terminal_row < VGA_HEIGHT
    <2>1. Here - 1 < TopRows + VGA_WIDTH /\ Here # TopRows + VGA_WIDTH
        BY <1>3, <1>5, Sizes
    <2>2. terminal_row' < VGA_HEIGHT /\ ~(terminal_row' > VGA_HEIGHT) /\ terminal_row' # VGA_HEIGHT
        BY <1>2, <2>1, Sizes
    <2>3. Screen' /\ Settled'
        BY <2>2, ScreenKept
    <2>4. Shows(line, n, terminal_buffer', Here', terminal_row')
        BY <1>2, <1>4, <2>2 DEF Shows
    <2>. QED  BY <1>2, <2>1, <2>3, <2>4
<1>6. CASE terminal_row > VGA_HEIGHT
    <2>1. Here - 1 >= TopRows + VGA_WIDTH + VGA_WIDTH /\ Here # TopRows + VGA_WIDTH
        BY <1>3, <1>4, <1>6, Sizes
    <2>2. terminal_row' > VGA_HEIGHT /\ terminal_row' # VGA_HEIGHT
        BY <1>2, <2>1, Sizes
    <2>3. Screen' /\ Settled'
        BY <2>2, ScreenKept
    <2>4. Shows(line, n, terminal_buffer', Here', terminal_row')
        BY <1>2, <1>4, <1>6 DEF Shows
    <2>. QED  BY <1>2, <2>1, <2>3, <2>4
<1>. QED  BY <1>1, <1>5, <1>6, Sizes

LEMMA PutStepBack ==
    ASSUME LineInv, Screen, Settled, StepBack, terminalPutS PROVE EchoInv'
<1>1. PICK n \in Nat : n = Len(buffer)
    BY LenProperties DEF LineInv, LineTyped
<1>2. Head(out) = "BS" /\ Tail(out) = <<"SP", "BS">>
    BY DEF StepBack
<1>3. terminalPutC("BS") /\ out' = <<"SP", "BS">> /\ pc' = "edit" /\ buffer' = buffer
    BY <1>2 DEF terminalPutS, shellvars, StepBack
<1>4. /\ Here >= 1 /\ Here < Cells /\ Shows(buffer, n, terminal_buffer, Here - 1, terminal_row)
      /\ BlankFrom(terminal_buffer, Here)
    BY <1>1 DEF StepBack
<1>5. /\ Screen' /\ Settled' /\ Here' = Here - 1 /\ terminal_buffer' = terminal_buffer
      /\ Shows(buffer, n, terminal_buffer', Here', terminal_row')
      /\ Here # TopRows + VGA_WIDTH
    BY <1>3, <1>4, BackShows
<1>6. Here' + 1 = Here
    BY <1>5, PlaceNow DEF Screen
<1>7. Overdraw'
    BY <1>1, <1>3, <1>4, <1>5, <1>6 DEF Overdraw
<1>. QED  BY <1>5, <1>7 DEF EchoInv

LEMMA PutBackAgain ==
    ASSUME LineInv, Screen, Settled, BackAgain, terminalPutS PROVE EchoInv'
<1>1. PICK n \in Nat : n = Len(buffer)
    BY LenProperties DEF LineInv, LineTyped
<1>2. Head(out) = "BS" /\ Tail(out) = <<>>
    BY DEF BackAgain
<1>3. terminalPutC("BS") /\ out' = <<>> /\ pc' = "edit" /\ buffer' = buffer
    BY <1>2 DEF terminalPutS, shellvars, BackAgain
<1>4. /\ Here >= 1 /\ Here < Cells /\ Shows(buffer, n, terminal_buffer, Here - 1, terminal_row)
      /\ BlankFrom(terminal_buffer, Here - 1)
    BY <1>1 DEF BackAgain
<1>5. /\ Screen' /\ Settled' /\ Here' = Here - 1 /\ terminal_buffer' = terminal_buffer
      /\ Shows(buffer, n, terminal_buffer', Here', terminal_row')
    BY <1>3, <1>4, BackShows
<1>6. Here' < Cells
    BY <1>4, <1>5, PlaceNow, Sizes DEF Screen
<1>7. Echoed'
    BY <1>1, <1>3, <1>4, <1>5, <1>6 DEF Echoed
<1>. QED  BY <1>5, <1>7 DEF EchoInv

(* The space goes over the character behind the line, and nothing scrolls. *)
LEMMA PutOverdraw ==
    ASSUME LineInv, Screen, Settled, Overdraw, terminalPutS PROVE EchoInv'
<1>1. PICK n \in Nat : n = Len(buffer)
    BY LenProperties DEF LineInv, LineTyped
<1>2. Head(out) = "SP" /\ Tail(out) = <<"BS">>
    BY DEF Overdraw
<1>3. terminalPutC("SP") /\ out' = <<"BS">> /\ pc' = "edit" /\ buffer' = buffer
    BY <1>2 DEF terminalPutS, shellvars, Overdraw
<1>4. /\ Here + 1 < Cells /\ Here + 1 # TopRows + VGA_WIDTH
      /\ Shows(buffer, n, terminal_buffer, Here, terminal_row)
      /\ BlankFrom(terminal_buffer, Here + 1)
    BY <1>1 DEF Overdraw
<1>5. TtyTypeOK /\ terminal_row # VGA_HEIGHT /\ "SP" \in Glyphs
    BY TtyAssumption DEF Screen
<1>6. GlyphStep("SP") /\ terminal_row' # VGA_HEIGHT
    BY <1>3, <1>5, GlyphPlace
<1>7. Screen' /\ Settled'
    BY <1>3, <1>6, ScreenKept
<1>8. Here \in Nat /\ Cells \in Nat /\ Cell = 0..(Cells - 1) /\ Here \in Cell
    BY <1>4, <1>5, PlaceNow, Sizes DEF Cell
<1>9. /\ Here' = Here + 1 /\ terminal_buffer' = Drawn("SP")
      /\ terminal_row' > VGA_HEIGHT => terminal_row > VGA_HEIGHT
    BY <1>4, <1>6, <1>8, Sizes DEF GlyphStep
<1>10. /\ Drawn("SP")[Here] = "SP"
       /\ \A i \in Cell : i # Here => Drawn("SP")[i] = terminal_buffer[i]
    BY <1>5, <1>8, DrawnCells
<1>11. BlankFrom(terminal_buffer', Here)
    <2>1. SUFFICES ASSUME NEW c \in Cell, c >= Here, c < TopRows + VGA_WIDTH
                   PROVE  Drawn("SP")[c] \in Blank
        BY <1>9 DEF BlankFrom
    <2>2. CASE c = Here
        BY <1>10, <2>2 DEF Blank
    <2>3. CASE c # Here
        <3>1. c >= Here + 1
            BY <1>8, <2>1, <2>3
        <3>. QED  BY <1>4, <1>10, <2>1, <2>3, <3>1 DEF BlankFrom
    <2>. QED  BY <2>2, <2>3
<1>12. Shows(buffer, n, terminal_buffer', Here, terminal_row')
    <2>1. /\ n <= Here /\ Here <= Cells
          /\ \A i \in 1..n : terminal_buffer[Here - n + i - 1] = buffer[i]
          /\ terminal_row > VGA_HEIGHT => Here - n >= TopRows + VGA_WIDTH + VGA_WIDTH
        BY <1>4 DEF Shows
    <2>2. ASSUME NEW i \in 1..n PROVE terminal_buffer'[Here - n + i - 1] = buffer[i]
        <3>1. Here - n + i - 1 \in Cell /\ Here - n + i - 1 # Here
            BY <1>8, <2>1
        <3>. QED  BY <1>9, <1>10, <2>1, <3>1
    <2>. QED  BY <1>9, <2>1, <2>2 DEF Shows
<1>13. Here' - 1 = Here /\ Here' >= 1
    BY <1>8, <1>9
<1>14. BackAgain'
    BY <1>1, <1>3, <1>4, <1>9, <1>11, <1>12, <1>13 DEF BackAgain
<1>. QED  BY <1>7, <1>14 DEF EchoInv
-----------------------------------------------------------------------------
(* The keys.  A state in which nothing waits to be printed, while a line   *)
(* is edited, is a line with its echo.                                     *)
LEMMA QuietLine ==
    ASSUME LineInv, EchoInv, pc = "edit", out = <<>>
    PROVE  /\ BlankFrom(terminal_buffer, Here)
           /\ buffer = <<>> \/ Echoed
           /\ Here < Cells => Shows(buffer, Len(buffer), terminal_buffer, Here, terminal_row)
           /\ Settled
<1>1. BlankFrom(terminal_buffer, Here) /\ (buffer = <<>> \/ Echoed) /\ Settled
    BY DEF EchoInv, Printing, Echoed, Echoing, StepBack, Overdraw, BackAgain
<1>2. ASSUME buffer = <<>>, Here < Cells
      PROVE  Shows(buffer, Len(buffer), terminal_buffer, Here, terminal_row)
    <2>1. /\ Here \in Nat /\ Cells \in Nat /\ Len(buffer) = 0
          /\ terminal_row > VGA_HEIGHT => Here >= TopRows + VGA_WIDTH + VGA_WIDTH
        BY <1>2, PlaceNow, Sizes DEF EchoInv, Screen
    <2>. QED  BY <1>2, <2>1 DEF Shows
<1>. QED  BY <1>1, <1>2 DEF Echoed

(* The keys leave the terminal alone. *)
LEMMA ScreenSame ==
    ASSUME UNCHANGED ttyvars
    PROVE  /\ (Screen <=> Screen') /\ (Settled <=> Settled')
           /\ Here' = Here /\ terminal_buffer' = terminal_buffer /\ terminal_row' = terminal_row
<1>1. /\ Here' = Here /\ terminal_buffer' = terminal_buffer /\ terminal_row' = terminal_row
      /\ terminal_column' = terminal_column /\ cursor' = cursor
    BY DEF ttyvars, Here
<1>2. (TtyTypeOK' <=> TtyTypeOK) /\ (CursorAgrees' <=> CursorAgrees)
    BY <1>1 DEF TtyTypeOK, CursorAgrees, ttyGetCursor
<1>. QED  BY <1>1, <1>2 DEF Screen, Settled

LEMMA RoomForKey ==
    ASSUME TtyTypeOK, InMemory PROVE Here + 1 < Cells
<1>1. terminal_row \in Nat /\ terminal_column \in 0..(VGA_WIDTH - 1)
    BY DEF TtyTypeOK
<1>2. PICK r \in Nat : r = terminal_row + 1
    BY <1>1
<1>3. /\ r * VGA_WIDTH = terminal_row * VGA_WIDTH + VGA_WIDTH
      /\ terminal_row * VGA_WIDTH \in Nat
    BY <1>1, <1>2, Places
<1>4. (r + 2) * VGA_WIDTH = r * VGA_WIDTH + VGA_WIDTH + VGA_WIDTH
    <2>1. 0 \in 0..(VGA_WIDTH - 1)
        BY Sizes
    <2>. QED  BY <2>1, Places
<1>5. (r + 2) * VGA_WIDTH <= Cells
    <2>1. r + 2 = terminal_row + 3
        BY <1>1, <1>2
    <2>2. (terminal_row + 3) * VGA_WIDTH + 0 <= Cells
        BY DEF InMemory, getCharOffset
    <2>3. (r + 2) * VGA_WIDTH + 0 <= Cells
        BY <2>1, <2>2
    <2>. QED  BY <1>3, <1>4, <2>3, Sizes
<1>. QED  BY <1>1, <1>3, <1>4, <1>5, PlaceNow, Sizes

LEMMA EchoGlyph ==
    ASSUME LineInv, EchoInv, NEW k \in Keys, KeyGlyph(k) PROVE EchoInv'
<1>1. /\ pc = "edit" /\ out = <<>> /\ InMemory /\ UNCHANGED ttyvars /\ pc' = pc
      /\ out' = <<k>> /\ buffer' = Append(buffer, k)
    BY DEF KeyGlyph, At
<1>2. buffer \in Seq(Keys) /\ TtyTypeOK
    BY DEF LineInv, LineTyped, EchoInv, Screen
<1>3. PICK n \in Nat : n = Len(buffer)
    BY <1>2, LenProperties
<1>4. /\ Len(buffer') = n + 1 /\ buffer'[n + 1] = k
      /\ \A i \in 1..n : buffer'[i] = buffer[i]
    BY <1>1, <1>2, <1>3, AppendProperties
<1>5. Here + 1 < Cells /\ Here \in Nat /\ Cells \in Nat
    BY <1>1, <1>2, RoomForKey, PlaceNow, Sizes
<1>6. Shows(buffer, n, terminal_buffer, Here, terminal_row) /\ BlankFrom(terminal_buffer, Here)
    <2>1. Here < Cells
        BY <1>5
    <2>. QED  BY <1>1, <1>3, <2>1, QuietLine
<1>7. Shows(buffer', n, terminal_buffer, Here, terminal_row)
    BY <1>4, <1>6 DEF Shows
<1>8. /\ Here' = Here /\ terminal_buffer' = terminal_buffer /\ terminal_row' = terminal_row
      /\ Screen' /\ Settled'
    BY <1>1, ScreenSame, QuietLine DEF EchoInv
<1>9. Len(buffer') > 0 /\ Len(buffer') - 1 = n /\ out' = <<buffer'[Len(buffer')]>>
    BY <1>1, <1>3, <1>4
<1>10. Echoing'
    BY <1>1, <1>5, <1>6, <1>7, <1>8, <1>9 DEF Echoing
<1>. QED  BY <1>8, <1>10 DEF EchoInv

LEMMA EchoBackspace ==
    ASSUME LineInv, EchoInv, KeyBackspace PROVE EchoInv'
<1>1. pc = "edit" /\ out = <<>> /\ UNCHANGED ttyvars /\ pc' = pc
    BY DEF KeyBackspace, At
<1>2. /\ Here' = Here /\ terminal_buffer' = terminal_buffer /\ terminal_row' = terminal_row
      /\ Screen' /\ Settled'
    BY <1>1, ScreenSame, QuietLine DEF EchoInv
<1>3. CASE buffer = <<>>
    <2>1. out' = <<>> /\ buffer' = <<>>
        BY <1>1, <1>3 DEF KeyBackspace
    <2>2. BlankFrom(terminal_buffer', Here')
        BY <1>1, <1>2, QuietLine
    <2>3. out' \in Seq(Plain)
        BY <2>1
    <2>4. Printing'
        BY <1>2, <2>1, <2>2, <2>3 DEF Printing
    <2>. QED  BY <1>2, <2>4 DEF EchoInv
<1>4. CASE buffer # <<>>
    <2>1. out' = <<"BS", "SP", "BS">> /\ buffer' = SubSeq(buffer, 1, Len(buffer) - 1)
        BY <1>4 DEF KeyBackspace, Erase
    <2>2. Echoed /\ buffer \in Seq(Keys)
        BY <1>1, <1>4, QuietLine DEF LineInv, LineTyped
    <2>3. PICK n \in Nat : Len(buffer) = n + 1
        <3>1. PICK m \in Nat : m = Len(buffer) /\ m > 0
            BY <1>4, <2>2, EmptySeq, LenProperties
        <3>2. m - 1 \in Nat /\ m = (m - 1) + 1
            BY <3>1
        <3>. QED  BY <3>1, <3>2
    <2>4. Len(buffer') = n /\ \A i \in 1..n : buffer'[i] = buffer[i]
        <3>1. Len(buffer) - 1 = n
            BY <2>3
        <3>2. \A i \in 1..n : buffer[i] \in Keys
            BY <2>2, <2>3, ElementOfSeq
        <3>3. /\ Len(SubSeq(buffer, 1, n)) = IF 1 <= n THEN n - 1 + 1 ELSE 0
              /\ \A i \in 1..(n - 1 + 1) : SubSeq(buffer, 1, n)[i] = buffer[1 + i - 1]
            BY <3>2, SubSeqProperties
        <3>4. \A i \in 1..n : i \in 1..(n - 1 + 1) /\ 1 + i - 1 = i
            OBVIOUS
        <3>5. Len(SubSeq(buffer, 1, n)) = n /\ \A i \in 1..n : SubSeq(buffer, 1, n)[i] = buffer[i]
            BY <3>3, <3>4
        <3>. QED  BY <2>1, <3>1, <3>5
    <2>5. /\ Here < Cells /\ Here \in Nat /\ Cells \in Nat
          /\ n + 1 <= Here
          /\ \A i \in 1..(n + 1) : terminal_buffer[Here - (n + 1) + i - 1] = buffer[i]
          /\ terminal_row > VGA_HEIGHT => Here - (n + 1) >= TopRows + VGA_WIDTH + VGA_WIDTH
          /\ BlankFrom(terminal_buffer, Here)
        BY <2>2, <2>3, PlaceNow, Sizes DEF Echoed, Shows, EchoInv, Screen
    <2>6. Shows(buffer', n, terminal_buffer, Here - 1, terminal_row)
        <3>1. n <= Here - 1 /\ Here - 1 <= Cells /\ Here - 1 - n = Here - (n + 1)
            BY <2>5
        <3>2. ASSUME NEW i \in 1..n PROVE terminal_buffer[Here - 1 - n + i - 1] = buffer'[i]
            <4>1. i \in 1..(n + 1)
                OBVIOUS
            <4>. QED  BY <2>4, <2>5, <3>1, <4>1
        <3>. QED  BY <2>5, <3>1, <3>2 DEF Shows
    <2>7. Here >= 1
        BY <2>5
    <2>8. StepBack'
        BY <1>1, <1>2, <2>1, <2>4, <2>5, <2>6, <2>7 DEF StepBack
    <2>. QED  BY <1>2, <2>8 DEF EchoInv
<1>. QED  BY <1>3, <1>4
LEMMA EchoEnter ==
    ASSUME LineInv, EchoInv, KeyEnter PROVE EchoInv'
<1>1. pc = "edit" /\ out = <<>> /\ UNCHANGED ttyvars /\ pc' = "search" /\ out' = Banner
    BY DEF KeyEnter, At
<1>2. /\ Here' = Here /\ terminal_buffer' = terminal_buffer /\ Screen' /\ Settled'
    BY <1>1, ScreenSame, QuietLine DEF EchoInv
<1>3. BlankFrom(terminal_buffer', Here')
    BY <1>1, <1>2, QuietLine
<1>4. Printing'
    BY <1>1, <1>2, <1>3, ShellAssumption DEF Printing
<1>. QED  BY <1>2, <1>4 DEF EchoInv

(* The line is read by the steps that follow, and the text of the last one *)
(* and the prompt are plain.                                               *)
LEMMA EchoFinish ==
    ASSUME EchoInv, pc # "edit", out = <<>>, UNCHANGED ttyvars,
           NEW text \in Seq(Plain), Finish(text)
    PROVE  EchoInv'
<1>1. /\ Here' = Here /\ terminal_buffer' = terminal_buffer /\ Screen'
      /\ Settled <=> Settled'
    BY ScreenSame DEF EchoInv
<1>2. BlankFrom(terminal_buffer, Here) /\ Settled
    BY DEF EchoInv, Printing, Echoed, Echoing, StepBack, Overdraw, BackAgain
<1>3. out' = text \o Prompt /\ buffer' = <<>>
    BY DEF Finish
<1>4. text \o Prompt \in Seq(Plain)
    <2>1. Prompt \in Seq(Plain)
        BY ShellAssumption
    <2>. QED  BY <2>1, ConcatProperties
<1>5. Printing'
    BY <1>1, <1>2, <1>3, <1>4 DEF Printing
<1>. QED  BY <1>1, <1>5 DEF EchoInv

LEMMA EchoQuiet ==
    ASSUME EchoInv, pc # "edit", out = <<>>, UNCHANGED <<ttyvars, out>>, pc' # "edit"
    PROVE  EchoInv'
<1>1. /\ Here' = Here /\ terminal_buffer' = terminal_buffer /\ Screen'
      /\ Settled <=> Settled'
    BY ScreenSame DEF EchoInv
<1>2. BlankFrom(terminal_buffer, Here) /\ Settled
    BY DEF EchoInv, Printing, Echoed, Echoing, StepBack, Overdraw, BackAgain
<1>3. out' = <<>>
    OBVIOUS
<1>4. out' \in Seq(Plain)
    BY <1>3
<1>5. Printing'
    BY <1>1, <1>2, <1>4 DEF Printing
<1>. QED  BY <1>1, <1>5 DEF EchoInv

LEMMA EchoNext == LineInv /\ EchoInv /\ [Next]_vars => EchoInv'
<1>. SUFFICES ASSUME LineInv, EchoInv, [Next]_vars PROVE EchoInv'
    OBVIOUS
<1>1. CASE terminalPutS
    <2>1. Screen
        BY DEF EchoInv
    <2>2. CASE Echoed
        BY <1>1, <2>2 DEF Echoed, terminalPutS
    <2>. QED  BY <1>1, <2>1, <2>2, PutPrinting, PutEchoing, PutStepBack, PutOverdraw,
                 PutBackAgain DEF EchoInv
<1>2. CASE \E k \in Keys : KeyGlyph(k)
    BY <1>2, EchoGlyph
<1>3. CASE KeyBackspace
    BY <1>3, EchoBackspace
<1>4. CASE KeyEnter
    BY <1>4, EchoEnter
<1>5. CASE Search
    <2>1. pc = "search" /\ out = <<>> /\ UNCHANGED ttyvars
        BY <1>5 DEF Search, At
    <2>2. CASE Finish(NotFound)
        <3>1. NotFound \in Seq(Plain)
            BY ShellAssumption
        <3>. QED  BY <2>1, <2>2, <3>1, EchoFinish
    <2>3. CASE pc' = "split" /\ out' = out
        BY <2>1, <2>3, EchoQuiet
    <2>. QED  BY <1>5, <2>2, <2>3 DEF Search
<1>6. CASE Split
    <2>1. pc = "split" /\ out = <<>> /\ UNCHANGED <<ttyvars, out>> /\ pc' # "edit"
        BY <1>6 DEF Split, At
    <2>. QED  BY <2>1, EchoQuiet
<1>7. CASE Expand
    <2>1. pc = "expand" /\ out = <<>> /\ UNCHANGED <<ttyvars, out>> /\ pc' # "edit"
        BY <1>7 DEF Expand, At
    <2>. QED  BY <2>1, EchoQuiet
<1>8. CASE Call
    <2>1. pc = "expand" /\ out = <<>> /\ UNCHANGED ttyvars
        BY <1>8 DEF Call, At
    <2>2. PICK text \in Outputs : Finish(text)
        BY <1>8 DEF Call
    <2>3. text \in Seq(Plain)
        BY ShellAssumption
    <2>. QED  BY <2>1, <2>2, <2>3, EchoFinish
<1>9. CASE UNCHANGED vars
    <2>1. UNCHANGED <<ttyvars, shellvars, out>>
        BY <1>9 DEF vars
    <2>2. /\ Here' = Here /\ terminal_buffer' = terminal_buffer /\ terminal_row' = terminal_row
          /\ pc' = pc /\ buffer' = buffer /\ out' = out
          /\ Screen' /\ (Settled <=> Settled')
        BY <2>1, ScreenSame DEF shellvars, EchoInv
    <2>. QED  BY <2>2 DEF EchoInv, Printing, Echoed, Echoing, StepBack, Overdraw, BackAgain
<1>. QED  BY <1>1, <1>2, <1>3, <1>4, <1>5, <1>6, <1>7, <1>8, <1>9 DEF Next

(* The line, its arguments, the screen and the text that waits fit         *)
(* together in every state: the inductive invariant of the shell.          *)
THEOREM ShellInvariant == Spec => [](LineInv /\ EchoInv)
<1>1. Init => LineInv /\ EchoInv
    BY LineInit, EchoInit
<1>2. LineInv /\ EchoInv /\ [Next]_vars => (LineInv /\ EchoInv)'
    BY LineNext, EchoNext
<1>. QED  BY <1>1, <1>2, PTL DEF Spec

(* The line stays within its bound, and the row, the column, video memory, *)
(* the registers, the line and its arguments keep their shape.             *)
THEOREM ShellTypes == Spec => []TypeOK
  BY ShellInvariant, EchoShown, PTL

(* What the user sees is the line that will run: whenever the shell waits  *)
(* for a key, the line stands right before the cursor, over line ends,     *)
(* scrolling and backspaces, with only blanks behind it.                   *)
THEOREM EchoIsLine == Spec => []EchoMatches
  BY ShellInvariant, EchoShown, PTL
==============================================================================
