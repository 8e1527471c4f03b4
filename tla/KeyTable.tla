------------------------------- MODULE KeyTable -------------------------------
(***************************************************************************)
(* The tables initKBD (drivers/src/keyboard.c) fills, one registerKey      *)
(* after the other: a later call for the same scan code or the same key    *)
(* replaces what an earlier one stored.  Control characters and those TLA+ *)
(* does not take in a string are written out; \h1e is 0x1e.                *)
(***************************************************************************)
EXTENDS Integers, Sequences, FiniteSetsExt

NoChar == "NUL"

registerKey(keyCode, scanCode, ascii, alt) ==
    [key |-> keyCode, scan |-> scanCode, ASCII |-> ascii, altASCII |-> alt]

initKBD ==
    << registerKey("KEY_ESC", \h1, NoChar, NoChar),
       registerKey("KEY_F1", \h3b, NoChar, NoChar),
       registerKey("KEY_F2", \h3c, NoChar, NoChar),
       registerKey("KEY_F3", \h3d, NoChar, NoChar),
       registerKey("KEY_F4", \h3e, NoChar, NoChar),
       registerKey("KEY_F5", \h3f, NoChar, NoChar),
       registerKey("KEY_F6", \h40, NoChar, NoChar),
       registerKey("KEY_F7", \h41, NoChar, NoChar),
       registerKey("KEY_F8", \h42, NoChar, NoChar),
       registerKey("KEY_F9", \h43, NoChar, NoChar),
       registerKey("KEY_F10", \h44, NoChar, NoChar),
       registerKey("KEY_F11", \h57, NoChar, NoChar),
       registerKey("KEY_F12", \h58, NoChar, NoChar),
       registerKey("KEY_PRSCR", \he037, NoChar, NoChar),
       registerKey("KEY_INS", \he052, NoChar, NoChar),
       registerKey("KEY_DEL", \he053, NoChar, NoChar),
       registerKey("KEY_GRAVE", \h29, "grave", "~"), registerKey("KEY_1", \h2, "1", "!"),
       registerKey("KEY_2", \h3, "2", "@"), registerKey("KEY_3", \h4, "3", "#"),
       registerKey("KEY_4", \h5, "4", "$"), registerKey("KEY_5", \h6, "5", "%"),
       registerKey("KEY_6", \h7, "6", "^"), registerKey("KEY_7", \h8, "7", "&"),
       registerKey("KEY_8", \h9, "8", "*"), registerKey("KEY_9", \ha, "9", "("),
       registerKey("KEY_0", \hb, "0", ")"), registerKey("KEY_MINUS", \hc, "-", "_"),
       registerKey("KEY_EQU", \hd, "=", "+"),
       registerKey("KEY_BCKSPC", \he, "BS", NoChar),
       registerKey("KEY_TAB", \hf, "TAB", NoChar),
       registerKey("KEY_Q", \h10, "q", "Q"), registerKey("KEY_W", \h11, "w", "W"),
       registerKey("KEY_E", \h12, "e", "E"), registerKey("KEY_R", \h13, "r", "R"),
       registerKey("KEY_T", \h14, "t", "T"), registerKey("KEY_Y", \h15, "y", "Y"),
       registerKey("KEY_U", \h16, "u", "U"), registerKey("KEY_I", \h17, "i", "I"),
       registerKey("KEY_O", \h18, "o", "O"), registerKey("KEY_P", \h19, "p", "P"),
       registerKey("KEY_LBRACKET", \h1a, "[", "{"),
       registerKey("KEY_RBRACKET", \h1b, "]", "}"),
       registerKey("KEY_BSLASH", \h2b, "backslash", "|"),
       registerKey("KEY_CAPS", \h3a, NoChar, NoChar),
       registerKey("KEY_A", \h1e, "a", "A"), registerKey("KEY_S", \h1f, "s", "S"),
       registerKey("KEY_D", \h20, "d", "D"), registerKey("KEY_F", \h21, "f", "F"),
       registerKey("KEY_G", \h22, "g", "G"), registerKey("KEY_H", \h23, "h", "H"),
       registerKey("KEY_J", \h24, "j", "J"), registerKey("KEY_K", \h25, "k", "K"),
       registerKey("KEY_L", \h26, "l", "L"),
       registerKey("KEY_SMICOLON", \h27, ";", ":"),
       registerKey("KEY_BSLASH", \h28, "quote", "dquote"),
       registerKey("KEY_ENTER", \h1c, "LF", NoChar),
       registerKey("KEY_LSHIFT", \h2a, NoChar, NoChar),
       registerKey("KEY_Z", \h2c, "z", "Z"), registerKey("KEY_X", \h2d, "x", "X"),
       registerKey("KEY_C", \h2e, "c", "C"), registerKey("KEY_V", \h2f, "v", "V"),
       registerKey("KEY_B", \h30, "b", "B"), registerKey("KEY_N", \h31, "n", "N"),
       registerKey("KEY_M", \h32, "m", "M"),
       registerKey("KEY_COMMA", \h33, ",", "<"),
       registerKey("KEY_FSTOP", \h34, ".", ">"),
       registerKey("KEY_FSLASH", \h35, "/", "?"),
       registerKey("KEY_RSHIFT", \h36, NoChar, NoChar),
       registerKey("KEY_LCTRL", \h1d, NoChar, NoChar),
       registerKey("KEY_SUPER", \he05b, NoChar, NoChar),
       registerKey("KEY_LALT", \h38, NoChar, NoChar),
       registerKey("KEY_SPACE", \h39, " ", NoChar),
       registerKey("KEY_RALT", \he038, NoChar, NoChar),
       registerKey("KEY_RCTRL", \he01d, NoChar, NoChar),
       registerKey("KEY_MENU", \he05d, NoChar, NoChar),
       registerKey("KEY_LEFT", \he04b, NoChar, NoChar),
       registerKey("KEY_HOME", \he047, NoChar, NoChar),
       registerKey("KEY_UP", \he048, NoChar, NoChar),
       registerKey("KEY_PGUP", \he049, NoChar, NoChar),
       registerKey("KEY_DOWN", \he050, NoChar, NoChar),
       registerKey("KEY_PGDOWN", \he051, NoChar, NoChar),
       registerKey("KEY_RIGHT", \he04d, NoChar, NoChar),
       registerKey("KEY_END", \he04f, NoChar, NoChar) >>

Calls == DOMAIN initKBD
Key_codes == {initKBD[i].key : i \in Calls}

(* The 512 entries.  One no call stores into is 0, which is KEY_ESC; the   *)
(* codes with a prefix 0xe0 are stored past the end.                       *)
initScanToKeycode ==
    [s \in 0..511 |->
        LET calls == {i \in Calls : initKBD[i].scan = s}
        IN  IF calls = {} THEN "KEY_ESC" ELSE initKBD[Max(calls)].key]

(* keys[k], as the last call for key k leaves it. *)
keys == [k \in Key_codes |-> initKBD[Max({i \in Calls : initKBD[i].key = k})]]
===============================================================================
