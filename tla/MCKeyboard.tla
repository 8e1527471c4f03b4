------------------------------ MODULE MCKeyboard ------------------------------
(* Instances for TLC, with the tables of initKBD.  For the ring: the keys  *)
(* A, space, left shift and caps lock.  For the key state: A, backslash    *)
(* (2b) and quote (28), which have one key code, both shifts and caps lock.*)
EXTENDS Keyboard

Table == INSTANCE KeyTable

MCKeys == Table!Key_codes
MCscanToKeycode == Table!initScanToKeycode
MCASCII == [k \in MCKeys |-> Table!keys[k].ASCII]
MCaltASCII == [k \in MCKeys |-> Table!keys[k].altASCII]
MCRingCodes == {\h1e, \h39, \h2a, \h3a}
MCHandsCodes == {\h1e, \h2b, \h28, \h2a, \h36, \h3a}
MCLower == {"a", "b", "c", "d", "e", "f", "g", "h", "i", "j", "k", "l", "m",
            "n", "o", "p", "q", "r", "s", "t", "u", "v", "w", "x", "y", "z"}
MCUpper == {"A", "B", "C", "D", "E", "F", "G", "H", "I", "J", "K", "L", "M",
            "N", "O", "P", "Q", "R", "S", "T", "U", "V", "W", "X", "Y", "Z"}

(* What the theorem on letters asks of the tables holds of initKBD's, over *)
(* every one-byte code and not only the run's.                             *)
ASSUME InitKBDTables ==
    /\ LetterTable
    /\ \A s, u \in 1..127 :
        (scanToKeycode[s] = scanToKeycode[u] /\ s # u) =>
            scanToKeycode[s] \notin {KEY_LSHIFT, KEY_RSHIFT}
===============================================================================
