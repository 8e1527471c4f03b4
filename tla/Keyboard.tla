------------------------------- MODULE Keyboard -------------------------------
(***************************************************************************)
(* The keyboard of drivers/src/keyboard.c: the interrupt handler assembles *)
(* scan codes, tracks the shift and caps-lock state and fills a ring       *)
(* buffer; the shell empties it in getchar_from_buffer, one instruction    *)
(* group at a time, with interrupts enabled throughout.                    *)
(*                                                                         *)
(* The handler is one action that may come between any two steps of the    *)
(* reader.  Its gate is a trap gate (idt.c), which leaves interrupts on,   *)
(* but IRQ1 stays in service until pic_acknowledge, after the handler: no  *)
(* second keyboard interrupt nests in it, the timer has no handler, and    *)
(* the interrupted reader goes on only when it has returned.               *)
(*                                                                         *)
(* The controller (i8042), the keys and the timer interrupt that ends a    *)
(* hlt are external: they are modelled from the ports the code reads and   *)
(* the mask initPIC sets.  Keys with a two-byte scan code (prefix 0xe0)    *)
(* are not modelled.  The tables initKBD fills are constants here; module  *)
(* KeyTable has the code's.                                                *)
(***************************************************************************)
EXTENDS Integers, Sequences

CONSTANTS
    KBUF_SIZE,        \* slots of keyboard_buffer, 256 in the code
    ScanCodes,        \* the one-byte make codes of the keyboard's keys
    Keys,             \* the key codes
    scanToKeycode,    \* the key of each scan code: two may share one
    KEY_LSHIFT, KEY_RSHIFT, KEY_CAPS,
    ASCII, altASCII,  \* the characters registerKey stores for each key
    Lower, Upper,     \* the characters 'a'..'z' and 'A'..'Z'
    Burst             \* how many bytes can wait in the controller

NoChar == "NUL"       \* the character 0: nothing is put into the ring

ASSUME KeyboardAssumption ==
    /\ KBUF_SIZE \in Nat /\ KBUF_SIZE >= 2
    /\ \A s \in ScanCodes : scanToKeycode[s] \in Keys
    /\ Burst \in Nat /\ Burst >= 1

VARIABLES
    kbuf_head, kbuf_tail, keyboard_buffer,
    down,       \* the keys whose isPressed is set
    capsLock,
    scan,       \* scanCodeBuffer up to SCBufferHead
    out,        \* bytes waiting in the controller: make or break of a code
    held,       \* the scan codes of the keys the user holds down
    pc,         \* where the reader is in getchar_from_buffer
    c,          \* its local variable, NoChar when out of scope
    got,        \* the last character it returned
    lost        \* history: putchar_to_buffer has dropped a character

ringvars == <<kbuf_head, kbuf_tail, keyboard_buffer, lost>>
keyvars == <<down, capsLock, scan>>
uservars == <<out, held>>
readvars == <<pc, c, got>>
vars == <<ringvars, keyvars, uservars, readvars>>

Char == {ASCII[k] : k \in Keys} \cup {altASCII[k] : k \in Keys}
Byte == [scan : ScanCodes, brk : BOOLEAN]

-----------------------------------------------------------------------------
Init ==
    /\ kbuf_head = 0 /\ kbuf_tail = 0
    /\ keyboard_buffer = [i \in 0..(KBUF_SIZE - 1) |-> NoChar]
    /\ down = {} /\ capsLock = FALSE /\ scan = <<>>
    /\ out = <<>> /\ held = {}
    /\ pc = "busy" /\ c = NoChar /\ got = NoChar
    /\ lost = FALSE

(* The user presses a key, or holds it and the key repeats; lets it go.    *)
press(s) ==
    /\ Len(out) < Burst
    /\ out' = Append(out, [scan |-> s, brk |-> FALSE])
    /\ held' = held \cup {s}
    /\ UNCHANGED <<ringvars, keyvars, readvars>>

release(s) ==
    /\ Len(out) < Burst
    /\ s \in held
    /\ out' = Append(out, [scan |-> s, brk |-> TRUE])
    /\ held' = held \ {s}
    /\ UNCHANGED <<ringvars, keyvars, readvars>>

(* Definitions that end in _bug are deliberately wrong variants of the one *)
(* that follows: what a property must detect if the code were changed so.  *)

isDown(k, pressed) == k \in pressed

getASCII_bug(k, pressed) ==
    IF isDown(KEY_LSHIFT, pressed) \/ isDown(KEY_RSHIFT, pressed) \/ capsLock
    THEN altASCII[k] ELSE ASCII[k]

(* The character of a key under the shift and caps-lock state. *)
getASCII(k, pressed) ==
    IF isDown(KEY_LSHIFT, pressed) \/ isDown(KEY_RSHIFT, pressed)
    THEN IF capsLock /\ altASCII[k] \in Upper THEN ASCII[k] ELSE altASCII[k]
    ELSE IF capsLock /\ ASCII[k] \in Lower THEN altASCII[k] ELSE ASCII[k]

Succ_bug(i) == i + 1

Succ(i) == (i + 1) % KBUF_SIZE

putchar_to_buffer_bug(ch) ==
    /\ keyboard_buffer' = [keyboard_buffer EXCEPT ![kbuf_head] = ch]
    /\ kbuf_head' = Succ(kbuf_head)
    /\ UNCHANGED <<kbuf_tail, lost>>

putchar_to_buffer_bug2(ch) ==
    \/ /\ Succ(Succ(kbuf_head)) # kbuf_tail /\ Succ(kbuf_head) # kbuf_tail
       /\ keyboard_buffer' = [keyboard_buffer EXCEPT ![kbuf_head] = ch]
       /\ kbuf_head' = Succ(kbuf_head)
       /\ UNCHANGED <<kbuf_tail, lost>>
    \/ /\ Succ(Succ(kbuf_head)) = kbuf_tail \/ Succ(kbuf_head) = kbuf_tail
       /\ lost' = TRUE
       /\ UNCHANGED <<kbuf_head, kbuf_tail, keyboard_buffer>>

(* A full ring, one slot short of KBUF_SIZE characters, drops ch. *)
putchar_to_buffer(ch) ==
    \/ /\ Succ(kbuf_head) # kbuf_tail
       /\ keyboard_buffer' = [keyboard_buffer EXCEPT ![kbuf_head] = ch]
       /\ kbuf_head' = Succ(kbuf_head)
       /\ UNCHANGED <<kbuf_tail, lost>>
    \/ /\ Succ(kbuf_head) = kbuf_tail
       /\ lost' = TRUE
       /\ UNCHANGED <<kbuf_head, kbuf_tail, keyboard_buffer>>

keyUp_bug(k) ==
    /\ down' = down
    /\ capsLock' = (IF k = KEY_CAPS THEN ~capsLock ELSE capsLock)
    /\ UNCHANGED ringvars

(* Break code: the key is up; caps lock changes on release. *)
keyUp(k) ==
    /\ down' = down \ {k}
    /\ capsLock' = (IF k = KEY_CAPS THEN ~capsLock ELSE capsLock)
    /\ UNCHANGED ringvars

(* Make code: the key is down and its character, if any, goes to the ring. *)
keyDown(k) ==
    /\ down' = down \cup {k}
    /\ UNCHANGED capsLock
    /\ LET ch == getASCII(k, down \cup {k})
       IN  IF ch # NoChar THEN putchar_to_buffer(ch) ELSE UNCHANGED ringvars

(* The key scanToKeycode gives for an assembled code.  Two or more bytes   *)
(* index past its 512 entries: any key may come out.                       *)
KeyOf(code) == IF Len(code) = 1 THEN {scanToKeycode[code[1].scan]} ELSE Keys

(* An interrupt ends the hlt. *)
Wake == pc' = IF pc = "halted" THEN "test" ELSE pc

(* The handler takes one byte; while the status port says that another one *)
(* waits it only collects, otherwise it handles what it has collected.     *)
KBDinterrupt ==
    /\ out # <<>>
    /\ out' = Tail(out)
    /\ Wake
    /\ UNCHANGED <<held, c, got>>
    /\ LET code == Append(scan, Head(out))
       IN  IF Tail(out) # <<>>
           THEN scan' = code /\ UNCHANGED <<ringvars, down, capsLock>>
           ELSE /\ scan' = <<>>
                /\ \E k \in KeyOf(code) :
                    IF code[Len(code)].brk THEN keyUp(k) ELSE keyDown(k)

Tick_bug == FALSE

(* IRQ0, which initPIC leaves unmasked: it has no handler, but ends a hlt. *)
Tick ==
    /\ pc = "halted"
    /\ Wake
    /\ UNCHANGED <<ringvars, keyvars, uservars, c, got>>

-----------------------------------------------------------------------------
(* getchar_from_buffer: the shell calls it, *)
Call ==
    /\ pc = "busy"
    /\ pc' = "test"
    /\ UNCHANGED <<ringvars, keyvars, uservars, c, got>>

(* compares head and tail, *)
Test ==
    /\ pc = "test"
    /\ pc' = IF kbuf_head = kbuf_tail THEN "hlt" ELSE "load"
    /\ UNCHANGED <<ringvars, keyvars, uservars, c, got>>

(* stops the CPU when they were equal (a key may have come since), *)
Halt ==
    /\ pc = "hlt"
    /\ pc' = "halted"
    /\ UNCHANGED <<ringvars, keyvars, uservars, c, got>>

(* reads the oldest character, *)
Load ==
    /\ pc = "load"
    /\ c' = keyboard_buffer[kbuf_tail]
    /\ pc' = "advance"
    /\ UNCHANGED <<ringvars, keyvars, uservars, got>>

(* gives its slot back and returns. *)
Advance ==
    /\ pc = "advance"
    /\ kbuf_tail' = Succ(kbuf_tail)
    /\ got' = c /\ c' = NoChar
    /\ pc' = "busy"
    /\ UNCHANGED <<kbuf_head, keyboard_buffer, lost, keyvars, uservars>>

Reader == Call \/ Test \/ Halt \/ Load \/ Advance

Next ==
    \/ \E s \in ScanCodes : press(s) \/ release(s)
    \/ KBDinterrupt
    \/ Tick
    \/ Reader

Spec == Init /\ [][Next]_vars

(* The CPU runs the code between interrupts, a pending IRQ1 is served and  *)
(* the timer keeps ticking.                                                *)
FairSpec ==
    /\ Spec
    /\ WF_vars(Reader)
    /\ WF_vars(KBDinterrupt)
    /\ WF_vars(Tick)

-----------------------------------------------------------------------------
TypeOK ==
    /\ kbuf_head \in 0..(KBUF_SIZE - 1)
    /\ kbuf_tail \in 0..(KBUF_SIZE - 1)
    /\ keyboard_buffer \in [0..(KBUF_SIZE - 1) -> Char \cup {NoChar}]
    /\ down \subseteq Keys /\ held \subseteq ScanCodes
    /\ capsLock \in BOOLEAN /\ lost \in BOOLEAN
    /\ scan \in Seq(Byte) /\ out \in Seq(Byte)
    /\ pc \in {"busy", "test", "hlt", "halted", "load", "advance"}
    /\ c \in Char \cup {NoChar} /\ got \in Char \cup {NoChar}

(* The characters between tail and head, oldest first. *)
Waiting == IF kbuf_head >= kbuf_tail
           THEN kbuf_head - kbuf_tail
           ELSE kbuf_head - kbuf_tail + KBUF_SIZE

Slot(i) == IF kbuf_tail + i - 1 < KBUF_SIZE
           THEN kbuf_tail + i - 1
           ELSE kbuf_tail + i - 1 - KBUF_SIZE

Queue == [i \in 1..Waiting |-> keyboard_buffer[Slot(i)]]

Fifo == INSTANCE BoundedFifo WITH Cap <- KBUF_SIZE - 1, q <- Queue

(* Whatever the interrupt does between the reader's steps, the ring of     *)
(* putchar_to_buffer and getchar_from_buffer is a queue: each character is *)
(* delivered once, in order, and one is lost only when KBUF_SIZE - 1 wait. *)
FifoSpec == Fifo!Spec

(* Between the reader's load and its store of kbuf_tail, the slot it read  *)
(* is neither overwritten nor gone: the handler cannot use it.             *)
ReadSlotStable ==
    /\ pc \in {"load", "advance"} => kbuf_head # kbuf_tail
    /\ pc = "advance" => c = keyboard_buffer[kbuf_tail]

(* No other scan code gives the key of s. *)
Own(s) == \A u \in ScanCodes : scanToKeycode[u] = scanToKeycode[s] => u = s

(* The keys d are those of the held codes h, as far as the table tells the *)
(* codes apart.                                                            *)
Agree(d, h) ==
    /\ d \subseteq {scanToKeycode[s] : s \in h}
    /\ \A s \in h : Own(s) => scanToKeycode[s] \in d

(* Once every byte is handled, isPressed is what the user's hands do: no   *)
(* key stays down when nothing that gives it is held (a stuck shift), and  *)
(* none with a scan code of its own is forgotten.                          *)
KeysAgree == out = <<>> /\ scan = <<>> => Agree(down, held)

(* What keyboard.h says of the key codes, a row and a column for each key: *)
(* isDown of a key the user holds is true.                                 *)
NoneForgotten ==
    out = <<>> /\ scan = <<>> => \A s \in held : isDown(scanToKeycode[s], down)

(* The tables of initKBD: a key has a small letter exactly when its second *)
(* character is a capital one, and each shift key has a scan code of its   *)
(* own.                                                                    *)
LetterTable == \A k \in Keys : ASCII[k] \in Lower <=> altASCII[k] \in Upper
ShiftsOwn == \A s \in ScanCodes : scanToKeycode[s] \in {KEY_LSHIFT, KEY_RSHIFT} => Own(s)

(* A typed letter is upper case exactly when one of shift and caps lock    *)
(* is on, any other key gives its second character exactly under shift.    *)
LetterCase ==
    [][\A s \in ScanCodes : (out = <<[scan |-> s, brk |-> FALSE]>> /\ scan = <<>>
                              /\ out' = <<>> /\ kbuf_head' # kbuf_head) =>
        LET k == scanToKeycode[s]
            typed == keyboard_buffer'[kbuf_head]
            shifted == \E u \in held : scanToKeycode[u] \in {KEY_LSHIFT, KEY_RSHIFT}
        IN  typed = IF ASCII[k] \in Lower
                    THEN IF shifted # capsLock THEN altASCII[k] ELSE ASCII[k]
                    ELSE IF shifted THEN altASCII[k] ELSE ASCII[k]]_vars

(* A character in the ring reaches the shell, even one that came between   *)
(* the reader's test and its hlt: the timer wakes it.                      *)
CharDelivered == (kbuf_head # kbuf_tail) ~> (pc = "advance")

(* What the comment in KBDinterrupt says of the point where it handles a   *)
(* scan code: "this is only entered if the whole scan code is in the       *)
(* buffer", the bytes of one key and no others.                            *)
WholeScanCode ==
    [][(out # <<>> /\ out' = <<>>) => scan = <<>>]_vars
===============================================================================
