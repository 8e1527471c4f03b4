--------------------------- MODULE KeyboardProofs ---------------------------
(***************************************************************************)
(* Proofs about the keyboard driver, for every size of the ring and every  *)
(* key table.                                                              *)
(***************************************************************************)
EXTENDS Keyboard, SequenceTheorems, TLAPS

(* Succ stays in the ring and goes back to 0 at its end. *)
LEMMA SuccFacts ==
    ASSUME NEW i \in 0..(KBUF_SIZE - 1)
    PROVE  /\ Succ(i) \in 0..(KBUF_SIZE - 1)
           /\ Succ(i) = IF i + 1 = KBUF_SIZE THEN 0 ELSE i + 1
           /\ Succ(i) # i
  BY KeyboardAssumption DEF Succ

(* A key's character is one of the key table. *)
LEMMA CharOfKey ==
    ASSUME NEW k \in Keys, NEW pressed
    PROVE  getASCII(k, pressed) \in Char
  BY DEF getASCII, Char

(* The key table gives a key of the table for every assembled code. *)
LEMMA KeyOfType ==
    ASSUME NEW code \in Seq(Byte), Len(code) > 0
    PROVE  KeyOf(code) \subseteq Keys
<1>1. code[1] \in Byte
  OBVIOUS
<1>2. code[1].scan \in ScanCodes
  BY <1>1 DEF Byte
<1>3. scanToKeycode[code[1].scan] \in Keys
  BY <1>2, KeyboardAssumption
<1> QED BY <1>3 DEF KeyOf

-----------------------------------------------------------------------------
(* The three things the handler can do to the ring. *)
Untouched == UNCHANGED ringvars
Stored == \E ch \in Char :
    /\ Succ(kbuf_head) # kbuf_tail
    /\ keyboard_buffer' = [keyboard_buffer EXCEPT ![kbuf_head] = ch]
    /\ kbuf_head' = Succ(kbuf_head)
    /\ UNCHANGED <<kbuf_tail, lost>>
Dropped ==
    /\ Succ(kbuf_head) = kbuf_tail
    /\ lost' = TRUE
    /\ UNCHANGED <<kbuf_head, kbuf_tail, keyboard_buffer>>

(* What an interrupt changes, and what it leaves alone. *)
LEMMA InterruptEffect ==
    ASSUME TypeOK, KBDinterrupt
    PROVE  /\ Untouched \/ Stored \/ Dropped
           /\ down' \subseteq Keys
           /\ capsLock' \in BOOLEAN
           /\ scan' \in Seq(Byte) /\ out' \in Seq(Byte)
           /\ pc' = (IF pc = "halted" THEN "test" ELSE pc)
           /\ UNCHANGED <<held, c, got>>
<1> DEFINE code == Append(scan, Head(out))
<1>1. /\ out # <<>> /\ out' = Tail(out)
      /\ out \in Seq(Byte) /\ scan \in Seq(Byte)
      /\ down \subseteq Keys /\ capsLock \in BOOLEAN
  BY DEF KBDinterrupt, TypeOK
<1>2. Head(out) \in Byte /\ out' \in Seq(Byte)
  BY <1>1
<1>3. code \in Seq(Byte) /\ Len(code) > 0
  BY <1>1, <1>2
<1>4. CASE Tail(out) # <<>>
  <2>1. Untouched /\ down' = down /\ capsLock' = capsLock /\ scan' = code
    BY <1>4 DEF KBDinterrupt, Untouched
  <2> QED BY <1>1, <1>2, <1>3, <2>1 DEF KBDinterrupt, Wake
<1>5. CASE Tail(out) = <<>>
  <2>1. PICK k \in KeyOf(code) : IF code[Len(code)].brk THEN keyUp(k) ELSE keyDown(k)
    BY <1>5 DEF KBDinterrupt
  <2>2. scan' = <<>>
    BY <1>5 DEF KBDinterrupt
  <2> HIDE DEF code
  <2>3. k \in Keys
    BY <1>3, <2>1, KeyOfType
  <2>4. CASE keyUp(k)
    <3>1. Untouched /\ down' = down \ {k} /\ capsLock' = (IF k = KEY_CAPS THEN ~capsLock ELSE capsLock)
      BY <2>4 DEF keyUp, Untouched
    <3>2. capsLock' \in BOOLEAN
      BY <3>1, <1>1
    <3> QED BY <1>1, <1>2, <2>2, <3>1, <3>2 DEF KBDinterrupt, Wake
  <2>5. CASE keyDown(k)
    <3> DEFINE ch == getASCII(k, down \cup {k})
    <3>1. down' = down \cup {k} /\ capsLock' = capsLock
      BY <2>5 DEF keyDown
    <3>2. IF ch # NoChar THEN putchar_to_buffer(ch) ELSE UNCHANGED ringvars
      BY <2>5 DEF keyDown
    <3>3. ch \in Char
      BY <2>3, CharOfKey
    <3> HIDE DEF ch
    <3>4. Untouched \/ Stored \/ Dropped
      BY <3>2, <3>3 DEF putchar_to_buffer, Untouched, Stored, Dropped
    <3> QED BY <1>1, <1>2, <2>2, <2>3, <3>1, <3>4 DEF KBDinterrupt, Wake
  <2> QED BY <2>1, <2>4, <2>5
<1> QED BY <1>4, <1>5

-----------------------------------------------------------------------------
RingInv == TypeOK /\ ReadSlotStable

(* The ring is empty and nothing is read at the start. *)
THEOREM InitRingInv == Init => RingInv
<1> SUFFICES ASSUME Init PROVE RingInv
  OBVIOUS
<1>1. kbuf_head \in 0..(KBUF_SIZE - 1) /\ kbuf_tail \in 0..(KBUF_SIZE - 1)
  BY KeyboardAssumption DEF Init
<1>2. keyboard_buffer \in [0..(KBUF_SIZE - 1) -> Char \cup {NoChar}]
  BY DEF Init
<1>3. capsLock \in BOOLEAN /\ lost \in BOOLEAN
  BY DEF Init
<1>4. scan \in Seq(Byte) /\ out \in Seq(Byte)
  BY DEF Init
<1>5. TypeOK
  BY <1>1, <1>2, <1>3, <1>4 DEF Init, TypeOK
<1>6. ReadSlotStable
  BY DEF Init, ReadSlotStable
<1> QED BY <1>5, <1>6 DEF RingInv

(* An interrupt between any two steps of the reader keeps the invariant. *)
LEMMA InterruptKeepsRing ==
    ASSUME RingInv, KBDinterrupt
    PROVE  RingInv'
<1>1. TypeOK /\ ReadSlotStable
  BY DEF RingInv
<1>2. /\ kbuf_head \in 0..(KBUF_SIZE - 1) /\ kbuf_tail \in 0..(KBUF_SIZE - 1)
      /\ keyboard_buffer \in [0..(KBUF_SIZE - 1) -> Char \cup {NoChar}]
      /\ held \subseteq ScanCodes /\ lost \in BOOLEAN
      /\ pc \in {"busy", "test", "hlt", "halted", "load", "advance"}
      /\ c \in Char \cup {NoChar} /\ got \in Char \cup {NoChar}
  BY <1>1 DEF TypeOK
<1>3. /\ Untouched \/ Stored \/ Dropped
      /\ down' \subseteq Keys /\ capsLock' \in BOOLEAN
      /\ scan' \in Seq(Byte) /\ out' \in Seq(Byte)
      /\ pc' = (IF pc = "halted" THEN "test" ELSE pc)
      /\ held' = held /\ c' = c /\ got' = got
  BY <1>1, InterruptEffect
<1>4. kbuf_tail' = kbuf_tail
  BY <1>3 DEF Untouched, Stored, Dropped, ringvars
<1>5. kbuf_head' \in 0..(KBUF_SIZE - 1)
  BY <1>2, <1>3, SuccFacts DEF Untouched, Stored, Dropped, ringvars
<1>6. keyboard_buffer' \in [0..(KBUF_SIZE - 1) -> Char \cup {NoChar}]
  BY <1>2, <1>3 DEF Untouched, Stored, Dropped, ringvars
<1>7. lost' \in BOOLEAN
  BY <1>2, <1>3 DEF Untouched, Stored, Dropped, ringvars
<1>8. pc' \in {"busy", "test", "hlt", "halted", "load", "advance"}
  BY <1>2, <1>3
<1>9. TypeOK'
  BY <1>2, <1>3, <1>4, <1>5, <1>6, <1>7, <1>8 DEF TypeOK
<1>10. kbuf_head # kbuf_tail =>
          kbuf_head' # kbuf_tail /\ keyboard_buffer'[kbuf_tail] = keyboard_buffer[kbuf_tail]
  BY <1>2, <1>3 DEF Untouched, Stored, Dropped, ringvars
<1>11. ReadSlotStable'
  BY <1>1, <1>3, <1>4, <1>10 DEF ReadSlotStable
<1> QED BY <1>9, <1>11 DEF RingInv

(* Every step of the handler, the reader and the user keeps the invariant. *)
THEOREM NextRingInv ==
    ASSUME RingInv, [Next]_vars
    PROVE  RingInv'
<1>1. TypeOK /\ ReadSlotStable
  BY DEF RingInv
<1>2. CASE UNCHANGED vars
  <2>1. UNCHANGED ringvars /\ UNCHANGED keyvars /\ UNCHANGED uservars /\ UNCHANGED readvars
    BY <1>2 DEF vars
  <2> QED BY <1>1, <2>1
        DEF ringvars, keyvars, uservars, readvars, RingInv, TypeOK, ReadSlotStable
<1>3. ASSUME NEW s \in ScanCodes, press(s) \/ release(s) PROVE RingInv'
  <2>1. UNCHANGED ringvars /\ UNCHANGED keyvars /\ UNCHANGED readvars /\ held' \subseteq ScanCodes
    BY <1>1, <1>3 DEF press, release, TypeOK
  <2>2. out' \in Seq(Byte)
    <3>1. \E b \in Byte : out' = Append(out, b)
      BY <1>3 DEF press, release, Byte
    <3> QED BY <1>1, <3>1 DEF TypeOK
  <2> QED BY <1>1, <2>1, <2>2 DEF ringvars, keyvars, readvars, RingInv, TypeOK, ReadSlotStable
<1>4. CASE KBDinterrupt
  BY <1>4, InterruptKeepsRing
<1>5. CASE Tick
  BY <1>1, <1>5 DEF Tick, Wake, ringvars, keyvars, uservars, RingInv, TypeOK, ReadSlotStable
<1>6. CASE Call \/ Test \/ Halt
  BY <1>1, <1>6 DEF Call, Test, Halt, ringvars, keyvars, uservars, RingInv, TypeOK, ReadSlotStable
<1>7. CASE Load
  <2>1. c' \in Char \cup {NoChar}
    BY <1>1, <1>7 DEF Load, TypeOK
  <2> QED BY <1>1, <1>7, <2>1 DEF Load, ringvars, keyvars, uservars, RingInv, TypeOK, ReadSlotStable
<1>8. CASE Advance
  <2>1. kbuf_tail' \in 0..(KBUF_SIZE - 1)
    BY <1>1, <1>8, SuccFacts DEF Advance, TypeOK
  <2> QED BY <1>1, <1>8, <2>1 DEF Advance, keyvars, uservars, RingInv, TypeOK, ReadSlotStable
<1> QED BY <1>2, <1>3, <1>4, <1>5, <1>6, <1>7, <1>8 DEF Next, Reader

(* The strengthened invariant holds in every reachable state. *)
THEOREM RingInvariant == Spec => []RingInv
<1>1. Init => RingInv
  BY InitRingInv
<1>2. RingInv /\ [Next]_vars => RingInv'
  BY NextRingInv
<1> QED BY <1>1, <1>2, PTL DEF Spec

(* Indices stay inside keyboard_buffer whatever its size. *)
THEOREM KeyboardTypeCorrect == Spec => []TypeOK
<1>1. RingInv => TypeOK
  BY DEF RingInv
<1> QED BY <1>1, RingInvariant, PTL

(* The handler never touches the slot the reader is taking. *)
THEOREM ReadSlotNeverOverwritten == Spec => []ReadSlotStable
<1>1. RingInv => ReadSlotStable
  BY DEF RingInv
<1> QED BY <1>1, RingInvariant, PTL

-----------------------------------------------------------------------------
(* The queue in the ring, for head h and tail t. *)
LEMMA QueueFacts ==
    ASSUME TypeOK
    PROVE  /\ Waiting \in 0..(KBUF_SIZE - 1)
           /\ Waiting = 0 <=> kbuf_head = kbuf_tail
           /\ Waiting = KBUF_SIZE - 1 <=> Succ(kbuf_head) = kbuf_tail
           /\ \A i \in 1..KBUF_SIZE : Slot(i) \in 0..(KBUF_SIZE - 1)
           /\ Slot(1) = kbuf_tail
           /\ \A i \in 1..KBUF_SIZE : Slot(i) = kbuf_head => i = Waiting + 1 \/ Waiting = 0
           /\ Slot(Waiting + 1) = kbuf_head
           /\ Queue \in Seq(Char \cup {NoChar})
           /\ Len(Queue) = Waiting
           /\ \A i \in 1..Waiting : Queue[i] = keyboard_buffer[Slot(i)]
<1>1. /\ kbuf_head \in 0..(KBUF_SIZE - 1) /\ kbuf_tail \in 0..(KBUF_SIZE - 1)
      /\ keyboard_buffer \in [0..(KBUF_SIZE - 1) -> Char \cup {NoChar}]
  BY DEF TypeOK
<1>2. Succ(kbuf_head) = IF kbuf_head + 1 = KBUF_SIZE THEN 0 ELSE kbuf_head + 1
  BY <1>1, SuccFacts
<1>3. /\ Waiting \in 0..(KBUF_SIZE - 1)
      /\ Waiting = 0 <=> kbuf_head = kbuf_tail
      /\ Waiting = KBUF_SIZE - 1 <=> Succ(kbuf_head) = kbuf_tail
  BY <1>1, <1>2, KeyboardAssumption DEF Waiting
<1>4. /\ \A i \in 1..KBUF_SIZE : Slot(i) \in 0..(KBUF_SIZE - 1)
      /\ Slot(1) = kbuf_tail
  BY <1>1, KeyboardAssumption DEF Slot
<1>5. /\ \A i \in 1..KBUF_SIZE : Slot(i) = kbuf_head => i = Waiting + 1 \/ Waiting = 0
      /\ Slot(Waiting + 1) = kbuf_head
  BY <1>1, KeyboardAssumption DEF Slot, Waiting
<1>6. \A i \in 1..Waiting : keyboard_buffer[Slot(i)] \in Char \cup {NoChar}
  BY <1>1, <1>3, <1>4, KeyboardAssumption
<1>7. /\ Queue \in Seq(Char \cup {NoChar})
      /\ Len(Queue) = Waiting
      /\ \A i \in 1..Waiting : Queue[i] = keyboard_buffer[Slot(i)]
  BY <1>3, <1>6 DEF Queue
<1> QED BY <1>3, <1>4, <1>5, <1>7

(* The same, in a form that can be used of the next state. *)
QueueShape ==
    /\ Queue \in Seq(Char \cup {NoChar})
    /\ Len(Queue) = Waiting
    /\ \A i \in 1..Waiting : Queue[i] = keyboard_buffer[Slot(i)]

LEMMA QueueShaped == TypeOK => QueueShape
  BY QueueFacts DEF QueueShape

(* A stored character is appended to the queue. *)
LEMMA StoredIsPut ==
    ASSUME RingInv, RingInv', Stored, got' = got
    PROVE  Fifo!Put
<1>1. PICK ch \in Char :
        /\ Succ(kbuf_head) # kbuf_tail
        /\ keyboard_buffer' = [keyboard_buffer EXCEPT ![kbuf_head] = ch]
        /\ kbuf_head' = Succ(kbuf_head)
        /\ kbuf_tail' = kbuf_tail /\ lost' = lost
  BY DEF Stored
<1> DEFINE w == Waiting
<1>2. /\ kbuf_head \in 0..(KBUF_SIZE - 1) /\ kbuf_tail \in 0..(KBUF_SIZE - 1)
      /\ keyboard_buffer \in [0..(KBUF_SIZE - 1) -> Char \cup {NoChar}]
  BY DEF RingInv, TypeOK
<1>3. /\ w \in 0..(KBUF_SIZE - 1) /\ w # KBUF_SIZE - 1
      /\ Queue \in Seq(Char \cup {NoChar}) /\ Len(Queue) = w
      /\ \A i \in 1..w : Queue[i] = keyboard_buffer[Slot(i)]
      /\ \A i \in 1..KBUF_SIZE : Slot(i) \in 0..(KBUF_SIZE - 1)
      /\ \A i \in 1..KBUF_SIZE : Slot(i) = kbuf_head => i = w + 1 \/ w = 0
      /\ Slot(w + 1) = kbuf_head
  BY <1>1, QueueFacts DEF RingInv
<1>4. Waiting' = w + 1
  <2>1. kbuf_head' = IF kbuf_head + 1 = KBUF_SIZE THEN 0 ELSE kbuf_head + 1
    BY <1>1, <1>2, SuccFacts
  <2>2. Succ(kbuf_head) = IF kbuf_head + 1 = KBUF_SIZE THEN 0 ELSE kbuf_head + 1
    BY <1>2, SuccFacts
  <2>3. Waiting' = IF kbuf_head' >= kbuf_tail
                   THEN kbuf_head' - kbuf_tail
                   ELSE kbuf_head' - kbuf_tail + KBUF_SIZE
    BY <1>1 DEF Waiting
  <2>4. CASE kbuf_head + 1 = KBUF_SIZE
    BY <1>1, <1>2, <2>1, <2>2, <2>3, <2>4, KeyboardAssumption DEF Waiting
  <2>5. CASE kbuf_head + 1 # KBUF_SIZE
    BY <1>1, <1>2, <2>1, <2>2, <2>3, <2>5, KeyboardAssumption DEF Waiting
  <2> QED BY <2>4, <2>5
<1>5. \A i \in 1..KBUF_SIZE : Slot(i)' = Slot(i)
  BY <1>1 DEF Slot
<1>6. /\ Queue' \in Seq(Char \cup {NoChar}) /\ Len(Queue') = w + 1
      /\ \A i \in 1..(w + 1) : Queue'[i] = keyboard_buffer'[Slot(i)']
  <2>1. (TypeOK)'
    BY DEF RingInv
  <2>2. QueueShape'
    BY <2>1, QueueShaped, PTL
  <2> QED BY <1>4, <2>2 DEF QueueShape
<1> HIDE DEF w
<1>7. \A i \in 1..w : Queue'[i] = Queue[i]
  <2> SUFFICES ASSUME NEW i \in 1..w PROVE Queue'[i] = Queue[i]
    OBVIOUS
  <2>1. i \in 1..KBUF_SIZE /\ i \in 1..(w + 1) /\ i # w + 1 /\ w # 0
    BY <1>3, KeyboardAssumption
  <2>2. Slot(i) # kbuf_head /\ Slot(i) \in 0..(KBUF_SIZE - 1)
    BY <1>3, <2>1
  <2>3. Queue'[i] = keyboard_buffer'[Slot(i)]
    BY <1>5, <1>6, <2>1
  <2>4. keyboard_buffer'[Slot(i)] = keyboard_buffer[Slot(i)]
    BY <1>1, <1>2, <2>2
  <2> QED BY <1>3, <2>3, <2>4
<1>8. Queue'[w + 1] = ch
  <2>1. w + 1 \in 1..KBUF_SIZE /\ w + 1 \in 1..(w + 1)
    BY <1>3, KeyboardAssumption
  <2> QED BY <1>1, <1>2, <1>3, <1>5, <1>6, <2>1
<1>9. Queue' = Append(Queue, ch)
  <2>1. /\ Append(Queue, ch) \in Seq(Char \cup {NoChar})
        /\ Len(Append(Queue, ch)) = w + 1
        /\ \A i \in 1..(w + 1) : Append(Queue, ch)[i] = IF i = w + 1 THEN ch ELSE Queue[i]
    BY <1>3
  <2>2. \A i \in 1..(w + 1) : Queue'[i] = Append(Queue, ch)[i]
    BY <1>3, <1>7, <1>8, <2>1
  <2> QED BY <1>6, <2>1, <2>2, SeqEqual
<1>10. Len(Queue) < KBUF_SIZE - 1
  BY <1>3, KeyboardAssumption
<1> QED BY <1>1, <1>9, <1>10 DEF Fifo!Put

(* The reader's last step takes the head of the queue. *)
LEMMA AdvanceIsTake ==
    ASSUME RingInv, RingInv', Advance
    PROVE  Fifo!Take
<1> DEFINE w == Waiting
<1>1. /\ kbuf_head \in 0..(KBUF_SIZE - 1) /\ kbuf_tail \in 0..(KBUF_SIZE - 1)
      /\ kbuf_head # kbuf_tail /\ c = keyboard_buffer[kbuf_tail]
  BY DEF RingInv, TypeOK, ReadSlotStable, Advance
<1>2. /\ kbuf_tail' = Succ(kbuf_tail) /\ got' = c
      /\ kbuf_head' = kbuf_head /\ keyboard_buffer' = keyboard_buffer /\ lost' = lost
  BY DEF Advance
<1>3. kbuf_tail' = IF kbuf_tail + 1 = KBUF_SIZE THEN 0 ELSE kbuf_tail + 1
  BY <1>1, <1>2, SuccFacts
<1>4. /\ w \in 0..(KBUF_SIZE - 1) /\ w # 0
      /\ Queue \in Seq(Char \cup {NoChar}) /\ Len(Queue) = w
      /\ \A i \in 1..w : Queue[i] = keyboard_buffer[Slot(i)]
      /\ Slot(1) = kbuf_tail
  BY <1>1, QueueFacts DEF RingInv
<1>5. Waiting' = w - 1
  <2>1. Waiting' = IF kbuf_head >= kbuf_tail'
                   THEN kbuf_head - kbuf_tail'
                   ELSE kbuf_head - kbuf_tail' + KBUF_SIZE
    BY <1>2 DEF Waiting
  <2>2. CASE kbuf_tail + 1 = KBUF_SIZE
    BY <1>1, <1>3, <2>1, <2>2, KeyboardAssumption DEF Waiting
  <2>3. CASE kbuf_tail + 1 # KBUF_SIZE
    BY <1>1, <1>3, <2>1, <2>3, KeyboardAssumption DEF Waiting
  <2> QED BY <2>2, <2>3
<1>6. \A i \in 1..(KBUF_SIZE - 1) : Slot(i)' = Slot(i + 1)
  <2> SUFFICES ASSUME NEW i \in 1..(KBUF_SIZE - 1) PROVE Slot(i)' = Slot(i + 1)
    OBVIOUS
  <2>1. Slot(i)' = IF kbuf_tail' + i - 1 < KBUF_SIZE
                   THEN kbuf_tail' + i - 1
                   ELSE kbuf_tail' + i - 1 - KBUF_SIZE
    BY DEF Slot
  <2>2. CASE kbuf_tail + 1 = KBUF_SIZE
    BY <1>1, <1>3, <2>1, <2>2, KeyboardAssumption DEF Slot
  <2>3. CASE kbuf_tail + 1 # KBUF_SIZE
    BY <1>1, <1>3, <2>1, <2>3, KeyboardAssumption DEF Slot
  <2> QED BY <2>2, <2>3
<1>7. /\ Queue' \in Seq(Char \cup {NoChar}) /\ Len(Queue') = w - 1
      /\ \A i \in 1..(w - 1) : Queue'[i] = keyboard_buffer[Slot(i)']
  <2>1. (TypeOK)'
    BY DEF RingInv
  <2>2. QueueShape'
    BY <2>1, QueueShaped, PTL
  <2> QED BY <1>2, <1>5, <2>2 DEF QueueShape
<1> HIDE DEF w
<1>8. Queue # <<>> /\ Head(Queue) = c
  <2>1. 1 \in 1..w
    BY <1>4
  <2>2. Queue[1] = c
    BY <1>1, <1>4, <2>1
  <2> QED BY <1>4, <2>2
<1>9. Queue' = Tail(Queue)
  <2>1. /\ Tail(Queue) \in Seq(Char \cup {NoChar})
        /\ Len(Tail(Queue)) = w - 1
        /\ \A i \in 1..(w - 1) : Tail(Queue)[i] = Queue[i + 1]
    BY <1>4, <1>8
  <2>2. \A i \in 1..(w - 1) : Queue'[i] = Tail(Queue)[i]
    <3> SUFFICES ASSUME NEW i \in 1..(w - 1) PROVE Queue'[i] = Tail(Queue)[i]
      OBVIOUS
    <3>1. i \in 1..(KBUF_SIZE - 1) /\ i + 1 \in 1..w
      BY <1>4, KeyboardAssumption
    <3> QED BY <1>4, <1>6, <1>7, <2>1, <3>1
  <2> QED BY <1>7, <2>1, <2>2, SeqEqual
<1> QED BY <1>2, <1>8, <1>9 DEF Fifo!Take

(* Steps that leave the ring and the delivered character alone. *)
LEMMA RingUntouched ==
    ASSUME UNCHANGED ringvars, got' = got
    PROVE  UNCHANGED Fifo!vars
  BY DEF ringvars, Fifo!vars, Queue, Waiting, Slot

(* Every step of the keyboard is a step of the queue, or changes nothing.  *)
LEMMA StepIsFifoStep ==
    ASSUME RingInv, RingInv', [Next]_vars
    PROVE  [Fifo!Next]_(Fifo!vars)
<1>1. CASE KBDinterrupt
  <2>1. (Untouched \/ Stored \/ Dropped) /\ got' = got
    BY <1>1, InterruptEffect DEF RingInv
  <2>2. CASE Untouched
    BY <2>1, <2>2, RingUntouched DEF Untouched
  <2>3. CASE Stored
    BY <2>1, <2>3, StoredIsPut DEF Fifo!Next
  <2>4. CASE Dropped
    <3>1. Len(Queue) = KBUF_SIZE - 1
      BY <2>4, QueueFacts DEF RingInv, Dropped
    <3>2. Queue' = Queue
      BY <2>4 DEF Dropped, Queue, Waiting, Slot
    <3> QED BY <2>1, <2>4, <3>1, <3>2 DEF Dropped, Fifo!Drop, Fifo!Next
  <2> QED BY <2>1, <2>2, <2>3, <2>4
<1>2. CASE Advance
  BY <1>2, AdvanceIsTake DEF Fifo!Next
<1>3. CASE ~KBDinterrupt /\ ~Advance
  <2>1. UNCHANGED ringvars /\ got' = got
    BY <1>3 DEF Next, Reader, press, release, Tick, Call, Test, Halt, Load, vars, readvars
  <2> QED BY <2>1, RingUntouched
<1> QED BY <1>1, <1>2, <1>3

(* The ring of the driver, used by the handler and the reader without any  *)
(* lock, implements a queue of KBUF_SIZE - 1 characters.                   *)
THEOREM RingIsFifo == Spec => FifoSpec
<1>1. Init => Fifo!Init
  <2> SUFFICES ASSUME Init PROVE Fifo!Init
    OBVIOUS
  <2>1. TypeOK
    BY InitRingInv DEF RingInv
  <2>2. Queue \in Seq(Char \cup {NoChar}) /\ Len(Queue) = 0
    BY <2>1, QueueFacts DEF Init
  <2> QED BY <2>2 DEF Init, Fifo!Init
<1>2. RingInv /\ RingInv' /\ [Next]_vars => [Fifo!Next]_(Fifo!vars)
  BY StepIsFifoStep
<1> QED BY <1>1, <1>2, RingInvariant, PTL DEF Spec, FifoSpec, Fifo!Spec
-----------------------------------------------------------------------------
(* When the controller never holds two bytes at once (Burst = 1), at most  *)
(* one byte separates what the user does from what the driver knows.       *)
HandsInv ==
    /\ scan = <<>> /\ held \subseteq ScanCodes
    /\ out = <<>> => Agree(down, held)
    /\ out # <<>> => LET b == Head(out)
                         k == scanToKeycode[b.scan]
                     IN  /\ out = <<b>>
                         /\ Agree(IF b.brk THEN down \ {k} ELSE down \cup {k}, held)

(* Pressing a key and marking its key code down keeps the two in step. *)
LEMMA AgreePress ==
    ASSUME NEW d, NEW h, NEW s, Agree(d, h)
    PROVE  Agree(d \cup {scanToKeycode[s]}, h \cup {s})
  BY DEF Agree

(* So does letting one go and marking its key code up: a held key that     *)
(* shares the key code has none of its own.                                *)
LEMMA AgreeRelease ==
    ASSUME NEW d, NEW h \in SUBSET ScanCodes, NEW s \in ScanCodes, Agree(d, h)
    PROVE  Agree(d \ {scanToKeycode[s]}, h \ {s})
  BY DEF Agree, Own

(* A single byte is handled as the key the table gives for it. *)
LEMMA InterruptHands ==
    ASSUME TypeOK, HandsInv, KBDinterrupt
    PROVE  /\ out' = <<>> /\ scan' = <<>> /\ Agree(down', held)
           /\ LET b == Head(out)
                  k == scanToKeycode[b.scan]
              IN  b \in Byte /\ IF b.brk THEN keyUp(k) ELSE keyDown(k)
<1> DEFINE b == Head(out)
           k == scanToKeycode[b.scan]
           code == Append(scan, b)
<1>1. out # <<>> /\ out \in Seq(Byte) /\ out = <<b>> /\ scan = <<>>
  BY DEF KBDinterrupt, HandsInv, TypeOK
<1>2. b \in Byte
  BY <1>1
<1>3. Agree(IF b.brk THEN down \ {k} ELSE down \cup {k}, held)
  BY <1>1 DEF HandsInv
<1> HIDE DEF b
<1>4. Tail(out) = <<>>
  BY <1>1, <1>2
<1>5. Len(code) = 1 /\ code[1] = b
  BY <1>1, <1>2
<1>6. KeyOf(code) = {k} /\ code[Len(code)] = b
  BY <1>5 DEF KeyOf
<1>7. /\ out' = <<>> /\ scan' = <<>>
      /\ \E x \in KeyOf(code) : IF code[Len(code)].brk THEN keyUp(x) ELSE keyDown(x)
  BY <1>4 DEF KBDinterrupt, b
<1> HIDE DEF code, k
<1>8. IF b.brk THEN keyUp(k) ELSE keyDown(k)
  BY <1>6, <1>7
<1>9. down' = IF b.brk THEN down \ {k} ELSE down \cup {k}
  BY <1>8 DEF keyUp, keyDown
<1>10. Agree(down', held)
  BY <1>3, <1>9
<1> QED BY <1>2, <1>7, <1>8, <1>10 DEF b, k

(* With one byte at a time the driver's view follows the user's hands. *)
LEMMA NextHandsInv ==
    ASSUME Burst = 1, TypeOK, HandsInv, [Next]_vars
    PROVE  HandsInv'
<1>1. CASE KBDinterrupt
  <2>1. out' = <<>> /\ scan' = <<>> /\ Agree(down', held)
    BY <1>1, InterruptHands
  <2>2. held' = held /\ held \subseteq ScanCodes
    BY <1>1 DEF KBDinterrupt, HandsInv
  <2>3. Agree(down', held')
    BY <2>1, <2>2
  <2> QED BY <2>1, <2>2, <2>3 DEF HandsInv
<1>2. ASSUME NEW s \in ScanCodes, press(s) \/ release(s) PROVE HandsInv'
  <2> DEFINE k == scanToKeycode[s]
  <2>1. out = <<>> /\ scan' = <<>> /\ down' = down
    BY <1>2 DEF press, release, keyvars, TypeOK, HandsInv
  <2>2. Agree(down, held) /\ held \subseteq ScanCodes
    BY <2>1 DEF HandsInv
  <2> HIDE DEF k
  <2>3. CASE press(s)
    <3> DEFINE b == [scan |-> s, brk |-> FALSE]
    <3>1. b.scan = s /\ b.brk = FALSE
      OBVIOUS
    <3> HIDE DEF b
    <3>2. out' = Append(out, b) /\ held' = held \cup {s}
      BY <2>3 DEF press, b
    <3>3. out' = <<b>> /\ Head(out') = b /\ out' # <<>>
      BY <2>1, <3>2
    <3>4. Agree(down \cup {k}, held \cup {s})
      BY <2>2, AgreePress DEF k
    <3>5. Agree(down' \cup {k}, held') /\ held' \subseteq ScanCodes
      BY <2>1, <2>2, <3>2, <3>4
    <3> QED BY <2>1, <3>1, <3>3, <3>5 DEF HandsInv, k
  <2>4. CASE release(s)
    <3> DEFINE b == [scan |-> s, brk |-> TRUE]
    <3>1. b.scan = s /\ b.brk = TRUE
      OBVIOUS
    <3> HIDE DEF b
    <3>2. out' = Append(out, b) /\ held' = held \ {s}
      BY <2>4 DEF release, b
    <3>3. out' = <<b>> /\ Head(out') = b /\ out' # <<>>
      BY <2>1, <3>2
    <3>4. Agree(down \ {k}, held \ {s})
      BY <2>2, AgreeRelease DEF k
    <3>5. Agree(down' \ {k}, held') /\ held' \subseteq ScanCodes
      BY <2>1, <2>2, <3>2, <3>4
    <3> QED BY <2>1, <3>1, <3>3, <3>5 DEF HandsInv, k
  <2> QED BY <1>2, <2>3, <2>4
<1>3. CASE ~KBDinterrupt /\ ~(\E s \in ScanCodes : press(s) \/ release(s))
  <2>1. scan' = scan /\ out' = out /\ down' = down /\ held' = held
    BY <1>3 DEF Next, Tick, Reader, Call, Test, Halt, Load, Advance, vars, keyvars, uservars
  <2> QED BY <2>1 DEF HandsInv
<1> QED BY <1>1, <1>2, <1>3

(* The invariant holds in every reachable state. *)
THEOREM HandsInvariant == Burst = 1 => (Spec => []HandsInv)
<1> SUFFICES ASSUME Burst = 1 PROVE Spec => []HandsInv
  OBVIOUS
<1>1. Init => HandsInv
  BY DEF Init, HandsInv, Agree
<1>2. TypeOK /\ HandsInv /\ [Next]_vars => HandsInv'
  BY NextHandsInv
<1> QED BY <1>1, <1>2, KeyboardTypeCorrect, PTL DEF Spec

(* No key stays down and none with a scan code of its own is forgotten,    *)
(* whatever the key table, as long as the controller never holds two bytes *)
(* when KBDinterrupt looks at its status.                                  *)
THEOREM KeysFollowHands == Burst = 1 => (Spec => []KeysAgree)
<1> SUFFICES ASSUME Burst = 1 PROVE Spec => []KeysAgree
  OBVIOUS
<1>1. HandsInv => KeysAgree
  BY DEF HandsInv, KeysAgree
<1> QED BY <1>1, HandsInvariant, PTL

(* Shift and caps lock act on letters as the exclusive or of the two, for  *)
(* every key table with the letters and the shift keys of initKBD's.       *)
THEOREM LettersCased == Burst = 1 /\ LetterTable /\ ShiftsOwn => (Spec => LetterCase)
<1> SUFFICES ASSUME Burst = 1, LetterTable, ShiftsOwn PROVE Spec => LetterCase
  OBVIOUS
<1> DEFINE shifts == {KEY_LSHIFT, KEY_RSHIFT}
           shifted == \E u \in held : scanToKeycode[u] \in shifts
           Typed(k) == IF ASCII[k] \in Lower
                       THEN IF shifted # capsLock THEN altASCII[k] ELSE ASCII[k]
                       ELSE IF shifted THEN altASCII[k] ELSE ASCII[k]
<1>1. ASSUME TypeOK, HandsInv, [Next]_vars, NEW s \in ScanCodes,
             out = <<[scan |-> s, brk |-> FALSE]>>, out' = <<>>, kbuf_head' # kbuf_head
      PROVE  keyboard_buffer'[kbuf_head] = Typed(scanToKeycode[s])
  <2> DEFINE k == scanToKeycode[s]
  <2>1. KBDinterrupt
    BY <1>1 DEF Next, press, release, Tick, Reader, Call, Test, Halt, Load, Advance,
                vars, ringvars, uservars
  <2>2. Head(out).scan = s /\ Head(out).brk = FALSE
    BY <1>1
  <2>3. keyDown(k)
    BY <1>1, <2>1, <2>2, InterruptHands
  <2>4. Agree(down', held) /\ down' = down \cup {k} /\ k \in Keys
    BY <1>1, <2>1, <2>3, InterruptHands, KeyboardAssumption DEF keyDown
  <2> HIDE DEF k
  <2>5. keyboard_buffer'[kbuf_head] = getASCII(k, down \cup {k})
    <3> DEFINE ch == getASCII(k, down \cup {k})
    <3>1. IF ch # NoChar THEN putchar_to_buffer(ch) ELSE UNCHANGED ringvars
      BY <2>3 DEF keyDown
    <3> HIDE DEF ch
    <3>2. keyboard_buffer' = [keyboard_buffer EXCEPT ![kbuf_head] = ch]
      BY <1>1, <3>1 DEF putchar_to_buffer, ringvars
    <3>3. keyboard_buffer'[kbuf_head] = ch
      BY <1>1, <3>2 DEF TypeOK
    <3> QED BY <3>3 DEF ch
  <2>6. (KEY_LSHIFT \in down \cup {k} \/ KEY_RSHIFT \in down \cup {k}) <=> shifted
    <3>1. Agree(down \cup {k}, held)
      BY <2>4
    <3>2. \A u \in held : scanToKeycode[u] \in shifts => Own(u)
      BY <1>1 DEF ShiftsOwn, HandsInv
    <3> QED BY <3>1, <3>2 DEF Agree
  <2>7. capsLock \in BOOLEAN /\ (ASCII[k] \in Lower <=> altASCII[k] \in Upper)
    BY <1>1, <2>4 DEF TypeOK, LetterTable
  <2> HIDE DEF shifted
  <2>8. getASCII(k, down \cup {k}) = Typed(k)
    BY <2>6, <2>7 DEF getASCII, isDown
  <2> QED BY <2>5, <2>8 DEF k
<1>2. TypeOK /\ HandsInv /\ [Next]_vars =>
        [\A s \in ScanCodes : (out = <<[scan |-> s, brk |-> FALSE]>> /\ scan = <<>>
                               /\ out' = <<>> /\ kbuf_head' # kbuf_head) =>
            keyboard_buffer'[kbuf_head] = Typed(scanToKeycode[s])]_vars
  BY <1>1
<1>3. TypeOK /\ HandsInv /\ [Next]_vars =>
        [\A s \in ScanCodes : (out = <<[scan |-> s, brk |-> FALSE]>> /\ scan = <<>>
                              /\ out' = <<>> /\ kbuf_head' # kbuf_head) =>
            LET k == scanToKeycode[s]
                typed == keyboard_buffer'[kbuf_head]
                shftd == \E u \in held : scanToKeycode[u] \in {KEY_LSHIFT, KEY_RSHIFT}
            IN  typed = IF ASCII[k] \in Lower
                        THEN IF shftd # capsLock THEN altASCII[k] ELSE ASCII[k]
                        ELSE IF shftd THEN altASCII[k] ELSE ASCII[k]]_vars
  BY <1>2, Zenon
<1> QED BY <1>3, KeyboardTypeCorrect, HandsInvariant, PTL DEF Spec, LetterCase
=============================================================================
