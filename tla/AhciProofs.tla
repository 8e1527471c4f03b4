------------------------------ MODULE AhciProofs ------------------------------
(***************************************************************************)
(* Proofs about the disk driver, for any number of ports, disks and calls: *)
(* the table of drives, what a write may change and what success means.    *)
(***************************************************************************)
EXTENDS Ahci, SequenceTheorems, TLAPS

Waiting == pc \in {"identify", "read", "write"}

(* The command the driver waits for. *)
Current ==
    IF pc = "identify"
    THEN [op |-> "identify", lba |-> 0, half |-> 0, live |-> TRUE]
    ELSE [op |-> pc, lba |-> start_sector(call) + call.i, half |-> call.i,
          live |-> TRUE]

(* A disk is in one port at most. *)
PluggedOnce ==
    \A p, q \in Ports : plugged[p] = plugged[q] /\ plugged[p] # None => p = q

(* PxCI announces the command in the slot; a port without PxCI holds none. *)
PortsSane ==
    \A p \in Ports : /\ hba[p].ci <=> hba[p].slot # None
                     /\ hba[p].fetched # None => hba[p].ci

(* A live command is the one that the driver waits for now. *)
LiveOwned ==
    \A p \in Ports : \A c \in {hba[p].slot, hba[p].fetched} \cap Cmd :
        c.live => Waiting /\ p = WaitingPort /\ c = Current

(* The port that is being identified is not in the table yet. *)
TableSound ==
    /\ EachPortOnce
    /\ pc = "identify" => ~already(scan)

(* The loop over the sectors stays inside the transfer. *)
CallSane ==
    call # None =>
        /\ call.i < sectors(call)
        /\ pc = "write" => call.op = "write"
        /\ pc = "read" /\ call.op = "write" => Partial(call, call.i)

Clean == IF call = None THEN FALSE ELSE call.clean

(* While a clean call runs, its command is the only one in any port. *)
OnlyOurs ==
    Clean => /\ \A q \in Ports \ {call.port} : ~hba[q].ci
             /\ hba[call.port].ci =>
                    /\ hba[call.port].slot = Current
                    /\ hba[call.port].fetched \in {None, Current, Gone}

(* Sector i of the transfer, on the disk it works on. *)
SectorOnDisk(i, k) == disk[plugged[call.port]][(start_sector(call) + i) * SECTOR_SIZE + k]
Reached(i) == plugged[call.port] # None /\ start_sector(call) + i < DiskSectors
Answered == ~hba[call.port].ci /\ ~hba[call.port].tfes

(* The data of the part of sector i that the transfer covers. *)
Ours(i, k) == Payload[copied(call, i) + k - start_off(call, i)]
Part(i) == start_off(call, i)..(end_off(call, i) - 1)

(* A read that was answered has put the sector into its half.              *)
ReadLanded ==
    Clean /\ pc = "read" /\ Answered =>
        /\ Reached(call.i)
        /\ \A k \in 0..(SECTOR_SIZE - 1) :
              sector_buf[call.i * SECTOR_SIZE + k] = SectorOnDisk(call.i, k)

(* What a write is about to put on disk, or has put there: the data in its *)
(* range, and around it what the disk has.                                 *)
Merged ==
    Clean /\ pc = "write" =>
        /\ \A k \in Part(call.i) : sector_buf[call.i * SECTOR_SIZE + k] = Ours(call.i, k)
        /\ Partial(call, call.i) => Reached(call.i)
        /\ \A k \in 0..(SECTOR_SIZE - 1) \ Part(call.i) :
              sector_buf[call.i * SECTOR_SIZE + k] = SectorOnDisk(call.i, k)
        /\ Answered => /\ Reached(call.i)
                       /\ \A k \in Part(call.i) : SectorOnDisk(call.i, k) = Ours(call.i, k)

(* The first of two sectors is done when the second is worked on.          *)
FirstDone ==
    Clean /\ call.i = 1 =>
        /\ Reached(0)
        /\ \A k \in Part(0) :
              SectorOnDisk(0, k) = IF call.op = "read"
                                   THEN byte_buffer[k - start_off(call, 0)]
                                   ELSE Ours(0, k)

AhciInv ==
    /\ TypeOK /\ PluggedOnce /\ PortsSane /\ LiveOwned /\ TableSound
    /\ CallSane /\ OnlyOurs /\ ReadLanded /\ Merged /\ FirstDone

-----------------------------------------------------------------------------
(* A quotient and its remainder, with the product as one number. *)
LEMMA Quotient ==
    ASSUME NEW a \in Nat, NEW S \in Nat \ {0}
    PROVE  /\ a \div S \in Nat
           /\ a % S \in 0..(S - 1)
           /\ (a \div S) * S \in Nat
           /\ (a \div S) * S + (a % S) = a
BY Z3

(* The quotient is the only number with that property. *)
LEMMA QuotientUnique ==
    ASSUME NEW q \in Nat, NEW S \in Nat \ {0}, NEW r \in 0..(S - 1)
    PROVE  (q * S + r) \div S = q /\ (q * S + r) % S = r
BY Z3

(* Products with the size of a sector, as far as the proofs need them. *)
LEMMA Product ==
    ASSUME NEW q \in Nat, NEW u \in Nat, NEW S \in Nat
    PROVE  /\ q * S \in Nat
           /\ (q + 1) * S = q * S + S
           /\ (q + 2) * S = q * S + S + S
           /\ q <= u => q * S <= u * S
BY Z3

(* A transfer covers one or two sectors; the parts of the two, taken one   *)
(* after the other, are its range.                                         *)
LEMMA SectorParts ==
    ASSUME NEW c \in Call
    PROVE  /\ start_sector(c) \in Nat /\ sectors(c) \in 1..2
           /\ \A i \in 0..(sectors(c) - 1) :
                 LET base == (start_sector(c) + i) * SECTOR_SIZE
                 IN  /\ base \in Nat
                     /\ start_off(c, i) \in 0..(SECTOR_SIZE - 1)
                     /\ end_off(c, i) \in (start_off(c, i) + 1)..SECTOR_SIZE
                     /\ copied(c, i) \in Nat
                     /\ base + start_off(c, i) = c.addr + copied(c, i)
                     /\ base + end_off(c, i) <= c.addr + c.length
                     /\ i = sectors(c) - 1 => base + end_off(c, i) = c.addr + c.length
                     /\ i = 0 => copied(c, i) = 0
                     /\ i + 1 < sectors(c) => end_off(c, i) = SECTOR_SIZE
<1>. DEFINE S == SECTOR_SIZE
            a == c.addr
            z == c.addr + c.length - 1
            q == a \div S
            u == z \div S
<1>1. /\ S \in Nat \ {0} /\ a \in Nat /\ c.length \in 1..S /\ z \in Nat
    BY AhciAssumption DEF Call
<1>2. /\ q \in Nat /\ a % S \in 0..(S - 1) /\ q * S \in Nat /\ q * S + (a % S) = a
    BY <1>1, Quotient
<1>3. /\ u \in Nat /\ z % S \in 0..(S - 1) /\ u * S \in Nat /\ u * S + (z % S) = z
    BY <1>1, Quotient
<1>4. /\ (q + 1) * S = q * S + S /\ (q + 2) * S = q * S + S + S
    BY <1>1, <1>2, Product
<1>5. z = a + c.length - 1
    OBVIOUS
<1>. HIDE DEF S, a, z, q, u
<1>. DEFINE Q == q * S
            U == u * S
<1>n. /\ Q \in Nat /\ U \in Nat /\ Q + (a % S) = a /\ U + (z % S) = z
      /\ q \in Nat /\ u \in Nat /\ a % S \in 0..(S - 1) /\ z % S \in 0..(S - 1)
    BY <1>2, <1>3
<1>6. u >= q
    <2>1. u + 1 <= q => U + S <= Q
        <3>1. u + 1 \in Nat
            BY <1>3
        <3>. QED  BY <3>1, <1>1, <1>2, <1>3, Product
    <2>. HIDE DEF Q, U
    <2>. QED  BY <2>1, <1>1, <1>2, <1>3, <1>n, <1>5
<1>7. u <= q + 1
    <2>1. q + 2 <= u => Q + S + S <= U
        <3>1. q + 2 \in Nat
            BY <1>2
        <3>. QED  BY <3>1, <1>1, <1>2, <1>3, Product
    <2>. HIDE DEF Q, U
    <2>. QED  BY <2>1, <1>1, <1>2, <1>3, <1>n, <1>5
<1>8. /\ start_sector(c) = q /\ sectors(c) = u - q + 1
      /\ S = SECTOR_SIZE /\ a = c.addr /\ z = c.addr + c.length - 1
    BY DEF start_sector, sectors, q, u, a, z, S
<1>9. /\ start_off(c, 0) = a % S /\ start_off(c, 1) = 0
      /\ end_off(c, 0) = IF u = q THEN (z % S) + 1 ELSE S
      /\ end_off(c, 1) = IF u = q + 1 THEN (z % S) + 1 ELSE S
      /\ copied(c, 0) = 0 /\ copied(c, 1) = end_off(c, 0) - start_off(c, 0)
    BY <1>2, <1>3, <1>6, <1>7, <1>8 DEF start_off, end_off, copied, chunk
<1>. DEFINE Fine(i) ==
         LET base == (start_sector(c) + i) * SECTOR_SIZE
         IN  /\ base \in Nat
             /\ start_off(c, i) \in 0..(SECTOR_SIZE - 1)
             /\ end_off(c, i) \in (start_off(c, i) + 1)..SECTOR_SIZE
             /\ copied(c, i) \in Nat
             /\ base + start_off(c, i) = c.addr + copied(c, i)
             /\ base + end_off(c, i) <= c.addr + c.length
             /\ i = sectors(c) - 1 => base + end_off(c, i) = c.addr + c.length
             /\ i = 0 => copied(c, i) = 0
             /\ i + 1 < sectors(c) => end_off(c, i) = SECTOR_SIZE
<1>b. /\ start_sector(c) * SECTOR_SIZE = Q /\ (start_sector(c) + 0) * SECTOR_SIZE = Q
      /\ (start_sector(c) + 1) * SECTOR_SIZE = Q + S
    BY <1>2, <1>4, <1>8
<1>10. CASE u = q
    <2>u. U = Q
        BY <1>10
    <2>. HIDE DEF Q, U
    <2>1. sectors(c) = 1
        BY <1>2, <1>3, <1>8, <1>10
    <2>2. Fine(0)
        BY <2>u, <2>1, <1>1, <1>5, <1>n, <1>b, <1>8, <1>9, <1>10
    <2>. QED  BY <2>1, <2>2, <1>2, <1>8
<1>11. CASE u = q + 1
    <2>1. U = Q + S
        BY <1>4, <1>11
    <2>. HIDE DEF Q, U
    <2>2. sectors(c) = 2
        BY <1>2, <1>3, <1>8, <1>11
    <2>3. SUFFICES ASSUME NEW i \in 0..1 PROVE Fine(i)
        BY <2>2, <1>2, <1>8
    <2>4. CASE i = 0
        BY <2>1, <2>2, <2>4, <1>1, <1>5, <1>n, <1>b, <1>8, <1>9, <1>11
    <2>5. CASE i = 1
        BY <2>1, <2>2, <2>5, <1>1, <1>5, <1>n, <1>b, <1>8, <1>9, <1>11
    <2>. QED  BY <2>3, <2>4, <2>5
<1>. QED  BY <1>2, <1>3, <1>6, <1>7, <1>10, <1>11

-----------------------------------------------------------------------------
Port == [ci : BOOLEAN, tfes : BOOLEAN, slot : Cmd \cup {None},
         fetched : Cmd \cup {None, Gone}]

(* No command anywhere has an owner that waits for it. *)
NoLive ==
    \A p \in Ports : \A x \in {hba[p].slot, hba[p].fetched} \cap Cmd : ~x.live

(* When the driver does not wait, or its command is done, none is live. *)
LEMMA NoneLive ==
    ASSUME AhciInv, ~Waiting \/ ~hba[WaitingPort].ci
    PROVE  NoLive
<1>1. SUFFICES ASSUME NEW p \in Ports,
                      NEW x \in {hba[p].slot, hba[p].fetched} \cap Cmd, x.live
               PROVE  FALSE
    BY DEF NoLive
<1>2. Waiting /\ p = WaitingPort
    BY <1>1 DEF AhciInv, LiveOwned
<1>3. hba[p].slot = None /\ hba[p].fetched = None
    BY <1>2 DEF AhciInv, PortsSane
<1>. QED  BY <1>1, <1>3, CmdAssumption

(* The ports after a command was put into one of them. *)
LEMMA ExecPorts ==
    ASSUME TypeOK, NEW p \in Ports, NEW op \in {"read", "write"}, NEW lba \in Nat,
           NEW half \in 0..1, exec_ata_cmd(p, op, lba, half)
    PROVE  LET cmd == [op |-> op, lba |-> lba, half |-> half, live |-> TRUE]
           IN  /\ cmd \in Cmd
               /\ hba' \in [Ports -> Port]
               /\ hba'[p].ci = TRUE /\ hba'[p].slot = cmd
               /\ hba'[p].fetched = hba[p].fetched /\ hba'[p].tfes = hba[p].tfes
               /\ \A q \in Ports \ {p} : hba'[q] = hba[q]
               /\ timeout_us' \in 0..TIMEOUT
<1>. DEFINE cmd == [op |-> op, lba |-> lba, half |-> half, live |-> TRUE]
<1>1. cmd \in Cmd
    BY DEF Cmd
<1>. HIDE DEF cmd
<1>2. hba' = [hba EXCEPT ![p].slot = cmd, ![p].ci = TRUE]
    BY DEF exec_ata_cmd, cmd
<1>3. hba \in [Ports -> Port]
    BY DEF TypeOK, Port
<1>4. timeout_us' \in 0..TIMEOUT
    BY AhciAssumption DEF exec_ata_cmd
<1>5. /\ hba' \in [Ports -> Port]
      /\ hba'[p].ci = TRUE /\ hba'[p].slot = cmd
      /\ hba'[p].fetched = hba[p].fetched /\ hba'[p].tfes = hba[p].tfes
      /\ \A q \in Ports \ {p} : hba'[q] = hba[q]
    BY <1>1, <1>2, <1>3 DEF Port
<1>. QED  BY <1>1, <1>4, <1>5 DEF cmd

(* A call issues a command when none is live: it is then the only live one *)
(* and, for a clean call, the only one.                                    *)
LEMMA Issue ==
    ASSUME AhciInv, NoLive, NEW c \in Call, NEW op \in {"read", "write"},
           c.i < sectors(c),
           c.clean => \A q \in Ports : ~hba[q].ci,
           exec_ata_cmd(c.port, op, start_sector(c) + c.i, c.i),
           call' = c, pc' = op
    PROVE  /\ hba' \in [Ports -> Port] /\ timeout_us' \in 0..TIMEOUT
           /\ PortsSane' /\ LiveOwned' /\ OnlyOurs'
           /\ hba'[c.port].ci
<1>. DEFINE lba == start_sector(c) + c.i
            cmd == [op |-> op, lba |-> lba, half |-> c.i, live |-> TRUE]
<1>1. /\ c.port \in Ports /\ c.i \in 0..1 /\ start_sector(c) + c.i \in Nat
    BY SectorParts DEF Call
<1>2. /\ cmd \in Cmd /\ hba' \in [Ports -> Port]
      /\ hba'[c.port].ci = TRUE /\ hba'[c.port].slot = cmd
      /\ hba'[c.port].fetched = hba[c.port].fetched
      /\ \A q \in Ports \ {c.port} : hba'[q] = hba[q]
      /\ timeout_us' \in 0..TIMEOUT
    <2>1. TypeOK /\ lba \in Nat /\ exec_ata_cmd(c.port, op, lba, c.i)
        BY <1>1 DEF AhciInv
    <2>. HIDE DEF lba
    <2>. QED  BY <1>1, <2>1, ExecPorts, ZenonT(60)
<1>3. cmd.live /\ cmd = Current'
    BY DEF Current, start_sector
<1>4. WaitingPort' = c.port /\ Waiting' /\ c # None
    BY CmdAssumption DEF WaitingPort, Waiting
<1>. HIDE DEF cmd
<1>5. PortsSane'
    BY <1>1, <1>2, CmdAssumption DEF AhciInv, PortsSane
<1>6. LiveOwned'
    BY <1>1, <1>2, <1>3, <1>4 DEF NoLive, LiveOwned
<1>7. OnlyOurs'
    <2>1. SUFFICES ASSUME c.clean
                   PROVE  /\ \A q \in Ports \ {c.port} : ~hba'[q].ci
                          /\ hba'[c.port].slot = cmd
                          /\ hba'[c.port].fetched = None
        BY <1>3, <1>4 DEF OnlyOurs, Clean
    <2>2. hba[c.port].fetched = None
        BY <1>1, <2>1 DEF AhciInv, PortsSane
    <2>. QED  BY <1>2, <2>1, <2>2
<1>. QED  BY <1>2, <1>5, <1>6, <1>7

(* The parts of the invariant about the call under way. *)
CallInv == CallSane /\ OnlyOurs /\ ReadLanded /\ Merged /\ FirstDone

LEMMA NoCall == ASSUME call' = None PROVE CallInv'
BY DEF CallInv, CallSane, OnlyOurs, ReadLanded, Merged, FirstDone, Clean

LEMMA CallFrame ==
    ASSUME CallInv, UNCHANGED <<call, pc, hba, plugged, disk, sector_buf, byte_buffer>>
    PROVE  CallInv'
BY DEF CallInv, CallSane, OnlyOurs, ReadLanded, Merged, FirstDone, Clean, Current,
       Reached, SectorOnDisk, Answered, Part, Ours

(* Nothing is live before, and ports only lose commands: nothing is after. *)
LEMMA StillNoLive ==
    ASSUME NoLive, \A p \in Ports : {hba'[p].slot, hba'[p].fetched} \cap Cmd
                         \subseteq {hba[p].slot, hba[p].fetched}
    PROVE  LiveOwned'
BY DEF NoLive, LiveOwned

-----------------------------------------------------------------------------
(* The state at boot. *)
LEMMA InitInv == Init => AhciInv
<1>. SUFFICES ASSUME Init PROVE AhciInv
    OBVIOUS
<1>. USE AhciAssumption, CmdAssumption
<1>1. Stopped \in Port
    BY DEF Stopped, Port
<1>2. TypeOK
    <2>1. hba \in [Ports -> Port]
        BY <1>1 DEF Init
    <2>2. PICK present \in SUBSET Ports :
            plugged = [p \in Ports |-> IF p \in present THEN AtBoot[p] ELSE None]
        BY DEF Init
    <2>3. plugged \in [Ports -> Disks \cup {None}]
        BY <2>2
    <2>4. disk \in [Disks -> [DiskBytes -> Cell]]
        BY DEF Init, Cell
    <2>5. /\ byte_buffer \in [0..(MAX_LEN - 1) -> Cell]
          /\ sector_buf \in [0..(2 * SECTOR_SIZE - 1) -> Cell]
        BY DEF Init, Cell
    <2>6. drive_port \in Seq(Ports)
        BY DEF Init
    <2>8. ahci_initialized \in BOOLEAN
        BY Zenon DEF Init
    <2>7. /\ controller \in 0..(Buses - 1) \cup {None}
          /\ pc = "pci" /\ bus \in 0..(Buses - 1) /\ scan \in 0..MAX_PORTS
          /\ timeout_us \in 0..TIMEOUT /\ call = None
          /\ calls \in 0..MaxCalls /\ plugs \in 0..MaxPlugs
        BY DEF Init
    <2>. QED  BY <2>1, <2>3, <2>4, <2>5, <2>6, <2>7, <2>8 DEF TypeOK, Port
<1>3. PluggedOnce
    <2>2. PICK present \in SUBSET Ports :
            plugged = [p \in Ports |-> IF p \in present THEN AtBoot[p] ELSE None]
        BY DEF Init
    <2>. QED  BY <2>2 DEF PluggedOnce
<1>4. PortsSane /\ LiveOwned
    BY DEF Init, Stopped, PortsSane, LiveOwned
<1>5. TableSound
    BY DEF Init, TableSound, EachPortOnce
<1>6. CallInv
    BY DEF Init, CallInv, CallSane, OnlyOurs, ReadLanded, Merged, FirstDone, Clean
<1>. QED  BY <1>2, <1>3, <1>4, <1>5, <1>6 DEF AhciInv, CallInv

-----------------------------------------------------------------------------
(* Boot and the scan of the ports. *)
LEMMA StepWait == ASSUME AhciInv, wait_cmd_complete PROVE AhciInv'
<1>. USE DEF wait_cmd_complete, hardware, table, loops, transfer
<1>1. TypeOK'
    <2>1. timeout_us' \in 0..TIMEOUT
        BY AhciAssumption DEF AhciInv, TypeOK
    <2>. QED  BY <2>1 DEF AhciInv, TypeOK
<1>2. PluggedOnce' /\ PortsSane'
    BY DEF AhciInv, PluggedOnce, PortsSane
<1>3. LiveOwned'
    BY DEF AhciInv, LiveOwned, Waiting, WaitingPort, Current
<1>4. TableSound'
    BY DEF AhciInv, TableSound, EachPortOnce, already
<1>5. CallInv'
    BY CallFrame DEF AhciInv, CallInv
<1>. QED  BY <1>1, <1>2, <1>3, <1>4, <1>5 DEF AhciInv, CallInv

LEMMA StepPci == ASSUME AhciInv, pci_scan PROVE AhciInv'
<1>. USE DEF pci_scan, hardware, table, loops, transfer
<1>1. TypeOK'
    <2>1. (bus + 1) % Buses \in 0..(Buses - 1)
        BY AhciAssumption DEF AhciInv, TypeOK
    <2>. QED  BY <2>1 DEF AhciInv, TypeOK
<1>2. PluggedOnce' /\ PortsSane'
    BY DEF AhciInv, PluggedOnce, PortsSane
<1>3. LiveOwned'
    BY DEF AhciInv, LiveOwned, Waiting, WaitingPort, Current
<1>4. TableSound'
    BY DEF AhciInv, TableSound, EachPortOnce, already
<1>5. CallInv'
    BY CallFrame DEF AhciInv, CallInv
<1>. QED  BY <1>1, <1>2, <1>3, <1>4, <1>5 DEF AhciInv, CallInv

LEMMA StepInit == ASSUME AhciInv, ahci_init PROVE AhciInv'
<1>. USE DEF ahci_init, hardware, table, loops, transfer
<1>0. call = None
    BY DEF AhciInv, TypeOK
<1>1. TypeOK'
    <2>1. hba' \in [Ports -> Port]
        BY DEF Stopped, Port
    <2>. QED  BY <2>1, AhciAssumption DEF AhciInv, TypeOK, Port
<1>2. PluggedOnce' /\ PortsSane'
    BY DEF AhciInv, PluggedOnce, PortsSane, Stopped
<1>3. LiveOwned'
    BY CmdAssumption DEF LiveOwned, Stopped
<1>4. TableSound'
    BY DEF AhciInv, TableSound, EachPortOnce
<1>5. CallInv'
    BY <1>0, NoCall
<1>. QED  BY <1>1, <1>2, <1>3, <1>4, <1>5 DEF AhciInv, CallInv

LEMMA StepUpdate == ASSUME AhciInv, ahci_table_update PROVE AhciInv'
<1>. USE DEF ahci_table_update, hardware, table, loops, transfer
<1>0. call = None /\ NoLive
    BY NoneLive DEF AhciInv, TypeOK, Waiting
<1>1. TypeOK'
    BY AhciAssumption DEF AhciInv, TypeOK
<1>2. PluggedOnce' /\ PortsSane'
    BY DEF AhciInv, PluggedOnce, PortsSane
<1>3. LiveOwned'
    BY <1>0, StillNoLive
<1>4. TableSound'
    BY DEF AhciInv, TableSound, EachPortOnce
<1>5. CallInv'
    BY <1>0, NoCall
<1>. QED  BY <1>1, <1>2, <1>3, <1>4, <1>5 DEF AhciInv, CallInv

LEMMA StepScanDone == ASSUME AhciInv, scan_done PROVE AhciInv'
<1>. USE DEF scan_done, hardware, table, loops, transfer
<1>0. call = None /\ NoLive
    BY NoneLive DEF AhciInv, TypeOK, Waiting
<1>1. TypeOK'
    BY AhciAssumption DEF AhciInv, TypeOK
<1>2. PluggedOnce' /\ PortsSane'
    BY DEF AhciInv, PluggedOnce, PortsSane
<1>3. LiveOwned'
    BY <1>0, StillNoLive
<1>4. TableSound'
    BY DEF AhciInv, TableSound, EachPortOnce
<1>5. CallInv'
    BY <1>0, NoCall
<1>. QED  BY <1>1, <1>2, <1>3, <1>4, <1>5 DEF AhciInv, CallInv

(* Removing a port from the table leaves the others, each once. *)
LEMMA RemoveFacts ==
    ASSUME TypeOK, EachPortOnce, NEW p \in Ports, already(p)
    PROVE  LET t == remove_drive_from_table(p)
           IN  /\ t \in Seq(Ports) /\ Len(t) = Len(drive_port) - 1
               /\ \A i \in 1..Len(t) :
                     t[i] = IF drive_port[i] = p THEN drive_port[Len(drive_port)]
                                                 ELSE drive_port[i]
               /\ \A i, j \in DOMAIN t : t[i] = t[j] => i = j
<1>. DEFINE n == Len(drive_port)
            last == drive_port[n]
            moved == [i \in DOMAIN drive_port |->
                         IF drive_port[i] = p THEN last ELSE drive_port[i]]
            t == SubSeq(moved, 1, n - 1)
<1>1. /\ drive_port \in Seq(Ports) /\ n \in Nat /\ DOMAIN drive_port = 1..n
      /\ \A i \in 1..n : drive_port[i] \in Ports
    BY LenProperties, ElementOfSeq DEF TypeOK
<1>2. n >= 1
    BY <1>1 DEF already
<1>3. last \in Ports
    BY <1>1, <1>2
<1>. HIDE DEF n, last
<1>4. \A i \in 1..(n - 1) : moved[i] \in Ports
    BY <1>1, <1>2, <1>3
<1>. HIDE DEF moved
<1>5. /\ t \in Seq(Ports) /\ Len(t) = n - 1
      /\ \A i \in 1..(n - 1) : t[i] = moved[i]
    <2>1. /\ SubSeq(moved, 1, n - 1) \in Seq(Ports)
          /\ Len(SubSeq(moved, 1, n - 1)) = IF 1 <= n - 1 THEN (n - 1) - 1 + 1 ELSE 0
          /\ \A i \in 1..((n - 1) - 1 + 1) : SubSeq(moved, 1, n - 1)[i] = moved[1 + i - 1]
        <3>1. 1 \in Int /\ n - 1 \in Int
            BY <1>1
        <3>. QED  BY <1>4, <3>1, SubSeqProperties
    <2>. QED  BY <2>1, <1>1, <1>2
<1>6. \A i \in 1..(n - 1) : t[i] = IF drive_port[i] = p THEN last ELSE drive_port[i]
    BY <1>1, <1>5 DEF moved
<1>. HIDE DEF t
<1>7. \A i, j \in 1..n : drive_port[i] = drive_port[j] => i = j
    BY <1>1 DEF EachPortOnce
<1>8. DOMAIN t = 1..(n - 1)
    BY <1>5, LenProperties
<1>9. \A i, j \in DOMAIN t : t[i] = t[j] => i = j
    BY <1>1, <1>2, <1>6, <1>7, <1>8 DEF last
<1>. QED  BY <1>1, <1>5, <1>6, <1>9 DEF t, moved, last, n, remove_drive_from_table

LEMMA StepScan == ASSUME AhciInv, scan_ports PROVE AhciInv'
<1>. USE DEF scan_ports, hardware, table, loops, transfer
<1>0. call = None /\ call' = None /\ NoLive /\ scan \in Ports
    BY NoneLive, AhciAssumption DEF AhciInv, TypeOK, Waiting, Ports
<1>i. [op |-> "identify", lba |-> 0, half |-> 0, live |-> TRUE] \in Cmd
    BY DEF Cmd
<1>h. hba \in [Ports -> Port]
    BY DEF AhciInv, TypeOK, Port
<1>c. CallInv'
    BY <1>0, NoCall
<1>p. PluggedOnce'
    BY DEF AhciInv, PluggedOnce
<1>1. CASE /\ port_device_present(scan) /\ ~already(scan)
           /\ hba' = [hba EXCEPT ![scan] = [Stopped EXCEPT !.ci = TRUE,
                 !.slot = [op |-> "identify", lba |-> 0, half |-> 0, live |-> TRUE]]]
           /\ timeout_us' = TIMEOUT
           /\ pc' = "identify"
           /\ UNCHANGED <<scan, drive_port>>
    <2>. DEFINE cmd == [op |-> "identify", lba |-> 0, half |-> 0, live |-> TRUE]
    <2>1. /\ hba' \in [Ports -> Port]
          /\ hba'[scan].ci = TRUE /\ hba'[scan].slot = cmd /\ hba'[scan].fetched = None
          /\ \A q \in Ports \ {scan} : hba'[q] = hba[q]
        <3>. HIDE DEF cmd
        <3>1. cmd \in Cmd
            BY <1>i DEF cmd
        <3>2. hba' = [hba EXCEPT ![scan] = [Stopped EXCEPT !.ci = TRUE, !.slot = cmd]]
            BY <1>1 DEF cmd
        <3>3. [Stopped EXCEPT !.ci = TRUE, !.slot = cmd] \in Port
            BY <3>1 DEF Stopped, Port
        <3>. QED  BY <1>0, <1>h, <3>2, <3>3 DEF Stopped
    <2>2. cmd \in Cmd /\ cmd = Current' /\ WaitingPort' = scan /\ Waiting'
        BY <1>1, <1>i DEF Current, WaitingPort, Waiting
    <2>3. TypeOK'
        <3>1. scan' \in 0..MAX_PORTS /\ scan' < MAX_PORTS /\ timeout_us' \in 0..TIMEOUT
            BY <1>1, AhciAssumption DEF AhciInv, TypeOK
        <3>. QED  BY <1>0, <1>1, <2>1, <3>1 DEF AhciInv, TypeOK, Port
    <2>. HIDE DEF cmd
    <2>4. PortsSane'
        BY <2>1, <2>2, CmdAssumption DEF AhciInv, PortsSane
    <2>5. LiveOwned'
        BY <1>0, <2>1, <2>2, CmdAssumption DEF LiveOwned, NoLive
    <2>6. TableSound'
        BY <1>1 DEF AhciInv, TableSound, EachPortOnce, already
    <2>. QED  BY <2>3, <2>4, <2>5, <2>6, <1>c, <1>p DEF AhciInv, CallInv
<1>2. CASE /\ ~port_device_present(scan) /\ already(scan)
           /\ hba' = [hba EXCEPT ![scan] = Stopped]
           /\ drive_port' = remove_drive_from_table(scan)
           /\ scan' = scan + 1
           /\ UNCHANGED <<timeout_us, pc>>
    <2>1. /\ hba' \in [Ports -> Port]
          /\ hba'[scan] = Stopped
          /\ \A q \in Ports \ {scan} : hba'[q] = hba[q]
        BY <1>0, <1>2, <1>h DEF Stopped, Port
    <2>2. /\ drive_port' \in Seq(Ports)
          /\ \A i, j \in DOMAIN drive_port' : drive_port'[i] = drive_port'[j] => i = j
        BY <1>0, <1>2, RemoveFacts DEF AhciInv, TableSound
    <2>3. TypeOK'
        <3>1. scan' \in 0..MAX_PORTS
            BY <1>2, AhciAssumption DEF AhciInv, TypeOK
        <3>. QED  BY <1>0, <1>2, <2>1, <2>2, <3>1 DEF AhciInv, TypeOK, Port
    <2>4. PortsSane'
        BY <2>1 DEF AhciInv, PortsSane, Stopped
    <2>5. LiveOwned'
        BY <1>0, <2>1, CmdAssumption DEF LiveOwned, NoLive, Stopped
    <2>6. TableSound'
        BY <1>2, <2>2 DEF TableSound, EachPortOnce
    <2>. QED  BY <2>3, <2>4, <2>5, <2>6, <1>c, <1>p DEF AhciInv, CallInv
<1>3. CASE /\ scan' = scan + 1
           /\ UNCHANGED <<hba, timeout_us, pc, drive_port>>
    <2>3. TypeOK'
        <3>1. scan' \in 0..MAX_PORTS
            BY <1>3, AhciAssumption DEF AhciInv, TypeOK
        <3>. QED  BY <1>0, <1>3, <3>1 DEF AhciInv, TypeOK
    <2>4. PortsSane'
        BY <1>3 DEF AhciInv, PortsSane
    <2>5. LiveOwned'
        BY <1>0, <1>3, StillNoLive
    <2>6. TableSound'
        BY <1>3 DEF AhciInv, TableSound, EachPortOnce
    <2>. QED  BY <2>3, <2>4, <2>5, <2>6, <1>c, <1>p DEF AhciInv, CallInv
<1>. QED  BY <1>1, <1>2, <1>3 DEF port_scan_update

(* Giving up leaves no live command in the port. *)
LEMMA DisownFacts ==
    ASSUME NEW h \in Port
    PROVE  /\ Disown(h) \in Port
           /\ Disown(h).ci = h.ci /\ Disown(h).tfes = h.tfes
           /\ Disown(h).slot # None <=> h.slot # None
           /\ Disown(h).fetched # None <=> h.fetched # None
           /\ \A x \in {Disown(h).slot, Disown(h).fetched} \cap Cmd : ~x.live
<1>. DEFINE s == IF h.slot \in Cmd THEN [h.slot EXCEPT !.live = FALSE] ELSE h.slot
            f == IF h.fetched \in Cmd THEN [h.fetched EXCEPT !.live = FALSE] ELSE h.fetched
<1>1. \A x \in Cmd : [x EXCEPT !.live = FALSE] \in Cmd /\ ~[x EXCEPT !.live = FALSE].live
    BY DEF Cmd
<1>2. /\ s \in Cmd \cup {None} /\ f \in Cmd \cup {None, Gone}
      /\ s # None <=> h.slot # None
      /\ f # None <=> h.fetched # None
      /\ \A x \in {s, f} \cap Cmd : ~x.live
    BY <1>1, CmdAssumption DEF Port
<1>3. Disown(h) = [h EXCEPT !.slot = s, !.fetched = f]
    BY DEF Disown
<1>. HIDE DEF s, f
<1>. QED  BY <1>2, <1>3 DEF Port

(* The ports after giving up the command in one of them. *)
LEMMA GiveUpPorts ==
    ASSUME AhciInv, Waiting, NEW p \in Ports, p = WaitingPort,
           hba' = [hba EXCEPT ![p] = Disown(@)]
    PROVE  /\ hba' \in [Ports -> Port]
           /\ PortsSane' /\ LiveOwned'
<1>1. hba \in [Ports -> Port]
    BY DEF AhciInv, TypeOK, Port
<1>2. hba' = [hba EXCEPT ![p] = Disown(hba[p])]
    OBVIOUS
<1>3. /\ Disown(hba[p]) \in Port
      /\ Disown(hba[p]).ci = hba[p].ci
      /\ Disown(hba[p]).slot # None <=> hba[p].slot # None
      /\ Disown(hba[p]).fetched # None <=> hba[p].fetched # None
      /\ \A x \in {Disown(hba[p]).slot, Disown(hba[p]).fetched} \cap Cmd : ~x.live
    BY <1>1, DisownFacts
<1>4. /\ hba' \in [Ports -> Port] /\ hba'[p] = Disown(hba[p])
      /\ \A q \in Ports \ {p} : hba'[q] = hba[q]
    BY <1>1, <1>2, <1>3
<1>5. PortsSane'
    BY <1>3, <1>4 DEF AhciInv, PortsSane
<1>6. LiveOwned'
    <2>1. \A q \in Ports \ {p} : \A x \in {hba[q].slot, hba[q].fetched} \cap Cmd : ~x.live
        BY DEF AhciInv, LiveOwned
    <2>. QED  BY <1>3, <1>4, <2>1 DEF LiveOwned
<1>. QED  BY <1>4, <1>5, <1>6

LEMMA StepIdentify == ASSUME AhciInv, identify_device PROVE AhciInv'
<1>. USE DEF identify_device, hardware, table, loops, transfer
<1>0. call = None /\ call' = None /\ scan \in Ports /\ WaitingPort = scan /\ Waiting
    BY AhciAssumption DEF AhciInv, TypeOK, Waiting, WaitingPort, Ports
<1>s. scan' \in 0..MAX_PORTS /\ 0 \in 0..TIMEOUT
    BY AhciAssumption DEF AhciInv, TypeOK
<1>c. CallInv'
    BY <1>0, NoCall
<1>p. PluggedOnce'
    BY DEF AhciInv, PluggedOnce
<1>1. CASE Completed(scan) /\ drive_port' = Append(drive_port, scan) /\ hba' = hba
    <2>1. NoLive
        BY <1>0, <1>1, NoneLive DEF Completed
    <2>2. drive_port \in Seq(Ports) /\ ~already(scan) /\ EachPortOnce
        BY DEF AhciInv, TypeOK, TableSound
    <2>3. drive_port' \in Seq(Ports)
        BY <1>0, <1>1, <2>2
    <2>4. EachPortOnce'
        <3>1. \A i \in 1..Len(drive_port) : drive_port[i] # scan
            BY <2>2 DEF already
        <3>2. \A i, j \in 1..Len(drive_port) : drive_port[i] = drive_port[j] => i = j
            BY <2>2 DEF EachPortOnce
        <3>. QED  BY <1>0, <1>1, <2>2, <3>1, <3>2 DEF EachPortOnce
    <2>5. TypeOK'
        BY <1>0, <1>1, <1>s, <2>3 DEF AhciInv, TypeOK
    <2>6. PortsSane' /\ LiveOwned'
        BY <1>1, <2>1, StillNoLive DEF AhciInv, PortsSane
    <2>. QED  BY <2>4, <2>5, <2>6, <1>c, <1>p DEF AhciInv, CallInv, TableSound
<1>2. CASE /\ Failed(scan) /\ drive_port' = drive_port
           /\ hba' = [hba EXCEPT ![scan] = Disown(@)]
    <2>1. hba' \in [Ports -> Port] /\ PortsSane' /\ LiveOwned'
        BY <1>0, <1>2, GiveUpPorts
    <2>2. TypeOK'
        BY <1>0, <1>2, <1>s, <2>1 DEF AhciInv, TypeOK, Port
    <2>3. TableSound'
        BY <1>2 DEF AhciInv, TableSound, EachPortOnce
    <2>. QED  BY <2>1, <2>2, <2>3, <1>c, <1>p DEF AhciInv, CallInv
<1>. QED  BY <1>1, <1>2

-----------------------------------------------------------------------------
(* The calls.  First, a buffer with the data of a write merged into it. *)
Buffer == [0..(2 * SECTOR_SIZE - 1) -> Cell]

LEMMA PartInPayload ==
    ASSUME NEW c \in Call, NEW i \in 0..(sectors(c) - 1),
           NEW k \in start_off(c, i)..(end_off(c, i) - 1)
    PROVE  /\ k \in 0..(SECTOR_SIZE - 1)
           /\ copied(c, i) + k - start_off(c, i) \in 0..(c.length - 1)
           /\ copied(c, i) + k - start_off(c, i) \in 0..(MAX_LEN - 1)
<1>1. /\ SECTOR_SIZE \in Nat /\ MAX_LEN \in Nat /\ c.length \in 1..MAX_LEN /\ c.addr \in Nat
    BY AhciAssumption DEF Call
<1>. DEFINE base == (start_sector(c) + i) * SECTOR_SIZE
<1>2. /\ base \in Nat
      /\ start_off(c, i) \in 0..(SECTOR_SIZE - 1)
      /\ end_off(c, i) \in (start_off(c, i) + 1)..SECTOR_SIZE
      /\ copied(c, i) \in Nat
      /\ base + start_off(c, i) = c.addr + copied(c, i)
      /\ base + end_off(c, i) <= c.addr + c.length
    BY SectorParts
<1>. HIDE DEF base
<1>. QED  BY <1>1, <1>2

LEMMA MergeFacts ==
    ASSUME NEW c \in Call, NEW i \in 0..(sectors(c) - 1), NEW buf \in Buffer
    PROVE  /\ Merge(buf, c, i) \in Buffer
           /\ \A k \in 0..(SECTOR_SIZE - 1) :
                 Merge(buf, c, i)[i * SECTOR_SIZE + k] =
                    IF k \in start_off(c, i)..(end_off(c, i) - 1)
                    THEN Payload[copied(c, i) + k - start_off(c, i)]
                    ELSE buf[i * SECTOR_SIZE + k]
<1>0. sectors(c) \in 1..2
    BY SectorParts
<1>1. i \in 0..1 /\ SECTOR_SIZE \in Nat \ {0}
    BY <1>0, AhciAssumption
<1>. DEFINE Z == i * SECTOR_SIZE
<1>2. Z \in {0, SECTOR_SIZE}
    BY <1>1
<1>3. Merge(buf, c, i) =
         [j \in 0..(2 * SECTOR_SIZE - 1) |->
             IF j - Z \in start_off(c, i)..(end_off(c, i) - 1)
             THEN Payload[copied(c, i) + (j - Z) - start_off(c, i)] ELSE buf[j]]
    BY DEF Merge, Buffer
<1>. HIDE DEF Z
<1>4. \A k \in start_off(c, i)..(end_off(c, i) - 1) :
         Payload[copied(c, i) + k - start_off(c, i)] \in Cell
    BY PartInPayload, AhciAssumption DEF Cell
<1>5. Merge(buf, c, i) \in Buffer
    BY <1>3, <1>4 DEF Buffer
<1>6. ASSUME NEW k \in 0..(SECTOR_SIZE - 1)
      PROVE  Merge(buf, c, i)[Z + k] =
                IF k \in start_off(c, i)..(end_off(c, i) - 1)
                THEN Payload[copied(c, i) + k - start_off(c, i)]
                ELSE buf[Z + k]
    <2>1. Z + k \in 0..(2 * SECTOR_SIZE - 1) /\ (Z + k) - Z = k
        BY <1>1, <1>2
    <2>. QED  BY <1>3, <2>1
<1>. QED  BY <1>5, <1>6 DEF Z

(* The part of a call, and what is around it. *)
LEMMA WholeSector ==
    ASSUME NEW c \in Call, NEW i \in 0..(sectors(c) - 1), ~Partial(c, i)
    PROVE  start_off(c, i)..(end_off(c, i) - 1) = 0..(SECTOR_SIZE - 1)
BY DEF Partial

(* A command to read the next sector was issued. *)
LEMMA ReadIssued ==
    ASSUME AhciInv, NoLive, NEW c \in Call, c.i < sectors(c),
           c.clean => \A q \in Ports : ~hba[q].ci,
           c.op = "write" => Partial(c, c.i),
           ReadSector(c)
    PROVE  /\ hba' \in [Ports -> Port] /\ timeout_us' \in 0..TIMEOUT
           /\ PortsSane' /\ LiveOwned'
           /\ CallSane' /\ OnlyOurs' /\ ReadLanded' /\ Merged'
<1>1. /\ exec_ata_cmd(c.port, "read", start_sector(c) + c.i, c.i)
      /\ call' = c /\ pc' = "read" /\ "read" \in {"read", "write"} /\ c # None
    BY CmdAssumption DEF ReadSector
<1>2. /\ hba' \in [Ports -> Port] /\ timeout_us' \in 0..TIMEOUT
      /\ PortsSane' /\ LiveOwned' /\ OnlyOurs' /\ hba'[c.port].ci
    BY <1>1, Issue
<1>3. CallSane'
    BY <1>1 DEF CallSane
<1>4. ReadLanded' /\ Merged'
    BY <1>1, <1>2 DEF ReadLanded, Merged, Answered
<1>. QED  BY <1>2, <1>3, <1>4

(* A command to write a sector was issued, with the data in the buffer. *)
LEMMA WriteIssued ==
    ASSUME AhciInv, NoLive, NEW c \in Call, c.i < sectors(c), c.op = "write",
           c.clean => \A q \in Ports : ~hba[q].ci,
           NEW buf \in Buffer,
           c.clean /\ Partial(c, c.i) =>
              /\ plugged[c.port] # None /\ start_sector(c) + c.i < DiskSectors
              /\ \A k \in 0..(SECTOR_SIZE - 1) : buf[c.i * SECTOR_SIZE + k] =
                    disk[plugged[c.port]][(start_sector(c) + c.i) * SECTOR_SIZE + k],
           WriteBack(c, buf), UNCHANGED hardware
    PROVE  /\ hba' \in [Ports -> Port] /\ timeout_us' \in 0..TIMEOUT
           /\ sector_buf' \in Buffer
           /\ PortsSane' /\ LiveOwned'
           /\ CallSane' /\ OnlyOurs' /\ ReadLanded' /\ Merged'
<1>1. /\ exec_ata_cmd(c.port, "write", start_sector(c) + c.i, c.i)
      /\ call' = c /\ pc' = "write" /\ "write" \in {"read", "write"} /\ c # None
      /\ sector_buf' = Merge(buf, c, c.i) /\ disk' = disk /\ plugged' = plugged
    BY CmdAssumption DEF WriteBack, hardware
<1>2. /\ hba' \in [Ports -> Port] /\ timeout_us' \in 0..TIMEOUT
      /\ PortsSane' /\ LiveOwned' /\ OnlyOurs' /\ hba'[c.port].ci
    BY <1>1, Issue
<1>3. c.i \in 0..(sectors(c) - 1)
    BY SectorParts DEF Call
<1>4. /\ sector_buf' \in Buffer
      /\ \A k \in 0..(SECTOR_SIZE - 1) :
            sector_buf'[c.i * SECTOR_SIZE + k] =
               IF k \in start_off(c, c.i)..(end_off(c, c.i) - 1)
               THEN Payload[copied(c, c.i) + k - start_off(c, c.i)]
               ELSE buf[c.i * SECTOR_SIZE + k]
    BY <1>1, <1>3, MergeFacts
<1>5. CallSane' /\ ReadLanded'
    BY <1>1 DEF CallSane, ReadLanded
<1>6. Merged'
    <2>1. SUFFICES ASSUME c.clean
          PROVE  /\ \A k \in start_off(c, c.i)..(end_off(c, c.i) - 1) :
                       sector_buf'[c.i * SECTOR_SIZE + k]
                          = Payload[copied(c, c.i) + k - start_off(c, c.i)]
                 /\ Partial(c, c.i) =>
                       plugged[c.port] # None /\ start_sector(c) + c.i < DiskSectors
                 /\ \A k \in 0..(SECTOR_SIZE - 1) \ (start_off(c, c.i)..(end_off(c, c.i) - 1)) :
                       sector_buf'[c.i * SECTOR_SIZE + k] =
                       disk[plugged[c.port]][(start_sector(c) + c.i) * SECTOR_SIZE + k]
        BY <1>1, <1>2 DEF Merged, Answered, Clean, Reached, SectorOnDisk, Part, Ours
    <2>2. \A k \in start_off(c, c.i)..(end_off(c, c.i) - 1) : k \in 0..(SECTOR_SIZE - 1)
        BY <1>3, PartInPayload
    <2>3. CASE Partial(c, c.i)
        BY <1>4, <2>1, <2>2, <2>3
    <2>4. CASE ~Partial(c, c.i)
        BY <1>3, <1>4, <2>1, <2>2, <2>4, WholeSector
    <2>. QED  BY <2>3, <2>4
<1>. QED  BY <1>2, <1>4, <1>5, <1>6

LEMMA NewFrameType == ASSUME TypeOK PROVE NewFrame \in Buffer
BY DEF TypeOK, NewFrame, Buffer, Cell

(* A call begins when no command is live. *)
LEMMA CallBegins ==
    ASSUME AhciInv, pc = "idle", NEW n \in 1..Len(drive_port), NEW addr \in Nat,
           NEW length \in 1..MAX_LEN, NEW op \in {"read", "write"}
    PROVE  LET c == NewCall(op, n, addr, length)
           IN  /\ NoLive /\ c \in Call /\ c.i = 0 /\ c.i < sectors(c) /\ c.op = op
               /\ c.clean => \A q \in Ports : ~hba[q].ci
<1>. DEFINE c == NewCall(op, n, addr, length)
<1>1. NoLive
    BY NoneLive DEF Waiting
<1>2. drive_port[n] \in Ports
    BY ElementOfSeq DEF AhciInv, TypeOK
<1>3. CallIsClean \in BOOLEAN
    BY DEF CallIsClean
<1>4. c \in Call /\ c.i = 0 /\ c.op = op /\ c.clean = CallIsClean
    BY <1>2, <1>3 DEF NewCall, Call
<1>. HIDE DEF c
<1>5. sectors(c) \in 1..2
    BY <1>4, SectorParts
<1>6. c.clean => \A q \in Ports : ~hba[q].ci
    BY <1>4 DEF CallIsClean
<1>. QED  BY <1>1, <1>4, <1>5, <1>6 DEF c

(* What the actions of a call leave alone, and the counter of calls. *)
LEMMA CallTypes ==
    ASSUME AhciInv, UNCHANGED <<hardware, table, loops>>,
           hba' \in [Ports -> Port], timeout_us' \in 0..TIMEOUT,
           sector_buf' \in Buffer, byte_buffer' \in [0..(MAX_LEN - 1) -> Cell],
           calls' \in 0..MaxCalls,
           \/ call' \in Call /\ pc' \in {"read", "write"}
           \/ call' = None /\ pc' = "idle"
    PROVE  TypeOK' /\ PluggedOnce' /\ TableSound'
<1>1. /\ call' \in Call \cup {None}
      /\ pc' \in {"read", "write", "idle"}
      /\ pc' \in {"read", "write"} <=> call' # None
    BY CmdAssumption
<1>2. TypeOK'
    BY <1>1 DEF AhciInv, TypeOK, hardware, table, loops, Port, Buffer
<1>3. PluggedOnce'
    BY DEF AhciInv, PluggedOnce, hardware
<1>4. TableSound'
    BY <1>1 DEF AhciInv, TableSound, EachPortOnce, table
<1>. QED  BY <1>2, <1>3, <1>4

LEMMA StepRead ==
    ASSUME AhciInv, NEW n \in 1..MAX_PORTS, NEW addr \in Nat, NEW length \in Nat,
           ahci_read(n, addr, length)
    PROVE  AhciInv'
<1>. DEFINE c == NewCall("read", n, addr, length)
<1>1. /\ pc = "idle" /\ n \in 1..Len(drive_port) /\ length \in 1..MAX_LEN
      /\ ReadSector(c) /\ sector_buf' = NewFrame
      /\ calls < MaxCalls /\ calls' = calls + 1
      /\ UNCHANGED <<hardware, table, loops, byte_buffer>>
    BY DEF ahci_read, CountCall
<1>2. /\ NoLive /\ c \in Call /\ c.i = 0 /\ c.i < sectors(c) /\ c.op = "read"
      /\ c.clean => \A q \in Ports : ~hba[q].ci
    BY <1>1, CallBegins
<1>. HIDE DEF c
<1>3. /\ hba' \in [Ports -> Port] /\ timeout_us' \in 0..TIMEOUT
      /\ PortsSane' /\ LiveOwned'
      /\ CallSane' /\ OnlyOurs' /\ ReadLanded' /\ Merged'
    BY <1>1, <1>2, ReadIssued
<1>4. call' = c /\ pc' = "read"
    BY <1>1 DEF ReadSector
<1>5. TypeOK' /\ PluggedOnce' /\ TableSound'
    <2>1. calls' \in 0..MaxCalls /\ byte_buffer' \in [0..(MAX_LEN - 1) -> Cell]
        BY <1>1, AhciAssumption DEF AhciInv, TypeOK
    <2>2. sector_buf' \in Buffer
        BY <1>1, NewFrameType DEF AhciInv
    <2>. QED  BY <1>1, <1>2, <1>3, <1>4, <2>1, <2>2, CallTypes
<1>6. FirstDone'
    BY <1>2, <1>4 DEF FirstDone
<1>. QED  BY <1>3, <1>5, <1>6 DEF AhciInv

LEMMA StepWrite ==
    ASSUME AhciInv, NEW n \in 1..MAX_PORTS, NEW addr \in Nat, NEW length \in Nat,
           ahci_write(n, addr, length)
    PROVE  AhciInv'
<1>. DEFINE c == NewCall("write", n, addr, length)
<1>1. /\ pc = "idle" /\ n \in 1..Len(drive_port) /\ length \in 1..MAX_LEN
      /\ WriteSector(c, NewFrame)
      /\ calls < MaxCalls /\ calls' = calls + 1
      /\ UNCHANGED <<hardware, table, loops, byte_buffer>>
    BY DEF ahci_write, CountCall
<1>2. /\ NoLive /\ c \in Call /\ c.i = 0 /\ c.i < sectors(c) /\ c.op = "write"
      /\ c.clean => \A q \in Ports : ~hba[q].ci
    BY <1>1, CallBegins
<1>. HIDE DEF c
<1>n. NewFrame \in Buffer
    BY NewFrameType DEF AhciInv
<1>3. /\ hba' \in [Ports -> Port] /\ timeout_us' \in 0..TIMEOUT
      /\ sector_buf' \in Buffer
      /\ PortsSane' /\ LiveOwned'
      /\ CallSane' /\ OnlyOurs' /\ ReadLanded' /\ Merged'
      /\ call' = c /\ pc' \in {"read", "write"}
    <2>1. CASE Partial(c, c.i) /\ ReadSector(c) /\ sector_buf' = NewFrame
        BY <1>2, <1>n, <2>1, ReadIssued DEF ReadSector
    <2>2. CASE ~Partial(c, c.i) /\ WriteBack(c, NewFrame)
        <3>1. call' = c /\ pc' = "write"
            BY <2>2 DEF WriteBack
        <3>. QED  BY <1>1, <1>2, <1>n, <2>2, <3>1, WriteIssued
    <2>. QED  BY <1>1, <2>1, <2>2 DEF WriteSector
<1>5. TypeOK' /\ PluggedOnce' /\ TableSound'
    <2>1. calls' \in 0..MaxCalls /\ byte_buffer' \in [0..(MAX_LEN - 1) -> Cell]
        BY <1>1, AhciAssumption DEF AhciInv, TypeOK
    <2>. QED  BY <1>1, <1>2, <1>3, <2>1, CallTypes
<1>6. FirstDone'
    BY <1>2, <1>3 DEF FirstDone
<1>. QED  BY <1>3, <1>5, <1>6 DEF AhciInv

(* When the command of the call has completed, no command is live and, for *)
(* a clean call, there is none at all.                                     *)
LEMMA CallContinues ==
    ASSUME AhciInv, pc \in {"read", "write"}, Completed(call.port)
    PROVE  /\ NoLive /\ call \in Call /\ call # None
           /\ call.i \in 0..(sectors(call) - 1) /\ sectors(call) \in 1..2
           /\ call.clean => \A q \in Ports : ~hba[q].ci
           /\ Answered
           /\ call.port \in Ports
<1>1. call \in Call /\ call # None
    BY DEF AhciInv, TypeOK
<1>2. /\ call.i \in 0..1 /\ call.i < sectors(call) /\ sectors(call) \in 1..2
      /\ call.port \in Ports
    BY <1>1, SectorParts DEF AhciInv, CallSane, Call
<1>3. NoLive
    BY NoneLive DEF Waiting, WaitingPort, Completed
<1>4. call.clean => \A q \in Ports : ~hba[q].ci
    BY <1>1 DEF AhciInv, OnlyOurs, Clean, Completed
<1>. QED  BY <1>1, <1>2, <1>3, <1>4 DEF Completed, Answered

(* The call returns: no command that it issued is live any more. *)
LEMMA Returns ==
    ASSUME AhciInv, Return, hba' \in [Ports -> Port], PortsSane', LiveOwned',
           byte_buffer' \in [0..(MAX_LEN - 1) -> Cell],
           UNCHANGED <<hardware, table, loops, calls>>
    PROVE  AhciInv'
<1>1. call' = None /\ pc' = "idle" /\ sector_buf' \in Buffer /\ timeout_us' \in 0..TIMEOUT
    BY NewFrameType, AhciAssumption DEF Return, AhciInv
<1>2. calls' \in 0..MaxCalls
    BY DEF AhciInv, TypeOK
<1>3. TypeOK' /\ PluggedOnce' /\ TableSound'
    BY <1>1, <1>2, CallTypes
<1>4. CallInv'
    BY <1>1, NoCall
<1>. QED  BY <1>3, <1>4 DEF AhciInv, CallInv

(* The call goes on to its second sector. *)
LEMMA SecondSector ==
    ASSUME NEW c \in Call, c.i \in 0..(sectors(c) - 1), sectors(c) \in 1..2,
           c.i + 1 < sectors(c)
    PROVE  LET d == [c EXCEPT !.i = @ + 1]
           IN  /\ d \in Call /\ c.i = 0 /\ d.i = 1 /\ d.i < sectors(d)
               /\ d.op = c.op /\ d.port = c.port /\ d.clean = c.clean
               /\ d.addr = c.addr /\ d.length = c.length
               /\ sectors(c) = 2 /\ sectors(d) = 2
               /\ start_sector(d) = start_sector(c)
               /\ \A i \in 0..1 : /\ start_off(d, i) = start_off(c, i)
                                   /\ end_off(d, i) = end_off(c, i)
                                   /\ copied(d, i) = copied(c, i)
<1>. DEFINE d == [c EXCEPT !.i = @ + 1]
<1>1. c.i = 0 /\ sectors(c) = 2
    OBVIOUS
<1>2. /\ d \in Call /\ d.i = 1 /\ d.op = c.op /\ d.port = c.port /\ d.clean = c.clean
      /\ d.addr = c.addr /\ d.length = c.length
    BY <1>1 DEF Call
<1>. HIDE DEF d
<1>3. start_sector(d) = start_sector(c) /\ sectors(d) = 2
    BY <1>1, <1>2 DEF start_sector, sectors
<1>4. \A i \in 0..1 : /\ start_off(d, i) = start_off(c, i)
                      /\ end_off(d, i) = end_off(c, i)
    BY <1>1, <1>2, <1>3 DEF start_off, end_off
<1>5. \A i \in 0..1 : copied(d, i) = copied(c, i)
    BY <1>4 DEF copied, chunk
<1>. QED  BY <1>1, <1>2, <1>3, <1>4, <1>5 DEF d

(* A part copied out of the buffer. *)
LEMMA CopyFacts ==
    ASSUME NEW out \in [0..(MAX_LEN - 1) -> Cell], TypeOK,
           NEW c \in Call, NEW i \in 0..(sectors(c) - 1)
    PROVE  /\ CopyOut(out, c, i) \in [0..(MAX_LEN - 1) -> Cell]
           /\ \A k \in start_off(c, i)..(end_off(c, i) - 1) :
                 CopyOut(out, c, i)[copied(c, i) + k - start_off(c, i)]
                    = sector_buf[i * SECTOR_SIZE + k]
           /\ \A j \in 0..(copied(c, i) - 1) : j \in 0..(MAX_LEN - 1)
                    => CopyOut(out, c, i)[j] = out[j]
<1>0. sectors(c) \in 1..2
    BY SectorParts
<1>. DEFINE Z == i * SECTOR_SIZE
            w == start_off(c, i)
            e == end_off(c, i)
            o == copied(c, i)
<1>1. /\ i \in 0..1 /\ SECTOR_SIZE \in Nat \ {0} /\ MAX_LEN \in Nat
      /\ w \in 0..(SECTOR_SIZE - 1) /\ e \in (w + 1)..SECTOR_SIZE /\ o \in Nat
    BY <1>0, SectorParts, AhciAssumption
<1>2. Z \in {0, SECTOR_SIZE}
    BY <1>1
<1>3. CopyOut(out, c, i) =
        [j \in 0..(MAX_LEN - 1) |-> IF j \in o..(o + (e - w) - 1)
                                    THEN sector_buf[Z + w + j - o] ELSE out[j]]
    BY DEF CopyOut, chunk
<1>4. \A k \in w..(e - 1) : o + k - w \in 0..(MAX_LEN - 1)
    BY PartInPayload
<1>. HIDE DEF Z, w, e, o
<1>5. \A j \in o..(o + (e - w) - 1) : Z + w + j - o \in 0..(2 * SECTOR_SIZE - 1)
    BY <1>1, <1>2
<1>6. CopyOut(out, c, i) \in [0..(MAX_LEN - 1) -> Cell]
    BY <1>3, <1>5 DEF TypeOK
<1>7. ASSUME NEW k \in w..(e - 1)
      PROVE  CopyOut(out, c, i)[o + k - w] = sector_buf[Z + k]
    <2>1. o + k - w \in o..(o + (e - w) - 1) /\ Z + w + (o + k - w) - o = Z + k
        BY <1>1, <1>2
    <2>. QED  BY <1>3, <1>4, <2>1
<1>8. \A j \in 0..(o - 1) : j \in 0..(MAX_LEN - 1) => CopyOut(out, c, i)[j] = out[j]
    BY <1>1, <1>3
<1>. QED  BY <1>6, <1>7, <1>8 DEF Z, w, e, o

(* What was copied out of the first sector is what the disk has there. *)
LEMMA FirstRead ==
    ASSUME AhciInv, pc = "read", call.op = "read", Completed(call.port),
           call.i + 1 < sectors(call), UNCHANGED hardware,
           byte_buffer' = CopyOut(byte_buffer, call, call.i),
           call' = [call EXCEPT !.i = @ + 1]
    PROVE  FirstDone'
<1>1. /\ call \in Call /\ call # None /\ Answered
      /\ call.i \in 0..(sectors(call) - 1) /\ sectors(call) \in 1..2
    BY CallContinues
<1>. DEFINE d == [call EXCEPT !.i = @ + 1]
<1>2. /\ d \in Call /\ call.i = 0 /\ d.op = call.op /\ d.port = call.port
      /\ d.clean = call.clean /\ start_sector(d) = start_sector(call)
      /\ start_off(d, 0) = start_off(call, 0) /\ end_off(d, 0) = end_off(call, 0)
    <2>1. /\ d \in Call /\ call.i = 0 /\ d.op = call.op /\ d.port = call.port
          /\ d.clean = call.clean /\ start_sector(d) = start_sector(call)
          /\ \A i \in 0..1 : /\ start_off(d, i) = start_off(call, i)
                              /\ end_off(d, i) = end_off(call, i)
        BY <1>1, SecondSector
    <2>. HIDE DEF d
    <2>. QED  BY <2>1
<1>3. call' = d
    OBVIOUS
<1>. HIDE DEF d
<1>4. SUFFICES ASSUME call.clean, d # None
      PROVE  /\ plugged[call.port] # None /\ start_sector(call) + 0 < DiskSectors
             /\ \A k \in Part(0) : SectorOnDisk(0, k) = byte_buffer'[k - start_off(call, 0)]
    BY <1>2, <1>3 DEF FirstDone, Clean, Reached, SectorOnDisk, Part, hardware
<1>5. /\ Reached(0)
      /\ \A k \in 0..(SECTOR_SIZE - 1) : sector_buf[0 * SECTOR_SIZE + k] = SectorOnDisk(0, k)
    BY <1>1, <1>2, <1>4 DEF AhciInv, ReadLanded, Clean
<1>6. /\ copied(call, 0) = 0 /\ 0 \in 0..(sectors(call) - 1)
      /\ start_off(call, 0) \in Nat /\ end_off(call, 0) \in 0..SECTOR_SIZE
    <2>1. 0 \in 0..(sectors(call) - 1)
        BY <1>1
    <2>2. /\ start_off(call, 0) \in 0..(SECTOR_SIZE - 1)
          /\ end_off(call, 0) \in (start_off(call, 0) + 1)..SECTOR_SIZE
          /\ copied(call, 0) = 0
        BY <1>1, <2>1, SectorParts
    <2>. QED  BY <2>1, <2>2, AhciAssumption
<1>7. \A k \in start_off(call, 0)..(end_off(call, 0) - 1) :
         byte_buffer'[copied(call, 0) + k - start_off(call, 0)] = sector_buf[0 * SECTOR_SIZE + k]
    <2>1. TypeOK /\ byte_buffer \in [0..(MAX_LEN - 1) -> Cell]
        BY DEF AhciInv, TypeOK
    <2>2. byte_buffer' = CopyOut(byte_buffer, call, 0)
        BY <1>2
    <2>. QED  BY <1>1, <1>6, <2>1, <2>2, CopyFacts
<1>8. \A k \in Part(0) : SectorOnDisk(0, k) = byte_buffer'[k - start_off(call, 0)]
    <2>1. SUFFICES ASSUME NEW k \in Part(0)
                   PROVE  SectorOnDisk(0, k) = byte_buffer'[k - start_off(call, 0)]
        OBVIOUS
    <2>2. /\ k \in start_off(call, 0)..(end_off(call, 0) - 1) /\ k \in 0..(SECTOR_SIZE - 1)
          /\ copied(call, 0) + k - start_off(call, 0) = k - start_off(call, 0)
        BY <1>6, AhciAssumption DEF Part
    <2>. QED  BY <1>5, <1>7, <2>2
<1>. QED  BY <1>5, <1>8 DEF Reached

LEMMA StepReadStep == ASSUME AhciInv, read_step PROVE AhciInv'
<1>. DEFINE d == [call EXCEPT !.i = @ + 1]
<1>1. /\ pc = "read" /\ call.op = "read" /\ Completed(call.port)
      /\ byte_buffer' = CopyOut(byte_buffer, call, call.i)
      /\ UNCHANGED <<hardware, table, loops, calls>>
    BY DEF read_step
<1>2. /\ NoLive /\ call \in Call /\ call # None
      /\ call.i \in 0..(sectors(call) - 1) /\ sectors(call) \in 1..2
      /\ call.clean => \A q \in Ports : ~hba[q].ci
    BY <1>1, CallContinues
<1>3. byte_buffer' \in [0..(MAX_LEN - 1) -> Cell]
    BY <1>1, <1>2, CopyFacts DEF AhciInv, TypeOK
<1>4. CASE /\ call.i + 1 < sectors(call) /\ ReadSector(d) /\ sector_buf' = sector_buf
    <2>1. /\ d \in Call /\ d.i < sectors(d) /\ d.op = "read" /\ d.clean = call.clean
        BY <1>1, <1>2, <1>4, SecondSector
    <2>2. call' = d /\ pc' = "read"
        BY <1>4 DEF ReadSector
    <2>3. FirstDone'
        BY <1>1, <1>4, <2>2, FirstRead
    <2>4. calls' \in 0..MaxCalls /\ sector_buf' \in Buffer
        BY <1>1, <1>4 DEF AhciInv, TypeOK, Buffer
    <2>. HIDE DEF d
    <2>5. /\ hba' \in [Ports -> Port] /\ timeout_us' \in 0..TIMEOUT
          /\ PortsSane' /\ LiveOwned'
          /\ CallSane' /\ OnlyOurs' /\ ReadLanded' /\ Merged'
        BY <1>2, <1>4, <2>1, ReadIssued
    <2>6. TypeOK' /\ PluggedOnce' /\ TableSound'
        BY <1>1, <1>3, <2>1, <2>2, <2>4, <2>5, CallTypes
    <2>. QED  BY <2>3, <2>5, <2>6 DEF AhciInv
<1>5. CASE Return /\ hba' = hba
    <2>1. hba' \in [Ports -> Port] /\ PortsSane' /\ LiveOwned'
        BY <1>2, <1>5, StillNoLive DEF AhciInv, TypeOK, Port, PortsSane
    <2>. QED  BY <1>1, <1>3, <1>5, <2>1, Returns
<1>. QED  BY <1>4, <1>5 DEF read_step

LEMMA StepWriteMerge == ASSUME AhciInv, write_merge PROVE AhciInv'
<1>1. /\ pc = "read" /\ call.op = "write" /\ Completed(call.port)
      /\ WriteBack(call, sector_buf)
      /\ UNCHANGED <<hardware, table, loops, byte_buffer, calls>>
    BY DEF write_merge
<1>2. /\ NoLive /\ call \in Call /\ call # None /\ Answered
      /\ call.i \in 0..(sectors(call) - 1) /\ sectors(call) \in 1..2
      /\ call.clean => \A q \in Ports : ~hba[q].ci
    BY <1>1, CallContinues
<1>3. call' = call /\ pc' = "write"
    BY <1>1 DEF WriteBack
<1>4. /\ sector_buf \in Buffer /\ calls' \in 0..MaxCalls
      /\ byte_buffer' \in [0..(MAX_LEN - 1) -> Cell] /\ call.i < sectors(call)
    BY <1>1 DEF AhciInv, TypeOK, Buffer, CallSane
<1>5. call.clean =>
        /\ plugged[call.port] # None /\ start_sector(call) + call.i < DiskSectors
        /\ \A k \in 0..(SECTOR_SIZE - 1) : sector_buf[call.i * SECTOR_SIZE + k] =
              disk[plugged[call.port]][(start_sector(call) + call.i) * SECTOR_SIZE + k]
    BY <1>1, <1>2 DEF AhciInv, ReadLanded, Clean, Reached, SectorOnDisk
<1>6. /\ hba' \in [Ports -> Port] /\ timeout_us' \in 0..TIMEOUT
      /\ sector_buf' \in Buffer
      /\ PortsSane' /\ LiveOwned'
      /\ CallSane' /\ OnlyOurs' /\ ReadLanded' /\ Merged'
    BY <1>1, <1>2, <1>4, <1>5, WriteIssued
<1>7. TypeOK' /\ PluggedOnce' /\ TableSound'
    BY <1>1, <1>2, <1>3, <1>4, <1>6, CallTypes
<1>8. FirstDone'
    BY <1>1, <1>3 DEF AhciInv, FirstDone, Clean, Reached, SectorOnDisk, Part, Ours, hardware
<1>. QED  BY <1>6, <1>7, <1>8 DEF AhciInv

(* The first sector of a write is on disk when its command is done. *)
LEMMA FirstWritten ==
    ASSUME AhciInv, pc = "write", Completed(call.port),
           call.i + 1 < sectors(call), UNCHANGED hardware,
           call' = [call EXCEPT !.i = @ + 1]
    PROVE  FirstDone'
<1>1. /\ call \in Call /\ call # None /\ Answered /\ call.op = "write"
      /\ call.i \in 0..(sectors(call) - 1) /\ sectors(call) \in 1..2
    BY CallContinues DEF AhciInv, CallSane
<1>. DEFINE d == [call EXCEPT !.i = @ + 1]
<1>2. /\ d \in Call /\ call.i = 0 /\ d.op = call.op /\ d.port = call.port
      /\ d.clean = call.clean /\ start_sector(d) = start_sector(call)
      /\ start_off(d, 0) = start_off(call, 0) /\ end_off(d, 0) = end_off(call, 0)
      /\ copied(d, 0) = copied(call, 0)
    BY <1>1, SecondSector
<1>3. call' = d
    OBVIOUS
<1>. HIDE DEF d
<1>4. SUFFICES ASSUME call.clean, d # None
      PROVE  Reached(0) /\ \A k \in Part(0) : SectorOnDisk(0, k) = Ours(0, k)
    BY <1>1, <1>2, <1>3 DEF FirstDone, Clean, Reached, SectorOnDisk, Part, Ours, hardware
<1>. QED  BY <1>1, <1>2, <1>4 DEF AhciInv, Merged, Clean

LEMMA StepWriteStep == ASSUME AhciInv, write_step PROVE AhciInv'
<1>. DEFINE d == [call EXCEPT !.i = @ + 1]
<1>1. /\ pc = "write" /\ Completed(call.port)
      /\ UNCHANGED <<hardware, table, loops, byte_buffer, calls>>
    BY DEF write_step
<1>2. /\ NoLive /\ call \in Call /\ call # None /\ call.op = "write"
      /\ call.i \in 0..(sectors(call) - 1) /\ sectors(call) \in 1..2
      /\ call.clean => \A q \in Ports : ~hba[q].ci
    BY <1>1, CallContinues DEF AhciInv, CallSane
<1>3. /\ byte_buffer' \in [0..(MAX_LEN - 1) -> Cell] /\ calls' \in 0..MaxCalls
      /\ sector_buf \in Buffer
    BY <1>1 DEF AhciInv, TypeOK, Buffer
<1>4. CASE call.i + 1 < sectors(call) /\ WriteSector(d, sector_buf)
    <2>1. /\ d \in Call /\ d.i < sectors(d) /\ d.op = "write" /\ d.clean = call.clean
        BY <1>1, <1>2, <1>4, SecondSector
    <2>2. call' = d /\ pc' \in {"read", "write"}
        BY <1>4 DEF WriteSector, ReadSector, WriteBack
    <2>3. FirstDone'
        BY <1>1, <1>4, <2>2, FirstWritten
    <2>. HIDE DEF d
    <2>5. /\ hba' \in [Ports -> Port] /\ timeout_us' \in 0..TIMEOUT
          /\ sector_buf' \in Buffer
          /\ PortsSane' /\ LiveOwned'
          /\ CallSane' /\ OnlyOurs' /\ ReadLanded' /\ Merged'
        <3>1. CASE Partial(d, d.i) /\ ReadSector(d) /\ sector_buf' = sector_buf
            BY <1>2, <1>3, <2>1, <3>1, ReadIssued
        <3>2. CASE ~Partial(d, d.i) /\ WriteBack(d, sector_buf)
            BY <1>1, <1>2, <1>3, <2>1, <3>2, WriteIssued
        <3>. QED  BY <1>4, <3>1, <3>2 DEF WriteSector
    <2>6. TypeOK' /\ PluggedOnce' /\ TableSound'
        BY <1>1, <1>3, <2>1, <2>2, <2>5, CallTypes
    <2>. QED  BY <2>3, <2>5, <2>6 DEF AhciInv
<1>5. CASE Return /\ hba' = hba
    <2>1. hba' \in [Ports -> Port] /\ PortsSane' /\ LiveOwned'
        BY <1>2, <1>5, StillNoLive DEF AhciInv, TypeOK, Port, PortsSane
    <2>. QED  BY <1>1, <1>3, <1>5, <2>1, Returns
<1>. QED  BY <1>4, <1>5 DEF write_step

LEMMA StepGiveUp == ASSUME AhciInv, give_up PROVE AhciInv'
<1>1. /\ pc \in {"read", "write"} /\ Return
      /\ hba' = [hba EXCEPT ![call.port] = Disown(@)]
      /\ UNCHANGED <<hardware, table, loops, byte_buffer, calls>>
    BY DEF give_up
<1>2. call \in Call /\ call.port \in Ports /\ Waiting /\ WaitingPort = call.port
    BY <1>1 DEF AhciInv, TypeOK, Call, Waiting, WaitingPort
<1>3. hba' \in [Ports -> Port] /\ PortsSane' /\ LiveOwned'
    BY <1>1, <1>2, GiveUpPorts
<1>4. byte_buffer' \in [0..(MAX_LEN - 1) -> Cell]
    BY <1>1 DEF AhciInv, TypeOK
<1>. QED  BY <1>1, <1>3, <1>4, Returns

-----------------------------------------------------------------------------
(* The controller and the user.  A step that changes no data and answers   *)
(* nothing leaves the call under way as it was.                            *)
LEMMA CallUndisturbed ==
    ASSUME AhciInv, UNCHANGED <<call, pc, disk, sector_buf, byte_buffer>>,
           Clean => plugged'[call.port] = plugged[call.port],
           Clean => (Answered' => Answered),
           OnlyOurs'
    PROVE  CallInv'
<1>1. CallSane'
    BY DEF AhciInv, CallSane
<1>2. ReadLanded'
    BY DEF AhciInv, ReadLanded, Clean, Reached, SectorOnDisk
<1>3. Merged'
    BY DEF AhciInv, Merged, Clean, Reached, SectorOnDisk, Part, Ours
<1>4. FirstDone'
    BY DEF AhciInv, FirstDone, Clean, Reached, SectorOnDisk, Part, Ours
<1>. QED  BY <1>1, <1>2, <1>3, <1>4 DEF CallInv

(* The port of a call, and the only port of a clean one with a command. *)
LEMMA OwnPort ==
    ASSUME AhciInv, Clean
    PROVE  /\ call \in Call /\ call # None /\ call.port \in Ports
           /\ pc \in {"read", "write"}
           /\ call.i \in 0..(sectors(call) - 1)
           /\ \A p \in Ports : hba[p].ci => p = call.port
<1>1. call \in Call /\ call # None /\ call.port \in Ports /\ pc \in {"read", "write"}
    BY DEF AhciInv, TypeOK, Clean, Call
<1>2. call.i \in 0..(sectors(call) - 1)
    BY <1>1, SectorParts DEF AhciInv, CallSane, Call
<1>. QED  BY <1>1, <1>2 DEF AhciInv, OnlyOurs

LEMMA StepFetch == ASSUME AhciInv, NEW p \in Ports, Fetch(p) PROVE AhciInv'
<1>. USE DEF hardware, table, loops, transfer
<1>1. /\ hba[p].ci /\ hba[p].fetched = None
      /\ hba' = [hba EXCEPT ![p].fetched = hba[p].slot]
      /\ UNCHANGED <<hardware, table, pc, loops, timeout_us, transfer>>
    BY DEF Fetch
<1>2. hba \in [Ports -> Port]
    BY DEF AhciInv, TypeOK, Port
<1>3. /\ hba' \in [Ports -> Port]
      /\ hba'[p].ci = hba[p].ci /\ hba'[p].tfes = hba[p].tfes /\ hba'[p].slot = hba[p].slot
      /\ hba'[p].fetched = hba[p].slot
      /\ \A q \in Ports \ {p} : hba'[q] = hba[q]
    BY <1>1, <1>2 DEF Port
<1>4. TypeOK'
    BY <1>1, <1>3 DEF AhciInv, TypeOK, Port
<1>5. PluggedOnce' /\ TableSound'
    BY <1>1 DEF AhciInv, PluggedOnce, TableSound, EachPortOnce, already
<1>6. PortsSane'
    BY <1>1, <1>3 DEF AhciInv, PortsSane
<1>7. LiveOwned'
    <2>1. UNCHANGED <<Waiting, WaitingPort, Current>>
        BY <1>1 DEF Waiting, WaitingPort, Current
    <2>2. \A q \in Ports : {hba'[q].slot, hba'[q].fetched} \subseteq {hba[q].slot, hba[q].fetched}
        BY <1>3
    <2>. QED  BY <2>1, <2>2 DEF AhciInv, LiveOwned
<1>8. OnlyOurs'
    <2>1. UNCHANGED <<Clean, Current, call>>
        BY <1>1 DEF Clean, Current
    <2>. QED  BY <1>1, <1>3, <2>1, OwnPort DEF AhciInv, OnlyOurs
<1>9. Clean => (Answered' => Answered)
    <2>1. SUFFICES ASSUME Clean PROVE Answered' => Answered
        OBVIOUS
    <2>2. call.port \in Ports
        BY <2>1, OwnPort
    <2>. QED  BY <1>1, <1>3, <2>2 DEF Answered
<1>10. CallInv'
    BY <1>1, <1>8, <1>9, CallUndisturbed
<1>. QED  BY <1>4, <1>5, <1>6, <1>7, <1>10 DEF AhciInv, CallInv

LEMMA StepError == ASSUME AhciInv, NEW p \in Ports, Error(p) PROVE AhciInv'
<1>. USE DEF hardware, table, loops, transfer
<1>1. /\ hba[p].ci /\ hba[p].fetched \in Cmd
      /\ UNCHANGED <<hardware, table, pc, loops, timeout_us, transfer>>
    BY DEF Error
<1>2. hba \in [Ports -> Port]
    BY DEF AhciInv, TypeOK, Port
<1>3. /\ hba' \in [Ports -> Port]
      /\ hba'[p].tfes = TRUE
      /\ \/ hba'[p].ci = hba[p].ci /\ hba'[p].slot = hba[p].slot /\ hba'[p].fetched = Gone
         \/ hba'[p].ci = FALSE /\ hba'[p].slot = None /\ hba'[p].fetched = None
      /\ \A q \in Ports \ {p} : hba'[q] = hba[q]
    <2>1. CASE hba' = [hba EXCEPT ![p].tfes = TRUE, ![p].fetched = Gone]
        BY <1>2, <2>1 DEF Port
    <2>2. CASE hba' = [hba EXCEPT ![p] = [Stopped EXCEPT !.tfes = TRUE]]
        BY <1>2, <2>2 DEF Port, Stopped
    <2>. QED  BY <2>1, <2>2 DEF Error
<1>4. TypeOK'
    BY <1>1, <1>3 DEF AhciInv, TypeOK, Port
<1>5. PluggedOnce' /\ TableSound'
    BY <1>1 DEF AhciInv, PluggedOnce, TableSound, EachPortOnce, already
<1>6. PortsSane'
    BY <1>1, <1>3 DEF AhciInv, PortsSane
<1>7. LiveOwned'
    <2>1. UNCHANGED <<Waiting, WaitingPort, Current>>
        BY <1>1 DEF Waiting, WaitingPort, Current
    <2>2. \A q \in Ports : {hba'[q].slot, hba'[q].fetched} \cap Cmd
                              \subseteq {hba[q].slot, hba[q].fetched}
        BY <1>3, CmdAssumption
    <2>. QED  BY <2>1, <2>2 DEF AhciInv, LiveOwned
<1>8. OnlyOurs'
    <2>1. UNCHANGED <<Clean, Current, call>>
        BY <1>1 DEF Clean, Current
    <2>. QED  BY <1>1, <1>3, <2>1, OwnPort DEF AhciInv, OnlyOurs
<1>9. Clean => (Answered' => Answered)
    <2>1. SUFFICES ASSUME Clean PROVE Answered' => Answered
        OBVIOUS
    <2>2. call.port = p
        BY <1>1, <2>1, OwnPort
    <2>. QED  BY <1>1, <1>3, <2>2 DEF Answered
<1>10. CallInv'
    BY <1>1, <1>8, <1>9, CallUndisturbed
<1>. QED  BY <1>4, <1>5, <1>6, <1>7, <1>10 DEF AhciInv, CallInv

LEMMA StepPlug ==
    ASSUME AhciInv, NEW p \in Ports, NEW d \in Disks, Plug(p, d)
    PROVE  AhciInv'
<1>. USE DEF hardware, table, loops, transfer
<1>1. /\ plugs < MaxPlugs /\ plugs' = plugs + 1 /\ plugged[p] = None
      /\ \A q \in Ports : plugged[q] # d
      /\ plugged' = [plugged EXCEPT ![p] = d]
      /\ UNCHANGED <<controller, disk, hba, table, pc, loops, timeout_us, transfer>>
    BY DEF Plug
<1>2. /\ plugged' \in [Ports -> Disks \cup {None}] /\ plugged'[p] = d
      /\ \A q \in Ports \ {p} : plugged'[q] = plugged[q]
    BY <1>1 DEF AhciInv, TypeOK
<1>3. TypeOK'
    <2>1. plugs' \in 0..MaxPlugs
        <3>1. plugs \in 0..MaxPlugs /\ MaxPlugs \in Nat
            BY AhciAssumption DEF AhciInv, TypeOK
        <3>. QED  BY <1>1, <3>1
    <2>. QED  BY <1>1, <1>2, <2>1 DEF AhciInv, TypeOK
<1>4. PluggedOnce'
    BY <1>1, <1>2 DEF AhciInv, PluggedOnce
<1>5. PortsSane' /\ TableSound'
    BY <1>1 DEF AhciInv, PortsSane, TableSound, EachPortOnce, already
<1>6. LiveOwned'
    BY <1>1 DEF AhciInv, LiveOwned, Waiting, WaitingPort, Current
<1>7. OnlyOurs'
    BY <1>1 DEF AhciInv, OnlyOurs, Clean, Current
<1>8. CallInv'
    <2>1. CASE Clean /\ call.port = p
        <3>1. ~Reached(0) /\ ~Reached(1)
            BY <1>1, <2>1 DEF Reached
        <3>2. call \in Call /\ call.i \in 0..(sectors(call) - 1) /\ call.i \in 0..1
            BY <2>1, OwnPort DEF Call
        <3>3. ~(pc = "read" /\ Answered) /\ call.i # 1
            BY <2>1, <3>1, <3>2 DEF AhciInv, ReadLanded, FirstDone
        <3>4. pc = "write" => /\ ~Answered /\ ~Partial(call, call.i)
                              /\ \A k \in Part(call.i) :
                                    sector_buf[call.i * SECTOR_SIZE + k] = Ours(call.i, k)
            BY <2>1, <3>1, <3>2 DEF AhciInv, Merged
        <3>5. ~Partial(call, call.i) => Part(call.i) = 0..(SECTOR_SIZE - 1)
            BY <3>2, WholeSector DEF Part
        <3>6. CallSane'
            BY <1>1 DEF AhciInv, CallSane
        <3>7. ReadLanded'
            BY <1>1, <3>3 DEF ReadLanded, Answered
        <3>8. FirstDone'
            BY <1>1, <3>3 DEF FirstDone
        <3>9. Merged'
            <4>1. UNCHANGED <<call, pc, Answered>>
                BY <1>1 DEF Answered
            <4>2. Part(call.i)' = Part(call.i) /\ \A k : Ours(call.i, k)' = Ours(call.i, k)
                BY <1>1 DEF Part, Ours
            <4>. QED  BY <1>1, <3>4, <3>5, <4>1, <4>2 DEF Merged
        <3>. QED  BY <1>7, <3>6, <3>7, <3>8, <3>9 DEF CallInv
    <2>2. CASE ~(Clean /\ call.port = p)
        <3>1. Clean => plugged'[call.port] = plugged[call.port]
            BY <1>2, <2>2, OwnPort
        <3>2. Answered' => Answered
            BY <1>1 DEF Answered
        <3>. QED  BY <1>1, <1>7, <3>1, <3>2, CallUndisturbed
    <2>. QED  BY <2>1, <2>2
<1>. QED  BY <1>3, <1>4, <1>5, <1>6, <1>8 DEF AhciInv, CallInv

LEMMA StepUnplug == ASSUME AhciInv, NEW p \in Ports, Unplug(p) PROVE AhciInv'
<1>. USE DEF table, loops
<1>1. /\ plugs < MaxPlugs /\ plugs' = plugs + 1
      /\ plugged' = [plugged EXCEPT ![p] = None]
      /\ hba' = [hba EXCEPT ![p].fetched = IF hba[p].ci THEN Gone ELSE None]
      /\ UNCHANGED <<controller, disk, table, pc, loops, timeout_us,
                     byte_buffer, sector_buf, calls>>
    BY DEF Unplug
<1>2. /\ plugged' \in [Ports -> Disks \cup {None}] /\ plugged'[p] = None
      /\ \A q \in Ports \ {p} : plugged'[q] = plugged[q]
    BY <1>1 DEF AhciInv, TypeOK
<1>3. hba \in [Ports -> Port]
    BY DEF AhciInv, TypeOK, Port
<1>4. /\ hba' \in [Ports -> Port]
      /\ hba'[p].ci = hba[p].ci /\ hba'[p].tfes = hba[p].tfes /\ hba'[p].slot = hba[p].slot
      /\ hba'[p].fetched = IF hba[p].ci THEN Gone ELSE None
      /\ \A q \in Ports \ {p} : hba'[q] = hba[q]
    BY <1>1, <1>3 DEF Port
<1>5. /\ call' \in Call \cup {None} /\ (call' = None <=> call = None)
      /\ call # None => /\ call'.op = call.op /\ call'.port = call.port
                        /\ call'.addr = call.addr /\ call'.length = call.length
                        /\ call'.i = call.i
      /\ Clean' => call' = call /\ call.port # p
    <2>1. CASE call # None /\ call.port = p
        <3>1. call \in Call /\ call' = [call EXCEPT !.clean = FALSE]
            BY <2>1 DEF Unplug, Spoil, AhciInv, TypeOK
        <3>2. call' \in Call /\ call'.clean = FALSE
            BY <3>1 DEF Call
        <3>3. ~Clean' /\ call' # None
            BY <3>2, CmdAssumption DEF Clean
        <3>. QED  BY <2>1, <3>1, <3>2, <3>3 DEF Call
    <2>2. CASE ~(call # None /\ call.port = p)
        <3>1. call' = call
            BY <2>2 DEF Unplug, Spoil
        <3>. QED  BY <2>2, <3>1 DEF Clean, AhciInv, TypeOK
    <2>. QED  BY <2>1, <2>2
<1>6. TypeOK'
    <2>1. plugs' \in 0..MaxPlugs
        <3>1. plugs \in 0..MaxPlugs /\ MaxPlugs \in Nat
            BY AhciAssumption DEF AhciInv, TypeOK
        <3>. QED  BY <1>1, <3>1
    <2>. QED  BY <1>1, <1>2, <1>4, <1>5, <2>1 DEF AhciInv, TypeOK, Port
<1>7. PluggedOnce'
    BY <1>2 DEF AhciInv, PluggedOnce
<1>8. PortsSane' /\ TableSound'
    BY <1>1, <1>4 DEF AhciInv, PortsSane, TableSound, EachPortOnce, already
<1>w. call # None => /\ start_sector(call') = start_sector(call)
                     /\ sectors(call') = sectors(call)
                     /\ \A i : Partial(call', i) = Partial(call, i)
    BY <1>5 DEF start_sector, sectors, Partial, start_off, end_off
<1>9. LiveOwned'
    <2>1. SUFFICES ASSUME NEW q \in Ports,
                          NEW x \in {hba'[q].slot, hba'[q].fetched} \cap Cmd, x.live
                   PROVE  Waiting' /\ q = WaitingPort' /\ x = Current'
        BY DEF LiveOwned
    <2>2. x \in {hba[q].slot, hba[q].fetched} \cap Cmd
        BY <1>4, <2>1, CmdAssumption
    <2>3. Waiting /\ q = WaitingPort /\ x = Current
        BY <2>1, <2>2 DEF AhciInv, LiveOwned
    <2>4. pc = "identify" \/ call # None
        BY <2>3 DEF Waiting, AhciInv, TypeOK
    <2>. QED  BY <1>1, <1>5, <1>w, <2>3, <2>4 DEF Waiting, WaitingPort, Current
<1>10. CallInv'
    <2>1. CASE Clean'
        <3>1. call' = call /\ call.port # p /\ Clean
            BY <1>5, <2>1 DEF Clean
        <3>2. call.port \in Ports /\ call # None
            BY <3>1, OwnPort
        <3>3. plugged'[call.port] = plugged[call.port] /\ hba'[call.port] = hba[call.port]
            BY <1>2, <1>4, <3>1, <3>2
        <3>4. OnlyOurs'
            <4>1. Current' = Current
                BY <1>1, <3>1 DEF Current
            <4>. QED  BY <1>4, <3>1, <3>3, <4>1 DEF AhciInv, OnlyOurs
        <3>5. Answered' => Answered
            BY <3>1, <3>3 DEF Answered
        <3>. QED  BY <1>1, <3>1, <3>3, <3>4, <3>5, CallUndisturbed
    <2>2. CASE ~Clean'
        <3>1. CallSane'
            BY <1>1, <1>5, <1>w DEF AhciInv, CallSane
        <3>. QED  BY <2>2, <3>1 DEF CallInv, OnlyOurs, ReadLanded, Merged, FirstDone
    <2>. QED  BY <2>1, <2>2
<1>. QED  BY <1>6, <1>7, <1>8, <1>9, <1>10 DEF AhciInv, CallInv

(* The bytes of a sector lie on the disk, and those of two sectors apart. *)
LEMMA SectorBytes ==
    ASSUME NEW lba \in Nat, lba < DiskSectors
    PROVE  /\ lba * SECTOR_SIZE \in Nat
           /\ \A k \in 0..(SECTOR_SIZE - 1) : lba * SECTOR_SIZE + k \in DiskBytes
<1>. DEFINE Z == lba * SECTOR_SIZE
            E == DiskSectors * SECTOR_SIZE
<1>1. Z \in Nat /\ (lba + 1) * SECTOR_SIZE = Z + SECTOR_SIZE /\ E \in Nat
      /\ SECTOR_SIZE \in Nat /\ (lba + 1) * SECTOR_SIZE <= E
    <2>1. lba + 1 \in Nat /\ lba + 1 <= DiskSectors /\ DiskSectors \in Nat /\ SECTOR_SIZE \in Nat
        BY AhciAssumption
    <2>. QED  BY <2>1, Product
<1>2. DiskBytes = 0..(E - 1)
    BY DEF DiskBytes
<1>. HIDE DEF Z, E
<1>3. \A k \in 0..(SECTOR_SIZE - 1) : Z + k \in 0..(E - 1)
    BY <1>1
<1>. QED  BY <1>1, <1>2, <1>3 DEF Z

(* What a completed command has done to the buffer or to the disk. *)
LEMMA LandedFacts ==
    ASSUME TypeOK, NEW cmd \in Cmd, NEW d \in Disks, cmd.lba < DiskSectors
    PROVE  /\ Landed(cmd, d) \in Buffer
           /\ \A k \in 0..(SECTOR_SIZE - 1) :
                 Landed(cmd, d)[cmd.half * SECTOR_SIZE + k] = disk[d][cmd.lba * SECTOR_SIZE + k]
<1>. DEFINE Z == cmd.half * SECTOR_SIZE
            B == cmd.lba * SECTOR_SIZE
<1>1. cmd.half \in 0..1 /\ cmd.lba \in Nat /\ SECTOR_SIZE \in Nat \ {0}
    BY AhciAssumption DEF Cmd
<1>2. Z \in {0, SECTOR_SIZE}
    BY <1>1
<1>3. B \in Nat /\ \A k \in 0..(SECTOR_SIZE - 1) : B + k \in DiskBytes
    BY <1>1, SectorBytes
<1>4. Landed(cmd, d) = [j \in 0..(2 * SECTOR_SIZE - 1) |->
                           IF j - Z \in 0..(SECTOR_SIZE - 1)
                           THEN disk[d][B + (j - Z)] ELSE sector_buf[j]]
    BY DEF Landed, TypeOK
<1>. HIDE DEF Z, B
<1>5. Landed(cmd, d) \in Buffer
    BY <1>3, <1>4 DEF TypeOK, Buffer
<1>6. ASSUME NEW k \in 0..(SECTOR_SIZE - 1)
      PROVE  Landed(cmd, d)[Z + k] = disk[d][B + k]
    <2>1. Z + k \in 0..(2 * SECTOR_SIZE - 1) /\ (Z + k) - Z = k
        BY <1>1, <1>2
    <2>. QED  BY <1>4, <2>1
<1>. QED  BY <1>5, <1>6 DEF Z, B

LEMMA WrittenFacts ==
    ASSUME TypeOK, NEW cmd \in Cmd, NEW d \in Disks, cmd.lba < DiskSectors,
           NEW buf \in Buffer
    PROVE  LET w == Written(cmd, d, buf)
           IN  /\ w \in [Disks -> [DiskBytes -> Cell]]
               /\ \A e \in Disks \ {d} : w[e] = disk[e]
               /\ \A k \in 0..(SECTOR_SIZE - 1) :
                     w[d][cmd.lba * SECTOR_SIZE + k] = buf[cmd.half * SECTOR_SIZE + k]
               /\ \A b \in DiskBytes : b - cmd.lba * SECTOR_SIZE \notin 0..(SECTOR_SIZE - 1)
                     => w[d][b] = disk[d][b]
<1>. DEFINE Z == cmd.half * SECTOR_SIZE
            B == cmd.lba * SECTOR_SIZE
            w == Written(cmd, d, buf)
            s == [b \in DiskBytes |-> IF b - B \in 0..(SECTOR_SIZE - 1)
                                      THEN buf[Z + (b - B)] ELSE disk[d][b]]
<1>1. cmd.half \in 0..1 /\ cmd.lba \in Nat /\ SECTOR_SIZE \in Nat \ {0}
    BY AhciAssumption DEF Cmd
<1>2. Z \in {0, SECTOR_SIZE}
    BY <1>1
<1>3. B \in Nat /\ \A k \in 0..(SECTOR_SIZE - 1) : B + k \in DiskBytes
    BY <1>1, SectorBytes
<1>4. w = [disk EXCEPT ![d] = s]
    BY DEF Written
<1>. HIDE DEF Z, B, w
<1>5. \A k \in 0..(SECTOR_SIZE - 1) : Z + k \in 0..(2 * SECTOR_SIZE - 1)
    BY <1>1, <1>2
<1>6. s \in [DiskBytes -> Cell]
    BY <1>5 DEF Buffer, TypeOK
<1>7. ASSUME NEW k \in 0..(SECTOR_SIZE - 1) PROVE s[B + k] = buf[Z + k]
    <2>1. B + k \in DiskBytes
        BY <1>3
    <2>2. (B + k) - B = k
        BY <1>1, <1>3
    <2>. QED  BY <2>1, <2>2
<1>8. \A b \in DiskBytes : b - B \notin 0..(SECTOR_SIZE - 1) => s[b] = disk[d][b]
    OBVIOUS
<1>. HIDE DEF s
<1>9. w \in [Disks -> [DiskBytes -> Cell]] /\ w[d] = s /\ \A e \in Disks \ {d} : w[e] = disk[e]
    BY <1>4, <1>6 DEF TypeOK
<1>. QED  BY <1>7, <1>8, <1>9 DEF Z, B, w

(* A read completed for a clean call: its sector is in its half. *)
LEMMA ReadCompletes ==
    ASSUME AhciInv, Clean, pc = "read", NEW d \in Disks, d = plugged[call.port],
           NEW cmd \in Cmd, cmd = Current, cmd.lba < DiskSectors,
           sector_buf' = Landed(cmd, d),
           UNCHANGED <<call, pc, disk, plugged, byte_buffer>>
    PROVE  ReadLanded' /\ Merged' /\ FirstDone'
<1>1. cmd.lba = start_sector(call) + call.i /\ cmd.half = call.i
    BY DEF Current
<1>2. \A k \in 0..(SECTOR_SIZE - 1) :
         sector_buf'[cmd.half * SECTOR_SIZE + k] = disk[d][cmd.lba * SECTOR_SIZE + k]
    BY LandedFacts DEF AhciInv
<1>3. ReadLanded'
    <2>1. Reached(call.i)'
        BY <1>1, AhciAssumption DEF Reached
    <2>2. \A k \in 0..(SECTOR_SIZE - 1) :
             sector_buf'[call.i * SECTOR_SIZE + k]
                = disk[plugged[call.port]][(start_sector(call) + call.i) * SECTOR_SIZE + k]
        BY <1>1, <1>2
    <2>. QED  BY <2>1, <2>2 DEF ReadLanded, SectorOnDisk, Reached
<1>4. Merged'
    BY DEF Merged
<1>5. FirstDone'
    BY DEF AhciInv, FirstDone, Clean, Reached, SectorOnDisk, Part, Ours
<1>. QED  BY <1>3, <1>4, <1>5

(* A write completed for a clean call: what was merged is on disk. *)
LEMMA WriteCompletes ==
    ASSUME AhciInv, Clean, pc = "write", NEW d \in Disks, d = plugged[call.port],
           NEW cmd \in Cmd, cmd = Current, cmd.lba < DiskSectors,
           disk' = Written(cmd, d, sector_buf),
           UNCHANGED <<call, pc, sector_buf, plugged, byte_buffer>>
    PROVE  ReadLanded' /\ Merged' /\ FirstDone'
<1>1. cmd.lba = start_sector(call) + call.i /\ cmd.half = call.i
    BY DEF Current
<1>c. call \in Call /\ call # None /\ call.i \in 0..(sectors(call) - 1)
    BY OwnPort
<1>2. /\ \A k \in 0..(SECTOR_SIZE - 1) :
            disk'[d][cmd.lba * SECTOR_SIZE + k] = sector_buf[cmd.half * SECTOR_SIZE + k]
      /\ \A b \in DiskBytes : b - cmd.lba * SECTOR_SIZE \notin 0..(SECTOR_SIZE - 1)
            => disk'[d][b] = disk[d][b]
    <2>1. TypeOK /\ sector_buf \in Buffer
        BY DEF AhciInv, TypeOK, Buffer
    <2>. QED  BY <2>1, WrittenFacts
<1>3. \A k \in 0..(SECTOR_SIZE - 1) :
         SectorOnDisk(call.i, k)' = sector_buf[call.i * SECTOR_SIZE + k]
    BY <1>1, <1>2 DEF SectorOnDisk
<1>4. \A k \in Part(call.i) : k \in 0..(SECTOR_SIZE - 1)
    BY <1>c, PartInPayload DEF Part
<1>5. ReadLanded'
    BY DEF ReadLanded
<1>6. Merged'
    <2>1. Reached(call.i)'
        BY <1>1, AhciAssumption DEF Reached
    <2>2. \A k \in Part(call.i) : sector_buf[call.i * SECTOR_SIZE + k] = Ours(call.i, k)
        BY DEF AhciInv, Merged
    <2>3. Part(call.i)' = Part(call.i) /\ \A k : Ours(call.i, k)' = Ours(call.i, k)
        BY DEF Part, Ours
    <2>. QED  BY <1>3, <1>4, <2>1, <2>2, <2>3 DEF Merged
<1>7. FirstDone'
    <2>1. SUFFICES ASSUME call.i = 1
          PROVE  /\ Reached(0)
                 /\ \A k \in Part(0) : SectorOnDisk(0, k)' =
                       IF call.op = "read" THEN byte_buffer[k - start_off(call, 0)]
                                           ELSE Ours(0, k)
        BY DEF FirstDone, Reached, Part, Ours
    <2>2. /\ Reached(0)
          /\ \A k \in Part(0) : SectorOnDisk(0, k) =
                IF call.op = "read" THEN byte_buffer[k - start_off(call, 0)] ELSE Ours(0, k)
        BY <2>1 DEF AhciInv, FirstDone
    <2>3. SUFFICES ASSUME NEW k \in Part(0) PROVE SectorOnDisk(0, k)' = SectorOnDisk(0, k)
        BY <2>2
    <2>4. 0 \in 0..(sectors(call) - 1) /\ sectors(call) \in Nat /\ start_sector(call) \in Nat
        BY <1>c, <2>1, SectorParts
    <2>5. k \in 0..(SECTOR_SIZE - 1)
        BY <1>c, <2>3, <2>4, PartInPayload DEF Part
    <2>. DEFINE q == start_sector(call)
                Z == (q + 0) * SECTOR_SIZE
    <2>6. /\ Z \in Nat /\ Z + k \in DiskBytes
        <3>1. q + 0 \in Nat /\ q + 0 < DiskSectors
            BY <2>2, <2>4 DEF Reached
        <3>. QED  BY <2>5, <3>1, SectorBytes
    <2>7. cmd.lba * SECTOR_SIZE = Z + SECTOR_SIZE
        <3>1. q + 0 = q /\ (q + 1) * SECTOR_SIZE = q * SECTOR_SIZE + SECTOR_SIZE
            BY <2>4, Product, AhciAssumption
        <3>. QED  BY <1>1, <2>1, <3>1
    <2>8. SectorOnDisk(0, k) = disk[d][Z + k] /\ SectorOnDisk(0, k)' = disk'[d][Z + k]
        BY DEF SectorOnDisk
    <2>. HIDE DEF Z
    <2>9. (Z + k) - (Z + SECTOR_SIZE) \notin 0..(SECTOR_SIZE - 1)
        BY <2>5, <2>6, AhciAssumption
    <2>. QED  BY <1>2, <2>6, <2>7, <2>8, <2>9
<1>. QED  BY <1>5, <1>6, <1>7

(* What may happen to the data when a command completes. *)
LEMMA CompleteData ==
    ASSUME AhciInv, NEW p \in Ports, Complete(p)
    PROVE  LET cmd == hba[p].fetched
               d == plugged[p]
           IN  /\ hba[p].ci /\ cmd \in Cmd /\ d \in Disks /\ cmd.lba < DiskSectors
               /\ cmd.op # "read" => sector_buf' = sector_buf
               /\ cmd.op # "write" => disk' = disk
               /\ cmd.op = "read" /\ cmd.live => sector_buf' = Landed(cmd, d)
               /\ cmd.op = "write" /\ cmd.live => disk' = Written(cmd, d, sector_buf)
               /\ sector_buf' \in Buffer
               /\ disk' = disk \/ \E b \in Buffer : disk' = Written(cmd, d, b)
               /\ disk' \in [Disks -> [DiskBytes -> Cell]]
<1>. DEFINE cmd == hba[p].fetched
            d == plugged[p]
<1>1. /\ hba[p].ci /\ cmd \in Cmd /\ d # None /\ cmd.lba < DiskSectors
    BY DEF Complete
<1>2. d \in Disks /\ sector_buf \in Buffer /\ disk \in [Disks -> [DiskBytes -> Cell]] /\ TypeOK
    BY <1>1 DEF AhciInv, TypeOK, Buffer
<1>3. NewFrame \in Buffer
    BY <1>2, NewFrameType
<1>d. \/ cmd.op = "identify" /\ UNCHANGED <<sector_buf, disk>>
      \/ /\ cmd.op = "read" /\ disk' = disk
         /\ sector_buf' \in IF cmd.live THEN {Landed(cmd, d)}
                                        ELSE {Landed(cmd, d), sector_buf}
      \/ /\ cmd.op = "write" /\ sector_buf' = sector_buf
         /\ disk' \in IF cmd.live THEN {Written(cmd, d, sector_buf)}
                      ELSE {Written(cmd, d, b) : b \in {sector_buf, NewFrame}}
    BY DEF Complete
<1>. HIDE DEF cmd, d
<1>4. Landed(cmd, d) \in Buffer
    BY <1>1, <1>2, LandedFacts
<1>5. \A b \in Buffer : Written(cmd, d, b) \in [Disks -> [DiskBytes -> Cell]]
    BY <1>1, <1>2, WrittenFacts
<1>6. /\ cmd.op # "read" => sector_buf' = sector_buf
      /\ cmd.op # "write" => disk' = disk
      /\ cmd.op = "read" /\ cmd.live => sector_buf' = Landed(cmd, d)
      /\ cmd.op = "write" /\ cmd.live => disk' = Written(cmd, d, sector_buf)
      /\ sector_buf' \in {sector_buf, Landed(cmd, d)}
      /\ disk' \in {disk, Written(cmd, d, sector_buf), Written(cmd, d, NewFrame)}
    BY <1>d
<1>. QED  BY <1>1, <1>2, <1>3, <1>4, <1>5, <1>6 DEF cmd, d

LEMMA StepComplete == ASSUME AhciInv, NEW p \in Ports, Complete(p) PROVE AhciInv'
<1>. DEFINE cmd == hba[p].fetched
            d == plugged[p]
<1>1. /\ hba' = [hba EXCEPT ![p].ci = FALSE, ![p].slot = None, ![p].fetched = None]
      /\ UNCHANGED <<controller, plugged, plugs, table, pc, loops,
                     timeout_us, byte_buffer, call, calls>>
    BY DEF Complete
<1>2. /\ hba[p].ci /\ cmd \in Cmd /\ d \in Disks /\ cmd.lba < DiskSectors
      /\ cmd.op # "read" => sector_buf' = sector_buf
      /\ cmd.op # "write" => disk' = disk
      /\ cmd.op = "read" /\ cmd.live => sector_buf' = Landed(cmd, d)
      /\ cmd.op = "write" /\ cmd.live => disk' = Written(cmd, d, sector_buf)
      /\ sector_buf' \in Buffer
      /\ disk' \in [Disks -> [DiskBytes -> Cell]]
    BY CompleteData
<1>. HIDE DEF cmd
<1>3. hba \in [Ports -> Port]
    BY DEF AhciInv, TypeOK, Port
<1>4. /\ hba' \in [Ports -> Port]
      /\ hba'[p].ci = FALSE /\ hba'[p].slot = None /\ hba'[p].fetched = None
      /\ \A q \in Ports \ {p} : hba'[q] = hba[q]
    BY <1>1, <1>3 DEF Port
<1>5. TypeOK'
    BY <1>1, <1>2, <1>4 DEF AhciInv, TypeOK, Port, Buffer, table, loops
<1>6. PluggedOnce' /\ TableSound'
    BY <1>1 DEF AhciInv, PluggedOnce, TableSound, EachPortOnce, already, table, loops
<1>7. PortsSane'
    BY <1>1, <1>4 DEF AhciInv, PortsSane
<1>8. LiveOwned'
    <2>1. UNCHANGED <<Waiting, WaitingPort, Current>>
        BY <1>1 DEF Waiting, WaitingPort, Current, loops
    <2>2. \A q \in Ports : {hba'[q].slot, hba'[q].fetched} \cap Cmd
                              \subseteq {hba[q].slot, hba[q].fetched}
        BY <1>4, CmdAssumption
    <2>. QED  BY <2>1, <2>2 DEF AhciInv, LiveOwned
<1>9. CallSane'
    BY <1>1 DEF AhciInv, CallSane
<1>10. CASE Clean
    <2>1. /\ call.port = p /\ pc \in {"read", "write"} /\ call # None
        BY <1>2, <1>10, OwnPort
    <2>2. cmd = Current
        BY <1>2, <1>10, <2>1, CmdAssumption DEF AhciInv, OnlyOurs, cmd
    <2>3. cmd.live /\ cmd.op = pc
        BY <2>1, <2>2 DEF Current
    <2>4. OnlyOurs'
        BY <1>1, <1>4, <1>10, <2>1 DEF AhciInv, OnlyOurs, Clean
    <2>5. ReadLanded' /\ Merged' /\ FirstDone'
        <3>1. CASE pc = "read"
            BY <1>1, <1>2, <1>10, <2>1, <2>2, <2>3, <3>1, ReadCompletes
        <3>2. CASE pc = "write"
            BY <1>1, <1>2, <1>10, <2>1, <2>2, <2>3, <3>2, WriteCompletes
        <3>. QED  BY <2>1, <3>1, <3>2
    <2>. QED  BY <1>5, <1>6, <1>7, <1>8, <1>9, <2>4, <2>5 DEF AhciInv
<1>11. CASE ~Clean
    <2>1. ~Clean'
        BY <1>1, <1>11 DEF Clean
    <2>2. OnlyOurs' /\ ReadLanded' /\ Merged' /\ FirstDone'
        BY <2>1 DEF OnlyOurs, ReadLanded, Merged, FirstDone
    <2>. QED  BY <1>5, <1>6, <1>7, <1>8, <1>9, <2>2 DEF AhciInv
<1>. QED  BY <1>10, <1>11

(* A step that changes nothing. *)
LEMMA StepStutter == ASSUME AhciInv, UNCHANGED vars PROVE AhciInv'
<1>. USE DEF vars, hardware, table, loops, transfer
<1>1. TypeOK'
    BY DEF AhciInv, TypeOK
<1>2. PluggedOnce' /\ PortsSane'
    BY DEF AhciInv, PluggedOnce, PortsSane
<1>3. LiveOwned'
    BY DEF AhciInv, LiveOwned, Waiting, WaitingPort, Current
<1>4. TableSound'
    BY DEF AhciInv, TableSound, EachPortOnce, already
<1>5. CallInv'
    BY CallFrame DEF AhciInv, CallInv
<1>. QED  BY <1>1, <1>2, <1>3, <1>4, <1>5 DEF AhciInv, CallInv

LEMMA AhciNext == AhciInv /\ [Next]_vars => AhciInv'
<1>. SUFFICES ASSUME AhciInv, [Next]_vars PROVE AhciInv'
    OBVIOUS
<1>1. CASE Driver
    BY <1>1, StepWait, StepPci, StepInit, StepScan, StepScanDone, StepIdentify,
       StepReadStep, StepWriteMerge, StepWriteStep, StepGiveUp
       DEF Driver, Boot, Update, Transfer
<1>2. CASE Request
    <2>1. CASE ahci_table_update
        BY <2>1, StepUpdate
    <2>2. ASSUME NEW n \in 1..MAX_PORTS, NEW r \in Requests,
                 ahci_read(n, r[1], r[2]) \/ ahci_write(n, r[1], r[2])
          PROVE  AhciInv'
        <3>1. r[1] \in Nat /\ r[2] \in Nat
            BY AhciAssumption
        <3>. QED  BY <2>2, <3>1, StepRead, StepWrite
    <2>. QED  BY <1>2, <2>1, <2>2 DEF Request
<1>3. CASE Controller
    BY <1>3, StepFetch, StepComplete, StepError DEF Controller
<1>4. CASE User
    BY <1>4, StepUnplug, StepPlug DEF User
<1>5. CASE UNCHANGED vars
    BY <1>5, StepStutter
<1>. QED  BY <1>1, <1>2, <1>3, <1>4, <1>5 DEF Next

-----------------------------------------------------------------------------
(* The invariant holds in every state: commands have one owner, and a call *)
(* that meets no left-over command has on disk, in its buffer and in its   *)
(* result what the sectors done so far require.                            *)
THEOREM AhciInvariant == Spec => []AhciInv
BY InitInv, AhciNext, PTL DEF Spec

(* Every variable keeps its type: the search of the PCI buses wraps, the   *)
(* port that identify_device or a transfer waits for exists, and no part   *)
(* of a transfer lies outside sector_buf or byte_buffer.                   *)
THEOREM AhciTypes == Spec => []TypeOK
<1>1. AhciInv => TypeOK
    BY DEF AhciInv
<1>. QED  BY <1>1, AhciInvariant, PTL

(* Which steps change the table of drives. *)
LEMMA TableSteps ==
    ASSUME [Next]_vars
    PROVE  scan_ports \/ identify_device \/ drive_port' = drive_port
<1>. USE DEF hardware, table, loops, transfer
<1>1. CASE Driver
    BY <1>1 DEF Driver, Boot, Update, Transfer, wait_cmd_complete, pci_scan, ahci_init,
       scan_done, read_step, write_merge, write_step, give_up
<1>2. CASE Request
    BY <1>2 DEF Request, ahci_table_update, ahci_read, ahci_write
<1>3. CASE Controller
    BY <1>3 DEF Controller, Fetch, Complete, Error
<1>4. CASE User
    BY <1>4 DEF User, Unplug, Plug
<1>. QED  BY <1>1, <1>2, <1>3, <1>4 DEF Next, vars

(* What a step does to the entries that stay. *)
LEMMA EntriesStay ==
    ASSUME AhciInv, [Next]_vars, NEW i \in DOMAIN drive_port,
           i <= Len(drive_port'), drive_port'[i] # drive_port[i]
    PROVE  plugged[drive_port[i]] = None
<1>1. /\ drive_port \in Seq(Ports) /\ i \in 1..Len(drive_port)
      /\ TypeOK /\ EachPortOnce
    BY DEF AhciInv, TypeOK, TableSound
<1>2. CASE scan_ports
    <2>1. scan \in Ports
        BY <1>2, AhciAssumption DEF AhciInv, TypeOK, scan_ports, Ports
    <2>2. ~port_device_present(scan) /\ already(scan)
          /\ drive_port' = remove_drive_from_table(scan)
        BY <1>2 DEF scan_ports, port_scan_update
    <2>3. /\ Len(drive_port') = Len(drive_port) - 1
          /\ \A j \in 1..Len(drive_port') :
                drive_port'[j] = IF drive_port[j] = scan THEN drive_port[Len(drive_port)]
                                                         ELSE drive_port[j]
        BY <1>1, <2>1, <2>2, RemoveFacts
    <2>4. drive_port[i] = scan
        BY <1>1, <2>3
    <2>. QED  BY <2>2, <2>4 DEF port_device_present
<1>3. CASE identify_device
    <2>1. scan \in Ports
        BY <1>3, AhciAssumption DEF AhciInv, TypeOK, identify_device, Ports
    <2>2. drive_port' = Append(drive_port, scan)
        BY <1>3 DEF identify_device
    <2>. QED  BY <1>1, <2>1, <2>2
<1>. QED  BY <1>2, <1>3, TableSteps

(* The index of a drive: however disks come and go, no port is in the      *)
(* table twice, and port_scan_update moves an index to another port only   *)
(* when the disk it named is gone.                                         *)
THEOREM IndicesStable == Spec => IndexStable
<1>. DEFINE Moved == \A i \in DOMAIN drive_port :
                        i <= Len(drive_port') /\ drive_port'[i] # drive_port[i]
                            => plugged[drive_port[i]] = None
<1>1. AhciInv => EachPortOnce
    BY DEF AhciInv, TableSound
<1>2. AhciInv /\ [Next]_vars => [Moved]_vars
    BY EntriesStay
<1>. QED  BY <1>1, <1>2, AhciInvariant, PTL DEF Spec, IndexStable

-----------------------------------------------------------------------------
(* Which steps change a disk. *)
LEMMA DiskSteps ==
    ASSUME [Next]_vars
    PROVE  (\E p \in Ports : Complete(p)) \/ disk' = disk
BY DEF Next, Driver, Boot, Update, Transfer, Request, Controller, User, vars,
       hardware, table, loops, transfer, wait_cmd_complete, pci_scan, ahci_init,
       ahci_table_update, scan_ports, scan_done, identify_device, ahci_read,
       ahci_write, read_step, write_merge, write_step, give_up, Fetch, Error,
       Unplug, Plug

(* A clean call writes its own bytes, and the others as they were. *)
LEMMA CleanWrite ==
    ASSUME AhciInv, NEW p \in Ports, Complete(p), hba[p].fetched.live,
           pc = "write", call.port = p, call.clean, call # None,
           hba[p].fetched = Current,
           NEW b \in DiskBytes, disk'[plugged[p]][b] # disk[plugged[p]][b]
    PROVE  /\ b - call.addr \in 0..(call.length - 1)
           /\ disk'[plugged[p]][b] = Payload[b - call.addr]
<1>. DEFINE d == plugged[p]
            cmd == hba[p].fetched
            Z == (start_sector(call) + call.i) * SECTOR_SIZE
<1>1. /\ cmd \in Cmd /\ d \in Disks /\ cmd.lba < DiskSectors /\ cmd.op = "write"
      /\ cmd.lba = start_sector(call) + call.i /\ cmd.half = call.i
      /\ disk' = Written(cmd, d, sector_buf)
    <2>1. /\ cmd.op = "write" /\ cmd.lba = start_sector(call) + call.i
          /\ cmd.half = call.i
        BY DEF Current
    <2>. QED  BY <2>1, CompleteData
<1>2. Clean /\ call \in Call /\ call.i \in 0..(sectors(call) - 1)
    BY OwnPort DEF Clean
<1>3. /\ \A k \in 0..(SECTOR_SIZE - 1) :
            disk'[d][Z + k] = sector_buf[call.i * SECTOR_SIZE + k]
      /\ b - Z \notin 0..(SECTOR_SIZE - 1) => disk'[d][b] = disk[d][b]
    <2>1. TypeOK /\ sector_buf \in Buffer
        BY DEF AhciInv, TypeOK, Buffer
    <2>2. /\ \A k \in 0..(SECTOR_SIZE - 1) :
               disk'[d][cmd.lba * SECTOR_SIZE + k] = sector_buf[cmd.half * SECTOR_SIZE + k]
          /\ b - cmd.lba * SECTOR_SIZE \notin 0..(SECTOR_SIZE - 1) => disk'[d][b] = disk[d][b]
        <3>. HIDE DEF cmd, d
        <3>. QED  BY <1>1, <2>1, WrittenFacts
    <2>. QED  BY <1>1, <2>2
<1>4. /\ Z \in Nat /\ b \in Int
      /\ start_off(call, call.i) \in Int /\ copied(call, call.i) \in Int /\ call.addr \in Int
      /\ Z + start_off(call, call.i) = call.addr + copied(call, call.i)
    <2>1. call.addr \in Int /\ b \in Int
        BY <1>2 DEF Call, DiskBytes
    <2>2. /\ Z \in Nat /\ start_off(call, call.i) \in 0..(SECTOR_SIZE - 1)
          /\ copied(call, call.i) \in Nat
          /\ Z + start_off(call, call.i) = call.addr + copied(call, call.i)
        BY <1>2, SectorParts
    <2>. QED  BY <2>1, <2>2
<1>. DEFINE k == b - Z
<1>5. k \in 0..(SECTOR_SIZE - 1)
    BY <1>3
<1>6. Z + k = b
    <2>. HIDE DEF Z
    <2>. QED  BY <1>4
<1>7. disk'[d][b] = sector_buf[call.i * SECTOR_SIZE + k]
    BY <1>3, <1>5, <1>6
<1>8. SectorOnDisk(call.i, k) = disk[d][b]
    BY <1>6 DEF SectorOnDisk
<1>9. k \in Part(call.i)
    <2>1. \A j \in 0..(SECTOR_SIZE - 1) \ Part(call.i) :
             sector_buf[call.i * SECTOR_SIZE + j] = SectorOnDisk(call.i, j)
        BY <1>2 DEF AhciInv, Merged
    <2>. HIDE DEF k
    <2>. QED  BY <1>5, <1>7, <1>8, <2>1
<1>10. sector_buf[call.i * SECTOR_SIZE + k] = Ours(call.i, k)
    <2>1. \A j \in Part(call.i) : sector_buf[call.i * SECTOR_SIZE + j] = Ours(call.i, j)
        BY <1>2 DEF AhciInv, Merged
    <2>. HIDE DEF k
    <2>. QED  BY <1>9, <2>1
<1>11. copied(call, call.i) + k - start_off(call, call.i) \in 0..(call.length - 1)
    <2>1. k \in start_off(call, call.i)..(end_off(call, call.i) - 1)
        BY <1>9 DEF Part
    <2>. HIDE DEF k
    <2>. QED  BY <1>2, <2>1, PartInPayload
<1>12. copied(call, call.i) + k - start_off(call, call.i) = b - call.addr
    <2>. HIDE DEF Z
    <2>. QED  BY <1>4
<1>. QED  BY <1>7, <1>10, <1>11, <1>12 DEF Ours

(* A disk changes only where the write under way puts its data, or through *)
(* a command that was given up (ahci_write, exec_ata_cmd, the time limit   *)
(* of wait_cmd_complete).                                                  *)
THEOREM WritesConfined == Spec => DiskConfined
<1>. DEFINE Confined ==
         \A d \in Disks, b \in DiskBytes : disk'[d][b] # disk[d][b] =>
            \E p \in Ports :
               /\ plugged[p] = d
               /\ \/ ~hba[p].fetched.live
                  \/ ~call.clean
                  \/ /\ pc = "write" /\ call.port = p
                     /\ b - call.addr \in 0..(call.length - 1)
                     /\ disk'[d][b] = Payload[b - call.addr]
<1>1. AhciInv /\ [Next]_vars => [Confined]_vars
    <2>1. SUFFICES ASSUME AhciInv, [Next]_vars, NEW d \in Disks, NEW b \in DiskBytes,
                          disk'[d][b] # disk[d][b]
                   PROVE  \E p \in Ports :
                             /\ plugged[p] = d
                             /\ \/ ~hba[p].fetched.live
                                \/ ~call.clean
                                \/ /\ pc = "write" /\ call.port = p
                                   /\ b - call.addr \in 0..(call.length - 1)
                                   /\ disk'[d][b] = Payload[b - call.addr]
        OBVIOUS
    <2>2. PICK p \in Ports : Complete(p)
        BY <2>1, DiskSteps
    <2>. DEFINE cmd == hba[p].fetched
    <2>3. /\ cmd \in Cmd /\ plugged[p] \in Disks /\ cmd.lba < DiskSectors
          /\ cmd.op = "write"
          /\ \E buf \in Buffer : disk' = Written(cmd, plugged[p], buf)
        BY <2>1, <2>2, CompleteData
    <2>4. plugged[p] = d
        <3>. HIDE DEF cmd
        <3>1. TypeOK
            BY <2>1 DEF AhciInv
        <3>2. PICK buf \in Buffer : disk' = Written(cmd, plugged[p], buf)
            BY <2>3
        <3>3. \A e \in Disks \ {plugged[p]} : disk'[e] = disk[e]
            BY <2>3, <3>1, <3>2, WrittenFacts
        <3>. QED  BY <2>1, <3>3
    <2>5. CASE cmd.live /\ call.clean
        <3>1. Waiting /\ p = WaitingPort /\ cmd = Current
            BY <2>1, <2>3, <2>5 DEF AhciInv, LiveOwned
        <3>2. pc = "write" /\ call.port = p /\ call # None
            BY <2>1, <2>3, <3>1 DEF Current, Waiting, WaitingPort, AhciInv, TypeOK
        <3>3. /\ b - call.addr \in 0..(call.length - 1)
              /\ disk'[plugged[p]][b] = Payload[b - call.addr]
            BY <2>1, <2>2, <2>4, <2>5, <3>1, <3>2, CleanWrite
        <3>. QED  BY <2>4, <3>2, <3>3
    <2>6. CASE ~cmd.live \/ ~call.clean
        BY <2>4, <2>6
    <2>. QED  BY <2>5, <2>6
<1>. QED  BY <1>1, AhciInvariant, PTL DEF Spec, DiskConfined

-----------------------------------------------------------------------------
(* Every byte in the range of a transfer is in the part of one sector. *)
LEMMA CoveredSplit ==
    ASSUME NEW c \in Call, NEW b \in Covered(c)
    PROVE  \E i \in 0..(sectors(c) - 1) :
              \E k \in start_off(c, i)..(end_off(c, i) - 1) :
                 /\ b = (start_sector(c) + i) * SECTOR_SIZE + k
                 /\ b - c.addr = copied(c, i) + k - start_off(c, i)
<1>. DEFINE Z(i) == (start_sector(c) + i) * SECTOR_SIZE
<1>1. /\ start_sector(c) \in Nat /\ sectors(c) \in 1..2
      /\ \A i \in 0..(sectors(c) - 1) :
            /\ Z(i) \in Nat
            /\ start_off(c, i) \in 0..(SECTOR_SIZE - 1)
            /\ end_off(c, i) \in (start_off(c, i) + 1)..SECTOR_SIZE
            /\ copied(c, i) \in Nat
            /\ Z(i) + start_off(c, i) = c.addr + copied(c, i)
            /\ i = sectors(c) - 1 => Z(i) + end_off(c, i) = c.addr + c.length
            /\ i = 0 => copied(c, i) = 0
            /\ i + 1 < sectors(c) => end_off(c, i) = SECTOR_SIZE
    BY SectorParts
<1>2. b \in Int /\ c.addr \in Nat /\ c.length \in Nat /\ SECTOR_SIZE \in Nat
      /\ b - c.addr \in 0..(c.length - 1)
    BY AhciAssumption DEF Covered, Call, DiskBytes
<1>3. Z(1) = Z(0) + SECTOR_SIZE
    <2>1. start_sector(c) + 0 = start_sector(c)
          /\ (start_sector(c) + 1) * SECTOR_SIZE = start_sector(c) * SECTOR_SIZE + SECTOR_SIZE
        BY <1>1, <1>2, Product
    <2>. QED  BY <2>1
<1>4. SUFFICES \E i \in 0..(sectors(c) - 1) :
                  /\ b - Z(i) \in start_off(c, i)..(end_off(c, i) - 1)
                  /\ b = Z(i) + (b - Z(i))
                  /\ b - c.addr = copied(c, i) + (b - Z(i)) - start_off(c, i)
    OBVIOUS
<1>o. start_off(c, 1) = 0
    BY DEF start_off
<1>. HIDE DEF Z
<1>5. CASE sectors(c) = 1
    <2>1. 0 \in 0..(sectors(c) - 1)
        BY <1>5
    <2>2. /\ Z(0) \in Nat /\ start_off(c, 0) \in Nat /\ end_off(c, 0) \in Nat
          /\ copied(c, 0) = 0 /\ Z(0) + start_off(c, 0) = c.addr
          /\ Z(0) + end_off(c, 0) = c.addr + c.length
        BY <1>1, <1>2, <1>5, <2>1
    <2>. QED  BY <1>2, <2>1, <2>2
<1>6. CASE sectors(c) = 2
    <2>1. 0 \in 0..(sectors(c) - 1) /\ 1 \in 0..(sectors(c) - 1)
        BY <1>6
    <2>2. /\ Z(0) \in Nat /\ start_off(c, 0) \in Nat /\ end_off(c, 0) = SECTOR_SIZE
          /\ copied(c, 0) = 0 /\ Z(0) + start_off(c, 0) = c.addr
        BY <1>1, <1>2, <1>6, <2>1
    <2>3. /\ Z(1) \in Nat /\ end_off(c, 1) \in Nat /\ copied(c, 1) \in Nat
          /\ Z(1) + 0 = c.addr + copied(c, 1)
          /\ Z(1) + end_off(c, 1) = c.addr + c.length
        BY <1>1, <1>2, <1>6, <1>o, <2>1
    <2>4. CASE b < Z(1)
        BY <1>2, <1>3, <2>1, <2>2, <2>3, <2>4
    <2>5. CASE b >= Z(1)
        BY <1>2, <1>o, <2>1, <2>3, <2>5
    <2>. QED  BY <1>2, <2>3, <2>4, <2>5
<1>. QED  BY <1>1, <1>5, <1>6

(* If the last sector of a transfer is on the disk, so is its last byte. *)
LEMMA LastByte ==
    ASSUME NEW c \in Call, NEW i \in 0..(sectors(c) - 1), i = sectors(c) - 1,
           start_sector(c) + i < DiskSectors
    PROVE  c.addr + c.length - 1 \in DiskBytes
<1>. DEFINE Z == (start_sector(c) + i) * SECTOR_SIZE
<1>1. /\ start_sector(c) \in Nat /\ sectors(c) \in 1..2 /\ Z \in Nat
      /\ start_off(c, i) \in 0..(SECTOR_SIZE - 1)
      /\ end_off(c, i) \in (start_off(c, i) + 1)..SECTOR_SIZE
      /\ Z + end_off(c, i) = c.addr + c.length
    BY SectorParts
<1>2. start_sector(c) + i \in Nat /\ SECTOR_SIZE \in Nat /\ c.addr \in Nat /\ c.length \in Nat
    <2>1. c.addr \in Nat /\ c.length \in 1..MAX_LEN /\ MAX_LEN \in Nat /\ SECTOR_SIZE \in Nat
        BY AhciAssumption DEF Call
    <2>2. start_sector(c) + i \in Nat
        <3>. HIDE DEF Z
        <3>. QED  BY <1>1
    <2>. QED  BY <2>1, <2>2
<1>3. \A k \in 0..(SECTOR_SIZE - 1) : Z + k \in DiskBytes
    BY <1>2, SectorBytes
<1>. HIDE DEF Z
<1>4. end_off(c, i) - 1 \in 0..(SECTOR_SIZE - 1)
    BY <1>1, <1>2
<1>5. c.addr + c.length - 1 = Z + (end_off(c, i) - 1)
    BY <1>1, <1>2
<1>. QED  BY <1>3, <1>4, <1>5

(* All the sectors done: the range of the call is. *)
LEMMA AllSectors ==
    ASSUME AhciInv, Clean, Answered, call.i + 1 = sectors(call), NEW data,
           Reached(call.i),
           \A i \in 0..call.i : \A k \in Part(i) :
              SectorOnDisk(i, k) = data[copied(call, i) + k - start_off(call, i)]
    PROVE  OnDisk(call, data)
<1>1. call \in Call /\ call.i \in 0..(sectors(call) - 1) /\ sectors(call) \in 1..2
    BY OwnPort, SectorParts
<1>2. call.i = sectors(call) - 1
    BY <1>1
<1>3. call.addr + call.length - 1 \in DiskBytes
    BY <1>1, <1>2, LastByte DEF Reached
<1>4. ASSUME NEW b \in Covered(call)
      PROVE  disk[plugged[call.port]][b] = data[b - call.addr]
    <2>1. PICK i \in 0..(sectors(call) - 1) :
              \E k \in start_off(call, i)..(end_off(call, i) - 1) :
                 /\ b = (start_sector(call) + i) * SECTOR_SIZE + k
                 /\ b - call.addr = copied(call, i) + k - start_off(call, i)
        BY <1>1, <1>4, CoveredSplit
    <2>2. PICK k \in start_off(call, i)..(end_off(call, i) - 1) :
                 /\ b = (start_sector(call) + i) * SECTOR_SIZE + k
                 /\ b - call.addr = copied(call, i) + k - start_off(call, i)
        BY <2>1
    <2>3. i \in 0..call.i /\ k \in Part(i)
        BY <1>2 DEF Part
    <2>4. SectorOnDisk(i, k) = data[copied(call, i) + k - start_off(call, i)]
        BY <2>3
    <2>. QED  BY <2>2, <2>4 DEF SectorOnDisk
<1>. QED  BY <1>3, <1>4 DEF OnDisk

(* The last sector of a read was copied out. *)
LEMMA ReadDone ==
    ASSUME AhciInv, call.clean, read_step, pc' = "idle"
    PROVE  OnDisk(call, byte_buffer')
<1>1. /\ pc = "read" /\ call.op = "read" /\ Completed(call.port)
      /\ byte_buffer' = CopyOut(byte_buffer, call, call.i)
      /\ call.i + 1 = sectors(call)
    BY DEF read_step, ReadSector
<1>2. /\ call \in Call /\ call # None /\ Answered /\ Clean
      /\ call.i \in 0..(sectors(call) - 1) /\ sectors(call) \in 1..2
    BY <1>1, CallContinues DEF Clean
<1>3. /\ Reached(call.i)
      /\ \A k \in 0..(SECTOR_SIZE - 1) :
            sector_buf[call.i * SECTOR_SIZE + k] = SectorOnDisk(call.i, k)
    BY <1>1, <1>2 DEF AhciInv, ReadLanded
<1>4. /\ \A k \in start_off(call, call.i)..(end_off(call, call.i) - 1) :
            byte_buffer'[copied(call, call.i) + k - start_off(call, call.i)]
               = sector_buf[call.i * SECTOR_SIZE + k]
      /\ \A j \in 0..(copied(call, call.i) - 1) : j \in 0..(MAX_LEN - 1)
            => byte_buffer'[j] = byte_buffer[j]
    <2>1. TypeOK /\ byte_buffer \in [0..(MAX_LEN - 1) -> Cell]
        BY DEF AhciInv, TypeOK
    <2>. QED  BY <1>1, <1>2, <2>1, CopyFacts
<1>5. ASSUME NEW k \in Part(call.i)
      PROVE  SectorOnDisk(call.i, k) = byte_buffer'[copied(call, call.i) + k - start_off(call, call.i)]
    <2>1. k \in 0..(SECTOR_SIZE - 1) /\ k \in start_off(call, call.i)..(end_off(call, call.i) - 1)
        BY <1>2, <1>5, PartInPayload DEF Part
    <2>. QED  BY <1>3, <1>4, <2>1
<1>6. ASSUME call.i = 1, NEW k \in Part(0)
      PROVE  SectorOnDisk(0, k) = byte_buffer'[copied(call, 0) + k - start_off(call, 0)]
    <2>1. SectorOnDisk(0, k) = byte_buffer[k - start_off(call, 0)]
        BY <1>1, <1>2, <1>6 DEF AhciInv, FirstDone
    <2>2. 0 \in 0..(sectors(call) - 1) /\ k \in start_off(call, 0)..(end_off(call, 0) - 1)
        BY <1>2, <1>6 DEF Part
    <2>3. copied(call, 0) + k - start_off(call, 0) \in 0..(MAX_LEN - 1)
        BY <1>2, <2>2, PartInPayload
    <2>4. /\ copied(call, 0) = 0 /\ start_off(call, 0) \in Int /\ end_off(call, 0) \in Int
        <3>1. /\ start_off(call, 0) \in 0..(SECTOR_SIZE - 1)
              /\ end_off(call, 0) \in (start_off(call, 0) + 1)..SECTOR_SIZE
              /\ copied(call, 0) = 0
            BY <1>2, <2>2, SectorParts
        <3>. QED  BY <3>1
    <2>5. copied(call, 1) = end_off(call, 0) - start_off(call, 0)
        BY DEF copied, chunk
    <2>6. k - start_off(call, 0) \in 0..(copied(call, 1) - 1)
          /\ copied(call, 0) + k - start_off(call, 0) = k - start_off(call, 0)
        BY <2>2, <2>4, <2>5
    <2>. QED  BY <1>4, <1>6, <2>1, <2>3, <2>6
<1>7. \A i \in 0..call.i : \A k \in Part(i) :
         SectorOnDisk(i, k) = byte_buffer'[copied(call, i) + k - start_off(call, i)]
    <2>1. call.i \in 0..1 /\ \A i \in 0..call.i : i = call.i \/ (call.i = 1 /\ i = 0)
        BY <1>2
    <2>. QED  BY <2>1, <1>5, <1>6
<1>. QED  BY <1>1, <1>2, <1>3, <1>7, AllSectors

(* The last sector of a write was put on disk. *)
LEMMA WriteDone ==
    ASSUME AhciInv, call.clean, write_step, pc' = "idle"
    PROVE  call.op = "write" /\ OnDisk(call, Payload)
<1>1. pc = "write" /\ Completed(call.port) /\ call.i + 1 = sectors(call)
    BY DEF write_step, WriteSector, ReadSector, WriteBack
<1>2. /\ call \in Call /\ call # None /\ Answered /\ Clean /\ call.op = "write"
      /\ call.i \in 0..(sectors(call) - 1) /\ sectors(call) \in 1..2
    BY <1>1, CallContinues DEF Clean, AhciInv, CallSane
<1>3. /\ Reached(call.i)
      /\ \A k \in Part(call.i) : SectorOnDisk(call.i, k) = Ours(call.i, k)
    BY <1>1, <1>2 DEF AhciInv, Merged
<1>4. call.i = 1 => \A k \in Part(0) : SectorOnDisk(0, k) = Ours(0, k)
    BY <1>2 DEF AhciInv, FirstDone
<1>5. \A i \in 0..call.i : \A k \in Part(i) :
         SectorOnDisk(i, k) = Payload[copied(call, i) + k - start_off(call, i)]
    <2>1. call.i \in 0..1 /\ \A i \in 0..call.i : i = call.i \/ (call.i = 1 /\ i = 0)
        BY <1>2
    <2>. QED  BY <2>1, <1>3, <1>4 DEF Ours
<1>. QED  BY <1>1, <1>2, <1>3, <1>5, AllSectors

(* A call that reports success did all of its work: ahci_read returned the *)
(* bytes of the disk, ahci_write put all of its data there, for every      *)
(* address, length and sector size, unless a command was left in a port    *)
(* when it began or the disk was unplugged meanwhile.                      *)
THEOREM SuccessComplete == Spec => SuccessIsComplete
<1>. DEFINE Done ==
         (read_step \/ write_step) /\ pc' = "idle" /\ call.clean
            => OnDisk(call, IF call.op = "read" THEN byte_buffer' ELSE Payload)
<1>1. AhciInv /\ [Next]_vars => [Done]_vars
    <2>1. SUFFICES ASSUME AhciInv, read_step \/ write_step, pc' = "idle", call.clean
                   PROVE  OnDisk(call, IF call.op = "read" THEN byte_buffer' ELSE Payload)
        OBVIOUS
    <2>2. CASE read_step
        <3>1. call.op = "read"
            BY <2>2 DEF read_step
        <3>. QED  BY <2>1, <2>2, <3>1, ReadDone
    <2>3. CASE write_step
        BY <2>1, <2>3, WriteDone
    <2>. QED  BY <2>1, <2>2, <2>3
<1>. QED  BY <1>1, AhciInvariant, PTL DEF Spec, SuccessIsComplete
===============================================================================
