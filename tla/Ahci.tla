--------------------------------- MODULE Ahci ---------------------------------
(***************************************************************************)
(* The disk driver of drivers/src/drive.c: the search for a controller,    *)
(* the table of drives that follows what is plugged in, and byte reads and *)
(* writes, which issue one-sector commands in slot 0 and poll PxCI with a  *)
(* time limit.                                                             *)
(*                                                                         *)
(* The controller and the disks are external: a port holds the command it  *)
(* has fetched, and completes it, fails it or never answers.  A command    *)
(* that the driver has given up on stays in the port and may still run,    *)
(* and its buffer is then a dead stack frame: a late transfer may or may   *)
(* not meet the buffer of the call under way.  The controller is taken to  *)
(* answer a stop, a start and a reset, which the code waits for without a  *)
(* limit, and to read the command table as the driver means it.            *)
(***************************************************************************)
EXTENDS Integers, Sequences

CONSTANTS
    MAX_PORTS,        \* 32 in the code, all of them implemented here
    SECTOR_SIZE,      \* 512 in the code
    MAX_LEN,          \* longest transfer, 256 in the code
    TIMEOUT,          \* polls of wait_cmd_complete, 1000000 in the code
    Buses,            \* PCI buses, 256 in the code: bus is a uint8_t
    Disks, DiskSectors,
    AtBoot,           \* the disk that may be in each port at boot
    Requests,         \* the addresses and lengths that calls ask for
    Bytes, Zero,      \* what a disk holds, and holds at first
    Junk,             \* a byte of uninitialised memory
    Payload,          \* the data of every write: its first bytes are written
    None, Gone,       \* no disk or command; a command that is never answered
    MaxCalls, MaxPlugs    \* bounds on calls and on hot-plug events

Ports == 0..(MAX_PORTS - 1)
DiskBytes == 0..(DiskSectors * SECTOR_SIZE - 1)
Cell == Bytes \cup {Junk}

ASSUME AhciAssumption ==
    /\ MAX_PORTS \in Nat \ {0} /\ SECTOR_SIZE \in Nat \ {0}
    /\ MAX_LEN \in 1..SECTOR_SIZE /\ TIMEOUT \in Nat /\ Buses \in Nat \ {0}
    /\ DiskSectors \in Nat \ {0} /\ Requests \subseteq Nat \X Nat
    /\ Junk \notin Bytes /\ Zero \in Bytes /\ None \notin Disks
    /\ AtBoot \in [Ports -> Disks]
    /\ \A p, q \in Ports : AtBoot[p] = AtBoot[q] => p = q
    /\ Payload \in [0..(MAX_LEN - 1) -> Bytes]
    /\ MaxCalls \in Nat /\ MaxPlugs \in Nat

Cmd == [op : {"identify", "read", "write"}, lba : Nat,
        half : 0..1,        \* which half of sector_buf it transfers
        live : BOOLEAN]     \* history: the call that issued it still waits
Call == [op : {"read", "write"}, port : Ports, addr : Nat,
         length : 1..MAX_LEN, i : 0..1,
         clean : BOOLEAN]   \* history: see CallIsClean

ASSUME CmdAssumption ==
    None \notin Cmd /\ Gone \notin Cmd /\ None # Gone /\ None \notin Call

VARIABLES
    controller,         \* the bus the AHCI controller is on, or None
    plugged,            \* the disk in each port, or None
    disk,               \* what each disk holds
    hba,                \* each port: PxCI, the error bit of PxIS, the command
                        \* PxCI announces, the command fetched from memory
    drive_port,         \* drive_port[1..drive_count]
    ahci_initialized,
    byte_buffer, sector_buf,
    pc,                 \* which wait or loop the driver is in
    bus, scan,          \* loop variables: the next bus, the next port
    timeout_us,
    call,               \* the call under way
    calls, plugs        \* bounded counters

hardware == <<controller, plugged, disk, plugs>>
table == <<drive_port, ahci_initialized>>
loops == <<bus, scan>>
transfer == <<byte_buffer, sector_buf, call, calls>>
vars == <<hardware, hba, table, pc, loops, timeout_us, transfer>>

(* A port whose command engine has been stopped and started again.         *)
Stopped == [ci |-> FALSE, tfes |-> FALSE, slot |-> None, fetched |-> None]

Init ==
    /\ controller \in {Buses - 1, None}
    /\ \E present \in SUBSET Ports :
          plugged = [p \in Ports |-> IF p \in present THEN AtBoot[p] ELSE None]
    /\ disk = [d \in Disks |-> [b \in DiskBytes |-> Zero]]
    /\ hba = [p \in Ports |-> Stopped]
    /\ drive_port = <<>> /\ ahci_initialized = FALSE
    /\ byte_buffer = [j \in 0..(MAX_LEN - 1) |-> Junk]
    /\ sector_buf = [j \in 0..(2 * SECTOR_SIZE - 1) |-> Junk]
    /\ pc = "pci" /\ bus = 0 /\ scan = 0 /\ timeout_us = 0
    /\ call = None /\ calls = 0 /\ plugs = 0

-----------------------------------------------------------------------------
(* Definitions that end in _bug are deliberately wrong variants of the one *)
(* that follows: what a property must detect if the code were changed so.  *)

(* Fills the command table and sets PxCI; the wait begins.                 *)
exec_ata_cmd(p, op, lba, half) ==
    /\ hba' = [hba EXCEPT
          ![p].slot = [op |-> op, lba |-> lba, half |-> half, live |-> TRUE],
          ![p].ci = TRUE]
    /\ timeout_us' = TIMEOUT

(* How wait_cmd_complete ends, and its loop: the bit of PxIS that reports  *)
(* an error is never cleared here.                                         *)
Completed(p) == timeout_us > 0 /\ ~hba[p].ci /\ ~hba[p].tfes

Failed(p) == timeout_us = 0 \/ (~hba[p].ci /\ hba[p].tfes)

WaitingPort == IF pc = "identify" THEN scan ELSE call.port

wait_cmd_complete_bug ==
    /\ pc \in {"identify", "read", "write"}
    /\ timeout_us > 0
    /\ hba[WaitingPort].ci
    /\ UNCHANGED vars

wait_cmd_complete ==
    /\ pc \in {"identify", "read", "write"}
    /\ timeout_us > 0
    /\ hba[WaitingPort].ci
    /\ timeout_us' = timeout_us - 1
    /\ UNCHANGED <<hardware, hba, table, pc, loops, transfer>>

(* The call gives up: what is left in the port has no owner any more.      *)
Disown(h) ==
    [h EXCEPT !.slot = IF @ \in Cmd THEN [@ EXCEPT !.live = FALSE] ELSE @,
              !.fetched = IF @ \in Cmd THEN [@ EXCEPT !.live = FALSE] ELSE @]

-----------------------------------------------------------------------------
(* ahci_init: the search over the PCI buses, then reset and scan.          *)
pci_scan ==
    /\ pc = "pci"
    /\ bus # controller
    /\ bus' = (bus + 1) % Buses
    /\ UNCHANGED <<hardware, hba, table, pc, scan, timeout_us, transfer>>

ahci_init ==
    /\ pc = "pci"
    /\ bus = controller
    /\ hba' = [p \in Ports |-> Stopped]
    /\ pc' = "scan" /\ scan' = 0
    /\ UNCHANGED <<hardware, table, bus, timeout_us, transfer>>

ahci_table_update ==
    /\ pc = "idle"
    /\ ahci_initialized
    /\ pc' = "scan" /\ scan' = 0
    /\ UNCHANGED <<hardware, hba, table, bus, timeout_us, transfer>>

already(p) == \E i \in DOMAIN drive_port : drive_port[i] = p

port_device_present(p) == plugged[p] # None

(* The last entry moves into the place of the one that goes.               *)
remove_drive_from_table_bug(p) ==
    SubSeq(drive_port, 2, Len(drive_port))

remove_drive_from_table(p) ==
    LET last == drive_port[Len(drive_port)]
        moved == [i \in DOMAIN drive_port |->
                     IF drive_port[i] = p THEN last ELSE drive_port[i]]
    IN  SubSeq(moved, 1, Len(drive_port) - 1)

port_scan_update(p) ==
    \/ /\ port_device_present(p) /\ ~already(p)
       /\ hba' = [hba EXCEPT ![p] = [Stopped EXCEPT !.ci = TRUE,
             !.slot = [op |-> "identify", lba |-> 0, half |-> 0, live |-> TRUE]]]
       /\ timeout_us' = TIMEOUT
       /\ pc' = "identify"
       /\ UNCHANGED <<scan, drive_port>>
    \/ /\ ~port_device_present(p) /\ already(p)
       /\ hba' = [hba EXCEPT ![p] = Stopped]
       /\ drive_port' = remove_drive_from_table(p)
       /\ scan' = scan + 1
       /\ UNCHANGED <<timeout_us, pc>>
    \/ /\ port_device_present(p) <=> already(p)
       /\ scan' = scan + 1
       /\ UNCHANGED <<hba, timeout_us, pc, drive_port>>

scan_ports ==
    /\ pc = "scan" /\ scan < MAX_PORTS
    /\ port_scan_update(scan)
    /\ UNCHANGED <<hardware, ahci_initialized, bus, transfer>>

scan_done ==
    /\ pc = "scan" /\ scan = MAX_PORTS
    /\ ahci_initialized' = TRUE
    /\ pc' = "idle"
    /\ UNCHANGED <<hardware, hba, drive_port, loops, timeout_us, transfer>>

(* identify_device returns, and add_drive_to_table if it succeeded.        *)
identify_device ==
    /\ pc = "identify"
    /\ \/ Completed(scan) /\ drive_port' = Append(drive_port, scan) /\ hba' = hba
       \/ /\ Failed(scan) /\ drive_port' = drive_port
          /\ hba' = [hba EXCEPT ![scan] = Disown(@)]
    /\ pc' = "scan" /\ scan' = scan + 1 /\ timeout_us' = 0
    /\ UNCHANGED <<hardware, ahci_initialized, bus, transfer>>

-----------------------------------------------------------------------------
(* The sectors of a transfer: the part of sector i that it covers, and     *)
(* where in the caller's data that part begins.                            *)
start_sector(c) == c.addr \div SECTOR_SIZE
sectors(c) == (c.addr + c.length - 1) \div SECTOR_SIZE - start_sector(c) + 1

start_off(c, i) == IF i = 0 THEN c.addr % SECTOR_SIZE ELSE 0

end_off(c, i) ==
    IF i = sectors(c) - 1 THEN ((c.addr + c.length - 1) % SECTOR_SIZE) + 1
                          ELSE SECTOR_SIZE

chunk(c, i) == end_off(c, i) - start_off(c, i)

copied_bug(c, i) == 0

copied(c, i) == IF i = 0 THEN 0 ELSE chunk(c, 0)

Partial_bug(c, i) == start_off(c, i) # 0

Partial(c, i) == start_off(c, i) # 0 \/ end_off(c, i) # SECTOR_SIZE

(* The data merged into half i of the buffer, and the part copied out.     *)
Merge(buf, c, i) ==
    [j \in DOMAIN buf |->
        LET k == j - i * SECTOR_SIZE
        IN  IF k \in start_off(c, i)..(end_off(c, i) - 1)
            THEN Payload[copied(c, i) + k - start_off(c, i)] ELSE buf[j]]

CopyOut(out, c, i) ==
    [j \in DOMAIN out |->
        IF j \in copied(c, i)..(copied(c, i) + chunk(c, i) - 1)
        THEN sector_buf[i * SECTOR_SIZE + start_off(c, i) + j - copied(c, i)]
        ELSE out[j]]

(* History: no port has a command left when the call begins (one left in   *)
(* another port may still transfer into this call's buffer), and the disk  *)
(* is not unplugged before it ends.                                        *)
CallIsClean == \A p \in Ports : ~hba[p].ci

NewCall(op, n, addr, length) ==
    [op |-> op, port |-> drive_port[n], addr |-> addr, length |-> length,
     i |-> 0, clean |-> CallIsClean]

(* The frame of the call is gone: what its buffer held is not known.       *)
NewFrame == [j \in DOMAIN sector_buf |-> Junk]

Return ==
    /\ pc' = "idle" /\ call' = None
    /\ sector_buf' = NewFrame /\ timeout_us' = 0

(* Sector c.i of a read or a write begins.                                 *)
ReadSector(c) ==
    /\ exec_ata_cmd(c.port, "read", start_sector(c) + c.i, c.i)
    /\ call' = c /\ pc' = "read"

WriteBack(c, buf) ==
    /\ sector_buf' = Merge(buf, c, c.i)
    /\ exec_ata_cmd(c.port, "write", start_sector(c) + c.i, c.i)
    /\ call' = c /\ pc' = "write"

WriteSector(c, buf) ==
    \/ Partial(c, c.i) /\ ReadSector(c) /\ sector_buf' = buf
    \/ ~Partial(c, c.i) /\ WriteBack(c, buf)

CountCall == calls < MaxCalls /\ calls' = calls + 1

ahci_read(n, addr, length) ==
    /\ pc = "idle" /\ ahci_initialized
    /\ n \in 1..Len(drive_port)
    /\ length \in 1..MAX_LEN
    /\ ReadSector(NewCall("read", n, addr, length))
    /\ sector_buf' = NewFrame /\ CountCall
    /\ UNCHANGED <<hardware, table, loops, byte_buffer>>

ahci_write(n, addr, length) ==
    /\ pc = "idle" /\ ahci_initialized
    /\ n \in 1..Len(drive_port)
    /\ length \in 1..MAX_LEN
    /\ CountCall
    /\ WriteSector(NewCall("write", n, addr, length), NewFrame)
    /\ UNCHANGED <<hardware, table, loops, byte_buffer>>

(* The command has completed and the loop over the sectors goes on.        *)
read_step_bug ==
    /\ pc = "read" /\ call.op = "read" /\ Completed(call.port)
    /\ byte_buffer' = CopyOut(byte_buffer, call, call.i)
    /\ \/ /\ call.i + 1 <= sectors(call)
          /\ ReadSector([call EXCEPT !.i = @ + 1])
          /\ sector_buf' = sector_buf
       \/ /\ call.i + 1 > sectors(call)
          /\ Return
          /\ hba' = hba
    /\ UNCHANGED <<hardware, table, loops, calls>>

read_step ==
    /\ pc = "read" /\ call.op = "read" /\ Completed(call.port)
    /\ byte_buffer' = CopyOut(byte_buffer, call, call.i)
    /\ \/ /\ call.i + 1 < sectors(call)
          /\ ReadSector([call EXCEPT !.i = @ + 1])
          /\ sector_buf' = sector_buf
       \/ /\ call.i + 1 = sectors(call)
          /\ Return
          /\ hba' = hba
    /\ UNCHANGED <<hardware, table, loops, calls>>

write_merge ==
    /\ pc = "read" /\ call.op = "write" /\ Completed(call.port)
    /\ WriteBack(call, sector_buf)
    /\ UNCHANGED <<hardware, table, loops, byte_buffer, calls>>

write_step ==
    /\ pc = "write" /\ Completed(call.port)
    /\ \/ /\ call.i + 1 < sectors(call)
          /\ WriteSector([call EXCEPT !.i = @ + 1], sector_buf)
       \/ /\ call.i + 1 = sectors(call)
          /\ Return
          /\ hba' = hba
    /\ UNCHANGED <<hardware, table, loops, byte_buffer, calls>>

(* The command failed or was not answered in time: the call returns.       *)
give_up ==
    /\ pc \in {"read", "write"} /\ Failed(call.port)
    /\ hba' = [hba EXCEPT ![call.port] = Disown(@)]
    /\ Return
    /\ UNCHANGED <<hardware, table, loops, byte_buffer, calls>>

-----------------------------------------------------------------------------
(* External: the controller and the user.                                  *)
Fetch(p) ==
    /\ hba[p].ci /\ hba[p].fetched = None /\ plugged[p] # None
    /\ hba' = [hba EXCEPT ![p].fetched = hba[p].slot]
    /\ UNCHANGED <<hardware, table, pc, loops, timeout_us, transfer>>

(* A read lands in the buffer and a write takes its data from it, for sure *)
(* only while the call that owns the buffer waits.                         *)
Landed(cmd, d) ==
    [j \in DOMAIN sector_buf |->
        LET k == j - cmd.half * SECTOR_SIZE
        IN  IF k \in 0..(SECTOR_SIZE - 1)
            THEN disk[d][cmd.lba * SECTOR_SIZE + k] ELSE sector_buf[j]]

Written(cmd, d, buf) ==
    [disk EXCEPT ![d] = [b \in DiskBytes |->
        LET k == b - cmd.lba * SECTOR_SIZE
        IN  IF k \in 0..(SECTOR_SIZE - 1)
            THEN buf[cmd.half * SECTOR_SIZE + k] ELSE disk[d][b]]]

Complete(p) ==
    LET cmd == hba[p].fetched
        d == plugged[p]
    IN  /\ hba[p].ci /\ cmd \in Cmd /\ d # None
        /\ cmd.lba < DiskSectors
        /\ hba' = [hba EXCEPT ![p].ci = FALSE, ![p].slot = None,
                             ![p].fetched = None]
        /\ \/ cmd.op = "identify" /\ UNCHANGED <<sector_buf, disk>>
           \/ /\ cmd.op = "read" /\ disk' = disk
              /\ sector_buf' \in
                    IF cmd.live THEN {Landed(cmd, d)}
                                ELSE {Landed(cmd, d), sector_buf}
           \/ /\ cmd.op = "write" /\ sector_buf' = sector_buf
              /\ disk' \in
                    IF cmd.live THEN {Written(cmd, d, sector_buf)}
                    ELSE {Written(cmd, d, b) : b \in {sector_buf, NewFrame}}
        /\ UNCHANGED <<controller, plugged, plugs, table, pc, loops,
                       timeout_us, byte_buffer, call, calls>>

(* The disk reports an error; PxCI may stay set, and the port then hangs.  *)
Error(p) ==
    /\ hba[p].ci /\ hba[p].fetched \in Cmd
    /\ \/ hba' = [hba EXCEPT ![p].tfes = TRUE, ![p].fetched = Gone]
       \/ hba' = [hba EXCEPT ![p] = [Stopped EXCEPT !.tfes = TRUE]]
    /\ UNCHANGED <<hardware, table, pc, loops, timeout_us, transfer>>

Spoil(p) ==
    IF call # None /\ call.port = p THEN [call EXCEPT !.clean = FALSE] ELSE call

Unplug(p) ==
    /\ plugs < MaxPlugs /\ plugs' = plugs + 1
    /\ plugged[p] # None
    /\ plugged' = [plugged EXCEPT ![p] = None]
    /\ hba' = [hba EXCEPT ![p].fetched = IF hba[p].ci THEN Gone ELSE None]
    /\ call' = IF call = None THEN None ELSE Spoil(p)
    /\ UNCHANGED <<controller, disk, table, pc, loops, timeout_us,
                   byte_buffer, sector_buf, calls>>

Plug(p, d) ==
    /\ plugs < MaxPlugs /\ plugs' = plugs + 1
    /\ plugged[p] = None
    /\ \A q \in Ports : plugged[q] # d
    /\ plugged' = [plugged EXCEPT ![p] = d]
    /\ UNCHANGED <<controller, disk, hba, table, pc, loops, timeout_us, transfer>>

-----------------------------------------------------------------------------
Boot == pci_scan \/ ahci_init
Update == scan_ports \/ scan_done \/ identify_device
Transfer == read_step \/ write_merge \/ write_step \/ give_up
Driver == Boot \/ Update \/ Transfer \/ wait_cmd_complete

Request ==
    \/ ahci_table_update
    \/ \E n \in 1..MAX_PORTS, r \in Requests :
          ahci_read(n, r[1], r[2]) \/ ahci_write(n, r[1], r[2])

Controller == \E p \in Ports : Fetch(p) \/ Complete(p) \/ Error(p)
User == \E p \in Ports : Unplug(p) \/ \E d \in Disks : Plug(p, d)

Next == Driver \/ Request \/ Controller \/ User

Spec == Init /\ [][Next]_vars

(* The code runs to the end of what it has begun; nothing is asked of the  *)
(* controller or the disks.                                                *)
FairSpec == Spec /\ WF_vars(Driver)

-----------------------------------------------------------------------------
(* Every variable keeps its type: the bus number wraps at 256, the sectors *)
(* of a transfer fit into sector_buf and its bytes into byte_buffer, and   *)
(* what the driver waits for is a port.                                    *)
TypeOK ==
    /\ controller \in 0..(Buses - 1) \cup {None}
    /\ plugged \in [Ports -> Disks \cup {None}]
    /\ disk \in [Disks -> [DiskBytes -> Cell]]
    /\ hba \in [Ports -> [ci : BOOLEAN, tfes : BOOLEAN, slot : Cmd \cup {None},
                          fetched : Cmd \cup {None, Gone}]]
    /\ drive_port \in Seq(Ports) /\ ahci_initialized \in BOOLEAN
    /\ byte_buffer \in [0..(MAX_LEN - 1) -> Cell]
    /\ sector_buf \in [0..(2 * SECTOR_SIZE - 1) -> Cell]
    /\ pc \in {"pci", "scan", "identify", "idle", "read", "write"}
    /\ bus \in 0..(Buses - 1) /\ scan \in 0..MAX_PORTS
    /\ timeout_us \in 0..TIMEOUT
    /\ call \in Call \cup {None}
    /\ calls \in 0..MaxCalls /\ plugs \in 0..MaxPlugs
    /\ pc \in {"read", "write"} <=> call # None
    /\ pc = "identify" => scan < MAX_PORTS

(* An index handed out stays good: port_scan_update and identify_device    *)
(* never enter a port twice, however disks come and go between and during  *)
(* the scans (so MAX_DRIVES entries are always enough), and an index that  *)
(* stays in the table names another port only when the disk it named was   *)
(* gone: remove_drive_from_table moves nothing but the last entry.         *)
EachPortOnce ==
    \A i, j \in DOMAIN drive_port : drive_port[i] = drive_port[j] => i = j

IndexStable ==
    /\ []EachPortOnce
    /\ [][\A i \in DOMAIN drive_port :
             i <= Len(drive_port') /\ drive_port'[i] # drive_port[i]
                 => plugged[drive_port[i]] = None]_vars

(* A disk changes only where the ahci_write under way puts its data, byte  *)
(* for byte (the rest of a sector is read and written back), or through a  *)
(* command that a call has given up on and what follows from it.           *)
DiskConfined ==
    [][\A d \in Disks, b \in DiskBytes : disk'[d][b] # disk[d][b] =>
          \E p \in Ports :
             /\ plugged[p] = d
             /\ \/ ~hba[p].fetched.live
                \/ ~call.clean
                \/ /\ pc = "write" /\ call.port = p
                   /\ b - call.addr \in 0..(call.length - 1)
                   /\ disk'[d][b] = Payload[b - call.addr]]_vars

(* The bytes of the disk a call works on that lie in its range.            *)
Covered(c) == {b \in DiskBytes : b - c.addr \in 0..(c.length - 1)}

(* A call that reports success did all of its work, over a sector boundary *)
(* too: ahci_read returns the bytes of the disk, ahci_write has put all of *)
(* its data there; unless a command was left in some port when it began or *)
(* the disk was unplugged meanwhile.                                       *)
OnDisk(c, data) ==
    /\ c.addr + c.length - 1 \in DiskBytes
    /\ \A b \in Covered(c) : disk[plugged[c.port]][b] = data[b - c.addr]

SuccessIsComplete ==
    [][(read_step \/ write_step) /\ pc' = "idle" /\ call.clean
          => OnDisk(call, IF call.op = "read" THEN byte_buffer' ELSE Payload)]_vars

(* The limit on the polls makes every call, scan and boot end, whatever    *)
(* the disks do, if there is a controller (SearchEnds is about the rest).  *)
AlwaysReturns == controller # None => []<>(pc = "idle")

(* ahci_init ends its search for a controller, whether it finds one or     *)
(* not.  It does not: bus < 256 holds for every uint8_t.                   *)
SearchEnds == pc = "pci" ~> pc # "pci"
===============================================================================
