------------------------------ MODULE Partition -------------------------------
(***************************************************************************)
(* The partition tables of drivers/src/drive_partition.c: the scan of the  *)
(* MBR and of the chain of extended boot records on every drive, under a   *)
(* spin lock, and reads and writes inside a partition.                     *)
(*                                                                         *)
(* The driver below is external here (module Ahci models it): a transfer   *)
(* succeeds or fails, a drive index names a disk, ahci_table_update may    *)
(* bring any drives into the table, and a disk may be exchanged in its     *)
(* port without the table noticing.  A disk is its sectors; what a sector  *)
(* says as a partition table is all that is kept of it.                    *)
(***************************************************************************)
EXTENDS Integers, Sequences, FiniteSets, SequencesExt

CONSTANTS
    MAX_PARTS_PER_DRIVE,  \* 32 in the code
    SECTOR_SIZE,          \* 512 in the code
    LBA_WRAP,             \* sectors in 2^32 bytes: read_sector's addr is 32 bits
    U32,                  \* 2^32: the width of an LBA and of a sector count
    U64,                  \* 2^64: the width of offset + length
    MAX_LEN,              \* what ahci_read and ahci_write accept, 256
    Disks, DiskSectors,
    Layout,               \* Layout[d][lba]: the sector, see Sector
    MaxDrives, MaxSwaps,  \* bounds on drives and on exchanged disks
    Offsets, Lengths      \* what callers ask for

Entry == [extended : BOOLEAN, start : 0..(U32 - 1), count : 0..(U32 - 1)]
Sector == [sig : BOOLEAN, entry : [1..4 -> Entry]]

ASSUME PartitionAssumption ==
    /\ MAX_PARTS_PER_DRIVE \in Nat /\ SECTOR_SIZE \in Nat \ {0}
    /\ LBA_WRAP \in Nat \ {0} /\ MAX_LEN \in Nat
    /\ U32 \in Nat \ {0} /\ U64 \in Nat /\ (U32 + U32) * SECTOR_SIZE <= U64
    /\ DiskSectors \in Nat \ {0}
    /\ Layout \in [Disks -> [0..(DiskSectors - 1) -> Sector]]
    /\ MaxDrives \in Nat /\ MaxSwaps \in Nat
    /\ Offsets \subseteq 0..(U64 - 1) /\ Lengths \subseteq 0..(U64 - 1)

VARIABLES
    drives,         \* the disks that indexes 1..drive_count name
    drive_parts,    \* the partitions found on each drive
    partition_lock,
    pc,             \* "idle", "mbr", "entry", "ebr" or "transfer"
    drive, i, current_lba,   \* loop variables of the scan
    req,            \* the call under way: its place and its address
    result,         \* what the last call returned
    parsed,         \* history: the disk each table was read from,
    readable,       \* whether all of its records could be read,
    exchanged,      \* and the drives exchanged since their tables were read
    swaps           \* bounded counter

scanvars == <<drive, i, current_lba>>
history == <<parsed, readable, exchanged>>
vars == <<drives, drive_parts, partition_lock, pc, scanvars, req, result,
          history, swaps>>

NoReq == [op |-> "none"]
NoDisk == "none"
Drives == 1..MaxDrives
Part == [start : 0..(U32 - 1), count : 0..(U32 - 1)]
Request == [op : {"transfer"}, drive : Drives, part : 1..MAX_PARTS_PER_DRIVE,
            offset : 0..(U64 - 1), length : 0..(U64 - 1), abs_addr : 0..(U64 - 1)]

Init ==
    /\ drives = <<>>
    /\ drive_parts = [n \in Drives |-> <<>>]
    /\ partition_lock = 0
    /\ pc = "idle" /\ drive = 1 /\ i = 1 /\ current_lba = 0
    /\ req = NoReq /\ result = 0
    /\ parsed = [n \in Drives |-> NoDisk]
    /\ readable = [n \in Drives |-> TRUE] /\ exchanged = {}
    /\ swaps = 0

-----------------------------------------------------------------------------
(* Definitions that end in _bug are deliberately wrong variants of the one *)
(* that follows: what a property must detect if the code were changed so.  *)

lock_acquire == partition_lock = 0 /\ partition_lock' = 1
lock_release == partition_lock' = 0

(* read_sector: the byte address lba * 512 is cut to 32 bits.              *)
address(lba) == lba % LBA_WRAP

CanRead(lba) == address(lba) < DiskSectors
read_sector(lba) == Layout[drives[drive]][address(lba)]

(* dp with one more partition, if it is not empty and there is room.       *)
AddPart_bug(dp, e) ==
    IF e.count > 0 /\ Len(dp) <= MAX_PARTS_PER_DRIVE
    THEN Append(dp, [start |-> e.start, count |-> e.count]) ELSE dp

AddPart(dp, e) ==
    IF e.count > 0 /\ Len(dp) < MAX_PARTS_PER_DRIVE
    THEN Append(dp, [start |-> e.start, count |-> e.count]) ELSE dp

(* update_partition_tables: takes the lock and has the driver look for     *)
(* drives that came or went.                                               *)
update_partition_tables ==
    /\ pc = "idle" /\ lock_acquire
    /\ drives' \in {s \in SeqOf(Disks, MaxDrives) :
                       \A m, n \in DOMAIN s : s[m] = s[n] => m = n}
    /\ pc' = "mbr" /\ drive' = 1
    /\ UNCHANGED <<drive_parts, i, current_lba, req, result, history, swaps>>

(* The next drive, or the end of the update.                               *)
NextDrive ==
    /\ drive' = drive + 1 /\ pc' = "mbr" /\ UNCHANGED <<i, current_lba>>

parse_mbr_bug ==
    /\ pc = "mbr" /\ drive <= Len(drives)
    /\ parsed' = [parsed EXCEPT ![drive] = drives[drive]]
    /\ exchanged' = exchanged \ {drive}
    /\ drive_parts' = drive_parts
    /\ \/ readable' = [readable EXCEPT ![drive] = FALSE] /\ NextDrive
       \/ /\ CanRead(0) /\ readable' = [readable EXCEPT ![drive] = TRUE]
          /\ \/ ~read_sector(0).sig /\ NextDrive
             \/ /\ read_sector(0).sig
                /\ pc' = "entry" /\ i' = 1 /\ UNCHANGED <<drive, current_lba>>
    /\ UNCHANGED <<drives, partition_lock, req, result, swaps>>

(* The table of the drive is emptied, then the MBR is read.                *)
parse_mbr ==
    /\ pc = "mbr" /\ drive <= Len(drives)
    /\ drive_parts' = [drive_parts EXCEPT ![drive] = <<>>]
    /\ parsed' = [parsed EXCEPT ![drive] = drives[drive]]
    /\ exchanged' = exchanged \ {drive}
    /\ \/ readable' = [readable EXCEPT ![drive] = FALSE] /\ NextDrive
       \/ /\ CanRead(0) /\ readable' = [readable EXCEPT ![drive] = TRUE]
          /\ \/ ~read_sector(0).sig /\ NextDrive
             \/ /\ read_sector(0).sig
                /\ pc' = "entry" /\ i' = 1 /\ UNCHANGED <<drive, current_lba>>
    /\ UNCHANGED <<drives, partition_lock, req, result, swaps>>

(* One of the four entries of the MBR (mbr is a copy in memory).           *)
parse_entry ==
    /\ pc = "entry" /\ i <= 4
    /\ LET pe == Layout[parsed[drive]][address(0)].entry[i]
       IN  \/ /\ ~pe.extended \/ pe.count = 0
              /\ drive_parts' = [drive_parts EXCEPT ![drive] = AddPart(@, pe)]
              /\ i' = i + 1 /\ UNCHANGED <<pc, current_lba>>
           \/ /\ pe.extended /\ pe.count > 0
              /\ pc' = "ebr" /\ current_lba' = pe.start
              /\ UNCHANGED <<drive_parts, i>>
    /\ UNCHANGED <<drives, partition_lock, drive, req, result, history, swaps>>

entries_done ==
    /\ pc = "entry" /\ i > 4 /\ NextDrive
    /\ UNCHANGED <<drives, drive_parts, partition_lock, req, result, history, swaps>>

(* parse_ebr: one record of the chain, and the return to the MBR's loop.   *)
parse_ebr ==
    /\ pc = "ebr" /\ current_lba # 0 /\ CanRead(current_lba)
    /\ LET ebr == read_sector(current_lba)
       IN  \/ /\ ebr.sig
              /\ drive_parts' = [drive_parts EXCEPT ![drive] = AddPart(@, ebr.entry[1])]
              /\ current_lba' = ebr.entry[2].start
           \/ ~ebr.sig /\ current_lba' = 0 /\ UNCHANGED drive_parts
    /\ UNCHANGED <<drives, partition_lock, pc, drive, i, req, result, history, swaps>>

ebr_failed ==
    /\ pc = "ebr" /\ current_lba # 0
    /\ current_lba' = 0
    /\ readable' = [readable EXCEPT ![drive] = FALSE]
    /\ UNCHANGED <<drives, drive_parts, partition_lock, pc, drive, i, req,
                   result, parsed, exchanged, swaps>>

ebr_done ==
    /\ pc = "ebr" /\ current_lba = 0
    /\ pc' = "entry" /\ i' = i + 1
    /\ UNCHANGED <<drives, drive_parts, partition_lock, drive, current_lba,
                   req, result, history, swaps>>

update_done ==
    /\ pc = "mbr" /\ drive > Len(drives)
    /\ pc' = "idle" /\ lock_release
    /\ UNCHANGED <<drives, drive_parts, scanvars, req, result, history, swaps>>

-----------------------------------------------------------------------------
Valid(d, p) == d \in 1..Len(drives) /\ p \in 1..Len(drive_parts[d])

(* The check, in 64 bits: the sum may wrap.                                *)
InBounds_bug(pe, offset, length) == offset <= pe.count * SECTOR_SIZE

InBounds(pe, offset, length) ==
    (offset + length) % U64 <= pe.count * SECTOR_SIZE

(* partition_read and partition_write: the checks, under the lock.         *)
refuse_bug(d, p, offset, length) ==
    /\ pc = "idle" /\ lock_acquire
    /\ ~(Valid(d, p) /\ InBounds(drive_parts[d][p], offset, length))
    /\ result' = -1
    /\ UNCHANGED <<drives, drive_parts, pc, scanvars, req, history, swaps>>

refuse(d, p, offset, length) ==
    /\ pc = "idle" /\ partition_lock = 0
    /\ ~(Valid(d, p) /\ InBounds(drive_parts[d][p], offset, length))
    /\ lock_release
    /\ result' = -1
    /\ UNCHANGED <<drives, drive_parts, pc, scanvars, req, history, swaps>>

check(d, p, offset, length) ==
    /\ pc = "idle" /\ partition_lock = 0
    /\ Valid(d, p) /\ InBounds(drive_parts[d][p], offset, length)
    /\ req' = [op |-> "transfer", drive |-> d, part |-> p, offset |-> offset,
               length |-> length,
               abs_addr |-> (drive_parts[d][p].start * SECTOR_SIZE + offset) % U64]
    /\ lock_release /\ pc' = "transfer"
    /\ UNCHANGED <<drives, drive_parts, scanvars, result, history, swaps>>

(* The call of ahci_read or ahci_write, with the lock released.            *)
transfer ==
    /\ pc = "transfer" /\ req.length \in 1..MAX_LEN
    /\ (req.abs_addr + req.length - 1) \div SECTOR_SIZE < DiskSectors
    /\ result' = 0
    /\ pc' = "idle" /\ req' = NoReq
    /\ UNCHANGED <<drives, drive_parts, partition_lock, scanvars, history, swaps>>

(* ahci_read and ahci_write refuse the length, or the disk fails.          *)
transfer_refused ==
    /\ pc = "transfer" /\ req.length \notin 1..MAX_LEN
    /\ result' = -1
    /\ pc' = "idle" /\ req' = NoReq
    /\ UNCHANGED <<drives, drive_parts, partition_lock, scanvars, history, swaps>>

transfer_failed ==
    /\ pc = "transfer" /\ req.length \in 1..MAX_LEN
    /\ result' = -1
    /\ pc' = "idle" /\ req' = NoReq
    /\ UNCHANGED <<drives, drive_parts, partition_lock, scanvars, history, swaps>>

(* External: another disk is put in place of one, without an update.       *)
Exchange(n, d) ==
    /\ swaps < MaxSwaps /\ swaps' = swaps + 1
    /\ n \in DOMAIN drives /\ d \notin Range(drives)
    /\ drives' = [drives EXCEPT ![n] = d]
    /\ exchanged' = exchanged \cup {n}
    /\ UNCHANGED <<drive_parts, partition_lock, pc, scanvars, req, result,
                   parsed, readable>>

Scan ==
    \/ parse_mbr \/ parse_entry \/ entries_done
    \/ parse_ebr \/ ebr_failed \/ ebr_done \/ update_done

Call ==
    \E d \in 0..MaxDrives, p \in 0..MAX_PARTS_PER_DRIVE,
       offset \in Offsets, length \in Lengths :
          refuse(d, p, offset, length) \/ check(d, p, offset, length)

Kernel == Scan \/ transfer \/ transfer_refused \/ transfer_failed

Next ==
    \/ update_partition_tables \/ Call \/ Kernel
    \/ \E n \in Drives, d \in Disks : Exchange(n, d)

Spec == Init /\ [][Next]_vars

(* The kernel finishes what it has begun.                                  *)
FairSpec == Spec /\ WF_vars(Kernel)

-----------------------------------------------------------------------------
(* What a disk's tables say, as the comments of the source read them (LBAs *)
(* of the extended chain are absolute), without the width of an address.   *)
IsRecord(d, lba) == lba \in 1..(DiskSectors - 1) /\ Layout[d][lba].sig

ChainOf(d, first) ==
    LET lba[k \in 1..(DiskSectors + 1)] ==
            IF k = 1 THEN first
            ELSE IF IsRecord(d, lba[k - 1])
                 THEN Layout[d][lba[k - 1]].entry[2].start ELSE 0
    IN  lba

(* The records of a chain: those before the first sector that is none.     *)
EbrChain(d, first) ==
    LET lba == ChainOf(d, first)
        n == CHOOSE n \in 0..(DiskSectors + 1) :
                /\ \A k \in 1..n : IsRecord(d, lba[k])
                /\ n = DiskSectors + 1 \/ ~IsRecord(d, lba[n + 1])
    IN  [k \in 1..n |-> lba[k]]

Extended(d) == {e \in Range(Layout[d][0].entry) : e.extended /\ e.count > 0}

(* The chains end, and all that they visit has a 32-bit byte address.      *)
WellFormed(d) ==
    \A e \in Extended(d) :
       /\ e.start < LBA_WRAP
       /\ Len(EbrChain(d, e.start)) < DiskSectors
       /\ \A lba \in Range(EbrChain(d, e.start)) :
             Layout[d][lba].entry[2].start < LBA_WRAP

(* The entries that are in use.                                            *)
UsedOf(s) ==
    LET used[k \in 0..Len(s)] ==
            IF k = 0 THEN <<>>
            ELSE IF s[k].count > 0 THEN Append(used[k - 1], s[k]) ELSE used[k - 1]
    IN  used

(* What the MBR's entry n stands for: itself, or what its chain lists.     *)
Listed(d, n) ==
    LET e == Layout[d][0].entry[n]
        chain == EbrChain(d, e.start)
    IN  IF e.extended /\ e.count > 0
        THEN [k \in 1..Len(chain) |-> Layout[d][chain[k]].entry[1]] ELSE <<e>>

(* As many as there is room for, as they are kept.                         *)
Kept(used) ==
    [k \in 1..(IF Len(used) < MAX_PARTS_PER_DRIVE THEN Len(used) ELSE MAX_PARTS_PER_DRIVE) |->
        [start |-> used[k].start, count |-> used[k].count]]

Partitions(d) ==
    LET all == Listed(d, 1) \o Listed(d, 2) \o Listed(d, 3) \o Listed(d, 4)
    IN  IF Layout[d][0].sig THEN Kept(UsedOf(all)[Len(all)]) ELSE <<>>

Settled == pc \in {"idle", "transfer"}

(* Every variable keeps its type; no table outgrows its array, whatever    *)
(* the disks say.                                                          *)
TypeOK ==
    /\ drives \in Seq(Disks) /\ Len(drives) <= MaxDrives
    /\ drive_parts \in [Drives -> Seq(Part)]
    /\ \A n \in Drives : Len(drive_parts[n]) <= MAX_PARTS_PER_DRIVE
    /\ partition_lock \in {0, 1}
    /\ pc \in {"idle", "mbr", "entry", "ebr", "transfer"}
    /\ drive \in 1..(MaxDrives + 1) /\ i \in 1..5 /\ current_lba \in 0..(U32 - 1)
    /\ req \in Request \cup {NoReq}
    /\ result \in {0, -1}
    /\ parsed \in [Drives -> Disks \cup {NoDisk}]
    /\ readable \in [Drives -> BOOLEAN]
    /\ exchanged \subseteq Drives /\ swaps \in 0..MaxSwaps

(* Whatever could not be read, and however drives moved in the driver's    *)
(* table, an update leaves no partition of another disk: every partition   *)
(* of a drive is an entry of some sector of the disk that is in it.        *)
FromDisk(d, p) ==
    \E lba \in 0..(DiskSectors - 1), k \in 1..4 :
       LET e == Layout[d][lba].entry[k]
       IN  e.start = p.start /\ e.count = p.count

NothingForeign ==
    Settled => \A n \in DOMAIN drives \ exchanged :
        \A p \in Range(drive_parts[n]) : FromDisk(drives[n], p)

(* The table of a drive describes the disk that is in it: no partition is  *)
(* of another disk, and when every record could be read, the chains end    *)
(* and lie below 4 GB, parse_mbr and parse_ebr leave the partitions that   *)
(* the disk's tables list, in order and as many as there is room for.      *)
(* Excepted is a disk that was exchanged without an update since.          *)
TablesMatchDisks ==
    /\ NothingForeign
    /\ Settled => \A n \in DOMAIN drives \ exchanged :
        readable[n] /\ WellFormed(drives[n]) => drive_parts[n] = Partitions(drives[n])

(* partition_read and partition_write transfer bytes of the partition they *)
(* were given and no others; past the 64-bit sum in the check, and after   *)
(* an exchange, that does not hold.                                        *)
TransferConfined ==
    [][transfer /\ req.drive \notin exchanged /\ req.offset + req.length < U64
          => \E p \in Range(drive_parts[req.drive]) :
                /\ p = drive_parts[req.drive][req.part]
                /\ req.abs_addr >= p.start * SECTOR_SIZE
                /\ req.abs_addr + req.length <= (p.start + p.count) * SECTOR_SIZE]_vars

(* Every call returns and leaves the lock free, on each early return too,  *)
(* if the chains of the disks end (TablesRebuilt is about the others).     *)
LockReleased ==
    [](\A n \in DOMAIN drives : WellFormed(drives[n]))
        => []<>(pc = "idle" /\ partition_lock = 0)

(* read_sector reads the sector it is asked for: when every record could   *)
(* be read and the chains end, the table of a drive is what the tables of  *)
(* its disk list, wherever the records lie.  It is not beyond 4 GB.        *)
ChainsEnd(d) == \A e \in Extended(d) : Len(EbrChain(d, e.start)) < DiskSectors

FarTablesMatch ==
    Settled => \A n \in DOMAIN drives \ exchanged :
        readable[n] /\ ChainsEnd(drives[n]) => drive_parts[n] = Partitions(drives[n])

(* partition_read and partition_write have no limit of their own: what is  *)
(* in the partition is not refused for its length.  The driver refuses     *)
(* more than MAX_LEN bytes.                                                *)
NoInternalLimit == [][req # NoReq /\ req.length > 0 => ~transfer_refused]_vars

(* update_partition_tables rebuilds the tables of all drives and returns.  *)
(* It does not when parse_ebr follows a chain of records that comes back   *)
(* to an earlier one: only an LBA of zero ends the chain.                  *)
TablesRebuilt == pc = "mbr" ~> pc = "idle"
===============================================================================
