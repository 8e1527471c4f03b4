---------------------------- MODULE PartitionProofs ----------------------------
(***************************************************************************)
(* Proofs about the partition tables, for any disks, tables and widths.    *)
(***************************************************************************)
EXTENDS Partition, SequenceTheorems, FiniteSetTheorems, WellFoundedInduction, TLAPS

(* Every set of numbers with an element has a least one. *)
LEMMA LeastNumber ==
    ASSUME NEW S \in SUBSET Nat, S # {}
    PROVE  \E m \in S : \A k \in S : m <= k
<1>. DEFINE T == {0..n : n \in S}
            R == StrictSubsetOrdering(Nat)
<1>1. T \subseteq FiniteSubsetsOf(Nat)
  <2>1. SUFFICES ASSUME NEW n \in S PROVE 0..n \in FiniteSubsetsOf(Nat)
    OBVIOUS
  <2>2. IsFiniteSet(0..n)
    BY FS_Interval
  <2>. QED BY <2>2 DEF FiniteSubsetsOf
<1>2. T # {}
  OBVIOUS
<1>3. IsWellFoundedOn(R, FiniteSubsetsOf(Nat))
  BY FS_StrictSubsetOrderingWellFounded
<1>4. PICK x \in T : \A y \in T : <<y, x>> \notin R
  <2>. HIDE DEF T, R
  <2>. QED BY <1>1, <1>2, <1>3, WFMin
<1>5. PICK m \in S : x = 0..m
  OBVIOUS
<1>6. ASSUME NEW k \in S, k < m PROVE FALSE
  <2>1. 0..k \in T
    OBVIOUS
  <2>2. 0..k \subseteq 0..m /\ 0..k # 0..m
    BY <1>6
  <2>3. <<0..k, 0..m>> \in (SUBSET Nat) \X (SUBSET Nat)
    OBVIOUS
  <2>4. <<0..k, 0..m>> \in R
    BY <2>2, <2>3 DEF StrictSubsetOrdering
  <2>. QED BY <2>1, <2>4, <1>4, <1>5
<1>. QED BY <1>6

(* A set with 0, and with n + 1 for every n in it, has all the numbers. *)
LEMMA SetInduction ==
    ASSUME NEW S, 0 \in S, \A n \in Nat : n \in S => n + 1 \in S
    PROVE  Nat \subseteq S
<1>1. SUFFICES ASSUME Nat \ S # {} PROVE FALSE
  OBVIOUS
<1>2. PICK m \in Nat \ S : \A k \in Nat \ S : m <= k
  BY <1>1, LeastNumber
<1>3. m - 1 \in Nat /\ m - 1 \in S
  BY <1>2
<1>. QED BY <1>2, <1>3

(* The states of n steps of a function next, which also sees the number of *)
(* the step, from init.                                                    *)
IsRun(n, V, init, next, w) ==
    /\ w \in [0..n -> V]
    /\ w[0] = init
    /\ \A j \in 1..n : w[j] = next[<<w[j - 1], j>>]

(* A list of steps can be carried out. *)
LEMMA Iteration ==
    ASSUME NEW V, NEW n \in Nat, NEW init \in V, NEW next \in [V \X (1..n) -> V]
    PROVE  \E w : IsRun(n, V, init, next, w)
<1>. DEFINE Run(k, w) == /\ w \in [0..k -> V]
                         /\ w[0] = init
                         /\ \A j \in 1..k : w[j] = next[<<w[j - 1], j>>]
            S == {k \in Nat : k <= n => \E w : Run(k, w)}
<1>1. 0 \in S
  <2>1. Run(0, [x \in 0..0 |-> init])
    OBVIOUS
  <2>. QED BY <2>1
<1>2. ASSUME NEW k \in Nat, k \in S PROVE k + 1 \in S
  <2>1. SUFFICES ASSUME k + 1 <= n PROVE \E w : Run(k + 1, w)
    OBVIOUS
  <2>2. PICK u : Run(k, u)
    BY <1>2, <2>1
  <2>. DEFINE w == [x \in 0..(k + 1) |-> IF x <= k THEN u[x] ELSE next[<<u[k], k + 1>>]]
  <2>3. u[k] \in V /\ k + 1 \in 1..n
    BY <2>1, <2>2
  <2>4. next[<<u[k], k + 1>>] \in V
    BY <2>3
  <2>5. w \in [0..(k + 1) -> V]
    BY <2>2, <2>4
  <2>6. w[0] = init
    BY <2>2
  <2>7. ASSUME NEW j \in 1..(k + 1) PROVE w[j] = next[<<w[j - 1], j>>]
    <3>1. CASE j <= k
      <4>1. w[j] = u[j] /\ w[j - 1] = u[j - 1] /\ j \in 1..k
        BY <3>1
      <4>. QED BY <4>1, <2>2
    <3>2. CASE j = k + 1
      <4>1. w[j] = next[<<u[k], k + 1>>] /\ w[j - 1] = u[k]
        BY <3>2
      <4>. QED BY <4>1, <3>2
    <3>. QED BY <3>1, <3>2
  <2>. QED BY <2>5, <2>6, <2>7
<1>3. Nat \subseteq S
  <2>. HIDE DEF S
  <2>. QED BY <1>1, <1>2, SetInduction
<1>4. n \in S /\ n <= n
  <2>. HIDE DEF S
  <2>. QED BY <1>3
<1>5. PICK w : Run(n, w)
  BY <1>4
<1>. QED BY <1>5 DEF IsRun
-----------------------------------------------------------------------------
(* While the tables of a drive are read, the driver has it, and the disk   *)
(* is the one the MBR came from unless it was exchanged.                   *)
ScanSane ==
    /\ pc \in {"entry", "ebr"} =>
          /\ drive <= Len(drives) /\ parsed[drive] \in Disks
          /\ drive \notin exchanged => parsed[drive] = drives[drive]
    /\ pc = "ebr" => i <= 4

(* A request that passed the check still names the partition it was        *)
(* checked against: no update runs before it ends.                         *)
ReqSane ==
    /\ pc = "transfer" <=> req # NoReq
    /\ pc = "transfer" =>
          /\ req.drive \in 1..Len(drives)
          /\ req.part \in 1..Len(drive_parts[req.drive])
          /\ LET p == drive_parts[req.drive][req.part]
             IN  /\ InBounds(p, req.offset, req.length)
                 /\ req.abs_addr = (p.start * SECTOR_SIZE + req.offset) % U64

(* The drives whose tables are up to date, or are being read. *)
Seen(n) == /\ pc = "mbr" => n < drive
           /\ pc \in {"entry", "ebr"} => n <= drive

PartsKnown ==
    \A n \in DOMAIN drives \ exchanged : Seen(n) =>
        \A k \in 1..Len(drive_parts[n]) : FromDisk(drives[n], drive_parts[n][k])

PartitionInv == TypeOK /\ ScanSane /\ ReqSane /\ PartsKnown

-----------------------------------------------------------------------------
(* A table with one more partition: it still fits, and what is new in it   *)
(* is the entry.                                                           *)
LEMMA AddPartFacts ==
    ASSUME NEW dp \in Seq(Part), Len(dp) <= MAX_PARTS_PER_DRIVE, NEW e \in Entry
    PROVE  /\ AddPart(dp, e) \in Seq(Part)
           /\ Len(AddPart(dp, e)) <= MAX_PARTS_PER_DRIVE
           /\ \A k \in 1..Len(AddPart(dp, e)) :
                 \/ k \in 1..Len(dp) /\ AddPart(dp, e)[k] = dp[k]
                 \/ AddPart(dp, e)[k].start = e.start /\ AddPart(dp, e)[k].count = e.count
<1>. DEFINE p == [start |-> e.start, count |-> e.count]
<1>1. p \in Part /\ p.start = e.start /\ p.count = e.count
    BY DEF Entry, Part
<1>. HIDE DEF p
<1>2. /\ Append(dp, p) \in Seq(Part) /\ Len(Append(dp, p)) = Len(dp) + 1
      /\ \A k \in 1..Len(dp) : Append(dp, p)[k] = dp[k]
      /\ Append(dp, p)[Len(dp) + 1] = p
    BY <1>1, AppendProperties
<1>3. Len(dp) \in Nat /\ MAX_PARTS_PER_DRIVE \in Nat
    BY PartitionAssumption
<1>4. AddPart(dp, e) \in {dp, Append(dp, p)}
      /\ (AddPart(dp, e) = Append(dp, p) => AddPart(dp, e) = dp \/ Len(dp) < MAX_PARTS_PER_DRIVE)
    BY DEF AddPart, p
<1>5. CASE AddPart(dp, e) = dp
    BY <1>5
<1>6. CASE AddPart(dp, e) = Append(dp, p) /\ Len(dp) < MAX_PARTS_PER_DRIVE
    <2>1. ASSUME NEW k \in 1..(Len(dp) + 1)
          PROVE  \/ k \in 1..Len(dp) /\ Append(dp, p)[k] = dp[k]
                 \/ Append(dp, p)[k] = p
        BY <1>2, <1>3
    <2>. QED  BY <1>1, <1>2, <1>3, <1>6, <2>1
<1>. QED  BY <1>4, <1>5, <1>6

(* A sector that can be read is a sector of the disk. *)
LEMMA AddressFacts ==
    ASSUME NEW lba \in Nat
    PROVE  /\ address(lba) \in Nat
           /\ address(0) = 0
           /\ CanRead(lba) => address(lba) \in 0..(DiskSectors - 1)
           /\ 0 \in 0..(DiskSectors - 1)
<1>1. lba % LBA_WRAP \in Nat /\ 0 % LBA_WRAP = 0
    BY PartitionAssumption
<1>. QED  BY <1>1, PartitionAssumption DEF address, CanRead

(* The record in a sector. *)
LEMMA EntryFacts ==
    ASSUME NEW d \in Disks, NEW lba \in 0..(DiskSectors - 1), NEW k \in 1..4
    PROVE  /\ Layout[d][lba].entry[k] \in Entry
           /\ Layout[d][lba].entry[k].start \in 0..(U32 - 1)
<1>1. Layout[d] \in [0..(DiskSectors - 1) -> Sector]
    BY PartitionAssumption
<1>2. Layout[d][lba] \in Sector
    BY <1>1
<1>3. Layout[d][lba].entry \in [1..4 -> Entry]
    BY <1>2 DEF Sector
<1>4. Layout[d][lba].entry[k] \in Entry
    BY <1>3
<1>. QED  BY <1>4 DEF Entry

LEMMA InitInv == Init => PartitionInv
<1>. SUFFICES ASSUME Init PROVE PartitionInv
    OBVIOUS
<1>. USE PartitionAssumption DEF Init
<1>1. TypeOK
    <2>1. /\ drives \in Seq(Disks) /\ Len(drives) <= MaxDrives
          /\ drive \in 1..(MaxDrives + 1) /\ i \in 1..5 /\ current_lba \in 0..(U32 - 1)
          /\ exchanged \subseteq Drives /\ swaps \in 0..MaxSwaps
        OBVIOUS
    <2>2. /\ drive_parts \in [Drives -> Seq(Part)]
          /\ \A n \in Drives : Len(drive_parts[n]) <= MAX_PARTS_PER_DRIVE
        OBVIOUS
    <2>3. readable \in [Drives -> BOOLEAN]
        BY Zenon
    <2>. QED  BY <2>1, <2>2, <2>3 DEF TypeOK
<1>2. ScanSane /\ ReqSane /\ PartsKnown
    BY DEF ScanSane, ReqSane, PartsKnown
<1>. QED  BY <1>1, <1>2 DEF PartitionInv

-----------------------------------------------------------------------------
(* The update.  Outside a transfer there is no request. *)
LEMMA NoTransfer ==
    ASSUME PartitionInv, pc # "transfer", pc' # "transfer", req' = req
    PROVE  ReqSane'
BY DEF PartitionInv, ReqSane

LEMMA StepUpdate == ASSUME PartitionInv, update_partition_tables PROVE PartitionInv'
<1>. USE DEF update_partition_tables, history, scanvars, lock_acquire
<1>1. PICK m \in 0..MaxDrives : drives' \in [1..m -> Disks]
    BY DEF SeqOf
<1>2. drives' \in Seq(Disks) /\ Len(drives') <= MaxDrives
    BY <1>1, PartitionAssumption
<1>3. TypeOK'
    <2>1. drive' \in 1..(MaxDrives + 1)
        BY PartitionAssumption
    <2>. QED  BY <1>2, <2>1 DEF PartitionInv, TypeOK
<1>4. ScanSane' /\ ReqSane'
    BY NoTransfer DEF ScanSane
<1>5. PartsKnown'
    BY <1>2 DEF PartsKnown, Seen
<1>. QED  BY <1>3, <1>4, <1>5 DEF PartitionInv

(* The scan goes on to the next drive, all the tables up to here known. *)
LEMMA DriveDone ==
    ASSUME PartitionInv, pc \in {"mbr", "entry"}, drive <= Len(drives), NextDrive,
           UNCHANGED <<drives, req>>,
           \A n \in DOMAIN drives \ exchanged' : n <= drive =>
              \A k \in 1..Len(drive_parts'[n]) : FromDisk(drives[n], drive_parts'[n][k])
    PROVE  /\ drive' \in 1..(MaxDrives + 1) /\ ScanSane' /\ ReqSane' /\ PartsKnown'
           /\ pc' = "mbr" /\ i' = i /\ current_lba' = current_lba
<1>1. pc' = "mbr" /\ drive' = drive + 1 /\ i' = i /\ current_lba' = current_lba
    BY DEF NextDrive
<1>2. drive \in Nat /\ drive >= 1 /\ Len(drives) \in Nat /\ Len(drives) <= MaxDrives
      /\ MaxDrives \in Nat
    BY PartitionAssumption DEF PartitionInv, TypeOK
<1>3. drive' \in 1..(MaxDrives + 1)
    BY <1>1, <1>2
<1>4. ScanSane' /\ ReqSane'
    BY <1>1, NoTransfer DEF ScanSane
<1>5. PartsKnown'
    <2>1. ASSUME NEW n \in DOMAIN drives \ exchanged', n < drive + 1 PROVE n <= drive
        <3>1. n \in 1..Len(drives)
            BY <2>1 DEF PartitionInv, TypeOK
        <3>. QED  BY <2>1, <3>1, <1>2
    <2>. QED  BY <1>1, <2>1 DEF PartsKnown, Seen, FromDisk
<1>. QED  BY <1>1, <1>3, <1>4, <1>5

(* The drive that is scanned is in the tables. *)
LEMMA ScannedDrive ==
    ASSUME PartitionInv, drive <= Len(drives)
    PROVE  /\ drive \in Drives /\ drive \in DOMAIN drives /\ drives[drive] \in Disks
           /\ drive_parts[drive] \in Seq(Part)
           /\ Len(drive_parts[drive]) <= MAX_PARTS_PER_DRIVE
<1>1. drive \in 1..Len(drives) /\ Len(drives) <= MaxDrives /\ drives \in Seq(Disks)
      /\ MaxDrives \in Nat /\ Len(drives) \in Nat
    BY PartitionAssumption DEF PartitionInv, TypeOK
<1>2. drive \in Drives
    BY <1>1 DEF Drives
<1>3. drives[drive] \in Disks /\ drive \in DOMAIN drives
    BY <1>1, ElementOfSeq, LenProperties
<1>. QED  BY <1>2, <1>3 DEF PartitionInv, TypeOK

LEMMA StepMbr == ASSUME PartitionInv, parse_mbr PROVE PartitionInv'
<1>1. /\ pc = "mbr" /\ drive <= Len(drives)
      /\ drive_parts' = [drive_parts EXCEPT ![drive] = <<>>]
      /\ parsed' = [parsed EXCEPT ![drive] = drives[drive]]
      /\ exchanged' = exchanged \ {drive}
      /\ UNCHANGED <<drives, partition_lock, req, result, swaps>>
    BY DEF parse_mbr
<1>2. /\ drive \in Drives /\ drive \in DOMAIN drives /\ drives[drive] \in Disks
    BY <1>1, ScannedDrive
<1>3. /\ drive_parts' \in [Drives -> Seq(Part)] /\ drive_parts'[drive] = <<>>
      /\ \A n \in Drives \ {drive} : drive_parts'[n] = drive_parts[n]
      /\ \A n \in Drives : Len(drive_parts'[n]) <= MAX_PARTS_PER_DRIVE
    BY <1>1, <1>2, PartitionAssumption DEF PartitionInv, TypeOK
<1>4. /\ parsed' \in [Drives -> Disks \cup {NoDisk}] /\ parsed'[drive] = drives[drive]
      /\ exchanged' \subseteq Drives
    BY <1>1, <1>2 DEF PartitionInv, TypeOK
<1>5. readable' \in [Drives -> BOOLEAN]
    BY <1>2 DEF parse_mbr, PartitionInv, TypeOK
<1>6. \A n \in DOMAIN drives \ exchanged' : n <= drive =>
         \A k \in 1..Len(drive_parts'[n]) : FromDisk(drives[n], drive_parts'[n][k])
    <2>1. SUFFICES ASSUME NEW n \in DOMAIN drives \ exchanged', n <= drive, n # drive
          PROVE  \A k \in 1..Len(drive_parts'[n]) : FromDisk(drives[n], drive_parts'[n][k])
        BY <1>3
    <2>2. n \in 1..Len(drives) /\ n \in Drives /\ n < drive /\ n \notin exchanged
        BY <1>1, <2>1, PartitionAssumption DEF PartitionInv, TypeOK, Drives
    <2>. QED  BY <1>1, <1>3, <2>1, <2>2 DEF PartitionInv, PartsKnown, Seen
<1>7. CASE NextDrive
    <2>1. /\ drive' \in 1..(MaxDrives + 1) /\ ScanSane' /\ ReqSane' /\ PartsKnown'
          /\ pc' = "mbr" /\ i' = i /\ current_lba' = current_lba
        BY <1>1, <1>6, <1>7, DriveDone
    <2>2. TypeOK'
        BY <1>1, <1>3, <1>4, <1>5, <2>1 DEF PartitionInv, TypeOK
    <2>. QED  BY <2>1, <2>2 DEF PartitionInv
<1>8. CASE pc' = "entry" /\ i' = 1 /\ UNCHANGED <<drive, current_lba>>
    <2>1. TypeOK'
        BY <1>1, <1>3, <1>4, <1>5, <1>8 DEF PartitionInv, TypeOK
    <2>2. ScanSane' /\ ReqSane'
        BY <1>1, <1>2, <1>4, <1>8, NoTransfer DEF ScanSane
    <2>3. PartsKnown'
        BY <1>1, <1>6, <1>8 DEF PartsKnown, Seen
    <2>. QED  BY <2>1, <2>2, <2>3 DEF PartitionInv
<1>. QED  BY <1>7, <1>8 DEF parse_mbr

(* A partition that the sector lists is added to the table of the drive. *)
LEMMA PartAdded ==
    ASSUME PartitionInv, pc \in {"entry", "ebr"}, NEW e \in Entry,
           drive_parts' = [drive_parts EXCEPT ![drive] = AddPart(@, e)],
           UNCHANGED <<drives, drive, exchanged>>, pc' = pc,
           drive \notin exchanged =>
              \E lba \in 0..(DiskSectors - 1), k \in 1..4 : Layout[drives[drive]][lba].entry[k] = e
    PROVE  /\ drive_parts' \in [Drives -> Seq(Part)]
           /\ \A n \in Drives : Len(drive_parts'[n]) <= MAX_PARTS_PER_DRIVE
           /\ PartsKnown'
<1>1. /\ drive \in Drives /\ drive \in DOMAIN drives
      /\ drive_parts[drive] \in Seq(Part) /\ Len(drive_parts[drive]) <= MAX_PARTS_PER_DRIVE
    BY ScannedDrive DEF PartitionInv, ScanSane
<1>. DEFINE dp == AddPart(drive_parts[drive], e)
<1>2. /\ dp \in Seq(Part) /\ Len(dp) <= MAX_PARTS_PER_DRIVE
      /\ \A k \in 1..Len(dp) :
            \/ k \in 1..Len(drive_parts[drive]) /\ dp[k] = drive_parts[drive][k]
            \/ dp[k].start = e.start /\ dp[k].count = e.count
    BY <1>1, AddPartFacts
<1>3. drive_parts' = [drive_parts EXCEPT ![drive] = dp]
    OBVIOUS
<1>. HIDE DEF dp
<1>4. /\ drive_parts' \in [Drives -> Seq(Part)] /\ drive_parts'[drive] = dp
      /\ \A n \in Drives \ {drive} : drive_parts'[n] = drive_parts[n]
      /\ \A n \in Drives : Len(drive_parts'[n]) <= MAX_PARTS_PER_DRIVE
    BY <1>1, <1>2, <1>3 DEF PartitionInv, TypeOK
<1>5. PartsKnown'
    <2>1. SUFFICES ASSUME NEW n \in DOMAIN drives \ exchanged, Seen(n),
                          NEW k \in 1..Len(drive_parts'[n])
                   PROVE  FromDisk(drives[n], drive_parts'[n][k])
        BY DEF PartsKnown, Seen, FromDisk
    <2>2. n \in Drives
        BY PartitionAssumption DEF PartitionInv, TypeOK, Drives
    <2>3. CASE n = drive
        <3>1. CASE k \in 1..Len(drive_parts[drive]) /\ dp[k] = drive_parts[drive][k]
            BY <1>4, <2>1, <2>3, <3>1 DEF PartitionInv, PartsKnown
        <3>2. CASE dp[k].start = e.start /\ dp[k].count = e.count
            BY <1>4, <2>1, <2>3, <3>2 DEF FromDisk
        <3>. QED  BY <1>2, <1>4, <2>1, <2>3, <3>1, <3>2
    <2>4. CASE n # drive
        BY <1>4, <2>1, <2>2, <2>4 DEF PartitionInv, PartsKnown
    <2>. QED  BY <2>3, <2>4
<1>. QED  BY <1>4, <1>5

LEMMA StepEntry == ASSUME PartitionInv, parse_entry PROVE PartitionInv'
<1>. DEFINE pe == Layout[parsed[drive]][address(0)].entry[i]
<1>1. /\ pc = "entry" /\ i <= 4
      /\ UNCHANGED <<drives, partition_lock, drive, req, result, history, swaps>>
      /\ \/ /\ drive_parts' = [drive_parts EXCEPT ![drive] = AddPart(@, pe)]
            /\ i' = i + 1 /\ UNCHANGED <<pc, current_lba>>
         \/ /\ pc' = "ebr" /\ current_lba' = pe.start
            /\ UNCHANGED <<drive_parts, i>>
    BY DEF parse_entry
<1>2. /\ parsed[drive] \in Disks /\ i \in 1..4
      /\ drive \notin exchanged => parsed[drive] = drives[drive]
    BY <1>1 DEF PartitionInv, ScanSane, TypeOK
<1>3. address(0) = 0 /\ 0 \in 0..(DiskSectors - 1)
    BY AddressFacts
<1>4. pe \in Entry /\ pe.start \in 0..(U32 - 1)
    BY <1>2, <1>3, EntryFacts
<1>5. drive \notin exchanged =>
         \E lba \in 0..(DiskSectors - 1), k \in 1..4 : Layout[drives[drive]][lba].entry[k] = pe
    BY <1>2, <1>3
<1>. HIDE DEF pe
<1>6. CASE /\ drive_parts' = [drive_parts EXCEPT ![drive] = AddPart(@, pe)]
           /\ i' = i + 1 /\ UNCHANGED <<pc, current_lba>>
    <2>1. /\ drive_parts' \in [Drives -> Seq(Part)]
          /\ \A n \in Drives : Len(drive_parts'[n]) <= MAX_PARTS_PER_DRIVE
          /\ PartsKnown'
        BY <1>1, <1>4, <1>5, <1>6, PartAdded DEF history
    <2>2. i' \in 1..5
        BY <1>2, <1>6
    <2>3. TypeOK'
        BY <1>1, <1>6, <2>1, <2>2 DEF PartitionInv, TypeOK, history
    <2>4. ScanSane' /\ ReqSane'
        BY <1>1, <1>6, NoTransfer DEF PartitionInv, ScanSane, history
    <2>. QED  BY <2>1, <2>3, <2>4 DEF PartitionInv
<1>7. CASE pc' = "ebr" /\ current_lba' = pe.start /\ UNCHANGED <<drive_parts, i>>
    <2>1. TypeOK'
        BY <1>1, <1>4, <1>7 DEF PartitionInv, TypeOK, history
    <2>2. ScanSane' /\ ReqSane'
        BY <1>1, <1>7, NoTransfer DEF PartitionInv, ScanSane, history
    <2>3. PartsKnown'
        BY <1>1, <1>7 DEF PartitionInv, PartsKnown, Seen, history
    <2>. QED  BY <2>1, <2>2, <2>3 DEF PartitionInv
<1>. QED  BY <1>1, <1>6, <1>7

LEMMA StepEntriesDone == ASSUME PartitionInv, entries_done PROVE PartitionInv'
<1>1. /\ pc = "entry" /\ NextDrive
      /\ UNCHANGED <<drives, drive_parts, partition_lock, req, result, history, swaps>>
    BY DEF entries_done
<1>2. drive <= Len(drives)
    BY <1>1 DEF PartitionInv, ScanSane
<1>3. \A n \in DOMAIN drives \ exchanged' : n <= drive =>
         \A k \in 1..Len(drive_parts'[n]) : FromDisk(drives[n], drive_parts'[n][k])
    BY <1>1 DEF PartitionInv, PartsKnown, Seen, history
<1>4. /\ drive' \in 1..(MaxDrives + 1) /\ ScanSane' /\ ReqSane' /\ PartsKnown'
      /\ pc' = "mbr" /\ i' = i /\ current_lba' = current_lba
    BY <1>1, <1>2, <1>3, DriveDone
<1>5. TypeOK'
    BY <1>1, <1>4 DEF PartitionInv, TypeOK, history
<1>. QED  BY <1>4, <1>5 DEF PartitionInv

LEMMA StepEbr == ASSUME PartitionInv, parse_ebr PROVE PartitionInv'
<1>. DEFINE ebr == read_sector(current_lba)
<1>1. /\ pc = "ebr" /\ CanRead(current_lba)
      /\ UNCHANGED <<drives, partition_lock, pc, drive, i, req, result, history, swaps>>
      /\ \/ /\ drive_parts' = [drive_parts EXCEPT ![drive] = AddPart(@, ebr.entry[1])]
            /\ current_lba' = ebr.entry[2].start
         \/ current_lba' = 0 /\ UNCHANGED drive_parts
    BY DEF parse_ebr
<1>2. /\ address(current_lba) \in 0..(DiskSectors - 1) /\ drives[drive] \in Disks
    <2>1. current_lba \in Nat /\ drive <= Len(drives)
        BY <1>1, PartitionAssumption DEF PartitionInv, TypeOK, ScanSane
    <2>. QED  BY <1>1, <2>1, AddressFacts, ScannedDrive
<1>3. /\ ebr.entry[1] \in Entry /\ ebr.entry[2].start \in 0..(U32 - 1)
      /\ Layout[drives[drive]][address(current_lba)].entry[1] = ebr.entry[1]
    <2>1. ebr = Layout[drives[drive]][address(current_lba)]
        BY DEF read_sector
    <2>. QED  BY <1>2, <2>1, EntryFacts
<1>. HIDE DEF ebr
<1>4. CASE /\ drive_parts' = [drive_parts EXCEPT ![drive] = AddPart(@, ebr.entry[1])]
           /\ current_lba' = ebr.entry[2].start
    <2>1. /\ drive_parts' \in [Drives -> Seq(Part)]
          /\ \A n \in Drives : Len(drive_parts'[n]) <= MAX_PARTS_PER_DRIVE
          /\ PartsKnown'
        <3>1. \E lba \in 0..(DiskSectors - 1), k \in 1..4 :
                 Layout[drives[drive]][lba].entry[k] = ebr.entry[1]
            BY <1>2, <1>3
        <3>. QED  BY <1>1, <1>3, <1>4, <3>1, PartAdded DEF history
    <2>3. TypeOK'
        BY <1>1, <1>3, <1>4, <2>1 DEF PartitionInv, TypeOK, history
    <2>4. ScanSane' /\ ReqSane'
        BY <1>1, <1>4, NoTransfer DEF PartitionInv, ScanSane, history
    <2>. QED  BY <2>1, <2>3, <2>4 DEF PartitionInv
<1>5. CASE current_lba' = 0 /\ UNCHANGED drive_parts
    <2>1. TypeOK'
        BY <1>1, <1>5, PartitionAssumption DEF PartitionInv, TypeOK, history
    <2>2. ScanSane' /\ ReqSane'
        BY <1>1, <1>5, NoTransfer DEF PartitionInv, ScanSane, history
    <2>3. PartsKnown'
        BY <1>1, <1>5 DEF PartitionInv, PartsKnown, Seen, history
    <2>. QED  BY <2>1, <2>2, <2>3 DEF PartitionInv
<1>. QED  BY <1>1, <1>4, <1>5

LEMMA StepEbrFailed == ASSUME PartitionInv, ebr_failed PROVE PartitionInv'
<1>. USE DEF ebr_failed
<1>1. drive \in Drives
    BY ScannedDrive DEF PartitionInv, ScanSane
<1>2. TypeOK'
    <2>1. readable' \in [Drives -> BOOLEAN] /\ current_lba' \in 0..(U32 - 1)
        BY <1>1, PartitionAssumption DEF PartitionInv, TypeOK
    <2>. QED  BY <2>1 DEF PartitionInv, TypeOK
<1>3. ScanSane' /\ ReqSane'
    BY NoTransfer DEF PartitionInv, ScanSane
<1>4. PartsKnown'
    BY DEF PartitionInv, PartsKnown, Seen
<1>. QED  BY <1>2, <1>3, <1>4 DEF PartitionInv

LEMMA StepEbrDone == ASSUME PartitionInv, ebr_done PROVE PartitionInv'
<1>. USE DEF ebr_done, history
<1>1. TypeOK'
    <2>1. i' \in 1..5
        BY DEF PartitionInv, TypeOK, ScanSane
    <2>. QED  BY <2>1 DEF PartitionInv, TypeOK
<1>2. ScanSane' /\ ReqSane'
    BY NoTransfer DEF PartitionInv, ScanSane
<1>3. PartsKnown'
    BY DEF PartitionInv, PartsKnown, Seen
<1>. QED  BY <1>1, <1>2, <1>3 DEF PartitionInv

LEMMA StepUpdateDone == ASSUME PartitionInv, update_done PROVE PartitionInv'
<1>. USE DEF update_done, history, scanvars, lock_release
<1>1. TypeOK'
    BY DEF PartitionInv, TypeOK
<1>2. ScanSane' /\ ReqSane'
    BY NoTransfer DEF PartitionInv, ScanSane
<1>3. PartsKnown'
    <2>1. \A n \in DOMAIN drives : n < drive
        BY DEF PartitionInv, TypeOK
    <2>. QED  BY <2>1 DEF PartitionInv, PartsKnown, Seen
<1>. QED  BY <1>1, <1>2, <1>3 DEF PartitionInv

-----------------------------------------------------------------------------
(* The calls. *)
LEMMA StepRefuse ==
    ASSUME PartitionInv, NEW d, NEW p, NEW offset, NEW length, refuse(d, p, offset, length)
    PROVE  PartitionInv'
<1>. USE DEF refuse, history, scanvars, lock_release
<1>1. TypeOK'
    BY DEF PartitionInv, TypeOK
<1>2. ScanSane' /\ ReqSane'
    BY NoTransfer DEF PartitionInv, ScanSane
<1>3. PartsKnown'
    BY DEF PartitionInv, PartsKnown, Seen
<1>. QED  BY <1>1, <1>2, <1>3 DEF PartitionInv

LEMMA StepCheck ==
    ASSUME PartitionInv, NEW d, NEW p, NEW offset \in 0..(U64 - 1), NEW length \in 0..(U64 - 1),
           check(d, p, offset, length)
    PROVE  PartitionInv'
<1>. DEFINE pe == drive_parts[d][p]
            addr == (pe.start * SECTOR_SIZE + offset) % U64
<1>1. /\ pc = "idle" /\ Valid(d, p) /\ InBounds(pe, offset, length)
      /\ req' = [op |-> "transfer", drive |-> d, part |-> p, offset |-> offset,
                 length |-> length, abs_addr |-> addr]
      /\ partition_lock' = 0 /\ pc' = "transfer"
      /\ UNCHANGED <<drives, drive_parts, scanvars, result, history, swaps>>
    BY DEF check, lock_release
<1>2. /\ d \in 1..Len(drives) /\ p \in 1..Len(drive_parts[d]) /\ d \in Drives
      /\ drive_parts[d] \in Seq(Part) /\ p \in 1..MAX_PARTS_PER_DRIVE
    BY <1>1, PartitionAssumption DEF Valid, PartitionInv, TypeOK, Drives
<1>3. pe \in Part
    BY <1>2, ElementOfSeq
<1>4. addr \in 0..(U64 - 1)
    <2>. DEFINE x == pe.start * SECTOR_SIZE
    <2>1. pe.start \in Nat /\ SECTOR_SIZE \in Nat /\ U64 \in Nat \ {0} /\ x \in Nat
        BY <1>3, PartitionAssumption DEF Part
    <2>. HIDE DEF x
    <2>2. (x + offset) % U64 \in 0..(U64 - 1)
        BY <2>1
    <2>. QED  BY <2>2 DEF x
<1>. HIDE DEF addr
<1>5. req' \in Request /\ req' # NoReq
    BY <1>1, <1>2, <1>4 DEF Request, NoReq
<1>6. TypeOK'
    BY <1>1, <1>5 DEF PartitionInv, TypeOK, scanvars, history
<1>7. ScanSane'
    BY <1>1 DEF ScanSane
<1>8. ReqSane'
    BY <1>1, <1>2, <1>5 DEF ReqSane, addr, InBounds
<1>9. PartsKnown'
    BY <1>1 DEF PartitionInv, PartsKnown, Seen, history
<1>. QED  BY <1>6, <1>7, <1>8, <1>9 DEF PartitionInv

LEMMA StepTransfer ==
    ASSUME PartitionInv, transfer \/ transfer_refused \/ transfer_failed
    PROVE  PartitionInv'
<1>. USE DEF transfer, transfer_refused, transfer_failed, history, scanvars
<1>1. TypeOK'
    BY DEF PartitionInv, TypeOK
<1>2. ScanSane' /\ ReqSane'
    BY DEF ScanSane, ReqSane
<1>3. PartsKnown'
    BY DEF PartitionInv, PartsKnown, Seen
<1>. QED  BY <1>1, <1>2, <1>3 DEF PartitionInv

LEMMA StepExchange ==
    ASSUME PartitionInv, NEW n \in Drives, NEW d \in Disks, Exchange(n, d)
    PROVE  PartitionInv'
<1>1. /\ swaps < MaxSwaps /\ swaps' = swaps + 1 /\ n \in DOMAIN drives
      /\ drives' = [drives EXCEPT ![n] = d]
      /\ exchanged' = exchanged \cup {n}
      /\ UNCHANGED <<drive_parts, partition_lock, pc, scanvars, req, result, parsed, readable>>
    BY DEF Exchange
<1>2. /\ drives' \in Seq(Disks) /\ Len(drives') = Len(drives)
      /\ DOMAIN drives' = DOMAIN drives
      /\ \A m \in DOMAIN drives \ {n} : drives'[m] = drives[m]
    BY <1>1, ExceptSeq DEF PartitionInv, TypeOK
<1>3. TypeOK'
    <2>1. swaps' \in 0..MaxSwaps
        <3>1. swaps \in 0..MaxSwaps /\ MaxSwaps \in Nat
            BY PartitionAssumption DEF PartitionInv, TypeOK
        <3>. QED  BY <1>1, <3>1
    <2>. QED  BY <1>1, <1>2, <2>1 DEF PartitionInv, TypeOK, scanvars
<1>4. ScanSane'
    <2>1. pc \in {"entry", "ebr"} => drive \in DOMAIN drives
        BY ScannedDrive DEF PartitionInv, ScanSane
    <2>. QED  BY <1>1, <1>2, <2>1 DEF PartitionInv, ScanSane, scanvars
<1>5. ReqSane'
    BY <1>1, <1>2 DEF PartitionInv, ReqSane, InBounds
<1>6. PartsKnown'
    BY <1>1, <1>2 DEF PartitionInv, PartsKnown, Seen, scanvars, FromDisk
<1>. QED  BY <1>3, <1>4, <1>5, <1>6 DEF PartitionInv

LEMMA StepStutter == ASSUME PartitionInv, UNCHANGED vars PROVE PartitionInv'
<1>. USE DEF vars, history, scanvars
<1>1. TypeOK'
    BY DEF PartitionInv, TypeOK
<1>2. ScanSane' /\ ReqSane'
    BY DEF PartitionInv, ScanSane, ReqSane, InBounds
<1>3. PartsKnown'
    BY DEF PartitionInv, PartsKnown, Seen
<1>. QED  BY <1>1, <1>2, <1>3 DEF PartitionInv

LEMMA PartitionNext == PartitionInv /\ [Next]_vars => PartitionInv'
<1>. SUFFICES ASSUME PartitionInv, [Next]_vars PROVE PartitionInv'
    OBVIOUS
<1>1. CASE update_partition_tables
    BY <1>1, StepUpdate
<1>2. CASE Call
    <2>1. PICK d \in 0..MaxDrives, p \in 0..MAX_PARTS_PER_DRIVE,
               offset \in Offsets, length \in Lengths :
                  refuse(d, p, offset, length) \/ check(d, p, offset, length)
        BY <1>2 DEF Call
    <2>2. offset \in 0..(U64 - 1) /\ length \in 0..(U64 - 1)
        BY PartitionAssumption
    <2>. QED  BY <2>1, <2>2, StepRefuse, StepCheck
<1>3. CASE Kernel
    BY <1>3, StepMbr, StepEntry, StepEntriesDone, StepEbr, StepEbrFailed, StepEbrDone,
       StepUpdateDone, StepTransfer DEF Kernel, Scan
<1>4. CASE \E n \in Drives, d \in Disks : Exchange(n, d)
    BY <1>4, StepExchange
<1>5. CASE UNCHANGED vars
    BY <1>5, StepStutter
<1>. QED  BY <1>1, <1>2, <1>3, <1>4, <1>5 DEF Next

-----------------------------------------------------------------------------
(* The invariant: the scan is at a drive that is there, what it has found  *)
(* is on the disk it reads, and a request under way is the one checked.    *)
THEOREM TablesInvariant == Spec => []PartitionInv
BY InitInv, PartitionNext, PTL DEF Spec

(* Every variable keeps its type, and no partition table outgrows the      *)
(* MAX_PARTS_PER_DRIVE entries of its array, whatever the disks say and    *)
(* however long their chains of boot records are.                          *)
THEOREM PartitionTypes == Spec => []TypeOK
<1>1. PartitionInv => TypeOK
    BY DEF PartitionInv
<1>. QED  BY <1>1, TablesInvariant, PTL

(* parse_mbr empties the table first, and parse_ebr adds what the sector   *)
(* says: after an update no partition is left of a disk that is elsewhere. *)
THEOREM NoForeignPartitions == Spec => []NothingForeign
<1>1. PartitionInv => NothingForeign
    <2>1. SUFFICES ASSUME PartitionInv, Settled, NEW n \in DOMAIN drives \ exchanged,
                          NEW p \in Range(drive_parts[n])
                   PROVE  FromDisk(drives[n], p)
        BY DEF NothingForeign
    <2>2. Seen(n)
        BY <2>1 DEF Settled, Seen
    <2>3. drive_parts[n] \in Seq(Part)
        BY <2>1, PartitionAssumption DEF PartitionInv, TypeOK, Drives
    <2>4. PICK k \in 1..Len(drive_parts[n]) : p = drive_parts[n][k]
        BY <2>1, <2>3, LenProperties DEF Range
    <2>. QED  BY <2>1, <2>2, <2>4 DEF PartitionInv, PartsKnown
<1>. QED  BY <1>1, TablesInvariant, PTL

(* What the check says of the bytes of a request: start and size of a      *)
(* partition are 32 bits wide, so that their bytes fit into 64.            *)
LEMMA BytesInside ==
    ASSUME NEW pe \in Part, NEW offset \in 0..(U64 - 1), NEW length \in 0..(U64 - 1),
           InBounds(pe, offset, length), offset + length < U64
    PROVE  LET addr == (pe.start * SECTOR_SIZE + offset) % U64
           IN  /\ addr >= pe.start * SECTOR_SIZE
               /\ addr + length <= (pe.start + pe.count) * SECTOR_SIZE
<1>1. /\ pe.start \in 0..(U32 - 1) /\ pe.count \in 0..(U32 - 1) /\ SECTOR_SIZE \in Nat \ {0}
      /\ U32 \in Nat /\ U64 \in Nat /\ (U32 + U32) * SECTOR_SIZE <= U64
    BY PartitionAssumption DEF Part
<1>. DEFINE x == pe.start * SECTOR_SIZE
            y == pe.count * SECTOR_SIZE
            z == U32 * SECTOR_SIZE
<1>2. /\ x \in Nat /\ y \in Nat /\ z \in Nat /\ x < z /\ y < z
    <2>1. \A m \in Nat : m < U32 => m * SECTOR_SIZE \in Nat /\ m * SECTOR_SIZE < U32 * SECTOR_SIZE
        BY <1>1, Z3
    <2>2. /\ pe.start \in Nat /\ pe.start < U32 /\ pe.count \in Nat /\ pe.count < U32
        BY <1>1
    <2>. QED  BY <1>1, <2>1, <2>2
<1>3. (pe.start + pe.count) * SECTOR_SIZE = x + y /\ (U32 + U32) * SECTOR_SIZE = z + z
    <2>1. \A m, n \in Nat : (m + n) * SECTOR_SIZE = m * SECTOR_SIZE + n * SECTOR_SIZE
        BY <1>1, Z3
    <2>. QED  BY <1>1, <2>1
<1>4. (offset + length) % U64 <= y
    BY DEF InBounds
<1>. HIDE DEF x, y, z
<1>5. z + z <= U64
    BY <1>1, <1>3
<1>6. (offset + length) % U64 = offset + length
    BY <1>1
<1>7. (x + offset) % U64 = x + offset
    BY <1>1, <1>2, <1>4, <1>5, <1>6
<1>. QED  BY <1>1, <1>2, <1>3, <1>4, <1>6, <1>7 DEF x

(* A transfer stays inside the partition it was given, although the lock   *)
(* is released before it: the check of partition_read and partition_write  *)
(* still holds of the table then.  The sum of the check must not wrap, and *)
(* the disk must not have been exchanged.                                  *)
THEOREM TransfersConfined == Spec => TransferConfined
<1>. DEFINE Confined ==
         transfer /\ req.drive \notin exchanged /\ req.offset + req.length < U64
          => \E p \in Range(drive_parts[req.drive]) :
                /\ p = drive_parts[req.drive][req.part]
                /\ req.abs_addr >= p.start * SECTOR_SIZE
                /\ req.abs_addr + req.length <= (p.start + p.count) * SECTOR_SIZE
<1>1. PartitionInv /\ [Next]_vars => [Confined]_vars
    <2>1. SUFFICES ASSUME PartitionInv, transfer, req.offset + req.length < U64
                   PROVE  \E p \in Range(drive_parts[req.drive]) :
                /\ p = drive_parts[req.drive][req.part]
                /\ req.abs_addr >= p.start * SECTOR_SIZE
                /\ req.abs_addr + req.length <= (p.start + p.count) * SECTOR_SIZE
        OBVIOUS
    <2>. DEFINE pe == drive_parts[req.drive][req.part]
    <2>2. /\ req.drive \in 1..Len(drives) /\ req.part \in 1..Len(drive_parts[req.drive])
          /\ InBounds(pe, req.offset, req.length)
          /\ req.abs_addr = (pe.start * SECTOR_SIZE + req.offset) % U64
          /\ req \in Request
        BY <2>1 DEF PartitionInv, ReqSane, transfer, TypeOK
    <2>3. req.offset \in 0..(U64 - 1) /\ req.length \in 0..(U64 - 1) /\ req.drive \in Drives
        BY <2>2 DEF Request
    <2>4. drive_parts[req.drive] \in Seq(Part)
        BY <2>1, <2>3 DEF PartitionInv, TypeOK
    <2>5. pe \in Part /\ pe \in Range(drive_parts[req.drive])
        BY <2>2, <2>4, ElementOfSeq, LenProperties DEF Range
    <2>. HIDE DEF pe
    <2>6. /\ req.abs_addr >= pe.start * SECTOR_SIZE
          /\ req.abs_addr + req.length <= (pe.start + pe.count) * SECTOR_SIZE
        BY <2>1, <2>2, <2>3, <2>5, BytesInside
    <2>. QED  BY <2>5, <2>6 DEF pe
<1>. QED  BY <1>1, TablesInvariant, PTL DEF Spec, TransferConfined
-----------------------------------------------------------------------------
(* The disk's list, entry by entry.  What the functions are that the list  *)
(* is written with: the entries in use among the first k,                  *)
UsedEq(s, f) ==
    f = [k \in 0..Len(s) |-> IF k = 0 THEN <<>>
                             ELSE IF s[k].count > 0 THEN Append(f[k - 1], s[k]) ELSE f[k - 1]]

LEMMA UsedDef == ASSUME NEW s PROVE UsedOf(s) = CHOOSE f : UsedEq(s, f)
  BY Zenon DEF UsedOf, UsedEq

AddUsed(u, e) == IF e.count > 0 THEN Append(u, e) ELSE u

IsUsed(s, u) ==
    /\ u \in [0..Len(s) -> Seq(Entry)] /\ u[0] = <<>>
    /\ \A k \in 1..Len(s) : u[k] = AddUsed(u[k - 1], s[k])

LEMMA UsedFacts == ASSUME NEW s \in Seq(Entry) PROVE IsUsed(s, UsedOf(s))
<1>. DEFINE V == Seq(Entry)
            next(n) == [x \in V \X (1..n) |-> AddUsed(x[1], s[x[2]])]
<1>1. PICK n \in Nat : n = Len(s)
    BY LenProperties
<1>2. \A k \in 1..n : s[k] \in Entry
    BY <1>1, ElementOfSeq
<1>3. ASSUME NEW u \in V, NEW e \in Entry PROVE AddUsed(u, e) \in V
    BY AppendProperties DEF AddUsed
<1>4. next(n) \in [V \X (1..n) -> V] /\ <<>> \in V
    <2>1. ASSUME NEW x \in V \X (1..n) PROVE AddUsed(x[1], s[x[2]]) \in V
        BY <1>2, <1>3
    <2>. QED  BY <2>1
<1>5. PICK w : IsRun(n, V, <<>>, next(n), w)
    <2>. HIDE DEF next, V
    <2>. QED  BY <1>4, Iteration
<1>6. w \in [0..n -> V] /\ w[0] = <<>> /\ \A k \in 1..n : w[k] = AddUsed(w[k - 1], s[k])
    <2>. HIDE DEF V
    <2>1. w \in [0..n -> V] /\ w[0] = <<>> /\ \A k \in 1..n : w[k] = next(n)[<<w[k - 1], k>>]
        <3>. HIDE DEF next
        <3>. QED  BY <1>5 DEF IsRun
    <2>2. ASSUME NEW k \in 1..n PROVE w[k] = AddUsed(w[k - 1], s[k])
        <3>1. k - 1 \in 0..n
            BY <1>1
        <3>2. <<w[k - 1], k>> \in V \X (1..n)
            BY <2>1, <3>1
        <3>. QED  BY <2>1, <3>2
    <2>. QED  BY <2>1, <2>2
<1>7. UsedEq(s, w)
    <2>1. w = [k \in 0..n |-> w[k]]
        BY <1>6
    <2>2. ASSUME NEW k \in 0..n
          PROVE  w[k] = IF k = 0 THEN <<>>
                        ELSE IF s[k].count > 0 THEN Append(w[k - 1], s[k]) ELSE w[k - 1]
        <3>1. CASE k = 0
            BY <1>6, <3>1
        <3>2. CASE k # 0
            <4>1. k \in 1..n
                BY <1>1, <3>2
            <4>. QED  BY <1>6, <3>2, <4>1 DEF AddUsed
        <3>. QED  BY <3>1, <3>2
    <2>3. w = [k \in 0..n |-> IF k = 0 THEN <<>>
                ELSE IF s[k].count > 0 THEN Append(w[k - 1], s[k]) ELSE w[k - 1]]
        BY <2>1, <2>2, Zenon
    <2>. QED  BY <1>1, <2>3, Zenon DEF UsedEq
<1>. DEFINE h == UsedOf(s)
<1>8. UsedEq(s, h)
    BY <1>7, UsedDef
<1>. HIDE DEF h
<1>9. h = [k \in 0..n |-> IF k = 0 THEN <<>>
              ELSE IF s[k].count > 0 THEN Append(h[k - 1], s[k]) ELSE h[k - 1]]
    BY <1>1, <1>8, Zenon DEF UsedEq
<1>10. h[0] = <<>> /\ \A k \in 1..n : h[k] = AddUsed(h[k - 1], s[k])
    <2>1. \A k \in 0..n : h[k] = IF k = 0 THEN <<>>
              ELSE IF s[k].count > 0 THEN Append(h[k - 1], s[k]) ELSE h[k - 1]
        BY <1>9, Zenon
    <2>2. 0 \in 0..n /\ \A k \in 1..n : k \in 0..n /\ k # 0
        BY <1>1
    <2>. QED  BY <2>1, <2>2 DEF AddUsed
<1>11. \A k \in 0..n : h[k] = w[k]
    <2>. DEFINE T == {k \in Nat : k <= n => h[k] = w[k]}
    <2>1. 0 \in T
        BY <1>6, <1>10
    <2>2. ASSUME NEW k \in Nat, k \in T PROVE k + 1 \in T
        <3>1. SUFFICES ASSUME k + 1 <= n PROVE h[k + 1] = w[k + 1]
            OBVIOUS
        <3>2. k + 1 \in 1..n /\ (k + 1) - 1 = k /\ h[k] = w[k]
            BY <1>1, <2>2, <3>1
        <3>. QED  BY <1>6, <1>10, <3>2
    <2>3. Nat \subseteq T
        <3>. HIDE DEF T
        <3>. QED  BY <2>1, <2>2, SetInduction
    <2>. QED  BY <1>1, <2>3
<1>12. h \in [0..n -> V]
    <2>1. DOMAIN h = 0..n /\ h = [k \in 0..n |-> h[k]]
        BY <1>9, Zenon
    <2>2. \A k \in 0..n : h[k] \in V
        BY <1>6, <1>11
    <2>. QED  BY <2>1, <2>2, Zenon
<1>. QED  BY <1>1, <1>10, <1>12 DEF IsUsed, h

(* and the sectors that a chain of boot records goes through.              *)
ChainEq(d, first, f) ==
    f = [k \in 1..(DiskSectors + 1) |->
            IF k = 1 THEN first
            ELSE IF IsRecord(d, f[k - 1]) THEN Layout[d][f[k - 1]].entry[2].start ELSE 0]

LEMMA ChainDef ==
    ASSUME NEW d, NEW first PROVE ChainOf(d, first) = CHOOSE f : ChainEq(d, first, f)
  BY Zenon DEF ChainOf, ChainEq

NextRecord(d, lba) == IF IsRecord(d, lba) THEN Layout[d][lba].entry[2].start ELSE 0

IsChain(d, first, c) ==
    c[1] = first /\ \A k \in 1..DiskSectors : c[k + 1] = NextRecord(d, c[k])

LEMMA ChainFacts ==
    ASSUME NEW d \in Disks, NEW first \in 0..(U32 - 1)
    PROVE  IsChain(d, first, ChainOf(d, first))
<1>. DEFINE V == 0..(U32 - 1)
            next(n) == [x \in V \X (1..n) |-> NextRecord(d, x[1])]
<1>1. PICK n \in Nat : n = DiskSectors
    BY PartitionAssumption
<1>2. ASSUME NEW lba \in V PROVE NextRecord(d, lba) \in V
    <2>1. CASE IsRecord(d, lba)
        <3>1. lba \in 0..(DiskSectors - 1) /\ 2 \in 1..4
            BY <2>1, PartitionAssumption DEF IsRecord
        <3>. QED  BY <2>1, <3>1, EntryFacts DEF NextRecord
    <2>2. CASE ~IsRecord(d, lba)
        BY <2>2, PartitionAssumption DEF NextRecord
    <2>. QED  BY <2>1, <2>2
<1>3. next(n) \in [V \X (1..n) -> V] /\ first \in V
    <2>1. ASSUME NEW x \in V \X (1..n) PROVE NextRecord(d, x[1]) \in V
        BY <1>2
    <2>. QED  BY <2>1
<1>4. PICK w : IsRun(n, V, first, next(n), w)
    <2>. HIDE DEF next, V
    <2>. QED  BY <1>3, Iteration
<1>5. w \in [0..n -> V] /\ w[0] = first /\ \A k \in 1..n : w[k] = NextRecord(d, w[k - 1])
    <2>. HIDE DEF V
    <2>1. w \in [0..n -> V] /\ w[0] = first /\ \A k \in 1..n : w[k] = next(n)[<<w[k - 1], k>>]
        <3>. HIDE DEF next
        <3>. QED  BY <1>4 DEF IsRun
    <2>2. ASSUME NEW k \in 1..n PROVE w[k] = NextRecord(d, w[k - 1])
        <3>1. k - 1 \in 0..n
            BY <1>1
        <3>2. <<w[k - 1], k>> \in V \X (1..n)
            BY <2>1, <3>1
        <3>. QED  BY <2>1, <3>2
    <2>. QED  BY <2>1, <2>2
<1>. DEFINE g == [k \in 1..(n + 1) |-> w[k - 1]]
<1>6. ChainEq(d, first, g)
    <2>1. ASSUME NEW k \in 1..(n + 1)
          PROVE  g[k] = IF k = 1 THEN first
                        ELSE IF IsRecord(d, g[k - 1]) THEN Layout[d][g[k - 1]].entry[2].start ELSE 0
        <3>1. CASE k = 1
            <4>1. 1 - 1 = 0 /\ g[k] = w[k - 1]
                OBVIOUS
            <4>. QED  BY <1>5, <3>1, <4>1
        <3>2. CASE k # 1
            <4>1. k - 1 \in 1..n /\ k - 1 \in 1..(n + 1)
                BY <1>1, <3>2
            <4>2. g[k] = w[k - 1] /\ g[k - 1] = w[(k - 1) - 1]
                BY <4>1
            <4>3. g[k] = NextRecord(d, g[k - 1])
                BY <1>5, <4>1, <4>2
            <4>. QED  BY <3>2, <4>3, Zenon DEF NextRecord
        <3>. QED  BY <3>1, <3>2
    <2>2. g = [k \in 1..(n + 1) |-> g[k]]
        OBVIOUS
    <2>. HIDE DEF g
    <2>3. g = [k \in 1..(n + 1) |-> IF k = 1 THEN first
                ELSE IF IsRecord(d, g[k - 1]) THEN Layout[d][g[k - 1]].entry[2].start ELSE 0]
        BY <2>1, <2>2, Zenon
    <2>. QED  BY <1>1, <2>3, Zenon DEF ChainEq
<1>. HIDE DEF g
<1>. DEFINE h == ChainOf(d, first)
<1>7. ChainEq(d, first, h)
    BY <1>6, ChainDef
<1>. HIDE DEF h
<1>8. \A k \in 1..(n + 1) :
         h[k] = IF k = 1 THEN first
                ELSE IF IsRecord(d, h[k - 1]) THEN Layout[d][h[k - 1]].entry[2].start ELSE 0
    <2>1. h = [k \in 1..(n + 1) |-> IF k = 1 THEN first
                ELSE IF IsRecord(d, h[k - 1]) THEN Layout[d][h[k - 1]].entry[2].start ELSE 0]
        BY <1>1, <1>7, Zenon DEF ChainEq
    <2>. QED  BY <2>1, Zenon
<1>9. h[1] = first
    <2>1. 1 \in 1..(n + 1)
        BY <1>1
    <2>. QED  BY <1>8, <2>1
<1>10. ASSUME NEW k \in 1..n PROVE h[k + 1] = NextRecord(d, h[k])
    <2>1. k + 1 \in 1..(n + 1) /\ k + 1 # 1 /\ (k + 1) - 1 = k
        BY <1>1
    <2>. QED  BY <1>8, <2>1 DEF NextRecord
<1>. QED  BY <1>1, <1>9, <1>10 DEF IsChain, h

(* The records of a chain are its beginning. *)
LEMMA RecordFacts ==
    ASSUME NEW d, NEW first
    PROVE  \E n \in 0..(DiskSectors + 1) :
              /\ EbrChain(d, first) = [k \in 1..n |-> ChainOf(d, first)[k]]
              /\ \A k \in 1..n : IsRecord(d, ChainOf(d, first)[k])
              /\ n = DiskSectors + 1 \/ ~IsRecord(d, ChainOf(d, first)[n + 1])
<1>. DEFINE c == ChainOf(d, first)
            N == DiskSectors + 1
            Stop(n) == /\ \A k \in 1..n : IsRecord(d, c[k])
                       /\ n = N \/ ~IsRecord(d, c[n + 1])
            S == {m \in 0..N : m = N \/ ~IsRecord(d, c[m + 1])}
<1>1. N \in Nat
    BY PartitionAssumption
<1>. HIDE DEF c, N
<1>2. S \in SUBSET Nat /\ N \in S
    BY <1>1
<1>3. PICK m \in S : \A k \in S : m <= k
    BY <1>2, LeastNumber
<1>4. ASSUME NEW k \in 1..m PROVE IsRecord(d, c[k])
    <2>1. k - 1 \in 0..N /\ ~(m <= k - 1) /\ k - 1 # N /\ (k - 1) + 1 = k
        BY <1>1, <1>3
    <2>. QED  BY <1>3, <2>1
<1>5. m \in 0..N /\ Stop(m)
    BY <1>3, <1>4
<1>. DEFINE n == CHOOSE n \in 0..N : Stop(n)
<1>6. n \in 0..N /\ Stop(n)
    BY <1>5
<1>7. EbrChain(d, first) = [k \in 1..n |-> c[k]]
    BY Zenon DEF EbrChain, c, N
<1>. HIDE DEF n
<1>. QED  BY <1>6, <1>7 DEF c, N

(* A table holds as many of the entries in use as there is room for, and   *)
(* AddPart keeps it so.                                                    *)
AsPart(e) == [start |-> e.start, count |-> e.count]

LEMMA KeptFacts ==
    ASSUME NEW u \in Seq(Entry)
    PROVE  \E m \in 0..MAX_PARTS_PER_DRIVE :
              /\ m = Len(Kept(u)) /\ m <= Len(u)
              /\ m = Len(u) \/ m = MAX_PARTS_PER_DRIVE
              /\ Kept(u) \in Seq(Part) /\ \A k \in 1..m : Kept(u)[k] = AsPart(u[k])
<1>1. PICK n \in Nat : n = Len(u)
    BY LenProperties
<1>2. PICK M \in Nat : M = MAX_PARTS_PER_DRIVE
    BY PartitionAssumption
<1>3. PICK m \in 0..M : m = (IF n < M THEN n ELSE M) /\ m <= n
    BY <1>1, <1>2
<1>4. Kept(u) = [k \in 1..m |-> AsPart(u[k])]
    BY <1>1, <1>2, <1>3 DEF Kept, AsPart
<1>5. ASSUME NEW k \in 1..m PROVE AsPart(u[k]) \in Part
    <2>1. u[k] \in Entry
        BY <1>1, <1>3, ElementOfSeq
    <2>. QED  BY <2>1 DEF AsPart, Entry, Part
<1>6. Kept(u) \in Seq(Part) /\ Len(Kept(u)) = m
    BY <1>4, <1>5
<1>. QED  BY <1>1, <1>2, <1>3, <1>4, <1>6

LEMMA KeptAdd ==
    ASSUME NEW u \in Seq(Entry), NEW e \in Entry
    PROVE  AddPart(Kept(u), e) = Kept(AddUsed(u, e))
<1>1. CASE ~(e.count > 0)
    BY <1>1 DEF AddPart, AddUsed
<1>2. CASE e.count > 0
    <2>1. PICK n \in Nat, M \in Nat : n = Len(u) /\ M = MAX_PARTS_PER_DRIVE
        BY LenProperties, PartitionAssumption
    <2>2. PICK v \in Seq(Entry) : v = Append(u, e)
        BY AppendProperties
    <2>3. Len(v) = n + 1 /\ v[n + 1] = e /\ \A k \in 1..n : v[k] = u[k]
        BY <2>1, <2>2, AppendProperties
    <2>4. PICK m \in 0..M : /\ m = Len(Kept(u)) /\ m <= n /\ (m = n \/ m = M)
                            /\ Kept(u) \in Seq(Part) /\ \A k \in 1..m : Kept(u)[k] = AsPart(u[k])
        BY <2>1, KeptFacts
    <2>5. PICK l \in 0..M : /\ l = Len(Kept(v)) /\ l <= n + 1 /\ (l = n + 1 \/ l = M)
                            /\ Kept(v) \in Seq(Part) /\ \A k \in 1..l : Kept(v)[k] = AsPart(v[k])
        BY <2>1, <2>3, KeptFacts
    <2>6. AddUsed(u, e) = v
        BY <1>2, <2>2 DEF AddUsed
    <2>7. CASE m < M
        <3>1. m = n /\ l = n + 1
            BY <2>4, <2>5, <2>7
        <3>2. AddPart(Kept(u), e) = Append(Kept(u), AsPart(e))
            BY <1>2, <2>1, <2>4, <2>7 DEF AddPart, AsPart
        <3>3. AsPart(e) \in Part
            BY DEF AsPart, Entry, Part
        <3>4. PICK t \in Seq(Part) : t = Append(Kept(u), AsPart(e))
            BY <2>4, <3>3, AppendProperties
        <3>5. Len(t) = n + 1 /\ t[n + 1] = AsPart(e) /\ \A k \in 1..n : t[k] = Kept(u)[k]
            <4>1. PICK K \in Seq(Part), q \in Part : K = Kept(u) /\ q = AsPart(e)
                BY <2>4, <3>3
            <4>2. /\ Len(Append(K, q)) = Len(K) + 1
                  /\ \A k \in 1..Len(K) : Append(K, q)[k] = K[k]
                  /\ Append(K, q)[Len(K) + 1] = q
                BY AppendProperties
            <4>3. Len(K) = n /\ t = Append(K, q)
                BY <2>4, <3>1, <3>4, <4>1
            <4>. QED  BY <4>1, <4>2, <4>3
        <3>6. ASSUME NEW k \in 1..(n + 1) PROVE t[k] = Kept(v)[k]
            <4>1. CASE k = n + 1
                BY <2>3, <2>5, <3>1, <3>5, <4>1
            <4>2. CASE k # n + 1
                <5>1. k \in 1..n
                    BY <4>2
                <5>. QED  BY <2>3, <2>4, <2>5, <3>1, <3>5, <5>1
            <4>. QED  BY <4>1, <4>2
        <3>7. Len(Kept(v)) = n + 1
            BY <2>5, <3>1
        <3>8. t = Kept(v)
            BY <2>5, <3>4, <3>5, <3>6, <3>7, SeqEqual
        <3>. QED  BY <2>6, <3>2, <3>4, <3>8
    <2>8. CASE m = M
        <3>1. l = M
            BY <2>4, <2>5, <2>8
        <3>2. AddPart(Kept(u), e) = Kept(u)
            BY <2>1, <2>4, <2>8 DEF AddPart
        <3>3. ASSUME NEW k \in 1..M PROVE Kept(u)[k] = Kept(v)[k]
            <4>1. k \in 1..n
                BY <2>4, <2>8
            <4>. QED  BY <2>3, <2>4, <2>5, <2>8, <3>1, <4>1
        <3>4. Len(Kept(u)) = M /\ Len(Kept(v)) = M
            BY <2>4, <2>5, <2>8, <3>1
        <3>5. Kept(u) = Kept(v)
            BY <2>4, <2>5, <3>3, <3>4, SeqEqual
        <3>. QED  BY <2>6, <3>2, <3>5
    <2>. QED  BY <2>4, <2>7, <2>8
<1>. QED  BY <1>1, <1>2

LEMMA KeptNone == Kept(<<>>) = <<>>
<1>1. <<>> \in Seq(Entry) /\ Len(<<>>) = 0
    OBVIOUS
<1>2. PICK u \in Seq(Entry) : u = <<>> /\ Len(u) = 0
    BY <1>1
<1>3. PICK m \in 0..MAX_PARTS_PER_DRIVE :
          m = Len(Kept(u)) /\ m <= Len(u) /\ Kept(u) \in Seq(Part)
    BY KeptFacts
<1>4. Len(Kept(u)) = 0
    BY <1>2, <1>3, PartitionAssumption
<1>. QED  BY <1>2, <1>3, <1>4, EmptySeq
-----------------------------------------------------------------------------
(* What an entry of the MBR lists. *)
LEMMA ListedFacts ==
    ASSUME NEW d \in Disks, NEW j \in 1..4
    PROVE  Listed(d, j) \in Seq(Entry)
<1>. DEFINE e == Layout[d][0].entry[j]
            chain == EbrChain(d, e.start)
<1>1. e \in Entry /\ 0 \in 0..(DiskSectors - 1)
    <2>1. 0 \in 0..(DiskSectors - 1)
        BY AddressFacts
    <2>. QED  BY <2>1, EntryFacts
<1>2. Listed(d, j) = IF e.extended /\ e.count > 0
                     THEN [k \in 1..Len(chain) |-> Layout[d][chain[k]].entry[1]] ELSE <<e>>
    BY DEF Listed
<1>3. <<e>> \in Seq(Entry)
    BY <1>1
<1>4. PICK n \in 0..(DiskSectors + 1) :
         /\ chain = [k \in 1..n |-> ChainOf(d, e.start)[k]]
         /\ \A k \in 1..n : IsRecord(d, ChainOf(d, e.start)[k])
    BY RecordFacts
<1>. HIDE DEF e, chain
<1>5. n \in Nat /\ Len(chain) = n /\ \A k \in 1..n : IsRecord(d, chain[k])
    <2>1. n \in Nat
        BY PartitionAssumption
    <2>. QED  BY <1>4, <2>1
<1>6. ASSUME NEW k \in 1..n PROVE Layout[d][chain[k]].entry[1] \in Entry
    <2>1. chain[k] \in 0..(DiskSectors - 1) /\ 1 \in 1..4
        BY <1>5, PartitionAssumption DEF IsRecord
    <2>. QED  BY <2>1, EntryFacts
<1>7. [k \in 1..n |-> Layout[d][chain[k]].entry[1]] \in Seq(Entry)
    BY <1>5, <1>6
<1>. QED  BY <1>2, <1>3, <1>5, <1>7

(* The whole list: off[j] entries are listed by the first j of the MBR,    *)
(* u[m] are those in use among the first m.                                *)
IsScan(d, off, u) ==
    /\ off \in [0..4 -> Nat] /\ off[0] = 0
    /\ u \in [0..off[4] -> Seq(Entry)] /\ u[0] = <<>>
    /\ \A j \in 1..4 :
          /\ off[j] = off[j - 1] + Len(Listed(d, j)) /\ off[j] <= off[4]
          /\ \A k \in 1..Len(Listed(d, j)) :
                u[off[j - 1] + k] = AddUsed(u[off[j - 1] + k - 1], Listed(d, j)[k])
    /\ Layout[d][0].sig => Partitions(d) = Kept(u[off[4]])

(* Where two lists are when they are joined.                               *)
Joined(a, l, b, m, c) ==
    /\ c \in Seq(Entry) /\ c = a \o b /\ Len(c) = l + m
    /\ \A k \in 1..l : c[k] = a[k]
    /\ \A k \in 1..m : c[l + k] = b[k]

LEMMA JoinPlaces ==
    ASSUME NEW a \in Seq(Entry), NEW b \in Seq(Entry), NEW l \in Nat, NEW m \in Nat,
           l = Len(a), m = Len(b)
    PROVE  \E c : Joined(a, l, b, m, c)
<1>1. PICK c \in Seq(Entry) : c = a \o b
    BY ConcatProperties
<1>2. Len(c) = l + m /\ \A k \in 1..(l + m) : c[k] = IF k <= l THEN a[k] ELSE b[k - l]
    BY <1>1, ConcatProperties
<1>3. ASSUME NEW k \in 1..l PROVE c[k] = a[k]
    <2>1. k \in 1..(l + m) /\ k <= l
        OBVIOUS
    <2>. QED  BY <1>2, <2>1
<1>4. ASSUME NEW k \in 1..m PROVE c[l + k] = b[k]
    <2>1. l + k \in 1..(l + m) /\ ~(l + k <= l) /\ (l + k) - l = k
        OBVIOUS
    <2>. QED  BY <1>2, <2>1
<1>5. Joined(a, l, b, m, c)
    BY <1>1, <1>2, <1>3, <1>4 DEF Joined
<1>. QED  BY <1>5

LEMMA ScanExists == ASSUME NEW d \in Disks PROVE \E off, u : IsScan(d, off, u)
<1>1. PICK s1 \in Seq(Entry), s2 \in Seq(Entry), s3 \in Seq(Entry), s4 \in Seq(Entry) :
          s1 = Listed(d, 1) /\ s2 = Listed(d, 2) /\ s3 = Listed(d, 3) /\ s4 = Listed(d, 4)
    BY ListedFacts
<1>2. PICK l1 \in Nat, l2 \in Nat, l3 \in Nat, l4 \in Nat :
          l1 = Len(s1) /\ l2 = Len(s2) /\ l3 = Len(s3) /\ l4 = Len(s4)
    BY LenProperties
<1>3. PICK o2 \in Nat, o3 \in Nat, n \in Nat : o2 = l1 + l2 /\ o3 = o2 + l3 /\ n = o3 + l4
    OBVIOUS
<1>4. PICK t2 : Joined(s1, l1, s2, l2, t2)
    BY <1>2, JoinPlaces
<1>5. PICK t3 : Joined(t2, o2, s3, l3, t3)
    <2>1. t2 \in Seq(Entry) /\ o2 = Len(t2)
        BY <1>3, <1>4 DEF Joined
    <2>. QED  BY <1>2, <2>1, JoinPlaces
<1>6. PICK all : Joined(t3, o3, s4, l4, all)
    <2>1. t3 \in Seq(Entry) /\ o3 = Len(t3)
        BY <1>3, <1>5 DEF Joined
    <2>. QED  BY <1>2, <2>1, JoinPlaces
<1>. DEFINE u == UsedOf(all)
            off == [j \in 0..4 |-> IF j = 0 THEN 0 ELSE IF j = 1 THEN l1 ELSE
                                   IF j = 2 THEN o2 ELSE IF j = 3 THEN o3 ELSE n]
<1>7. Layout[d][0].sig => Partitions(d) = Kept(u[n])
    <2>1. Layout[d][0].sig => Partitions(d) =
             Kept(UsedOf(s1 \o s2 \o s3 \o s4)[Len(s1 \o s2 \o s3 \o s4)])
        BY <1>1, Zenon DEF Partitions
    <2>2. s1 \o s2 \o s3 \o s4 = all /\ Len(all) = n
        BY <1>3, <1>4, <1>5, <1>6 DEF Joined
    <2>. QED  BY <2>1, <2>2, Zenon
<1>8. all \in Seq(Entry) /\ n = Len(all) /\ IsUsed(all, u)
    <2>1. all \in Seq(Entry) /\ n = Len(all)
        BY <1>3, <1>6 DEF Joined
    <2>. QED  BY <2>1, UsedFacts
<1>. HIDE DEF u
<1>9. /\ off \in [0..4 -> Nat] /\ off[0] = 0 /\ off[1] = l1 /\ off[2] = o2
      /\ off[3] = o3 /\ off[4] = n
    OBVIOUS
<1>. HIDE DEF off
<1>10. /\ off \in [0..4 -> Nat] /\ off[0] = 0 /\ off[4] = n
       /\ \A j \in 1..4 :
            /\ off[j] = off[j - 1] + Len(Listed(d, j)) /\ off[j] <= n
            /\ \A k \in 1..Len(Listed(d, j)) : all[off[j - 1] + k] = Listed(d, j)[k]
    <2>1. /\ \A k \in 1..l1 : t2[k] = s1[k]
          /\ \A k \in 1..l2 : t2[l1 + k] = s2[k]
          /\ \A k \in 1..o2 : t3[k] = t2[k]
          /\ \A k \in 1..l3 : t3[o2 + k] = s3[k]
          /\ \A k \in 1..o3 : all[k] = t3[k]
          /\ \A k \in 1..l4 : all[o3 + k] = s4[k]
        BY <1>4, <1>5, <1>6, Zenon DEF Joined
    <2>2. ASSUME NEW k \in 1..l1 PROVE all[k] = s1[k]
        <3>1. k \in 1..o2 /\ k \in 1..o3
            BY <1>3
        <3>. QED  BY <2>1, <3>1
    <2>3. ASSUME NEW k \in 1..l2 PROVE all[l1 + k] = s2[k]
        <3>1. PICK x : x = l1 + k /\ x \in 1..o2 /\ x \in 1..o3
            BY <1>3
        <3>2. t2[l1 + k] = s2[k]
            BY <2>1, Zenon
        <3>. QED  BY <2>1, <3>1, <3>2
    <2>4. ASSUME NEW k \in 1..l3 PROVE all[o2 + k] = s3[k]
        <3>1. PICK x : x = o2 + k /\ x \in 1..o3
            BY <1>3
        <3>2. t3[o2 + k] = s3[k]
            BY <2>1, Zenon
        <3>. QED  BY <2>1, <3>1, <3>2
    <2>5. ASSUME NEW j \in 1..4
          PROVE  /\ off[j] = off[j - 1] + Len(Listed(d, j)) /\ off[j] <= n
                 /\ \A k \in 1..Len(Listed(d, j)) : all[off[j - 1] + k] = Listed(d, j)[k]
        <3>1. CASE j = 1
            <4>1. j - 1 = 0 /\ l1 <= n /\ \A k \in 1..l1 : 0 + k = k
                BY <1>3, <3>1
            <4>. QED  BY <1>1, <1>2, <1>9, <2>2, <3>1, <4>1
        <3>2. CASE j = 2
            <4>1. j - 1 = 1 /\ o2 <= n
                BY <1>3, <3>2
            <4>. QED  BY <1>1, <1>2, <1>3, <1>9, <2>3, <3>2, <4>1
        <3>3. CASE j = 3
            <4>1. j - 1 = 2 /\ o3 <= n
                BY <1>3, <3>3
            <4>. QED  BY <1>1, <1>2, <1>3, <1>9, <2>4, <3>3, <4>1
        <3>4. CASE j = 4
            <4>1. j - 1 = 3 /\ n <= n
                BY <3>4
            <4>2. \A k \in 1..l4 : all[o3 + k] = s4[k]
                BY <2>1
            <4>. QED  BY <1>1, <1>2, <1>3, <1>9, <3>4, <4>1, <4>2
        <3>. QED  BY <3>1, <3>2, <3>3, <3>4
    <2>. QED  BY <1>9, <2>5
<1>11. /\ u \in [0..n -> Seq(Entry)] /\ u[0] = <<>>
      /\ \A k \in 1..n : u[k] = AddUsed(u[k - 1], all[k])
    BY <1>8 DEF IsUsed
<1>12. ASSUME NEW j \in 1..4
      PROVE  \A k \in 1..Len(Listed(d, j)) :
                u[off[j - 1] + k] = AddUsed(u[off[j - 1] + k - 1], Listed(d, j)[k])
    <2>1. PICK l \in Nat : l = Len(Listed(d, j))
        BY ListedFacts, LenProperties
    <2>2. PICK b \in Nat : b = off[j - 1] /\ b + l <= n
        <3>1. j - 1 \in 0..4
            OBVIOUS
        <3>2. off[j - 1] \in Nat
            BY <1>10, <3>1
        <3>3. off[j - 1] + l <= n
            BY <1>10, <2>1
        <3>. QED  BY <3>2, <3>3
    <2>3. ASSUME NEW k \in 1..l PROVE u[b + k] = AddUsed(u[b + k - 1], Listed(d, j)[k])
        <3>1. b + k \in 1..n
            BY <2>2
        <3>2. all[b + k] = Listed(d, j)[k]
            BY <1>10, <2>1, <2>2
        <3>3. PICK m \in 1..n : m = b + k
            BY <3>1
        <3>4. u[m] = AddUsed(u[m - 1], all[m])
            BY <1>11
        <3>5. m - 1 = b + k - 1
            BY <3>3
        <3>. QED  BY <3>2, <3>3, <3>4, <3>5, Zenon
    <2>. QED  BY <2>1, <2>2, <2>3, Zenon
<1>13. Layout[d][0].sig => Partitions(d) = Kept(u[off[4]])
    BY <1>7, <1>10
<1>14. IsScan(d, off, u)
    BY <1>10, <1>11, <1>12, <1>13 DEF IsScan
<1>. QED  BY <1>14

ScanOf(d) == CHOOSE x : IsScan(d, x[1], x[2])

(* How many entries are listed before the MBR's entry j, and the table     *)
(* when m of all of them have been looked at.                              *)
Place(d, j) == ScanOf(d)[1][j - 1]
TableAt(d, m) == Kept(ScanOf(d)[2][m])

LEMMA TableFacts ==
    ASSUME NEW d \in Disks
    PROVE  /\ Place(d, 1) = 0 /\ TableAt(d, 0) = <<>>
           /\ \A j \in 1..4 :
                 /\ Place(d, j) \in Nat
                 /\ Place(d, j + 1) = Place(d, j) + Len(Listed(d, j))
                 /\ \A k \in 1..Len(Listed(d, j)) :
                       TableAt(d, Place(d, j) + k)
                           = AddPart(TableAt(d, Place(d, j) + k - 1), Listed(d, j)[k])
           /\ Layout[d][0].sig => Partitions(d) = TableAt(d, Place(d, 5))
<1>. DEFINE off == ScanOf(d)[1]
            u == ScanOf(d)[2]
<1>1. IsScan(d, off, u)
    <2>1. PICK a, b : IsScan(d, a, b)
        BY ScanExists
    <2>. DEFINE x == <<a, b>>
    <2>2. x[1] = a /\ x[2] = b
        OBVIOUS
    <2>. HIDE DEF x
    <2>3. IsScan(d, x[1], x[2])
        BY <2>1, <2>2
    <2>. QED  BY <2>3 DEF ScanOf
<1>2. \A j : Place(d, j) = off[j - 1]
    BY DEF Place
<1>3. \A m : TableAt(d, m) = Kept(u[m])
    BY DEF TableAt
<1>. HIDE DEF off, u
<1>4. /\ off \in [0..4 -> Nat] /\ off[0] = 0
      /\ u \in [0..off[4] -> Seq(Entry)] /\ u[0] = <<>>
      /\ \A j \in 1..4 :
            /\ off[j] = off[j - 1] + Len(Listed(d, j)) /\ off[j] <= off[4]
            /\ \A k \in 1..Len(Listed(d, j)) :
                  u[off[j - 1] + k] = AddUsed(u[off[j - 1] + k - 1], Listed(d, j)[k])
      /\ Layout[d][0].sig => Partitions(d) = Kept(u[off[4]])
    BY <1>1 DEF IsScan
<1>5. Place(d, 1) = 0 /\ Place(d, 5) = off[4] /\ TableAt(d, 0) = <<>>
    <2>1. 1 - 1 = 0 /\ 5 - 1 = 4
        OBVIOUS
    <2>. QED  BY <1>2, <1>3, <1>4, <2>1, KeptNone
<1>6. ASSUME NEW j \in 1..4
      PROVE  /\ Place(d, j) \in Nat
             /\ Place(d, j + 1) = Place(d, j) + Len(Listed(d, j))
             /\ \A k \in 1..Len(Listed(d, j)) :
                   TableAt(d, Place(d, j) + k)
                       = AddPart(TableAt(d, Place(d, j) + k - 1), Listed(d, j)[k])
    <2>1. (j + 1) - 1 = j /\ j - 1 \in 0..4
        OBVIOUS
    <2>2. PICK b \in Nat : b = off[j - 1] /\ b = Place(d, j)
        BY <1>2, <1>4, <2>1
    <2>3. PICK n \in Nat : n = Len(Listed(d, j))
        BY ListedFacts, LenProperties
    <2>4. Place(d, j + 1) = b + n
        BY <1>2, <1>4, <2>1, <2>2, <2>3
    <2>5. off[4] \in Nat /\ b + n <= off[4]
        <3>1. off[j] = b + n /\ off[j] <= off[4]
            BY <1>4, <2>2, <2>3, Zenon
        <3>2. off[4] \in Nat
            BY <1>4
        <3>3. b + n <= off[4]
            BY <3>1
        <3>. QED  BY <3>2, <3>3
    <2>6. ASSUME NEW k \in 1..n
          PROVE  TableAt(d, b + k) = AddPart(TableAt(d, b + k - 1), Listed(d, j)[k])
        <3>1. u[b + k] = AddUsed(u[b + k - 1], Listed(d, j)[k])
            BY <1>4, <2>2, <2>3
        <3>2. u[b + k - 1] \in Seq(Entry) /\ Listed(d, j)[k] \in Entry
            <4>1. b + k - 1 \in 0..off[4]
                BY <2>5
            <4>2. Listed(d, j)[k] \in Entry
                BY <2>3, ListedFacts, ElementOfSeq
            <4>. QED  BY <1>4, <4>1, <4>2
        <3>3. AddPart(Kept(u[b + k - 1]), Listed(d, j)[k])
                 = Kept(AddUsed(u[b + k - 1], Listed(d, j)[k]))
            BY <3>2, KeptAdd
        <3>. QED  BY <1>3, <3>1, <3>3
    <2>. QED  BY <2>2, <2>3, <2>4, <2>6
<1>. QED  BY <1>3, <1>4, <1>5, <1>6
-----------------------------------------------------------------------------
(* The chain that entry j of the MBR leads to, when it ends and lies below *)
(* 4 GB.                                                                   *)
IsExtended(e) == e.extended /\ e.count > 0

ChainGood(d, j, n, c) ==
    /\ n \in Nat /\ n = Len(Listed(d, j)) /\ c[1] = Layout[d][0].entry[j].start
    /\ \A k \in 1..n : /\ IsRecord(d, c[k]) /\ c[k + 1] = Layout[d][c[k]].entry[2].start
                       /\ Listed(d, j)[k] = Layout[d][c[k]].entry[1]
    /\ \A k \in 1..(n + 1) : c[k] < LBA_WRAP
    /\ ~IsRecord(d, c[n + 1])

LEMMA ChainsGood ==
    ASSUME NEW d \in Disks, NEW j \in 1..4, WellFormed(d), IsExtended(Layout[d][0].entry[j])
    PROVE  \E n, c : ChainGood(d, j, n, c)
<1>. DEFINE e == Layout[d][0].entry[j]
            c == ChainOf(d, e.start)
            chain == EbrChain(d, e.start)
<1>1. 0 \in 0..(DiskSectors - 1) /\ DiskSectors \in Nat
    BY AddressFacts, PartitionAssumption
<1>2. e \in Entry /\ e.start \in 0..(U32 - 1)
    BY <1>1, EntryFacts
<1>3. e \in Extended(d)
    <2>1. Layout[d][0].entry \in [1..4 -> Entry]
        <3>1. Layout[d] \in [0..(DiskSectors - 1) -> Sector]
            BY PartitionAssumption
        <3>2. Layout[d][0] \in Sector
            BY <1>1, <3>1
        <3>. QED  BY <3>2 DEF Sector
    <2>2. e \in Range(Layout[d][0].entry)
        BY <2>1 DEF Range
    <2>. QED  BY <2>2 DEF Extended, IsExtended
<1>4. /\ e.start < LBA_WRAP /\ Len(chain) < DiskSectors
      /\ \A lba \in Range(chain) : Layout[d][lba].entry[2].start < LBA_WRAP
    BY <1>3 DEF WellFormed
<1>5. PICK n \in 0..(DiskSectors + 1) :
         /\ chain = [k \in 1..n |-> c[k]]
         /\ \A k \in 1..n : IsRecord(d, c[k])
         /\ n = DiskSectors + 1 \/ ~IsRecord(d, c[n + 1])
    <2>. HIDE DEF e
    <2>. QED  BY RecordFacts
<1>6. IsChain(d, e.start, c)
    BY <1>2, ChainFacts
<1>7. Listed(d, j) = [k \in 1..Len(chain) |-> Layout[d][chain[k]].entry[1]]
    BY Zenon DEF Listed, IsExtended
<1>. HIDE DEF e, c, chain
<1>8. n \in Nat /\ Len(chain) = n /\ n < DiskSectors /\ \A k \in 1..n : chain[k] = c[k]
    <2>1. n \in Nat
        BY <1>1
    <2>2. Len(chain) = n /\ \A k \in 1..n : chain[k] = c[k]
        BY <1>5, <2>1
    <2>. QED  BY <1>4, <2>1, <2>2
<1>9. Len(Listed(d, j)) = n /\ \A k \in 1..n : Listed(d, j)[k] = Layout[d][c[k]].entry[1]
    BY <1>7, <1>8
<1>10. c[1] = e.start /\ \A k \in 1..n : c[k + 1] = Layout[d][c[k]].entry[2].start
    <2>1. c[1] = e.start /\ \A k \in 1..DiskSectors : c[k + 1] = NextRecord(d, c[k])
        BY <1>6 DEF IsChain
    <2>2. \A k \in 1..n : k \in 1..DiskSectors
        BY <1>1, <1>8
    <2>. QED  BY <1>5, <2>1, <2>2 DEF NextRecord
<1>11. ASSUME NEW k \in 1..(n + 1) PROVE c[k] < LBA_WRAP
    <2>1. CASE k = 1
        BY <1>4, <1>10, <2>1
    <2>2. CASE k # 1
        <3>1. PICK l \in 1..n : k = l + 1
            <4>1. k - 1 \in 1..n /\ k = (k - 1) + 1
                BY <1>8, <2>2
            <4>. QED  BY <4>1
        <3>2. chain[l] \in Range(chain)
            BY <1>5 DEF Range
        <3>. QED  BY <1>4, <1>8, <1>10, <3>1, <3>2
    <2>. QED  BY <2>1, <2>2
<1>12. ~IsRecord(d, c[n + 1])
    BY <1>1, <1>5, <1>8
<1>13. ChainGood(d, j, n, c)
    BY <1>5, <1>8, <1>9, <1>10, <1>11, <1>12 DEF ChainGood, e
<1>. QED  BY <1>13

(* An entry that is a partition itself.                                    *)
LEMMA PlainListed ==
    ASSUME NEW d \in Disks, NEW j \in 1..4, ~IsExtended(Layout[d][0].entry[j])
    PROVE  TableAt(d, Place(d, j + 1))
              = AddPart(TableAt(d, Place(d, j)), Layout[d][0].entry[j])
<1>. DEFINE e == Layout[d][0].entry[j]
<1>1. Listed(d, j) = <<e>>
    BY Zenon DEF Listed, IsExtended
<1>. HIDE DEF e
<1>2. Len(Listed(d, j)) = 1 /\ Listed(d, j)[1] = e
    BY <1>1
<1>3. PICK b \in Nat : b = Place(d, j)
    BY TableFacts
<1>4. Place(d, j + 1) = b + 1
    BY <1>2, <1>3, TableFacts
<1>5. TableAt(d, b + 1) = AddPart(TableAt(d, b + 1 - 1), e)
    <2>1. \A k \in 1..Len(Listed(d, j)) :
             TableAt(d, Place(d, j) + k)
                 = AddPart(TableAt(d, Place(d, j) + k - 1), Listed(d, j)[k])
        BY TableFacts
    <2>2. 1 \in 1..Len(Listed(d, j))
        BY <1>2
    <2>3. TableAt(d, Place(d, j) + 1)
              = AddPart(TableAt(d, Place(d, j) + 1 - 1), Listed(d, j)[1])
        BY <2>1, <2>2, Zenon
    <2>. QED  BY <1>2, <1>3, <2>3, Zenon
<1>6. b + 1 - 1 = b
    OBVIOUS
<1>. QED  BY <1>3, <1>4, <1>5, <1>6 DEF e
-----------------------------------------------------------------------------
(* A drive whose table the property speaks of.  When the scan has left it, *)
(* its table is the disk's list; while it is scanned, the beginning of the *)
(* list that the scan has seen.                                            *)
InQuestion(n) ==
    n \in DOMAIN drives \ exchanged /\ readable[n] /\ WellFormed(drives[n])

Scanned(n) == pc \in {"mbr", "entry", "ebr"} => n < drive

OnChain(d, j, k, lba) ==
    \E n, c : /\ ChainGood(d, j, n, c) /\ k \in 1..(n + 1)
              /\ lba = c[k] \/ (lba = 0 /\ k = n + 1)

AtPlace(d) ==
    /\ Layout[d][0].sig
    /\ pc = "entry" => drive_parts[drive] = TableAt(d, Place(d, i))
    /\ pc = "ebr" => \E k \in Nat : /\ OnChain(d, i, k, current_lba)
                                    /\ drive_parts[drive] = TableAt(d, Place(d, i) + k - 1)

ListInv ==
    /\ \A n \in Drives : InQuestion(n) /\ Scanned(n) => drive_parts[n] = Partitions(drives[n])
    /\ pc \in {"entry", "ebr"} /\ InQuestion(drive) => AtPlace(drives[drive])

(* A drive whose part of the state stays: its table stays what it is.      *)
LEMMA QuestionKept ==
    ASSUME NEW n, InQuestion(n)', drives' = drives, n \in exchanged => n \in exchanged',
           readable'[n] = readable[n]
    PROVE  InQuestion(n)
  BY Zenon DEF InQuestion, WellFormed

LEMMA QuestionType ==
    ASSUME PartitionInv, NEW n, InQuestion(n)
    PROVE  /\ n \in Drives /\ drives[n] \in Disks /\ n \notin exchanged
           /\ n \in DOMAIN drives /\ WellFormed(drives[n])
<1>1. n \in DOMAIN drives /\ n \notin exchanged /\ WellFormed(drives[n])
    BY Zenon DEF InQuestion
<1>2. drives \in Seq(Disks) /\ Len(drives) <= MaxDrives /\ MaxDrives \in Nat
    BY PartitionAssumption DEF PartitionInv, TypeOK
<1>3. n \in 1..Len(drives) /\ Len(drives) \in Nat
    BY <1>1, <1>2, LenProperties
<1>. QED  BY <1>1, <1>2, <1>3, ElementOfSeq DEF Drives

LEMMA NumberedDrives == ASSUME PartitionInv PROVE drive \in Nat /\ \A n \in Drives : n \in Nat
  BY PartitionAssumption DEF PartitionInv, TypeOK, Drives

LEMMA ListInit == Init => ListInv
<1>. SUFFICES ASSUME Init PROVE ListInv
    OBVIOUS
<1>1. \A n \in Drives : ~InQuestion(n)
    BY DEF Init, InQuestion
<1>2. pc = "idle"
    BY DEF Init
<1>. QED  BY <1>1, <1>2 DEF ListInv

LEMMA ListUpdate == ASSUME PartitionInv, update_partition_tables PROVE ListInv'
<1>1. pc' = "mbr" /\ drive' = 1
    BY DEF update_partition_tables
<1>2. \A n \in Drives : ~Scanned(n)'
    BY <1>1, PartitionAssumption DEF Scanned, Drives
<1>. QED  BY <1>1, <1>2 DEF ListInv

(* The scan leaves a drive, whose table is complete.                       *)
LEMMA ListLeft ==
    ASSUME PartitionInv, ListInv, pc \in {"mbr", "entry"}, NextDrive, drives' = drives,
           NEW x, x = drive,
           \A n \in Drives : n # drive =>
               /\ n \in exchanged => n \in exchanged'
               /\ readable'[n] = readable[n] /\ drive_parts'[n] = drive_parts[n],
           InQuestion(x)' => drive_parts'[x] = Partitions(drives[x])
    PROVE  ListInv'
<1>1. pc' = "mbr" /\ drive' = drive + 1
    BY DEF NextDrive
<1>2. ASSUME NEW n \in Drives, InQuestion(n)', Scanned(n)'
      PROVE  drive_parts'[n] = Partitions(drives[n])
    <2>1. CASE n = drive
        BY <1>2, <2>1
    <2>2. CASE n # drive
        <3>1. InQuestion(n)
            BY <1>2, <2>2, QuestionKept
        <3>2. n < drive
            BY <1>1, <1>2, <2>2, NumberedDrives DEF Scanned
        <3>3. Scanned(n)
            BY <3>2 DEF Scanned
        <3>. QED  BY <2>2, <3>1, <3>3 DEF ListInv
    <2>. QED  BY <2>1, <2>2
<1>3. \A n : Partitions(drives[n])' = Partitions(drives[n])
    OBVIOUS
<1>. QED  BY <1>1, <1>2, <1>3 DEF ListInv

LEMMA ListMbr == ASSUME PartitionInv, ListInv, parse_mbr PROVE ListInv'
<1>1. /\ pc = "mbr" /\ drive <= Len(drives) /\ drives' = drives
      /\ drive_parts' = [drive_parts EXCEPT ![drive] = <<>>]
      /\ exchanged' = exchanged \ {drive}
    BY DEF parse_mbr
<1>2. drive \in Drives /\ drives[drive] \in Disks
    BY <1>1, ScannedDrive
<1>3. drive_parts \in [Drives -> Seq(Part)] /\ readable \in [Drives -> BOOLEAN]
    BY DEF PartitionInv, TypeOK
<1>4. drive_parts'[drive] = <<>> /\ \A n \in Drives : n # drive => drive_parts'[n] = drive_parts[n]
    BY <1>1, <1>2, <1>3
<1>5. \A n \in Drives : n # drive => readable'[n] = readable[n]
    <2>1. readable' = [readable EXCEPT ![drive] = FALSE] \/ readable' = [readable EXCEPT ![drive] = TRUE]
        BY DEF parse_mbr
    <2>. QED  BY <1>3, <2>1
<1>6. \A n \in Drives : n # drive =>
           /\ n \in exchanged => n \in exchanged'
           /\ readable'[n] = readable[n] /\ drive_parts'[n] = drive_parts[n]
    BY <1>1, <1>4, <1>5
<1>7. read_sector(0) = Layout[drives[drive]][0]
    BY AddressFacts DEF read_sector
<1>8. CASE readable' = [readable EXCEPT ![drive] = FALSE] /\ NextDrive
    <2>1. PICK x : x = drive
        OBVIOUS
    <2>2. ~readable'[x]
        BY <1>2, <1>3, <1>8, <2>1
    <2>3. ~InQuestion(x)'
        BY <2>2, Zenon DEF InQuestion
    <2>. QED  BY <1>1, <1>6, <1>8, <2>1, <2>3, ListLeft
<1>9. CASE ~read_sector(0).sig /\ NextDrive
    <2>1. Partitions(drives[drive]) = <<>>
        BY <1>7, <1>9, Zenon DEF Partitions
    <2>2. PICK x : x = drive
        OBVIOUS
    <2>3. drive_parts'[x] = Partitions(drives[x])
        BY <1>4, <2>1, <2>2
    <2>. QED  BY <1>1, <1>6, <1>9, <2>2, <2>3, ListLeft
<1>10. CASE read_sector(0).sig /\ pc' = "entry" /\ i' = 1 /\ drive' = drive
    <2>1. drive_parts'[drive] = TableAt(drives[drive], Place(drives[drive], 1))
        BY <1>2, <1>4, TableFacts
    <2>2. AtPlace(drives[drive])'
        BY <1>1, <1>7, <1>10, <2>1 DEF AtPlace
    <2>3. ASSUME NEW n \in Drives, InQuestion(n)', Scanned(n)'
          PROVE  drive_parts'[n] = Partitions(drives[n])
        <3>1. n # drive /\ n < drive
            BY <1>10, <2>3, NumberedDrives DEF Scanned
        <3>2. InQuestion(n)
            BY <1>1, <1>6, <2>3, <3>1, QuestionKept
        <3>3. Scanned(n)
            BY <3>1 DEF Scanned
        <3>. QED  BY <1>6, <3>1, <3>2, <3>3 DEF ListInv
    <2>. QED  BY <1>1, <1>10, <2>2, <2>3 DEF ListInv
<1>. QED  BY <1>8, <1>9, <1>10 DEF parse_mbr

(* The scan goes on with the same drive.                                   *)
LEMMA ListGoesOn ==
    ASSUME PartitionInv, ListInv, pc \in {"entry", "ebr"}, pc' \in {"entry", "ebr"},
           drives' = drives, drive' = drive, NEW x, x = drive,
           \A n \in Drives : n # drive =>
               /\ n \in exchanged => n \in exchanged'
               /\ readable'[n] = readable[n] /\ drive_parts'[n] = drive_parts[n],
           InQuestion(x)' => AtPlace(drives[x])'
    PROVE  ListInv'
<1>1. ASSUME NEW n \in Drives, InQuestion(n)', Scanned(n)'
      PROVE  drive_parts'[n] = Partitions(drives[n])
    <2>1. n # drive /\ n < drive
        BY <1>1, NumberedDrives DEF Scanned
    <2>2. InQuestion(n)
        BY <1>1, <2>1, QuestionKept
    <2>3. Scanned(n)
        BY <2>1 DEF Scanned
    <2>. QED  BY <2>1, <2>2, <2>3 DEF ListInv
<1>. QED  BY <1>1 DEF ListInv

LEMMA ListEntry == ASSUME PartitionInv, ListInv, parse_entry PROVE ListInv'
<1>1. /\ pc = "entry" /\ i <= 4 /\ drives' = drives /\ drive' = drive
      /\ exchanged' = exchanged /\ readable' = readable
    BY DEF parse_entry, history
<1>2. i \in 1..4 /\ drive <= Len(drives)
    BY <1>1 DEF PartitionInv, TypeOK, ScanSane
<1>3. drive \in Drives /\ drive_parts \in [Drives -> Seq(Part)]
    BY <1>2, ScannedDrive DEF PartitionInv, TypeOK
<1>4. PICK x : x = drive
    OBVIOUS
<1>5. CASE ~InQuestion(x)
    <2>1. ~InQuestion(x)'
        BY <1>1, <1>5, QuestionKept
    <2>2. \A n \in Drives : n # drive => drive_parts'[n] = drive_parts[n]
        BY <1>3 DEF parse_entry
    <2>3. pc' \in {"entry", "ebr"}
        BY <1>1 DEF parse_entry
    <2>. QED  BY <1>1, <1>4, <2>1, <2>2, <2>3, ListGoesOn
<1>6. CASE InQuestion(x)
    <2>1. PICK d \in Disks : d = drives[drive] /\ WellFormed(d) /\ drive \notin exchanged
        BY <1>4, <1>6, QuestionType
    <2>2. AtPlace(d)
        BY <1>1, <1>4, <1>6, <2>1 DEF ListInv
    <2>. DEFINE pe == Layout[d][0].entry[i]
    <2>3. pe = Layout[parsed[drive]][address(0)].entry[i]
        <3>1. parsed[drive] = d
            BY <1>1, <2>1 DEF PartitionInv, ScanSane
        <3>2. address(0) = 0
            BY AddressFacts
        <3>. QED  BY <3>1, <3>2
    <2>4. pe \in Entry
        <3>1. 0 \in 0..(DiskSectors - 1)
            BY AddressFacts
        <3>. QED  BY <1>2, <3>1, EntryFacts
    <2>5. CASE /\ ~pe.extended \/ pe.count = 0
               /\ drive_parts' = [drive_parts EXCEPT ![drive] = AddPart(@, pe)]
               /\ i' = i + 1 /\ pc' = pc
        <3>1. ~IsExtended(pe)
            BY <2>4, <2>5 DEF IsExtended, Entry
        <3>2. TableAt(d, Place(d, i + 1)) = AddPart(TableAt(d, Place(d, i)), pe)
            BY <1>2, <3>1, PlainListed
        <3>3. drive_parts[drive] = TableAt(d, Place(d, i))
            BY <1>1, <2>2 DEF AtPlace
        <3>. HIDE DEF pe
        <3>4. /\ drive_parts'[drive] = AddPart(drive_parts[drive], pe)
              /\ \A n \in Drives : n # drive => drive_parts'[n] = drive_parts[n]
            BY <1>3, <2>5
        <3>5. AtPlace(d)'
            BY <1>1, <2>2, <2>5, <3>2, <3>3, <3>4 DEF AtPlace
        <3>6. AtPlace(drives[x])'
            BY <1>1, <1>4, <2>1, <3>5
        <3>. QED  BY <1>1, <1>4, <2>5, <3>4, <3>6, ListGoesOn
    <2>6. CASE /\ pe.extended /\ pe.count > 0
               /\ pc' = "ebr" /\ current_lba' = pe.start /\ drive_parts' = drive_parts /\ i' = i
        <3>1. PICK n, c : ChainGood(d, i, n, c)
            <4>1. IsExtended(pe)
                BY <2>6, Zenon DEF IsExtended
            <4>. QED  BY <1>2, <2>1, <4>1, ChainsGood
        <3>2. n \in Nat /\ c[1] = pe.start /\ 1 \in 1..(n + 1)
            <4>1. n \in Nat /\ c[1] = pe.start
                BY <3>1 DEF ChainGood
            <4>. QED  BY <4>1
        <3>3. OnChain(d, i, 1, pe.start)
            BY <3>1, <3>2 DEF OnChain
        <3>4. drive_parts[drive] = TableAt(d, Place(d, i)) /\ Place(d, i) \in Nat
            BY <1>1, <1>2, <2>2, TableFacts DEF AtPlace
        <3>. HIDE DEF pe
        <3>5. Place(d, i) + 1 - 1 = Place(d, i)
            BY <3>4
        <3>6. /\ OnChain(d, i', 1, current_lba')
              /\ drive_parts'[drive'] = TableAt(d, Place(d, i') + 1 - 1)
            BY <1>1, <2>6, <3>3, <3>4, <3>5
        <3>7. AtPlace(d)'
            BY <2>2, <2>6, <3>6 DEF AtPlace
        <3>8. AtPlace(drives[x])'
            BY <1>1, <1>4, <2>1, <3>7
        <3>. QED  BY <1>1, <1>4, <2>6, <3>8, ListGoesOn
    <2>. QED  BY <2>3, <2>5, <2>6 DEF parse_entry
<1>. QED  BY <1>5, <1>6

LEMMA ListEntriesDone == ASSUME PartitionInv, ListInv, entries_done PROVE ListInv'
<1>1. /\ pc = "entry" /\ i > 4 /\ NextDrive /\ drives' = drives /\ drive_parts' = drive_parts
      /\ exchanged' = exchanged /\ readable' = readable
    BY DEF entries_done, history
<1>2. i = 5
    BY <1>1 DEF PartitionInv, TypeOK
<1>3. PICK x : x = drive
    OBVIOUS
<1>4. ASSUME InQuestion(x)' PROVE drive_parts'[x] = Partitions(drives[x])
    <2>1. InQuestion(x)
        BY <1>1, <1>4, QuestionKept
    <2>2. PICK d \in Disks : d = drives[drive]
        BY <1>3, <2>1, QuestionType
    <2>3. AtPlace(d)
        BY <1>1, <1>3, <2>1, <2>2 DEF ListInv
    <2>4. Partitions(d) = TableAt(d, Place(d, 5)) /\ drive_parts[drive] = TableAt(d, Place(d, 5))
        BY <1>1, <1>2, <2>3, TableFacts DEF AtPlace
    <2>. QED  BY <1>1, <1>3, <2>2, <2>4
<1>. QED  BY <1>1, <1>3, <1>4, ListLeft

(* A sector of the chain that can be read: its address is not cut, and it  *)
(* leads on along the chain, or ends it.                                   *)
LEMMA OnRecord ==
    ASSUME NEW d \in Disks, NEW j \in 1..4, NEW k \in Nat, NEW lba \in Nat,
           OnChain(d, j, k, lba), lba # 0, CanRead(lba)
    PROVE  /\ address(lba) = lba
           /\ Layout[d][lba].sig =>
                 /\ OnChain(d, j, k + 1, Layout[d][lba].entry[2].start)
                 /\ TableAt(d, Place(d, j) + k)
                        = AddPart(TableAt(d, Place(d, j) + k - 1), Layout[d][lba].entry[1])
           /\ ~Layout[d][lba].sig => OnChain(d, j, k, 0)
<1>1. PICK n, c : ChainGood(d, j, n, c) /\ k \in 1..(n + 1) /\ lba = c[k]
    BY DEF OnChain
<1>2. /\ n \in Nat /\ n = Len(Listed(d, j)) /\ lba < LBA_WRAP
      /\ \A m \in 1..n : /\ IsRecord(d, c[m]) /\ c[m + 1] = Layout[d][c[m]].entry[2].start
                         /\ Listed(d, j)[m] = Layout[d][c[m]].entry[1]
      /\ ~IsRecord(d, c[n + 1])
    BY <1>1 DEF ChainGood
<1>3. address(lba) = lba
    <2>1. PICK w \in Nat : w = LBA_WRAP /\ w > 0 /\ lba < w
        BY <1>2, PartitionAssumption
    <2>2. lba % w = lba
        BY <2>1, Z3
    <2>. QED  BY <2>1, <2>2 DEF address
<1>4. lba \in 1..(DiskSectors - 1)
    BY <1>3, PartitionAssumption DEF CanRead
<1>5. ASSUME Layout[d][lba].sig
      PROVE  /\ OnChain(d, j, k + 1, Layout[d][lba].entry[2].start)
             /\ TableAt(d, Place(d, j) + k)
                    = AddPart(TableAt(d, Place(d, j) + k - 1), Layout[d][lba].entry[1])
    <2>1. IsRecord(d, lba)
        BY <1>4, <1>5, Zenon DEF IsRecord
    <2>2. k \in 1..n /\ k + 1 \in 1..(n + 1)
        BY <1>1, <1>2, <2>1
    <2>3. c[k + 1] = Layout[d][lba].entry[2].start /\ Listed(d, j)[k] = Layout[d][lba].entry[1]
        BY <1>1, <1>2, <2>2
    <2>4. OnChain(d, j, k + 1, Layout[d][lba].entry[2].start)
        BY <1>1, <2>2, <2>3 DEF OnChain
    <2>5. TableAt(d, Place(d, j) + k) = AddPart(TableAt(d, Place(d, j) + k - 1), Listed(d, j)[k])
        BY <1>2, <2>2, TableFacts
    <2>. QED  BY <2>3, <2>4, <2>5
<1>6. ASSUME ~Layout[d][lba].sig PROVE OnChain(d, j, k, 0)
    <2>1. ~IsRecord(d, lba)
        BY <1>6, Zenon DEF IsRecord
    <2>2. k = n + 1
        BY <1>1, <1>2, <2>1
    <2>. QED  BY <1>1, <2>2 DEF OnChain
<1>. QED  BY <1>3, <1>5, <1>6

(* At the end of the chain, all that the entry lists has been seen.        *)
LEMMA OffChain ==
    ASSUME NEW d \in Disks, NEW j \in 1..4, NEW k \in Nat, OnChain(d, j, k, 0)
    PROVE  Place(d, j) + k - 1 = Place(d, j + 1)
<1>1. PICK n, c : ChainGood(d, j, n, c) /\ k \in 1..(n + 1) /\ (0 = c[k] \/ k = n + 1)
    BY DEF OnChain
<1>2. n \in Nat /\ n = Len(Listed(d, j)) /\ \A m \in 1..n : IsRecord(d, c[m])
    BY <1>1 DEF ChainGood
<1>3. ~IsRecord(d, 0)
    <2>1. 0 \notin 1..(DiskSectors - 1)
        OBVIOUS
    <2>. QED  BY <2>1, Zenon DEF IsRecord
<1>4. k = n + 1
    BY <1>1, <1>2, <1>3
<1>5. PICK b \in Nat : b = Place(d, j)
    BY TableFacts
<1>6. Place(d, j + 1) = b + n
    BY <1>2, <1>5, TableFacts
<1>. QED  BY <1>2, <1>4, <1>5, <1>6

LEMMA ListEbr == ASSUME PartitionInv, ListInv, parse_ebr PROVE ListInv'
<1>1. /\ pc = "ebr" /\ current_lba # 0 /\ CanRead(current_lba) /\ drives' = drives
      /\ drive' = drive /\ exchanged' = exchanged /\ readable' = readable
      /\ pc' = "ebr" /\ i' = i
    BY DEF parse_ebr, history
<1>2. i \in 1..4 /\ drive <= Len(drives) /\ current_lba \in Nat
    BY <1>1, PartitionAssumption DEF PartitionInv, TypeOK, ScanSane
<1>3. drive \in Drives /\ drive_parts \in [Drives -> Seq(Part)]
    BY <1>2, ScannedDrive DEF PartitionInv, TypeOK
<1>4. PICK x : x = drive
    OBVIOUS
<1>5. \A n \in Drives : n # drive => drive_parts'[n] = drive_parts[n]
    <2>1. \/ \E e : drive_parts' = [drive_parts EXCEPT ![drive] = AddPart(@, e)]
          \/ drive_parts' = drive_parts
        BY DEF parse_ebr
    <2>. QED  BY <1>3, <2>1
<1>6. ASSUME InQuestion(x)' PROVE AtPlace(drives[x])'
    <2>1. InQuestion(x)
        BY <1>1, <1>6, QuestionKept
    <2>2. PICK d \in Disks : d = drives[drive]
        BY <1>4, <2>1, QuestionType
    <2>3. AtPlace(d)
        BY <1>1, <1>4, <2>1, <2>2 DEF ListInv
    <2>4. PICK k \in Nat : /\ OnChain(d, i, k, current_lba)
                           /\ drive_parts[drive] = TableAt(d, Place(d, i) + k - 1)
        BY <1>1, <2>3 DEF AtPlace
    <2>. DEFINE ebr == Layout[d][current_lba]
    <2>5. /\ address(current_lba) = current_lba
          /\ ebr.sig =>
                /\ OnChain(d, i, k + 1, ebr.entry[2].start)
                /\ TableAt(d, Place(d, i) + k)
                       = AddPart(TableAt(d, Place(d, i) + k - 1), ebr.entry[1])
          /\ ~ebr.sig => OnChain(d, i, k, 0)
        BY <1>1, <1>2, <2>4, OnRecord
    <2>6. read_sector(current_lba) = ebr
        BY <2>2, <2>5 DEF read_sector
    <2>7. \E m \in Nat : /\ OnChain(d, i, m, current_lba')
                         /\ drive_parts'[drive] = TableAt(d, Place(d, i) + m - 1)
        <3>1. CASE /\ ebr.sig /\ current_lba' = ebr.entry[2].start
                   /\ drive_parts' = [drive_parts EXCEPT ![drive] = AddPart(@, ebr.entry[1])]
            <4>1. OnChain(d, i, k + 1, current_lba')
                BY <2>5, <3>1
            <4>2. drive_parts'[drive] = TableAt(d, Place(d, i) + k)
                <5>1. drive_parts'[drive] = AddPart(drive_parts[drive], ebr.entry[1])
                    <6>. HIDE DEF ebr
                    <6>. QED  BY <1>3, <3>1
                <5>. QED  BY <2>4, <2>5, <3>1, <5>1
            <4>3. k + 1 \in Nat /\ Place(d, i) + (k + 1) - 1 = Place(d, i) + k
                <5>1. Place(d, i) \in Nat
                    BY <1>2, TableFacts
                <5>. QED  BY <5>1
            <4>. QED  BY <4>1, <4>2, <4>3
        <3>2. CASE ~ebr.sig /\ current_lba' = 0 /\ drive_parts' = drive_parts
            BY <2>4, <2>5, <3>2
        <3>. QED  BY <2>6, <3>1, <3>2 DEF parse_ebr
    <2>8. AtPlace(d)'
        <3>1. Layout[d][0].sig
            BY <2>3 DEF AtPlace
        <3>. QED  BY <1>1, <2>7, <3>1 DEF AtPlace
    <2>. QED  BY <1>1, <1>4, <2>2, <2>8
<1>. QED  BY <1>1, <1>4, <1>5, <1>6, ListGoesOn

LEMMA ListEbrFailed == ASSUME PartitionInv, ListInv, ebr_failed PROVE ListInv'
<1>1. /\ pc = "ebr" /\ pc' = "ebr" /\ drives' = drives /\ drive' = drive
      /\ exchanged' = exchanged /\ drive_parts' = drive_parts
      /\ readable' = [readable EXCEPT ![drive] = FALSE]
    BY DEF ebr_failed
<1>2. drive \in Drives /\ readable \in [Drives -> BOOLEAN]
    BY <1>1, ScannedDrive DEF PartitionInv, TypeOK, ScanSane
<1>3. PICK x : x = drive
    OBVIOUS
<1>4. ~readable'[x] /\ \A n \in Drives : n # drive => readable'[n] = readable[n]
    BY <1>1, <1>2, <1>3
<1>5. ~InQuestion(x)'
    BY <1>4, Zenon DEF InQuestion
<1>. QED  BY <1>1, <1>3, <1>4, <1>5, ListGoesOn

LEMMA ListEbrDone == ASSUME PartitionInv, ListInv, ebr_done PROVE ListInv'
<1>1. /\ pc = "ebr" /\ current_lba = 0 /\ pc' = "entry" /\ i' = i + 1 /\ drives' = drives
      /\ drive' = drive /\ drive_parts' = drive_parts
      /\ exchanged' = exchanged /\ readable' = readable
    BY DEF ebr_done, history
<1>2. i \in 1..4
    BY <1>1 DEF PartitionInv, TypeOK, ScanSane
<1>3. PICK x : x = drive
    OBVIOUS
<1>4. ASSUME InQuestion(x)' PROVE AtPlace(drives[x])'
    <2>1. InQuestion(x)
        BY <1>1, <1>4, QuestionKept
    <2>2. PICK d \in Disks : d = drives[drive]
        BY <1>3, <2>1, QuestionType
    <2>3. AtPlace(d)
        BY <1>1, <1>3, <2>1, <2>2 DEF ListInv
    <2>4. PICK k \in Nat : /\ OnChain(d, i, k, 0)
                           /\ drive_parts[drive] = TableAt(d, Place(d, i) + k - 1)
        BY <1>1, <2>3 DEF AtPlace
    <2>5. drive_parts[drive] = TableAt(d, Place(d, i + 1))
        BY <1>2, <2>4, OffChain
    <2>6. AtPlace(d)'
        BY <1>1, <2>3, <2>5 DEF AtPlace
    <2>. QED  BY <1>1, <1>3, <2>2, <2>6
<1>. QED  BY <1>1, <1>3, <1>4, ListGoesOn

LEMMA ListUpdateDone == ASSUME PartitionInv, ListInv, update_done PROVE ListInv'
<1>1. /\ pc = "mbr" /\ drive > Len(drives) /\ pc' = "idle" /\ drives' = drives
      /\ drive_parts' = drive_parts /\ exchanged' = exchanged /\ readable' = readable
    BY DEF update_done, history
<1>2. ASSUME NEW n \in Drives, InQuestion(n)' PROVE drive_parts'[n] = Partitions(drives[n])
    <2>1. InQuestion(n)
        BY <1>1, <1>2, QuestionKept
    <2>2. n \in DOMAIN drives /\ drives \in Seq(Disks)
        BY <2>1, QuestionType DEF PartitionInv, TypeOK
    <2>3. n < drive
        BY <1>1, <2>2, LenProperties, NumberedDrives
    <2>. QED  BY <1>1, <2>1, <2>3 DEF ListInv, Scanned
<1>. QED  BY <1>1, <1>2 DEF ListInv

(* Outside the scan the tables and the disks stay.                         *)
LEMMA ListCall ==
    ASSUME PartitionInv, ListInv, pc \in {"idle", "transfer"}, pc' \in {"idle", "transfer"},
           drives' = drives, drive_parts' = drive_parts, history' = history
    PROVE  ListInv'
<1>1. exchanged' = exchanged /\ readable' = readable
    BY DEF history
<1>2. ASSUME NEW n \in Drives, InQuestion(n)' PROVE drive_parts'[n] = Partitions(drives[n])
    <2>1. InQuestion(n)
        BY <1>1, <1>2, QuestionKept
    <2>. QED  BY <2>1 DEF ListInv, Scanned
<1>. QED  BY <1>2 DEF ListInv

LEMMA ListExchange ==
    ASSUME PartitionInv, ListInv, NEW m \in Drives, NEW e \in Disks, Exchange(m, e)
    PROVE  ListInv'
<1>1. /\ m \in DOMAIN drives /\ drives' = [drives EXCEPT ![m] = e]
      /\ exchanged' = exchanged \cup {m} /\ drive_parts' = drive_parts /\ pc' = pc
      /\ drive' = drive /\ i' = i /\ current_lba' = current_lba /\ readable' = readable
    BY DEF Exchange, scanvars
<1>2. DOMAIN drives' = DOMAIN drives /\ \A n \in DOMAIN drives : n # m => drives'[n] = drives[n]
    <2>1. drives \in Seq(Disks)
        BY DEF PartitionInv, TypeOK
    <2>. QED  BY <1>1, <2>1
<1>3. ASSUME NEW n, InQuestion(n)' PROVE InQuestion(n) /\ drives'[n] = drives[n]
    <2>1. n \in DOMAIN drives /\ n # m /\ n \notin exchanged /\ readable[n] /\ WellFormed(drives'[n])
        <3>1. n \in DOMAIN drives' /\ n \notin exchanged' /\ readable'[n] /\ WellFormed(drives'[n])
            BY <1>3, Zenon DEF InQuestion, WellFormed
        <3>. QED  BY <1>1, <1>2, <3>1, Zenon
    <2>2. drives'[n] = drives[n]
        BY <1>2, <2>1
    <2>. QED  BY <2>1, <2>2, Zenon DEF InQuestion
<1>4. ASSUME NEW n \in Drives, InQuestion(n)', Scanned(n)'
      PROVE  drive_parts'[n] = Partitions(drives'[n])
    <2>1. InQuestion(n) /\ drives'[n] = drives[n]
        BY <1>3, <1>4
    <2>2. Scanned(n)
        BY <1>1, <1>4 DEF Scanned
    <2>. QED  BY <1>1, <2>1, <2>2 DEF ListInv
<1>5. PICK x : x = drive
    OBVIOUS
<1>6. ASSUME pc' \in {"entry", "ebr"}, InQuestion(x)' PROVE AtPlace(drives[x])'
    <2>1. InQuestion(x) /\ drives'[x] = drives[x]
        BY <1>3, <1>6
    <2>2. PICK d : d = drives[x]
        OBVIOUS
    <2>3. AtPlace(d)
        BY <1>1, <1>5, <1>6, <2>1, <2>2 DEF ListInv
    <2>4. AtPlace(d)'
        BY <1>1, <2>3 DEF AtPlace
    <2>. QED  BY <2>1, <2>2, <2>4
<1>. QED  BY <1>1, <1>4, <1>5, <1>6 DEF ListInv

LEMMA ListNext == PartitionInv /\ ListInv /\ [Next]_vars => ListInv'
<1>. SUFFICES ASSUME PartitionInv, ListInv, [Next]_vars PROVE ListInv'
    OBVIOUS
<1>1. CASE update_partition_tables
    BY <1>1, ListUpdate
<1>2. CASE Call
    <2>1. PICK d \in 0..MaxDrives, p \in 0..MAX_PARTS_PER_DRIVE,
               offset \in Offsets, length \in Lengths :
                  refuse(d, p, offset, length) \/ check(d, p, offset, length)
        BY <1>2 DEF Call
    <2>2. CASE refuse(d, p, offset, length)
        BY <2>2, ListCall DEF refuse
    <2>3. CASE check(d, p, offset, length)
        BY <2>3, ListCall DEF check
    <2>. QED  BY <2>1, <2>2, <2>3
<1>3. CASE Scan
    BY <1>3, ListMbr, ListEntry, ListEntriesDone, ListEbr, ListEbrFailed, ListEbrDone,
       ListUpdateDone DEF Scan
<1>4. CASE transfer
    BY <1>4, ListCall DEF transfer
<1>5. CASE transfer_refused
    BY <1>5, ListCall DEF transfer_refused
<1>6. CASE transfer_failed
    BY <1>6, ListCall DEF transfer_failed
<1>7. CASE \E n \in Drives, d \in Disks : Exchange(n, d)
    BY <1>7, ListExchange
<1>8. CASE UNCHANGED vars
    <2>1. /\ drives' = drives /\ drive_parts' = drive_parts /\ pc' = pc /\ drive' = drive
          /\ i' = i /\ current_lba' = current_lba /\ exchanged' = exchanged /\ readable' = readable
        BY <1>8 DEF vars, scanvars, history
    <2>2. ASSUME NEW n, InQuestion(n)' PROVE InQuestion(n)
        BY <2>1, <2>2, QuestionKept
    <2>3. \A n : Scanned(n)' => Scanned(n)
        BY <2>1 DEF Scanned
    <2>4. \A d : AtPlace(d) => AtPlace(d)'
        BY <2>1 DEF AtPlace
    <2>5. PICK x : x = drive
        OBVIOUS
    <2>6. PICK d : d = drives[x]
        OBVIOUS
    <2>7. pc' \in {"entry", "ebr"} /\ InQuestion(x)' => AtPlace(d)'
        BY <2>1, <2>2, <2>4, <2>5, <2>6 DEF ListInv
    <2>8. \A n \in Drives : InQuestion(n)' /\ Scanned(n)' => drive_parts'[n] = Partitions(drives'[n])
        BY <2>1, <2>2, <2>3 DEF ListInv
    <2>. QED  BY <2>1, <2>5, <2>6, <2>7, <2>8 DEF ListInv
<1>. QED  BY <1>1, <1>2, <1>3, <1>4, <1>5, <1>6, <1>7, <1>8 DEF Next, Kernel

(* update_partition_tables leaves on every drive exactly the partitions    *)
(* that its disk's MBR and boot records list, in order and as many as      *)
(* there is room for, whatever the layout of the disks: whenever all of    *)
(* them could be read, the chains end and lie below 4 GB, and the disk was *)
(* not exchanged since.  Otherwise there is still nothing foreign in it.   *)
THEOREM TablesAreTheDisks == Spec => []TablesMatchDisks
<1>1. Spec => []ListInv
    BY TablesInvariant, ListInit, ListNext, PTL DEF Spec
<1>2. PartitionInv /\ ListInv /\ NothingForeign => TablesMatchDisks
    <2>1. SUFFICES ASSUME PartitionInv, ListInv, Settled, NEW n \in DOMAIN drives \ exchanged,
                          readable[n], WellFormed(drives[n])
                   PROVE  drive_parts[n] = Partitions(drives[n])
        BY Zenon DEF TablesMatchDisks
    <2>2. InQuestion(n)
        BY <2>1, Zenon DEF InQuestion
    <2>3. n \in Drives
        BY <2>1, <2>2, QuestionType
    <2>4. Scanned(n)
        BY <2>1 DEF Settled, Scanned
    <2>. QED  BY <2>1, <2>2, <2>3, <2>4 DEF ListInv
<1>. QED  BY <1>1, <1>2, TablesInvariant, NoForeignPartitions, PTL
=============================================================================
