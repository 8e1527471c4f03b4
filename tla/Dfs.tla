---------------------------------- MODULE Dfs ----------------------------------
(***************************************************************************)
(* The disk file system of kernel/src/dfs.c: format, mount and umount, the *)
(* mount table, the write-back of a mounted directory and of its files,    *)
(* the block bitmap, and the commands of kernel/src/ramfs.c on files of a  *)
(* mounted directory.                                                      *)
(*                                                                         *)
(* Partitions are external (module Partition models them): a transfer of   *)
(* more than MAX_TRANSFER bytes is refused, any other succeeds or fails.   *)
(* With the 256 bytes of drive.c no super block can be written or read, so *)
(* no partition is ever formatted or mounted; what lies behind that is     *)
(* asked of the transfers that partition_read's comment promises, those    *)
(* without a limit.                                                        *)
(*                                                                         *)
(* Lengths are in bytes, addresses in blocks; address 0 is the offset 0 of *)
(* the partition.  The bitmap starts at the same offset in every partition *)
(* since the space before it is fixed, and partitions have room for it.    *)
(* Names are such that the file table tells them apart (module RamfsHash   *)
(* shows that it does not tell all names apart).  Directories inside a     *)
(* mounted one are left out: they have no entry in the mount table, so     *)
(* dfs_sync_folder writes none of them.                                    *)
(***************************************************************************)
EXTENDS Integers, FiniteSets, FiniteSetsExt

CONSTANTS
    MAX_TRANSFER,           \* 256 in the code, drive.c
    SUPER, RECORD, BITMAP,  \* bytes of super block, folder record and bitmap
    BLOCK,                  \* DFS_BLOCK_SIZE, 1024 in the code
    DFS_MAX_SUB_ENTRIES,    \* 128 in the code
    BLOCKS, BITS,           \* data blocks of a partition; bits of a bitmap byte
    Parts, Images,          \* partitions, and what each may hold at first
    Paths, Deep,            \* mount points; those that are not in the root
    Names, Vals, Lengths,   \* file names, contents and lengths
    NULL, Dangling,         \* no value; a pointer to a block that was freed
    Faulty,                 \* whether transfers and allocations fail, power too
    MaxMounts, MaxOps       \* bounds: dfs_mount itself checks no limit

(* The constants of ramfs_types.h: two of them are the same number.        *)
RAMFS_TYPE_MEM == 0
RAMFS_TYPE_NEW == 1
RAMFS_TYPE_DIRTY == 2
RAMFS_FOLDER_TYPE_DISK_CLEAN == 1
RAMFS_FOLDER_TYPE_DIRTY == 3

Blocks == 0..(BLOCKS - 1)
Slots == 1..MaxMounts
Folders == 1..MaxMounts         \* memory for root directories

VARIABLES
    part,           \* the partitions: is there a super block, the root record
                    \* (NULL: not in use), the used blocks, their contents
    mount_table, mount_count,
    mem,            \* the mounted root directories, NULL when freed
    entry,          \* the child that dfs_mount put into each mount point
    exists,         \* the mount points that are directories of the ramfs
    cache,          \* the static last_byte_off and byte_val
    pc, sync,       \* the umount under way: its entry, the files left, the one
                    \* that is being written
    ops             \* bounded counter

mounts == <<mount_table, mount_count, entry, exists>>
vars == <<part, mounts, mem, cache, pc, sync, ops>>

NoCache == [byte |-> -1, used |-> {}]
NoSync == [idx |-> 0, todo |-> {}, file |-> NULL]
Empty == [f \in Names |-> NULL]

Init ==
    /\ part \in [Parts -> Images]
    /\ mount_table = [s \in Slots |-> NULL] /\ mount_count = 0
    /\ mem = [n \in Folders |-> NULL]
    /\ entry = [p \in Paths |-> NULL] /\ exists = Paths
    /\ cache = NoCache /\ pc = "idle" /\ sync = NoSync
    /\ ops = 0

Command == pc = "idle" /\ ops < MaxOps /\ ops' = ops + 1

(* partition_read and partition_write of so many bytes.                    *)
CanMove(length) == length \in 1..MAX_TRANSFER
MayFail(length) == Faulty \/ ~CanMove(length)

-----------------------------------------------------------------------------
(* dfs_format writes the super block, the root record and the bitmap; it   *)
(* gives up if one of the first two fails and ignores the third.           *)
dfs_format(p) ==
    /\ Command
    /\ \/ MayFail(SUPER) /\ part' = part
       \/ /\ CanMove(SUPER) /\ MayFail(RECORD)
          /\ part' = [part EXCEPT ![p].magic = TRUE]
       \/ /\ CanMove(SUPER) /\ CanMove(RECORD) /\ MayFail(BITMAP)
          /\ part' = [part EXCEPT ![p].magic = TRUE, ![p].root = Empty]
       \/ /\ CanMove(SUPER) /\ CanMove(RECORD) /\ CanMove(BITMAP)
          /\ part' = [part EXCEPT ![p].magic = TRUE, ![p].root = Empty,
                                  ![p].bitmap = {}]
    /\ UNCHANGED <<mounts, mem, cache, pc, sync>>

(* dfs_load_folder_from_disk: what the root record lists, without data.    *)
LoadFolder(p) ==
    [f \in Names |->
        LET r == part[p].root[f]
        IN  IF r = NULL THEN NULL
            ELSE [type |-> RAMFS_TYPE_MEM, length |-> r.length, addr |-> r.addr,
                  ptr |-> NULL]]

(* dfs_mount: the mount point must be an empty directory; the root of the  *)
(* partition becomes a child of it.  mount points to the next table entry. *)
(* A mount that fails changes nothing.                                     *)
dfs_mount(path, p, n) ==
    /\ Command
    /\ path \in exists /\ entry[path] = NULL
    /\ CanMove(SUPER) /\ part[p].magic
    /\ CanMove(RECORD) /\ part[p].root # NULL
    /\ mem[n] = NULL
    /\ mem' = [mem EXCEPT ![n] =
          [type |-> RAMFS_FOLDER_TYPE_DISK_CLEAN, mount |-> mount_count + 1,
           files |-> LoadFolder(p)]]
    /\ entry' = [entry EXCEPT ![path] = n]
    /\ mount_table' = [mount_table EXCEPT ![mount_count + 1] =
                          [path |-> path, part |-> p, root_dir |-> n]]
    /\ mount_count' = mount_count + 1
    /\ UNCHANGED <<exists, part, cache, pc, sync>>

-----------------------------------------------------------------------------
(* The entry dfs_sync_folder takes: is_mount_root holds for every root, so *)
(* the search ends at the first one.                                       *)
SyncEntry == mount_table[1]

Syncing == mount_table[sync.idx].root_dir
SyncFile == mem[Syncing].files[sync.file]

(* dfs_umount begins: dfs_sync_folder looks at the folder's type and calls *)
(* dfs_sync_file for the files that are NEW or DIRTY.                      *)
dfs_umount(path) ==
    /\ Command
    /\ \E idx \in 1..mount_count :
          /\ mount_table[idx].path = path
          /\ \A j \in 1..(idx - 1) : mount_table[j].path # path
          /\ LET folder == mem[mount_table[idx].root_dir]
             IN  \/ /\ folder.type = RAMFS_FOLDER_TYPE_DIRTY
                    /\ pc' = "sync"
                    /\ sync' = [NoSync EXCEPT !.idx = idx, !.todo = {f \in Names :
                          /\ folder.files[f] # NULL
                          /\ folder.files[f].type \in {RAMFS_TYPE_NEW, RAMFS_TYPE_DIRTY}}]
                 \/ /\ folder.type # RAMFS_FOLDER_TYPE_DIRTY
                    /\ pc' = "free"
                    /\ sync' = [NoSync EXCEPT !.idx = idx]
    /\ UNCHANGED <<part, mounts, mem, cache>>

(* dfs_sync_file: nothing for an empty or CLEAN file, and NEW is the same  *)
(* number as CLEAN.                                                        *)
IsSynced(file) == file.length = 0 \/ file.type = RAMFS_FOLDER_TYPE_DISK_CLEAN

sync_skip(f) ==
    /\ pc = "sync" /\ f \in sync.todo /\ IsSynced(mem[Syncing].files[f])
    /\ sync' = [sync EXCEPT !.todo = @ \ {f}]
    /\ UNCHANGED <<part, mounts, mem, cache, pc, ops>>

Extent(start, n) == start..(start + n - 1)
Needed(length) == (length + BLOCK - 1) \div BLOCK
ByteOf(b) == b \div BITS

(* dfs_free_file_blocks: by the file's length now, cut at block_count; a   *)
(* block whose bitmap byte cannot be read or written stays marked.         *)
dfs_free_file_blocks(f) ==
    LET file == mem[Syncing].files[f]
        p == SyncEntry.part
        old == Extent(file.addr - 1, Needed(file.length)) \cap Blocks
    IN  /\ pc = "sync" /\ f \in sync.todo /\ ~IsSynced(file)
        /\ \/ MayFail(SUPER) /\ part' = part
           \/ /\ CanMove(SUPER)
              /\ \E freed \in IF MayFail(1) THEN SUBSET old ELSE {old} :
                    part' = [part EXCEPT ![p].bitmap = @ \ freed]
        /\ sync' = [sync EXCEPT !.todo = @ \ {f}, !.file = f]
        /\ pc' = "alloc"
        /\ UNCHANGED <<mounts, mem, cache, ops>>

(* The scan takes a byte of the bitmap from the cache when it is the one   *)
(* read last, which only the first byte can be when a scan begins.         *)
Seen(bitmap) ==
    IF cache.byte = 0 THEN cache.used \cup {b \in bitmap : ByteOf(b) # 0}
                      ELSE bitmap

Fits(used, n) == {b \in Blocks : b + n <= BLOCKS /\ Extent(b, n) \cap used = {}}

CacheAfter(used, byte) ==
    [byte |-> byte, used |-> {b \in used : ByteOf(b) = byte}]

(* dfs_alloc_file_blocks marks the first blocks that fit.  Without room,   *)
(* when a byte of the bitmap cannot be read or when a mark fails, the file *)
(* keeps the address of its old blocks, marks made so far stay, and        *)
(* dfs_sync_file gives up.                                                 *)
dfs_alloc_file_blocks ==
    LET p == SyncEntry.part
        n == Needed(SyncFile.length)
        used == Seen(part[p].bitmap)
        fits == Fits(used, n)
        start == Min(fits)
        last == ByteOf(IF fits = {} THEN BLOCKS - 1 ELSE start + n - 1)
        mark(k) == [part EXCEPT ![p].bitmap = @ \cup Extent(start, k)]
    IN  /\ pc = "alloc"
        /\ \/ /\ CanMove(SUPER) /\ CanMove(1) /\ fits # {}
              /\ part' = mark(n)
              /\ mem' = [mem EXCEPT ![Syncing].files[sync.file].addr = start + 1]
              /\ cache' = CacheAfter(used, last)
              /\ pc' = "write"
           \/ /\ CanMove(SUPER) /\ fits = {}
              /\ cache' = IF n > BLOCKS THEN cache ELSE CacheAfter(used, last)
              /\ pc' = "sync" /\ UNCHANGED <<part, mem>>
           \/ /\ MayFail(SUPER)
              /\ pc' = "sync" /\ UNCHANGED <<part, mem, cache>>
           \/ /\ CanMove(SUPER) /\ MayFail(1) /\ n <= BLOCKS
              /\ cache' \in {cache} \cup {CacheAfter(used, k) : k \in 0..(last - 1)}
              /\ pc' = "sync" /\ UNCHANGED <<part, mem>>
           \/ /\ CanMove(SUPER) /\ MayFail(1) /\ fits # {}
              /\ \E k \in 0..(n - 1) : part' = mark(k)
              /\ cache' = CacheAfter(used, last)
              /\ pc' = "sync" /\ mem' = mem
        /\ UNCHANGED <<mounts, sync, ops>>

(* The data is written; if that fails the file stays DIRTY at its new      *)
(* address.                                                                *)
dfs_sync_file ==
    LET file == SyncFile
        p == SyncEntry.part
        new == Extent(file.addr - 1, Needed(file.length))
    IN  /\ pc = "write"
        /\ \/ /\ CanMove(file.length)
              /\ part' = [part EXCEPT ![p].data =
                    [b \in Blocks |-> IF b \in new THEN file.ptr ELSE @[b]]]
              /\ mem' = [mem EXCEPT ![Syncing].files[sync.file].type =
                            RAMFS_FOLDER_TYPE_DISK_CLEAN]
           \/ MayFail(file.length) /\ UNCHANGED <<part, mem>>
        /\ pc' = "sync"
        /\ UNCHANGED <<mounts, cache, sync, ops>>

(* dfs_save_folder_to_disk, after the files: as many as there is room for. *)
Kept(files) ==
    LET all == {f \in Names : files[f] # NULL}
    IN  IF Cardinality(all) <= DFS_MAX_SUB_ENTRIES THEN {all}
        ELSE {k \in SUBSET all : Cardinality(k) = DFS_MAX_SUB_ENTRIES}

Record(files, kept) ==
    [f \in Names |->
        IF f \notin kept THEN NULL
        ELSE [length |-> files[f].length, addr |-> files[f].addr]]

dfs_save_folder_to_disk ==
    LET files == mem[Syncing].files
    IN  /\ pc = "sync" /\ sync.todo = {}
        /\ \/ /\ CanMove(RECORD)
              /\ \E kept \in Kept(files) :
                    part' = [part EXCEPT ![SyncEntry.part].root = Record(files, kept)]
              /\ mem' = [mem EXCEPT ![Syncing].type = RAMFS_FOLDER_TYPE_DISK_CLEAN]
           \/ MayFail(RECORD) /\ UNCHANGED <<part, mem>>
        /\ pc' = "free"
        /\ UNCHANGED <<mounts, cache, sync, ops>>

(* The rest of dfs_umount.  For a mount point in the root the name that is *)
(* deleted is empty, so the entry stays; for a deeper one it is the name   *)
(* of the mount point itself, which is deleted from its parent.  Then the  *)
(* tree is freed and the later entries of the table move down.             *)
umount_done ==
    LET m == mount_table[sync.idx]
    IN  /\ pc = "free"
        /\ exists' = exists \ ({m.path} \cap Deep)
        /\ entry' = IF m.path \in Deep THEN [entry EXCEPT ![m.path] = NULL] ELSE entry
        /\ mem' = [mem EXCEPT ![m.root_dir] = NULL]
        /\ mount_table' = [s \in Slots |->
              IF s \in sync.idx..(mount_count - 1) THEN mount_table[s + 1]
                                                   ELSE mount_table[s]]
        /\ mount_count' = mount_count - 1
        /\ pc' = "idle" /\ sync' = NoSync
        /\ UNCHANGED <<part, cache, ops>>

-----------------------------------------------------------------------------
(* Commands on the files of a mounted directory.  lazy_load_directory      *)
(* reads an unchanged, empty directory again, from the partition in the    *)
(* table entry that mount points to: the files it may come to hold.        *)
PartOf(n) == mount_table[mem[n].mount].part

lazy_load_directory(n) ==
    LET p == PartOf(n)
        loads == CanMove(RECORD) /\ part[p].root # NULL
        fails == MayFail(RECORD) \/ part[p].root = NULL
    IN  IF mem[n].type = RAMFS_FOLDER_TYPE_DISK_CLEAN /\ mem[n].files = Empty
        THEN (IF loads THEN {LoadFolder(p)} ELSE {}) \cup (IF fails THEN {Empty} ELSE {})
        ELSE {mem[n].files}

(* A command on file f leaves it as new, and the folder with its type.     *)
OnFile(n, files, f, new, type) ==
    /\ mem' = [mem EXCEPT ![n].files = [files EXCEPT ![f] = new], ![n].type = type]
    /\ UNCHANGED <<part, mounts, cache, pc, sync>>

Changed(file) ==
    [file EXCEPT !.type = IF file.addr = 0 THEN RAMFS_TYPE_NEW ELSE RAMFS_TYPE_DIRTY]

fs_touch(n, f) ==
    \E files \in lazy_load_directory(n) :
       /\ Command
       /\ files[f] = NULL
       /\ OnFile(n, files, f, [type |-> RAMFS_TYPE_NEW, length |-> 0, addr |-> 0,
                               ptr |-> NULL], RAMFS_FOLDER_TYPE_DIRTY)

(* The old data is freed before the new block is allocated: when that      *)
(* fails the entry stays as it is, with a pointer to freed memory.         *)
fs_write(n, f, v, len) ==
    \E files \in lazy_load_directory(n) :
       /\ Command
       /\ files[f] # NULL
       /\ \/ OnFile(n, files, f, Changed([files[f] EXCEPT !.ptr = v, !.length = len]),
                    RAMFS_FOLDER_TYPE_DIRTY)
          \/ /\ Faulty
             /\ OnFile(n, files, f, [files[f] EXCEPT
                          !.ptr = IF @ = NULL THEN NULL ELSE Dangling], mem[n].type)

fs_rm(n, f) ==
    \E files \in lazy_load_directory(n) :
       /\ Command
       /\ files[f] # NULL
       /\ OnFile(n, files, f, NULL, RAMFS_FOLDER_TYPE_DIRTY)

(* dfs_load_file_data, which reads from the entry mount points to: the     *)
(* file with its data, or none when the read fails.  At offset 0 that is   *)
(* the super block.                                                        *)
Content(p, addr) == IF addr = 0 THEN "super block" ELSE part[p].data[addr - 1]

dfs_load_file_data(n, file) ==
    IF file.ptr # NULL \/ file.length = 0 THEN {file}
    ELSE IF CanMove(file.length)
         THEN {[file EXCEPT !.ptr = Content(PartOf(n), file.addr)]} ELSE {}

(* A command that gives up, on a missing file or a failing read, leaves    *)
(* the directory as lazy_load_directory made it: fs_cat has these cases.   *)
fs_cat(n, f) ==
    \E files \in lazy_load_directory(n) :
       /\ Command
       /\ \/ files[f] = NULL /\ OnFile(n, files, f, NULL, mem[n].type)
          \/ /\ files[f] # NULL
             /\ \E file \in dfs_load_file_data(n, files[f]) :
                   OnFile(n, files, f, file, mem[n].type)
          \/ /\ files[f] # NULL /\ MayFail(files[f].length)
             /\ OnFile(n, files, f, files[f], mem[n].type)

fs_backspace(n, f) ==
    \E files \in lazy_load_directory(n) :
       /\ Command
       /\ files[f] # NULL /\ files[f].length > 0
       /\ \E file \in dfs_load_file_data(n, files[f]), count \in 0..files[f].length :
             /\ file.length - count \in Lengths \cup {0}
             /\ OnFile(n, files, f, Changed([file EXCEPT !.length = @ - count,
                          !.ptr = IF file.length = count THEN NULL ELSE @]),
                       RAMFS_FOLDER_TYPE_DIRTY)

(* The directory of a deep mount point is made again.                      *)
fs_mkdir(path) ==
    /\ Command
    /\ path \in Paths \ exists
    /\ exists' = exists \cup {path}
    /\ UNCHANGED <<mount_table, mount_count, entry, part, mem, cache, pc, sync>>

(* External: power fails, and what is in memory is gone.                   *)
Crash ==
    /\ Faulty /\ ops < MaxOps /\ ops' = ops + 1
    /\ mount_table' = [s \in Slots |-> NULL] /\ mount_count' = 0
    /\ mem' = [n \in Folders |-> NULL]
    /\ entry' = [p \in Paths |-> NULL] /\ exists' = Paths
    /\ cache' = NoCache /\ pc' = "idle" /\ sync' = NoSync
    /\ part' = part

(* The commands mkfs.dfs, mount and umount: parse_device admits the        *)
(* partitions there are; an error is reported and changes nothing.         *)
fs_mkfs_api == \E p \in Parts : dfs_format(p)

fs_mount_api ==
    \E p \in Parts, path \in Paths, n \in Folders :
       mem[n] = NULL /\ dfs_mount(path, p, n)

fs_umount_api == \E path \in Paths : dfs_umount(path)

FileCommand(n, f) ==
    \/ fs_touch(n, f) \/ fs_rm(n, f) \/ fs_cat(n, f) \/ fs_backspace(n, f)
    \/ \E v \in Vals, len \in Lengths : fs_write(n, f, v, len)

Sync ==
    \/ \E f \in Names : sync_skip(f) \/ dfs_free_file_blocks(f)
    \/ dfs_alloc_file_blocks \/ dfs_sync_file
    \/ dfs_save_folder_to_disk \/ umount_done

Next ==
    \/ fs_mkfs_api \/ fs_mount_api \/ fs_umount_api
    \/ \E path \in Paths : fs_mkdir(path)
    \/ \E n \in Folders, f \in Names : mem[n] # NULL /\ FileCommand(n, f)
    \/ Sync
    \/ Crash

Spec == Init /\ [][Next]_vars

-----------------------------------------------------------------------------
(* What the comments say of the file system.  None of it holds.            *)

(* dfs_format makes a file system: when no transfer fails, the partition   *)
(* has a super block and an empty root directory afterwards.               *)
FormatWorks ==
    [][\A p \in Parts : dfs_format(p) /\ ~Faulty
          => part'[p].magic /\ part'[p].root = Empty]_vars

(* dfs_umount writes a directory to the partition it was mounted from and  *)
(* to no other.                                                            *)
SyncsToOwn ==
    [][\A p \in Parts : pc \in {"sync", "alloc", "write"} /\ part'[p] # part[p]
          => p = mount_table[sync.idx].part]_vars

(* When dfs_umount ends, every file whose data is in memory is in the      *)
(* record of its partition and its blocks hold that data.                  *)
IsSaved(file, r, p) ==
    /\ r # NULL /\ r.length = file.length
    /\ \A b \in Extent(r.addr - 1, Needed(r.length)) :
          b \in Blocks /\ part[p].data[b] = file.ptr

UmountSaves ==
    [][umount_done /\ ~Faulty =>
          LET p == mount_table[sync.idx].part
              files == mem[Syncing].files
          IN  \A f \in Names : files[f] # NULL /\ files[f].ptr # NULL
                 => IsSaved(files[f], part[p].root[f], p)]_vars

(* dir->mount is the entry of the mount that a directory belongs to, from  *)
(* which lazy_load_directory and dfs_load_file_data take its partition.    *)
OwnMount ==
    pc = "idle" => \A n \in Folders :
        mem[n] # NULL => mount_table[mem[n].mount].root_dir = n

(* dfs_umount takes the mounted tree out of the directory it was put into: *)
(* no directory has a child that has been freed.                           *)
EntriesLive ==
    pc = "idle" => \A path \in exists : entry[path] # NULL => mem[entry[path]] # NULL
===============================================================================
