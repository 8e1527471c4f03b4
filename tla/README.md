# Little Linux: TLA+ verification project

Little Linux is a 32-bit bare-metal kernel (C and nasm, one CPU, everything in
ring 0): an interrupt-driven keyboard, a VGA text terminal, a first-fit heap, an
in-memory file system (ramfs), an on-disk file system (dfs) behind an MBR
partition layer and an AHCI driver, and a shell that reads a line and runs a
registered command.

## Inventory

| Component | Source | State | Operations | Interaction |
|---|---|---|---|---|
| Heap | `kernel/src/malloc.c`, `kernel/includes/malloc.h` | `free_list`, block headers, `heap_brk`, `heap_max` | `malloc_init`, `request_memory`, `expand_heap`, `malloc`, `free` | used by the hash maps, ramfs, dfs, uthash |
| Keyboard | `drivers/src/keyboard.c` | scan-code buffer, key table, caps lock, ring buffer `keyboard_buffer`/`kbuf_head`/`kbuf_tail` | `KBDinterrupt` (interrupt context), `getchar_from_buffer` (main loop), `initKBD` | interrupt handler fills the ring, shell empties it |
| Interrupts | `kernel/src/{idt,pic,interrupts}.c`, `interrupt_handle.asm` | `idt`, `handlers`, PIC registers | `initIDT`, `initPIC`, `interrupt_handler`, `pic_acknowledge` | dispatches IRQ1 to the keyboard, IRQ0 only wakes the `hlt` |
| Terminal | `drivers/src/tty.c` | `terminal_row`, `terminal_column`, video memory, hardware cursor | `terminalPutC`, `checkScroll`, `doScroll`, cursor I/O | sink of `printf` |
| Name maps | `kernel/src/ramfs_hash.c`, `ramfs_hash_file.c` | 16 buckets of linked nodes, `count` | init, insert, find, delete, count, list, destroy | one folder map and one file map per directory |
| Ramfs | `kernel/src/ramfs.c` | directory tree, `current_dir`, `current_path` | `fs_mkdir`, `fs_cd`, `fs_rm`, `fs_rmdir`, `fs_touch`, `fs_write`, `fs_cat`, `fs_ls`, `fs_backspace` and their command wrappers | heap, name maps, env (`pwd`), dfs for lazy loading |
| Dfs | `kernel/src/dfs.c`, `dfs_api.c` | mount table, super block, folder slots, block bitmap | format, mount, umount, load, sync, block and slot allocation | ramfs tree above, partition layer below |
| Partitions | `drivers/src/drive_partition.c` | `drive_parts`, spin lock | `update_partition_tables`, `partition_read`, `partition_write` | AHCI driver |
| AHCI | `drivers/src/drive.c` | drive table, command list and table per port, `byte_buffer` | `ahci_init`, `ahci_table_update`, `ahci_read`, `ahci_write` | PCI and HBA hardware |
| Shell | `kernel/src/Little_Linux.c`, `command_system.c`, `env_var.c` | line buffer, `buf_len`, argv, command and variable tables | line editing, tokenising, `$VAR` expansion, dispatch, boot sequence | keyboard ring, every command |
| libc | `libc/src` | none | string, `itoa`, `atoi`, `printf` | everywhere; `memcmp` decides file-name equality |

There is one CPU, no threads and no preemption. The only concurrency is between
the main loop and interrupt handlers; only the keyboard has a handler that does
anything. Nothing is persisted except by dfs. The hard behaviours are therefore:

- **interleaving** of `getchar_from_buffer` with `KBDinterrupt`, and the test
  followed by `hlt`;
- **failed allocations** in the middle of a command that has already changed
  something (`malloc` returning NULL, the hash maps' node allocation);
- **long sequences of legal calls**: splits and frees of the heap, colliding
  names, `cd`, `rmdir` and `mkdir -p` in any order, text that wraps and scrolls;
- **numeric edges**: 32-bit addresses that wrap, ring indices, the last column
  of the last row, an unsigned length minus a count;
- for the disk stack: a command that times out and completes late, indices and
  pointers into tables that are compacted, stale cached bitmap bytes, several
  writes of which one fails.

What makes each part correct: the heap never gives a byte to two owners, loses
none, and says NULL only when it is full; the keyboard delivers each character
once, in order, in the right case; the terminal writes where its cursor is and
stays on the screen; a name table is a finite map; the node graph of ramfs is a
tree in which every command does what it would do to a file system of paths;
the shell runs the line the user sees; a disk transfer that reports success
moved all of its bytes and no others, and every call returns; a partition table
describes the disk it is kept for; a directory of dfs is saved where it was mounted from,
and read back as it was.

## Modules

| Module | Models | Role |
|---|---|---|
| `HeapContract` | what an allocator promises | abstract specification |
| `Malloc` | `malloc.c`, `malloc.h` | implements `HeapContract` |
| `BoundedFifo` | a queue that drops what comes when it is full | abstract specification |
| `KeyTable` | `registerKey` and `initKBD` of `keyboard.c` | the tables of scan codes and characters |
| `Keyboard` | `keyboard.c`, the interrupt path of `interrupts.c`, `pic.c` | its ring implements `BoundedFifo` |
| `NameMap` | a finite map whose insertions may fail | abstract specification |
| `RamfsKeys` | `_hash`, `_streq`, `_file_streq`, `memcmp` | operators |
| `RamfsHash` | `ramfs_hash.c`, `ramfs_hash_file.c` | implements `NameMap` |
| `FileTree` | a file system as a set of directory paths and a function from file paths to contents | abstract specification |
| `Ramfs` | `ramfs.c`, `env_set` of `pwd` | implements `FileTree` |
| `Tty` | `tty.c` | screen, write position and hardware cursor |
| `Shell` | `my_own_os_main`, `my_os_command_*` | extends `Tty`: echo and screen together |
| `Ahci` | `drive.c` | drive table, command slot, byte transfers |
| `Partition` | `drive_partition.c` | tables, lock, bounds; the driver below is external |
| `Dfs` | `dfs.c`, `dfs_api.c`, the commands of `ramfs.c` on files of a mount | partitions below are external; shows what fails |
| `MallocProofs`, `KeyboardProofs`, `RamfsHashProofs`, `RamfsProofs`, `ShellProofs` (terminal and shell), `AhciProofs`, `PartitionProofs` | | theorems about the modules above |
| `MC*` | | constants for TLC |

Modules compose where the components meet: `Shell` runs on the terminal of
`Tty` and each character of its text is a step of the terminal; `Ramfs` uses
name tables as the maps that `RamfsHash` shows them to be. Definitions keep the
names of the C functions; those whose name ends in `_bug` are wrong variants, one
for each property, kept to show that the property would notice.

**Malloc.** `free_list` is a sequence of `[addr, size]`, `live` the set of blocks
handed out with the size asked for, `req` the request being served. `malloc`
begins a call; `malloc_split`, `malloc_whole`, `expand_heap` (and the recursive
call) and `malloc_null` are the four ways the loop can go on, chosen by first
fit; `free` puts a block back at the head. Addresses are taken modulo
`AddrSpace` where the code computes in 32 bits. Callers free only live blocks:
all callers in the repository do as long as `DataOwned` holds in `Ramfs`.

**Keyboard.** The hands press and release keys (external), named by their one-byte scan
codes; the controller queues at most `Burst` bytes; `KBDinterrupt` reads one and, when the
queue is empty, decodes what it has. It runs to its end between any two steps of the
reader. The gates are trap gates (`idt.c:18-21`, `142-148`), which leave interrupts on, but
IRQ1 stays in service until `pic_acknowledge`, after the handler, so no second keyboard
interrupt nests in it, and the timer interrupt, which may, has no handler. The reader has
one step per access to shared state: `Test`, `Halt`, `Load`, `Advance`. `Tick` is the timer
interrupt, which only ends a `hlt`. `KeyTable` has the 84 calls of `initKBD` in their order,
and from them the tables `scanToKeycode` and `keys` as the calls leave them: 0x2b and 0x28 give the
same key, and a code nobody registered gives 0, `KEY_ESC`. The module itself takes any
table; `MCKeyboard` gives it the code's. Scan codes of two merged bytes index
`scanToKeycode` outside what was registered: `KeyOf` lets such a code be any key.

**RamfsHash.** The two C files are copies of each other but for the comparison of
keys and the type of the value, so there is one module with `Bucket` and `Match`
as parameters; `MCRamfsHash` gives them the code's hash function and the two
comparisons, on names of character codes that share a bucket.

**Ramfs.** `dirs` are the live nodes, `heap` the live data blocks, `job` a
`mkdir -p` between two components, `last` the last command and its result. Each
command is one action with its error returns as disjuncts; `MayFail` says which
allocations may return NULL. No partition is mounted. `NamespaceSound` joins the
type invariant with `TreeSound`, `CwdSound`, `PathsResolve` and `NamesExclusive`.
Walks along a path are recursive functions of the number of components done.

**Tty.** `terminal_buffer` has more cells than the screen, because row 25 and
beyond are real video memory; `InMemory` bounds how far text may run. `initTerminal`
clears the screen and nothing else: video memory behind it is anything in `Behind`, and the
cursor is anywhere on the screen until the first character sets it. The cursor
is two bytes, so its offset is cut and put together as the registers do.

**Shell.** `pc` is the place in the loop; text waits in `out` until the terminal
has printed it. An argument is where it starts in the line buffer and what reads
from there, so that a write at one argument shows in the others. What is printed
(`Plain`) has no backspace and no carriage return but those of `Erase`: names, texts
and file contents come from typed lines, which hold neither. A line fits on
the screen without its last row, as 512 bytes do on 24 rows of 80.

**Ahci.** `pc` is the loop or wait the driver is in; one poll of PxCI is one step.
A port (`hba`) has PxCI, the error bit of PxIS, the command in memory and the one
the controller has fetched. `exec_ata_cmd` rewrites the command in memory whatever
is still fetched, as the code does after a timeout. The controller and the user
are external: `Fetch`, `Complete`, `Error`, `Unplug`, `Plug` may happen at any
poll or never. `sector_buf` lives on the stack, so a command that was given up may
transfer to and from whatever is there when it completes. Commands are taken to
mean what the driver means by them; stop, start and reset are taken to be answered.

**Partition.** One step per MBR, per entry and per extended boot record. `drives`
is what the driver's indexes name; an update may change it to any drives, reads
fail at any time, and `Exchange` swaps a disk without an update. `address` cuts the
byte address to 32 bits and `InBounds` adds in 64, both scaled down.

**Dfs.** `part` is what is on disk (super block, root record, bitmap, data), `mem` the
mounted directories, `entry` the child that a mount put into its mount point, `cache` the
two static variables of the bitmap scan. `dfs_umount` takes several steps: for each dirty
file its old blocks are freed, new ones allocated and the data written
(`dfs_free_file_blocks`, `dfs_alloc_file_blocks`, `dfs_sync_file`), then the record
(`dfs_save_folder_to_disk`) and the rest (`umount_done`). With `Faulty` a transfer or an
allocation may fail in each and `Crash` may come between any two. A transfer of more than
`MAX_TRANSFER` bytes is refused. With the driver's 256 bytes neither format nor mount ever
succeeds (run `DfsLimit`), so nothing else of the module is reachable in the program as it
is. The other configurations give `MAX_TRANSFER` the length of a folder record, the transfers that the
comment on `partition_read` promises, and ask what the comments in `dfs.c` and `dfs.h` say
of the functions (`Dfs*.cfg` below). All of it is violated, so the module has no passing
run and no theorem: what it shows is what has to change, beyond the limit, before dfs can be
used.

## Runs

| Run | Shows |
|---|---|
| `Malloc` | `BlocksApart`, `HeapTiled`, `LiveUsable`, `NullOnlyWhenExhausted`, `MallocReturns`, refinement `ContractSpec` |
| `Keyboard` | `ReadSlotStable`, `KeysAgree`, `LetterCase`, `CharDelivered`, refinement `FifoSpec` |
| `KeyboardBurst` | `WholeScanCode` fails with two bytes queued |
| `FolderMap` | `ChainsSound`, `ListFits`, refinement `NameMapSpec` |
| `FileMap` | `FindExact` fails with `_file_streq` |
| `Ramfs` | `NamespaceSound`, `DataOwned`, refinement `TreeSpec` |
| `RamfsNoMem` | `DataOwned` fails when the allocation in `write` does |
| `Tty` | `OnlyWayOff` |
| `Shell` | `EchoMatches`, `ArgvIsWords`, `PromptReturns` |
| `Ahci` | `IndexStable`, `DiskConfined`, `SuccessIsComplete`, `AlwaysReturns` |
| `Partition` | `TablesMatchDisks`, `TransferConfined`, `LockReleased` |
| `DfsLimit` | `FormatWorks` fails at the driver's 256 bytes |

Each passing run also checks its module's type invariant (in `Ramfs` as a part of
`NamespaceSound`). All passing runs check for
deadlock but `Ahci`, whose bounds on calls and faults end its behaviours.

These configurations are kept beside the runs. The first passes; in each of the others TLC
finds the property violated, by a behaviour of the code that a property of a run above
excepts or that the limit of 256 bytes hides (all but `DfsLimit` of the `Dfs*` ones lift it):

| Configuration | Module | Shows |
|---|---|---|
| `KeyboardHands` | `MCKeyboard` | `KeysAgree`, `LetterCase` with both shifts and the two keys of one key code |
| `KeyboardShared` | `MCKeyboard` | `NoneForgotten` fails for the keys that share a key code |
| `TtyCorner` | `MCTty` | `OnScreen` fails for a line feed in the corner |
| `AhciNoController` | `MCAhci` | `SearchEnds` fails without a controller |
| `PartitionLimit` | `MCPartition` | `NoInternalLimit` fails for more bytes than the driver moves |
| `PartitionChain` | `MCPartition` | `TablesRebuilt` fails for a chain that comes back to itself |
| `PartitionFar` | `MCPartition` | `FarTablesMatch` fails for a record beyond 4 GB |
| `DfsSyncsOwn` | `MCDfs` | `SyncsToOwn` fails: the second mount is written to the first's partition |
| `DfsSaves` | `MCDfs` | `UmountSaves` fails: a new file's data is never written |
| `DfsDetached` | `MCDfs` | `EntriesLive` fails: the entry of an unmounted directory stays |
| `DfsMoved` | `MCDfs` | `OwnMount` fails: a directory's entry has moved |

Several properties of the disk stack name the cases they except. Each exception is
a behaviour of the code; in brackets the configuration that shows it:

- `DiskConfined`, `SuccessIsComplete`: a command left in some port after a timeout
  (it may complete into the buffer of a later call, on another port too), and a disk
  pulled out during the call. Without a controller `AlwaysReturns` says nothing
  (`AhciNoController`).
- `TablesMatchDisks`: records that cannot be read, chains that do not end
  (`PartitionChain`) or lie beyond 4 GB (`PartitionFar`), disks exchanged without an
  update. Equality with the list is excepted for all of these, `NothingForeign` (no
  partition of another disk) only for the last.
- `TransferConfined`: a wrapped `offset + length`, which takes a 64-bit offset that no
  caller passes, and an exchanged disk.
- `LockReleased`: a disk whose chain does not end holds the lock for good
  (`PartitionChain`).

### Bounds

- `Malloc`: pools of 48 bytes, memory sizes that hold none, two, two and a bit,
  and one that wraps to 0 like 4096 MB. Requests of 0, 3, 12 and 45 bytes reach
  every branch: nothing, a split, a remainder too small to split again. 45 bytes
  are more than a pool of 48 has behind its header, so such a request grows the
  heap until memory is used up.
- `Keyboard`: three slots, so the ring is empty, partly full, full and wraps
  around; a letter, the space, a shift and caps lock. `Burst` 1 is a controller whose byte
  is always fetched before the next; `KeyboardBurst` allows two. `KeyboardHands` and
  `KeyboardShared` have both shifts, caps lock, a letter, and backslash and quote with
  their common key code: the cases of `getASCII` and of the table. The tables are whole
  in all runs.
- `FolderMap`, `FileMap`: the code's 16 buckets, three names in one of them and
  one elsewhere, two values: chains of three, deletes at head, middle and end.
- `Ramfs`: three directories and two files suffice for a parent, a child, a
  sibling and a grandchild; path arguments cover every form the parsers treat
  differently. `Counts` go beyond any file's length. `PwdRoom` 1 makes the cut of
  `pwd` happen. `VIEW StateView` leaves out `last`, which no action reads; TLC
  still checks `TreeSpec` on every transition it computes.
- `Tty`: 3 rows and 2 columns with video memory behind them; `Byte` 4 makes the
  cursor need both registers.
- `Shell`: lines of `LineMax` 7 keys on a screen of 4 columns wrap and scroll;
  `MAX_ARGS` 3 is reached; the room `VarRoom` 4 written by an expansion covers a
  neighbour and can end before another.
- `Ahci`: two ports and two disks of two sectors of two bytes; requests within a
  sector, over one, across the boundary and past the end of the disk. One poll
  before a timeout is enough for a command to be answered in time, late or never;
  two calls let one meet what another left, and two hot-plug events exchange a disk.
- `Partition`: six sectors and addresses that wrap at five; a disk with one more
  partition than there is room for, two of them in a chain, a plain one, and one
  whose chain returns to the MBR because its address wraps. Offsets reach the wrap
  of the sum (8 stands for 2^32 and 32 for 2^64). `PartitionChain` has one disk whose
  second record names the first, `PartitionFar` one with a single record at sector 5.
- `Dfs*`: the code's sizes of super block and records; three blocks with two bits to a
  bitmap byte. One partition and mount point where the counterexample needs no more, two
  of each, faults and six commands for `DfsSyncsOwn` and `DfsMoved`. Without a property
  all actions occur in some 1.8 million states of five commands.

### Fairness

`Malloc`: a call that has begun runs on, as the only code on the CPU besides
handlers that return. `Keyboard`: the main loop runs between interrupts, a
pending IRQ1 is served (the handler acknowledges the PIC each time), and the
timer ticks (IRQ0 is not masked, `pic.c:43`, and the PIT runs from reset);
without the last `CharDelivered` fails. `Shell`: the shell waits for nothing but
keys. `Ahci`, `Partition`: the driver and the kernel go on with what they have begun;
of the controller and the disks nothing is assumed, so an answer may never come.
Nothing is assumed of the user.
`AhciNoController` and `PartitionChain` use the same fairness: the search and the scan go on
for ever although they are never kept waiting.

## Findings

Each has a violation run that states what a comment says.

- `keyboard.c:82` (`KeyboardBurst`) takes "output buffer empty" for "scan code complete":
  bytes of two keys that wait together are decoded as one code.
- `memcmp.c:10` (`FileMap`) repeats the test of line 8, so `memcmp` finds a larger byte
  equal; file names of one length in one bucket are mixed up.
- `ramfs.c:398` (`RamfsNoMem`): `write` frees before it allocates and keeps the old pointer
  when the allocation fails.
- `drive.c:391`, `drive.c:424` (`DfsLimit`): transfers are limited to 256
  bytes, while the comment on `partition_read` says "no internal limit"
  (`drive_partition.c:183`). A super block has 536 bytes and a folder record 34956, so
  `mkfs.dfs` and `mount` fail on every disk.

## Observations

Behaviours of the code that the models have and the properties above describe or
except, with the configuration that shows them where there is one:

- `keyboard.c:210` (`KeyboardShared`) registers the quote key as `KEY_BSLASH`: the two keys
  share their state and the characters of the quote. `keyboard.h:8-9` gives every key a row
  and a column; `KEY_QUOTE` is never used.
- `tty.c:87` (`TtyCorner`): a line feed in the last column of the last row takes the write
  position off the screen for good (`OnlyWayOff` says it is the only way).
- `drive.c:331` (`AhciNoController`): without an AHCI controller the search over the buses
  never ends, and `if (!found) return;` (`drive.c:358`) is not reached.
- `drive_partition.c:94` (`PartitionChain`): a chain of extended boot records that comes
  back to an earlier one is followed for ever, with the lock held.
- `drive_partition.c:56` (`PartitionFar`): a sector beyond 4 GB is read from another place.
- Behind the limit of 256 bytes: every mounted directory is written
  to the partition of the first (`dfs.c:125`, `DfsSyncsOwn`); `RAMFS_TYPE_NEW` and
  `RAMFS_FOLDER_TYPE_DISK_CLEAN` are both 1, so the data of a new file is never written
  (`dfs.c:622`, `DfsSaves`); umount leaves the entry of a mount point in the root, pointing
  to freed memory, and deletes a deeper mount point itself (`dfs.c:275`, `DfsDetached`);
  directories keep pointers to table entries that have moved (`dfs.c:284`, `DfsMoved`);
  `mount_count` is not compared with the size of the table (`dfs.c:214`).
- `ramfs.c:625`: `mkdir -p a//b` makes `a` and reports success.
- `Little_Linux.c:139`: expanding one argument wipes the next 255 bytes of the
  line, and with them the following arguments; the text written there may make one
  of those a variable, which is expanded in turn (`Overwritten` in `ArgvIsWords`).
- `drive.c:197`: the error bit is cleared by `port_init` only; after one failed
  command all later ones on the port are reported as failed.
- `drive.c:339`: the low bits of the BAR are cleared before bit 2 is tested, so a
  64-bit BAR is read as 32 bits. `drive.c:100` and `drive.c:230`: the fields of the
  PRD and of the FIS are not where ATA and AHCI have them; `Ahci` takes a command to
  be read as the driver means it.
- `drive_partition.c:107`: addresses in the extended chain are read as absolute.
- `dfs.c:550`, `dfs.c:629`: the cached bitmap byte may be out of date, and blocks are
  freed by the new length of a file: both can give a block to two files, once there are
  files with blocks.

## Proofs

All theorems hold for every value of the constants that the modules' assumptions
(`MallocAssumption`, `KeyboardAssumption`, ...) and the stated hypothesis admit.

**MallocProofs**, under `NoWrap` (no memory size puts `heap_max` within a pool of
the end of the address space; with more memory the sum in `request_memory` can
wrap). `BlocksApart` is not inductive: a split stays inside its block only if
sizes are multiples of eight and the block lies on the grid that starts at
`_end`; a new pool is apart from all blocks only if all end below `heap_brk`. The
invariant `IInv` joins `TypeOK`, `BlocksApart`, `HeapTiled` and `HeapInv` with
these facts. From it follow no overlap, no leak, usable blocks, the meaning of
NULL, and that every step is a step of `HeapContract`. List surgery (replace,
remove, insert at the head) is reduced to lemmas about such lists.

**KeyboardProofs.** `RingInv` ties the reader's place in its loop to the indices:
from `Load` on the ring is not empty, so the handler's `next != kbuf_tail` keeps
it from the slot being read. With it the ring implements `BoundedFifo` for every
size: head and tail modulo `KBUF_SIZE` define a sequence, and each of the five
kinds of step is an append, a drop, a removal or a stutter of it. `HandsInv`, for
`Burst = 1`, says the pressed keys lag the held scan codes by exactly the byte in flight.
It holds for every key table: where two scan codes give one key the key may be forgotten
while one is held (`NoneForgotten` is false), but none stays down that no held code gives,
and one whose scan code is its own is down while it is held (`Agree`). `KeysAgree` follows,
and `LetterCase` for tables with letters in pairs and shifts of their own (`LetterTable`,
`ShiftsOwn`; TLC evaluates both on the tables of `initKBD`, assumption `InitKBDTables`).

**RamfsHashProofs**, under `Exact` (keys of one bucket that match are equal):
chains hold each key once and in its bucket, so the table is a map and a lookup
finds the name asked for. `FolderTableExact` shows that `_streq` satisfies
`Exact`; `_file_streq` does not (run `FileMap`).

`ListFits` adds a count: `list` visits the chains one after the other, so what it
writes is their concatenation; keys that are once in their chain and in one chain
only are once in the concatenation (`FlattenOnce`), and a list without repetitions
is as long as its set is large (`OnceCounts`).

**RamfsProofs.** `PathsResolve` speaks of walks of any length, so the invariant
`FsInv` says instead that the nodes have paths: there is an injective assignment of
paths to nodes in which a child's path is its parent's and its own name
(`IsPaths`). Existence survives `mkdir` and `rmdir` (the assignment grows or
shrinks by one node) and rules out cycles and second parents; the recursive walks
then only ever meet live nodes. A `mkdir -p` between two components and the working
directory hold on to live nodes (`JobOK`). Every failing allocation is covered.
`DataOwned` needs the hypothesis `"write" \notin MayFail`, which the run
`RamfsNoMem` shows to be necessary: each step moves blocks between `heap` and the
one file that owns them (`OwnedStep`). Under it every command is the command of
`FileTree` with that name and result, or a stutter (`ImplementsFileTree`): one
simulation lemma per command, over a lemma that a walk through the nodes is a walk
through the paths (`WalkSim`).

**ShellProofs**, terminal. Types hold and the corner is the only way off the screen, for
every screen whose cells fit the two bytes and every cursor at the start. A backspace uses
the cursor, so the invariant says that it is at the write position or, before the first
character, somewhere on the screen, and `InRange` that the place fits into the registers.

**ShellProofs**, shell. `ArgvIsWords` rests on `LineInv`: while a line is split,
the words before `p` are the arguments and `p` is the start of a word or the end;
while variables are replaced, arguments keep their places. `EchoMatches` rests on
`EchoInv`, which says in each phase that what waits in `out` completes the echo: one
more character, or one of the three places inside `Erase`. Row `VGA_HEIGHT` itself is
never reached (a glyph scrolls before it, a new line in the corner skips it), so a
backspace never steps back onto the screen from below. A line that fits above the
last row scrolls without losing its beginning. No bound on what a command prints is
needed: text that leaves video memory changes nothing, and the shell waits for a key
only where `InMemory` holds.

**AhciProofs.** The invariant says of every port which command may be in it: the one
the call under way issued, or one given up after a timeout; and, for a call that met
none of the latter, that the sectors done so far are on the disk and in the buffers
as the request wants them. Type correctness is bounds safety here: `sector_buf` and
`byte_buffer` are functions on their index ranges. `IndexStable`, `DiskConfined` and
`SuccessIsComplete` follow for any number of ports and sectors.

**PartitionProofs.** The scan is always at a drive that is there, what it has found
is on the disk it reads, and a request under way carries the address of the partition
it was checked against. No table outgrows its array, `NothingForeign` holds, and
transfers are confined although the lock is released first (`(U32 + U32) *
SECTOR_SIZE <= U64`: the address of a partition does not wrap).

That the table is what the disk says (`TablesAreTheDisks`) needs a second invariant,
`ListInv`. All entries that the MBR and the chains list are one sequence; `Place(d, j)`
of them come before entry `j` of the MBR, and `TableAt(d, m)` is the table after the
first `m`. While the scan is in entry `i` its table is `TableAt(d, Place(d, i))`, and at
record `k` of a chain it has `k - 1` entries more; `current_lba` is then the `k`-th
address of the chain, or 0 behind its last record. A drive the scan has left has the
whole list. The two hypotheses of `WellFormed` are used where one expects them: below
4 GB `read_sector` does not cut the address (`OnRecord`), and a chain that ends has a
first sector that is no record (`ChainsGood`).

**Induction.** The library's induction theorems take an operator as a parameter,
which the provers cannot instantiate. The strict subset order on finite sets is
well-founded, and that needs no operator: from it come a least element for every set
of numbers (`LeastNumber`), induction for a set in place of a predicate
(`SetInduction`), iteration of a step (`Iteration`) and what `FlattenSeq` returns
(`FlattenJoins`), each in the modules that use it. They carry the inductions over
walks, chains and lines.

Only model-checked: liveness (`MallocReturns`, `CharDelivered`, `PromptReturns`,
`AlwaysReturns`, `LockReleased`), since the prover has no fairness, and the counterexamples
of the violation runs and of the configurations beside them. Every invariant and every action property of a passing run, and
every refinement, is a theorem, under the hypotheses named above.

## Not modelled

- Directories inside a mounted one: `dfs_sync_folder` finds no table entry for them
  and writes none, so `dfs_alloc_folder_slot` is never reached for them;
  `dfs_load` and `dfs_sync_all` have no caller; the size computation of `dfs_format`;
  `lsblk`, which prints.
- The bits of PCI, HBA and ATA structures: a command is its operation, sector and
  buffer.
- Boot, GDT, IDT and TSS set-up, PIC programming: straight-line register writes.
- `printf`, `itoa`, `atoi`, `ctype`: formatting without state.
- `uthash.h`: vendored.
- Keys with a two-byte scan code (prefix 0xe0), which `initKBD` stores past the end of
  `scanToKeycode`.
- Byte lengths of names and lines: buffers of 256 and 512 bytes are not checked
  by the code; the models bound their inputs instead.
- `ls`, `pwd`, `help`: they only print. `getchar_from_buffer_timeout` has no
  caller.

## Plan

The parts that carry the kernel's own logic are modelled, and the safety properties of all
but dfs are proved. What could be added once the code is changed: properties of dfs that
hold, for saving, blocks and crashes, when a super block fits a transfer and umount writes
where it should; and directories inside a mounted one, once the code writes them.
