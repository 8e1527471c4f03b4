-------------------------------- MODULE Ramfs --------------------------------
(***************************************************************************)
(* The in-memory file system of kernel/src/ramfs.c: directory nodes on the *)
(* heap, linked to their parents and, by name, to their children; files    *)
(* with a pointer to their data; the shell's working directory.            *)
(*                                                                         *)
(* A command runs to its end before the next one is read, so each command  *)
(* is one action; mkdir -p is one action per component of its path.  The   *)
(* two name tables of a directory are the maps that module RamfsHash shows *)
(* them to be (for names that _file_streq tells apart).  No partition is   *)
(* mounted: every node has mount NULL and type MEM, so the branches of     *)
(* lazy_load_directory and of DISK_CLEAN parents are not taken, and every  *)
(* command passes from = NULL.  The type that write and backspace store in *)
(* a file entry is only read when a mounted partition is synchronised, and *)
(* is left out.                                                            *)
(*                                                                         *)
(* Names are atoms of 1 to 127 characters: the shell passes no empty one,  *)
(* and that mkdir and touch return -1 for a longer one is left out.        *)
(*                                                                         *)
(* A path is [abs, comps]: whether it starts with a slash, and the strings *)
(* between the slashes, which may be empty ("/" is [TRUE, <<"">>]).        *)
(***************************************************************************)
EXTENDS Integers, FiniteSets, Sequences, SequencesExt

CONSTANTS
    NULL,
    DirIds,       \* addresses of directory nodes; bounds their number
    Root,         \* the static node root
    Blocks,       \* addresses of file data; bounds their number
    Names,        \* arguments of mkdir, rmdir, write and cat
    Paths,        \* arguments of cd, touch, rm and backspace
    DeepPaths,    \* arguments of mkdir -p
    Data,         \* what is written: sequences of characters
    Counts,       \* arguments of backspace
    MaxFiles,     \* bound on the number of files
    PwdRoom,      \* names that fit into the 256 bytes of an environment variable
    MayFail       \* the allocations that may return NULL

Path == [abs : BOOLEAN, comps : Seq(STRING) \ {<<>>}]

ASSUME RamfsAssumption ==
    /\ Root \in DirIds /\ NULL \notin DirIds /\ NULL \notin Blocks
    /\ NULL \notin Seq(STRING)
    /\ Names \subseteq STRING /\ Paths \subseteq Path /\ DeepPaths \subseteq Path
    /\ Data \subseteq Seq(STRING) /\ Counts \subseteq Nat /\ PwdRoom \in Nat
    /\ MayFail \subseteq {"dir", "node", "write", "backspace"}

VARIABLES
    dirs,           \* live nodes: [name, parent, foder_map, file_map]
    heap,           \* live data blocks and what is in them
    current_dir,
    current_path,   \* the names on the way from the root
    pwd,            \* the environment variable of that name, for the prompt
    job,            \* mkdir -p in progress: [path, todo, at], or NULL
    last            \* the last command and its result

vars == <<dirs, heap, current_dir, current_path, pwd, job, last>>

Empty == [x \in {} |-> x]
Bind(f, k, v) == [x \in DOMAIN f \cup {k} |-> IF x = k THEN v ELSE f[x]]
Unbind(f, k) == [x \in DOMAIN f \ {k} |-> f[x]]

-----------------------------------------------------------------------------
(* Definitions that end in _bug are deliberately wrong variants of the one *)
(* that follows: what a property must detect if the code were changed so.  *)

(* One component of a path: "" and "." stay, ".." goes up but ends the     *)
(* walk at the root, a name goes down or fails.                            *)
Step(w, comp) ==
    IF w.done \/ comp \in {"", "."} THEN w
    ELSE IF comp = ".." THEN
        IF dirs[w.at].parent = NULL THEN [w EXCEPT !.done = TRUE]
        ELSE [w EXCEPT !.at = dirs[w.at].parent]
    ELSE IF comp \in DOMAIN dirs[w.at].foder_map
         THEN [w EXCEPT !.at = dirs[w.at].foder_map[comp]]
         ELSE [at |-> NULL, done |-> TRUE]

get_dir_by_path(base, p) ==
    IF p = [abs |-> FALSE, comps |-> <<"">>] THEN NULL
    ELSE LET walk[k \in 0..Len(p.comps)] ==
                 IF k = 0 THEN [at |-> IF p.abs THEN Root ELSE base, done |-> FALSE]
                          ELSE Step(walk[k - 1], p.comps[k])
         IN  walk[Len(p.comps)].at

(* The names on the way from the root to each node. *)
build_absolute_path[d \in DOMAIN dirs] ==
    IF dirs[d].parent = NULL \/ d = Root THEN <<>>
    ELSE Append(build_absolute_path[dirs[d].parent], dirs[d].name)

(* What env_set keeps of a path: a longer one is cut. *)
env_value(path) == IF Len(path) <= PwdRoom THEN path ELSE SubSeq(path, 1, PwdRoom)

(* rm, touch and backspace cut a path at its last slash.  What is left of  *)
(* "/x" is the empty path, which names no directory.                       *)
file_name(p) == Last(p.comps)

parent_of_bug(p) ==
    IF Len(p.comps) = 1 THEN current_dir
    ELSE get_dir_by_path(current_dir, [p EXCEPT !.comps = Front(@)])

parent_of(p) ==
    IF Len(p.comps) > 1 THEN get_dir_by_path(current_dir, [p EXCEPT !.comps = Front(@)])
    ELSE IF p.abs THEN NULL
    ELSE current_dir

(* Every file, with its directory. *)
Files == UNION {{<<d, n>> : n \in DOMAIN dirs[d].file_map} : d \in DOMAIN dirs}

(* The command and what its wrapper (fs_cd_api, ...) reports of it. *)
Result(call, ret) == last' = [call |-> call, ret |-> ret]

(* A command that returns an error, or has nothing to do. *)
Return(call, ret) ==
    /\ job = NULL
    /\ Result(call, ret)
    /\ UNCHANGED <<dirs, heap, current_dir, current_path, pwd, job>>

-----------------------------------------------------------------------------
Init ==
    /\ dirs = Bind(Empty, Root,
                   [name |-> "/", parent |-> NULL, foder_map |-> Empty, file_map |-> Empty])
    /\ heap = Empty
    /\ current_dir = Root
    /\ current_path = <<>>
    /\ pwd = <<>>
    /\ job = NULL
    /\ last = [call |-> <<>>, ret |-> "ok"]

(* fs_mkdir.  Either of its two allocations may fail; if the second does,  *)
(* the new node is freed again.                                            *)
NameTaken(d, n) == n \in DOMAIN dirs[d].foder_map \cup DOMAIN dirs[d].file_map

NoNode == MayFail \cap {"dir", "node"} # {}

NewDir == CHOOSE d \in DirIds \ DOMAIN dirs : TRUE

AddDir(parent, n) ==
    /\ DirIds \ DOMAIN dirs # {}
    /\ dirs' = [Bind(dirs, NewDir, [name |-> n, parent |-> parent,
                                    foder_map |-> Empty, file_map |-> Empty])
                  EXCEPT ![parent].foder_map = Bind(@, n, NewDir)]

fs_mkdir(n) ==
    LET call == <<"mkdir", n>>
    IN  \/ NameTaken(current_dir, n) /\ Return(call, "exists")
        \/ ~NameTaken(current_dir, n) /\ NoNode /\ Return(call, "nomem")
        \/ /\ job = NULL
           /\ ~NameTaken(current_dir, n)
           /\ AddDir(current_dir, n)
           /\ Result(call, "ok")
           /\ UNCHANGED <<heap, current_dir, current_path, pwd, job>>

(* mkdir -p (fs_mkdir_api): the path is walked without changing the        *)
(* working directory, *)
mkdir_p(p) ==
    /\ job = NULL
    /\ job' = [path |-> p, todo |-> p.comps, at |-> IF p.abs THEN Root ELSE current_dir]
    /\ Result(<<"mkdir -p">>, "begun")
    /\ UNCHANGED <<dirs, heap, current_dir, current_path, pwd>>

mkdir_p_ended == IF job.todo = <<>> THEN TRUE ELSE Head(job.todo) = ""

(* entering or making one directory at a time (".." is a name like others),*)
mkdir_p_step ==
    /\ job # NULL /\ ~mkdir_p_ended
    /\ LET comp == Head(job.todo)
           children == dirs[job.at].foder_map
       IN  \/ /\ comp = "."
              /\ job' = [job EXCEPT !.todo = Tail(@)]
              /\ UNCHANGED dirs
           \/ /\ comp # "." /\ comp \in DOMAIN children
              /\ job' = [job EXCEPT !.todo = Tail(@), !.at = children[comp]]
              /\ UNCHANGED dirs
           \/ /\ comp # "." /\ ~NameTaken(job.at, comp)
              /\ AddDir(job.at, comp)
              /\ job' = [job EXCEPT !.todo = Tail(@), !.at = NewDir]
    /\ UNCHANGED <<heap, current_dir, current_path, pwd, last>>

(* up to the end of the path or an empty component, or to the first        *)
(* directory that cannot be made; those made before stay.                  *)
mkdir_p_return ==
    /\ job # NULL
    /\ \/ mkdir_p_ended /\ Result(<<"mkdir -p">>, "ok")
       \/ /\ ~mkdir_p_ended /\ Head(job.todo) # "."
          /\ Head(job.todo) \notin DOMAIN dirs[job.at].foder_map
          /\ NameTaken(job.at, Head(job.todo)) \/ NoNode
          /\ Result(<<"mkdir -p">>, "failed")
    /\ job' = NULL
    /\ UNCHANGED <<dirs, heap, current_dir, current_path, pwd>>

fs_rmdir_bug(n) ==
    LET children == dirs[current_dir].foder_map
        call == <<"rmdir", n>>
    IN  \/ n \notin DOMAIN children /\ Return(call, "notfound")
        \/ /\ job = NULL
           /\ n \in DOMAIN children
           /\ dirs' = Unbind([dirs EXCEPT ![current_dir].foder_map = Unbind(@, n)],
                             children[n])
           /\ Result(call, "ok")
           /\ UNCHANGED <<heap, current_dir, current_path, pwd, job>>

(* fs_rmdir: only a child of the working directory, and only an empty one. *)
fs_rmdir(n) ==
    LET children == dirs[current_dir].foder_map
        call == <<"rmdir", n>>
        empty(d) == dirs[d].foder_map = Empty /\ dirs[d].file_map = Empty
    IN  \/ n \notin DOMAIN children /\ Return(call, "notfound")
        \/ n \in DOMAIN children /\ ~empty(children[n]) /\ Return(call, "notempty")
        \/ /\ job = NULL
           /\ n \in DOMAIN children /\ empty(children[n])
           /\ dirs' = Unbind([dirs EXCEPT ![current_dir].foder_map = Unbind(@, n)],
                             children[n])
           /\ Result(call, "ok")
           /\ UNCHANGED <<heap, current_dir, current_path, pwd, job>>

(* fs_cd rebuilds current_path from the parent links of the new node and   *)
(* copies it to the environment.                                           *)
fs_cd(p) ==
    LET call == <<"cd", p>>
    IN  \/ get_dir_by_path(current_dir, p) = NULL /\ Return(call, "noparent")
        \/ /\ job = NULL
           /\ \E target \in DOMAIN dirs :
                /\ target = get_dir_by_path(current_dir, p)
                /\ current_dir' = target
                /\ current_path' = build_absolute_path[target]
                /\ pwd' = env_value(build_absolute_path[target])
           /\ Result(call, "ok")
           /\ UNCHANGED <<dirs, heap, job>>

(* fs_touch: a new, empty file without data. *)
fs_touch(p) ==
    LET n == file_name(p)
        call == <<"touch", p>>
    IN  \/ n = "" /\ Return(call, "invalid")
        \/ n # "" /\ parent_of(p) = NULL /\ Return(call, "noparent")
        \/ /\ n # ""
           /\ \E parent \in DOMAIN dirs :
                /\ parent = parent_of(p)
                /\ \/ NameTaken(parent, n) /\ Return(call, "exists")
                   \/ ~NameTaken(parent, n) /\ "node" \in MayFail /\ Return(call, "nomem")
                   \/ /\ job = NULL
                      /\ ~NameTaken(parent, n)
                      /\ Cardinality(Files) < MaxFiles
                      /\ dirs' = [dirs EXCEPT ![parent].file_map =
                                      Bind(@, n, [length |-> 0, ptr |-> NULL])]
                      /\ Result(call, "ok")
                      /\ UNCHANGED <<heap, current_dir, current_path, pwd, job>>

free_data_bug(ptr) == heap

(* What free(info->ptr) leaves of the heap. *)
free_data(ptr) == IF ptr = NULL THEN heap ELSE Unbind(heap, ptr)

(* fs_rm frees the data, then the entry. *)
fs_rm(p) ==
    LET n == file_name(p)
        call == <<"rm", p>>
    IN  \/ n = "" /\ Return(call, "invalid")
        \/ n # "" /\ parent_of(p) = NULL /\ Return(call, "noparent")
        \/ /\ n # ""
           /\ \E parent \in DOMAIN dirs :
                /\ parent = parent_of(p)
                /\ \/ n \notin DOMAIN dirs[parent].file_map /\ Return(call, "notfound")
                   \/ /\ job = NULL
                      /\ n \in DOMAIN dirs[parent].file_map
                      /\ heap' = free_data(dirs[parent].file_map[n].ptr)
                      /\ dirs' = [dirs EXCEPT ![parent].file_map = Unbind(@, n)]
                      /\ Result(call, "ok")
                      /\ UNCHANGED <<current_dir, current_path, pwd, job>>

(* The file entry n of node d gets new data; old is the heap without the   *)
(* data it had.                                                            *)
StoreData(d, n, old, data) ==
    LET b == CHOOSE x \in Blocks \ DOMAIN old : TRUE
    IN  \/ /\ data = <<>>
           /\ heap' = old
           /\ dirs' = [dirs EXCEPT ![d].file_map[n] = [length |-> 0, ptr |-> NULL]]
        \/ /\ data # <<>>
           /\ Blocks \ DOMAIN old # {}
           /\ heap' = Bind(old, b, data)
           /\ dirs' = [dirs EXCEPT ![d].file_map[n] = [length |-> Len(data), ptr |-> b]]

(* fs_write frees the old data first.  When there is no memory for the new *)
(* data it returns and leaves the entry as it was.                         *)
fs_write(n, data) ==
    LET files == dirs[current_dir].file_map
        old == free_data(files[n].ptr)
        call == <<"write", n, data>>
    IN  \/ n \notin DOMAIN files /\ Return(call, "notfound")
        \/ /\ job = NULL /\ n \in DOMAIN files
           /\ \/ /\ StoreData(current_dir, n, old, data)
                 /\ Result(call, "ok")
              \/ /\ data # <<>> /\ "write" \in MayFail
                 /\ heap' = old
                 /\ UNCHANGED dirs
                 /\ Result(call, "nomem")
           /\ UNCHANGED <<current_dir, current_path, pwd, job>>

(* What reading length characters at ptr gives. *)
Contents(info) ==
    [i \in 1..(IF info.ptr = NULL THEN 0 ELSE info.length) |->
        IF info.ptr \in DOMAIN heap /\ i <= Len(heap[info.ptr])
        THEN heap[info.ptr][i] ELSE "garbage"]

fs_cat(n) ==
    LET files == dirs[current_dir].file_map
    IN  \/ n \notin DOMAIN files /\ Return(<<"cat", n>>, "notfound")
        \/ n \in DOMAIN files /\ Return(<<"cat", n, Contents(files[n])>>, "ok")

(* The length backspace leaves: at most the whole file goes. *)
new_len(length, count) == IF count > length THEN 0 ELSE length - count

(* fs_backspace copies the rest to new memory before it frees the old. *)
fs_backspace(p, count) ==
    LET n == file_name(p)
        call == <<"backspace", p, count>>
    IN  \/ count = 0 /\ Return(call, "ok")
        \/ count > 0 /\ n = "" /\ Return(call, "invalid")
        \/ count > 0 /\ n # "" /\ parent_of(p) = NULL /\ Return(call, "noparent")
        \/ /\ count > 0 /\ n # ""
           /\ \E parent \in DOMAIN dirs :
                LET files == dirs[parent].file_map
                    info == files[n]
                    left == new_len(info.length, count)
                    b == CHOOSE x \in Blocks \ DOMAIN heap : TRUE
                IN  /\ parent = parent_of(p)
                    /\ \/ n \notin DOMAIN files /\ Return(call, "notfound")
                       \/ n \in DOMAIN files /\ info.length = 0 /\ Return(call, "empty")
                       \/ /\ n \in DOMAIN files /\ info.length # 0 /\ left # 0
                          /\ "backspace" \in MayFail
                          /\ Return(call, "nomem")
                       \/ /\ job = NULL
                          /\ n \in DOMAIN files /\ info.length # 0
                          /\ \/ /\ left = 0
                                /\ heap' = free_data(info.ptr)
                                /\ dirs' = [dirs EXCEPT ![parent].file_map[n] =
                                                [length |-> 0, ptr |-> NULL]]
                             \/ /\ left # 0 /\ Blocks \ DOMAIN heap # {}
                                /\ heap' = Unbind(Bind(heap, b, SubSeq(Contents(info), 1, left)),
                                                  info.ptr)
                                /\ dirs' = [dirs EXCEPT ![parent].file_map[n] =
                                                [length |-> left, ptr |-> b]]
                          /\ Result(call, "ok")
                          /\ UNCHANGED <<current_dir, current_path, pwd, job>>

Next ==
    \/ \E n \in Names : fs_mkdir(n) \/ fs_rmdir(n) \/ fs_cat(n)
    \/ \E n \in Names, data \in Data : fs_write(n, data)
    \/ \E p \in Paths : fs_cd(p) \/ fs_touch(p) \/ fs_rm(p)
    \/ \E p \in Paths, count \in Counts : fs_backspace(p, count)
    \/ \E p \in DeepPaths : mkdir_p(p)
    \/ mkdir_p_step
    \/ mkdir_p_return

Spec == Init /\ [][Next]_vars

-----------------------------------------------------------------------------
FileInfo == [length : Nat, ptr : Blocks \cup {NULL}]

(* Node fields have their types; tables map names to nodes and to entries. *)
NodeOK(d) ==
    /\ DOMAIN dirs[d] = {"name", "parent", "foder_map", "file_map"}
    /\ dirs[d].parent \in DirIds \cup {NULL}
    /\ \A n \in DOMAIN dirs[d].foder_map : dirs[d].foder_map[n] \in DirIds
    /\ \A n \in DOMAIN dirs[d].file_map : dirs[d].file_map[n] \in FileInfo

TypeOK ==
    /\ DOMAIN dirs \subseteq DirIds
    /\ \A d \in DOMAIN dirs : NodeOK(d)
    /\ DOMAIN heap \subseteq Blocks
    /\ current_dir \in DirIds

(* The parent links and the name tables describe one tree of live nodes:   *)
(* every node but the root is its parent's child under its own name, and   *)
(* every table entry points to such a node.  No rmdir leaves a pointer to  *)
(* a freed node behind, and no node is cut off from the root.              *)
TreeSound ==
    /\ Root \in DOMAIN dirs /\ dirs[Root].parent = NULL
    /\ \A d \in DOMAIN dirs \ {Root} :
        LET up == dirs[d].parent
        IN  /\ up \in DOMAIN dirs /\ up # d
            /\ dirs[d].name \in DOMAIN dirs[up].foder_map
            /\ dirs[up].foder_map[dirs[d].name] = d
    /\ \A d \in DOMAIN dirs : \A n \in DOMAIN dirs[d].foder_map :
        LET child == dirs[d].foder_map[n]
        IN  child \in DOMAIN dirs /\ dirs[child].parent = d /\ dirs[child].name = n

(* The working directory is never a freed node, pwd prints the path that   *)
(* leads to it, and so does the prompt while that path fits.               *)
CwdSound ==
    /\ current_dir \in DOMAIN dirs
    /\ current_path = build_absolute_path[current_dir]
    /\ Len(current_path) <= PwdRoom => pwd = current_path

(* Every walk of get_dir_by_path ends at a live node or fails. *)
PathsResolve ==
    \A p \in Paths : get_dir_by_path(current_dir, p) \in DOMAIN dirs \cup {NULL}

(* No directory holds a file and a directory of the same name, whichever   *)
(* of mkdir, mkdir -p and touch came first.                                *)
NamesExclusive ==
    \A d \in DOMAIN dirs : DOMAIN dirs[d].foder_map \cap DOMAIN dirs[d].file_map = {}

(* After every command, whichever allocation failed, and between the steps *)
(* of mkdir -p: the nodes form one tree of live nodes, the working         *)
(* directory is in it with the path it claims, every walk ends in it and   *)
(* no name is taken twice.                                                 *)
NamespaceSound ==
    /\ TypeOK /\ TreeSound /\ CwdSound
    /\ PathsResolve /\ NamesExclusive

(* Every data pointer points to a live block of the file's length that no  *)
(* other file uses, and no block is left without a file: nothing is read   *)
(* after free, freed twice or leaked by write, backspace and rm.           *)
Owner(b) == {f \in Files : dirs[f[1]].file_map[f[2]].ptr = b}
DataOwned ==
    /\ \A f \in Files :
        LET info == dirs[f[1]].file_map[f[2]]
        IN  IF info.ptr = NULL THEN info.length = 0
            ELSE info.ptr \in DOMAIN heap /\ info.length = Len(heap[info.ptr])
    /\ \A b \in DOMAIN heap : \E f \in Files : Owner(b) = {f}

(* The tree of paths the nodes stand for. *)
PathTree == {build_absolute_path[d] : d \in DOMAIN dirs}
PathOfFile(f) == Append(build_absolute_path[f[1]], f[2])
PathFiles ==
    [path \in {PathOfFile(f) : f \in Files} |->
        LET f == CHOOSE g \in Files : PathOfFile(g) = path
        IN  Contents(dirs[f[1]].file_map[f[2]])]

Tree == INSTANCE FileTree WITH
    tree <- PathTree, files <- PathFiles, cwd <- current_path, Missing <- NULL

(* Nodes, tables, parent links and data pointers implement a file system   *)
(* of paths: each command does to the paths, and reports, what its user    *)
(* expects, also when an allocation fails half way.                        *)
TreeSpec == Tree!Spec
==============================================================================
