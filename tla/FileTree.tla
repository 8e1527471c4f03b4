------------------------------ MODULE FileTree ------------------------------
(***************************************************************************)
(* The file system as its user sees it: directories and files are paths    *)
(* from the root, files have contents, and there is a working directory.   *)
(* Nothing is said about nodes, tables, pointers or memory; a call that    *)
(* makes something new may also fail and change nothing.                   *)
(***************************************************************************)
EXTENDS Integers, Sequences, SequencesExt

CONSTANTS
    Names,    \* names of directories and files
    Paths,    \* paths [abs, comps]: comps are the strings between slashes
    Data,     \* what is written to files
    Counts,   \* how many characters backspace is asked to delete
    Missing   \* no directory

VARIABLES
    tree,     \* the set of directories
    files,    \* files with their contents
    cwd,      \* the working directory
    last      \* the last command and its result

vars == <<tree, files, cwd, last>>

(* One component of a path.  At the root, ".." ends the walk. *)
Walk(w, comp) ==
    IF w.done \/ comp \in {"", "."} THEN w
    ELSE IF comp = ".." THEN
        IF w.at = <<>> THEN [w EXCEPT !.done = TRUE] ELSE [w EXCEPT !.at = Front(@)]
    ELSE IF Append(w.at, comp) \in tree THEN [w EXCEPT !.at = Append(@, comp)]
    ELSE [at |-> Missing, done |-> TRUE]

(* The directory a path names, seen from the working directory. *)
Dir(p) ==
    IF p = [abs |-> FALSE, comps |-> <<"">>] THEN Missing
    ELSE LET walk[k \in 0..Len(p.comps)] ==
                 IF k = 0 THEN [at |-> IF p.abs THEN <<>> ELSE cwd, done |-> FALSE]
                          ELSE Walk(walk[k - 1], p.comps[k])
         IN  walk[Len(p.comps)].at

(* The directory that a path's last component is looked up in: "/x" has    *)
(* none.                                                                   *)
DirOf(p) ==
    IF Len(p.comps) > 1 THEN Dir([p EXCEPT !.comps = Front(@)])
    ELSE IF p.abs THEN Missing ELSE cwd

Target(p) == Append(DirOf(p), Last(p.comps))

Unnamed(p) == Last(p.comps) = ""

Taken(path) == path \in tree \/ path \in DOMAIN files

Result(call, ret) == last' = [call |-> call, ret |-> ret]

(* The command reports ret and changes nothing. *)
Refuse(call, ret) == Result(call, ret) /\ UNCHANGED <<tree, files, cwd>>

-----------------------------------------------------------------------------
Init == tree = {<<>>} /\ files = [x \in {} |-> x] /\ cwd = <<>>

Mkdir(n) ==
    LET path == Append(cwd, n)
        call == <<"mkdir", n>>
    IN  \/ Taken(path) /\ Refuse(call, "exists")
        \/ ~Taken(path) /\ Refuse(call, "nomem")
        \/ /\ ~Taken(path)
           /\ tree' = tree \cup {path}
           /\ UNCHANGED <<files, cwd>>
           /\ Result(call, "ok")

(* mkdir -p makes one directory after the other. *)
MkdirDeep ==
    /\ \E path \in tree' \ tree :
        /\ path # <<>> /\ Front(path) \in tree
        /\ ~Taken(path)
        /\ tree' = tree \cup {path}
    /\ UNCHANGED <<files, cwd, last>>

MkdirDeepReports == \E ret \in {"begun", "ok", "failed"} : Refuse(<<"mkdir -p">>, ret)

Rmdir(n) ==
    LET path == Append(cwd, n)
        call == <<"rmdir", n>>
        empty == \A q \in tree \cup DOMAIN files : q = <<>> \/ Front(q) # path
    IN  \/ path \notin tree /\ Refuse(call, "notfound")
        \/ path \in tree /\ ~empty /\ Refuse(call, "notempty")
        \/ /\ path \in tree /\ empty
           /\ tree' = tree \ {path}
           /\ UNCHANGED <<files, cwd>>
           /\ Result(call, "ok")

Cd(p) ==
    \/ Dir(p) = Missing /\ Refuse(<<"cd", p>>, "noparent")
    \/ /\ Dir(p) # Missing
       /\ cwd' = Dir(p)
       /\ UNCHANGED <<tree, files>>
       /\ Result(<<"cd", p>>, "ok")

(* A call that names a file: f is what it does if there is a directory to  *)
(* look in.                                                                *)
Lookup(p, call, f) ==
    \/ Unnamed(p) /\ Refuse(call, "invalid")
    \/ ~Unnamed(p) /\ DirOf(p) = Missing /\ Refuse(call, "noparent")
    \/ ~Unnamed(p) /\ DirOf(p) # Missing /\ f

Touch(p) ==
    LET f == Target(p)
        call == <<"touch", p>>
    IN  Lookup(p, call,
          \/ Taken(f) /\ Refuse(call, "exists")
          \/ ~Taken(f) /\ Refuse(call, "nomem")
          \/ /\ ~Taken(f)
             /\ files' = [x \in DOMAIN files \cup {f} |-> IF x = f THEN <<>> ELSE files[x]]
             /\ UNCHANGED <<tree, cwd>>
             /\ Result(call, "ok"))

Rm(p) ==
    LET f == Target(p)
        call == <<"rm", p>>
    IN  Lookup(p, call,
          \/ f \notin DOMAIN files /\ Refuse(call, "notfound")
          \/ /\ f \in DOMAIN files
             /\ files' = [x \in DOMAIN files \ {f} |-> files[x]]
             /\ UNCHANGED <<tree, cwd>>
             /\ Result(call, "ok"))

Write(n, data) ==
    LET f == Append(cwd, n)
        call == <<"write", n, data>>
    IN  \/ f \notin DOMAIN files /\ Refuse(call, "notfound")
        \/ f \in DOMAIN files /\ Refuse(call, "nomem")
        \/ /\ f \in DOMAIN files
           /\ files' = [files EXCEPT ![f] = data]
           /\ UNCHANGED <<tree, cwd>>
           /\ Result(call, "ok")

(* Prints the contents. *)
Cat(n) ==
    LET f == Append(cwd, n)
    IN  \/ f \notin DOMAIN files /\ Refuse(<<"cat", n>>, "notfound")
        \/ f \in DOMAIN files /\ Refuse(<<"cat", n, files[f]>>, "ok")

(* Deletes up to count characters at the end. *)
Backspace(p, count) ==
    LET f == Target(p)
        call == <<"backspace", p, count>>
        left == Len(files[f]) - count
    IN  \/ count = 0 /\ Refuse(call, "ok")
        \/ count > 0 /\ Lookup(p, call,
             \/ f \notin DOMAIN files /\ Refuse(call, "notfound")
             \/ f \in DOMAIN files /\ files[f] = <<>> /\ Refuse(call, "empty")
             \/ f \in DOMAIN files /\ left > 0 /\ Refuse(call, "nomem")
             \/ /\ f \in DOMAIN files /\ files[f] # <<>>
                /\ files' = [files EXCEPT ![f] = IF left > 0 THEN SubSeq(@, 1, left) ELSE <<>>]
                /\ UNCHANGED <<tree, cwd>>
                /\ Result(call, "ok"))

Next ==
    \/ \E n \in Names : Mkdir(n) \/ Rmdir(n) \/ Cat(n)
    \/ \E n \in Names, data \in Data : Write(n, data)
    \/ \E p \in Paths : Cd(p) \/ Touch(p) \/ Rm(p)
    \/ \E p \in Paths, count \in Counts : Backspace(p, count)
    \/ MkdirDeep \/ MkdirDeepReports

Spec == Init /\ [][Next]_vars
=============================================================================
