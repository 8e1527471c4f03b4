------------------------------ MODULE RamfsHash ------------------------------
(***************************************************************************)
(* The chained hash tables of a ramfs directory.  ramfs_hash.c (folders)   *)
(* and ramfs_hash_file.c (files) are the same program up to the function   *)
(* that compares two names, so one module stands for both: Match is _streq *)
(* or _file_streq (module RamfsKeys).                                      *)
(*                                                                         *)
(* A chain is the sequence of its nodes from the bucket's head.  A call    *)
(* runs to its end before the next one (the shell is the only caller), so  *)
(* each call is one action; the allocation of a node may fail.             *)
(***************************************************************************)
EXTENDS Integers, FiniteSets, Sequences, SequencesExt

CONSTANTS
    Names,          \* names shorter than 128 characters
    Values,         \* entries
    NBuckets,
    Bucket(_),      \* the hash of a name
    Match(_, _)     \* Match(node->key, key)

ASSUME HashAssumption ==
    /\ NBuckets \in Nat
    /\ \A k \in Names : Bucket(k) \in 0..(NBuckets - 1)
    /\ \A k \in Names : Match(k, k)
    /\ \A a, b \in Names : Match(a, b) \in BOOLEAN

VARIABLES
    buckets,    \* chains of [key, name (that of the entry), value]
    count,
    call,       \* the last call and its arguments
    ret         \* the result of the last call

vars == <<buckets, count, call, ret>>

Node == [key : Names, name : Names, value : Values]

Init ==
    /\ buckets = [i \in 0..(NBuckets - 1) |-> <<>>]
    /\ count = 0
    /\ call = <<"init">>
    /\ ret = "NULL"

-----------------------------------------------------------------------------
(* The search of insert, find and delete: node i is the first that matches.*)
Chain(k) == buckets[Bucket(k)]

Hit(k, i) ==
    /\ i \in DOMAIN Chain(k)
    /\ Match(Chain(k)[i].key, k)
    /\ \A j \in 1..(i - 1) : ~Match(Chain(k)[j].key, k)

Miss(k) == \A i \in DOMAIN Chain(k) : ~Match(Chain(k)[i].key, k)

(* Definitions that end in _bug are deliberately wrong variants of the one *)
(* that follows: what a property must detect if the code were changed so.  *)

(* insert replaces the entry of a node it finds, not its key, *)
insert_update(k, v) ==
    /\ \E i \in DOMAIN Chain(k) :
        /\ Hit(k, i)
        /\ buckets' = [buckets EXCEPT ![Bucket(k)][i].value = v,
                                      ![Bucket(k)][i].name = k]
    /\ ret' = "ok"
    /\ UNCHANGED count

insert_new_bug(k, v) ==
    /\ buckets' = [buckets EXCEPT
                     ![Bucket(k)] = <<[key |-> k, name |-> k, value |-> v]>> \o @]
    /\ count' = count + 1
    /\ ret' = "ok"

(* otherwise links a new node at the head of the chain, *)
insert_new(k, v) ==
    /\ Miss(k)
    /\ buckets' = [buckets EXCEPT
                     ![Bucket(k)] = <<[key |-> k, name |-> k, value |-> v]>> \o @]
    /\ count' = count + 1
    /\ ret' = "ok"

(* or gives up when there is no memory for it. *)
insert_nomem(k) ==
    /\ Miss(k)
    /\ ret' = "failed"
    /\ UNCHANGED <<buckets, count>>

hashmap_insert(k, v) == insert_update(k, v) \/ insert_new(k, v) \/ insert_nomem(k)

hashmap_find(k) ==
    /\ \/ \E i \in DOMAIN Chain(k) : Hit(k, i) /\ ret' = Chain(k)[i].value
       \/ Miss(k) /\ ret' = "NULL"
    /\ UNCHANGED <<buckets, count>>

delete_found_bug(k) ==
    /\ \E i \in DOMAIN Chain(k) :
        Hit(k, i) /\ buckets' = [buckets EXCEPT ![Bucket(k)] = Tail(@)]
    /\ count' = count - 1
    /\ ret' = "ok"

(* delete unlinks the node it finds. *)
delete_found(k) ==
    /\ \E i \in DOMAIN Chain(k) :
        Hit(k, i) /\ buckets' = [buckets EXCEPT ![Bucket(k)] = RemoveAt(@, i)]
    /\ count' = count - 1
    /\ ret' = "ok"

delete_missed_bug(k) ==
    /\ Miss(k)
    /\ ret' = "failed"
    /\ count' = count - 1
    /\ UNCHANGED buckets

delete_missed(k) ==
    /\ Miss(k)
    /\ ret' = "failed"
    /\ UNCHANGED <<buckets, count>>

hashmap_delete(k) == delete_found(k) \/ delete_missed(k)

hashmap_destroy_bug ==
    /\ buckets' = [i \in 0..(NBuckets - 1) |-> <<>>]
    /\ UNCHANGED <<count, ret>>

hashmap_destroy ==
    /\ buckets' = [i \in 0..(NBuckets - 1) |-> <<>>]
    /\ count' = 0
    /\ UNCHANGED ret

(* The keys that list copies, bucket by bucket, into the array of count    *)
(* names it allocated.                                                     *)
hashmap_list ==
    FlattenSeq([i \in 1..NBuckets |->
        [j \in DOMAIN buckets[i - 1] |-> buckets[i - 1][j].key]])

Next ==
    \/ \E k \in Names, v \in Values : hashmap_insert(k, v) /\ call' = <<"insert", k, v>>
    \/ \E k \in Names : hashmap_find(k) /\ call' = <<"find", k>>
    \/ \E k \in Names : hashmap_delete(k) /\ call' = <<"delete", k>>
    \/ hashmap_destroy /\ call' = <<"destroy">>

Spec == Init /\ [][Next]_vars

-----------------------------------------------------------------------------
TypeOK ==
    /\ buckets \in [0..(NBuckets - 1) -> Seq(Node)]
    /\ count \in Nat
    /\ ret \in Values \cup {"ok", "failed", "NULL"}

(* Every node is in the chain its key hashes to, no key is there twice,    *)
(* and the name in the entry is the key: a second insert found the first.  *)
ChainsSound ==
    \A b \in 0..(NBuckets - 1) : \A i \in DOMAIN buckets[b] :
        /\ Bucket(buckets[b][i].key) = b
        /\ buckets[b][i].name = buckets[b][i].key
        /\ \A j \in DOMAIN buckets[b] : buckets[b][i].key = buckets[b][j].key => i = j

Present == {k \in Names : \E i \in DOMAIN Chain(k) : Chain(k)[i].key = k}

(* The array list allocates from count is exactly filled, with each key    *)
(* once: it neither overruns the array nor returns garbage in it.          *)
ListFits ==
    /\ Len(hashmap_list) = count
    /\ {hashmap_list[i] : i \in DOMAIN hashmap_list} = Present
    /\ Cardinality(Present) = count

(* The map a table stands for. *)
Entry(k) == Chain(k)[CHOOSE i \in DOMAIN Chain(k) : Chain(k)[i].key = k].value
Map == [k \in Present |-> Entry(k)]

Abstract == INSTANCE NameMap WITH m <- Map

(* A table of chains is a map: insert, find, delete and destroy change and *)
(* return what they would on a function from names to entries, and count   *)
(* is its size, on which rmdir and the lazy loading of a folder rely.      *)
NameMapSpec == Abstract!Spec

(* What the comments on find and on _file_streq promise: the entry found   *)
(* under a name is the entry of that name.                                 *)
FindExact ==
    \A k \in Names : \A i \in DOMAIN Chain(k) : Hit(k, i) => Chain(k)[i].key = k

(* Two names that share a chain are told apart. *)
Exact == \A a, b \in Names : Bucket(a) = Bucket(b) /\ Match(a, b) => a = b
==============================================================================
