------------------------------ MODULE RamfsKeys ------------------------------
(***************************************************************************)
(* How the two name tables of a ramfs directory place and compare names.   *)
(* A name is the sequence of its character codes, without the final NUL.   *)
(***************************************************************************)
EXTENDS Integers, Sequences, SequencesExt

BucketSize == 16      \* RAMFS_HASH_BUCKET_SIZE, RAMFS_FILE_BUCKET_SIZE

(* djb2.  The table size divides 2^32, so reducing at every character      *)
(* gives what reducing the wrapped 32-bit sum gives.                       *)
hash(key) ==
    FoldLeft(LAMBDA h, ch : (33 * h + ch) % BucketSize, 5381 % BucketSize, key)

(* _streq, of the folder table, walks both names to the first difference   *)
(* or the first end, and asks whether both ended there.                    *)
streq(a, b) == Len(a) = Len(b) /\ \A i \in 1..Len(a) : a[i] = b[i]

(* The libc's memcmp: both of its tests ask whether a is smaller, so a     *)
(* larger character of a is passed over.                                   *)
memcmp(a, b, size) == IF \E i \in 1..size : a[i] < b[i] THEN -1 ELSE 0

(* _file_streq, of the file table. *)
file_streq(a, b) == Len(a) = Len(b) /\ memcmp(a, b, Len(a)) = 0
==============================================================================
