----------------------------- MODULE MCRamfsHash -----------------------------
(* Instances for TLC with the code's hash and comparison functions.  The   *)
(* names are "a", "q" and "Q", which share bucket 6, and "b".              *)
EXTENDS RamfsHash
LOCAL K == INSTANCE RamfsKeys

MCNames == {<<97>>, <<113>>, <<81>>, <<98>>}
MCBuckets == K!BucketSize
MCBucket(k) == K!hash(k)
FolderMatch(a, b) == K!streq(a, b)
FileMatch(a, b) == K!file_streq(a, b)
==============================================================================
