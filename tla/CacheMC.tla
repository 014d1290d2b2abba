------------------------------- MODULE CacheMC -------------------------------
(* Instances of FsCache for TLC *)
EXTENDS FsCache

CacheUsed    == {<<2, 2>>, <<2, 3>>}
CacheMayFail == {<<2, 3>>}
BufSymmetry  == Permutations(Bufs)
=============================================================================
