-------------------------- MODULE MCStorageBinding --------------------------
(* StorageBinding with two threads, two keys, two seeds and a reboot.      *)
EXTENDS StorageBinding, TLC

CONSTANTS t1, t2, k1, k2, s1, s2
MCThreads == {t1, t2}
MCKeys == {k1, k2}
MCSeeds == {s1, s2}
MCSymmetry == Permutations(MCThreads) \cup Permutations(MCKeys) \cup Permutations(MCSeeds)
=============================================================================
