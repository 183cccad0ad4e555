----------------------------- MODULE MCFileLock -----------------------------
(* Two writers, a reader and a sweep.                                      *)
EXTENDS FileLock, TLC

CONSTANTS w1, w2, r1, s1, i1, i2, i3, i4, i5
TwoWriters == {w1, w2}
OneReader == {r1}
OneSweeper == {s1}
Inodes == {i1, i2, i3, i4, i5}
Interchangeable == Permutations({w1, w2}) \cup Permutations(Inodes)
=============================================================================
