---------------------------- MODULE MCEntryStore ----------------------------
(* Instances of EntryStore for TLC. *)
EXTENDS EntryStore, TLC

CONSTANTS p1, p2, a, k1, k2

\* Processes, callers and keys are each interchangeable.
Interchangeable == Permutations(Procs) \cup Permutations(Callers) \cup Permutations(Keys)
=============================================================================
