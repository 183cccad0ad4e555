---------------------------- MODULE MCWriteBehind ----------------------------
(* Instances of WriteBehind for TLC. *)
EXTENDS WriteBehind, TLC

CONSTANTS f1, f2
=============================================================================
