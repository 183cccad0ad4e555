---------------------------- MODULE MCDayClose ----------------------------
(* DayClose for TLC: three raw files, one of them late. *)
EXTENDS DayClose

CONSTANTS f1, f2, f3
=============================================================================
