----------------------------- MODULE MCListend -----------------------------
(* Instances of Listend for TLC. *)
EXTENDS Listend, TLC

CONSTANTS c1, c2

=============================================================================
