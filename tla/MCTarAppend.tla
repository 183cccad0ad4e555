--------------------------- MODULE MCTarAppend ---------------------------
(* The constants of the tar_append run are set in MCTarAppend.cfg.         *)
EXTENDS TarAppend

CONSTANTS m1, m2
MCMember == {m1, m2}
=============================================================================
