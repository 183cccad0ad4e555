----------------------------- MODULE MCJobStore -----------------------------
(* Instances of JobStore for TLC: two raw files of neighbouring days. *)
EXTENDS JobStore, TLC

CONSTANTS f1, f2

\* f1 is a day older than f2; with HotDays = 1 and today in 1..2, f2 turns from
\* hot to catchup while it may be queued.
MCFileDay == (f1 :> 0) @@ (f2 :> 1)
\* f1 has the last score of its day, so its first penalty meets the clamp at the
\* end of the day; f2 has the first of its day, so its penalty moves it.
MCTie == (f1 :> 3) @@ (f2 :> 0)

MCFileDay1 == (f1 :> 0)
MCTie1 == (f1 :> 1)

MCNoDay == [f \in {} |-> 0]
=============================================================================
