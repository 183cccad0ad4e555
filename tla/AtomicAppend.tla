--------------------------- MODULE AtomicAppend ---------------------------
(***************************************************************************)
(* What `clone_append' promises to the users of a daily archive            *)
(* (sync_timedb_tar_clone_append.py, module docstring): an append adds all *)
(* of its members or none; one that has returned is never undone, whatever *)
(* stops the machine; only an append whose caller has not been answered    *)
(* may disappear again, as a whole; and nothing else changes the archive   *)
(* but a holder of the lock that puts another file in its place.           *)
(***************************************************************************)
EXTENDS Naturals, Sequences, SequencesExt

CONSTANT Member         \* what a tar member holds: one raw file's content

VARIABLES archive,      \* the members of the daily archive, in order
          unanswered,   \* the last batch, until its caller is answered
          swaps         \* how often another file was put in its place
absVars == <<archive, unanswered, swaps>>

AbsInit == archive = << >> /\ unanswered = << >> /\ swaps = 0

\* A batch is added as a whole, behind what is there.
AddBatch == /\ IsPrefix(archive, archive')
            /\ archive' \in Seq(Member)
            /\ unanswered' = SubSeq(archive', Len(archive) + 1, Len(archive'))
            /\ UNCHANGED swaps

Settle == unanswered' = << >> /\ UNCHANGED <<archive, swaps>>

Undo == /\ unanswered # << >>
        /\ archive = archive' \o unanswered
        /\ unanswered' = << >>
        /\ UNCHANGED swaps

Swap == /\ archive' \in Seq(Member)
        /\ unanswered' = << >>
        /\ swaps' = swaps + 1

AbsNext == AddBatch \/ Settle \/ Undo \/ Swap

AbsSpec == AbsInit /\ [][AbsNext]_absVars

=============================================================================
