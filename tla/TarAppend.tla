---------------------------- MODULE TarAppend ----------------------------
(***************************************************************************)
(* The journalled append to a daily tar                                    *)
(* (dbload/lib/sync_timedb_tar_clone_append.py): one write-lock holder at  *)
(* a time appends a batch or recovers; it may raise, be killed, or lose    *)
(* power between any two system calls.                                     *)
(*                                                                         *)
(* The tar is the sequence of its cells; offsets and sizes are numbers of  *)
(* cells.  A kill keeps the page cache.  A power loss keeps what was       *)
(* synced and, of what was not, anything: blocks of a member may be        *)
(* missing (Bad: readable, wrong bytes) or cut short (Torn).  Names (the   *)
(* journal, a new tar) are sure only after the directory fsync.            *)
(*                                                                         *)
(* The journal is replaced atomically, so a journal that cannot be parsed  *)
(* is not reachable and the branch that moves it aside is left out.        *)
(***************************************************************************)
EXTENDS Naturals, Sequences

CONSTANTS Member,     \* raw files, each standing for its content
          Bad, Torn,  \* cells that are not a whole member
          NoTar, NoJournal,
          MaxCells,   \* bound: cells a tar may reach
          MaxSwaps    \* bound: times another holder replaces the tar

ASSUME CellAssumption == /\ Bad \notin Member
                         /\ Torn \notin Member
                         /\ Bad # Torn
ASSUME BoundAssumption == MaxCells \in Nat /\ MaxSwaps \in Nat

VARIABLES tar,      \* the file under the tar's name, as processes read it
          synced,   \* nothing of it is waiting for an fsync
          safe,     \* its leading cells untouched since the last fsync
          high,     \* the most cells it had since the last fsync
          journal,  \* the journal file, as processes read it
          dirs,     \* the directory states a power loss may leave
          pc,       \* the lock holder's next step
          batch,    \* the members it appends; << >> when it only recovers
          wrote,    \* how many of them are in the tar
          end,      \* the old logical end it works from
          pend,     \* history: a batch that is visible, its caller unanswered
          swaps     \* history: how often the file was replaced

fileVars == <<tar, synced, safe, high>>
dirVars  == <<journal, dirs>>
procVars == <<pc, batch, wrote, end>>
vars == <<fileVars, dirVars, procVars, pend, swaps>>

Cell == Member \cup {Bad, Torn}
Batches == UNION {[1..n -> Member] : n \in 1..MaxCells}
Contents == {<< >>} \cup Batches

Tars == [ino : Nat, cells : Seq(Cell)]
Journals == [ino : Nat, end : Nat, hash : Seq(Cell)]
ASSUME NoneAssumption == NoTar \notin Tars /\ NoJournal \notin Journals
DirStates == [hasTar : BOOLEAN, journal : Journals \cup {NoJournal}]

Min2(a, b) == IF a < b THEN a ELSE b
Cut(s, n) == SubSeq(s, 1, n)

Steps == {"idle", "recover", "restore", "fsync", "unlink", "dirsync",
          "open", "journal", "jsync", "truncate", "header", "data", "commit"}

TypeOK ==
  /\ tar \in Tars \cup {NoTar}
  /\ journal \in Journals \cup {NoJournal}
  /\ dirs \subseteq DirStates
  /\ synced \in BOOLEAN /\ safe \in Nat /\ high \in Nat
  /\ pc \in Steps /\ batch \in Contents /\ wrote \in Nat /\ end \in Nat
  /\ pend \in Contents /\ swaps \in 0..MaxSwaps

Init == /\ tar = NoTar /\ synced = TRUE /\ safe = 0 /\ high = 0
        /\ journal = NoJournal
        /\ dirs = {[hasTar |-> FALSE, journal |-> NoJournal]}
        /\ pc = "idle" /\ batch = << >> /\ wrote = 0 /\ end = 0
        /\ pend = << >> /\ swaps = 0
-----------------------------------------------------------------------------
\* How the tar's content changes.
SetTar(cells) ==
  /\ tar' = [tar EXCEPT !.cells = cells]
  /\ synced' = FALSE
  /\ safe' = Min2(safe, Len(cells))
  /\ high' = IF Len(cells) > high THEN Len(cells) ELSE high

\* The directory after a step, and all that was done to it since its fsync:
\* the file system logs names in order, so a power loss leaves one of these.
DirNow(t, j) == [hasTar |-> t # NoTar, journal |-> j]
DirChange == dirs' = dirs \cup {DirNow(tar', journal')}
DirFsync == dirs' = {DirNow(tar', journal')}

\* A cell rewritten in place is no longer what was synced.
SetLast(cell) ==
  /\ tar' = [tar EXCEPT !.cells = Cut(@, Len(@) - 1) \o <<cell>>]
  /\ synced' = FALSE
  /\ safe' = Min2(safe, Len(tar.cells) - 1)
  /\ UNCHANGED high

Installed(ino, cells) ==
  /\ tar' = [ino |-> ino, cells |-> cells]
  /\ synced' = TRUE /\ safe' = Len(cells) /\ high' = Len(cells)

Goto(step) == pc' = step /\ UNCHANGED <<batch, wrote, end>>
Finish == pc' = "idle" /\ batch' = << >> /\ wrote' = 0 /\ end' = 0
\* After the journal is out of the way: on to the append, or done.
Continue == IF batch = << >> \/ wrote > 0 THEN Finish ELSE Goto("open")

\* The journal was written for this file and its old content is still there.
TailHash(cells, n) == IF n = 0 THEN << >> ELSE <<cells[n]>>
Matches(t, j) == /\ t # NoTar
                 /\ j # NoJournal
                 /\ t.ino = j.ino
                 /\ Len(t.cells) >= j.end
                 /\ TailHash(t.cells, j.end) = j.hash
-----------------------------------------------------------------------------
(* clone_append and the holders that only recover.                         *)

\* clone_append: the sources that could be opened; none is an empty answer.
Begin(b) ==
  /\ pc = "idle"
  /\ (IF tar = NoTar THEN 0 ELSE Len(tar.cells)) + Len(b) <= MaxCells
  /\ pc' = "recover" /\ batch' = b /\ wrote' = 0 /\ end' = 0
  /\ UNCHANGED <<fileVars, dirVars, pend, swaps>>

\* Startup, the scratch sweep, or any other holder before it reads the tar.
RecoverOnly ==
  /\ pc = "idle"
  /\ journal # NoJournal
  /\ pc' = "recover" /\ UNCHANGED <<batch, wrote, end>>
  /\ UNCHANGED <<fileVars, dirVars, pend, swaps>>

\* recover_interrupted_append: none, recovered, or orphan and stale.
ReadJournal ==
  /\ pc = "recover"
  /\ \/ /\ journal = NoJournal
        /\ Continue
     \/ /\ Matches(tar, journal)
        /\ pc' = "restore" /\ end' = journal.end
        /\ UNCHANGED <<batch, wrote>>
     \/ /\ journal # NoJournal /\ ~Matches(tar, journal)
        /\ Goto("unlink")
  /\ UNCHANGED <<fileVars, dirVars, pend, swaps>>

\* _restore_old_end: cut, then zeros up to the old size or two EOF blocks,
\* which no reader counts as a cell.
RestoreCut ==
  /\ pc = "restore"
  /\ SetTar(Cut(tar.cells, end))
  /\ Goto("fsync")
  /\ UNCHANGED <<dirVars, pend, swaps>>

Fsync(step) ==
  /\ pc = step
  /\ synced' = TRUE /\ safe' = Len(tar.cells) /\ high' = Len(tar.cells)
  /\ UNCHANGED <<tar, dirVars, pend, swaps>>

RestoreFsync == Fsync("fsync") /\ Goto("unlink")

\* _remove_durable: unlink; in an append that wrote, the commit point.
Unlink ==
  /\ pc = "unlink"
  /\ journal' = NoJournal
  /\ pend' = IF wrote > 0 /\ wrote = Len(batch) THEN batch ELSE pend
  /\ Goto("dirsync")
  /\ UNCHANGED <<fileVars, swaps>>
  /\ DirChange

\* The directory fsync, and on: to the open, or to the caller.
DirSync ==
  /\ pc = "dirsync"
  /\ pend' = << >>
  /\ Continue
  /\ UNCHANGED <<fileVars, journal, swaps>>
  /\ DirFsync

\* _create_new_tar: a synced temp file linked into place.
Create_Replaces ==
  /\ pc = "open"
  /\ Installed(swaps, batch)
  /\ pend' = batch
  /\ pc' = "dirsync" /\ wrote' = Len(batch) /\ UNCHANGED <<batch, end>>
  /\ UNCHANGED <<journal, swaps>>
  /\ DirChange
Create ==
  /\ pc = "open" /\ tar = NoTar
  /\ Installed(swaps, batch)
  /\ pend' = batch
  /\ pc' = "dirsync" /\ wrote' = Len(batch) /\ UNCHANGED <<batch, end>>
  /\ UNCHANGED <<journal, swaps>>
  /\ DirChange

\* logical_end and the tail hash; the journal's temp file is not seen yet.
Open_OneShort ==
  /\ pc = "open" /\ tar # NoTar
  /\ pc' = "journal" /\ end' = Len(tar.cells) - 1 /\ UNCHANGED <<batch, wrote>>
  /\ UNCHANGED <<fileVars, dirVars, pend, swaps>>
Open ==
  /\ pc = "open" /\ tar # NoTar
  /\ pc' = "journal" /\ end' = Len(tar.cells) /\ UNCHANGED <<batch, wrote>>
  /\ UNCHANGED <<fileVars, dirVars, pend, swaps>>

\* _write_durable: replace, then the directory fsync.
WriteJournal ==
  /\ pc = "journal"
  /\ journal' = [ino |-> tar.ino, end |-> end, hash |-> TailHash(tar.cells, end)]
  /\ Goto("jsync")
  /\ UNCHANGED <<fileVars, pend, swaps>>
  /\ DirChange

SyncJournal ==
  /\ pc = "jsync"
  /\ pend' = << >>
  /\ Goto("truncate")
  /\ UNCHANGED <<fileVars, journal, swaps>>
  /\ DirFsync

\* The record padding past the logical end goes first.
Truncate ==
  /\ pc = "truncate"
  /\ SetTar(Cut(tar.cells, end))
  /\ Goto("header")
  /\ UNCHANGED <<dirVars, pend, swaps>>

\* _write_members: header, then the data; after the last one the EOF blocks.
WriteHeader ==
  /\ pc = "header" /\ wrote < Len(batch)
  /\ SetTar(Append(tar.cells, Torn))
  /\ Goto("data")
  /\ UNCHANGED <<dirVars, pend, swaps>>

WriteData ==
  /\ pc = "data"
  /\ SetLast(batch[wrote + 1])
  /\ pc' = "header" /\ wrote' = wrote + 1 /\ UNCHANGED <<batch, end>>
  /\ UNCHANGED <<dirVars, pend, swaps>>

WriteEof ==
  /\ pc = "header" /\ wrote = Len(batch)
  /\ SetTar(tar.cells)
  /\ Goto("commit")
  /\ UNCHANGED <<dirVars, pend, swaps>>

CommitFsync_None == /\ pc = "commit"
                    /\ Goto("unlink")
                    /\ UNCHANGED <<fileVars, dirVars, pend, swaps>>
CommitFsync == Fsync("commit") /\ Goto("unlink")

\* Any exception after the journal is on disk rolls the append back.
Raise ==
  /\ pc \in {"truncate", "header", "data", "commit"}
  /\ pc' = "restore" /\ batch' = << >> /\ wrote' = 0 /\ end' = end
  /\ UNCHANGED <<fileVars, dirVars, pend, swaps>>
-----------------------------------------------------------------------------
(* The environment.                                                        *)

\* The process is killed, or an exception leaves it outside of the rollback.
Kill ==
  /\ pc # "idle"
  /\ Finish
  /\ UNCHANGED <<fileVars, dirVars, pend, swaps>>

\* What a power loss may leave under the tar's name and the journal's.
Tails == {s \in UNION {[1..n -> Cell] : n \in 0..high - safe} :
            \A i \in 1..Len(s) - 1 : s[i] # Torn}

TarOutcomes ==
  IF synced THEN {tar}
  ELSE {[ino |-> tar.ino, cells |-> Cut(tar.cells, safe) \o s] : s \in Tails}

Outcomes == UNION {IF d.hasTar
                     THEN {[tar |-> t, journal |-> d.journal] : t \in TarOutcomes}
                     ELSE {[tar |-> NoTar, journal |-> d.journal]} : d \in dirs}

PowerLoss ==
  /\ \E o \in Outcomes :
       LET n == IF o.tar = NoTar THEN 0 ELSE Len(o.tar.cells)
       IN tar' = o.tar /\ journal' = o.journal /\ safe' = n /\ high' = n
  /\ synced' = TRUE
  /\ DirFsync
  /\ Finish
  /\ pend' = << >>
  /\ UNCHANGED swaps

\* Another holder of the lock puts a new, synced file under the name or takes
\* the tar away, with whatever journal is left beside it.
Swap ==
  /\ pc = "idle" /\ swaps < MaxSwaps
  /\ swaps' = swaps + 1
  /\ \/ \E s \in Contents : Installed(swaps + 1, s)
     \/ /\ tar # NoTar
        /\ tar' = NoTar /\ synced' = TRUE /\ safe' = 0 /\ high' = 0
  /\ pend' = << >>
  /\ UNCHANGED <<journal, procVars>>
  /\ DirFsync
-----------------------------------------------------------------------------
Next == \/ \E b \in Batches : Begin(b)
        \/ RecoverOnly \/ ReadJournal \/ RestoreCut
        \/ RestoreFsync \/ Unlink \/ DirSync \/ Create \/ Open
        \/ WriteJournal \/ SyncJournal \/ Truncate \/ WriteHeader \/ WriteData
        \/ WriteEof \/ CommitFsync \/ Raise
        \/ Kill \/ PowerLoss \/ Swap

Spec == Init /\ [][Next]_vars
-----------------------------------------------------------------------------
\* What recovery is to make of a tar and the journal beside it: the members
\* before the append the journal was written for.
Recovered(t, j) ==
  IF t = NoTar THEN << >>
  ELSE IF j # NoJournal /\ t.ino = j.ino THEN Cut(t.cells, j.end)
  ELSE t.cells

\* Whatever a power loss makes of the unsynced tar and of the unsynced names,
\* recovery gives back the archive as it was, at most without the batch whose
\* caller has not been answered.
PowerLossSafe ==
  \A o \in Outcomes :
    \/ Recovered(o.tar, o.journal) = Recovered(tar, journal)
    \/ /\ pend # << >>
       /\ Recovered(o.tar, o.journal) \o pend = Recovered(tar, journal)

\* The detailed append implements the atomic one.
Abstract == INSTANCE AtomicAppend WITH archive <- Recovered(tar, journal),
                                       unanswered <- pend
AtomicAppendSpec == Abstract!AbsInit /\ [][Abstract!AbsNext]_(Abstract!absVars)
=============================================================================
