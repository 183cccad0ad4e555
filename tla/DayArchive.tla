---------------------------- MODULE DayArchive ----------------------------
(***************************************************************************)
(* The copies of one day's raw files and everything that adds or destroys  *)
(* one (dbload/lib/sync_timedb_archive_helpers.py, zstd_cli.py,            *)
(* sync_timedb_sealed_member_map.py, the delete loop of                    *)
(* sync_timedb_day_raw_removal.py and the append job of sync_timedb.py).   *)
(*                                                                         *)
(* A closed raw file is appended to the day's open tar; the tar is sealed  *)
(* into a compressed archive beside which a member map is kept; a raw file *)
(* is removed on the strength of that map, the open tar on the strength of *)
(* the sealed archive; a late file brings the tar back from the archive.   *)
(* Which of the day-close stages run, and when, is decided by the day's    *)
(* manifest: here every stage may run at any time, so nothing that is      *)
(* shown rests on their order.                                             *)
(*                                                                         *)
(* A closed file never changes, so an archive is the set of the files it   *)
(* holds.  An append under the lock is atomic (module TarAppend).  A       *)
(* process may be killed between any two steps.  A power loss also cuts    *)
(* short what was put in place without an fsync: a restored or merged tar, *)
(* which then holds some of its members (which ones depends on their order *)
(* in the tar and is left open), and the sealed archive, whose compressed  *)
(* stream can then not be read at all, and the member map, which then      *)
(* counts for nothing.  A cut file has another size and so another         *)
(* identity.  Renames and removals are taken to reach the disk in the      *)
(* order they were made, as a journaling file system keeps them.           *)
(***************************************************************************)
EXTENDS Integers, FiniteSets, Functions

CONSTANTS File,       \* the raw files of the day
          Size,       \* their sizes
          Appender,   \* workers of the append jobs
          Closer,     \* workers of the day-close jobs
          Mapper,     \* threads that rebuild member maps
          None,       \* no archive, no holder, nothing read
          MaxSeals,   \* bound: how often the day is sealed
          MaxKills,   \* bound: processes killed
          MaxLosses   \* bound: power losses

ASSUME SizeAssumption == Size \in [File -> Nat \ {0}]
ASSUME DayProcs ==
  /\ Appender \cap Closer = {} /\ Mapper \cap (Appender \cup Closer) = {}
  /\ None \notin Appender \cup Closer \cup Mapper
  /\ None \notin File
ASSUME DayBounds == MaxSeals \in Nat /\ MaxKills \in Nat /\ MaxLosses \in Nat

Proc == Appender \cup Closer \cup Mapper

VARIABLES raw,       \* raw files on disk
          made,      \* history: every raw file there ever was
          queue,     \* files with an append job queued
          tar,       \* the open tar, or None
          soft,      \* it was put in place without an fsync
          torn,      \* it was cut short and cannot be listed
          zst,       \* the sealed archive, or None
          zsoft,     \* it was put in place without an fsync
          ztorn,     \* it was cut short and cannot be read
          gone,      \* history: files that had a copy in the cut archive only
          map,       \* the sealed member map's document, or None
          verified,  \* manifest entries that are verified and not deleted
          lock,      \* the holder of the tar's write lock
          restorer,  \* the owner of the day's tar restore
          pc,        \* per process: its next step,
          job,       \*   the file of its append job,
          seen,      \*   what it read before,
          same,      \*   and whether the tar is still the one it sealed
          kills, losses

rawVars  == <<raw, made, queue, verified>>
tarVars  == <<tar, soft, torn, same>>
zstVars  == <<zst, zsoft, ztorn, gone, map>>
procVars == <<pc, job, seen>>
holders  == <<lock, restorer>>
faults   == <<kills, losses>>
vars == <<rawVars, tarVars, zstVars, procVars, holders, faults>>

Members(archive) == IF archive = None THEN {} ELSE archive
Sealed == IF zst = None THEN {} ELSE zst.mem
Bytes(archive) == SumFunctionOnSet(Size, archive)

\* sealed_members_lookup: the map counts only for the archive it was made of.
MapValid == map # None /\ zst # None /\ map.id = zst.id
Proven == IF MapValid THEN map.mem ELSE {}

\* The identity (inode, size, mtime) the next sealed archive will have.
NextId == IF zst = None THEN 1 ELSE zst.id + 1

Docs == [id : 1..(MaxSeals + MaxLosses), mem : SUBSET File]

ASSUME NoneAssumption == /\ \A fs \in SUBSET File : fs # None
                         /\ \A doc \in Docs : doc # None

Steps == {"idle", "restore", "decompress", "append", "seal", "compress",
          "map", "keep", "merge", "drop", "delete", "scanned", "checked"}

TypeOK ==
  /\ raw \subseteq made /\ made \subseteq File
  /\ queue \subseteq File /\ verified \subseteq File
  /\ tar \in (SUBSET File) \cup {None}
  /\ soft \in BOOLEAN /\ torn \in BOOLEAN
  /\ zst \in Docs \cup {None} /\ map \in Docs \cup {None}
  /\ zsoft \in BOOLEAN /\ ztorn \in BOOLEAN /\ gone \subseteq File
  /\ lock \in Proc \cup {None} /\ restorer \in Proc \cup {None}
  /\ pc \in [Proc -> Steps] /\ job \in [Appender -> File \cup {None}]
  /\ DOMAIN seen = Proc
  /\ \A p \in Proc : seen[p] \in {None} \cup
                       (IF p \in Mapper THEN Docs ELSE SUBSET File)
  /\ same \in [Closer -> BOOLEAN]
  /\ kills \in 0..MaxKills /\ losses \in 0..MaxLosses

Init ==
  /\ raw = {} /\ made = {} /\ queue = {} /\ verified = {}
  /\ tar = None /\ soft = FALSE /\ torn = FALSE
  /\ zst = None /\ map = None
  /\ zsoft = FALSE /\ ztorn = FALSE /\ gone = {}
  /\ lock = None /\ restorer = None
  /\ pc = [p \in Proc |-> "idle"] /\ job = [a \in Appender |-> None]
  /\ seen = [p \in Proc |-> None] /\ same = [c \in Closer |-> FALSE]
  /\ kills = 0 /\ losses = 0
-----------------------------------------------------------------------------
Goto(p, step) == pc' = [pc EXCEPT ![p] = step]
Read(p, what) == seen' = [seen EXCEPT ![p] = what]
Return(p) == Goto(p, "idle") /\ Read(p, None)

\* file_write_lock(tar_path) for one step, and a change of the tar under it.
Locked(p) == lock = None
SetTar(new, unsynced) ==
  /\ tar' = new
  /\ soft' = (new # None /\ unsynced)
  /\ torn' = FALSE
  /\ same' = [c \in Closer |-> FALSE]

Readable == tar # None /\ ~torn
ZstReadable == zst # None /\ ~ztorn
-----------------------------------------------------------------------------
(* The raw files.                                                          *)

\* A segment is closed, ingested and handed to the append queue; a removed
\* file may come back (its manifest entry then has another fingerprint).
Arrive(f) ==
  /\ f \notin raw
  /\ raw' = raw \cup {f} /\ made' = made \cup {f}
  /\ queue' = queue \cup {f} /\ verified' = verified \ {f}
  /\ gone' = gone \ {f}
  /\ UNCHANGED <<tarVars, zst, zsoft, ztorn, map, procVars, holders, faults>>

\* The day close hands closed raw that no queue holds to ingest again.
HandOff(f) ==
  /\ f \in raw \ queue
  /\ \A a \in Appender : job[a] # f
  /\ f \notin Members(tar) \cup Proven
  /\ queue' = queue \cup {f}
  /\ UNCHANGED <<raw, made, verified, tarVars, zstVars, procVars, holders,
                 faults>>
-----------------------------------------------------------------------------
(* The append job.                                                         *)

EndJob(p) ==
  /\ Return(p)
  /\ job' = [a \in Appender |-> IF a = p THEN None ELSE job[a]]

Lost_AnyJob(p) == IF p \in Appender THEN {job[p]} ELSE {}
Lost(p) == IF p \in Appender /\ job[p] # None THEN {job[p]} ELSE {}

\* A restore in progress, or no tar and a sealed archive that cannot be read:
\* the job is put back untouched.
StartAppend(a, f) ==
  /\ pc[a] = "idle"
  /\ f \in queue
  /\ restorer = None
  /\ ~torn
  /\ tar = None /\ zst # None => ZstReadable
  /\ queue' = queue \ {f}
  /\ IF f \in (IF tar = None THEN Sealed ELSE tar)
     THEN UNCHANGED procVars
     ELSE /\ Goto(a, IF tar = None /\ zst # None THEN "restore" ELSE "append")
          /\ job' = [job EXCEPT ![a] = f]
          /\ UNCHANGED seen
  /\ UNCHANGED <<raw, made, verified, tarVars, zstVars, holders, faults>>

\* _append_to_tar: never a new tar beside a sealed archive.
AppendFile(a) ==
  /\ pc[a] = "append"
  /\ Locked(a)
  /\ Readable \/ (tar = None /\ zst = None)
  /\ IF job[a] \in raw
     THEN SetTar(Members(tar) \cup {job[a]}, FALSE)
     ELSE UNCHANGED tarVars
  /\ EndJob(a)
  /\ UNCHANGED <<rawVars, zstVars, holders, faults>>

\* The job fails and is queued again.
FailAppend(a) ==
  /\ pc[a] = "append"
  /\ queue' = queue \cup Lost(a)
  /\ EndJob(a)
  /\ UNCHANGED <<raw, made, verified, tarVars, zstVars, holders, faults>>
-----------------------------------------------------------------------------
(* Restoring the tar: one owner per day, for an append or for a verify.    *)

\* A closer whose verify finds no tar asks for it first.
WantTar(c) ==
  /\ pc[c] = "idle"
  /\ tar = None /\ zst # None
  /\ Goto(c, "restore")
  /\ UNCHANGED <<rawVars, tarVars, zstVars, job, seen, holders, faults>>

AfterRestore(p) == IF p \in Appender THEN "append" ELSE "idle"

\* The tar is there after all (another owner restored it).
HaveTar(p) ==
  /\ pc[p] = "restore"
  /\ tar # None
  /\ Goto(p, AfterRestore(p))
  /\ UNCHANGED <<rawVars, tarVars, zstVars, job, seen, holders, faults>>

OwnRestore_Any(p) == TRUE
OwnRestore(p) == restorer = None

Decompress(p) ==
  /\ pc[p] = "restore"
  /\ OwnRestore(p)
  /\ tar = None /\ ZstReadable
  /\ restorer' = p
  /\ Goto(p, "decompress") /\ Read(p, zst.mem)
  /\ UNCHANGED <<rawVars, tarVars, zstVars, job, lock, faults>>

ReleaseRestore(p) == restorer' = IF restorer = p THEN None ELSE restorer

\* Whatever the name holds by now is replaced.
InstallTar(p) ==
  /\ pc[p] = "decompress"
  /\ Locked(p)
  /\ SetTar(seen[p], TRUE)
  /\ ReleaseRestore(p)
  /\ Goto(p, AfterRestore(p)) /\ Read(p, None)
  /\ UNCHANGED <<rawVars, zstVars, job, lock, faults>>

\* The restore gives up: the archive cannot be read, or the disk is full.
FailRestore(p) ==
  /\ pc[p] \in {"restore", "decompress"}
  /\ queue' = queue \cup Lost(p)
  /\ ReleaseRestore(p)
  /\ EndJob(p)
  /\ UNCHANGED <<raw, made, verified, tarVars, zstVars, lock, faults>>

\* salvage_truncated_tar_prefix: keep the members that are whole; with none
\* left, the sealed archive is restored, or the file is put aside.
Salvage ==
  /\ torn
  /\ tar = {} /\ zst # None => ZstReadable
  /\ lock = None
  /\ restorer = None
  /\ IF tar # {} THEN SetTar(tar, FALSE)
     ELSE IF zst # None THEN SetTar(zst.mem, TRUE)
     ELSE SetTar(None, FALSE)
  /\ UNCHANGED <<rawVars, zstVars, procVars, holders, faults>>
-----------------------------------------------------------------------------
(* The stages of a day close that touch the files.                         *)

\* _pre_seal_verify_body against the open tar; _verify_body against the
\* sealed archive.
VerifyRaw(c) ==
  /\ pc[c] = "idle"
  /\ \/ Readable /\ verified' = verified \cup (raw \cap tar)
     \/ ZstReadable /\ tar \in {None, zst.mem}
        /\ verified' = verified \cup (raw \cap zst.mem)
  /\ UNCHANGED <<raw, made, queue, tarVars, zstVars, procVars, holders,
                 faults>>

\* reconcile_open_tar_with_sealed_zst, divergent maps: the union is written
\* beside the tar from what both hold ...
Divergent == Readable /\ ZstReadable /\ ~(Sealed \subseteq tar)
MemberUnion == tar \cup Sealed
MergeRead(c) ==
  /\ pc[c] = "idle"
  /\ Divergent
  /\ Goto(c, "merge") /\ Read(c, MemberUnion)
  /\ UNCHANGED <<rawVars, tarVars, zstVars, job, holders, faults>>

\* ... and takes its place unless it has gained a name meanwhile.
MergeInstall(c) ==
  /\ pc[c] = "merge"
  /\ Locked(c)
  /\ IF Readable /\ tar \subseteq seen[c]
     THEN SetTar(seen[c], TRUE)
     ELSE UNCHANGED tarVars
  /\ Return(c)
  /\ UNCHANGED <<rawVars, zstVars, job, holders, faults>>

\* atomic_seal_tar_to_zst: what the sealed archive holds is read before the
\* lock is taken; a tar equal to it is not sealed again.
SealCheck(c) ==
  /\ pc[c] = "idle"
  /\ Readable
  /\ ZstReadable => tar # zst.mem
  /\ Goto(c, "seal")
  /\ Read(c, IF ZstReadable THEN zst.mem ELSE None)
  /\ UNCHANGED <<rawVars, tarVars, zstVars, job, holders, faults>>

SealRefused_Never(c) == FALSE
\* Refused when the archive has more members or more bytes than the tar; one
\* that cannot be read refuses nothing.
SealRefused(c) ==
  LET existing == IF ~ZstReadable THEN {}
                  ELSE IF seen[c] = None THEN zst.mem ELSE seen[c]
  IN \/ Cardinality(existing) > Cardinality(tar)
     \/ Bytes(existing) > Bytes(tar)

SealLock(c) ==
  /\ pc[c] = "seal"
  /\ Locked(c)
  /\ NextId <= MaxSeals
  /\ IF Readable /\ ~SealRefused(c)
     THEN Goto(c, "compress") /\ lock' = c /\ UNCHANGED seen
     ELSE Return(c) /\ UNCHANGED lock
  /\ UNCHANGED <<rawVars, tarVars, zstVars, job, restorer, faults>>

\* An archive that cannot be read is put aside first.  Neither the new file
\* nor its directory is synced.
SealReplace(c) ==
  /\ pc[c] = "compress"
  /\ zst' = [id |-> NextId, mem |-> tar]
  /\ zsoft' = TRUE /\ ztorn' = FALSE
  /\ Goto(c, "map")
  /\ UNCHANGED <<rawVars, tarVars, gone, map, job, seen, holders, faults>>

\* A map that cannot be written is only a warning.
SealMap(c) ==
  /\ pc[c] = "map"
  /\ map' \in {map, [id |-> zst.id, mem |-> tar]}
  /\ lock' = None
  /\ same' = [same EXCEPT ![c] = TRUE]
  /\ Goto(c, "keep") /\ Read(c, None)
  /\ UNCHANGED <<rawVars, tar, soft, torn, zst, zsoft, ztorn, gone, job,
                 restorer, faults>>

\* Kept by configuration, or because raw of the day remains.
SealKeepTar(c) ==
  /\ pc[c] = "keep"
  /\ Return(c)
  /\ UNCHANGED <<rawVars, tarVars, zstVars, job, holders, faults>>

\* DL-4: only the tar that was sealed is dropped.
Unchanged(c) == same[c]
SealDropTar(c) ==
  /\ pc[c] = "keep"
  /\ Locked(c)
  /\ IF Unchanged(c) THEN SetTar(None, FALSE) ELSE UNCHANGED tarVars
  /\ Return(c)
  /\ UNCHANGED <<rawVars, zstVars, job, holders, faults>>

\* remove_verified_uncompressed_daily_tars: the members are compared (a map
\* that does not prove them is rebuilt from the archive) ...
DropCheck(c) ==
  /\ pc[c] = "idle"
  /\ Readable /\ ZstReadable
  /\ tar = zst.mem
  /\ map' = IF MapValid THEN map ELSE zst
  /\ Goto(c, "drop")
  /\ UNCHANGED <<rawVars, tarVars, zst, zsoft, ztorn, gone, job, seen,
                 holders, faults>>

\* ... and the tar under the name is removed, whatever it holds by then.
DropTar(c) ==
  /\ pc[c] = "drop"
  /\ Locked(c)
  /\ SetTar(None, FALSE)
  /\ Goto(c, "idle")
  /\ UNCHANGED <<rawVars, zstVars, job, seen, holders, faults>>

\* _apply_batch_delete_body: the member map is read once for the batch.
DeleteLookup(c) ==
  /\ pc[c] = "idle"
  /\ MapValid
  /\ Goto(c, "delete") /\ Read(c, map.mem)
  /\ UNCHANGED <<rawVars, tarVars, zstVars, job, holders, faults>>

DeleteRaw_Verified(c, f) ==
  /\ pc[c] = "delete"
  /\ f \in verified
  /\ verified' = verified \ {f}
  /\ raw' = raw \ {f}
  /\ UNCHANGED <<made, queue, tarVars, zstVars, procVars, holders, faults>>

DeleteRaw(c, f) ==
  /\ pc[c] = "delete"
  /\ f \in verified
  /\ verified' = verified \ {f}
  /\ raw' = IF f \in seen[c] THEN raw \ {f} ELSE raw
  /\ UNCHANGED <<made, queue, tarVars, zstVars, procVars, holders, faults>>

DeleteEnd(c) ==
  /\ pc[c] = "delete"
  /\ Return(c)
  /\ UNCHANGED <<rawVars, tarVars, zstVars, job, holders, faults>>
-----------------------------------------------------------------------------
(* rebuild_sealed_member_map_sync, in its own thread: the archive is       *)
(* listed, its identity compared, the document written.                    *)

MapScan(r) ==
  /\ pc[r] = "idle"
  /\ ZstReadable /\ ~MapValid
  /\ Goto(r, "scanned") /\ Read(r, zst)
  /\ UNCHANGED <<rawVars, tarVars, zstVars, job, holders, faults>>

MapCheck(r) ==
  /\ pc[r] = "scanned"
  /\ IF zst.id = seen[r].id
     THEN Goto(r, "checked") /\ UNCHANGED seen
     ELSE Return(r)
  /\ UNCHANGED <<rawVars, tarVars, zstVars, job, holders, faults>>

MapWrite_LiveIdentity(r) ==
  /\ pc[r] = "checked"
  /\ map' = [id |-> zst.id, mem |-> seen[r].mem]
  /\ Return(r)
  /\ UNCHANGED <<rawVars, tarVars, zst, zsoft, ztorn, gone, job, holders,
                 faults>>

MapWrite(r) ==
  /\ pc[r] = "checked"
  /\ map' \in {map, seen[r]}
  /\ Return(r)
  /\ UNCHANGED <<rawVars, tarVars, zst, zsoft, ztorn, gone, job, holders,
                 faults>>
-----------------------------------------------------------------------------
(* Faults.                                                                 *)

\* A worker dies; the locks go with it and its job is queued again.
Kill(p) ==
  /\ kills < MaxKills
  /\ pc[p] # "idle"
  /\ kills' = kills + 1
  /\ lock' = IF lock = p THEN None ELSE lock
  /\ ReleaseRestore(p)
  /\ queue' = queue \cup Lost(p)
  /\ EndJob(p)
  /\ UNCHANGED <<raw, made, verified, tarVars, zstVars, losses>>

\* What was not synced may be whole or cut short after a power loss; what is
\* there after it is on disk.
CutTar ==
  /\ soft' = FALSE
  /\ \/ UNCHANGED <<tar, torn, same>>
     \/ /\ soft
        /\ \E left \in SUBSET tar : left # tar /\ tar' = left
        /\ torn' = TRUE
        /\ same' = [c \in Closer |-> FALSE]
CutZst ==
  /\ zsoft' = FALSE
  /\ \/ UNCHANGED <<zst, ztorn, gone>>
     \/ /\ zsoft
        /\ zst' = [id |-> NextId, mem |-> {}]
        /\ ztorn' = TRUE
        /\ gone' = gone \cup (zst.mem \ (raw \cup Members(tar')))

\* Everything dies, and what was not synced may be cut.
PowerLoss ==
  /\ losses < MaxLosses
  /\ losses' = losses + 1
  /\ CutTar /\ CutZst /\ map' \in {map, None}
  /\ lock' = None /\ restorer' = None
  /\ queue' = queue \cup UNION {Lost(p) : p \in Proc}
  /\ pc' = [p \in Proc |-> "idle"] /\ job' = [a \in Appender |-> None]
  /\ seen' = [p \in Proc |-> None]
  /\ UNCHANGED <<raw, made, verified, kills>>

Next ==
  \/ \E f \in File : Arrive(f) \/ HandOff(f)
  \/ \E a \in Appender : \/ \E f \in File : StartAppend(a, f)
                         \/ AppendFile(a)
                         \/ FailAppend(a)
  \/ \E p \in Appender \cup Closer : \/ HaveTar(p) \/ Decompress(p)
                                  \/ InstallTar(p) \/ FailRestore(p)
  \/ Salvage
  \/ \E c \in Closer :
       \/ WantTar(c) \/ VerifyRaw(c)
       \/ MergeRead(c) \/ MergeInstall(c)
       \/ SealCheck(c) \/ SealLock(c) \/ SealReplace(c) \/ SealMap(c)
       \/ SealKeepTar(c) \/ SealDropTar(c)
       \/ DropCheck(c) \/ DropTar(c)
       \/ DeleteLookup(c) \/ DeleteEnd(c)
       \/ \E f \in File : DeleteRaw(c, f)
  \/ \E r \in Mapper : MapScan(r) \/ MapCheck(r) \/ MapWrite(r)
  \/ \E p \in Proc : Kill(p)
  \/ PowerLoss

Spec == Init /\ [][Next]_vars
-----------------------------------------------------------------------------
(* Properties.                                                             *)

\* INV-COPY: at every instant every closed raw file there ever was exists as
\* the raw file, as a member of the sealed archive or in the open tar, except
\* for a file that was nowhere else when a power loss cut the sealed archive:
\* that is not synced before raw and tar are removed on the strength of it.
\* (The member map may lag behind: a rebuild that lost its race with a seal
\* writes the older document, which proves nothing until the next rebuild.)
InvCopy == made \ gone \subseteq raw \cup Sealed \cup Members(tar)

\* The document a raw file is removed on never misstates the archive it
\* names, however a rebuild, a seal and a kill interleave.
MapTruthful == MapValid => map.mem = zst.mem

\* While no power loss has cut it, an open tar holds all that is sealed, so
\* that sealing it again takes nothing away: restores have one owner, and no
\* append starts a tar beside a sealed archive.
TarCoversSealed == losses = 0 /\ tar # None => Sealed \subseteq tar

\* A seal never replaces the sealed archive by one that lacks a member; only a
\* power loss takes one away.
SealedKeepsMembers == [][losses' = losses => Sealed \subseteq Sealed']_zst
=============================================================================
