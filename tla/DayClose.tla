----------------------------- MODULE DayClose -----------------------------
(***************************************************************************)
(* Closing one day of the archive: _run_day_close_job of                   *)
(* sync_timedb_queue_orchestrator.py, the manifest of                      *)
(* sync_timedb_day_raw_removal.py that remembers which raw files were      *)
(* verified and deleted, its background verify thread, and the ingest,     *)
(* append and discover jobs that go on beside it.                          *)
(*                                                                         *)
(* The job is a chain of stages.  Every stage is one step, so anything may *)
(* happen between two of them; the two verifies, which read first and      *)
(* record much later, are two steps each.  What a seal, a merge or a drop  *)
(* of the tar does inside is the subject of DayArchive: here an archive is *)
(* the set of its members.                                                 *)
(*                                                                         *)
(* Left out: quarantined, active and changed raw files (none is in this    *)
(* caller's lists), a deleted path that comes back (the ghost retries),    *)
(* the census memo of one pass, dead letters, max_deletes, the reverify    *)
(* counter (it counts reopened manifests, and DoneHoldsNoRaw says there    *)
(* are none) and the reseal after a delete that left a tar but no sealed   *)
(* archive (a raw file is only deleted when there is one).                 *)
(* The day is past its minimum age, and discover holds no claim back.      *)
(* archive_keep_uncompressed_tar is off, sync_archive_require_db_ingest is *)
(* on.                                                                     *)
(***************************************************************************)
EXTENDS Naturals, FiniteSets

CONSTANTS File,        \* the raw files of the day
          Late,        \* those that are closed only while the day closes
          None,        \* no archive, no manifest, no thread
          BatchSize,   \* raw paths classified per pre-seal pass
          MaxFaults,   \* bound: failed seals, busy seal slots, held raw files
          MaxCrashes   \* bound: restarts of the process

ASSUME LateAssumption == IsFiniteSet(File) /\ Late \subseteq File
ASSUME NoneAssumption == \A archive \in SUBSET File : archive # None
ASSUME BatchAssumption == BatchSize \in Nat \ {0}
ASSUME BoundAssumption == MaxFaults \in Nat /\ MaxCrashes \in Nat

VARIABLES day,      \* what the handlers of the day share (see Day)
          job,      \* the day-close job: its stage and its local variables
          queued,   \* the day-close job is queued or claimed
          boot,     \* _BOOT_FULL_DISCOVER_PENDING
          made,     \* history: the raw files there ever were
          faults, crashes

vars == <<day, job, queued, boot, made, faults, crashes>>

Phases == {"verifying", "complete", "deleting", "done"}
Status == {"none", "verified", "deleted", "not_ingested", "not_archived",
           "seal_invalid"}
Archives == (SUBSET File) \cup {None}

\* A manifest: phase, verify_stage, the entries' statuses, whether the tar is
\* still the one of verified_tar_identity, and pre_seal_classify_paths from
\* the cursor on.
Manifests == [phase : Phases, stage : {"none", "pre", "post"},
              ent : [File -> Status], id : {"none", "same", "other"},
              todo : Archives]

\* A verify thread before and after its census of the raw files.
Threads == [census : Archives]

Stages == {"idle", "wait1", "pre1", "record1", "wait2", "merge", "pre2",
           "record2", "wait3", "notar", "release", "gate", "seal", "post",
           "delete", "drop"}

\* The day: raw files on disk and in the database, open and sealed archive,
\* the manifest on disk; the manifest in the job's coordinator and its verify
\* thread; the thread a finished job left behind, with its own manifest.
TypeOK ==
  /\ day.raw \subseteq made /\ made \subseteq File
  /\ day.ingested \subseteq made
  /\ day.tar \in Archives /\ day.zst \in Archives
  /\ day.ingestQ \subseteq made /\ day.appendQ \subseteq made
  /\ day.doc \in Manifests \cup {None}
  /\ day.man \in Manifests
  /\ day.pipe \in Threads \cup {None}
  /\ day.orphan \in [census : Archives, man : Manifests] \cup {None}
  /\ job.at \in Stages /\ job.skip \in BOOLEAN /\ job.ok \in BOOLEAN
  /\ job.mem \in Archives /\ job.list \subseteq made /\ job.remains \in BOOLEAN
  /\ queued \in BOOLEAN /\ boot \in BOOLEAN
  /\ faults \in 0..MaxFaults /\ crashes \in 0..MaxCrashes

NewManifest == [phase |-> "verifying", stage |-> "none",
                ent |-> [f \in File |-> "none"], id |-> "none", todo |-> None]
Load(doc) == IF doc = None THEN NewManifest ELSE doc

NoJob == [at |-> "idle", skip |-> FALSE, mem |-> None, list |-> {},
          ok |-> FALSE, remains |-> FALSE]

Init ==
  /\ made = File \ Late
  /\ day = [raw |-> made, ingested |-> {}, tar |-> None, zst |-> None,
            ingestQ |-> {}, appendQ |-> {}, doc |-> None,
            man |-> NewManifest, pipe |-> None, orphan |-> None]
  /\ job = NoJob /\ queued = FALSE /\ boot = TRUE
  /\ faults = 0 /\ crashes = 0
-----------------------------------------------------------------------------
(* Archives and queues. *)

Members(archive) == IF archive = None THEN {} ELSE archive

\* append_is_complete: the open tar answers when there is one.
Archived(d) == IF d.tar = None THEN Members(d.zst) ELSE d.tar

\* validate_sealed_daily_archive_for_raw_removal.
Parity(d) == d.zst # None /\ d.tar \in {None, d.zst}

\* Any new tar has another identity than the one a manifest remembers.
Moved(m) == IF m.id = "same" THEN [m EXCEPT !.id = "other"] ELSE m
SetTar(d, tar) ==
  IF tar = d.tar THEN d
  ELSE [d EXCEPT !.tar = tar, !.man = Moved(@),
          !.doc = IF @ = None THEN None ELSE Moved(@),
          !.orphan = IF @ = None THEN None
                     ELSE [census |-> @.census, man |-> Moved(@.man)]]

\* ensure_daily_tar_restored_for_append.
Restored(d) == IF d.tar = None THEN SetTar(d, d.zst) ELSE d

\* _handoff_retryable_paths_to_ingest and the discover walk: what is not in
\* the database goes to ingest, what is in no archive to append.
Hand(d, paths) ==
  [d EXCEPT !.ingestQ = @ \cup (paths \ d.ingested),
            !.appendQ = @ \cup ((paths \cap d.ingested) \ Archived(d))]

\* _day_close_append_or_hot_active.
Active(d) == d.appendQ # {} \/ d.ingestQ # {}
-----------------------------------------------------------------------------
(* What the manifest says of the raw files on disk. *)

VerificationComplete(m) == m.phase \in {"complete", "deleting", "done"}
PreSealComplete(m) == m.stage \in {"pre", "post"} \/ VerificationComplete(m)

With(d, s) == {f \in d.raw : d.man.ent[f] \in s}
Blocking(d) == With(d, Status \ {"none", "deleted"})
Retryable(d) == With(d, {"not_ingested", "not_archived"})
Pending(m) == {f \in File : m.ent[f] = "verified"}

\* Once verified, only raw files with an entry count; before, all do.  This
\* is _closed_raw_paths_on_disk, _has_closed_raw_existing_on_disk,
\* _remaining_raw_paths_blocking_tar_drop and _all_closed_raw_terminal_or_gone.
ClosedRaw(d) == IF VerificationComplete(d.man) THEN Blocking(d) ELSE d.raw

OnlyWaiting(d) == ClosedRaw(d) # {} /\ ClosedRaw(d) \subseteq Retryable(d)
ShouldHandoff(d) == VerificationComplete(d.man) /\ OnlyWaiting(d)
HandoffPaths(d) == IF VerificationComplete(d.man) THEN Retryable(d)
                   ELSE Retryable(d) \cup With(d, {"none"})

\* day_close_filesystem_complete, from the manifest on disk.
FilesystemComplete(d) ==
  /\ d.tar = None /\ d.zst # None
  /\ ClosedRaw([d EXCEPT !.man = Load(d.doc)]) = {}
-----------------------------------------------------------------------------
(* Changes of the manifest. *)

Keep(d, m) == [d EXCEPT !.man = m]
Save(d, m) == [d EXCEPT !.man = m, !.doc = m]
Phase(d, phase) == Save(d, [d.man EXCEPT !.phase = phase])

\* Every lookup of the day: reopen_verify_if_tar_grew_since_verify.
Look(d) ==
  IF d.man.id = "other" /\ d.tar # None /\ VerificationComplete(d.man)
  THEN Save(d, [d.man EXCEPT !.phase = "verifying", !.stage = "none",
                             !.id = "none", !.todo = None])
  ELSE d

\* reopen_done_with_blocking_raw_on_disk, by the lookup that creates the day.
ReopenDone(d) ==
  IF d.man.phase = "done" /\ Blocking(d) # {}
  THEN Save(d, [d.man EXCEPT !.phase = "complete",
                             !.stage = IF @ = "post" THEN "pre" ELSE @])
  ELSE d

\* classify_removable_raw_paths_for_members.
Classified_Renamed(d, members, f) == IF f \notin d.ingested
                                     THEN "not_head_ingested"
                                     ELSE IF f \in members THEN "verified"
                                     ELSE "not_archived"
Classified(d, members, f) == IF f \notin d.ingested THEN "not_ingested"
                             ELSE IF f \in members THEN "verified"
                             ELSE "not_archived"

\* _record_entry: a verified entry is never changed by it.
Record(m, status) ==
  [m EXCEPT !.ent = [f \in File |->
     IF f \in DOMAIN status /\ @[f] \notin {"verified", "deleted"}
     THEN status[f] ELSE @[f]]]

\* _reclassify_retryable_skips_on_disk: upgrades to verified, and an entry
\* that waited for a valid seal gets its present status.
Reclassify(d) ==
  LET todo == {f \in Blocking(d) : d.man.ent[f] # "verified"}
      status == [f \in todo |-> Classified(d, Archived(d), f)]
      new == {f \in todo : \/ status[f] = "verified"
                           \/ d.man.ent[f] = "seal_invalid"}
  IN IF /\ VerificationComplete(d.man) /\ new # {}
        /\ d.tar # None \/ d.zst # None
     THEN Save(d, Record(d.man, [f \in new |-> status[f]]))
     ELSE d
Upgraded(d) == Reclassify(d) # d

BeginDeleting(d) ==
  IF \/ d.man.phase = "complete"
     \/ d.man.phase = "done" /\ (Pending(d.man) # {} \/ Blocking(d) # {})
  THEN Phase(d, "deleting") ELSE d

\* reopen_delete_phase_if_verified_on_disk.
ReopenPending(d) ==
  IF d.man.phase = "done" /\ Pending(d.man) # {}
  THEN Phase(d, "deleting") ELSE d

\* A handoff fails for some paths, or for the batch: they stay for the next.
Handoff(d, held) == Hand(d, HandoffPaths(d) \ held)

\* complete_handoff_to_ingest.  _mark_done_waiting_on_ingest never writes
\* "done" here: a path that is handed off is an entry that blocks.
CompleteHandoff(d, held) == IF ShouldHandoff(d) THEN Handoff(d, held) ELSE d

\* _needs_retry_after_ingest and _reset_for_reverify.
Reverify(d) == IF d.man.phase = "done" /\ Retryable(d) # {}
               THEN Save(d, NewManifest) ELSE d

StartVerify(d) ==
  LET fresh == Reverify(d)
  IN IF VerificationComplete(fresh.man) \/ fresh.pipe # None THEN fresh
     ELSE [fresh EXCEPT !.pipe = [census |-> None]]
-----------------------------------------------------------------------------
(* Deleting raw files. *)

Deletable_Verified(d, held) == (Pending(d.man) \cap d.raw) \ held
\* INV-COPY: a raw file goes only when the sealed archive holds it; one that
\* another holder has locked stays for the next pass.
Deletable(d, held) ==
  IF d.zst = None THEN {} ELSE (Pending(d.man) \cap d.raw \cap d.zst) \ held

\* The loop of _apply_batch_delete_body.
DeleteFiles(d, held) ==
  LET gone == Deletable(d, held)
      entry(f) ==
        IF f \notin Pending(d.man) THEN d.man.ent[f]
        ELSE IF f \in gone \/ f \notin d.raw THEN "deleted"
        ELSE IF d.zst # None /\ f \notin d.zst THEN "not_archived"
        ELSE "verified"
  IN [d EXCEPT !.raw = @ \ gone,
               !.man.phase = "deleting",
               !.man.ent = [f \in File |-> entry(f)]]

FinishDelete_Early(d) == Phase(IF Parity(d) THEN SetTar(d, None) ELSE d, "done")
\* Its completion: the day is done when no entry is left on disk.  A manifest
\* that only waits on ingest is not saved.
FinishDelete(d) ==
  IF Pending(d.man) # {} THEN Save(d, d.man)
  ELSE IF ClosedRaw(d) = {}
       THEN Phase(IF Parity(d) THEN SetTar(d, None) ELSE d, "done")
  ELSE IF OnlyWaiting(d) THEN d
  ELSE Phase(d, "complete")

\* DayRawRemovalCoordinator.apply_batch_delete.
BatchDelete(d0, held) ==
  LET d1 == Reclassify(ReopenPending(Look(d0)))
      d2 == IF d1.man.phase \in {"complete", "deleting"}
            THEN FinishDelete(DeleteFiles(d1, held)) ELSE d1
  IN IF ShouldHandoff(d2) THEN CompleteHandoff(d2, held)
     ELSE IF d2.man.phase = "verifying" THEN StartVerify(d2)
     ELSE d2

\* A batch delete that is cut off: what it was to save is lost.
CutDelete(d0, held) ==
  LET d == Reclassify(ReopenPending(Look(d0)))
  IN IF d.man.phase \in {"complete", "deleting"}
     THEN [d EXCEPT !.raw = @ \ Deletable(d, held)] ELSE d
-----------------------------------------------------------------------------
(* Raw files that keep the day open. *)

\* kick_closed_raw_unblock, phase done with entries still on disk.
KickDone(d, held) ==
  IF ~(Blocking(d) \subseteq Retryable(d)) THEN BeginDeleting(d)
  ELSE IF Upgraded(d) THEN BeginDeleting(Reclassify(d))
  ELSE Handoff(d, held)

Kick(d0, held) ==
  LET d == Look(d0)
  IN IF d.man.phase = "done" /\ Pending(d.man) # {} THEN ReopenPending(d)
     ELSE IF d.man.phase = "done" /\ Blocking(d) # {} THEN KickDone(d, held)
     ELSE IF ~VerificationComplete(d.man) THEN StartVerify(d)
     ELSE IF Pending(d.man) # {} THEN BeginDeleting(d)
     ELSE IF Upgraded(d) THEN BatchDelete(BeginDeleting(Reclassify(d)), held)
     ELSE IF ShouldHandoff(d) THEN CompleteHandoff(d, held)
     ELSE IF ClosedRaw(d) = {} THEN d
     ELSE IF HandoffPaths(d) # {} THEN Handoff(d, held)
     ELSE BeginDeleting(d)

\* requeue_closed_raw_paths_for_ingest.
Requeue(d0, held) ==
  LET d == Look(d0)
  IN IF HandoffPaths(d) # {} THEN Handoff(d, held) ELSE Kick(d, held)

\* _day_close_disk_remaining_raw_blocks.
DiskBlocks(d) == \/ d.man.phase = "verifying"
                 \/ d.man.phase # "done" /\ Pending(d.man) # {}

\* _day_close_complete_wait_on_ingest_handoff.
CompleteWait(d, held) ==
  Kick(IF DiskBlocks(d) THEN d
       ELSE IF ShouldHandoff(d) THEN CompleteHandoff(d, held)
       ELSE Requeue(d, held), held)
-----------------------------------------------------------------------------
(* The verify thread: _verify_pipeline_body and _verify_body. *)

ThreadCensus(d, held) ==
  LET fresh == Reverify(d)
  IN IF fresh.man.phase = "done" THEN [fresh EXCEPT !.pipe = None]
     ELSE IF VerificationComplete(fresh.man)
     THEN [CompleteHandoff(Look(fresh), held) EXCEPT !.pipe = None]
     ELSE [fresh EXCEPT !.pipe = [census |-> fresh.raw]]

\* It completes the verification whatever the phase is by then, and leaves
\* verified_tar_identity as it is.
ThreadRecord(d, held) ==
  LET status == [f \in d.pipe.census \cap d.raw |->
                   IF Parity(d) THEN Classified(d, d.zst, f)
                   ELSE "seal_invalid"]
      verified == Save(d, [Record(d.man, status) EXCEPT !.phase = "complete"])
  IN [CompleteHandoff(Look(verified), held) EXCEPT !.pipe = None]

ThreadStep(d, held) == IF d.pipe.census = None THEN ThreadCensus(d, held)
                       ELSE ThreadRecord(d, held)

\* The thread of a finished job's coordinator works on its own manifest.
OrphanStep(d, held) ==
  LET own == ThreadStep([d EXCEPT !.man = d.orphan.man,
                                  !.pipe = [census |-> d.orphan.census]],
                       held)
  IN [own EXCEPT !.man = d.man, !.pipe = d.pipe,
        !.orphan = IF own.pipe = None THEN None
                   ELSE [census |-> own.pipe.census, man |-> own.man]]
-----------------------------------------------------------------------------
(* The stages of _run_day_close_job. *)

Goto(stage) == job' = [job EXCEPT !.at = stage]
Quiet == UNCHANGED <<queued, boot, made, faults, crashes>>
Fault(n) == faults + n <= MaxFaults /\ faults' = faults + n

\* One fault: the raw files that a pass finds locked (try_file_write_lock) or
\* cannot hand on (the handoff is deferred, or the enqueue raises).
Held(held) == held \subseteq day.raw /\ Fault(IF held = {} THEN 0 ELSE 1)
Holding(held) ==
  /\ Held(held)
  /\ UNCHANGED <<queued, boot, made, crashes>>

\* The job returns; its verify thread, if it still runs, is left behind.
\* Bound: one such thread at a time.
Left(d) == [d EXCEPT !.man = NewManifest, !.pipe = None,
              !.orphan = IF d.pipe = None THEN @
                         ELSE [census |-> d.pipe.census, man |-> d.man]]
Return(d, complete) ==
  /\ d.pipe = None \/ d.orphan = None
  /\ day' = Left(d)
  /\ job' = NoJob
  /\ queued' = ~complete
Yield(d) == Return(d, FALSE) /\ UNCHANGED <<boot, made, faults, crashes>>

\* A claim while ingest of the day is active yields at once: no change.  A
\* day that is complete has its manifest closed (DE-24).
CloseComplete ==
  /\ job.at = "idle" /\ queued /\ day.ingestQ = {}
  /\ FilesystemComplete(day)
  /\ day' = [day EXCEPT !.doc = IF @ = None THEN None
                                ELSE [@ EXCEPT !.phase = "done"]]
  /\ queued' = FALSE
  /\ UNCHANGED <<job, boot, made, faults, crashes>>

\* A new coordinator reads the manifest from disk.
Open ==
  /\ job.at = "idle" /\ queued /\ day.ingestQ = {}
  /\ ~FilesystemComplete(day)
  /\ LET d == Keep(day, Load(day.doc))
     IN day' = IF Look(d) # d THEN Look(d) ELSE ReopenDone(d)
  /\ Goto(IF day.tar # None THEN "wait1" ELSE "notar")
  /\ Quiet

\* A job that has found raw remaining skips the merge.
After(stage, skip) ==
  CASE stage = "wait1" -> "pre1"
    [] stage = "wait2" -> IF skip THEN "release" ELSE "merge"
    [] stage = "wait3" -> "release"
Advance(skip) == job' = [job EXCEPT !.at = After(@, skip), !.skip = skip]

\* _wait_on_ingest_or_advance: nothing to wait for, or a closed day whose tar
\* is to be reclaimed.
Waits == {"wait1", "wait2", "wait3"}
PhaseDoneSealed(d) == d.man.phase = "done" /\ d.zst # None
WaitOver ==
  LET d == Look(day)
  IN /\ job.at \in Waits
     /\ PhaseDoneSealed(d) \/ ~(DiskBlocks(d) \/ ShouldHandoff(d))
     /\ day' = d
     /\ Advance(job.skip \/ PhaseDoneSealed(d))
     /\ Quiet

\* Whether append or ingest is active is asked before the handoff, which may
\* make it so.
Wait(held) ==
  LET d == Look(day)
  IN /\ job.at \in Waits
     /\ ~PhaseDoneSealed(d)
     /\ DiskBlocks(d) \/ ShouldHandoff(d)
     /\ Held(held)
     /\ IF Active(d)
        THEN Return(CompleteWait(d, held), FALSE)
        ELSE day' = CompleteWait(d, held) /\ Advance(TRUE) /\ UNCHANGED queued
     /\ UNCHANGED <<boot, made, crashes>>

\* _pre_seal_verify_body: the members of the open tar and the paths to
\* classify are read ...
PreSealRead ==
  LET d == Look(day)
      r == Restored(d)
      known == Blocking(r) \cup (r.raw \cap Members(r.tar))
      list == IF r.man.todo # None THEN r.man.todo
              ELSE IF known # {} THEN known ELSE r.raw
  IN /\ job.at \in {"pre1", "pre2"}
     /\ IF PreSealComplete(d.man)
        THEN /\ day' = d
             /\ Goto(IF job.at = "pre1" THEN "wait2" ELSE "wait3")
             /\ Quiet
        ELSE IF r.tar \in {None, {}}
        THEN Yield(Keep(r, [r.man EXCEPT !.phase = "verifying"]))
        ELSE /\ day' = Save(r, [r.man EXCEPT !.phase = "verifying",
                       !.todo = IF list = {} THEN @ ELSE list])
             /\ job' = [job EXCEPT !.mem = r.tar, !.list = list,
                          !.at = IF @ = "pre1" THEN "record1" ELSE "record2"]
             /\ Quiet

\* verified_tar_identity: taken when the last batch has been recorded.
RecordedTar == IF day.tar = None THEN "none" ELSE "same"

\* ... and one batch is recorded; the rest waits for the next claim.
Recorded(batch) ==
  [Record(day.man, [f \in batch |-> Classified(day, job.mem, f)])
     EXCEPT !.todo = job.list \ batch]
Recording == job.at \in {"record1", "record2"}
PreSealRecord(batch) ==
  LET m == Recorded(batch)
  IN /\ Recording
     /\ batch \subseteq job.list
     /\ \/ Cardinality(batch) = BatchSize
        \/ Cardinality(batch) < BatchSize /\ batch = job.list
     /\ IF batch # job.list THEN Yield(Save(day, m))
        ELSE /\ day' = Save(day, [m EXCEPT !.phase = "complete",
                                           !.stage = "pre",
                                           !.id = RecordedTar, !.todo = None])
             /\ job' = [job EXCEPT !.mem = None, !.list = {},
                          !.at = IF @ = "record1" THEN "wait2" ELSE "wait3"]
             /\ Quiet

\* update_reconcile_progress saves the manifest; the seal is deferred.
Merge ==
  /\ job.at = "merge"
  /\ LET d == Look(day)
     IN day' = SetTar(Save(d, d.man), Members(d.tar) \cup Members(d.zst))
  /\ Goto("pre2")
  /\ Quiet

NoTarHandoff(held) ==
  /\ job.at = "notar"
  /\ Holding(held)
  /\ day' = Requeue(day, held)
  /\ Goto("release")

\* raw_delete_pre_seal: space is released before the seal takes some.
Release(held) ==
  /\ job.at = "release"
  /\ Holding(held)
  /\ day' = IF day.zst = None THEN day ELSE BatchDelete(day, held)
  /\ Goto("gate")

\* _closed_raw_not_archived: a fresh walk of the raw tree.
Unarchived == IF day.tar = None THEN {}
              ELSE (day.raw \ day.tar) \ Members(day.zst)
Gate(held) ==
  /\ job.at = "gate"
  /\ Held(held) /\ held \subseteq Unarchived
  /\ IF boot THEN Return(day, FALSE)
     ELSE IF Unarchived # {} THEN Return(Hand(day, Unarchived \ held), FALSE)
     ELSE Goto("seal") /\ UNCHANGED <<day, queued>>
  /\ UNCHANGED <<boot, made, crashes>>

SealDeferred_Raw(d) == job.skip \/ ClosedRaw(d) # {}
\* The seal stage: raw that remains must all be in the open tar (DE-26).
SealDeferred(d) ==
  LET remains == job.skip \/ ClosedRaw(d) # {}
  IN remains /\ (d.tar = None \/ ~(ClosedRaw(d) \subseteq d.tar))
KeepTar(d) == job.skip \/ ClosedRaw(d) # {}

\* A new sealed archive must pass the post-seal verify again.
Sealed(d, keep) ==
  LET new == [d EXCEPT !.zst = d.tar]
      noted == IF d.zst # d.tar /\ d.man.stage = "post"
               THEN Save(new, [d.man EXCEPT !.stage = "pre"]) ELSE new
  IN IF keep THEN noted ELSE SetTar(noted, None)

Seal ==
  LET d == Look(day)
  IN /\ job.at = "seal"
     /\ day' = IF SealDeferred(d) \/ d.tar \in {None, d.zst} THEN d
               ELSE Sealed(d, KeepTar(d))
     /\ Goto("post")
     /\ Quiet

\* The seal fails, and the job goes on; or every seal slot is taken.
SealFails ==
  /\ job.at = "seal" /\ ~SealDeferred(Look(day))
  /\ Fault(1)
  /\ \/ day' = Look(day) /\ Goto("post") /\ UNCHANGED queued
     \/ Return(Look(day), FALSE)
  /\ UNCHANGED <<boot, made, crashes>>

\* _post_seal_verify_body.
PostSealOk(d) == d.man.stage = "post" \/ Parity(d)
PostVerified(d) ==
  IF d.man.stage # "post" /\ Parity(d)
  THEN Save(d, [d.man EXCEPT !.stage = "post"]) ELSE d

PostSeal ==
  LET d == Look(day)
      asked == ~(day.tar = None /\ day.zst = None)
  IN /\ job.at = "post"
     /\ day' = IF asked THEN PostVerified(d) ELSE day
     /\ job' = [job EXCEPT !.at = "delete", !.ok = asked /\ PostSealOk(d)]
     /\ Quiet

RawDelete(held) ==
  LET d == BatchDelete(day, held)
      remains == d.man.phase # "done" /\ ClosedRaw(d) # {}
  IN /\ job.at = "delete"
     /\ Holding(held)
     /\ day' = d
     /\ job' = [job EXCEPT !.at = "drop", !.remains = remains]

\* try_finish_tar_drop_if_ready.
TryFinish(d) ==
  IF ClosedRaw(d) = {} /\ Parity(d) THEN Phase(SetTar(d, None), "done") ELSE d

\* The tar drop and the job's result.
Drop ==
  LET asked == job.ok /\ day.zst # None /\ day.tar # None /\ ~job.remains
      d == IF asked THEN TryFinish(Look(day)) ELSE day
      dropped == asked /\ d.tar = None
      remains == IF asked /\ ~dropped
                 THEN d.man.phase # "done" /\ ClosedRaw(d) # {}
                 ELSE job.remains
  IN /\ job.at = "drop"
     /\ Return(d, ~remains /\ (FilesystemComplete(d) \/ dropped))
     /\ UNCHANGED <<boot, made, faults, crashes>>
-----------------------------------------------------------------------------
(* The jobs and threads beside it. *)

Verify(held) == /\ day.pipe # None
                /\ Holding(held)
                /\ day' = ThreadStep(day, held)
                /\ UNCHANGED job

OrphanVerify(held) == /\ day.orphan # None
                      /\ Holding(held)
                      /\ day' = OrphanStep(day, held)
                      /\ UNCHANGED job

\* An ingest job ends with its append job queued.
Ingest(f) ==
  /\ f \in day.ingestQ
  /\ day' = [day EXCEPT !.ingestQ = @ \ {f}, !.ingested = @ \cup {f},
                        !.appendQ = @ \cup {f}]
  /\ UNCHANGED <<job, queued, boot, made, faults, crashes>>

\* An append job restores the tar when only the sealed archive is there.
Append(f) ==
  /\ f \in day.appendQ
  /\ LET d == [day EXCEPT !.appendQ = @ \ {f}]
     IN day' = IF f \in d.raw \ Archived(d)
               THEN SetTar(d, Archived(d) \cup {f}) ELSE d
  /\ UNCHANGED <<job, queued, boot, made, faults, crashes>>

\* The walk of the raw tree; the first one ends the boot phase.
Discover ==
  /\ day' = Hand(day, day.raw)
  /\ queued' = (queued \/ day.raw # {})
  /\ boot' = FALSE
  /\ UNCHANGED <<job, made, faults, crashes>>

\* _enqueue_day_closes_for_daily_dir.
DailyDirScan ==
  /\ \/ day.tar # None
     \/ day.zst # None /\ day.doc # None /\ day.doc.phase # "done"
  /\ queued' = TRUE
  /\ UNCHANGED <<day, job, boot, made, faults, crashes>>

\* A segment of the day is closed late (or arrives from a host that was down).
Arrive(f) ==
  /\ f \notin made
  /\ made' = made \cup {f}
  /\ day' = [day EXCEPT !.raw = @ \cup {f}]
  /\ UNCHANGED <<job, queued, boot, faults, crashes>>

\* The process restarts from a day: the queues may or may not have been saved.
Restart(d) ==
  \E kept \in BOOLEAN :
    /\ day' = [d EXCEPT !.man = NewManifest, !.pipe = None, !.orphan = None,
                         !.ingestQ = IF kept THEN @ ELSE {},
                         !.appendQ = IF kept THEN @ ELSE {}]
    /\ queued' = (kept /\ queued)

\* It stops between two steps; in a batch delete, whose last files (held) are
\* still there and whose manifest is not saved; or when the last batch of a
\* pre-seal verify is recorded and the phase is not.
Crash ==
  /\ crashes < MaxCrashes /\ crashes' = crashes + 1
  /\ \/ Restart(day)
     \/ /\ job.at \in {"release", "delete"} /\ day.zst # None
        /\ \E held \in SUBSET day.raw : Restart(CutDelete(day, held))
     \/ /\ Recording /\ Cardinality(job.list) \in 1..BatchSize
        /\ Restart(Save(day, Recorded(job.list)))
  /\ job' = NoJob /\ boot' = TRUE
  /\ UNCHANGED <<made, faults>>
-----------------------------------------------------------------------------
Stage ==
  \/ CloseComplete \/ Open \/ WaitOver \/ PreSealRead \/ Merge \/ Seal
  \/ SealFails \/ PostSeal \/ Drop
  \/ \E held \in SUBSET File : \/ Wait(held) \/ NoTarHandoff(held)
                               \/ Release(held) \/ RawDelete(held)
                               \/ Gate(held)
  \/ \E batch \in SUBSET File : PreSealRecord(batch)

Next == \/ Stage \/ Discover \/ DailyDirScan \/ Crash
        \/ \E held \in SUBSET File : Verify(held) \/ OrphanVerify(held)
        \/ \E f \in File : Ingest(f) \/ Append(f) \/ Arrive(f)

Spec == Init /\ [][Next]_vars

\* A job that is queued or under way can take a step, unless it waits for the
\* one verify thread a job may leave behind.
StageReady == \/ job.at = "idle" /\ queued /\ day.ingestQ = {}
              \/ job.at # "idle" /\ (day.pipe = None \/ day.orphan = None)

\* Every queue is drained, every thread runs on, the walks are periodic.
\* Weak fairness of Stage and of the threads is written out with the state
\* in which they are enabled.
FairSpec ==
  /\ Spec
  /\ <>[]StageReady => []<><<Stage>>_vars
  /\ <>[](day.pipe # None) => []<><<\E held \in SUBSET File : Verify(held)>>_vars
  /\ <>[](day.orphan # None) => []<><<\E held \in SUBSET File : OrphanVerify(held)>>_vars
  /\ WF_vars(Discover) /\ WF_vars(DailyDirScan)
  /\ \A f \in File : WF_vars(Ingest(f)) /\ WF_vars(Append(f))
-----------------------------------------------------------------------------
\* A raw file leaves the disk only when its samples are in the database and
\* the sealed archive holds it (INV-COPY with sync_archive_require_db_ingest):
\* through stale classify lists, reclassified entries and manifests that two
\* threads save over each other.
SafelyRemoved == \A f \in made \ day.raw :
                   f \in day.ingested /\ f \in Members(day.zst)

\* F15 / DE-25: no manifest on disk says "done" while a raw file it has an
\* entry for is still there.
DoneHoldsNoRaw ==
  day.doc # None /\ day.doc.phase = "done"
    => \A f \in day.raw : day.doc.ent[f] = "none"

\* The day is closed in the end: one sealed archive with every file there
\* ever was, no open tar, and no raw file left that the manifest knows of.
\* The seal waits for the raw files, which wait for the seal (DE-26).
DayCloses ==
  <>[](/\ day.tar = None /\ made \subseteq Members(day.zst)
       /\ day.doc # None => \A f \in day.raw : day.doc.ent[f] = "none")

\* Every raw file of a closed day is removed in the end: "late raw appended
\* after verify reopens verify" (sync_timedb_day_raw_removal.py:2976).
RawRemoved == <>[](day.raw = {})
=============================================================================
