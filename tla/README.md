# TLA+ specifications of HPCPerfStats

HPCPerfStats collects hardware and operating-system counters on the nodes of a cluster,
ships them through RabbitMQ, archives them as raw files, loads them into TimescaleDB,
computes job metrics from them and shows the result on a web site. This directory holds
TLA+ models of the parts of that pipeline whose correctness depends on order,
concurrency, failure and recovery, with the TLC runs and the TLAPS proofs about them.
Source paths below are relative to the repository root; `lib/` is short for
`hpcperfstats/dbload/lib/`.

## 1. The system and its components

    monitor (C, one per node) --AMQP--> listend --raw files--> sync_timedb --> TimescaleDB
                                          |                        |                |
                                          +--(optional)------------+--> update_metrics --> site

| Component | State it keeps | Operations | What makes it correct |
|---|---|---|---|
| **Monitor daemon** (`monitor/src/monitor_daemon.c`, `collect.c`, `stats_buffer.c`, `stats_buffer_rmq.c`) | sample buffer, resend dump file, broker connection | collect, publish, buffer while the broker is away, dump and resend | a sample is published or kept; the resend file is neither replayed twice nor truncated before the publish |
| **RabbitMQ** (external) | queue, unacknowledged deliveries per channel | deliver, ack, nack+requeue, requeue on channel loss | at-least-once delivery |
| **listend** (`hpcperfstats/listend.py`) | consumer sessions (connection, channel, generation), archive pool queues, sticky per-host file writers, pause flags | `on_message`, dispatch to the archive pool, append under the host's archive lock, rotate, ack/nack through the connection's thread, reconnect, pause/resume, shutdown | a message is acked only after its sample is in an archive file; an ack never reaches a channel it was not delivered on; every delivery ends in ack, nack or redelivery |
| **listend direct DB ingest** (`lib/listend_db_ingest.py`) | backpressure gauge, worker queue | submit, pause/resume consumers | archiving never depends on the database |
| **Archive files and locks** (`lib/file_locking.py`, `lib/sync_timedb_archive_dir_lock.py`) | advisory lock sidecars, raw files | lock, unlock, unlink of the sidecar | a writer has the file alone, readers share it, although anybody may create and unlink the sidecar |
| **Job store** (`lib/sync_timedb_job_store.py`) | ingest score map with lazy heaps, LIST queues with dedupe sets, in-flight claims, leases, payload rows, durable shadow, dead letters | zadd, enqueue, claim, ack, requeue, bump, reap, evict, reorder, snapshot, load | a job is queued or in flight, never both, never lost; a worker that lost its lease cannot disturb the new owner; the snapshot is the queued work |
| **Queue orchestrator** (`lib/sync_timedb_queue_orchestrator.py`) | local maps of claims and futures, timeout sentinels, per-kind coordinators | fill, drain, retry or dead-letter, reap tick, lease hygiene, reband, day close | every claimed job is resolved once, retried boundedly or dead-lettered |
| **Write-behind persistence** (`lib/sync_timedb_write_behind.py`, `lib/sync_timedb_persistence.py`) | dirty flag, generation, flush tickets, error slot; entry map, tombstones, sidecar document | `mark_dirty`, `flush`, `stop`, the writer thread; `set`, `remove_if`, `replace_all`, `_write` (merge with disk) | a change that races a write is written again; a flush that returns has written; a removed key stays removed |
| **Discover and reconstruct** (`lib/sync_timedb_job_discover.py`, `lib/sync_timedb_job_reconstruct.py`) | walk frontier, known paths, settle times | walk day directories, classify files, enqueue | every raw file is found again until it is ingested |
| **Ingest write stage** (`lib/sync_timedb_ingest_write_stage.py`, `..._host_data_insert.py`, `..._file_complete_ingest_mark.py`) | staged rows, per-file marks | parse, COPY, commit, mark complete | a file is marked complete only after its rows are committed |
| **Tar append** (`lib/sync_timedb_tar_clone_append.py`, `..._append_day_lists.py`) | the day's open tar, an append journal | append a batch, roll back, recover | a batch is in the tar as a whole or not at all, whatever stops the machine |
| **Day close and raw removal** (`_run_day_close_job`, `lib/sync_timedb_day_raw_removal.py`, `..._archive_helpers.py`, `..._sealed_member_map.py`) | open tar, sealed archive, member map, manifest of the day (phase, stage, an entry per raw file), verify threads | verify, merge, seal, post-seal verify, delete raw, drop the tar, hand files back to ingest and append | a raw file is removed only when the database and the sealed archive have it; the day is closed in the end |
| **Pools, memory and time limits** (`lib/multiprocessing_pool_health.py`, `..._ingest_timeout.py`, `..._space_pressure.py`, `pg_slot_budget.py`) | worker pools, PG slot file, disk-space band | recycle a broken pool, SIGALRM a stuck file, throttle | limits degrade throughput, never lose work |
| **Accounting and job metrics** (`dbload/sync_acct.py`, `analysis/metrics/`) | accounting rows, metric rows | import, compute, upsert | a job is computed from complete data, recomputed when data arrives late |
| **Site** (`site/`, React frontend) | cached API answers in Valkey | read-only views | - |
| **Operations** (`seal_syslog_daily.py`, `rabbitmq_watcher.py`, `scripts/`, `hpcperfstats-tools/`) | log files, queue depth | seal, watch, repair | - |

How they interact. The monitor publishes one message per sample; `listend` consumes with
several consumer threads, hands each message to an archive worker pool and acks through
the connection's own thread. The raw files it writes are the only interface to
`sync_timedb`, whose discover walk turns them into ingest jobs of the job store.
Coordinator threads (discover, ingest, append, day close) claim from the store, run the
work in process or thread pools, and ack, requeue or dead-letter. The persist thread
writes the store's durable shadow to a sidecar; after a crash the store starts from that
sidecar and everything claimed at the time is found again by reconstruct and discover. A
file that is in the database is appended to its day's tar; when the day is old enough a
day-close job verifies its raw files against the tar, seals the tar into a compressed
archive, removes the raw files that archive provably holds and drops the tar. A late
file reopens all of it.

What is hard. One re-entrant lock guards the store, but every decision a coordinator
takes spans several lock regions, and claims outlive them. Deadlines race late answers.
Lazy heaps hold stale entries. The snapshot is written outside the lock. An ack is
delivered from another thread than the one that decided it, on a connection that may
have been replaced meanwhile. The day close reads archives, lists and a manifest, works
for hours on what it read, yields, and leaves threads behind that go on with theirs.
Locks are names of files that anybody may unlink. A crash, and for the archives a power
loss, may fall between any two of these steps.

## 2. Modules and how they correspond to the code

| Module | Models | Composition |
|---|---|---|
| `JobStore` | `SyncTimedbJobStore`, its persist thread, and the coordinators' use of it in `lib/sync_timedb_queue_orchestrator.py` | store, coordinators and snapshot in one state machine |
| `WriteBehind` | `WriteBehindWriter`: the condition variable, tickets and I/O lock | stands alone; `JobStore` and `EntryStore` use the part of it they can see (dirty flag and generation) |
| `EntryStore` | `WriteBehindEntryStore`: entries, tombstones, merge with the file, one or two processes | stands alone |
| `Listend` | consumer sessions, archive worker, answers to the broker, pause and resume | with an external broker |
| `TarAppend` | `clone_append`, its journal, rollback and recovery, system call by system call | implements `AtomicAppend`, the abstract append (`INSTANCE ... WITH archive <- Recovered(tar, journal)`) |
| `DayArchive` | the copies of a day's raw files: restore, append, union merge, seal, member map, delete, tar drop | takes from `TarAppend` that an append is atomic; every stage may run at any time |
| `DayClose` | `_run_day_close_job` and the manifest of `DayRawRemovalCoordinator`, beside ingest, append and discover | takes from `DayArchive` what a seal, merge or drop does; adds the order of the stages and the manifest that decides them |
| `FileLock` | `file_locking.py`: sidecar, flock, probe, sweep, unlink | implements `RWLock`, a readers-writer lock |
| `MC...` | constants and symmetry of the TLC runs | one per module above |
| `JobStoreProofs`, `WriteBehindProofs`, `EntryStoreProofs`, `ListendProofs`, `TarAppendProofs`, `DayArchiveProofs`, `DayCloseProofs`, `FileLockProofs` | the inductive invariants and theorems about the module they are named for | each EXTENDS that module |

Operators and actions keep the names of the functions they model where there is one;
`PROJECT.json` gives the lines of each.

**JobStore.** Every public method of the store runs under one re-entrant lock, so a
method without a loop is one step. `claim_ingest` and `reap_expired_inflight` loop under
the lock; they are begin / one iteration / end steps, `cs` names the method that holds
the lock, and other methods wait. A coordinator's decision, on the other hand, spans
several lock regions: a *claim* here is the record a worker holds after the store handed
it out, with the token it was given, and its stages (`held`, `retry`, `giveup`, `dead`)
are the points between two calls where another thread may run. `_retry_or_dead_letter`
is thus bump, then requeue or upsert, then ack. A claim with `prot` is one the reap tick
passes over (`_append_reap_skip_identities` and the timeout sentinels). Time is one bit
per claim, `expired`. The score arithmetic (`encode_ingest_score`,
`penalize_ingest_score`, the two decoders) is the code's, over small strides. The lazy
heaps are sets of (score, identity) pairs; two equal entries are one, which is sound
because the second is stale once the first is popped. Of a payload row only the attempt
counter is kept, which is what pruning a row can lose. The sidecar of dead letters may
fail to be written; the job is acked all the same. The persist thread is `_attempt` and
`_persist_write`: copy under the lock, save outside it, then compare generations
(`raced`). A restart loads the sidecar and keeps nothing else.

`_ingest_runtime_lease_hygiene` has no action: it compares owners with a token freshly
minted for the call (`lib/sync_timedb_queue_orchestrator.py:7236`), so it never finds an
orphan of its own and changes nothing; lost claims are found when their deadline passes.

**WriteBehind.** One step per region of the condition variable. The persisted state is
the number of changes made to it, so "an older state is saved" and "a change is missing
on disk" are comparisons. A flusher waits for its ticket, times out, writes inline when
no thread runs and it may, or is refused. `stop` may be asked not to flush; `thread =
"exiting"` is the time in which a thread has left its loop and `is_alive` is still true.

**EntryStore.** Entries are keys. `_write` is begin (copy, under the store lock),
load-merge-save (one step, under the file lock), and end (adopt merged keys, forget
tombstones). The histories `gone` and `kept` record what callers were told; a key
another process has in memory at the removal is not counted as gone, since the merge of
that process rightly saves it again. Neither is a key that a write under way is already
taking out (`BeingTakenOut`): when that write ends it forgets tombstones by key, also
that of the later removal, so the store does not promise anything of it (section 5).

**Listend.** A consumer thread connects, binds the fields of its session one by one,
consumes, pauses, tears down. The archive worker reads those fields one by one from its
own thread, as `_threadsafe_basic_ack` and its helpers do, and queues a callback on the
connection; the callback re-checks generation and flag when it runs. One worker and one
host stand for all, since hosts are assigned to workers by hash and share nothing but
the sessions. The broker delivers, redelivers on channel loss, and closes a channel on
an unknown tag.

**TarAppend.** A tar is the sequence of its cells, a cell a whole member or one that is
`Bad` or `Torn`. Writing, fsync, the journal's creation, rename and unlink, and the
directory fsync are steps. A kill keeps what was written; a power loss keeps what was
synced and makes anything of the rest (`TarOutcomes`). `AtomicAppend` says what a caller
may rely on: batches appear whole, an answered batch never goes away.

**DayArchive.** Archives are sets of files, an identity is a counter that moves at every
seal. Locks are modelled where the code takes them and nowhere else, so the parity check
before a tar drop, or a map rebuild beside a seal, races as it does in the code. A
restored or merged tar and a new sealed archive are put in place without an fsync
(`soft`, `zsoft`). A power loss may cut the tar, after which salvage keeps its whole
members, and may cut the sealed archive, which nothing can read after that: no restore,
verify or merge goes on, a tar that is there is sealed over it, and what was nowhere
else is lost (`gone`). It may also take the member map, which a seal or rebuild may fail
to write as well; an absent map is rebuilt. Renames and removals are taken to reach the
disk in the order they were made, as a journaling file system keeps them.

**DayClose.** The state of the day (`day`) is what the handlers share: raw files,
database, archives, the two queues, the manifest on disk (`doc`), the one in the running
job's coordinator (`man`), its verify thread (`pipe`), and the thread of a job that has
returned (`orphan`), which keeps its own manifest and saves it over whatever is on disk.
The helpers are functions from a day to a day and follow the methods of
`_DayRawRemovalState` one by one; `Look` is what every lookup of a day does first
(`reopen_verify_if_tar_grew_since_verify`). A stage of the job is one step; the pre-seal
verify is two (`PreSealRead`, `PreSealRecord`) and so is the thread's (`ThreadCensus`,
`ThreadRecord`), because each reads, works for long, and records. A manifest keeps only
whether the tar is still the one it noted (`id`). In every pass some files may be
`held`: locked against deletion, or not handed on because the handoff is deferred or
fails. A restart falls between two steps, or within a batch of deletes, when files are
gone that the manifest on disk knows nothing of (`CutDelete`), or between the two saves
of the pre-seal verify, when the cursor is at its end and the phase is not yet moved.
Three things turned out while translating: `_mark_done_waiting_on_ingest` never reaches
its write of `done`, the reseal stage (lines 3351-3415 of the orchestrator) has no
reachable precondition once a raw file is only deleted against a sealed archive, and
neither has the branch for unmanifested files at lines 2668-2675 of the removal module.
They have no action.

**FileLock.** `path` is the inode the sidecar's name stands for, `fd` and `held` what
each process has open and locked. Every system call is a step. `RWLock` is the lock
callers believe they have.

## 3. Runs

All runs but `file_lock` use `CHECK_DEADLOCK FALSE`: bounds on faults, changes and
messages let every instance come to rest. The lock may never block everyone, so there
deadlock is checked too.

| Run | Instance | Shows |
|---|---|---|
| `job_store_ingest` | 2 files of neighbouring days, `today` passes from the day on which the younger is hot to the day on which it is catch-up, capacity 1, batches of 2, 1 fault, 2 live tokens; the tie-break of the older is the last of its day | all safety properties of the store and both action properties |
| `job_store_list` | 2 identities of a LIST kind, capacity 2, reap limit 2, 1 fault | no LIST job is queued twice, or queued and in flight, through dedupe, unprotected claims, reorder, snapshot and restart |
| `job_store_live` | 1 file, 2 attempts, 3 faults, fairness | the file ends ingested or dead-lettered |
| `write_behind` | 1 flusher, 2 changes, 2 flushes, 1 failed write, stop, timeout, fairness | a flush that returns is durable, saves are in order, marks reach the disk, flushes are answered |
| `entry_store` | 2 processes, 1 caller and 1 writer thread each, 2 keys, 3 sets, 2 removals or replacements, 1 fault | removals stay, saved keys stay |
| `listend` | 2 consumers, 2 messages, prefetch 1, 2 faults, fairness | acked is archived, answers match deliveries, nothing is stranded, every message is acked in the end |
| `tar_append` | tars of up to 3 cells, 2 members, 2 replacements of the tar | a power loss takes at most the unanswered batch; `TarAppend` implements `AtomicAppend` |
| `day_archive` | 2 files of different size, 1 append worker, 2 day-close workers, 1 map rebuild, 3 seals, 1 kill, 1 power loss | no file is ever without a copy, but for those nowhere else when a power loss cuts the sealed archive; the map does not lie, a tar covers what is sealed, no seal takes a member away |
| `day_archive_reseal` | 3 files of equal size, 1 append worker, 1 day-close worker, 1 power loss | violated: finding 1 |
| `day_close` | 3 files, one of them late, classify batches of 2, 1 fault (a failed seal, a busy slot or a pass with held files), 1 restart, fairness | raw files are removed safely, no manifest is done too early, the day closes |
| `day_close_late` | 2 files, one of them late, no fault | violated: finding 2 |
| `file_lock` | 2 writers, 1 reader, 1 sweep, 5 inodes, kills | nobody loses the sidecar's name while inside; `FileLock` implements `RWLock` |

**Why the bounds are enough for the cases meant.** Two files and two tokens give every
pairing that matters in the store: a late owner and a new one of the same file, a stale
heap entry below or above a live one, a batch that takes both, a full queue that must
evict one for the other. The older file starts on the last score of its day, so its
first penalty meets the clamp. One fault is enough for each single crash, loss, failure
or timeout at every step; the liveness run has three, so that a file may use up its
attempts and the dead letter then fail to be written. That run has one file because the
model reaps in any order: with a reap limit of 1 and two jobs it could starve one of
them, which the code, going through its claims in insertion order, does not. In
`listend` a fault is one lost connection, failed append, full database queue or crash at
any point, with the answers of the old connection still queued on the new; two are
needed for a failed append whose connection is gone by then, which is what schedules the
teardown callback. The run has one delivery at a time per consumer; with a prefetch of 2
and one fault the same properties hold (82,136 states). Five inodes let every process of
`file_lock` have an old sidecar open while a new one is made. `day_archive` has files of
two sizes, so that the seal guard, which compares numbers of members and bytes, can tell
any two archives of the instance apart; three files of one size are the smallest
instance in which it cannot, and that is finding 1. In `day_close` three files and
batches of 2 make the pre-seal verify span two claims, the third file arrives between
any two steps, and the one thread left behind may be of any stage. The `mutants` of
`PROJECT.json` are the check on this: for each property there is a plausible bug of the
code that the same run, with the same bounds, catches.

**Fairness.** `JobStore`: discover and reconstruct run on a timer, coordinators claim
from both bands, a claim that a thread still holds is resolved (its Future answers,
fails or is given up at the timeout), deadlines pass, the reap tick runs. It is strong
because each of these needs the store lock, which others hold for short loops in
between. Nothing is assumed of lost claims: the reaper has to find them. `Listend`:
consumer and worker threads run, callbacks of a live connection run, the broker
delivers, the DB queues drain; connections may be lost only `MaxFaults` times. Weak
fairness is enough there. `WriteBehind`: threads that can go on do; there is no fairness
on `stop` or on the timeout. `DayClose`: the coordinator claims a queued day-close job
and the job goes on, its threads run on, ingest and append drain their queues, the raw
walk and the scan of the daily directory are periodic; a file need never arrive, and a
crash never happens for certain. Weak fairness of the job and of the threads is written
out (`<>[]Ready => []<><<Step>>_vars`) with the states in which they are enabled, which
TLC evaluates much faster than the `ENABLED` of these actions.

**Symmetry** is used in safety runs only: the workers of `day_archive`, the processes,
callers and keys of `entry_store`, the writers and inodes of `file_lock`, which the code
does not tell apart. The files of `JobStore` differ by day and are not symmetric.

## 4. What is proved

Every safety property of every passing run is also a theorem, for every value of the
constants, and so are both refinements; three properties (`FlushDurable`, `InvCopy`,
`SealedKeepsMembers`) are theorems under a condition without which they are false for
the code in general. Each `...Proofs` module has an inductive invariant (`IInv`; a chain
of them for `JobStore`), which TLC checked on the module's instance before it was
proved, a lemma per action, and the theorems as its consequences. The constants need
only what the `ASSUME`s of the modules say: markers such as `None`, `NoTar` or `Bad` are
not members of the sets they are told apart from, bounds are natural numbers, limits
positive; `DayClose` needs finitely many files, because it compares numbers of members
as the code does. How many files, consumers, processes, faults and tokens there are is
left open.

**`JobStoreProofs`**, for all identities, days, strides, limits and numbers of claims,
faults and tokens. The assumptions are finite disjoint identity sets, a positive stride
that divides the base of the catch-up band, tie-breaks within a stride, positive limits,
and a hot window that fits below the catch-up base (10^9 days in the code).

No property of the store is inductive as it stands. The proofs are a chain of
invariants, each using the ones before:

1. `TypeInvariant`: `TypeOK`. The work is in the sequence
   operations of the LIST kinds and in the counters, which stay natural numbers
   because a decrement stops at zero.
2. `ClaimInvariant`. `ProtectedClaimOwned` alone is not inductive:
   a new claim could reuse a token, a reap loop could reach a job that became
   protected, and a batch in progress has handed out claims already. `ClaimInv` adds
   that claims with one token and job are the same claim, that a batch under way owns
   what it took, and that the loop of a reap spares protected jobs. Corollaries:
   `ProtectedClaimsOwned`, `LeasesMatch`.
3. `ScoreInvariant`. A score leaves the queue with a claim, comes
   back through a requeue, a reap or a restart, so `ScoreInv` says of the queue, of
   the claims, of the snapshot being written and of the one on disk alike that a
   score lies in its file's slot or in the hot band. The step is arithmetic: a
   penalty within `[d*s, d*s+s-1]` stays there. The provers know no division with a
   variable divisor, so uniqueness of quotient and remainder is proved first
   (`DivModUnique`). Corollary: `DaySlots`.
4. `QueueInvariant`. A requeue needs that its claim is in flight
   (from 2) and that its score is not the "not queued" value (from 3). It adds
   well-formedness of the LIST in memory, in the copy and on disk, so that a restart
   restores it; that
   `reorder_list` installs a permutation without duplicates uses the injection theorem
   on finite sets. Corollaries: `QueuesExclusive`, `ShadowsMirror`.
5. `HeapInvariant`. Beyond `HeapArmed`: every heap entry is in the
   heap of its own band. With it the minimum of a heap, once it agrees with the live
   score, is the minimum of all live scores of the band, which gives the action
   property `OldestFirst`. Corollary: `HeapsArmed`.
6. `DurableInvariant`. Beyond `CleanMeansDurable`: between copy
   and end of a write, the copy (and after the save the disk) is the durable state
   unless the generation moved on, and rows of queued jobs survive pruning. From it
   `CleanIsDurable` and the action property `AttemptsNeverLost`.

**`WriteBehindProofs`**, for any flushers. That the disk never goes back
(`DiskNeverGoesBack`) rests on the I/O lock: only its holder is between copy and save,
and its copy is no older than the disk (`OrderInv`). `FlushIsDurable` needs to follow a
ticket (`WaitOK`): once the writer has picked it, every write under way holds what the
flusher waits for, so does every finished one unless it failed; an inline flush begins
when no thread runs (`InlineOK`). It is proved for states in which nobody else flushes
or no write has failed (`Undisturbed`). Without that it is false for the code: there is
one error slot for all flushers and the next flush clears it. The run has one flusher.

**`EntryStoreProofs`**, for any processes, callers and keys. `SavedStays`: nothing that
was saved is in anybody's tombstones or in the `dead` set of a write under way
(`KeptOK`). `RemovedStays` is harder, since a removal is durable only at the end of a
write that another thread may have begun before it: `RemovingOK` and `Leaving` say of
each key being removed, and of each write of the process, whether that write can still
bring it back, and that its tombstone falls only with a write that has taken it out. The
attempt to prove it without `BeingTakenOut` failed, and TLC then found why (section 5).

**`ListendProofs`**, for any consumers, messages, prefetch and number of faults.
`AckedIsArchived`, `AnswersMatch` and `NothingStranded` share one invariant, as none
holds up alone: an ack is only safe if its tag means the delivery it was taken from,
which needs that tags are unique on a channel (`TagsOK`), that everything in the inbox,
with the archive worker or scheduled as an answer is outstanding on its channel or of an
older generation (`InboxOK`, `ItemsOK`, `HandOK`, `AnswersOK`), that each delivery is in
one place only (`InboxAlone`, `AnswersAlone`, `ItemsAlone`), and in at least one until a
reconnect is asked for and on its way (`NoneStranded`, `TeardownOK`).

**`TarAppendProofs`**, for any members, batches, tars and replacements of the tar. A
journal is *live* when it is of the file that is there. The invariant says of every
directory state a power loss may leave what recovery would make of the present file
beside those names (`Fate`): the archive, or the archive without the unanswered batch
(`DirsOK`). The heart of it is `Covered`: content that is not synced lies behind the end
of a live journal that *every* power loss leaves, or there is none. Hence the arbitrary
tail a power loss may put there is cut off by recovery, whatever it is (`OutcomeFacts`),
and the hash of the journal still fits. Theorems: `TarAppendTypes`,
`PowerLossKeepsArchive`, and the refinement `AppendIsAtomic`: the unlink of the journal
after a write and the link of a new tar are the atomic `AddBatch`, a directory fsync is
`Settle`, a power loss `Undo` or `Settle`, a replaced tar `Swap`, and no other step is
seen.

**`DayArchiveProofs`**, for any files, sizes, workers and bounds. `MapTruthful` needs
more than itself: a seal holds the tar's lock from its guard to its map (`SealsOK`), and
every document, on disk or in a rebuilding thread's hands, names an archive that is or
was, and misstates the present one never (`MapOK`); a cut archive has another identity,
and identities stay below the number of seals and power losses (`Typed`).
`TarCoversSealed` and the copy of every file need what each worker has read (`Uncut`):
until a power loss the owner of a restore has read all that is sealed and nobody makes a
tar meanwhile, the sealed archive can be read, and a delete goes by a list that it still
covers. Theorems: `DayArchiveTypes`, `MapIsTruthful`, `TarCovers`, `CopyKept`, which is
`InvCopy` as long as no power is lost, and `SealsKeepMembers`, which is
`SealedKeepsMembers` until then. After a power loss both are false for the code in
general (finding 1); the run with files of two sizes shows them there too, `InvCopy` for
every file but those the cut archive alone had.

**`DayCloseProofs`**, for any finite set of files, late ones, batch size, faults and
restarts. Three copies of the manifest decide what is removed: the job's, the one on
disk, and that of a thread left behind by a job that has returned, which saves its own
over whatever is there. `SafelyRemoved` speaks of the day alone and is not inductive:
the invariant says the same of all three copies (`ManifestOK`): *verified* only what is
in the database, *deleted* only what is gone, *done* only with no entry for a file on
disk; and of the archives that an open tar holds what is sealed and that a file that is
gone is sealed and in the database (`ArchiveOK`). The helper functions from day to day
are lemmas that keep `DayOK`, so an action is proved by chaining them; a restart within
a batch of deletes is one of them (`CutDeleteOK`), as the files it finds gone were
removed against the sealed archive. Theorems: `DayCloseTypes`, `SafeRemoval`,
`DoneMeansNoRaw`. On the way the proof shows that the branches which reopen a manifest
that is done (`ReopenDone`, `Reverify`, `KickDone`) never find work in one that was
saved: they are a second line of defence.

**`FileLockProofs`**, for any processes and inodes. `HolderOwnsPath` is carried by
exclusion of flocks on one inode (`FlockExclusive`) and by what each program counter
means (`Owning`, `Locking`): past its check a process has locked the inode the name
stands for, and nobody can unlink a name whose inode another has locked. Theorems:
`FileLockTypes`, `HolderOwnsPathHolds`, and the refinement `FileLockIsRWLock`.

**Only model-checked.** All liveness properties, since fairness and `ENABLED` are out of
the prover's reach: `AllWorkResolved`, `EverythingAcked`, `MarksReachDisk`,
`FlushAnswered`, `DayCloses`. `InvCopy` and `SealedKeepsMembers` after a power loss,
which depend on the sizes of the files. The two violations.

## 5. Findings

1. **`day_archive_reseal`** - the guard of a seal compares the number of members and
   the sum of their bytes (`lib/sync_timedb_archive_helpers.py:11970`), not the members.
   A restored tar that a power loss cut, salvaged and grown by a late file of the
   same size, is sealed over the only copy of a removed raw file.
2. **`day_close_late`** - the pre-seal verify lists the tar first and notes the tar's
   identity last (`lib/sync_timedb_day_raw_removal.py:2423`). A late file appended in
   between is in no list and moves no identity: the day is sealed, with the file,
   and closed, and its raw file is never removed. With the identity taken at the
   start one more schedule is left: the verify thread completes the verification
   without noting any identity (line 2052), and the pre-seal verify is then skipped.
   No data is lost (`SafelyRemoved`, `DayCloses`).

More behaviours met on the way, without a run of their own:

- The reorder heap of a host is flushed as soon as it holds two samples
  (`listend.py:2384`): a straggler held by a competing consumer is appended after
  younger samples, against the docstring of `_archive_worker_main`.
- The sticky writer of `listend` (`listend.py:885-1016`) keeps its sidecar's descriptor
  between samples and locks it again without comparing it with the name, which
  `FileLock` shows to be the step everything rests on.
- `flush` clears the writer's one error slot (`lib/sync_timedb_write_behind.py:216`); with
  two flushers a second flush hides the first one's failure.
- A removal from an entry store can be undone. `_write` ends with
  `self._tombstones -= dead` (`lib/sync_timedb_write_behind.py:574`), which goes by key: it
  also forgets the tombstone of a removal of the same key that was made after the
  write copied its `dead` set, against the docstring of `remove_if` ("Remove matching
  entries and persist the removal before returning", line 469). The removal's own write
  then takes nothing out, and adopts the key if the file has it again: because another
  process saved it in between (and is gone since), or because `replace_all`, which keeps
  the tombstones of the keys it installs, had put it back; the latter has no production
  caller. To see the first, let `BeingTakenOut(p) == {}` in `EntryStore` and check
  `RemovedStaysRemoved` with two processes, two callers, one key, `MaxSets = 3`,
  `MaxRemovals = 2`, `MaxFaults = 1`; for the second one process, `MaxSets = 1` and
  `MaxRemovals = 3` are enough.
- A sibling's resume can turn a consumer's pause into a teardown of its connection
  (`listend.py:2997`), where a comment expects the connection to stay; nothing is lost
  by it, as the properties of `listend` show.
- Nothing the day close goes by is synced: not a rewritten tar
  (`lib/sync_timedb_archive_helpers.py:10458`), not a restored one (`lib/zstd_cli.py:747`),
  not the sealed archive (renamed into place at
  `lib/sync_timedb_archive_helpers.py:12021`; `lib/zstd_cli.py:1241-1325`, which writes it, has no
  fsync either), not its directory, not the member map. The tar is then removed
  (line 12067) and the raw files are (`lib/sync_timedb_day_raw_removal.py:2631`). A power loss
  soon after may leave no copy of a file, against "at every instant every byte of every
  closed raw file exists in the raw file, a sealed member proven by the sealed member
  map, or an unchanged open tar" (`docs/SYNC_TIMEDB_STATE_MACHINE.md:8-10`). To see it, drop
  `\ gone` from `InvCopy` and check it with `MCDayArchiveReseal.cfg`: one file arrives, is
  appended, verified and sealed, the tar is dropped, the raw file removed, and the power
  is lost, 12 steps. `InvCopy` excepts exactly these files (`gone`), so that the run still
  speaks of all the others.
- A stale manifest is written back. A job that yields leaves its verify thread running
  (`lib/sync_timedb_day_raw_removal.py:4100`), which saves the manifest it has in memory over
  that of the next job; the notes say "manifests are re-read from disk on state creation,
  so stale in-memory state is not written back" (`docs/SYNC_TIMEDB_STATE_MACHINE.md:310`). The
  orphan thread of `DayClose` is this thread; `SafelyRemoved` and `DoneHoldsNoRaw` hold in
  spite of it.

## 6. Plan

In this order, the most important first:

1. **`DayClose` over `DayArchive`**: a refinement in which the stages of the one are runs of
   the steps of the other, in place of the shared reading of what a seal does.
2. **Write stage** (`WriteStage`): COPY, commit, completion mark, duplicate ingest
   after a lost ack; composed with `JobStore` (claim outcomes) to state exactly which
   ingests may run twice.
3. **Abstract lease queue** (`LeaseQueue`): a set of jobs that are waiting, leased or
   done, with at most one valid lease; `JobStore` shown to implement it.
4. **Discover walk** (`Discover`): frontier, settle times, every file found again.
5. **Rotation of `current`** and the sticky writer, on top of `FileLock`.
6. **Monitor resend** (`MonitorBuffer`): buffer, dump, resend around broker outages.

## 7. Not modelled

Parsing, numerics and SQL (no interleaving to explore; covered by the repository's
tests), tar and zstd subprocesses beyond their protocol, configuration and telemetry,
the site, operator scripts, and the counter collectors of the monitor: together they are
by far the larger part of the repository's lines. The `components` of `PROJECT.json`
give the reason for each part. Within the modelled parts: payload contents other than
attempts, wall-clock durations (deadlines are events that may happen), message sizes,
orderly shutdown of `listend`, torn samples in `current`; in the tar append, a journal
that cannot be read or parsed: `recover_interrupted_append` puts it aside as corrupt and
leaves the tar to the readability repair. No kill or power loss produces one, since the
journal is synced before it is renamed, but any error of the read does, of a good
journal too; in the day close, a power loss (a manifest that is not as saved;
`DayArchive` has the power loss), a restart within the deletes that a wait for ingest
makes on the side (`kick_closed_raw_unblock`; those of the delete stages are cut), a
check for raw files outside the archive that itself fails, quarantined and active raw
files, deleted paths that come back, the census memo of a pass, dead letters, the cap on
deletes and the reverify counter.
