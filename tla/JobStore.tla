------------------------------ MODULE JobStore ------------------------------
(***************************************************************************)
(* The in-process job store of sync_timedb (class SyncTimedbJobStore in    *)
(* sync_timedb_job_store.py), its persist thread, and the coordinators of  *)
(* sync_timedb_queue_orchestrator.py that claim, protect, finish, fail,    *)
(* time out or lose jobs.                                                  *)
(*                                                                         *)
(* Ingest jobs sit in a score map with lazy heaps; LIST jobs (discover,    *)
(* append, day_close) sit in FIFO lists.  No structure is shared between   *)
(* two LIST kinds, so one list stands for each of them.                    *)
(*                                                                         *)
(* Every store method runs under one re-entrant lock.  A method that loops *)
(* under the lock (claim_ingest, reap_expired_inflight) is several steps   *)
(* here, during which `cs' names the holder and no other method runs.      *)
(*                                                                         *)
(* A heap is the set of its (score, identity) entries: a second copy of an *)
(* entry is stale as soon as the first is popped.  Clocks are abstracted   *)
(* to one bit per claim: `expired' means deadline + grace has passed.  Of  *)
(* a payload row only the attempt counter is kept; 0 is an absent row.     *)
(***************************************************************************)
EXTENDS Integers, Sequences, FiniteSets

CONSTANTS
  IngestIds,            \* identities of raw files to ingest
  ListIds,              \* identities of one LIST kind
  FileDay,              \* calendar day of each raw file
  Tie,                  \* same-day tie-break of each raw file
  SCORE_STRIDE,         \* width of one day in the score space
  CATCHUP_SCORE_BASE,   \* first score of the catchup band
  HotDays,              \* length of the hot window in days
  IngestCap,            \* discover ingest cap
  ListCap,              \* queue_capacity_limit()
  HEAP_SLACK,           \* stale entries the max-heap tolerates
  REAP_LIMIT,           \* identities one reap call may recover
  MAX_ATTEMPTS,         \* job_max_attempts()
  ClaimMax,             \* largest max_n a claim asks for
  FirstToday,           \* "today" at start
  LastToday,            \* bound: last value of "today"
  Tokens,               \* bound: owner tokens in use at the same time
  MaxFaults             \* bound: crashes, failures, timeouts, lost claims...

Jobs == IngestIds \cup ListIds
Bands == {"hot", "catchup"}
NoScore == -1
NoTok == 0

ASSUME IdsAssumption == /\ IsFiniteSet(IngestIds)
                        /\ IsFiniteSet(ListIds)
                        /\ IngestIds \cap ListIds = {}
ASSUME ScoreAssumption == /\ SCORE_STRIDE \in Nat \ {0}
                          /\ CATCHUP_SCORE_BASE \in Nat
                          /\ CATCHUP_SCORE_BASE % SCORE_STRIDE = 0
                          /\ FileDay \in [IngestIds -> Nat]
                          /\ Tie \in [IngestIds -> 0..(SCORE_STRIDE - 1)]
\* 10^15 leaves room for a hot window of 10^9 days of 10^6 scores.
ASSUME HotAssumption ==
  (IF HotDays < 1 THEN 1 ELSE HotDays) * SCORE_STRIDE <= CATCHUP_SCORE_BASE
ASSUME LimitAssumption == /\ {HotDays, IngestCap, ListCap, HEAP_SLACK} \subseteq Nat
                          /\ {REAP_LIMIT, MAX_ATTEMPTS, ClaimMax} \subseteq Nat \ {0}
                          /\ {FirstToday, LastToday} \subseteq Nat
                          /\ Tokens \subseteq Nat \ {0}
                          /\ MaxFaults \in Nat

VARIABLES
  today,          \* local calendar day
  ingest,         \* _ingest: identity -> score, NoScore when not queued
  heap,           \* _ingest_heap_hot / _ingest_heap_catchup
  heapMax,        \* _ingest_heap_catchup_max
  ingestN,        \* _ingest_hot_n / _ingest_catchup_n
  list,           \* _lists[kind]
  pending,        \* _pending[kind]
  inflight,       \* _inflight: owner token of each claimed job
  claimScore,     \* _inflight: score an ingest job was claimed with
  expired,        \* _inflight: deadline + grace has passed
  leases,         \* _leases
  attempts,       \* _payloads[..]["attempt"]
  shadowIngest, shadowList, shadowPending, shadowAttempts,
  cs,             \* holder of the store lock across several steps
  dirty,          \* WriteBehindWriter._dirty
  wpc,            \* persist thread: where in _attempt / _persist_write
  raced,          \* persist thread: _gen moved since it was read
  copy,           \* persist thread: the document being written
  disk,           \* the snapshot sidecar
  claims,         \* ClaimedJob objects the coordinators hold
  done,           \* jobs whose work is complete on disk and in the database
  dead,           \* dead-lettered jobs (blocked from admission)
  faults          \* adversarial events so far

ingestVars == <<ingest, heap, heapMax, ingestN, shadowIngest>>
listVars == <<list, pending, shadowList, shadowPending>>
claimVars == <<inflight, claimScore, expired, leases>>
payloadVars == <<attempts, shadowAttempts>>
writerVars == <<wpc, copy, disk>>
workVars == <<claims, done, dead>>
vars == <<today, ingestVars, listVars, claimVars, payloadVars, cs, dirty,
          raced, writerVars, workVars, faults>>

-----------------------------------------------------------------------------
(* Scores *)

decode_ingest_band(s) == IF s < CATCHUP_SCORE_BASE THEN "hot" ELSE "catchup"

decode_catchup_calendar_day(s) == (s - CATCHUP_SCORE_BASE) \div SCORE_STRIDE

select_ingest_band(day) ==
  IF today - day < (IF HotDays < 1 THEN 1 ELSE HotDays) THEN "hot" ELSE "catchup"

encode_ingest_score(i) ==
  IF select_ingest_band(FileDay[i]) = "hot"
    THEN LET raw == (today - FileDay[i]) * SCORE_STRIDE + Tie[i]
         IN  IF raw < 0 THEN 0 ELSE raw
    ELSE CATCHUP_SCORE_BASE + FileDay[i] * SCORE_STRIDE + Tie[i]

\* Mutant: no clamp at the end of the day.
penalize_NoClamp(s) == s + (SCORE_STRIDE \div 4)

penalize_ingest_score(s) ==
  LET last == s - (s % SCORE_STRIDE) + SCORE_STRIDE - 1
      bump == s + (SCORE_STRIDE \div 4)
  IN  IF bump < last THEN bump ELSE last

-----------------------------------------------------------------------------
(* State of a job *)

Queued(j) == IF j \in IngestIds THEN ingest[j] # NoScore ELSE j \in pending
OnQueue(j) == IF j \in IngestIds THEN ingest[j] # NoScore
                                 ELSE \E n \in 1..Len(list) : list[n] = j
InFlight(j) == inflight[j] # NoTok
QueuedIngest == {i \in IngestIds : ingest[i] # NoScore}

Durable == [ingest |-> shadowIngest, list |-> shadowList,
            pending |-> shadowPending, attempts |-> shadowAttempts]
EmptySnapshot == [ingest |-> [i \in IngestIds |-> NoScore], list |-> << >>,
                  pending |-> {}, attempts |-> [j \in Jobs |-> 0]]

Free == [op |-> "free"]

Init ==
  /\ today = FirstToday
  /\ ingest = [i \in IngestIds |-> NoScore]
  /\ heap = [b \in Bands |-> {}]
  /\ heapMax = {}
  /\ ingestN = [b \in Bands |-> 0]
  /\ list = << >> /\ pending = {}
  /\ inflight = [j \in Jobs |-> NoTok]
  /\ claimScore = [i \in IngestIds |-> NoScore]
  /\ expired = [j \in Jobs |-> FALSE]
  /\ leases = [j \in Jobs |-> NoTok]
  /\ attempts = [j \in Jobs |-> 0]
  /\ shadowIngest = [i \in IngestIds |-> NoScore]
  /\ shadowList = << >> /\ shadowPending = {}
  /\ shadowAttempts = [j \in Jobs |-> 0]
  /\ cs = Free
  /\ dirty = FALSE /\ wpc = "idle" /\ raced = FALSE
  /\ copy = EmptySnapshot /\ disk = EmptySnapshot
  /\ claims = {} /\ done = {} /\ dead = {}
  /\ faults = 0

Fault == faults < MaxFaults /\ faults' = faults + 1

\* mark_dirty; the persist thread compares generations only while it writes.
MarkDirty == dirty' = TRUE /\ raced' = (wpc # "idle")

-----------------------------------------------------------------------------
(* The locked helpers on the ingest map, its heaps, counters and shadow *)

\* Mutant: push only when the identity has no entry yet, stale or not.
HeapPushed_Once(h, i, s) ==
  LET b == decode_ingest_band(s) IN
  IF \E e \in h[b] : e[2] = i THEN h ELSE [h EXCEPT ![b] = @ \cup {<<s, i>>}]

HeapPushed(h, i, s) == [h EXCEPT ![decode_ingest_band(s)] = @ \cup {<<s, i>>}]

LiveCatchup(ing) ==
  {<<ing[i], i>> : i \in {k \in IngestIds : /\ ing[k] # NoScore
                                           /\ decode_ingest_band(ing[k]) = "catchup"}}

HeapMaxPushed(hm, ing, i, s) ==
  IF decode_ingest_band(s) = "catchup"
    THEN (IF Cardinality(hm) > 2 * Cardinality({k \in IngestIds : ing[k] # NoScore})
                               + HEAP_SLACK
            THEN LiveCatchup(ing) ELSE hm) \cup {<<s, i>>}
    ELSE hm

\* Mutant: the decrement hits the catchup counter whatever the band, without the
\* floor at zero.
BandDec_Catchup(n, s) == [n EXCEPT !["catchup"] = @ - 1]

BandDec(n, s) == [n EXCEPT ![decode_ingest_band(s)] = IF @ - 1 > 0 THEN @ - 1 ELSE 0]
BandInc(n, s) == [n EXCEPT ![decode_ingest_band(s)] = @ + 1]

IngestSet(i, s) ==
  /\ ingest' = [ingest EXCEPT ![i] = s]
  /\ ingestN' = BandInc(IF ingest[i] = NoScore THEN ingestN
                                               ELSE BandDec(ingestN, ingest[i]), s)
  /\ heap' = HeapPushed(heap, i, s)
  /\ heapMax' = HeapMaxPushed(heapMax, ingest', i, s)
  /\ shadowIngest' = [shadowIngest EXCEPT ![i] = s]
  /\ shadowAttempts' = [shadowAttempts EXCEPT ![i] = attempts[i]]

\* Mutant: the durable shadow keeps the popped identity.
IngestPop_KeepsShadow(i) ==
  /\ ingest' = [ingest EXCEPT ![i] = NoScore]
  /\ ingestN' = BandDec(ingestN, ingest[i])
  /\ shadowAttempts' = [shadowAttempts EXCEPT ![i] = 0]
  /\ UNCHANGED shadowIngest

IngestPop(i) ==
  /\ ingest' = [ingest EXCEPT ![i] = NoScore]
  /\ ingestN' = BandDec(ingestN, ingest[i])
  /\ shadowIngest' = [shadowIngest EXCEPT ![i] = NoScore]
  /\ shadowAttempts' = [shadowAttempts EXCEPT ![i] = 0]

ListPush(l) ==
  /\ list' = Append(list, l)
  /\ pending' = pending \cup {l}
  /\ shadowList' = Append(shadowList, l)
  /\ shadowPending' = shadowPending \cup {l}
  /\ shadowAttempts' = [shadowAttempts EXCEPT ![l] = attempts[l]]

\* Mutant: the lease outlives the in-flight entry.
ClearClaim_KeepsLease(j) ==
  /\ inflight' = [inflight EXCEPT ![j] = NoTok]
  /\ expired' = [expired EXCEPT ![j] = FALSE]
  /\ claimScore' = IF j \in IngestIds THEN [claimScore EXCEPT ![j] = NoScore]
                                      ELSE claimScore
  /\ UNCHANGED leases

ClearClaim(j) ==
  /\ inflight' = [inflight EXCEPT ![j] = NoTok]
  /\ leases' = [leases EXCEPT ![j] = NoTok]
  /\ expired' = [expired EXCEPT ![j] = FALSE]
  /\ claimScore' = IF j \in IngestIds THEN [claimScore EXCEPT ![j] = NoScore]
                                      ELSE claimScore

-----------------------------------------------------------------------------
(* Producers: discover, reconstruct, day-close handoff *)

\* Mutant and original: zadd_ingest refuses an identity in flight.
MayQueue_Always(i) == TRUE
MayQueue(i) == ~InFlight(i)

\* zadd_ingest, from a caller that found raw file i not yet complete.
ZaddIngest(i, overCap) ==
  /\ cs = Free
  /\ i \notin done /\ i \notin dead
  /\ MayQueue(i)
  /\ LET s == encode_ingest_score(i)
     IN  /\ \/ ingest[i] # NoScore
            \/ overCap
            \/ Cardinality(QueuedIngest) < IngestCap
            \/ decode_ingest_band(s) = "hot"
         /\ IngestSet(i, s)
  /\ MarkDirty
  /\ UNCHANGED <<today, listVars, claimVars, attempts, cs, writerVars,
                 workVars, faults>>

\* evict_youngest_catchup_ingest on behalf of the backfill file `waiting'.  The
\* caller's capacity read belongs to an earlier lock region and may be stale.
EvictYoungest(waiting) ==
  /\ cs = Free
  /\ Fault
  /\ waiting \notin done /\ ingest[waiting] = NoScore /\ ~InFlight(waiting)
  /\ select_ingest_band(FileDay[waiting]) = "catchup"
  /\ \E e \in heapMax :
       LET i == e[2] IN
       /\ ingest[i] = e[1]
       /\ \A f \in heapMax : ingest[f[2]] = f[1] => f[1] <= e[1]
       /\ decode_catchup_calendar_day(e[1]) > FileDay[waiting]
       /\ heapMax' = {f \in heapMax : f[1] <= e[1]} \ {e}
       /\ IngestPop(i)
       /\ attempts' = [attempts EXCEPT ![i] = 0]
  /\ MarkDirty
  /\ UNCHANGED <<today, heap, listVars, claimVars, cs, writerVars, workVars>>

\* Mutant and original: what dedupe=True skips.
Duplicate_PendingOnly(l) == l \in pending
Duplicate(l) == l \in pending \/ InFlight(l)

\* enqueue_list with dedupe=True, as every caller passes it.
EnqueueList(l) ==
  /\ cs = Free
  /\ l \notin done /\ l \notin dead
  /\ ~Duplicate(l)
  /\ Len(list) < ListCap
  /\ ListPush(l)
  /\ MarkDirty
  /\ UNCHANGED <<today, ingestVars, claimVars, attempts, cs, writerVars,
                 workVars, faults>>

\* reorder_list: any permutation of the queue found unchanged on the second lock.
ReorderList ==
  /\ cs = Free
  /\ Fault
  /\ Len(list) > 1
  /\ \E p \in [1..Len(list) -> 1..Len(list)] :
       /\ \A m, n \in 1..Len(list) : p[m] = p[n] => m = n
       /\ list' = [n \in 1..Len(list) |-> list[p[n]]]
       /\ list' # list
       /\ shadowList' = list'
  /\ MarkDirty
  /\ UNCHANGED <<today, ingestVars, pending, shadowPending, claimVars, payloadVars,
                 cs, writerVars, workVars>>

\* The calendar day turns; queued scores keep the day they were encoded with.
NextDay ==
  /\ today < LastToday
  /\ today' = today + 1
  /\ UNCHANGED <<ingestVars, listVars, claimVars, payloadVars, cs, dirty, raced,
                 writerVars, workVars, faults>>

-----------------------------------------------------------------------------
(* claim_ingest: the loop under the lock, and claim_list *)

\* make_lease_owner_token draws a nonce that no live claim carries; which one does
\* not matter.
LiveTokens == {inflight[j] : j \in Jobs} \cup {c.tok : c \in claims}
FreshTokens == {t \in Tokens \ LiveTokens : \A u \in Tokens \ LiveTokens : t <= u}

NewClaim(j, tok, s, prot) ==
  [job |-> j, tok |-> tok, score |-> s, prot |-> prot, stage |-> "held"]

ClaimIngestBegin(band, want) ==
  /\ cs = Free
  /\ heap[band] # {}
  /\ \E tok \in FreshTokens :
       cs' = [op |-> "claim", band |-> band, left |-> want, tok |-> tok]
  /\ UNCHANGED <<today, ingestVars, listVars, claimVars, payloadVars, dirty, raced,
                 writerVars, workVars, faults>>

\* Mutant and original: heappop.
HeapMin_Any(h) == h
HeapMin(h) == {e \in h : \A f \in h : e[1] <= f[1]}

\* The popped entry is of a claimed or vanished identity: skip it.
ClaimSkip ==
  /\ cs.op = "claim" /\ cs.left > 0
  /\ \E e \in HeapMin(heap[cs.band]) :
       /\ InFlight(e[2]) \/ ingest[e[2]] = NoScore
       /\ heap' = [heap EXCEPT ![cs.band] = @ \ {e}]
  /\ UNCHANGED <<today, ingest, heapMax, ingestN, shadowIngest, listVars, claimVars,
                 payloadVars, cs, dirty, raced, writerVars, workVars, faults>>

\* The popped entry carries an old score: arm the live one again.
ClaimRearm ==
  /\ cs.op = "claim" /\ cs.left > 0
  /\ \E e \in HeapMin(heap[cs.band]) :
       LET i == e[2] IN
       /\ ~InFlight(i) /\ ingest[i] # NoScore /\ ingest[i] # e[1]
       /\ heap' = HeapPushed([heap EXCEPT ![cs.band] = @ \ {e}], i, ingest[i])
       /\ heapMax' = HeapMaxPushed(heapMax, ingest, i, ingest[i])
  /\ UNCHANGED <<today, ingest, ingestN, shadowIngest, listVars, claimVars,
                 payloadVars, cs, dirty, raced, writerVars, workVars, faults>>

ClaimTake ==
  /\ cs.op = "claim" /\ cs.left > 0
  /\ \E e \in HeapMin(heap[cs.band]) :
       LET i == e[2] IN
       /\ ~InFlight(i) /\ ingest[i] = e[1]
       /\ heap' = [heap EXCEPT ![cs.band] = @ \ {e}]
       /\ IngestPop(i)
       /\ inflight' = [inflight EXCEPT ![i] = cs.tok]
       /\ claimScore' = [claimScore EXCEPT ![i] = e[1]]
       /\ expired' = [expired EXCEPT ![i] = FALSE]
       /\ leases' = [leases EXCEPT ![i] = cs.tok]
       /\ claims' = claims \cup {NewClaim(i, cs.tok, e[1], TRUE)}
  /\ cs' = [cs EXCEPT !.left = @ - 1]
  /\ MarkDirty
  /\ UNCHANGED <<today, heapMax, listVars, attempts, writerVars, done, dead,
                 faults>>

ClaimIngestEnd ==
  /\ cs.op = "claim"
  /\ cs.left = 0 \/ heap[cs.band] = {}
  /\ cs' = Free
  /\ UNCHANGED <<today, ingestVars, listVars, claimVars, payloadVars, dirty, raced,
                 writerVars, workVars, faults>>

\* claim_list.  prot: the kind's coordinator keeps the claim in a map its reap
\* tick protects (append, day_close); a discover claim is not protected.
RemoveFirst(s, x) ==
  LET at == CHOOSE n \in 1..Len(s) : s[n] = x /\ \A m \in 1..(n - 1) : s[m] # x
  IN  [n \in 1..(Len(s) - 1) |-> IF n < at THEN s[n] ELSE s[n + 1]]

ClaimList(prot) ==
  /\ cs = Free
  /\ list # << >>
  /\ \E tok \in FreshTokens : LET l == Head(list) IN
       /\ list' = Tail(list)
       /\ pending' = pending \ {l}
       /\ shadowList' = IF shadowList # << >> /\ Head(shadowList) = l
                          THEN Tail(shadowList)
                          ELSE IF \E n \in 1..Len(shadowList) : shadowList[n] = l
                            THEN RemoveFirst(shadowList, l) ELSE shadowList
       /\ shadowPending' = shadowPending \ {l}
       /\ shadowAttempts' = [shadowAttempts EXCEPT ![l] = 0]
       /\ IF InFlight(l)
            THEN UNCHANGED <<claimVars, claims, dirty, raced>>
            ELSE /\ inflight' = [inflight EXCEPT ![l] = tok]
                 /\ leases' = [leases EXCEPT ![l] = tok]
                 /\ expired' = [expired EXCEPT ![l] = FALSE]
                 /\ claims' = claims \cup {NewClaim(l, tok, NoScore, prot)}
                 /\ MarkDirty
                 /\ UNCHANGED claimScore
  /\ UNCHANGED <<today, ingestVars, attempts, cs, writerVars, done, dead, faults>>

-----------------------------------------------------------------------------
(* What a coordinator does with a claim *)

\* Mutant and original: the owner check of ack and requeue.
Owns_Anyone(c) == InFlight(c.job)
Owns(c) == inflight[c.job] = c.tok

\* ack; the claim object is gone afterwards whether or not it still owned the job.
DoAck(c) ==
  IF Owns(c)
    THEN /\ ClearClaim(c.job)
         /\ attempts' = [attempts EXCEPT ![c.job] = 0]
         /\ pending' = pending \ {c.job}
    ELSE UNCHANGED <<claimVars, attempts, pending>>

\* requeue with score s (ignored for a LIST job).
DoRequeue(c, s) ==
  IF Owns(c)
    THEN /\ ClearClaim(c.job)
         /\ IF c.job \in IngestIds
              THEN IngestSet(c.job, s) /\ UNCHANGED listVars
              ELSE ListPush(c.job) /\ UNCHANGED ingestVars
         /\ MarkDirty
    ELSE UNCHANGED <<claimVars, ingestVars, listVars, shadowAttempts, dirty, raced>>

\* The work succeeded: ack, then remove_queue_dead_letter.
FinishOk(c) ==
  /\ cs = Free
  /\ c.stage = "held"
  /\ DoAck(c)
  /\ done' = done \cup {c.job}
  /\ dead' = dead \ {c.job}
  /\ claims' = claims \ {c}
  /\ UNCHANGED <<today, ingestVars, list, shadowList, shadowPending, shadowAttempts,
                 cs, dirty, raced, writerVars, faults>>

\* The file is gone or still live: ack without work; discover finds it again.
FinishDropped(c) ==
  /\ cs = Free
  /\ Fault
  /\ c.stage = "held"
  /\ DoAck(c)
  /\ claims' = claims \ {c}
  /\ UNCHANGED <<today, ingestVars, list, shadowList, shadowPending, shadowAttempts,
                 cs, dirty, raced, writerVars, done, dead>>

\* Requeue without an attempt: same score (backpressure, shutdown, recycle),
\* penalized (fill skip), or penalized canonical score (reband).
Defer(c) ==
  /\ cs = Free
  /\ Fault
  /\ c.stage = "held"
  /\ \E s \in IF c.job \in IngestIds
                THEN {c.score, penalize_ingest_score(c.score),
                      penalize_ingest_score(encode_ingest_score(c.job))}
                ELSE {NoScore} :
       DoRequeue(c, s)
  /\ claims' = claims \ {c}
  /\ UNCHANGED <<today, attempts, cs, writerVars, done, dead>>

\* _retry_or_dead_letter, first lock region: bump_job_attempt.
FailBump(c) ==
  /\ cs = Free
  /\ Fault
  /\ c.stage = "held"
  /\ attempts' = [attempts EXCEPT ![c.job] = @ + 1]
  /\ IF Queued(c.job)
       THEN /\ shadowAttempts' = [shadowAttempts EXCEPT ![c.job] = attempts[c.job] + 1]
            /\ MarkDirty
       ELSE UNCHANGED <<shadowAttempts, dirty, raced>>
  /\ claims' = (claims \ {c}) \cup
       {[c EXCEPT !.stage = IF attempts[c.job] + 1 < MAX_ATTEMPTS
                              THEN "retry" ELSE "giveup"]}
  /\ UNCHANGED <<today, ingestVars, listVars, claimVars, cs, writerVars,
                 done, dead>>

FailRequeue(c) ==
  /\ cs = Free
  /\ c.stage = "retry"
  /\ DoRequeue(c, c.score)
  /\ claims' = claims \ {c}
  /\ UNCHANGED <<today, attempts, cs, writerVars, done, dead, faults>>

\* _dead_letter_claim: the sidecar entry is written before the ack, which follows
\* even when it could not be written.
DeadLetterUpsert(c) ==
  /\ c.stage = "giveup"
  /\ \/ dead' = dead \cup {c.job} /\ UNCHANGED faults
     \/ Fault /\ UNCHANGED dead
  /\ claims' = (claims \ {c}) \cup {[c EXCEPT !.stage = "dead"]}
  /\ UNCHANGED <<today, ingestVars, listVars, claimVars, payloadVars, cs, dirty, raced,
                 writerVars, done>>

DeadLetterAck(c) ==
  /\ cs = Free
  /\ c.stage = "dead"
  /\ DoAck(c)
  /\ claims' = claims \ {c}
  /\ UNCHANGED <<today, ingestVars, list, shadowList, shadowPending, shadowAttempts,
                 cs, dirty, raced, writerVars, done, dead, faults>>

\* An ingest claim that timed out stays in the local map behind a sentinel that
\* _ingest_reaper_skip_identities no longer protects.
TimeoutSentinel(c) ==
  /\ Fault
  /\ c.job \in IngestIds /\ c.prot /\ c.stage = "held"
  /\ claims' = (claims \ {c}) \cup {[c EXCEPT !.prot = FALSE]}
  /\ UNCHANGED <<today, ingestVars, listVars, claimVars, payloadVars, cs, dirty, raced,
                 writerVars, done, dead>>

\* The claim never reaches a local map, or its thread dies: an exception between
\* the claim and the submit, or a sentinel dropped.
LoseClaim(c) ==
  /\ Fault
  /\ claims' = claims \ {c}
  /\ UNCHANGED <<today, ingestVars, listVars, claimVars, payloadVars, cs, dirty, raced,
                 writerVars, done, dead>>

-----------------------------------------------------------------------------
(* Recovery of claims *)

\* A deadline passes (time stands still while a reap compares deadlines).
Expire(j) ==
  /\ cs = Free
  /\ InFlight(j) /\ ~expired[j]
  /\ expired' = [expired EXCEPT ![j] = TRUE]
  /\ UNCHANGED <<today, ingestVars, listVars, inflight, claimScore, leases, payloadVars,
                 cs, dirty, raced, writerVars, workVars, faults>>

\* Mutant: the tick protects every in-flight identity of the store rather than those
\* of the local maps.
Protected_All(kind) == {j \in kind : InFlight(j)}

Protected(kind) == {c.job : c \in {d \in claims : d.prot /\ d.job \in kind}}

\* _reap_stale_inflight: extend_inflight_deadline for the identities held locally
\* (it has no owner check), then enter reap_expired_inflight.
ReapBegin(kind) ==
  /\ cs = Free
  /\ \E j \in kind : expired[j]
  /\ expired' = [j \in Jobs |-> expired[j] /\ j \notin Protected(kind)]
  /\ cs' = [op |-> "reap", kind |-> kind, left |-> REAP_LIMIT]
  /\ UNCHANGED <<today, ingestVars, listVars, inflight, claimScore, leases, payloadVars,
                 dirty, raced, writerVars, workVars, faults>>

ReapOne(j) ==
  /\ cs.op = "reap" /\ cs.left > 0
  /\ j \in cs.kind /\ InFlight(j) /\ expired[j]
  /\ ClearClaim(j)
  /\ IF j \in IngestIds
       THEN IngestSet(j, penalize_ingest_score(claimScore[j])) /\ UNCHANGED listVars
       ELSE ListPush(j) /\ UNCHANGED ingestVars
  /\ cs' = [cs EXCEPT !.left = @ - 1]
  /\ MarkDirty
  /\ UNCHANGED <<today, attempts, writerVars, workVars, faults>>

ReapEnd ==
  /\ cs.op = "reap"
  /\ cs.left = 0 \/ \A j \in cs.kind : ~expired[j]
  /\ cs' = Free
  /\ UNCHANGED <<today, ingestVars, listVars, claimVars, payloadVars, dirty, raced,
                 writerVars, workVars, faults>>

-----------------------------------------------------------------------------
(* The persist thread: WriteBehindWriter._attempt around _persist_write *)

PersistBegin ==
  /\ wpc = "idle" /\ dirty
  /\ wpc' = "gen"
  /\ raced' = FALSE
  /\ UNCHANGED <<today, ingestVars, listVars, claimVars, payloadVars, cs, dirty, copy,
                 disk, workVars, faults>>

\* Mutant and original: payload rows _prune_orphan_payloads_locked keeps.
KeepsPayload_QueuedOnly(j) == OnQueue(j)
KeepsPayload(j) == OnQueue(j) \/ InFlight(j)

PersistCopy ==
  /\ wpc = "gen" /\ cs = Free
  /\ wpc' = "save"
  /\ attempts' = [j \in Jobs |-> IF KeepsPayload(j) THEN attempts[j] ELSE 0]
  /\ shadowAttempts' = [j \in Jobs |-> IF OnQueue(j) THEN shadowAttempts[j] ELSE 0]
  /\ copy' = [Durable EXCEPT !.attempts = shadowAttempts']
  /\ UNCHANGED <<today, ingestVars, listVars, claimVars, cs, dirty, raced, disk, workVars, faults>>

PersistSave ==
  /\ wpc = "save"
  /\ disk' = copy
  /\ wpc' = "saved"
  /\ UNCHANGED <<today, ingestVars, listVars, claimVars, payloadVars, cs, dirty, raced,
                 copy, workVars, faults>>

PersistFail ==
  /\ Fault
  /\ wpc = "save"
  /\ wpc' = "idle" /\ raced' = FALSE /\ copy' = EmptySnapshot
  /\ UNCHANGED <<today, ingestVars, listVars, claimVars, payloadVars, cs, dirty, disk, workVars>>

\* Mutant and original: _attempt keeps the dirty flag when a change raced the write.
StillDirty_Never == FALSE
StillDirty == dirty /\ raced

PersistDone ==
  /\ wpc = "saved"
  /\ wpc' = "idle" /\ raced' = FALSE /\ copy' = EmptySnapshot
  /\ dirty' = StillDirty
  /\ UNCHANGED <<today, ingestVars, listVars, claimVars, payloadVars, cs, disk,
                 workVars, faults>>

\* The process dies and a new one runs __init__ and load: claims, leases and
\* everything not in the sidecar are gone.
CrashRestart ==
  /\ Fault
  /\ ingest' = disk.ingest
  /\ heap' = [b \in Bands |->
       {<<disk.ingest[i], i>> : i \in {k \in IngestIds : /\ disk.ingest[k] # NoScore
                                      /\ decode_ingest_band(disk.ingest[k]) = b}}]
  /\ heapMax' = LiveCatchup(disk.ingest)
  /\ ingestN' = [b \in Bands |->
       Cardinality({i \in IngestIds : /\ disk.ingest[i] # NoScore
                                      /\ decode_ingest_band(disk.ingest[i]) = b})]
  /\ list' = disk.list /\ pending' = disk.pending
  /\ inflight' = [j \in Jobs |-> NoTok]
  /\ claimScore' = [i \in IngestIds |-> NoScore]
  /\ expired' = [j \in Jobs |-> FALSE]
  /\ leases' = [j \in Jobs |-> NoTok]
  /\ attempts' = [j \in Jobs |->
       IF IF j \in IngestIds THEN disk.ingest[j] # NoScore
                             ELSE \E n \in 1..Len(disk.list) : disk.list[n] = j
         THEN disk.attempts[j] ELSE 0]
  /\ shadowIngest' = disk.ingest
  /\ shadowList' = disk.list /\ shadowPending' = disk.pending
  /\ shadowAttempts' = attempts'
  /\ cs' = Free
  /\ dirty' = FALSE /\ wpc' = "idle" /\ raced' = FALSE
  /\ copy' = EmptySnapshot
  /\ claims' = {}
  /\ UNCHANGED <<today, disk, done, dead>>

-----------------------------------------------------------------------------
Produce == \/ \E i \in IngestIds, overCap \in BOOLEAN : ZaddIngest(i, overCap)
           \/ \E l \in ListIds : EnqueueList(l)
           \/ \E i \in IngestIds : EvictYoungest(i)
           \/ ReorderList
           \/ NextDay

ClaimIngest == \/ \E b \in Bands, n \in 1..ClaimMax : ClaimIngestBegin(b, n)
               \/ ClaimSkip
               \/ ClaimRearm
               \/ ClaimTake
               \/ ClaimIngestEnd

Resolve(c) == \/ FinishOk(c)
              \/ FinishDropped(c)
              \/ Defer(c)
              \/ FailBump(c)
              \/ FailRequeue(c)
              \/ DeadLetterUpsert(c)
              \/ DeadLetterAck(c)
              \/ TimeoutSentinel(c)
              \/ LoseClaim(c)

Recover == \/ \E j \in Jobs : Expire(j)
           \/ ReapBegin(IngestIds)
           \/ ReapBegin(ListIds)
           \/ \E j \in Jobs : ReapOne(j)
           \/ ReapEnd

Persist == PersistBegin \/ PersistCopy \/ PersistSave \/ PersistFail \/ PersistDone

Next == \/ Produce
        \/ ClaimIngest
        \/ \E prot \in BOOLEAN : ClaimList(prot)
        \/ \E c \in claims : Resolve(c)
        \/ Recover
        \/ Persist
        \/ CrashRestart

Spec == Init /\ [][Next]_vars

\* Fairness: producers rediscover unfinished work (discover and reconstruct run on
\* a timer), coordinators keep claiming from both bands, every claim a thread still
\* holds is resolved, deadlines pass and the reap tick runs.  Strong fairness: each
\* of these waits for the store lock, which is held only for short loops.
Fairness ==
  /\ \A i \in IngestIds : SF_vars(ZaddIngest(i, FALSE))
  /\ \A l \in ListIds : SF_vars(EnqueueList(l))
  /\ \A b \in Bands : SF_vars(\E n \in 1..ClaimMax : ClaimIngestBegin(b, n))
  /\ SF_vars(\E prot \in BOOLEAN : ClaimList(prot))
  /\ \A j \in Jobs :
       /\ SF_vars(\E c \in claims : c.job = j /\ (\/ FinishOk(c)
                                                  \/ FailRequeue(c)
                                                  \/ DeadLetterUpsert(c)
                                                  \/ DeadLetterAck(c)))
       /\ SF_vars(Expire(j))
  /\ SF_vars(ReapBegin(IngestIds)) /\ SF_vars(ReapBegin(ListIds))
  /\ WF_vars(ClaimSkip \/ ClaimRearm \/ ClaimTake \/ ClaimIngestEnd)
  /\ WF_vars((\E j \in Jobs : ReapOne(j)) \/ ReapEnd)

FairSpec == Spec /\ Fairness

-----------------------------------------------------------------------------
(* Properties *)

ScoreMaps == [IngestIds -> Int]
Snapshots == [ingest : ScoreMaps, list : Seq(ListIds), pending : SUBSET ListIds,
              attempts : [Jobs -> Nat]]
Claims == [job : Jobs, tok : Nat, score : Int, prot : BOOLEAN,
           stage : {"held", "retry", "giveup", "dead"}]
Sections == {Free}
  \cup [op : {"claim"}, band : Bands, left : Nat, tok : Nat]
  \cup [op : {"reap"}, kind : {IngestIds, ListIds}, left : Nat]

\* The type of every variable of the store, its persist thread and coordinators.
TypeOK ==
  /\ today \in Nat
  /\ ingest \in ScoreMaps
  /\ heap \in [Bands -> SUBSET (Int \X IngestIds)]
  /\ heapMax \subseteq Int \X IngestIds
  /\ ingestN \in [Bands -> Nat]
  /\ list \in Seq(ListIds) /\ pending \subseteq ListIds
  /\ inflight \in [Jobs -> Nat] /\ leases \in [Jobs -> Nat]
  /\ claimScore \in ScoreMaps
  /\ expired \in [Jobs -> BOOLEAN]
  /\ attempts \in [Jobs -> Nat]
  /\ shadowIngest \in ScoreMaps
  /\ shadowList \in Seq(ListIds) /\ shadowPending \subseteq ListIds
  /\ shadowAttempts \in [Jobs -> Nat]
  /\ cs \in Sections
  /\ dirty \in BOOLEAN /\ raced \in BOOLEAN
  /\ wpc \in {"idle", "gen", "save", "saved"}
  /\ copy \in Snapshots /\ disk \in Snapshots
  /\ claims \subseteq Claims
  /\ done \subseteq Jobs /\ dead \subseteq Jobs
  /\ faults \in Nat

\* A job is queued or in flight, never both; a LIST holds no identity twice and
\* its dedupe set is exactly its content.
QueueExclusive ==
  /\ \A j \in Jobs : ~(OnQueue(j) /\ InFlight(j))
  /\ \A m, n \in 1..Len(list) : list[m] = list[n] => m = n
  /\ \A l \in ListIds : l \in pending <=> OnQueue(l)

\* A job has a lease exactly while it is in flight, with the same owner.
LeaseMatchesInflight == leases = inflight

\* A claim the coordinator's reap tick protects still owns its job in the store:
\* no late ack, requeue, reap or second claim took it away.
ProtectedClaimOwned == \A c \in claims : c.prot => Owns(c)

\* The incrementally kept durable shadow is the queued work and its payload rows.
ShadowMirrorsQueues ==
  /\ shadowIngest = ingest
  /\ shadowList = list
  /\ shadowPending = pending
  /\ \A j \in Jobs : shadowAttempts[j] = IF OnQueue(j) THEN attempts[j] ELSE 0

\* When nothing is marked dirty and no write is under way, the sidecar on disk is
\* the queued work: a mutation that races a write is never dropped.
CleanMeansDurable == wpc = "idle" /\ ~dirty => disk = Durable

\* Every queued file has its live entry in the heap its band is claimed from, and
\* every queued backfill file in the max-heap eviction reads: none is unreachable.
HeapArmed ==
  \A i \in QueuedIngest :
    /\ <<ingest[i], i>> \in heap[decode_ingest_band(ingest[i])]
    /\ decode_ingest_band(ingest[i]) = "catchup" => <<ingest[i], i>> \in heapMax

\* However often a backfill file is penalized, requeued, reaped or reloaded, its
\* score stays in its own calendar day.
DaySlot ==
  \A i \in QueuedIngest :
    decode_ingest_band(ingest[i]) = "catchup" =>
      decode_catchup_calendar_day(ingest[i]) = FileDay[i]

ClaimsOldest ==
  \A i \in IngestIds :
    ~InFlight(i) /\ inflight'[i] # NoTok =>
      \A k \in QueuedIngest :
        decode_ingest_band(ingest[k]) = decode_ingest_band(ingest[i]) =>
          ingest[i] <= ingest[k]

\* A claim takes the lowest score queued in its band, stale heap entries and all.
ClaimTakesOldest == [][ClaimsOldest]_vars

Known(j) == OnQueue(j) \/ InFlight(j)

KeepsAttempts ==
  \A j \in Jobs : Known(j) /\ Known(j)' /\ ~CrashRestart => attempts'[j] >= attempts[j]

\* The attempt counter of a job that stays in the store never goes back, through
\* claims, requeues, reaps and snapshot pruning; only a restart may lower it.
AttemptsKept == [][KeepsAttempts]_vars

\* Every file and LIST job is eventually finished or dead-lettered, whatever claims
\* are lost, deferred, evicted or wiped by a restart on the way.
AllWorkResolved == <>(\A j \in Jobs : j \in done \/ j \in dead)
=============================================================================
