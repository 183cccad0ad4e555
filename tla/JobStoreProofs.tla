--------------------------- MODULE JobStoreProofs ---------------------------
(***************************************************************************)
(* The job store, for any jobs, coordinators and bounds: its types; who    *)
(* owns a claim and its lease; the arithmetic of ingest scores, which      *)
(* keeps a backfill file in the slot of its day; its queues and their      *)
(* durable shadow; its lazy heaps; and its snapshot sidecar.  Each part    *)
(* has an inductive invariant that rests on the ones before it.            *)
(***************************************************************************)
EXTENDS JobStore, FiniteSetTheorems, SequenceTheorems, TLAPS

-----------------------------------------------------------------------------
(* Types of the operators the actions are built from *)

\* A penalized score is an integer.
LEMMA PenalizeType ==
  ASSUME NEW s \in Int
  PROVE  penalize_ingest_score(s) \in Int
BY ScoreAssumption DEF penalize_ingest_score

\* encode_ingest_score yields an integer.
LEMMA EncodeType ==
  ASSUME NEW i \in IngestIds, today \in Nat
  PROVE  encode_ingest_score(i) \in Int
BY ScoreAssumption DEF encode_ingest_score

\* Every score decodes to one of the two bands.
LEMMA BandType ==
  ASSUME NEW s
  PROVE  decode_ingest_band(s) \in Bands
BY DEF decode_ingest_band, Bands

\* Pushing to the max-heap, with or without the rebuild that drops stale
\* entries, keeps it a set of scored identities.
LEMMA HeapMaxType ==
  ASSUME NEW hm \in SUBSET (Int \X IngestIds), NEW ing \in ScoreMaps,
         NEW i \in IngestIds, NEW s \in Int
  PROVE  HeapMaxPushed(hm, ing, i, s) \in SUBSET (Int \X IngestIds)
<1>1. LiveCatchup(ing) \subseteq Int \X IngestIds
  BY DEF LiveCatchup, ScoreMaps
<1> QED BY <1>1 DEF HeapMaxPushed

\* _ingest_set_locked keeps map, heaps, counters and shadow in their types.
LEMMA IngestSetType ==
  ASSUME TypeOK, NEW i \in IngestIds, NEW s \in Int, IngestSet(i, s)
  PROVE  /\ ingest' \in ScoreMaps
         /\ heap' \in [Bands -> SUBSET (Int \X IngestIds)]
         /\ heapMax' \subseteq Int \X IngestIds
         /\ ingestN' \in [Bands -> Nat]
         /\ shadowIngest' \in ScoreMaps
         /\ shadowAttempts' \in [Jobs -> Nat]
<1>1. ingest' \in ScoreMaps /\ shadowIngest' \in ScoreMaps
  BY DEF IngestSet, TypeOK, ScoreMaps
<1>2. heap' \in [Bands -> SUBSET (Int \X IngestIds)]
  BY BandType DEF IngestSet, TypeOK, HeapPushed
<1>3. heapMax' \subseteq Int \X IngestIds
  BY <1>1, HeapMaxType DEF IngestSet, TypeOK
<1>4. ingestN' \in [Bands -> Nat]
  <2>1. ASSUME NEW n \in [Bands -> Nat], NEW t
        PROVE  BandDec(n, t) \in [Bands -> Nat] /\ BandInc(n, t) \in [Bands -> Nat]
    BY BandType DEF BandDec, BandInc
  <2> QED BY <2>1 DEF IngestSet, TypeOK
<1>5. shadowAttempts' \in [Jobs -> Nat]
  BY DEF IngestSet, TypeOK, Jobs
<1> QED BY <1>1, <1>2, <1>3, <1>4, <1>5

\* _ingest_pop_locked keeps map, counters and shadow in their types.
LEMMA IngestPopType ==
  ASSUME TypeOK, NEW i \in IngestIds, IngestPop(i)
  PROVE  /\ ingest' \in ScoreMaps
         /\ ingestN' \in [Bands -> Nat]
         /\ shadowIngest' \in ScoreMaps
         /\ shadowAttempts' \in [Jobs -> Nat]
<1>1. ingestN' \in [Bands -> Nat]
  BY BandType DEF IngestPop, TypeOK, BandDec
<1> QED BY <1>1 DEF IngestPop, TypeOK, Jobs, ScoreMaps, NoScore

\* Appending to a LIST and its shadow keeps both in their types.
LEMMA ListPushType ==
  ASSUME TypeOK, NEW l \in ListIds, ListPush(l)
  PROVE  /\ list' \in Seq(ListIds)
         /\ pending' \subseteq ListIds
         /\ shadowList' \in Seq(ListIds)
         /\ shadowPending' \subseteq ListIds
         /\ shadowAttempts' \in [Jobs -> Nat]
BY DEF ListPush, TypeOK, Jobs

\* Dropping a claim and its lease keeps the claim maps in their types.
LEMMA ClearClaimType ==
  ASSUME TypeOK, NEW j \in Jobs, ClearClaim(j)
  PROVE  /\ inflight' \in [Jobs -> Nat]
         /\ leases' \in [Jobs -> Nat]
         /\ expired' \in [Jobs -> BOOLEAN]
         /\ claimScore' \in ScoreMaps
BY DEF ClearClaim, TypeOK, ScoreMaps, NoTok, NoScore

\* The record handed out for a job is a claim.
LEMMA ClaimType ==
  ASSUME NEW j \in Jobs, NEW tok \in Nat, NEW s \in Int, NEW prot \in BOOLEAN
  PROVE  NewClaim(j, tok, s, prot) \in Claims
BY DEF NewClaim, Claims

\* ack keeps every variable it touches in its type.
LEMMA AckType ==
  ASSUME TypeOK, NEW c \in claims, DoAck(c)
  PROVE  /\ inflight' \in [Jobs -> Nat]
         /\ leases' \in [Jobs -> Nat]
         /\ expired' \in [Jobs -> BOOLEAN]
         /\ claimScore' \in ScoreMaps
         /\ attempts' \in [Jobs -> Nat]
         /\ pending' \subseteq ListIds
<1>1. c.job \in Jobs
  BY DEF TypeOK, Claims
<1>2. CASE Owns(c)
  <2>1. ClearClaim(c.job) /\ attempts' = [attempts EXCEPT ![c.job] = 0]
        /\ pending' = pending \ {c.job}
    BY <1>2 DEF DoAck
  <2> QED BY <1>1, <2>1, ClearClaimType DEF TypeOK
<1>3. CASE ~Owns(c)
  BY <1>3 DEF DoAck, claimVars, TypeOK
<1> QED BY <1>2, <1>3

\* requeue keeps every variable it touches in its type.
LEMMA RequeueType ==
  ASSUME TypeOK, NEW c \in claims, NEW s \in Int, DoRequeue(c, s)
  PROVE  /\ inflight' \in [Jobs -> Nat]
         /\ leases' \in [Jobs -> Nat]
         /\ expired' \in [Jobs -> BOOLEAN]
         /\ claimScore' \in ScoreMaps
         /\ ingest' \in ScoreMaps
         /\ heap' \in [Bands -> SUBSET (Int \X IngestIds)]
         /\ heapMax' \subseteq Int \X IngestIds
         /\ ingestN' \in [Bands -> Nat]
         /\ shadowIngest' \in ScoreMaps
         /\ shadowAttempts' \in [Jobs -> Nat]
         /\ list' \in Seq(ListIds)
         /\ pending' \subseteq ListIds
         /\ shadowList' \in Seq(ListIds)
         /\ shadowPending' \subseteq ListIds
         /\ dirty' \in BOOLEAN /\ raced' \in BOOLEAN
<1>1. c.job \in Jobs
  BY DEF TypeOK, Claims
<1>2. CASE Owns(c)
  <2>1. ClearClaim(c.job) /\ MarkDirty
    BY <1>2 DEF DoRequeue
  <2>2. CASE c.job \in IngestIds
    <3>1. IngestSet(c.job, s) /\ UNCHANGED listVars
      BY <1>2, <2>2 DEF DoRequeue
    <3> QED BY <1>1, <2>1, <2>2, <3>1, ClearClaimType, IngestSetType
            DEF listVars, TypeOK, MarkDirty
  <2>3. CASE c.job \notin IngestIds
    <3>1. ListPush(c.job) /\ UNCHANGED ingestVars /\ c.job \in ListIds
      BY <1>1, <1>2, <2>3 DEF DoRequeue, Jobs
    <3> QED BY <1>1, <2>1, <3>1, ClearClaimType, ListPushType
            DEF ingestVars, TypeOK, MarkDirty
  <2> QED BY <2>2, <2>3
<1>3. CASE ~Owns(c)
  BY <1>3 DEF DoRequeue, claimVars, ingestVars, listVars, TypeOK
<1> QED BY <1>2, <1>3

\* The durable part of a typed store is a snapshot.
LEMMA SnapshotType ==
  /\ EmptySnapshot \in Snapshots
  /\ TypeOK => Durable \in Snapshots
<1>1. EmptySnapshot \in Snapshots
  BY DEF EmptySnapshot, Snapshots, ScoreMaps, NoScore
<1>2. TypeOK => Durable \in Snapshots
  BY DEF Durable, Snapshots, TypeOK
<1> QED BY <1>1, <1>2

\* The empty store satisfies the types.
LEMMA TypeInit == Init => TypeOK
<1> SUFFICES ASSUME Init PROVE TypeOK
  OBVIOUS
<1>1. today \in Nat /\ faults \in Nat
  BY LimitAssumption DEF Init
<1>2. /\ ingest \in ScoreMaps /\ shadowIngest \in ScoreMaps /\ claimScore \in ScoreMaps
      /\ heap \in [Bands -> SUBSET (Int \X IngestIds)] /\ heapMax \subseteq Int \X IngestIds
      /\ ingestN \in [Bands -> Nat]
  BY DEF Init, ScoreMaps, NoScore
<1>3. /\ list \in Seq(ListIds) /\ pending \subseteq ListIds
      /\ shadowList \in Seq(ListIds) /\ shadowPending \subseteq ListIds
  BY DEF Init
<1>4. /\ inflight \in [Jobs -> Nat] /\ leases \in [Jobs -> Nat]
      /\ expired \in [Jobs -> BOOLEAN]
      /\ attempts \in [Jobs -> Nat] /\ shadowAttempts \in [Jobs -> Nat]
  BY DEF Init, NoTok
<1>5. cs \in Sections /\ copy \in Snapshots /\ disk \in Snapshots
  BY SnapshotType DEF Init, Sections
<1>6. /\ dirty \in BOOLEAN /\ raced \in BOOLEAN
      /\ wpc \in {"idle", "gen", "save", "saved"}
      /\ claims \subseteq Claims /\ done \subseteq Jobs /\ dead \subseteq Jobs
  BY DEF Init
<1> QED BY <1>1, <1>2, <1>3, <1>4, <1>5, <1>6 DEF TypeOK

\* Producers (discover, reconstruct, eviction, reordering, a new day) preserve
\* the types.
LEMMA TypeProduce ==
  ASSUME TypeOK, Produce
  PROVE  TypeOK'
<1>1. ASSUME NEW i \in IngestIds, NEW overCap \in BOOLEAN, ZaddIngest(i, overCap)
      PROVE  TypeOK'
  <2>1. encode_ingest_score(i) \in Int
    BY EncodeType DEF TypeOK
  <2>2. IngestSet(i, encode_ingest_score(i)) /\ MarkDirty
    BY <1>1 DEF ZaddIngest
  <2> QED BY <1>1, <2>1, <2>2, IngestSetType
          DEF ZaddIngest, TypeOK, MarkDirty, listVars, claimVars, writerVars, workVars
<1>2. ASSUME NEW l \in ListIds, EnqueueList(l)
      PROVE  TypeOK'
  <2>1. ListPush(l) /\ MarkDirty
    BY <1>2 DEF EnqueueList
  <2> QED BY <1>2, <2>1, ListPushType
          DEF EnqueueList, TypeOK, MarkDirty, ingestVars, claimVars, writerVars, workVars
<1>3. ASSUME NEW w \in IngestIds, EvictYoungest(w)
      PROVE  TypeOK'
  <2>1. PICK e \in heapMax : /\ heapMax' = {f \in heapMax : f[1] <= e[1]} \ {e}
                             /\ IngestPop(e[2])
                             /\ attempts' = [attempts EXCEPT ![e[2]] = 0]
    BY <1>3 DEF EvictYoungest
  <2>2. e[2] \in IngestIds
    BY DEF TypeOK
  <2>3. MarkDirty /\ faults' \in Nat
    BY <1>3 DEF EvictYoungest, Fault, TypeOK
  <2> QED BY <1>3, <2>1, <2>2, <2>3, IngestPopType
          DEF EvictYoungest, TypeOK, MarkDirty, listVars, claimVars, writerVars, workVars
<1>4. ASSUME ReorderList
      PROVE  TypeOK'
  <2>1. PICK p \in [1..Len(list) -> 1..Len(list)] :
            /\ list' = [n \in 1..Len(list) |-> list[p[n]]]
            /\ shadowList' = list'
    BY <1>4 DEF ReorderList
  <2>2. list' \in Seq(ListIds)
    <3>1. Len(list) \in Nat /\ list' \in [1..Len(list) -> ListIds]
      BY <2>1 DEF TypeOK
    <3> QED BY <3>1, SeqDef
  <2>3. MarkDirty /\ faults' \in Nat
    BY <1>4 DEF ReorderList, Fault, TypeOK
  <2> QED BY <1>4, <2>1, <2>2, <2>3
          DEF ReorderList, TypeOK, MarkDirty, ingestVars, claimVars, payloadVars,
              writerVars, workVars
<1>5. ASSUME NextDay
      PROVE  TypeOK'
  BY <1>5 DEF NextDay, TypeOK, ingestVars, listVars, claimVars, payloadVars,
              writerVars, workVars
<1> QED BY <1>1, <1>2, <1>3, <1>4, <1>5 DEF Produce

\* A token minted for a call is a positive number.
LEMMA FreshTokenType ==
  ASSUME NEW t \in FreshTokens
  PROVE  t \in Nat \ {0}
BY LimitAssumption DEF FreshTokens

\* Each step of claim_ingest's loop under the lock preserves the types.
LEMMA TypeClaimIngest ==
  ASSUME TypeOK, ClaimIngest
  PROVE  TypeOK'
<1> USE DEF TypeOK
<1>1. ASSUME NEW b \in Bands, NEW n \in 1..ClaimMax, ClaimIngestBegin(b, n)
      PROVE  TypeOK'
  <2>1. PICK tok \in FreshTokens :
            cs' = [op |-> "claim", band |-> b, left |-> n, tok |-> tok]
    BY <1>1 DEF ClaimIngestBegin
  <2>2. tok \in Nat
    BY FreshTokenType
  <2>3. cs' \in Sections
    BY <2>1, <2>2, LimitAssumption DEF Sections
  <2> QED BY <1>1, <2>3 DEF ClaimIngestBegin, ingestVars, listVars, claimVars, payloadVars,
                            writerVars, workVars
<1>2. ASSUME ClaimSkip
      PROVE  TypeOK'
  <2>1. PICK e : heap' = [heap EXCEPT ![cs.band] = @ \ {e}]
    BY <1>2 DEF ClaimSkip
  <2>2. heap' \in [Bands -> SUBSET (Int \X IngestIds)]
    BY <2>1
  <2> QED BY <1>2, <2>2 DEF ClaimSkip, listVars, claimVars, payloadVars, writerVars, workVars
<1>3. ASSUME ClaimRearm
      PROVE  TypeOK'
  <2>1. cs.band \in Bands
    BY <1>3 DEF ClaimRearm, Sections, Free
  <2>2. PICK e \in heap[cs.band] :
          /\ heap' = HeapPushed([heap EXCEPT ![cs.band] = @ \ {e}], e[2], ingest[e[2]])
          /\ heapMax' = HeapMaxPushed(heapMax, ingest, e[2], ingest[e[2]])
    BY <1>3 DEF ClaimRearm, HeapMin
  <2>3. e[2] \in IngestIds /\ ingest[e[2]] \in Int
    BY <2>1 DEF ScoreMaps
  <2>4. heapMax' \subseteq Int \X IngestIds
    BY <2>2, <2>3, HeapMaxType
  <2>5. heap' \in [Bands -> SUBSET (Int \X IngestIds)]
    <3> DEFINE h == [heap EXCEPT ![cs.band] = @ \ {e}]
    <3>1. h \in [Bands -> SUBSET (Int \X IngestIds)]
      OBVIOUS
    <3>2. decode_ingest_band(ingest[e[2]]) \in Bands
      BY BandType
    <3>3. <<ingest[e[2]], e[2]>> \in Int \X IngestIds
      BY <2>3
    <3> HIDE DEF h
    <3>4. HeapPushed(h, e[2], ingest[e[2]]) \in [Bands -> SUBSET (Int \X IngestIds)]
      BY <3>1, <3>2, <3>3 DEF HeapPushed
    <3> QED BY <2>2, <3>4 DEF h
  <2> QED BY <1>3, <2>4, <2>5 DEF ClaimRearm, listVars, claimVars, payloadVars, writerVars,
                                  workVars
<1>4. ASSUME ClaimTake
      PROVE  TypeOK'
  <2>1. cs.band \in Bands /\ cs.tok \in Nat /\ cs.left \in Nat /\ cs.op = "claim"
    BY <1>4 DEF ClaimTake, Sections, Free
  <2>2. PICK e \in heap[cs.band] :
          /\ ingest[e[2]] = e[1]
          /\ heap' = [heap EXCEPT ![cs.band] = @ \ {e}]
          /\ IngestPop(e[2])
          /\ inflight' = [inflight EXCEPT ![e[2]] = cs.tok]
          /\ claimScore' = [claimScore EXCEPT ![e[2]] = e[1]]
          /\ expired' = [expired EXCEPT ![e[2]] = FALSE]
          /\ leases' = [leases EXCEPT ![e[2]] = cs.tok]
          /\ claims' = claims \cup {NewClaim(e[2], cs.tok, e[1], TRUE)}
    BY <1>4 DEF ClaimTake, HeapMin
  <2>3. e[2] \in IngestIds /\ e[1] \in Int /\ e[2] \in Jobs
    BY <2>1 DEF Jobs
  <2>4. heap' \in [Bands -> SUBSET (Int \X IngestIds)]
    BY <2>1, <2>2
  <2>5. /\ inflight' \in [Jobs -> Nat] /\ leases' \in [Jobs -> Nat]
        /\ expired' \in [Jobs -> BOOLEAN] /\ claimScore' \in ScoreMaps
    BY <2>1, <2>2, <2>3 DEF ScoreMaps
  <2>6. claims' \subseteq Claims
    BY <2>1, <2>2, <2>3, ClaimType
  <2>7. cs' \in Sections
    <3>1. cs \in [op : {"claim"}, band : Bands, left : Nat, tok : Nat]
      BY <2>1 DEF Sections, Free
    <3>2. cs' = [cs EXCEPT !.left = @ - 1] /\ cs.left > 0
      BY <1>4 DEF ClaimTake
    <3>3. cs.left - 1 \in Nat
      BY <2>1, <3>2
    <3>4. cs' \in [op : {"claim"}, band : Bands, left : Nat, tok : Nat]
      BY <3>1, <3>2, <3>3
    <3> QED BY <3>4 DEF Sections
  <2> QED BY <1>4, <2>2, <2>3, <2>4, <2>5, <2>6, <2>7, IngestPopType
          DEF ClaimTake, MarkDirty, listVars, writerVars
<1>5. ASSUME ClaimIngestEnd
      PROVE  TypeOK'
  BY <1>5 DEF ClaimIngestEnd, Sections, ingestVars, listVars, claimVars, payloadVars,
              writerVars, workVars
<1> QED BY <1>1, <1>2, <1>3, <1>4, <1>5 DEF ClaimIngest

\* Removing the first occurrence of an identity leaves a sequence of
\* identities.
LEMMA RemoveFirstType ==
  ASSUME NEW s \in Seq(ListIds), NEW x, \E n \in 1..Len(s) : s[n] = x
  PROVE  RemoveFirst(s, x) \in Seq(ListIds)
<1> DEFINE at == CHOOSE n \in 1..Len(s) : s[n] = x /\ \A m \in 1..(n - 1) : s[m] # x
           r == [n \in 1..(Len(s) - 1) |-> IF n < at THEN s[n] ELSE s[n + 1]]
<1>1. Len(s) - 1 \in Nat /\ \A n \in 1..(Len(s) - 1) : n \in 1..Len(s) /\ n + 1 \in 1..Len(s)
  OBVIOUS
<1> HIDE DEF at
<1>2. r \in [1..(Len(s) - 1) -> ListIds]
  BY <1>1
<1>3. r \in Seq(ListIds)
  BY <1>1, <1>2, SeqDef
<1> QED BY <1>3 DEF RemoveFirst, at

\* claim_list preserves the types.
LEMMA TypeClaimList ==
  ASSUME TypeOK, NEW prot \in BOOLEAN, ClaimList(prot)
  PROVE  TypeOK'
<1> USE DEF TypeOK
<1> DEFINE l == Head(list)
<1>1. l \in ListIds /\ l \in Jobs /\ Tail(list) \in Seq(ListIds)
  BY DEF ClaimList, Jobs
<1>2. PICK tok \in FreshTokens :
        /\ shadowList' = IF shadowList # << >> /\ Head(shadowList) = l
                           THEN Tail(shadowList)
                           ELSE IF \E n \in 1..Len(shadowList) : shadowList[n] = l
                             THEN RemoveFirst(shadowList, l) ELSE shadowList
        /\ IF InFlight(l)
             THEN UNCHANGED <<claimVars, claims, dirty, raced>>
             ELSE /\ inflight' = [inflight EXCEPT ![l] = tok]
                  /\ leases' = [leases EXCEPT ![l] = tok]
                  /\ expired' = [expired EXCEPT ![l] = FALSE]
                  /\ claims' = claims \cup {NewClaim(l, tok, NoScore, prot)}
                  /\ MarkDirty
                  /\ UNCHANGED claimScore
  BY DEF ClaimList
<1>3. /\ list' = Tail(list)
      /\ pending' = pending \ {l}
      /\ shadowPending' = shadowPending \ {l}
      /\ shadowAttempts' = [shadowAttempts EXCEPT ![l] = 0]
      /\ UNCHANGED <<today, ingestVars, attempts, cs, writerVars, done, dead, faults>>
  BY DEF ClaimList
<1> HIDE DEF l
<1>4. shadowList' \in Seq(ListIds)
  BY <1>2, RemoveFirstType
<1>5. NewClaim(l, tok, NoScore, prot) \in Claims /\ tok \in Nat
  BY <1>1, FreshTokenType, ClaimType DEF NoScore
<1>6. /\ inflight' \in [Jobs -> Nat] /\ leases' \in [Jobs -> Nat]
      /\ expired' \in [Jobs -> BOOLEAN] /\ claims' \subseteq Claims
      /\ claimScore' \in ScoreMaps /\ dirty' \in BOOLEAN /\ raced' \in BOOLEAN
  BY <1>1, <1>2, <1>5 DEF claimVars, MarkDirty
<1> QED BY <1>1, <1>3, <1>4, <1>6 DEF ingestVars, writerVars

\* Counting a fault keeps the fault counter a natural number.
LEMMA FaultType ==
  ASSUME TypeOK, Fault
  PROVE  faults' \in Nat
BY DEF TypeOK, Fault

\* What a coordinator does with a claim (finish, defer, fail, dead-letter,
\* lose) preserves the types.
LEMMA TypeResolve ==
  ASSUME TypeOK, NEW c \in claims, Resolve(c)
  PROVE  TypeOK'
<1> USE DEF TypeOK
<1>1. c \in Claims /\ c.job \in Jobs /\ c.score \in Int /\ claims \ {c} \subseteq Claims
  BY DEF Claims
<1>2. ASSUME NEW st \in {"held", "retry", "giveup", "dead"}
      PROVE  [c EXCEPT !.stage = st] \in Claims
  BY <1>1 DEF Claims
<1>3. [c EXCEPT !.prot = FALSE] \in Claims
  BY <1>1 DEF Claims
<1>4. ASSUME FinishOk(c) PROVE TypeOK'
  BY <1>1, <1>4, AckType DEF FinishOk, ingestVars, writerVars
<1>5. ASSUME FinishDropped(c) PROVE TypeOK'
  BY <1>1, <1>5, AckType, FaultType DEF FinishDropped, ingestVars, writerVars
<1>6. ASSUME Defer(c) PROVE TypeOK'
  <2>1. PICK s : /\ s \in {c.score, penalize_ingest_score(c.score),
                           penalize_ingest_score(encode_ingest_score(c.job)), NoScore}
                 /\ c.job \notin IngestIds => s = NoScore
                 /\ DoRequeue(c, s)
    BY <1>6 DEF Defer
  <2>2. s \in Int
    <3>1. CASE c.job \in IngestIds
      <4>1. /\ encode_ingest_score(c.job) \in Int
            /\ penalize_ingest_score(c.score) \in Int
        BY <1>1, <3>1, EncodeType, PenalizeType
      <4>2. penalize_ingest_score(encode_ingest_score(c.job)) \in Int
        BY <4>1, PenalizeType
      <4> QED BY <1>1, <2>1, <4>1, <4>2 DEF NoScore
    <3>2. CASE c.job \notin IngestIds
      BY <2>1, <3>2 DEF NoScore
    <3> QED BY <3>1, <3>2
  <2>3. faults' \in Nat /\ claims' \subseteq Claims
    BY <1>1, <1>6, FaultType DEF Defer
  <2> QED BY <1>6, <2>1, <2>2, <2>3, RequeueType DEF Defer, writerVars
<1>7. ASSUME FailBump(c) PROVE TypeOK'
  <2>0. attempts[c.job] + 1 \in Nat
    BY <1>1
  <2>1. attempts' \in [Jobs -> Nat] /\ shadowAttempts' \in [Jobs -> Nat]
    BY <2>0, <1>7 DEF FailBump
  <2>2. claims' \subseteq Claims
    BY <1>1, <1>2, <1>7 DEF FailBump
  <2>3. dirty' \in BOOLEAN /\ raced' \in BOOLEAN
    BY <1>7 DEF FailBump, MarkDirty
  <2> QED BY <1>7, <2>1, <2>2, <2>3, FaultType
          DEF FailBump, ingestVars, listVars, claimVars, writerVars
<1>8. ASSUME FailRequeue(c) PROVE TypeOK'
  BY <1>1, <1>8, RequeueType DEF FailRequeue, writerVars
<1>9. ASSUME DeadLetterUpsert(c) PROVE TypeOK'
  <2>1. claims' \subseteq Claims /\ dead' \subseteq Jobs
    BY <1>1, <1>2, <1>9 DEF DeadLetterUpsert
  <2>2. faults' \in Nat
    BY <1>9, FaultType DEF DeadLetterUpsert
  <2> QED BY <1>9, <2>1, <2>2 DEF DeadLetterUpsert, ingestVars, listVars, claimVars, payloadVars,
                                 writerVars
<1>10. ASSUME DeadLetterAck(c) PROVE TypeOK'
  BY <1>1, <1>10, AckType DEF DeadLetterAck, ingestVars, writerVars
<1>11. ASSUME TimeoutSentinel(c) PROVE TypeOK'
  <2>1. claims' \subseteq Claims /\ faults' \in Nat
    BY <1>1, <1>3, <1>11, FaultType DEF TimeoutSentinel
  <2> QED BY <1>11, <2>1 DEF TimeoutSentinel, ingestVars, listVars, claimVars, payloadVars,
                             writerVars
<1>12. ASSUME LoseClaim(c) PROVE TypeOK'
  BY <1>1, <1>12, FaultType DEF LoseClaim, ingestVars, listVars, claimVars, payloadVars,
                                writerVars
<1> QED BY <1>4, <1>5, <1>6, <1>7, <1>8, <1>9, <1>10, <1>11, <1>12 DEF Resolve

\* Expiry of deadlines and the steps of the reap tick preserve the types.
LEMMA TypeRecover ==
  ASSUME TypeOK, Recover
  PROVE  TypeOK'
<1> USE DEF TypeOK
<1>1. ASSUME NEW j \in Jobs, Expire(j) PROVE TypeOK'
  BY <1>1 DEF Expire, ingestVars, listVars, payloadVars, writerVars, workVars
<1>2. ASSUME NEW kind \in {IngestIds, ListIds}, ReapBegin(kind) PROVE TypeOK'
  <2>1. cs' \in Sections
    <3>1. cs' \in [op : {"reap"}, kind : {IngestIds, ListIds}, left : Nat]
      BY <1>2, LimitAssumption DEF ReapBegin
    <3> QED BY <3>1 DEF Sections
  <2>2. expired' \in [Jobs -> BOOLEAN]
    BY <1>2 DEF ReapBegin
  <2> QED BY <1>2, <2>1, <2>2 DEF ReapBegin, ingestVars, listVars, payloadVars, writerVars,
                                  workVars
<1>3. ASSUME NEW j \in Jobs, ReapOne(j) PROVE TypeOK'
  <2>1. cs' \in Sections
    <3>1. cs \in [op : {"reap"}, kind : {IngestIds, ListIds}, left : Nat]
      BY <1>3 DEF ReapOne, Sections, Free
    <3>2. cs.left - 1 \in Nat /\ cs' = [cs EXCEPT !.left = @ - 1]
      BY <1>3, <3>1 DEF ReapOne
    <3>3. cs' \in [op : {"reap"}, kind : {IngestIds, ListIds}, left : Nat]
      BY <3>1, <3>2
    <3> QED BY <3>3 DEF Sections
  <2>2. ClearClaim(j) /\ MarkDirty
    BY <1>3 DEF ReapOne
  <2>3. CASE j \in IngestIds
    <3>1. penalize_ingest_score(claimScore[j]) \in Int
      BY <2>3, PenalizeType DEF ScoreMaps
    <3>2. IngestSet(j, penalize_ingest_score(claimScore[j])) /\ UNCHANGED listVars
      BY <1>3, <2>3 DEF ReapOne
    <3> QED BY <1>3, <2>1, <2>2, <2>3, <3>1, <3>2, ClearClaimType, IngestSetType
            DEF ReapOne, MarkDirty, listVars, writerVars, workVars
  <2>4. CASE j \notin IngestIds
    <3>1. j \in ListIds /\ ListPush(j) /\ UNCHANGED ingestVars
      BY <1>3, <2>4 DEF ReapOne, Jobs
    <3> QED BY <1>3, <2>1, <2>2, <3>1, ClearClaimType, ListPushType
            DEF ReapOne, MarkDirty, ingestVars, writerVars, workVars
  <2> QED BY <2>3, <2>4
<1>4. ASSUME ReapEnd PROVE TypeOK'
  BY <1>4 DEF ReapEnd, Sections, ingestVars, listVars, claimVars, payloadVars,
              writerVars, workVars
<1> QED BY <1>1, <1>2, <1>3, <1>4 DEF Recover

\* The persist thread's copy, save, failure and end preserve the types.
LEMMA TypePersist ==
  ASSUME TypeOK, Persist
  PROVE  TypeOK'
<1> USE DEF TypeOK
<1>1. ASSUME PersistBegin PROVE TypeOK'
  BY <1>1 DEF PersistBegin, ingestVars, listVars, claimVars, payloadVars, workVars
<1>2. ASSUME PersistCopy PROVE TypeOK'
  <2>1. attempts' \in [Jobs -> Nat] /\ shadowAttempts' \in [Jobs -> Nat]
    BY <1>2 DEF PersistCopy
  <2>2. copy' \in Snapshots
    BY <1>2, <2>1, SnapshotType DEF PersistCopy, Snapshots
  <2> QED BY <1>2, <2>1, <2>2 DEF PersistCopy, ingestVars, listVars, claimVars, workVars
<1>3. ASSUME PersistSave PROVE TypeOK'
  BY <1>3 DEF PersistSave, ingestVars, listVars, claimVars, payloadVars, workVars
<1>4. ASSUME PersistFail PROVE TypeOK'
  BY <1>4, SnapshotType, FaultType
     DEF PersistFail, ingestVars, listVars, claimVars, payloadVars, workVars
<1>5. ASSUME PersistDone PROVE TypeOK'
  BY <1>5, SnapshotType
     DEF PersistDone, StillDirty, ingestVars, listVars, claimVars, payloadVars, workVars
<1> QED BY <1>1, <1>2, <1>3, <1>4, <1>5 DEF Persist

\* A restart from the sidecar preserves the types.
LEMMA TypeCrashRestart ==
  ASSUME TypeOK, CrashRestart
  PROVE  TypeOK'
<1> USE DEF TypeOK
<1>1. /\ disk.ingest \in ScoreMaps /\ disk.list \in Seq(ListIds)
      /\ disk.pending \subseteq ListIds /\ disk.attempts \in [Jobs -> Nat]
  BY DEF Snapshots
<1>2. heap' \in [Bands -> SUBSET (Int \X IngestIds)]
  <2>1. ASSUME NEW b \in Bands
        PROVE {<<disk.ingest[i], i>> : i \in {k \in IngestIds : /\ disk.ingest[k] # NoScore
                                      /\ decode_ingest_band(disk.ingest[k]) = b}}
                \subseteq Int \X IngestIds
    BY <1>1 DEF ScoreMaps
  <2> QED BY <2>1 DEF CrashRestart
<1>3. heapMax' \subseteq Int \X IngestIds
  BY <1>1 DEF CrashRestart, LiveCatchup, ScoreMaps
<1>4. ingestN' \in [Bands -> Nat]
  <2>1. ASSUME NEW b \in Bands
        PROVE Cardinality({i \in IngestIds : /\ disk.ingest[i] # NoScore
                              /\ decode_ingest_band(disk.ingest[i]) = b}) \in Nat
    BY IdsAssumption, FS_Subset, FS_CardinalityType
  <2> QED BY <2>1 DEF CrashRestart
<1>5. attempts' \in [Jobs -> Nat] /\ shadowAttempts' \in [Jobs -> Nat]
  BY <1>1 DEF CrashRestart
<1>6. /\ inflight' \in [Jobs -> Nat] /\ leases' \in [Jobs -> Nat]
      /\ expired' \in [Jobs -> BOOLEAN] /\ claimScore' \in ScoreMaps
  BY DEF CrashRestart, NoTok, NoScore, ScoreMaps
<1>7. cs' \in Sections /\ copy' \in Snapshots /\ faults' \in Nat
  BY SnapshotType, FaultType DEF CrashRestart, Sections
<1>8. /\ ingest' \in ScoreMaps /\ shadowIngest' \in ScoreMaps
      /\ list' \in Seq(ListIds) /\ shadowList' \in Seq(ListIds)
      /\ pending' \subseteq ListIds /\ shadowPending' \subseteq ListIds
  BY <1>1 DEF CrashRestart
<1>9. /\ dirty' \in BOOLEAN /\ raced' \in BOOLEAN /\ wpc' = "idle" /\ claims' = {}
      /\ UNCHANGED <<today, disk, done, dead>>
  BY DEF CrashRestart
<1> QED BY <1>2, <1>3, <1>4, <1>5, <1>6, <1>7, <1>8, <1>9

\* Every step of the store, its coordinators and its persist thread preserves
\* the types.
LEMMA TypeStep == TypeOK /\ [Next]_vars => TypeOK'
<1> SUFFICES ASSUME TypeOK, [Next]_vars PROVE TypeOK'
  OBVIOUS
<1>1. CASE UNCHANGED vars
  BY <1>1 DEF TypeOK, vars, ingestVars, listVars, claimVars, payloadVars, writerVars, workVars
<1>2. CASE \E prot \in BOOLEAN : ClaimList(prot)
  BY <1>2, TypeClaimList
<1>3. CASE \E c \in claims : Resolve(c)
  BY <1>3, TypeResolve
<1> QED BY <1>1, <1>2, <1>3, TypeProduce, TypeClaimIngest, TypeRecover, TypePersist,
           TypeCrashRestart DEF Next

(* Type correctness: whatever the coordinators, the reap ticks, the persist thread
   and a crash do, every variable of the store keeps its type; in particular the
   band counters stay natural numbers and every heap entry names a raw file. *)
THEOREM TypeInvariant == Spec => []TypeOK
BY TypeInit, TypeStep, PTL DEF Spec

-----------------------------------------------------------------------------
(* Claims: owners, leases and protection *)

\* Every claim object carries a token, and no two claims of a job carry the same one.
ClaimsDistinct ==
  /\ \A c \in claims : c.tok # NoTok
  /\ \A c, d \in claims : c.job = d.job /\ c.tok = d.tok => c = d

\* While claim_ingest runs, the claims it has handed out own their jobs.
BatchOwned ==
  cs.op = "claim" => /\ cs.tok # NoTok
                     /\ \A c \in claims : c.tok = cs.tok => Owns(c)

\* While a reap runs, no job that the tick protects is expired.
ReapSpares ==
  cs.op = "reap" => \A c \in claims : c.prot /\ c.job \in cs.kind => ~expired[c.job]

\* The inductive invariant behind ProtectedClaimOwned.
ClaimInv == /\ LeaseMatchesInflight
            /\ ClaimsDistinct
            /\ ProtectedClaimOwned
            /\ BatchOwned
            /\ ReapSpares

-----------------------------------------------------------------------------
(* Facts about what every store method leaves behind *)

\* The empty store satisfies ClaimInv.
LEMMA ClaimInit == Init => ClaimInv
BY DEF Init, ClaimInv, LeaseMatchesInflight, ClaimsDistinct, ProtectedClaimOwned, BatchOwned,
       ReapSpares, Free

\* A step that leaves in-flight entries, claims and lock alone keeps the invariant.
LEMMA ClaimFrame ==
  ASSUME ClaimInv, UNCHANGED <<claimVars, claims, cs>>
  PROVE  ClaimInv'
BY DEF ClaimInv, LeaseMatchesInflight, ClaimsDistinct, ProtectedClaimOwned, BatchOwned,
       ReapSpares, Owns, claimVars

\* Removing a claim object and nothing else keeps the invariant.
LEMMA ClaimDropped ==
  ASSUME ClaimInv, NEW c \in claims, claims' = claims \ {c}, UNCHANGED <<claimVars, cs>>
  PROVE  ClaimInv'
BY DEF ClaimInv, LeaseMatchesInflight, ClaimsDistinct, ProtectedClaimOwned, BatchOwned,
       ReapSpares, Owns, claimVars

\* Replacing a claim by one of the same job and token that is no more protected
\* keeps the invariant.
LEMMA ClaimRestaged ==
  ASSUME ClaimInv, NEW c \in claims, NEW d,
         d.job = c.job, d.tok = c.tok, d.prot => c.prot,
         claims' = (claims \ {c}) \cup {d}, UNCHANGED <<claimVars, cs>>
  PROVE  ClaimInv'
BY DEF ClaimInv, LeaseMatchesInflight, ClaimsDistinct, ProtectedClaimOwned, BatchOwned,
       ReapSpares, Owns, claimVars

\* The owner gives its job back: no other claim loses anything.
LEMMA ClaimCleared ==
  ASSUME TypeOK, ClaimInv, NEW c \in claims, cs = Free, UNCHANGED cs, Owns(c),
         ClearClaim(c.job), claims' = claims \ {c}
  PROVE  ClaimInv'
<1>1. c.job \in Jobs
  BY DEF TypeOK, Claims
<1>2. \A d \in claims' : d.job = c.job => ~d.prot
  BY DEF ClaimInv, ClaimsDistinct, ProtectedClaimOwned, Owns
<1>3. \A d \in claims : d.job \in Jobs
  BY DEF TypeOK, Claims
<1>4. inflight' = [inflight EXCEPT ![c.job] = NoTok] /\ leases' = [leases EXCEPT ![c.job] = NoTok]
  BY DEF ClearClaim
<1>5. LeaseMatchesInflight'
  BY <1>4 DEF ClaimInv, LeaseMatchesInflight
<1>6. ProtectedClaimOwned'
  <2>1. ASSUME NEW d \in claims', d.prot PROVE inflight'[d.job] = d.tok
    <3>1. d \in claims /\ d.job # c.job /\ d.job \in Jobs
      BY <1>2, <1>3, <2>1
    <3>2. inflight[d.job] = d.tok
      BY <2>1, <3>1 DEF ClaimInv, ProtectedClaimOwned, Owns
    <3> QED BY <1>4, <3>1, <3>2 DEF TypeOK
  <2> QED BY <2>1 DEF ProtectedClaimOwned, Owns
<1>7. ClaimsDistinct'
  BY DEF ClaimInv, ClaimsDistinct
<1>8. BatchOwned' /\ ReapSpares'
  BY DEF BatchOwned, ReapSpares, Free
<1> QED BY <1>5, <1>6, <1>7, <1>8 DEF ClaimInv

-----------------------------------------------------------------------------
(* Steps that hand out, resolve or recover claims *)

\* A fresh token is on no claim and on no job.
LEMMA FreshToken ==
  ASSUME NEW tok \in FreshTokens
  PROVE  /\ tok # NoTok /\ tok \in Nat
         /\ \A c \in claims : c.tok # tok
         /\ \A j \in Jobs : inflight[j] # tok
BY LimitAssumption DEF FreshTokens, LiveTokens, NoTok

\* A job that is not in flight is claimed under a token no claim of the job carries.
LEMMA ClaimAdded ==
  ASSUME TypeOK, ClaimInv, NEW j \in Jobs, NEW tok \in Nat, tok # NoTok,
         NEW s \in Int, NEW prot \in BOOLEAN,
         ~InFlight(j),
         \A c \in claims : c.tok = tok => Owns(c),
         inflight' = [inflight EXCEPT ![j] = tok],
         leases' = [leases EXCEPT ![j] = tok],
         claims' = claims \cup {NewClaim(j, tok, s, prot)}
  PROVE  /\ LeaseMatchesInflight' /\ ClaimsDistinct' /\ ProtectedClaimOwned'
         /\ \A c \in claims' : c.tok = tok => inflight'[c.job] = c.tok
<1> DEFINE n == NewClaim(j, tok, s, prot)
<1>1. n.job = j /\ n.tok = tok
  BY DEF NewClaim
<1>2. \A c \in claims : c.tok = tok => c.job # j
  BY DEF InFlight, Owns
<1>3. \A c \in claims : c.prot => c.job # j
  BY DEF ClaimInv, ProtectedClaimOwned, ClaimsDistinct, Owns, InFlight
<1>4. \A c \in claims : c.job \in Jobs
  BY DEF TypeOK, Claims
<1>5. inflight'[j] = tok /\ \A k \in Jobs : k # j => inflight'[k] = inflight[k]
  BY DEF TypeOK
<1> HIDE DEF n
<1>6. claims' = claims \cup {n}
  BY DEF n
<1>7. LeaseMatchesInflight'
  BY DEF ClaimInv, LeaseMatchesInflight
<1>8. ClaimsDistinct'
  BY <1>1, <1>2, <1>6 DEF ClaimInv, ClaimsDistinct
<1>9. ProtectedClaimOwned'
  <2>1. ASSUME NEW c \in claims, c.prot PROVE inflight'[c.job] = c.tok
    BY <1>3, <1>4, <1>5, <2>1 DEF ClaimInv, ProtectedClaimOwned, Owns
  <2>2. inflight'[n.job] = n.tok
    BY <1>1, <1>5
  <2> QED BY <1>6, <2>1, <2>2 DEF ProtectedClaimOwned, Owns
<1>10. ASSUME NEW c \in claims', c.tok = tok PROVE inflight'[c.job] = c.tok
  <2>1. CASE c = n
    BY <1>1, <1>5, <2>1
  <2>2. CASE c \in claims
    BY <1>2, <1>4, <1>5, <1>10, <2>2 DEF Owns
  <2> QED BY <1>6, <1>10, <2>1, <2>2
<1> QED BY <1>7, <1>8, <1>9, <1>10

\* Producers (discover, reconstruct, eviction, reordering, a new day) preserve
\* ClaimInv.
LEMMA ClaimProduce ==
  ASSUME ClaimInv, Produce
  PROVE  ClaimInv'
<1>1. UNCHANGED <<claimVars, claims, cs>>
  BY DEF Produce, ZaddIngest, EnqueueList, EvictYoungest, ReorderList, NextDay, workVars
<1> QED BY <1>1, ClaimFrame

\* Each step of claim_ingest's loop under the lock preserves ClaimInv.
LEMMA ClaimClaimIngest ==
  ASSUME TypeOK, ClaimInv, ClaimIngest
  PROVE  ClaimInv'
<1>1. ASSUME NEW b \in Bands, NEW n \in 1..ClaimMax, ClaimIngestBegin(b, n)
      PROVE  ClaimInv'
  <2>1. PICK tok \in FreshTokens :
            cs' = [op |-> "claim", band |-> b, left |-> n, tok |-> tok]
    BY <1>1 DEF ClaimIngestBegin
  <2>2. UNCHANGED <<claimVars, claims>>
    BY <1>1 DEF ClaimIngestBegin, workVars
  <2>3. BatchOwned'
    BY <2>1, <2>2, FreshToken DEF BatchOwned
  <2>4. ReapSpares'
    BY <2>1 DEF ReapSpares
  <2> QED BY <2>2, <2>3, <2>4 DEF ClaimInv, LeaseMatchesInflight, ClaimsDistinct,
             ProtectedClaimOwned, Owns, claimVars
<1>2. ASSUME ClaimSkip \/ ClaimRearm PROVE ClaimInv'
  BY <1>2, ClaimFrame DEF ClaimSkip, ClaimRearm, workVars
<1>3. ASSUME ClaimTake PROVE ClaimInv'
  <2>1. cs.band \in Bands /\ cs.tok \in Nat /\ cs.op = "claim"
        /\ cs \in [op : {"claim"}, band : Bands, left : Nat, tok : Nat]
    BY <1>3 DEF ClaimTake, TypeOK, Sections, Free
  <2>2. PICK e \in heap[cs.band] :
          /\ ~InFlight(e[2])
          /\ inflight' = [inflight EXCEPT ![e[2]] = cs.tok]
          /\ leases' = [leases EXCEPT ![e[2]] = cs.tok]
          /\ claims' = claims \cup {NewClaim(e[2], cs.tok, e[1], TRUE)}
    BY <1>3 DEF ClaimTake, HeapMin
  <2>3. e[2] \in Jobs /\ e[1] \in Int
    BY <2>1 DEF TypeOK, Jobs
  <2>4. cs.tok # NoTok /\ \A c \in claims : c.tok = cs.tok => Owns(c)
    BY <2>1 DEF ClaimInv, BatchOwned
  <2>5. /\ LeaseMatchesInflight' /\ ClaimsDistinct' /\ ProtectedClaimOwned'
        /\ \A c \in claims' : c.tok = cs.tok => inflight'[c.job] = c.tok
    BY <2>1, <2>2, <2>3, <2>4, ClaimAdded
  <2>6. cs'.op = "claim" /\ cs'.tok = cs.tok
    BY <1>3, <2>1 DEF ClaimTake
  <2> QED BY <2>4, <2>5, <2>6 DEF ClaimInv, BatchOwned, ReapSpares, Owns
<1>4. ASSUME ClaimIngestEnd PROVE ClaimInv'
  BY <1>4 DEF ClaimIngestEnd, ClaimInv, LeaseMatchesInflight, ClaimsDistinct,
              ProtectedClaimOwned, BatchOwned, ReapSpares, Owns, claimVars, workVars, Free
<1> QED BY <1>1, <1>2, <1>3, <1>4 DEF ClaimIngest

\* claim_list preserves ClaimInv.
LEMMA ClaimClaimList ==
  ASSUME TypeOK, ClaimInv, NEW prot \in BOOLEAN, ClaimList(prot)
  PROVE  ClaimInv'
<1> DEFINE l == Head(list)
<1>1. l \in Jobs /\ cs = Free /\ UNCHANGED cs
  BY DEF ClaimList, TypeOK, Jobs
<1>2. PICK tok \in FreshTokens :
        IF InFlight(l)
          THEN UNCHANGED <<claimVars, claims>>
          ELSE /\ inflight' = [inflight EXCEPT ![l] = tok]
               /\ leases' = [leases EXCEPT ![l] = tok]
               /\ claims' = claims \cup {NewClaim(l, tok, NoScore, prot)}
  BY DEF ClaimList
<1> HIDE DEF l
<1>3. CASE InFlight(l)
  BY <1>1, <1>2, <1>3, ClaimFrame
<1>4. CASE ~InFlight(l)
  <2>1. LeaseMatchesInflight' /\ ClaimsDistinct' /\ ProtectedClaimOwned'
    BY <1>1, <1>2, <1>4, FreshToken, ClaimAdded DEF NoScore
  <2> QED BY <1>1, <2>1 DEF ClaimInv, BatchOwned, ReapSpares, Free
<1> QED BY <1>3, <1>4

\* What a coordinator does with a claim (finish, defer, fail, dead-letter,
\* lose) preserves ClaimInv.
LEMMA ClaimResolve ==
  ASSUME TypeOK, ClaimInv, NEW c \in claims, Resolve(c)
  PROVE  ClaimInv'
<1>0. c \in Claims
  BY DEF TypeOK
<1>1. ASSUME FinishOk(c) \/ FinishDropped(c) \/ DeadLetterAck(c) PROVE ClaimInv'
  <2>1. cs = Free /\ UNCHANGED cs /\ DoAck(c) /\ claims' = claims \ {c}
    BY <1>1 DEF FinishOk, FinishDropped, DeadLetterAck
  <2>2. CASE Owns(c)
    BY <2>1, <2>2, ClaimCleared DEF DoAck
  <2>3. CASE ~Owns(c)
    BY <2>1, <2>3, ClaimDropped DEF DoAck
  <2> QED BY <2>2, <2>3
<1>2. ASSUME Defer(c) \/ FailRequeue(c) PROVE ClaimInv'
  <2>1. cs = Free /\ UNCHANGED cs /\ claims' = claims \ {c} /\ \E s : DoRequeue(c, s)
    BY <1>2 DEF Defer, FailRequeue
  <2>2. CASE Owns(c)
    BY <2>1, <2>2, ClaimCleared DEF DoRequeue
  <2>3. CASE ~Owns(c)
    BY <2>1, <2>3, ClaimDropped DEF DoRequeue
  <2> QED BY <2>2, <2>3
<1>3. ASSUME FailBump(c) PROVE ClaimInv'
  <2> DEFINE d == [c EXCEPT !.stage = IF attempts[c.job] + 1 < MAX_ATTEMPTS
                                        THEN "retry" ELSE "giveup"]
  <2>1. claims' = (claims \ {c}) \cup {d} /\ UNCHANGED <<claimVars, cs>>
    BY <1>3 DEF FailBump
  <2>2. d.job = c.job /\ d.tok = c.tok /\ d.prot = c.prot
    BY <1>0 DEF Claims
  <2> HIDE DEF d
  <2> QED BY <2>1, <2>2, ClaimRestaged
<1>4. ASSUME DeadLetterUpsert(c) PROVE ClaimInv'
  <2> DEFINE d == [c EXCEPT !.stage = "dead"]
  <2>1. claims' = (claims \ {c}) \cup {d} /\ UNCHANGED <<claimVars, cs>>
    BY <1>4 DEF DeadLetterUpsert
  <2>2. d.job = c.job /\ d.tok = c.tok /\ d.prot = c.prot
    BY <1>0 DEF Claims
  <2> HIDE DEF d
  <2> QED BY <2>1, <2>2, ClaimRestaged
<1>5. ASSUME TimeoutSentinel(c) PROVE ClaimInv'
  <2> DEFINE d == [c EXCEPT !.prot = FALSE]
  <2>1. claims' = (claims \ {c}) \cup {d} /\ UNCHANGED <<claimVars, cs>>
    BY <1>5 DEF TimeoutSentinel
  <2>2. d.job = c.job /\ d.tok = c.tok /\ d.prot = FALSE
    BY <1>0 DEF Claims
  <2> HIDE DEF d
  <2> QED BY <2>1, <2>2, ClaimRestaged
<1>6. ASSUME LoseClaim(c) PROVE ClaimInv'
  BY <1>6, ClaimDropped DEF LoseClaim
<1> QED BY <1>1, <1>2, <1>3, <1>4, <1>5, <1>6 DEF Resolve

\* Expiry of deadlines and the steps of the reap tick preserve ClaimInv.
LEMMA ClaimRecover ==
  ASSUME TypeOK, ClaimInv, Recover
  PROVE  ClaimInv'
<1>0. \A c \in claims : c.job \in Jobs
  BY DEF TypeOK, Claims
<1>1. ASSUME NEW j \in Jobs, Expire(j) PROVE ClaimInv'
  BY <1>1 DEF Expire, ClaimInv, LeaseMatchesInflight, ClaimsDistinct, ProtectedClaimOwned,
              BatchOwned, ReapSpares, Owns, workVars, Free
<1>2. ASSUME NEW kind \in {IngestIds, ListIds}, ReapBegin(kind) PROVE ClaimInv'
  <2>1. /\ cs' = [op |-> "reap", kind |-> kind, left |-> REAP_LIMIT]
        /\ expired' = [j \in Jobs |-> expired[j] /\ j \notin Protected(kind)]
        /\ UNCHANGED <<inflight, leases, claims>>
    BY <1>2 DEF ReapBegin, workVars
  <2>2. ReapSpares'
    <3>1. ASSUME NEW c \in claims, c.prot, c.job \in kind PROVE ~expired'[c.job]
      BY <1>0, <2>1, <3>1 DEF Protected
    <3> QED BY <2>1, <3>1 DEF ReapSpares
  <2>3. BatchOwned'
    BY <2>1 DEF BatchOwned
  <2> QED BY <2>1, <2>2, <2>3 DEF ClaimInv, LeaseMatchesInflight, ClaimsDistinct,
             ProtectedClaimOwned, Owns
<1>3. ASSUME NEW j \in Jobs, ReapOne(j) PROVE ClaimInv'
  <2>1. /\ cs.op = "reap" /\ j \in cs.kind /\ expired[j] /\ ClearClaim(j)
        /\ UNCHANGED claims /\ cs' = [cs EXCEPT !.left = @ - 1]
    BY <1>3 DEF ReapOne, workVars
  <2>2. cs'.op = "reap" /\ cs'.kind = cs.kind
    BY <2>1 DEF TypeOK, Sections, Free
  <2>3. \A c \in claims : c.prot => c.job # j
    BY <2>1 DEF ClaimInv, ReapSpares
  <2>4. /\ \A k \in Jobs : k # j => inflight'[k] = inflight[k]
        /\ \A k \in Jobs : expired'[k] => expired[k]
    BY <2>1 DEF ClearClaim, TypeOK
  <2>5. LeaseMatchesInflight'
    BY <2>1 DEF ClearClaim, ClaimInv, LeaseMatchesInflight
  <2>6. ProtectedClaimOwned'
    BY <1>0, <2>1, <2>3, <2>4 DEF ClaimInv, ProtectedClaimOwned, Owns
  <2>7. ClaimsDistinct'
    BY <2>1 DEF ClaimInv, ClaimsDistinct
  <2>8. ReapSpares' /\ BatchOwned'
    BY <1>0, <2>1, <2>2, <2>4 DEF ClaimInv, ReapSpares, BatchOwned
  <2> QED BY <2>5, <2>6, <2>7, <2>8 DEF ClaimInv
<1>4. ASSUME ReapEnd PROVE ClaimInv'
  BY <1>4 DEF ReapEnd, ClaimInv, LeaseMatchesInflight, ClaimsDistinct,
              ProtectedClaimOwned, BatchOwned, ReapSpares, Owns, claimVars, workVars, Free
<1> QED BY <1>1, <1>2, <1>3, <1>4 DEF Recover

\* The persist thread's copy, save, failure and end preserve ClaimInv.
LEMMA ClaimPersist ==
  ASSUME ClaimInv, Persist
  PROVE  ClaimInv'
<1>1. UNCHANGED <<claimVars, claims, cs>>
  BY DEF Persist, PersistBegin, PersistCopy, PersistSave, PersistFail, PersistDone, workVars
<1> QED BY <1>1, ClaimFrame

\* A restart from the sidecar preserves ClaimInv.
LEMMA ClaimCrashRestart ==
  ASSUME CrashRestart
  PROVE  ClaimInv'
BY DEF CrashRestart, ClaimInv, LeaseMatchesInflight, ClaimsDistinct, ProtectedClaimOwned,
       BatchOwned, ReapSpares, Free

\* Every step of the store, its coordinators and its persist thread preserves
\* ClaimInv.
LEMMA ClaimStep == TypeOK /\ ClaimInv /\ [Next]_vars => ClaimInv'
<1> SUFFICES ASSUME TypeOK, ClaimInv, [Next]_vars PROVE ClaimInv'
  OBVIOUS
<1>1. CASE UNCHANGED vars
  BY <1>1, ClaimFrame DEF vars, workVars
<1>2. CASE \E prot \in BOOLEAN : ClaimList(prot)
  BY <1>2, ClaimClaimList
<1>3. CASE \E c \in claims : Resolve(c)
  BY <1>3, ClaimResolve
<1> QED BY <1>1, <1>2, <1>3, ClaimProduce, ClaimClaimIngest, ClaimRecover, ClaimPersist,
           ClaimCrashRestart DEF Next

(* The inductive invariant holds throughout. *)
THEOREM ClaimInvariant == Spec => []ClaimInv
BY TypeInvariant, ClaimInit, ClaimStep, PTL DEF Spec

(* A claim that the coordinator's reap tick protects owns its job in the store at
   every moment, however acks, requeues, reaps and other claims of the same job
   interleave (ack, requeue and reap_expired_inflight compare owner tokens; the
   tick extends the deadlines of the identities held locally). *)
THEOREM ProtectedClaimsOwned == Spec => []ProtectedClaimOwned
BY ClaimInvariant, PTL DEF ClaimInv

(* _leases and _inflight name the same owner for every job at every moment. *)
THEOREM LeasesMatch == Spec => []LeaseMatchesInflight
BY ClaimInvariant, PTL DEF ClaimInv

-----------------------------------------------------------------------------
(* Scores: no penalty, requeue, reap or reload moves a backfill file out of its day *)

-----------------------------------------------------------------------------
(* Arithmetic *)

\* Multiplication by a stride is monotone.
LEMMA MulMono ==
  ASSUME NEW k \in Nat, NEW a \in Int, NEW b \in Int, a <= b
  PROVE  a * k <= b * k
<1>1. (b - a) * k >= 0
  OBVIOUS
<1> QED BY <1>1

\* Every integer is a multiple of the stride plus a rest below it.
LEMMA DivModSplit ==
  ASSUME NEW k \in Nat \ {0}, NEW s \in Int
  PROVE  /\ s \div k \in Int /\ s % k \in 0..(k - 1)
         /\ s = ((s \div k) * k) + (s % k)
OBVIOUS

\* It is so in one way only.
LEMMA Unique ==
  ASSUME NEW k \in Nat \ {0}, NEW q \in Int, NEW r \in 0..(k - 1), NEW p \in Int, NEW t \in 0..(k - 1),
    (q * k) + r = (p * k) + t
  PROVE  q = p /\ r = t
<1>1. ~(q < p)
  <2> SUFFICES ASSUME q + 1 <= p PROVE FALSE
    OBVIOUS
  <2>1. (q + 1) * k <= p * k
    BY MulMono
  <2>2. (q + 1) * k = (q * k) + k
    OBVIOUS
  <2> QED BY <2>1, <2>2
<1>2. ~(p < q)
  <2> SUFFICES ASSUME p + 1 <= q PROVE FALSE
    OBVIOUS
  <2>1. (p + 1) * k <= q * k
    BY MulMono
  <2>2. (p + 1) * k = (p * k) + k
    OBVIOUS
  <2> QED BY <2>1, <2>2
<1>3. p = q
  BY <1>1, <1>2
<1> QED BY <1>3

\* Quotient and remainder of a division are unique.
LEMMA DivModUnique ==
  ASSUME NEW k \in Nat \ {0}, NEW q \in Int, NEW r \in 0..(k - 1)
  PROVE  ((q * k) + r) % k = r /\ ((q * k) + r) \div k = q
<1> DEFINE s == (q * k) + r
<1>1. s \in Int
  OBVIOUS
<1> HIDE DEF s
<1>2. /\ s \div k \in Int /\ s % k \in 0..(k - 1)
      /\ s = ((s \div k) * k) + (s % k)
   BY <1>1, DivModSplit
<1>3. s = (q * k) + r
  BY DEF s
<1>4. q = s \div k /\ r = s % k
  BY <1>2, <1>3, Unique
<1> QED BY <1>4 DEF s

-----------------------------------------------------------------------------
(* Day slots *)

\* s is a score, and if it lies in the catchup band, one of day d.
InDay(d, s) ==
  /\ s \in Nat
  /\ decode_ingest_band(s) = "catchup" => decode_catchup_calendar_day(s) = d

\* A catchup score of day d is the base, d whole days and a rest below the stride.
LEMMA SlotForm ==
  ASSUME NEW d \in Nat, NEW s \in Nat, s >= CATCHUP_SCORE_BASE
  PROVE  InDay(d, s) <=> \E r \in 0..(SCORE_STRIDE - 1) :
                            s = CATCHUP_SCORE_BASE + (d * SCORE_STRIDE) + r
<1> DEFINE K == SCORE_STRIDE
           x == s - CATCHUP_SCORE_BASE
<1>1. K \in Nat \ {0} /\ x \in Int /\ s = CATCHUP_SCORE_BASE + x /\ CATCHUP_SCORE_BASE \in Nat
  BY ScoreAssumption
<1>2. InDay(d, s) <=> x \div K = d
  BY <1>1 DEF InDay, decode_ingest_band, decode_catchup_calendar_day
<1> HIDE DEF K, x
<1>3. x % K \in 0..(K - 1) /\ x = ((x \div K) * K) + (x % K)
  BY <1>1, DivModSplit
<1>4. ASSUME x \div K = d PROVE \E r \in 0..(K - 1) : s = CATCHUP_SCORE_BASE + (d * K) + r
  BY <1>1, <1>3, <1>4
<1>5. ASSUME NEW r \in 0..(K - 1), s = CATCHUP_SCORE_BASE + (d * K) + r PROVE x \div K = d
  <2>1. x = (d * K) + r
    BY <1>1, <1>5
  <2> QED BY <1>1, <2>1, DivModUnique
<1> QED BY <1>2, <1>4, <1>5 DEF K

\* A penalty moves a score up, to the end of its day at most.
LEMMA PenalizeSlot ==
  ASSUME NEW d \in Nat, NEW s, InDay(d, s)
  PROVE  InDay(d, penalize_ingest_score(s))
<1> DEFINE K == SCORE_STRIDE
           B == CATCHUP_SCORE_BASE
           a == s \div K
           m == s % K
           q == B \div K
           p == penalize_ingest_score(s)
<1>0. s \in Nat /\ K \in Nat \ {0} /\ B \in Nat
  BY ScoreAssumption DEF InDay
<1>1. a \in Int /\ m \in 0..(K - 1) /\ s = (a * K) + m
  BY <1>0, DivModSplit
<1>2. q \in Int /\ B = q * K
  <2>1. q \in Int /\ B = (q * K) + (B % K)
    BY <1>0, DivModSplit
  <2> QED BY <1>0, <2>1, ScoreAssumption
<1>3. K \div 4 \in Nat
  BY <1>0
<1>4. p \in Nat /\ s <= p /\ p <= s - m + K - 1
  BY <1>0, <1>1, <1>3 DEF penalize_ingest_score
<1> HIDE DEF K, B, a, m, q, p
<1>5. CASE s < B
  <2>1. a + 1 <= q
    <3> SUFFICES ASSUME q <= a PROVE FALSE
      BY <1>1, <1>2
    <3>1. q * K <= a * K
      BY <1>0, <1>1, <1>2, MulMono
    <3> QED BY <1>0, <1>1, <1>2, <1>5, <3>1
  <2>2. (a + 1) * K <= q * K
    BY <1>0, <1>1, <1>2, <2>1, MulMono
  <2>3. (a + 1) * K = (a * K) + K
    BY <1>0, <1>1
  <2>4. p < B
    BY <1>0, <1>1, <1>2, <1>4, <2>2, <2>3
  <2> QED BY <1>4, <2>4 DEF InDay, decode_ingest_band, p, B
<1>6. CASE s >= B
  <2>1. PICK r \in 0..(K - 1) : s = B + (d * K) + r
    BY <1>0, <1>6, SlotForm DEF K, B
  <2>2. s = ((q + d) * K) + r
    BY <1>0, <1>2, <2>1
  <2>3. m = r
    <3> DEFINE u == q + d
    <3>1. u \in Int /\ (u * K) + r = (a * K) + m
      BY <1>1, <1>2, <2>2
    <3> HIDE DEF u
    <3> QED BY <1>0, <1>1, <3>1, Unique
  <2>4. \E t \in 0..(K - 1) : p = B + (d * K) + t
    <3>1. d * K \in Int
      BY <1>0
    <3> QED BY <1>0, <1>4, <2>1, <2>3, <3>1
  <2> QED BY <1>0, <1>4, <1>6, <2>4, SlotForm DEF K, B, p
<1> QED BY <1>0, <1>5, <1>6

\* A fresh score is below the catchup base or in the day of its file.
LEMMA EncodeSlot ==
  ASSUME NEW i \in IngestIds, today \in Nat
  PROVE  InDay(FileDay[i], encode_ingest_score(i))
<1> DEFINE K == SCORE_STRIDE
           B == CATCHUP_SCORE_BASE
           H == IF HotDays < 1 THEN 1 ELSE HotDays
           d == FileDay[i]
           t == Tie[i]
           x == today - d
<1>0. K \in Nat \ {0} /\ B \in Nat /\ H \in Nat /\ d \in Nat /\ t \in 0..(K - 1) /\ x \in Int
  BY ScoreAssumption, LimitAssumption
<1>1. CASE x < H
  <2>1. encode_ingest_score(i) = IF (x * K) + t < 0 THEN 0 ELSE (x * K) + t
    BY <1>1 DEF encode_ingest_score, select_ingest_band
  <2>2. H * K <= B
    BY HotAssumption
  <2> HIDE DEF K, B, H, x, t, d
  <2>3. (x + 1) * K <= H * K
    BY <1>0, <1>1, MulMono
  <2>4. (x + 1) * K = (x * K) + K /\ x * K \in Int /\ H * K \in Int
    BY <1>0
  <2>5. (x * K) + t < B
    BY <1>0, <2>2, <2>3, <2>4
  <2>6. B > 0
    <3>1. 1 <= H
      BY <1>0 DEF H
    <3>2. 1 * K <= H * K
      BY <1>0, <3>1, MulMono
    <3> QED BY <1>0, <2>2, <2>4, <3>2
  <2>7. encode_ingest_score(i) \in Nat /\ encode_ingest_score(i) < B
    BY <1>0, <2>1, <2>4, <2>5, <2>6
  <2> QED BY <1>0, <2>7 DEF InDay, decode_ingest_band, B
<1>2. CASE ~(x < H)
  <2>1. encode_ingest_score(i) = B + (d * K) + t
    BY <1>2 DEF encode_ingest_score, select_ingest_band
  <2> HIDE DEF K, B, H, x, t, d
  <2>2. d * K \in Nat
    BY <1>0
  <2>3. encode_ingest_score(i) \in Nat /\ encode_ingest_score(i) >= B
    BY <1>0, <2>1, <2>2
  <2>4. \E r \in 0..(K - 1) : encode_ingest_score(i) = B + (d * K) + r
    BY <1>0, <2>1
  <2> QED BY <1>0, <2>3, <2>4, SlotForm DEF K, B, d
<1> QED BY <1>1, <1>2

-----------------------------------------------------------------------------
(* The inductive invariant: every score the process or the sidecar holds is in the
   day of its file *)

Scored(f) == \A i \in IngestIds : f[i] = NoScore \/ InDay(FileDay[i], f[i])

HeapScored == \A b \in Bands : \A e \in heap[b] : InDay(FileDay[e[2]], e[1])

\* What a requeue or a reap starts from.
ClaimsScored ==
  /\ \A i \in IngestIds : InFlight(i) => InDay(FileDay[i], claimScore[i])
  /\ \A c \in claims : c.job \in IngestIds => InDay(FileDay[c.job], c.score)

QueueScored == Scored(ingest) /\ Scored(shadowIngest) /\ HeapScored

ScoreInv == QueueScored /\ ClaimsScored /\ Scored(copy.ingest) /\ Scored(disk.ingest)

\* The empty sidecar document holds no score.
LEMMA EmptyScored == Scored(EmptySnapshot.ingest)
BY DEF Scored, EmptySnapshot

\* The empty store satisfies ScoreInv.
LEMMA ScoreInit == Init => ScoreInv
<1> SUFFICES ASSUME Init PROVE ScoreInv
  OBVIOUS
<1>1. QueueScored
  BY DEF Init, QueueScored, Scored, HeapScored
<1>2. ClaimsScored
  BY DEF Init, ClaimsScored, InFlight, Jobs
<1>3. Scored(copy.ingest) /\ Scored(disk.ingest)
  BY EmptyScored DEF Init
<1> QED BY <1>1, <1>2, <1>3 DEF ScoreInv

\* _ingest_set_locked with a score of the file's day.
LEMMA IngestSetScored ==
  ASSUME TypeOK, QueueScored, NEW i \in IngestIds, NEW s, InDay(FileDay[i], s), IngestSet(i, s)
  PROVE  QueueScored'
<1>1. Scored(ingest)' /\ Scored(shadowIngest)'
  BY DEF QueueScored, Scored, IngestSet, TypeOK, ScoreMaps
<1>2. HeapScored'
  <2>1. heap' = [heap EXCEPT ![decode_ingest_band(s)] = @ \cup {<<s, i>>}]
    BY DEF IngestSet, HeapPushed
  <2> QED BY <2>1, BandType DEF QueueScored, HeapScored, TypeOK
<1> QED BY <1>1, <1>2 DEF QueueScored

\* _ingest_pop_locked.
LEMMA IngestPopScored ==
  ASSUME TypeOK, QueueScored, NEW i \in IngestIds, IngestPop(i)
  PROVE  Scored(ingest)' /\ Scored(shadowIngest)'
BY DEF QueueScored, Scored, IngestPop, TypeOK, ScoreMaps

\* Clearing an in-flight entry leaves the others their scores.
LEMMA ClearClaimScored ==
  ASSUME TypeOK, ClaimsScored, NEW j \in Jobs, ClearClaim(j), claims' \subseteq claims
  PROVE  ClaimsScored'
<1>1. \A i \in IngestIds : i \in Jobs
  BY DEF Jobs
<1>2. ASSUME NEW i \in IngestIds, inflight'[i] # NoTok
      PROVE  i # j /\ inflight[i] # NoTok /\ claimScore'[i] = claimScore[i]
  BY <1>1, <1>2 DEF ClearClaim, TypeOK, ScoreMaps
<1> QED BY <1>2 DEF ClaimsScored, InFlight

\* Producers (discover, reconstruct, eviction, reordering, a new day) preserve
\* ScoreInv.
LEMMA ScoreProduce ==
  ASSUME TypeOK, ScoreInv, Produce
  PROVE  ScoreInv'
<1>0. UNCHANGED <<inflight, claimScore, claims, copy, disk>>
  BY DEF Produce, ZaddIngest, EnqueueList, EvictYoungest, ReorderList, NextDay, claimVars,
         workVars, writerVars
<1>1. QueueScored'
  <2>1. ASSUME NEW i \in IngestIds, NEW overCap \in BOOLEAN, ZaddIngest(i, overCap)
        PROVE  QueueScored'
    <3>1. InDay(FileDay[i], encode_ingest_score(i))
      BY EncodeSlot DEF TypeOK
    <3> QED BY <2>1, <3>1, IngestSetScored DEF ZaddIngest, ScoreInv
  <2>2. ASSUME NEW w \in IngestIds, EvictYoungest(w) PROVE QueueScored'
    <3>1. PICK e \in heapMax : IngestPop(e[2])
      BY <2>2 DEF EvictYoungest
    <3>2. e[2] \in IngestIds
      BY DEF TypeOK
    <3> QED BY <2>2, <3>1, <3>2, IngestPopScored DEF EvictYoungest, ScoreInv, QueueScored, HeapScored
  <2>3. ASSUME ReorderList \/ NextDay \/ \E l \in ListIds : EnqueueList(l) PROVE QueueScored'
    BY <2>3 DEF ReorderList, NextDay, EnqueueList, ingestVars, ScoreInv, QueueScored, Scored,
                HeapScored
  <2> QED BY <2>1, <2>2, <2>3 DEF Produce
<1> QED BY <1>0, <1>1 DEF ScoreInv, ClaimsScored, Scored, InFlight

\* Each step of claim_ingest's loop under the lock preserves ScoreInv.
LEMMA ScoreClaimIngest ==
  ASSUME TypeOK, ScoreInv, ClaimIngest
  PROVE  ScoreInv'
<1>0. UNCHANGED <<copy, disk>>
  BY DEF ClaimIngest, ClaimIngestBegin, ClaimSkip, ClaimRearm, ClaimTake, ClaimIngestEnd,
         writerVars
<1>1. ASSUME ClaimIngestEnd \/ \E b \in Bands, n \in 1..ClaimMax : ClaimIngestBegin(b, n)
      PROVE  ScoreInv'
  BY <1>1 DEF ClaimIngestEnd, ClaimIngestBegin, ingestVars, claimVars, workVars, writerVars,
              ScoreInv, QueueScored, Scored, HeapScored, ClaimsScored, InFlight
<1>2. ASSUME ClaimSkip PROVE ScoreInv'
  <2>1. PICK e : heap' = [heap EXCEPT ![cs.band] = @ \ {e}]
    BY <1>2 DEF ClaimSkip
  <2>2. HeapScored'
    BY <2>1 DEF ScoreInv, QueueScored, HeapScored, TypeOK
  <2> QED BY <1>2, <2>2 DEF ClaimSkip, claimVars, workVars, writerVars,
              ScoreInv, QueueScored, Scored, ClaimsScored, InFlight
<1>3. ASSUME ClaimRearm PROVE ScoreInv'
  <2>1. cs.band \in Bands
    BY <1>3 DEF ClaimRearm, TypeOK, Sections, Free
  <2>2. PICK e \in heap[cs.band] :
          /\ ingest[e[2]] # NoScore
          /\ heap' = HeapPushed([heap EXCEPT ![cs.band] = @ \ {e}], e[2], ingest[e[2]])
    BY <1>3 DEF ClaimRearm, HeapMin
  <2>3. e[2] \in IngestIds /\ InDay(FileDay[e[2]], ingest[e[2]])
    BY <2>1, <2>2 DEF TypeOK, ScoreInv, QueueScored, Scored
  <2>4. HeapScored'
    <3> DEFINE h == [heap EXCEPT ![cs.band] = @ \ {e}]
    <3>1. h \in [Bands -> SUBSET (Int \X IngestIds)]
          /\ \A b \in Bands : \A f \in h[b] : InDay(FileDay[f[2]], f[1])
      BY DEF TypeOK, ScoreInv, QueueScored, HeapScored
    <3> HIDE DEF h
    <3>2. heap' = [h EXCEPT ![decode_ingest_band(ingest[e[2]])] = @ \cup {<<ingest[e[2]], e[2]>>}]
      BY <2>2 DEF HeapPushed, h
    <3> QED BY <2>3, <3>1, <3>2, BandType DEF HeapScored
  <2> QED BY <1>3, <2>4 DEF ClaimRearm, claimVars, workVars, writerVars,
              ScoreInv, QueueScored, Scored, ClaimsScored, InFlight
<1>4. ASSUME ClaimTake PROVE ScoreInv'
  <2>1. cs.band \in Bands
    BY <1>4 DEF ClaimTake, TypeOK, Sections, Free
  <2>2. PICK e \in heap[cs.band] :
          /\ heap' = [heap EXCEPT ![cs.band] = @ \ {e}]
          /\ IngestPop(e[2])
          /\ inflight' = [inflight EXCEPT ![e[2]] = cs.tok]
          /\ claimScore' = [claimScore EXCEPT ![e[2]] = e[1]]
          /\ claims' = claims \cup {NewClaim(e[2], cs.tok, e[1], TRUE)}
    BY <1>4 DEF ClaimTake, HeapMin
  <2>3. e[2] \in IngestIds /\ e[2] \in Jobs /\ InDay(FileDay[e[2]], e[1])
    BY <2>1, <2>2 DEF TypeOK, Jobs, ScoreInv, QueueScored, HeapScored
  <2>4. HeapScored'
    BY <2>2 DEF ScoreInv, QueueScored, HeapScored, TypeOK
  <2>5. Scored(ingest)' /\ Scored(shadowIngest)'
    BY <2>2, <2>3, IngestPopScored DEF ScoreInv
  <2>6. \A i \in IngestIds : InFlight(i)' => InDay(FileDay[i], claimScore'[i])
    BY <2>2, <2>3 DEF ScoreInv, ClaimsScored, InFlight, TypeOK, ScoreMaps, Jobs
  <2>7. \A c \in claims' : c.job \in IngestIds => InDay(FileDay[c.job], c.score)
    BY <2>2, <2>3 DEF ScoreInv, ClaimsScored, NewClaim
  <2> QED BY <1>0, <2>4, <2>5, <2>6, <2>7 DEF ScoreInv, QueueScored, ClaimsScored, Scored
<1> QED BY <1>1, <1>2, <1>3, <1>4 DEF ClaimIngest

\* claim_list preserves ScoreInv.
LEMMA ScoreClaimList ==
  ASSUME TypeOK, ScoreInv, NEW prot \in BOOLEAN, ClaimList(prot)
  PROVE  ScoreInv'
<1> DEFINE l == Head(list)
<1>1. l \in ListIds /\ l \notin IngestIds
  BY IdsAssumption DEF ClaimList, TypeOK
<1>2. UNCHANGED <<ingestVars, writerVars, claimScore>>
  BY DEF ClaimList, claimVars
<1>3. PICK tok : \/ UNCHANGED <<inflight, claims>>
                 \/ /\ inflight' = [inflight EXCEPT ![l] = tok]
                    /\ claims' = claims \cup {NewClaim(l, tok, NoScore, prot)}
  BY DEF ClaimList, claimVars
<1> HIDE DEF l
<1>4. \A i \in IngestIds : inflight'[i] = inflight[i]
  BY <1>1, <1>3 DEF TypeOK, Jobs
<1>5. \A c \in claims' : c.job \in IngestIds => c \in claims
  BY <1>1, <1>3 DEF NewClaim
<1> QED BY <1>2, <1>4, <1>5 DEF ingestVars, writerVars, ScoreInv, QueueScored, Scored, HeapScored,
           ClaimsScored, InFlight

\* What a coordinator does with a claim (finish, defer, fail, dead-letter,
\* lose) preserves ScoreInv.
LEMMA ScoreResolve ==
  ASSUME TypeOK, ScoreInv, NEW c \in claims, Resolve(c)
  PROVE  ScoreInv'
<1>0. c.job \in Jobs /\ UNCHANGED writerVars
  BY DEF TypeOK, Claims, Resolve, FinishOk, FinishDropped, Defer, FailBump, FailRequeue,
         DeadLetterUpsert, DeadLetterAck, TimeoutSentinel, LoseClaim
<1>1. ASSUME FinishOk(c) \/ FinishDropped(c) \/ DeadLetterAck(c) PROVE ScoreInv'
  <2>1. DoAck(c) /\ claims' = claims \ {c} /\ UNCHANGED ingestVars
    BY <1>1 DEF FinishOk, FinishDropped, DeadLetterAck
  <2>2. ClaimsScored'
    <3>1. CASE Owns(c)
      BY <1>0, <2>1, <3>1, ClearClaimScored DEF DoAck, ScoreInv
    <3>2. CASE ~Owns(c)
      BY <2>1, <3>2 DEF DoAck, claimVars, ScoreInv, ClaimsScored, InFlight
    <3> QED BY <3>1, <3>2
  <2> QED BY <1>0, <2>1, <2>2 DEF ingestVars, writerVars, ScoreInv, QueueScored, Scored, HeapScored
<1>2. ASSUME Defer(c) \/ FailRequeue(c) PROVE ScoreInv'
  <2>1. claims' = claims \ {c}
    BY <1>2 DEF Defer, FailRequeue
  <2>2. PICK s : DoRequeue(c, s) /\ (c.job \in IngestIds => InDay(FileDay[c.job], s))
    <3>1. c.job \in IngestIds => /\ InDay(FileDay[c.job], c.score)
                                 /\ FileDay[c.job] \in Nat
                                 /\ InDay(FileDay[c.job], encode_ingest_score(c.job))
      BY EncodeSlot, ScoreAssumption DEF ScoreInv, ClaimsScored, TypeOK
    <3>2. c.job \in IngestIds =>
            /\ InDay(FileDay[c.job], penalize_ingest_score(c.score))
            /\ InDay(FileDay[c.job], penalize_ingest_score(encode_ingest_score(c.job)))
      BY <3>1, PenalizeSlot
    <3>3. CASE Defer(c)
      BY <3>1, <3>2, <3>3 DEF Defer
    <3>4. CASE FailRequeue(c)
      BY <3>1, <3>4 DEF FailRequeue
    <3> QED BY <1>2, <3>3, <3>4
  <2>3. CASE Owns(c)
    <3>1. ClaimsScored'
      BY <1>0, <2>1, <2>2, <2>3, ClearClaimScored DEF DoRequeue, ScoreInv
    <3>2. QueueScored'
      <4>1. CASE c.job \in IngestIds
        BY <2>2, <2>3, <4>1, IngestSetScored DEF DoRequeue, ScoreInv
      <4>2. CASE c.job \notin IngestIds
        BY <2>2, <2>3, <4>2 DEF DoRequeue, ingestVars, ScoreInv, QueueScored, Scored, HeapScored
      <4> QED BY <4>1, <4>2
    <3> QED BY <1>0, <3>1, <3>2 DEF ScoreInv, writerVars, Scored
  <2>4. CASE ~Owns(c)
    BY <1>0, <2>1, <2>2, <2>4 DEF DoRequeue, claimVars, ingestVars, writerVars, ScoreInv,
        QueueScored, Scored, HeapScored, ClaimsScored, InFlight
  <2> QED BY <2>3, <2>4
<1>3. ASSUME FailBump(c) \/ DeadLetterUpsert(c) \/ TimeoutSentinel(c) \/ LoseClaim(c)
      PROVE  ScoreInv'
  <2>1. UNCHANGED <<ingestVars, claimVars>>
    BY <1>3 DEF FailBump, DeadLetterUpsert, TimeoutSentinel, LoseClaim
  <2>2. \A d \in claims' : d \in claims \/ (d.job = c.job /\ d.score = c.score)
    <3>1. c \in Claims
      BY DEF TypeOK
    <3> QED BY <1>3, <3>1 DEF FailBump, DeadLetterUpsert, TimeoutSentinel, LoseClaim, Claims
  <2> QED BY <1>0, <2>1, <2>2 DEF ingestVars, claimVars, writerVars, ScoreInv, QueueScored, Scored,
             HeapScored, ClaimsScored, InFlight
<1> QED BY <1>1, <1>2, <1>3 DEF Resolve

\* Expiry of deadlines and the steps of the reap tick preserve ScoreInv.
LEMMA ScoreRecover ==
  ASSUME TypeOK, ScoreInv, Recover
  PROVE  ScoreInv'
<1>1. ASSUME \/ ReapEnd \/ ReapBegin(IngestIds) \/ ReapBegin(ListIds)
             \/ \E j \in Jobs : Expire(j)
      PROVE  ScoreInv'
  BY <1>1 DEF ReapEnd, ReapBegin, Expire, ingestVars, claimVars, workVars, writerVars, ScoreInv,
              QueueScored, Scored, HeapScored, ClaimsScored, InFlight
<1>2. ASSUME NEW j \in Jobs, ReapOne(j) PROVE ScoreInv'
  <2>1. ClearClaim(j) /\ InFlight(j) /\ UNCHANGED <<claims, writerVars>>
    BY <1>2 DEF ReapOne, workVars
  <2>2. ClaimsScored'
    BY <2>1, ClearClaimScored DEF ScoreInv
  <2>3. QueueScored'
    <3>1. CASE j \in IngestIds
      <4>1. InDay(FileDay[j], penalize_ingest_score(claimScore[j]))
        BY <2>1, <3>1, PenalizeSlot, ScoreAssumption DEF ScoreInv, ClaimsScored
      <4> QED BY <1>2, <3>1, <4>1, IngestSetScored DEF ReapOne, ScoreInv
    <3>2. CASE j \notin IngestIds
      BY <1>2, <3>2 DEF ReapOne, ingestVars, ScoreInv, QueueScored, Scored, HeapScored
    <3> QED BY <3>1, <3>2
  <2> QED BY <2>1, <2>2, <2>3 DEF ScoreInv, writerVars, Scored
<1> QED BY <1>1, <1>2 DEF Recover

\* The persist thread's copy, save, failure and end preserve ScoreInv.
LEMMA ScorePersist ==
  ASSUME TypeOK, ScoreInv, Persist
  PROVE  ScoreInv'
<1>1. UNCHANGED <<ingestVars, claimVars, claims>>
  BY DEF Persist, PersistBegin, PersistCopy, PersistSave, PersistFail, PersistDone, workVars
<1>2. Scored(copy.ingest)'
  <2>1. CASE PersistCopy
    <3>1. copy'.ingest = shadowIngest
      BY <2>1 DEF PersistCopy, Durable
    <3> QED BY <3>1 DEF ScoreInv, QueueScored, Scored
  <2>2. CASE PersistFail \/ PersistDone
    BY <2>2, EmptyScored DEF PersistFail, PersistDone, Scored
  <2>3. CASE PersistBegin \/ PersistSave
    BY <2>3 DEF PersistBegin, PersistSave, ScoreInv, Scored
  <2> QED BY <2>1, <2>2, <2>3 DEF Persist
<1>3. Scored(disk.ingest)'
  BY DEF Persist, PersistBegin, PersistCopy, PersistSave, PersistFail, PersistDone, ScoreInv, Scored
<1> QED BY <1>1, <1>2, <1>3 DEF ingestVars, claimVars, ScoreInv, QueueScored, Scored, HeapScored,
           ClaimsScored, InFlight

\* A restart from the sidecar preserves ScoreInv.
LEMMA ScoreCrashRestart ==
  ASSUME TypeOK, ScoreInv, CrashRestart
  PROVE  ScoreInv'
<1>1. Scored(ingest)' /\ Scored(shadowIngest)' /\ Scored(disk.ingest)'
  BY DEF CrashRestart, ScoreInv, Scored
<1>2. HeapScored'
  BY DEF CrashRestart, ScoreInv, Scored, HeapScored
<1>3. ClaimsScored'
  BY DEF CrashRestart, ClaimsScored, InFlight, Jobs
<1>4. Scored(copy.ingest)'
  BY EmptyScored DEF CrashRestart, Scored
<1> QED BY <1>1, <1>2, <1>3, <1>4 DEF ScoreInv, QueueScored

\* Every step of the store, its coordinators and its persist thread preserves
\* ScoreInv.
LEMMA ScoreStep == TypeOK /\ ScoreInv /\ [Next]_vars => ScoreInv'
<1> SUFFICES ASSUME TypeOK, ScoreInv, [Next]_vars PROVE ScoreInv'
  OBVIOUS
<1>1. CASE UNCHANGED vars
  BY <1>1 DEF vars, ingestVars, claimVars, workVars, writerVars, ScoreInv, QueueScored, Scored,
              HeapScored, ClaimsScored, InFlight
<1>2. CASE \E prot \in BOOLEAN : ClaimList(prot)
  BY <1>2, ScoreClaimList
<1>3. CASE \E c \in claims : Resolve(c)
  BY <1>3, ScoreResolve
<1> QED BY <1>1, <1>2, <1>3, ScoreProduce, ScoreClaimIngest, ScoreRecover, ScorePersist,
           ScoreCrashRestart DEF Next

(* Every score in the queue, the heaps, the claims and the sidecar stays in the day
   of its file. *)
THEOREM ScoreInvariant == Spec => []ScoreInv
BY TypeInvariant, ScoreInit, ScoreStep, PTL DEF Spec

(* However often a queued backfill file was penalized, requeued, reaped or reloaded
   from the sidecar, its score decodes to its own calendar day: the clamp of
   penalize_ingest_score keeps the oldest-day-first order. *)
THEOREM DaySlots == Spec => []DaySlot
<1>1. ScoreInv => DaySlot
  BY DEF ScoreInv, QueueScored, Scored, DaySlot, QueuedIngest, InDay
<1> QED BY <1>1, ScoreInvariant, PTL
-----------------------------------------------------------------------------
(***************************************************************************)
(* The queues and their durable shadow, the lazy heaps, and the snapshot   *)
(* sidecar.  These invariants rest on the types, claims and scores above.  *)
(***************************************************************************)

\* A LIST of a snapshot holds no identity twice and its dedupe set is its content.
WellFormed(q, p) ==
  /\ \A m, n \in 1..Len(q) : q[m] = q[n] => m = n
  /\ \A l \in ListIds : l \in p <=> \E n \in 1..Len(q) : q[n] = l

NeverBoth == \A j \in Jobs : ~(OnQueue(j) /\ InFlight(j))

ShadowAttempts == \A j \in Jobs : shadowAttempts[j] = IF OnQueue(j) THEN attempts[j] ELSE 0

\* The inductive invariant: what QueueExclusive and ShadowMirrorsQueues say of the
\* store, and that every snapshot a restart may load has the shape of the queues.
QueueInv == /\ NeverBoth
            /\ WellFormed(list, pending)
            /\ shadowIngest = ingest /\ shadowList = list /\ shadowPending = pending
            /\ ShadowAttempts
            /\ WellFormed(copy.list, copy.pending)
            /\ WellFormed(disk.list, disk.pending)

-----------------------------------------------------------------------------
(* Sequences without repetition *)

\* enqueue_list, requeue and reap append an identity that is not queued.
LEMMA AppendWellFormed ==
  ASSUME NEW q \in Seq(ListIds), NEW p \in SUBSET ListIds, WellFormed(q, p),
         NEW l \in ListIds, l \notin p
  PROVE  WellFormed(Append(q, l), p \cup {l})
<1> DEFINE a == Append(q, l)
<1>1. /\ Len(q) \in Nat /\ Len(a) = Len(q) + 1
      /\ \A n \in 1..Len(q) : a[n] = q[n]
      /\ a[Len(q) + 1] = l
  OBVIOUS
<1>2. \A n \in 1..Len(q) : q[n] # l
  BY DEF WellFormed
<1> HIDE DEF a
<1>3. ASSUME NEW m \in 1..Len(a), NEW n \in 1..Len(a), a[m] = a[n] PROVE m = n
  BY <1>1, <1>2, <1>3 DEF WellFormed
<1>4. ASSUME NEW k \in ListIds
      PROVE  k \in p \cup {l} <=> \E n \in 1..Len(a) : a[n] = k
  <2>1. ASSUME k \in p PROVE \E n \in 1..Len(a) : a[n] = k
    <3>1. PICK n \in 1..Len(q) : q[n] = k
      BY <2>1 DEF WellFormed
    <3>2. n \in 1..Len(a) /\ a[n] = k
      BY <1>1, <3>1
    <3> QED BY <3>2
  <2>2. Len(q) + 1 \in 1..Len(a)
    BY <1>1
  <2>3. ASSUME NEW n \in 1..Len(a), a[n] = k PROVE k \in p \cup {l}
    <3>1. n \in 1..Len(q) \/ n = Len(q) + 1
      BY <1>1
    <3> QED BY <1>1, <2>3, <3>1 DEF WellFormed
  <2> QED BY <1>1, <2>1, <2>2, <2>3
<1> QED BY <1>3, <1>4 DEF WellFormed, a

\* claim_list takes the head.
LEMMA TailWellFormed ==
  ASSUME NEW q \in Seq(ListIds), q # << >>, NEW p \in SUBSET ListIds, WellFormed(q, p)
  PROVE  WellFormed(Tail(q), p \ {Head(q)})
<1> DEFINE t == Tail(q)
<1>1. /\ Len(q) \in Nat \ {0} /\ Len(t) = Len(q) - 1 /\ Head(q) = q[1]
      /\ \A n \in 1..Len(t) : t[n] = q[n + 1]
  OBVIOUS
<1>2. \A n \in 1..Len(t) : n + 1 \in 1..Len(q)
  BY <1>1
<1> HIDE DEF t
<1>3. ASSUME NEW m \in 1..Len(t), NEW n \in 1..Len(t), t[m] = t[n] PROVE m = n
  <2>1. m + 1 = n + 1
    BY <1>1, <1>2, <1>3 DEF WellFormed
  <2> QED BY <1>1, <2>1
<1>4. ASSUME NEW k \in ListIds
      PROVE  k \in p \ {Head(q)} <=> \E n \in 1..Len(t) : t[n] = k
  <2>1. ASSUME k \in p, k # q[1] PROVE \E n \in 1..Len(t) : t[n] = k
    <3>1. PICK n \in 1..Len(q) : q[n] = k
      BY <2>1 DEF WellFormed
    <3>2. n - 1 \in 1..Len(t) /\ t[n - 1] = q[(n - 1) + 1]
      BY <1>1, <2>1, <3>1
    <3>3. (n - 1) + 1 = n
      BY <1>1
    <3> QED BY <3>1, <3>2, <3>3
  <2>2. ASSUME NEW n \in 1..Len(t), t[n] = k PROVE k \in p /\ k # q[1]
    <3>1. q[n + 1] = k /\ n + 1 \in 1..Len(q) /\ n + 1 # 1 /\ 1 \in 1..Len(q)
      BY <1>1, <1>2, <2>2
    <3> QED BY <3>1 DEF WellFormed
  <2> QED BY <1>1, <2>1, <2>2
<1> QED BY <1>3, <1>4 DEF WellFormed, t

\* reorder_list permutes.
LEMMA PermuteWellFormed ==
  ASSUME NEW q \in Seq(ListIds), NEW p \in SUBSET ListIds, WellFormed(q, p),
         NEW f \in [1..Len(q) -> 1..Len(q)],
         \A m, n \in 1..Len(q) : f[m] = f[n] => m = n
  PROVE  WellFormed([n \in 1..Len(q) |-> q[f[n]]], p)
<1> DEFINE D == 1..Len(q)
           r == [n \in D |-> q[f[n]]]
<1>1. \A k \in D : \E n \in D : f[n] = k
  <2>1. IsFiniteSet(D)
    BY FS_Interval
  <2>2. f \in Injection(D, D)
    BY DEF Injection, IsInjective
  <2>3. f \in Surjection(D, D)
    BY <2>1, <2>2, FS_Injection
  <2> QED BY <2>3 DEF Surjection
<1>2. Len(r) = Len(q)
  OBVIOUS
<1>3. \A n \in D : r[n] = q[f[n]] /\ f[n] \in D
  OBVIOUS
<1> HIDE DEF r
<1>4. ASSUME NEW m \in D, NEW n \in D, r[m] = r[n] PROVE m = n
  <2>1. f[m] \in D /\ f[n] \in D /\ q[f[m]] = q[f[n]]
    BY <1>3, <1>4
  <2>2. f[m] = f[n]
    BY <2>1 DEF WellFormed
  <2> QED BY <2>2
<1>5. ASSUME NEW l \in ListIds PROVE (\E n \in D : q[n] = l) <=> (\E n \in D : r[n] = l)
  <2>1. ASSUME NEW n \in D, q[n] = l PROVE \E m \in D : r[m] = l
    <3>1. PICK m \in D : f[m] = n
      BY <1>1
    <3>2. r[m] = l
      BY <1>3, <2>1, <3>1
    <3> QED BY <3>2
  <2>2. ASSUME NEW n \in D, r[n] = l PROVE \E m \in D : q[m] = l
    <3>1. f[n] \in D /\ q[f[n]] = l
      BY <1>3, <2>2
    <3> QED BY <3>1
  <2> QED BY <2>1, <2>2
<1> QED BY <1>2, <1>4, <1>5 DEF WellFormed, r

-----------------------------------------------------------------------------
(* What the store's helpers keep *)

\* In-flight entries may go; payload rows of queued jobs stay.
LEMMA QueueFrame ==
  ASSUME TypeOK, QueueInv,
         UNCHANGED <<ingest, shadowIngest, listVars, shadowAttempts, copy, disk>>,
         \A j \in Jobs : InFlight(j)' => InFlight(j),
         \A j \in Jobs : OnQueue(j) => attempts'[j] = attempts[j]
  PROVE  QueueInv'
<1>1. \A j \in Jobs : OnQueue(j)' <=> OnQueue(j)
  BY DEF OnQueue, listVars
<1>2. NeverBoth'
  BY <1>1 DEF QueueInv, NeverBoth
<1>3. ShadowAttempts'
  BY <1>1 DEF QueueInv, ShadowAttempts
<1> QED BY <1>2, <1>3 DEF QueueInv, WellFormed, listVars

\* _ingest_set_locked of a file that is not in flight afterwards.
LEMMA QueueSet ==
  ASSUME TypeOK, QueueInv, NEW i \in IngestIds, NEW s \in Int, s # NoScore, IngestSet(i, s),
         UNCHANGED <<listVars, attempts, copy, disk>>,
         ~InFlight(i)', \A j \in Jobs : InFlight(j)' => InFlight(j)
  PROVE  QueueInv'
<1>0. i \in Jobs
  BY DEF Jobs
<1>1. \A j \in Jobs : OnQueue(j)' <=> OnQueue(j) \/ j = i
  BY DEF OnQueue, listVars, IngestSet, TypeOK, ScoreMaps
<1>2. NeverBoth'
  BY <1>1 DEF QueueInv, NeverBoth
<1>3. ShadowAttempts'
  <2>1. shadowAttempts' = [shadowAttempts EXCEPT ![i] = attempts[i]]
    BY DEF IngestSet
  <2> QED BY <1>0, <1>1, <2>1 DEF QueueInv, ShadowAttempts, TypeOK
<1>4. shadowIngest' = ingest'
  BY DEF QueueInv, IngestSet
<1> QED BY <1>2, <1>3, <1>4 DEF QueueInv, WellFormed, listVars

\* _ingest_pop_locked of a file that is claimed or evicted by the same step.
LEMMA QueuePop ==
  ASSUME TypeOK, QueueInv, NEW i \in IngestIds, IngestPop(i),
         UNCHANGED <<listVars, copy, disk>>,
         \A j \in Jobs \ {i} : (InFlight(j)' => InFlight(j)) /\ attempts'[j] = attempts[j]
  PROVE  QueueInv'
<1>0. i \in Jobs
  BY DEF Jobs
<1>1. \A j \in Jobs : OnQueue(j)' <=> OnQueue(j) /\ j # i
  BY DEF OnQueue, listVars, IngestPop, TypeOK, ScoreMaps
<1>2. NeverBoth'
  BY <1>1 DEF QueueInv, NeverBoth
<1>3. ShadowAttempts'
  <2>1. shadowAttempts' = [shadowAttempts EXCEPT ![i] = 0]
    BY DEF IngestPop
  <2> QED BY <1>0, <1>1, <2>1 DEF QueueInv, ShadowAttempts, TypeOK
<1>4. shadowIngest' = ingest'
  BY DEF QueueInv, IngestPop
<1> QED BY <1>2, <1>3, <1>4 DEF QueueInv, WellFormed, listVars

\* A LIST identity that is not queued is appended.
LEMMA QueuePush ==
  ASSUME TypeOK, QueueInv, NEW l \in ListIds, l \notin pending, ListPush(l),
         UNCHANGED <<ingestVars, attempts, copy, disk>>,
         ~InFlight(l)', \A j \in Jobs : InFlight(j)' => InFlight(j)
  PROVE  QueueInv'
<1>0. l \in Jobs /\ l \notin IngestIds /\ \A j \in Jobs : j \in IngestIds \/ j \in ListIds
  BY IdsAssumption DEF Jobs
<1>1. WellFormed(list', pending')
  BY AppendWellFormed DEF QueueInv, ListPush, TypeOK
<1>2. \A j \in Jobs : OnQueue(j)' <=> OnQueue(j) \/ j = l
  <2>1. \A j \in ListIds : /\ j \in pending' <=> \E n \in 1..Len(list') : list'[n] = j
                           /\ j \in pending <=> \E n \in 1..Len(list) : list[n] = j
    BY <1>1 DEF QueueInv, WellFormed
  <2>2. pending' = pending \cup {l} /\ ingest' = ingest
    BY DEF ListPush, ingestVars
  <2> QED BY <1>0, <2>1, <2>2 DEF OnQueue
<1>3. NeverBoth'
  BY <1>2 DEF QueueInv, NeverBoth
<1>4. ShadowAttempts'
  <2>1. shadowAttempts' = [shadowAttempts EXCEPT ![l] = attempts[l]]
    BY DEF ListPush
  <2> QED BY <1>0, <1>2, <2>1 DEF QueueInv, ShadowAttempts, TypeOK
<1>5. shadowIngest' = ingest' /\ shadowList' = list' /\ shadowPending' = pending'
  BY DEF QueueInv, ListPush, ingestVars
<1> QED BY <1>1, <1>3, <1>4, <1>5 DEF QueueInv

\* A queued identity is in the dedupe set and the other way round.
LEMMA PendingIsQueued ==
  ASSUME QueueInv, NEW j \in Jobs
  PROVE  /\ Queued(j) <=> OnQueue(j)
         /\ InFlight(j) => ~OnQueue(j)
         /\ j \in ListIds /\ InFlight(j) => j \notin pending
<1>1. j \in ListIds => (j \in pending <=> \E n \in 1..Len(list) : list[n] = j)
  BY DEF QueueInv, WellFormed
<1>2. j \in IngestIds \/ j \in ListIds
  BY DEF Jobs
<1>3. j \in ListIds => j \notin IngestIds
  BY IdsAssumption
<1> QED BY <1>1, <1>2, <1>3 DEF QueueInv, NeverBoth, Queued, OnQueue

\* ClearClaim takes one in-flight entry away and adds none.
LEMMA ClearClaimInFlight ==
  ASSUME TypeOK, NEW j \in Jobs, ClearClaim(j)
  PROVE  ~InFlight(j)' /\ \A k \in Jobs : InFlight(k)' => InFlight(k)
BY DEF ClearClaim, TypeOK, InFlight

\* A score of some day is a number and not the mark of absence.
LEMMA InDayScore ==
  ASSUME NEW d, NEW s, InDay(d, s)
  PROVE  s \in Int /\ s # NoScore
BY DEF InDay, NoScore

-----------------------------------------------------------------------------
(* The steps *)

\* The empty document is well formed.
LEMMA EmptyWellFormed == WellFormed(EmptySnapshot.list, EmptySnapshot.pending)
BY DEF WellFormed, EmptySnapshot

\* The empty store satisfies QueueInv.
LEMMA QueueInit == Init => QueueInv
<1> SUFFICES ASSUME Init PROVE QueueInv
  OBVIOUS
<1>1. \A j \in Jobs : ~OnQueue(j) /\ ~InFlight(j)
  BY DEF Init, OnQueue, InFlight
<1>2. ShadowAttempts /\ NeverBoth
  BY <1>1 DEF Init, ShadowAttempts, NeverBoth
<1>3. WellFormed(copy.list, copy.pending) /\ WellFormed(disk.list, disk.pending)
  BY EmptyWellFormed DEF Init
<1>4. WellFormed(list, pending)
  BY DEF Init, WellFormed
<1> QED BY <1>2, <1>3, <1>4 DEF Init, QueueInv

\* Producers (discover, reconstruct, eviction, reordering, a new day) preserve
\* QueueInv.
LEMMA QueueProduce ==
  ASSUME TypeOK, QueueInv, Produce
  PROVE  QueueInv'
<1>0. UNCHANGED <<claimVars, inflight, copy, disk>> /\ \A j \in Jobs : InFlight(j)' <=> InFlight(j)
  BY DEF Produce, ZaddIngest, EnqueueList, EvictYoungest, ReorderList, NextDay, claimVars,
         writerVars, InFlight
<1>1. ASSUME NEW i \in IngestIds, NEW overCap \in BOOLEAN, ZaddIngest(i, overCap)
      PROVE  QueueInv'
  <2>1. encode_ingest_score(i) \in Int /\ encode_ingest_score(i) # NoScore
    BY EncodeSlot, InDayScore DEF TypeOK
  <2>2. i \in Jobs /\ ~InFlight(i)
    BY <1>1 DEF ZaddIngest, MayQueue, Jobs
  <2> QED BY <1>0, <1>1, <2>1, <2>2, QueueSet DEF ZaddIngest
<1>2. ASSUME NEW l \in ListIds, EnqueueList(l) PROVE QueueInv'
  <2>1. l \in Jobs /\ l \notin pending /\ ~InFlight(l)
    BY <1>2 DEF EnqueueList, Duplicate, Jobs
  <2> QED BY <1>0, <1>2, <2>1, QueuePush DEF EnqueueList
<1>3. ASSUME NEW w \in IngestIds, EvictYoungest(w) PROVE QueueInv'
  <2>1. PICK e \in heapMax : IngestPop(e[2]) /\ attempts' = [attempts EXCEPT ![e[2]] = 0]
    BY <1>3 DEF EvictYoungest
  <2>2. e[2] \in IngestIds /\ \A j \in Jobs \ {e[2]} : attempts'[j] = attempts[j]
    BY <2>1 DEF TypeOK
  <2> QED BY <1>0, <1>3, <2>1, <2>2, QueuePop DEF EvictYoungest
<1>4. ASSUME ReorderList PROVE QueueInv'
  <2>1. PICK p \in [1..Len(list) -> 1..Len(list)] :
          /\ \A m, n \in 1..Len(list) : p[m] = p[n] => m = n
          /\ list' = [n \in 1..Len(list) |-> list[p[n]]]
          /\ shadowList' = list'
    BY <1>4 DEF ReorderList
  <2>2. WellFormed(list', pending)
    <3>1. list \in Seq(ListIds) /\ pending \in SUBSET ListIds /\ WellFormed(list, pending)
      BY DEF QueueInv, TypeOK
    <3>2. WellFormed([n \in 1..Len(list) |-> list[p[n]]], pending)
      BY <2>1, <3>1, PermuteWellFormed
    <3> QED BY <2>1, <3>2
  <2>3. UNCHANGED <<ingest, shadowIngest, pending, shadowPending, attempts, shadowAttempts>>
    BY <1>4 DEF ReorderList, ingestVars, payloadVars
  <2>4. \A j \in Jobs : OnQueue(j)' <=> OnQueue(j)
    <3>1. \A l \in ListIds : (\E n \in 1..Len(list') : list'[n] = l)
                               <=> (\E n \in 1..Len(list) : list[n] = l)
      BY <2>2 DEF QueueInv, WellFormed
    <3> QED BY <2>3, <3>1 DEF OnQueue, Jobs
  <2>5. NeverBoth' /\ ShadowAttempts'
    BY <1>0, <2>3, <2>4 DEF QueueInv, NeverBoth, ShadowAttempts
  <2>6. WellFormed(list', pending') /\ shadowList' = list' /\ shadowIngest' = ingest'
        /\ shadowPending' = pending'
    BY <2>1, <2>2, <2>3 DEF QueueInv
  <2>7. WellFormed(copy'.list, copy'.pending) /\ WellFormed(disk'.list, disk'.pending)
    BY <1>0 DEF QueueInv
  <2> QED BY <2>5, <2>6, <2>7 DEF QueueInv
<1>5. ASSUME NextDay PROVE QueueInv'
  BY <1>0, <1>5, QueueFrame DEF NextDay, ingestVars, payloadVars
<1> QED BY <1>1, <1>2, <1>3, <1>4, <1>5 DEF Produce

\* Each step of claim_ingest's loop under the lock preserves QueueInv.
LEMMA QueueClaimIngest ==
  ASSUME TypeOK, QueueInv, ClaimIngest
  PROVE  QueueInv'
<1>1. ASSUME \/ ClaimSkip \/ ClaimRearm \/ ClaimIngestEnd
             \/ \E b \in Bands, n \in 1..ClaimMax : ClaimIngestBegin(b, n)
      PROVE  QueueInv'
  <2>1. UNCHANGED <<ingest, shadowIngest, listVars, shadowAttempts, attempts, inflight, copy, disk>>
    BY <1>1 DEF ClaimSkip, ClaimRearm, ClaimIngestEnd, ClaimIngestBegin, ingestVars, claimVars,
                payloadVars, writerVars
  <2> QED BY <2>1, QueueFrame DEF InFlight
<1>2. ASSUME ClaimTake PROVE QueueInv'
  <2>1. cs.band \in Bands
    BY <1>2 DEF ClaimTake, TypeOK, Sections, Free
  <2>2. PICK e \in heap[cs.band] : IngestPop(e[2]) /\ inflight' = [inflight EXCEPT ![e[2]] = cs.tok]
    BY <1>2 DEF ClaimTake, HeapMin
  <2>3. e[2] \in IngestIds /\ UNCHANGED <<listVars, attempts, copy, disk>>
    BY <1>2, <2>1 DEF TypeOK, ClaimTake, writerVars
  <2>4. \A j \in Jobs \ {e[2]} : InFlight(j)' => InFlight(j)
    BY <2>2 DEF InFlight, TypeOK
  <2> QED BY <2>2, <2>3, <2>4, QueuePop
<1> QED BY <1>1, <1>2 DEF ClaimIngest

\* claim_list preserves QueueInv.
LEMMA QueueClaimList ==
  ASSUME TypeOK, QueueInv, NEW prot \in BOOLEAN, ClaimList(prot)
  PROVE  QueueInv'
<1> DEFINE l == Head(list)
<1>1. l \in ListIds /\ l \in Jobs /\ l \notin IngestIds
      /\ \A j \in Jobs : j \in IngestIds \/ j \in ListIds
  BY IdsAssumption DEF ClaimList, TypeOK, Jobs
<1>2. /\ list # << >> /\ list' = Tail(list) /\ pending' = pending \ {l}
      /\ shadowList' = list' /\ shadowPending' = pending'
      /\ shadowAttempts' = [shadowAttempts EXCEPT ![l] = 0]
  BY DEF ClaimList, QueueInv
<1>3. UNCHANGED <<ingest, shadowIngest, attempts, copy, disk>>
  BY DEF ClaimList, ingestVars, writerVars
<1>4. \A j \in Jobs \ {l} : InFlight(j)' => InFlight(j)
  <2>1. PICK tok : inflight' = inflight \/ inflight' = [inflight EXCEPT ![l] = tok]
    BY DEF ClaimList, claimVars
  <2> QED BY <2>1 DEF TypeOK, InFlight
<1>5. WellFormed(list', pending')
  BY <1>2, TailWellFormed DEF QueueInv, TypeOK
<1> HIDE DEF l
<1>6. \A j \in Jobs : OnQueue(j)' <=> OnQueue(j) /\ j # l
  <2>1. \A j \in ListIds : /\ j \in pending' <=> \E n \in 1..Len(list') : list'[n] = j
                           /\ j \in pending <=> \E n \in 1..Len(list) : list[n] = j
    BY <1>5 DEF QueueInv, WellFormed
  <2> QED BY <1>1, <1>2, <1>3, <2>1 DEF OnQueue
<1>7. NeverBoth'
  BY <1>4, <1>6 DEF QueueInv, NeverBoth
<1>8. ShadowAttempts'
  BY <1>1, <1>2, <1>3, <1>6 DEF QueueInv, ShadowAttempts, TypeOK
<1> QED BY <1>2, <1>3, <1>5, <1>7, <1>8 DEF QueueInv

\* requeue and reap: a job in flight goes back to its queue with a score of its day.
LEMMA QueueReturned ==
  ASSUME TypeOK, QueueInv, NEW j \in Jobs, InFlight(j), ClearClaim(j), NEW s,
         j \in IngestIds => s \in Int /\ s # NoScore,
         IF j \in IngestIds THEN IngestSet(j, s) /\ UNCHANGED listVars
                            ELSE ListPush(j) /\ UNCHANGED ingestVars,
         UNCHANGED <<attempts, copy, disk>>
  PROVE  QueueInv'
<1>1. ~InFlight(j)' /\ \A k \in Jobs : InFlight(k)' => InFlight(k)
  BY ClearClaimInFlight
<1>2. CASE j \in IngestIds
  BY <1>1, <1>2, QueueSet
<1>3. CASE j \notin IngestIds
  <2>1. j \in ListIds /\ j \notin pending
    BY <1>3, PendingIsQueued DEF Jobs
  <2> QED BY <1>1, <1>3, <2>1, QueuePush
<1> QED BY <1>2, <1>3

\* What a coordinator does with a claim (finish, defer, fail, dead-letter,
\* lose) preserves QueueInv.
LEMMA QueueResolve ==
  ASSUME TypeOK, QueueInv, ClaimInv, ScoreInv, NEW c \in claims, Resolve(c)
  PROVE  QueueInv'
<1>0. c.job \in Jobs /\ UNCHANGED <<copy, disk>> /\ (Owns(c) => InFlight(c.job))
  BY DEF TypeOK, Claims, Resolve, FinishOk, FinishDropped, Defer, FailBump, FailRequeue,
         DeadLetterUpsert, DeadLetterAck, TimeoutSentinel, LoseClaim, writerVars, ClaimInv,
         ClaimsDistinct, Owns, InFlight
<1>1. ASSUME FinishOk(c) \/ FinishDropped(c) \/ DeadLetterAck(c) PROVE QueueInv'
  <2>1. DoAck(c) /\ UNCHANGED <<ingestVars, list, shadowList, shadowPending, shadowAttempts>>
    BY <1>1 DEF FinishOk, FinishDropped, DeadLetterAck
  <2>2. CASE Owns(c)
    <3>1. /\ ClearClaim(c.job) /\ attempts' = [attempts EXCEPT ![c.job] = 0]
          /\ pending' = pending \ {c.job}
      BY <2>1, <2>2 DEF DoAck
    <3>2. pending' = pending /\ ~OnQueue(c.job)
      BY <1>0, <2>2, <3>1, PendingIsQueued DEF TypeOK
    <3>3. \A j \in Jobs : OnQueue(j) => attempts'[j] = attempts[j]
      BY <3>1, <3>2 DEF TypeOK
    <3>4. \A j \in Jobs : InFlight(j)' => InFlight(j)
      BY <1>0, <3>1, ClearClaimInFlight
    <3> QED BY <1>0, <2>1, <3>2, <3>3, <3>4, QueueFrame DEF ingestVars, listVars
  <2>3. CASE ~Owns(c)
    <3>1. UNCHANGED <<inflight, attempts, pending>>
      BY <2>1, <2>3 DEF DoAck, claimVars
    <3> QED BY <1>0, <2>1, <3>1, QueueFrame DEF ingestVars, listVars, InFlight
  <2> QED BY <2>2, <2>3
<1>2. ASSUME Defer(c) \/ FailRequeue(c) PROVE QueueInv'
  <2>1. UNCHANGED attempts
    BY <1>2 DEF Defer, FailRequeue
  <2>2. PICK s : DoRequeue(c, s) /\ (c.job \in IngestIds => s \in Int /\ s # NoScore)
    <3>1. c.job \in IngestIds => /\ InDay(FileDay[c.job], c.score)
                                 /\ FileDay[c.job] \in Nat
                                 /\ InDay(FileDay[c.job], encode_ingest_score(c.job))
      BY EncodeSlot, ScoreAssumption DEF ScoreInv, ClaimsScored, TypeOK
    <3>2. c.job \in IngestIds =>
            /\ InDay(FileDay[c.job], penalize_ingest_score(c.score))
            /\ InDay(FileDay[c.job], penalize_ingest_score(encode_ingest_score(c.job)))
      BY <3>1, PenalizeSlot
    <3>3. CASE Defer(c)
      BY <3>1, <3>2, <3>3, InDayScore DEF Defer
    <3>4. CASE FailRequeue(c)
      BY <3>1, <3>4, InDayScore DEF FailRequeue
    <3> QED BY <1>2, <3>3, <3>4
  <2>3. CASE Owns(c)
    BY <1>0, <2>1, <2>2, <2>3, QueueReturned DEF DoRequeue
  <2>4. CASE ~Owns(c)
    BY <1>0, <2>1, <2>2, <2>4, QueueFrame DEF DoRequeue, ingestVars, claimVars, InFlight
  <2> QED BY <2>3, <2>4
<1>3. ASSUME FailBump(c) PROVE QueueInv'
  <2>1. /\ attempts' = [attempts EXCEPT ![c.job] = @ + 1]
        /\ UNCHANGED <<ingestVars, listVars, inflight>>
        /\ IF Queued(c.job)
             THEN shadowAttempts' = [shadowAttempts EXCEPT ![c.job] = attempts[c.job] + 1]
             ELSE UNCHANGED shadowAttempts
    BY <1>3 DEF FailBump, claimVars
  <2>2. CASE OnQueue(c.job)
    <3>1. shadowAttempts' = [shadowAttempts EXCEPT ![c.job] = attempts[c.job] + 1]
      BY <1>0, <2>1, <2>2, PendingIsQueued
    <3>2. \A j \in Jobs : (OnQueue(j)' <=> OnQueue(j)) /\ (InFlight(j)' <=> InFlight(j))
      BY <2>1 DEF OnQueue, InFlight, ingestVars, listVars
    <3>3. NeverBoth'
      BY <3>2 DEF QueueInv, NeverBoth
    <3>4. ShadowAttempts'
      BY <1>0, <2>1, <2>2, <3>1, <3>2 DEF QueueInv, ShadowAttempts, TypeOK
    <3> QED BY <1>0, <2>1, <3>3, <3>4 DEF QueueInv, WellFormed, ingestVars, listVars
  <2>3. CASE ~OnQueue(c.job)
    <3>1. UNCHANGED shadowAttempts
      BY <1>0, <2>1, <2>3, PendingIsQueued
    <3>2. \A j \in Jobs : OnQueue(j) => attempts'[j] = attempts[j]
      BY <2>1, <2>3 DEF TypeOK
    <3> QED BY <1>0, <2>1, <3>1, <3>2, QueueFrame DEF ingestVars, InFlight
  <2> QED BY <2>2, <2>3
<1>4. ASSUME DeadLetterUpsert(c) \/ TimeoutSentinel(c) \/ LoseClaim(c) PROVE QueueInv'
  BY <1>0, <1>4, QueueFrame DEF DeadLetterUpsert, TimeoutSentinel, LoseClaim, ingestVars, claimVars,
         payloadVars, InFlight
<1> QED BY <1>1, <1>2, <1>3, <1>4 DEF Resolve

\* Expiry of deadlines and the steps of the reap tick preserve QueueInv.
LEMMA QueueRecover ==
  ASSUME TypeOK, QueueInv, ScoreInv, Recover
  PROVE  QueueInv'
<1>1. ASSUME \/ ReapEnd \/ ReapBegin(IngestIds) \/ ReapBegin(ListIds)
             \/ \E j \in Jobs : Expire(j)
      PROVE  QueueInv'
  <2>1. UNCHANGED <<ingestVars, listVars, inflight, payloadVars, writerVars>>
    BY <1>1 DEF ReapEnd, ReapBegin, Expire, claimVars
  <2> QED BY <2>1, QueueFrame DEF ingestVars, payloadVars, writerVars, InFlight
<1>2. ASSUME NEW j \in Jobs, ReapOne(j) PROVE QueueInv'
  <2>1. j \in IngestIds => /\ penalize_ingest_score(claimScore[j]) \in Int
                           /\ penalize_ingest_score(claimScore[j]) # NoScore
    BY <1>2, PenalizeSlot, InDayScore, ScoreAssumption DEF ReapOne, ScoreInv, ClaimsScored
  <2> QED BY <1>2, <2>1, QueueReturned DEF ReapOne, writerVars
<1> QED BY <1>1, <1>2 DEF Recover

\* The persist thread's copy, save, failure and end preserve QueueInv.
LEMMA QueuePersist ==
  ASSUME TypeOK, QueueInv, Persist
  PROVE  QueueInv'
<1>1. /\ UNCHANGED <<ingestVars, listVars, inflight>>
      /\ \A j \in Jobs : (OnQueue(j)' <=> OnQueue(j)) /\ (InFlight(j)' <=> InFlight(j))
  BY DEF Persist, PersistBegin, PersistCopy, PersistSave, PersistFail, PersistDone, claimVars,
         OnQueue, InFlight, ingestVars, listVars
<1>2. ShadowAttempts'
  <2>1. CASE PersistCopy
    BY <1>1, <2>1 DEF PersistCopy, KeepsPayload, QueueInv, ShadowAttempts
  <2>2. CASE ~PersistCopy
    <3>1. UNCHANGED payloadVars
      BY <2>2 DEF Persist, PersistBegin, PersistSave, PersistFail, PersistDone
    <3> QED BY <1>1, <3>1 DEF payloadVars, QueueInv, ShadowAttempts
  <2> QED BY <2>1, <2>2
<1>3. WellFormed(copy.list, copy.pending)'
  <2>1. CASE PersistCopy
    <3>1. copy'.list = list /\ copy'.pending = pending
      BY <2>1 DEF PersistCopy, Durable, QueueInv
    <3> QED BY <3>1 DEF QueueInv, WellFormed
  <2>2. CASE PersistFail \/ PersistDone
    BY <2>2, EmptyWellFormed DEF PersistFail, PersistDone, WellFormed
  <2>3. CASE PersistBegin \/ PersistSave
    BY <2>3 DEF PersistBegin, PersistSave, QueueInv, WellFormed
  <2> QED BY <2>1, <2>2, <2>3 DEF Persist
<1>4. WellFormed(disk.list, disk.pending)'
  BY DEF Persist, PersistBegin, PersistCopy, PersistSave, PersistFail, PersistDone, QueueInv,
         WellFormed
<1>5. NeverBoth'
  BY <1>1 DEF QueueInv, NeverBoth
<1> QED BY <1>1, <1>2, <1>3, <1>4, <1>5 DEF QueueInv, WellFormed, ingestVars, listVars

\* A restart from the sidecar preserves QueueInv.
LEMMA QueueCrashRestart ==
  ASSUME TypeOK, QueueInv, CrashRestart
  PROVE  QueueInv'
<1>1. /\ ingest' = disk.ingest /\ shadowIngest' = ingest'
      /\ list' = disk.list /\ pending' = disk.pending
      /\ shadowList' = list' /\ shadowPending' = pending'
      /\ copy' = EmptySnapshot /\ UNCHANGED disk
  BY DEF CrashRestart
<1>2. NeverBoth'
  BY DEF CrashRestart, NeverBoth, InFlight
<1>3. ShadowAttempts'
  BY DEF CrashRestart, ShadowAttempts, OnQueue
<1>4. WellFormed(list', pending')
  BY <1>1 DEF QueueInv, WellFormed
<1> QED BY <1>1, <1>2, <1>3, <1>4, EmptyWellFormed DEF QueueInv, WellFormed

\* Every step of the store, its coordinators and its persist thread preserves
\* QueueInv.
LEMMA QueueStep == TypeOK /\ ClaimInv /\ ScoreInv /\ QueueInv /\ [Next]_vars => QueueInv'
<1> SUFFICES ASSUME TypeOK, ClaimInv, ScoreInv, QueueInv, [Next]_vars PROVE QueueInv'
  OBVIOUS
<1>1. CASE UNCHANGED vars
  BY <1>1, QueueFrame DEF vars, ingestVars, claimVars, payloadVars, writerVars, InFlight
<1>2. CASE \E prot \in BOOLEAN : ClaimList(prot)
  BY <1>2, QueueClaimList
<1>3. CASE \E c \in claims : Resolve(c)
  BY <1>3, QueueResolve
<1> QED BY <1>1, <1>2, <1>3, QueueProduce, QueueClaimIngest, QueueRecover, QueuePersist,
           QueueCrashRestart DEF Next

(* Queues, dedupe sets, durable shadow and snapshots agree throughout. *)
THEOREM QueueInvariant == Spec => []QueueInv
BY TypeInvariant, ClaimInvariant, ScoreInvariant, QueueInit, QueueStep, PTL DEF Spec

(* A job is queued or in flight, never both, and no LIST holds an identity twice:
   zadd_ingest and enqueue_list refuse what is in flight, ack and requeue check the
   owner, and claim_list and the reap move a job under one lock region. *)
THEOREM QueuesExclusive == Spec => []QueueExclusive
<1>1. QueueInv => QueueExclusive
  <2> SUFFICES ASSUME QueueInv PROVE QueueExclusive
    OBVIOUS
  <2>1. \A l \in ListIds : l \in pending <=> OnQueue(l)
    BY IdsAssumption DEF QueueInv, WellFormed, OnQueue
  <2> QED BY <2>1 DEF QueueInv, NeverBoth, WellFormed, QueueExclusive
<1> QED BY <1>1, QueueInvariant, PTL

(* The durable shadow that the persist thread copies is the queued work and its
   payload rows at every moment, although every helper updates it by increments. *)
THEOREM ShadowsMirror == Spec => []ShadowMirrorsQueues
<1>1. QueueInv => ShadowMirrorsQueues
  BY DEF QueueInv, ShadowAttempts, ShadowMirrorsQueues
<1> QED BY <1>1, QueueInvariant, PTL

-----------------------------------------------------------------------------
(* Heaps: every queued file can be claimed and evicted, and a claim takes the oldest *)

\* The live entry of file i, when ing is the score map.
Live(ing, i) == <<ing[i], i>>

MinArmed == \A i \in IngestIds : ingest[i] # NoScore =>
              Live(ingest, i) \in heap[decode_ingest_band(ingest[i])]

MaxArmed == \A i \in IngestIds :
              ingest[i] # NoScore /\ decode_ingest_band(ingest[i]) = "catchup" =>
                Live(ingest, i) \in heapMax

\* An entry, live or stale, is in the heap of its band.
EntriesBanded == \A b \in Bands : \A e \in heap[b] : decode_ingest_band(e[1]) = b

\* The inductive invariant.
HeapInv == MinArmed /\ MaxArmed /\ EntriesBanded

\* The empty store satisfies HeapInv.
LEMMA HeapInit == Init => HeapInv
BY DEF Init, HeapInv, MinArmed, MaxArmed, EntriesBanded

\* _ingest_heap_push_locked keeps what is there and adds the entry.
LEMMA HeapPush ==
  ASSUME NEW h \in [Bands -> SUBSET (Int \X IngestIds)], NEW i \in IngestIds, NEW s \in Int
  PROVE  \A b \in Bands : HeapPushed(h, i, s)[b]
                            = h[b] \cup (IF b = decode_ingest_band(s) THEN {<<s, i>>} ELSE {})
BY BandType DEF HeapPushed

\* Rebuilt or not, the max-heap holds the pushed entry and every live one it held.
LEMMA HeapMaxPush ==
  ASSUME NEW hm, NEW ing \in ScoreMaps, NEW i \in IngestIds, NEW s \in Int
  PROVE  /\ decode_ingest_band(s) = "catchup" => <<s, i>> \in HeapMaxPushed(hm, ing, i, s)
         /\ \A k \in IngestIds :
              /\ ing[k] # NoScore /\ decode_ingest_band(ing[k]) = "catchup"
              /\ Live(ing, k) \in hm
              => Live(ing, k) \in HeapMaxPushed(hm, ing, i, s)
BY DEF HeapMaxPushed, LiveCatchup, Live

\* _ingest_set_locked arms the identity it queues and disarms no other.
LEMMA HeapSet ==
  ASSUME TypeOK, HeapInv, NEW i \in IngestIds, NEW s \in Int, IngestSet(i, s)
  PROVE  HeapInv'
<1>1. /\ ingest' = [ingest EXCEPT ![i] = s] /\ ingest' \in ScoreMaps
      /\ heap' = HeapPushed(heap, i, s)
      /\ heapMax' = HeapMaxPushed(heapMax, ingest', i, s)
  BY DEF IngestSet, TypeOK, ScoreMaps
<1>2. \A k \in IngestIds : ingest'[k] = IF k = i THEN s ELSE ingest[k]
  BY <1>1 DEF TypeOK, ScoreMaps
<1>3. \A b \in Bands : heap'[b] = heap[b] \cup (IF b = decode_ingest_band(s) THEN {<<s, i>>} ELSE {})
  BY <1>1, HeapPush DEF TypeOK
<1>4. MinArmed'
  BY <1>2, <1>3, BandType DEF HeapInv, MinArmed, Live
<1>5. MaxArmed'
  <2>1. ASSUME NEW k \in IngestIds, ingest'[k] # NoScore, decode_ingest_band(ingest'[k]) = "catchup"
        PROVE  Live(ingest', k) \in heapMax'
    <3>1. CASE k = i
      BY <1>1, <1>2, <2>1, <3>1, HeapMaxPush DEF Live
    <3>2. CASE k # i
      <4>1. Live(ingest', k) \in heapMax
        BY <1>2, <2>1, <3>2 DEF HeapInv, MaxArmed, Live
      <4> QED BY <1>1, <2>1, <4>1, HeapMaxPush
    <3> QED BY <3>1, <3>2
  <2> QED BY <2>1 DEF MaxArmed
<1>6. EntriesBanded'
  BY <1>3 DEF HeapInv, EntriesBanded
<1> QED BY <1>4, <1>5, <1>6 DEF HeapInv

\* A step that leaves map and heaps alone preserves HeapInv.
LEMMA HeapFrame ==
  ASSUME HeapInv, UNCHANGED <<ingest, heap, heapMax>>
  PROVE  HeapInv'
BY DEF HeapInv, MinArmed, MaxArmed, EntriesBanded, Live

\* An entry that is not live is dropped.
LEMMA HeapDropped ==
  ASSUME TypeOK, HeapInv, NEW b \in Bands, NEW e \in heap[b],
         ingest[e[2]] # NoScore => ingest[e[2]] # e[1],
         heap' = [heap EXCEPT ![b] = @ \ {e}], UNCHANGED <<ingest, heapMax>>
  PROVE  HeapInv'
<1>1. \A i \in IngestIds : ingest[i] # NoScore => Live(ingest, i) # e
  BY DEF Live
<1>2. MinArmed'
  BY <1>1, BandType DEF HeapInv, MinArmed, Live, TypeOK
<1>3. EntriesBanded'
  BY DEF HeapInv, EntriesBanded, TypeOK
<1> QED BY <1>2, <1>3 DEF HeapInv, MaxArmed, Live

\* Producers (discover, reconstruct, eviction, reordering, a new day) preserve
\* HeapInv.
LEMMA HeapProduce ==
  ASSUME TypeOK, HeapInv, Produce
  PROVE  HeapInv'
<1>1. ASSUME NEW i \in IngestIds, NEW overCap \in BOOLEAN, ZaddIngest(i, overCap)
      PROVE  HeapInv'
  <2>1. encode_ingest_score(i) \in Int
    BY EncodeType DEF TypeOK
  <2> QED BY <1>1, <2>1, HeapSet DEF ZaddIngest
<1>2. ASSUME NEW w \in IngestIds, EvictYoungest(w) PROVE HeapInv'
  <2>1. PICK e \in heapMax :
          /\ ingest[e[2]] = e[1]
          /\ \A f \in heapMax : ingest[f[2]] = f[1] => f[1] <= e[1]
          /\ heapMax' = {f \in heapMax : f[1] <= e[1]} \ {e}
          /\ IngestPop(e[2])
    BY <1>2 DEF EvictYoungest
  <2>2. e[2] \in IngestIds /\ heap' = heap /\ e = <<e[1], e[2]>>
    BY <1>2 DEF TypeOK, EvictYoungest
  <2>3. \A k \in IngestIds : ingest'[k] = IF k = e[2] THEN NoScore ELSE ingest[k]
    BY <2>1, <2>2 DEF IngestPop, TypeOK, ScoreMaps
  <2>4. MinArmed' /\ EntriesBanded'
    BY <2>2, <2>3 DEF HeapInv, MinArmed, EntriesBanded, Live
  <2>5. MaxArmed'
    <3>1. ASSUME NEW k \in IngestIds, ingest'[k] # NoScore,
                 decode_ingest_band(ingest'[k]) = "catchup"
          PROVE  Live(ingest', k) \in heapMax'
      <4>1. k # e[2] /\ ingest'[k] = ingest[k]
        BY <2>3, <3>1
      <4>2. <<ingest[k], k>> \in heapMax
        BY <3>1, <4>1 DEF HeapInv, MaxArmed, Live
      <4>3. ingest[k] <= e[1] /\ <<ingest[k], k>> # e
        BY <2>1, <2>2, <4>1, <4>2
      <4> QED BY <2>1, <4>1, <4>2, <4>3 DEF Live
    <3> QED BY <3>1 DEF MaxArmed
  <2> QED BY <2>4, <2>5 DEF HeapInv
<1>3. ASSUME ReorderList \/ NextDay \/ \E l \in ListIds : EnqueueList(l) PROVE HeapInv'
  BY <1>3, HeapFrame DEF ReorderList, NextDay, EnqueueList, ingestVars
<1> QED BY <1>1, <1>2, <1>3 DEF Produce

\* Each step of claim_ingest's loop under the lock preserves HeapInv.
LEMMA HeapClaimIngest ==
  ASSUME TypeOK, QueueInv, HeapInv, ClaimIngest
  PROVE  HeapInv'
<1>0. cs.op = "claim" => cs.band \in Bands
  BY DEF TypeOK, Sections, Free
<1>1. ASSUME ClaimIngestEnd \/ \E b \in Bands, n \in 1..ClaimMax : ClaimIngestBegin(b, n)
      PROVE  HeapInv'
  BY <1>1, HeapFrame DEF ClaimIngestEnd, ClaimIngestBegin, ingestVars
<1>2. ASSUME ClaimSkip PROVE HeapInv'
  <2>1. PICK e \in heap[cs.band] : /\ InFlight(e[2]) \/ ingest[e[2]] = NoScore
                                   /\ heap' = [heap EXCEPT ![cs.band] = @ \ {e}]
    BY <1>2 DEF ClaimSkip, HeapMin
  <2>2. cs.band \in Bands /\ e[2] \in IngestIds /\ e[2] \in Jobs
    BY <1>0, <1>2, <2>1 DEF ClaimSkip, TypeOK, Jobs
  <2>3. ingest[e[2]] = NoScore
    BY <2>1, <2>2 DEF QueueInv, NeverBoth, OnQueue
  <2> QED BY <1>2, <2>1, <2>2, <2>3, HeapDropped DEF ClaimSkip
<1>3. ASSUME ClaimRearm PROVE HeapInv'
  <2>1. PICK e \in heap[cs.band] :
          /\ ingest[e[2]] # NoScore /\ ingest[e[2]] # e[1]
          /\ heap' = HeapPushed([heap EXCEPT ![cs.band] = @ \ {e}], e[2], ingest[e[2]])
          /\ heapMax' = HeapMaxPushed(heapMax, ingest, e[2], ingest[e[2]])
    BY <1>3 DEF ClaimRearm, HeapMin
  <2>2. cs.band \in Bands /\ e[2] \in IngestIds /\ ingest[e[2]] \in Int /\ ingest' = ingest
    BY <1>0, <1>3, <2>1 DEF ClaimRearm, TypeOK, ScoreMaps
  <2> DEFINE h == [heap EXCEPT ![cs.band] = @ \ {e}]
             i == e[2]
             s == ingest[e[2]]
  <2>3. h \in [Bands -> SUBSET (Int \X IngestIds)]
        /\ \A b \in Bands : h[b] = heap[b] \ (IF b = cs.band THEN {e} ELSE {})
    BY <2>2 DEF TypeOK
  <2> HIDE DEF h
  <2>4. \A b \in Bands : heap'[b] = h[b] \cup (IF b = decode_ingest_band(s) THEN {<<s, i>>} ELSE {})
    <3>1. heap' = HeapPushed(h, i, s) /\ i \in IngestIds /\ s \in Int
      BY <2>1, <2>2 DEF h
    <3> HIDE DEF i, s
    <3> QED BY <2>3, <3>1, HeapPush
  <2>5. MinArmed'
    <3>1. ASSUME NEW k \in IngestIds, ingest[k] # NoScore
          PROVE  Live(ingest, k) \in heap'[decode_ingest_band(ingest[k])]
      <4>1. Live(ingest, k) \in heap[decode_ingest_band(ingest[k])] /\ Live(ingest, k) # e
        BY <2>1, <3>1 DEF HeapInv, MinArmed, Live
      <4> QED BY <2>3, <2>4, <4>1, BandType
    <3> QED BY <2>2, <3>1 DEF MinArmed
  <2>6. EntriesBanded'
    BY <2>3, <2>4 DEF HeapInv, EntriesBanded
  <2>7. MaxArmed'
    BY <2>1, <2>2, HeapMaxPush DEF HeapInv, MaxArmed, TypeOK
  <2> QED BY <2>5, <2>6, <2>7 DEF HeapInv
<1>4. ASSUME ClaimTake PROVE HeapInv'
  <2>1. PICK e \in heap[cs.band] : heap' = [heap EXCEPT ![cs.band] = @ \ {e}] /\ IngestPop(e[2])
    BY <1>4 DEF ClaimTake, HeapMin
  <2>2. cs.band \in Bands /\ e[2] \in IngestIds /\ heapMax' = heapMax
    BY <1>0, <1>4, <2>1 DEF ClaimTake, TypeOK
  <2>3. \A k \in IngestIds : ingest'[k] = IF k = e[2] THEN NoScore ELSE ingest[k]
    BY <2>1, <2>2 DEF IngestPop, TypeOK, ScoreMaps
  <2>4. \A b \in Bands : heap'[b] = heap[b] \ (IF b = cs.band THEN {e} ELSE {})
    BY <2>1, <2>2 DEF TypeOK
  <2>5. MinArmed'
    <3>1. ASSUME NEW k \in IngestIds, ingest'[k] # NoScore
          PROVE  Live(ingest', k) \in heap'[decode_ingest_band(ingest'[k])]
      <4>1. ingest'[k] = ingest[k] /\ k # e[2] /\ Live(ingest, k) # e
        BY <2>3, <3>1 DEF Live
      <4> QED BY <2>4, <3>1, <4>1, BandType DEF HeapInv, MinArmed, Live
    <3> QED BY <3>1 DEF MinArmed
  <2>6. EntriesBanded'
    BY <2>4 DEF HeapInv, EntriesBanded
  <2>7. MaxArmed'
    BY <2>2, <2>3 DEF HeapInv, MaxArmed, Live
  <2> QED BY <2>5, <2>6, <2>7 DEF HeapInv
<1> QED BY <1>1, <1>2, <1>3, <1>4 DEF ClaimIngest

\* What a coordinator does with a claim (finish, defer, fail, dead-letter,
\* lose) preserves HeapInv.
LEMMA HeapResolve ==
  ASSUME TypeOK, HeapInv, NEW c \in claims, Resolve(c)
  PROVE  HeapInv'
<1>0. c \in Claims
  BY DEF TypeOK
<1>1. ASSUME Defer(c) \/ FailRequeue(c) PROVE HeapInv'
  <2>1. PICK s : DoRequeue(c, s) /\ (c.job \in IngestIds => s \in Int)
    <3>1. c.score \in Int /\ (c.job \in IngestIds => encode_ingest_score(c.job) \in Int)
      BY <1>0, EncodeType DEF Claims, TypeOK
    <3> QED BY <1>1, <3>1, PenalizeType DEF Defer, FailRequeue
  <2>2. CASE Owns(c) /\ c.job \in IngestIds
    BY <2>1, <2>2, HeapSet DEF DoRequeue
  <2>3. CASE ~(Owns(c) /\ c.job \in IngestIds)
    BY <2>1, <2>3, HeapFrame DEF DoRequeue, ingestVars
  <2> QED BY <2>2, <2>3
<1>2. ASSUME ~(Defer(c) \/ FailRequeue(c)) PROVE HeapInv'
  <2>1. UNCHANGED ingestVars
    BY <1>2 DEF Resolve, FinishOk, FinishDropped, FailBump, DeadLetterUpsert, DeadLetterAck,
                TimeoutSentinel, LoseClaim
  <2> QED BY <2>1, HeapFrame DEF ingestVars
<1> QED BY <1>1, <1>2

\* Expiry of deadlines and the steps of the reap tick preserve HeapInv.
LEMMA HeapRecover ==
  ASSUME TypeOK, HeapInv, Recover
  PROVE  HeapInv'
<1>1. ASSUME NEW j \in Jobs, ReapOne(j) PROVE HeapInv'
  <2>1. CASE j \in IngestIds
    <3>1. penalize_ingest_score(claimScore[j]) \in Int
      BY <2>1, PenalizeType DEF TypeOK, ScoreMaps
    <3> QED BY <1>1, <2>1, <3>1, HeapSet DEF ReapOne
  <2>2. CASE j \notin IngestIds
    BY <1>1, <2>2, HeapFrame DEF ReapOne, ingestVars
  <2> QED BY <2>1, <2>2
<1>2. ASSUME \/ ReapEnd \/ ReapBegin(IngestIds) \/ ReapBegin(ListIds)
             \/ \E j \in Jobs : Expire(j)
      PROVE  HeapInv'
  BY <1>2, HeapFrame DEF ReapEnd, ReapBegin, Expire, ingestVars
<1> QED BY <1>1, <1>2 DEF Recover

\* load rebuilds the heaps from the score map it read.
LEMMA HeapCrashRestart ==
  ASSUME TypeOK, CrashRestart
  PROVE  HeapInv'
<1>1. ingest' = disk.ingest /\ heapMax' = LiveCatchup(disk.ingest)
  BY DEF CrashRestart
<1>2. \A b \in Bands : heap'[b] =
        {<<disk.ingest[i], i>> : i \in {k \in IngestIds : /\ disk.ingest[k] # NoScore
                                       /\ decode_ingest_band(disk.ingest[k]) = b}}
  BY DEF CrashRestart
<1>3. MinArmed'
  BY <1>1, <1>2, BandType DEF MinArmed, Live
<1>4. MaxArmed'
  BY <1>1 DEF MaxArmed, Live, LiveCatchup
<1>5. EntriesBanded'
  BY <1>2 DEF EntriesBanded
<1> QED BY <1>3, <1>4, <1>5 DEF HeapInv

\* Every step of the store, its coordinators and its persist thread preserves
\* HeapInv.
LEMMA HeapStep == TypeOK /\ QueueInv /\ HeapInv /\ [Next]_vars => HeapInv'
<1> SUFFICES ASSUME TypeOK, QueueInv, HeapInv, [Next]_vars PROVE HeapInv'
  OBVIOUS
<1>1. CASE UNCHANGED vars
  BY <1>1, HeapFrame DEF vars, ingestVars
<1>2. CASE \E prot \in BOOLEAN : ClaimList(prot)
  BY <1>2, HeapFrame DEF ClaimList, ingestVars
<1>3. CASE \E c \in claims : Resolve(c)
  BY <1>3, HeapResolve
<1>4. CASE Persist
  BY <1>4, HeapFrame DEF Persist, PersistBegin, PersistCopy, PersistSave, PersistFail, PersistDone,
                         ingestVars
<1> QED BY <1>1, <1>2, <1>3, <1>4, HeapProduce, HeapClaimIngest, HeapRecover, HeapCrashRestart
    DEF Next

(* The heaps hold the live entry of every queued file, in the heap of its band. *)
THEOREM HeapInvariant == Spec => []HeapInv
BY TypeInvariant, QueueInvariant, HeapInit, HeapStep, PTL DEF Spec

(* No queued file is ever unreachable: the heap claim_ingest pops and, for backfill,
   the max-heap eviction pops hold an entry with its current score, whatever stale
   entries were skipped, re-armed or compacted away. *)
THEOREM HeapsArmed == Spec => []HeapArmed
<1>1. HeapInv => HeapArmed
  BY DEF HeapInv, MinArmed, MaxArmed, HeapArmed, QueuedIngest, Live
<1> QED BY <1>1, HeapInvariant, PTL

\* A claimed identity has the least live score of its band.
LEMMA OldestStep == TypeOK /\ HeapInv /\ [Next]_vars => [ClaimsOldest]_vars
<1> SUFFICES ASSUME TypeOK, HeapInv, Next PROVE ClaimsOldest
  OBVIOUS
<1>1. SUFFICES ASSUME NEW i \in IngestIds, ~InFlight(i), inflight'[i] # NoTok,
                      NEW k \in QueuedIngest,
                      decode_ingest_band(ingest[k]) = decode_ingest_band(ingest[i])
               PROVE  ingest[i] <= ingest[k]
  BY DEF ClaimsOldest
<1>2. i \in Jobs /\ i \notin ListIds
  BY IdsAssumption DEF Jobs
<1>3. ClaimTake
  <2>1. CASE UNCHANGED inflight
    BY <1>1, <2>1 DEF InFlight
  <2>2. ASSUME NEW j \in Jobs, ClearClaim(j) PROVE FALSE
    BY <1>1, <1>2, <2>2, ClearClaimInFlight DEF InFlight
  <2>3. ASSUME NEW prot \in BOOLEAN, ClaimList(prot) PROVE FALSE
    <3>1. PICK tok : inflight' = inflight \/ inflight' = [inflight EXCEPT ![Head(list)] = tok]
      BY <2>3 DEF ClaimList, claimVars
    <3>2. Head(list) # i
      BY <1>2, <2>3 DEF ClaimList, TypeOK
    <3> QED BY <1>1, <1>2, <3>1, <3>2 DEF InFlight, TypeOK
  <2>4. CASE CrashRestart
    BY <1>1, <1>2, <2>4 DEF CrashRestart
  <2>5. CASE Produce \/ Persist
    BY <2>1, <2>5 DEF Produce, ZaddIngest, EnqueueList, EvictYoungest, ReorderList, NextDay, Persist,
         PersistBegin, PersistCopy, PersistSave, PersistFail, PersistDone, claimVars
  <2>6. CASE Recover
    BY <2>1, <2>2, <2>6 DEF Recover, Expire, ReapBegin, ReapOne, ReapEnd, claimVars
  <2>7. ASSUME NEW c \in claims, Resolve(c) PROVE FALSE
    <3>1. c.job \in Jobs
      BY DEF TypeOK, Claims
    <3>2. UNCHANGED claimVars \/ ClearClaim(c.job)
      BY <2>7 DEF Resolve, FinishOk, FinishDropped, Defer, FailBump, FailRequeue, DeadLetterUpsert,
           DeadLetterAck, TimeoutSentinel, LoseClaim, DoAck, DoRequeue
    <3> QED BY <1>1, <2>2, <3>1, <3>2 DEF claimVars, InFlight
  <2>8. CASE ClaimIngest
    BY <2>1, <2>8 DEF ClaimIngest, ClaimIngestBegin, ClaimSkip, ClaimRearm, ClaimIngestEnd, claimVars
  <2> QED BY <2>3, <2>4, <2>5, <2>6, <2>7, <2>8 DEF Next
<1>4. PICK e \in heap[cs.band] : /\ \A f \in heap[cs.band] : e[1] <= f[1]
                                 /\ ingest[e[2]] = e[1]
                                 /\ inflight' = [inflight EXCEPT ![e[2]] = cs.tok]
  BY <1>3 DEF ClaimTake, HeapMin
<1>5. cs.band \in Bands
  BY <1>3 DEF ClaimTake, TypeOK, Sections, Free
<1>6. e[2] = i
  BY <1>1, <1>2, <1>4 DEF InFlight, TypeOK
<1>7. decode_ingest_band(ingest[k]) = cs.band
  BY <1>1, <1>4, <1>5, <1>6 DEF HeapInv, EntriesBanded
<1>8. <<ingest[k], k>> \in heap[cs.band]
  BY <1>1, <1>7 DEF HeapInv, MinArmed, QueuedIngest, Live
<1> QED BY <1>4, <1>6, <1>8

(* claim_ingest hands out the lowest score queued in the band it was asked for: the
   lazy heap never lets a stale entry stand for a younger file. *)
THEOREM OldestFirst == Spec => ClaimTakesOldest
BY TypeInvariant, HeapInvariant, OldestStep, PTL DEF Spec, ClaimTakesOldest

-----------------------------------------------------------------------------
(* The snapshot sidecar: a clean store is the one on disk, and attempts are not lost *)

\* A snapshot has payload rows for queued work only.
RowsOfQueued(d) ==
  \A j \in Jobs : (IF j \in IngestIds THEN d.ingest[j] # NoScore
                                      ELSE \E n \in 1..Len(d.list) : d.list[n] = j)
                  \/ d.attempts[j] = 0

\* The inductive invariant behind CleanMeansDurable: a write under way keeps the
\* dirty flag up, and unless a change raced it, carries the present state.
DurableInv ==
  /\ CleanMeansDurable
  /\ wpc # "idle" => dirty
  /\ wpc = "save" /\ ~raced => copy = Durable
  /\ wpc = "saved" /\ ~raced => disk = Durable
  /\ RowsOfQueued(copy) /\ RowsOfQueued(disk)

\* The document of a missing sidecar has rows for all it queues: none.
LEMMA EmptyRows == RowsOfQueued(EmptySnapshot)
BY DEF RowsOfQueued, EmptySnapshot

\* The empty store satisfies DurableInv.
LEMMA DurableInit == Init => DurableInv
<1> SUFFICES ASSUME Init PROVE DurableInv
  OBVIOUS
<1>1. disk = Durable
  BY DEF Init, Durable, EmptySnapshot
<1>2. RowsOfQueued(copy) /\ RowsOfQueued(disk)
  BY EmptyRows DEF Init
<1> QED BY <1>1, <1>2 DEF Init, DurableInv, CleanMeansDurable

\* A step that marks the store dirty may change it as it likes.
LEMMA DurableMarked ==
  ASSUME DurableInv, MarkDirty, UNCHANGED <<wpc, copy, disk>>
  PROVE  DurableInv'
BY DEF DurableInv, CleanMeansDurable, MarkDirty, RowsOfQueued

\* Any other step of the store leaves the shadow alone.
LEMMA DurableFrame ==
  ASSUME DurableInv,
         UNCHANGED <<shadowIngest, shadowList, shadowPending, shadowAttempts, dirty, raced,
                     wpc, copy, disk>>
  PROVE  DurableInv'
BY DEF DurableInv, CleanMeansDurable, RowsOfQueued, Durable

\* The persist thread's copy, save, failure and end preserve DurableInv.
LEMMA DurablePersist ==
  ASSUME TypeOK, QueueInv, DurableInv, Persist
  PROVE  DurableInv'
<1>0. UNCHANGED <<ingest, list, shadowIngest, shadowList, shadowPending>>
  BY DEF Persist, PersistBegin, PersistCopy, PersistSave, PersistFail, PersistDone, ingestVars,
         listVars
<1>1. CASE PersistCopy
  <2>1. shadowAttempts' = shadowAttempts
    <3>1. \A j \in Jobs : shadowAttempts'[j] = shadowAttempts[j]
      BY <1>1 DEF PersistCopy, QueueInv, ShadowAttempts
    <3>2. shadowAttempts' \in [Jobs -> Nat] /\ shadowAttempts \in [Jobs -> Nat]
      BY <1>1 DEF PersistCopy, TypeOK
    <3> QED BY <3>1, <3>2
  <2>2. Durable' = Durable
    BY <1>0, <2>1 DEF Durable
  <2>3. copy' = Durable
    BY <1>1, <2>1 DEF PersistCopy, Durable
  <2>4. RowsOfQueued(Durable)
    BY DEF RowsOfQueued, Durable, QueueInv, ShadowAttempts, OnQueue
  <2>5. wpc' = "save" /\ UNCHANGED <<dirty, raced, disk>> /\ dirty
    BY <1>1 DEF PersistCopy, DurableInv
  <2> QED BY <2>2, <2>3, <2>4, <2>5 DEF DurableInv, CleanMeansDurable, RowsOfQueued
<1>2. CASE ~PersistCopy
  <2>1. Durable' = Durable
    BY <1>0, <1>2 DEF Persist, PersistBegin, PersistSave, PersistFail, PersistDone, payloadVars, Durable
  <2>2. CASE PersistBegin
    BY <2>1, <2>2 DEF PersistBegin, DurableInv, CleanMeansDurable, RowsOfQueued
  <2>3. CASE PersistSave
    BY <2>1, <2>3 DEF PersistSave, DurableInv, CleanMeansDurable, RowsOfQueued
  <2>4. CASE PersistFail
    BY <2>1, <2>4, EmptyRows DEF PersistFail, DurableInv, CleanMeansDurable, RowsOfQueued
  <2>5. CASE PersistDone
    BY <2>1, <2>5, EmptyRows DEF PersistDone, StillDirty, DurableInv, CleanMeansDurable, RowsOfQueued
  <2> QED BY <1>2, <2>2, <2>3, <2>4, <2>5 DEF Persist
<1> QED BY <1>1, <1>2

\* load drops no row of a snapshot written by _persist_write.
LEMMA DurableCrashRestart ==
  ASSUME TypeOK, DurableInv, CrashRestart
  PROVE  DurableInv'
<1>1. shadowAttempts' = disk.attempts
  <2>1. \A j \in Jobs : shadowAttempts'[j] = disk.attempts[j]
    BY DEF CrashRestart, DurableInv, RowsOfQueued
  <2>2. disk.attempts \in [Jobs -> Nat] /\ shadowAttempts' = [j \in Jobs |-> shadowAttempts'[j]]
    BY DEF CrashRestart, TypeOK, Snapshots
  <2> QED BY <2>1, <2>2
<1>2. disk \in [ingest : ScoreMaps, list : Seq(ListIds), pending : SUBSET ListIds,
                attempts : [Jobs -> Nat]]
  BY DEF TypeOK, Snapshots
<1>3. disk' = Durable'
  BY <1>1, <1>2 DEF CrashRestart, Durable
<1>4. RowsOfQueued(copy')
  BY EmptyRows DEF CrashRestart
<1>5. RowsOfQueued(disk') /\ wpc' = "idle"
  BY DEF CrashRestart, DurableInv
<1> QED BY <1>3, <1>4, <1>5 DEF DurableInv, CleanMeansDurable

\* Every step of the store, its coordinators and its persist thread preserves
\* DurableInv.
LEMMA DurableStep == TypeOK /\ QueueInv /\ ClaimInv /\ DurableInv /\ [Next]_vars => DurableInv'
<1> SUFFICES ASSUME TypeOK, QueueInv, ClaimInv, DurableInv, [Next]_vars PROVE DurableInv'
  OBVIOUS
<1>1. CASE UNCHANGED vars
  BY <1>1, DurableFrame DEF vars, ingestVars, listVars, payloadVars, writerVars
<1>2. CASE Produce
  BY <1>2, DurableMarked, DurableFrame DEF Produce, ZaddIngest, EnqueueList, EvictYoungest,
       ReorderList, NextDay, ingestVars, listVars, payloadVars, writerVars
<1>3. CASE ClaimIngest
  BY <1>3, DurableMarked, DurableFrame DEF ClaimIngest, ClaimIngestBegin, ClaimSkip, ClaimRearm,
       ClaimTake, ClaimIngestEnd, ingestVars, listVars, payloadVars, writerVars
<1>4. ASSUME NEW prot \in BOOLEAN, ClaimList(prot) PROVE DurableInv'
  <2>1. list # << >> /\ Head(list) \in ListIds /\ Head(list) \in Jobs
    BY <1>4 DEF ClaimList, TypeOK, Jobs
  <2>2. OnQueue(Head(list))
    <3>1. 1 \in 1..Len(list) /\ list[1] = Head(list)
      BY <2>1 DEF TypeOK
    <3> QED BY <2>1, <3>1, IdsAssumption DEF OnQueue
  <2>3. ~InFlight(Head(list))
    BY <2>1, <2>2, PendingIsQueued
  <2>4. MarkDirty /\ UNCHANGED writerVars
    BY <1>4, <2>3 DEF ClaimList
  <2> QED BY <2>4, DurableMarked DEF writerVars
<1>5. ASSUME NEW c \in claims, Resolve(c) PROVE DurableInv'
  <2>1. UNCHANGED writerVars
    BY <1>5 DEF Resolve, FinishOk, FinishDropped, Defer, FailBump, FailRequeue, DeadLetterUpsert,
         DeadLetterAck, TimeoutSentinel, LoseClaim
  <2>2. \/ MarkDirty
        \/ UNCHANGED <<shadowIngest, shadowList, shadowPending, shadowAttempts, dirty, raced>>
    BY <1>5 DEF Resolve, FinishOk, FinishDropped, Defer, FailBump, FailRequeue, DeadLetterUpsert,
         DeadLetterAck, TimeoutSentinel, LoseClaim, DoRequeue, ingestVars, listVars, payloadVars
  <2> QED BY <2>1, <2>2, DurableMarked, DurableFrame DEF writerVars
<1>6. CASE Recover
  BY <1>6, DurableMarked, DurableFrame DEF Recover, Expire, ReapBegin, ReapOne, ReapEnd,
       ingestVars, listVars, payloadVars, writerVars
<1> QED BY <1>1, <1>2, <1>3, <1>4, <1>5, <1>6, DurablePersist, DurableCrashRestart DEF Next

(* The store is never clean with a stale sidecar. *)
THEOREM DurableInvariant == Spec => []DurableInv
BY TypeInvariant, QueueInvariant, ClaimInvariant, DurableInit, DurableStep, PTL DEF Spec

(* When nothing is marked dirty and no write runs, the sidecar is the queued work: a
   mutation between _persist_write's copy and the end of _attempt is written again. *)
THEOREM CleanIsDurable == Spec => []CleanMeansDurable
BY DurableInvariant, PTL DEF DurableInv

-----------------------------------------------------------------------------
(* Attempt counters *)

\* A score whose calendar day is past another one is not the mark of absence.
LEMMA EvictedScore ==
  ASSUME NEW s \in Int, NEW d \in Nat, decode_catchup_calendar_day(s) > d
  PROVE  s # NoScore
<1> DEFINE K == SCORE_STRIDE
           x == s - CATCHUP_SCORE_BASE
<1>1. K \in Nat \ {0} /\ x \in Int /\ CATCHUP_SCORE_BASE \in Nat
  BY ScoreAssumption
<1>2. x \div K \in Int /\ x % K \in 0..(K - 1) /\ x = ((x \div K) * K) + (x % K)
  BY <1>1, DivModSplit
<1>3. 1 <= x \div K
  BY <1>2 DEF decode_catchup_calendar_day
<1>4. 1 * K <= (x \div K) * K
  BY <1>1, <1>2, <1>3, MulMono
<1>5. x > 0
  BY <1>1, <1>2, <1>4
<1> QED BY <1>1, <1>5 DEF NoScore

\* No step but a restart lowers the attempts of a job that stays known.
LEMMA AttemptsStep == TypeOK /\ QueueInv /\ ClaimInv /\ [Next]_vars => [KeepsAttempts]_vars
<1> SUFFICES ASSUME TypeOK, QueueInv, ClaimInv, Next PROVE KeepsAttempts
  OBVIOUS
<1>1. SUFFICES ASSUME NEW j \in Jobs, Known(j), Known(j)', ~CrashRestart
               PROVE  attempts'[j] >= attempts[j]
  BY DEF KeepsAttempts
<1>2. attempts[j] \in Nat
  BY DEF TypeOK
<1>3. CASE UNCHANGED attempts
  BY <1>2, <1>3
<1>4. ASSUME NEW w \in IngestIds, EvictYoungest(w) PROVE attempts'[j] >= attempts[j]
  <2>1. PICK e \in heapMax : /\ IngestPop(e[2]) /\ attempts' = [attempts EXCEPT ![e[2]] = 0]
                             /\ ingest[e[2]] = e[1]
                             /\ decode_catchup_calendar_day(e[1]) > FileDay[w]
    BY <1>4 DEF EvictYoungest
  <2>2. e[2] \in IngestIds /\ e[2] \in Jobs /\ UNCHANGED inflight /\ e[1] # NoScore
    BY <1>4, <2>1, EvictedScore, ScoreAssumption DEF EvictYoungest, TypeOK, Jobs, claimVars
  <2>3. CASE j = e[2]
    <3>1. OnQueue(j) /\ ~InFlight(j)
      BY <2>1, <2>2, <2>3, PendingIsQueued DEF OnQueue
    <3>2. ingest'[j] = NoScore
      BY <2>1, <2>2, <2>3 DEF IngestPop, TypeOK, ScoreMaps
    <3> QED BY <1>1, <2>2, <2>3, <3>1, <3>2 DEF Known, OnQueue, InFlight
  <2>4. CASE j # e[2]
    BY <1>2, <2>1, <2>4 DEF TypeOK
  <2> QED BY <2>3, <2>4
<1>5. ASSUME NEW c \in claims, Resolve(c) PROVE attempts'[j] >= attempts[j]
  <2>1. c.job \in Jobs /\ (Owns(c) => InFlight(c.job))
    BY DEF TypeOK, Claims, ClaimInv, ClaimsDistinct, Owns, InFlight
  <2>2. CASE DoAck(c) /\ Owns(c) /\ UNCHANGED <<ingestVars, list>>
    <3>1. ~OnQueue(c.job)
      BY <2>1, <2>2, PendingIsQueued
    <3>2. ClearClaim(c.job) /\ attempts' = [attempts EXCEPT ![c.job] = 0]
      BY <2>2 DEF DoAck
    <3>3. ~OnQueue(c.job)' /\ ~InFlight(c.job)'
      BY <2>1, <2>2, <3>1, <3>2, ClearClaimInFlight DEF OnQueue, ingestVars
    <3>4. j # c.job
      BY <1>1, <3>3 DEF Known
    <3> QED BY <1>2, <3>2, <3>4 DEF TypeOK
  <2>3. CASE FailBump(c)
    <3>1. attempts' = [attempts EXCEPT ![c.job] = @ + 1]
      BY <2>3 DEF FailBump
    <3> QED BY <1>2, <2>1, <3>1 DEF TypeOK
  <2>4. \/ DoAck(c) /\ Owns(c) /\ UNCHANGED <<ingestVars, list>>
        \/ FailBump(c)
        \/ UNCHANGED attempts
    BY <1>5 DEF Resolve, FinishOk, FinishDropped, Defer, FailRequeue, DeadLetterUpsert,
         DeadLetterAck, TimeoutSentinel, LoseClaim, DoAck, payloadVars
  <2> QED BY <1>3, <2>2, <2>3, <2>4
<1>6. CASE PersistCopy
  <2>1. KeepsPayload(j)
    BY <1>1 DEF Known, KeepsPayload
  <2> QED BY <1>2, <1>6, <2>1 DEF PersistCopy
<1>7. CASE Produce
  BY <1>3, <1>4, <1>7 DEF Produce, ZaddIngest, EnqueueList, ReorderList, NextDay, payloadVars
<1>8. CASE ClaimIngest \/ Recover \/ \E prot \in BOOLEAN : ClaimList(prot)
  BY <1>3, <1>8 DEF ClaimIngest, ClaimIngestBegin, ClaimSkip, ClaimRearm, ClaimTake,
       ClaimIngestEnd, Recover, Expire, ReapBegin, ReapOne, ReapEnd, ClaimList, payloadVars
<1>9. CASE Persist
  BY <1>3, <1>6, <1>9 DEF Persist, PersistBegin, PersistSave, PersistFail, PersistDone, payloadVars
<1> QED BY <1>1, <1>5, <1>7, <1>8, <1>9 DEF Next

(* While a job stays in the store its attempt counter never goes back, so
   _retry_or_dead_letter bounds the retries: claims, requeues, reaps and the pruning
   of payload rows by _persist_write keep it; only a restart may lower it. *)
THEOREM AttemptsNeverLost == Spec => AttemptsKept
BY TypeInvariant, QueueInvariant, ClaimInvariant, AttemptsStep, PTL DEF Spec, AttemptsKept
=============================================================================
