--------------------------- MODULE DayCloseProofs ---------------------------
(***************************************************************************)
(* Closing a day, for any raw files, late files, batch size, faults and    *)
(* restarts: a raw file is removed only when the database and the sealed   *)
(* archive have it, and no manifest is done while a file it knows remains. *)
(***************************************************************************)
EXTENDS DayClose, FiniteSetTheorems, TLAPS

Orphans == [census : Archives, man : Manifests]

\* The record the handlers of the day share, when the raw files ever made are M.
Days(M) == [raw : SUBSET M, ingested : SUBSET M, tar : Archives, zst : Archives,
            ingestQ : SUBSET M, appendQ : SUBSET M, doc : Manifests \cup {None},
            man : Manifests, pipe : Threads \cup {None}, orphan : Orphans \cup {None}]

Jobs(M) == [at : Stages, skip : BOOLEAN, mem : Archives, list : SUBSET M, ok : BOOLEAN,
            remains : BOOLEAN]

\* What any copy of the manifest may say of the files M, while R are on disk and I in
\* the database: entries are of files there were, verified means ingested, deleted means
\* gone, and done leaves no entry for a file on disk.
ManifestOK(m, M, R, I) ==
  /\ Members(m.todo) \subseteq M
  /\ \A f \in File : /\ m.ent[f] # "none" => f \in M
                     /\ m.ent[f] = "verified" => f \in I
                     /\ m.ent[f] = "deleted" => f \notin R
                     /\ m.phase = "done" /\ f \in R => m.ent[f] = "none"

\* Whatever is in the sealed archive is in the open tar, and whatever is gone from disk
\* is in the sealed archive and in the database.
ArchiveOK(d, M) ==
  /\ d.tar # None => Members(d.zst) \subseteq d.tar
  /\ \A f \in M \ d.raw : f \in d.ingested /\ f \in Members(d.zst)

DayOK(d, M) ==
  /\ d \in Days(M) /\ ArchiveOK(d, M)
  /\ ManifestOK(d.man, M, d.raw, d.ingested)
  /\ d.doc # None => ManifestOK(d.doc, M, d.raw, d.ingested)
  /\ d.orphan # None => ManifestOK(d.orphan.man, M, d.raw, d.ingested)

\* Between reading and recording its batch the job is not done.
JobOK == job.at \in {"record1", "record2"} => day.man.phase # "done"

Counts == faults \in 0..MaxFaults /\ crashes \in 0..MaxCrashes
Flags == queued \in BOOLEAN /\ boot \in BOOLEAN

IInv == /\ made \subseteq File /\ DayOK(day, made) /\ job \in Jobs(made)
        /\ JobOK /\ Counts /\ Flags

-----------------------------------------------------------------------------
(* Archives and manifests *)

LEMMA ArchiveFacts ==
  ASSUME NEW a \in Archives
  PROVE  /\ Members(a) \subseteq File
         /\ a # None => a \subseteq File /\ Members(a) = a
         /\ a = None => Members(a) = {}
BY DEF Archives, Members

LEMMA SetIsArchive == ASSUME NEW s \in SUBSET File PROVE s \in Archives /\ s # None
  /\ Members(s) = s
BY NoneAssumption DEF Archives, Members

LEMMA ManifestFields ==
  ASSUME NEW m \in Manifests
  PROVE  /\ m.phase \in Phases /\ m.stage \in {"none", "pre", "post"}
            /\ m.ent \in [File -> Status]
         /\ m.id \in {"none", "same", "other"} /\ m.todo \in Archives
BY DEF Manifests

\* Setting fields of a manifest.
LEMMA ManifestSet ==
  ASSUME NEW m \in Manifests, NEW p \in Phases, NEW g \in {"none", "pre", "post"},
         NEW i \in {"none", "same", "other"}, NEW t \in Archives, NEW e \in [File -> Status]
  PROVE  /\ [m EXCEPT !.phase = p] \in Manifests
         /\ [m EXCEPT !.phase = p].phase = p
         /\ [m EXCEPT !.phase = p].ent = m.ent
         /\ [m EXCEPT !.phase = p].todo = m.todo
         /\ [m EXCEPT !.stage = g] \in Manifests
         /\ [m EXCEPT !.stage = g].phase = m.phase
         /\ [m EXCEPT !.stage = g].ent = m.ent
         /\ [m EXCEPT !.stage = g].todo = m.todo
         /\ [m EXCEPT !.id = i] \in Manifests
         /\ [m EXCEPT !.id = i].phase = m.phase
         /\ [m EXCEPT !.id = i].ent = m.ent
         /\ [m EXCEPT !.id = i].todo = m.todo
         /\ [m EXCEPT !.todo = t] \in Manifests
         /\ [m EXCEPT !.todo = t].phase = m.phase
         /\ [m EXCEPT !.todo = t].ent = m.ent
         /\ [m EXCEPT !.todo = t].todo = t
         /\ [m EXCEPT !.ent = e] \in Manifests
         /\ [m EXCEPT !.ent = e].phase = m.phase
         /\ [m EXCEPT !.ent = e].ent = e
         /\ [m EXCEPT !.ent = e].todo = m.todo
BY DEF Manifests

LEMMA NewManifestOK ==
  ASSUME NEW M, NEW R, NEW I
  PROVE  /\ NewManifest \in Manifests /\ ManifestOK(NewManifest, M, R, I)
         /\ NewManifest.phase = "verifying"
BY DEF NewManifest, Manifests, ManifestOK, Members, Phases, Status, Archives

LEMMA MovedFields ==
  ASSUME NEW m \in Manifests
  PROVE  /\ Moved(m) \in Manifests /\ Moved(m).phase = m.phase /\ Moved(m).ent = m.ent
         /\ Moved(m).todo = m.todo
BY ManifestFields, ManifestSet DEF Moved

\* The manifest's word depends only on phase, entries and list, and a smaller disk and a
\* larger database keep it true.
LEMMA ManifestStays ==
  ASSUME NEW m \in Manifests, NEW k \in Manifests, NEW M, NEW R, NEW I, NEW S, NEW J,
         ManifestOK(m, M, R, I), k.ent = m.ent, Members(k.todo) \subseteq M,
         k.phase = m.phase \/ k.phase # "done", S \subseteq R, I \subseteq J
  PROVE  ManifestOK(k, M, S, J)
BY DEF ManifestOK

-----------------------------------------------------------------------------
(* The record of the day *)

LEMMA DayFields ==
  ASSUME NEW M, NEW d \in Days(M)
  PROVE  /\ d.raw \subseteq M /\ d.ingested \subseteq M /\ d.tar \in Archives
            /\ d.zst \in Archives
         /\ d.ingestQ \subseteq M /\ d.appendQ \subseteq M /\ d.doc \in Manifests \cup {None}
         /\ d.man \in Manifests /\ d.pipe \in Threads \cup {None}
         /\ d.orphan \in Orphans \cup {None}
         /\ d.orphan # None => d.orphan.man \in Manifests /\ d.orphan.census \in Archives
BY DEF Days, Orphans

\* Two days with the same files, archives and jobs left of the manifests.
SameFiles(d, e) == /\ e.raw = d.raw /\ e.ingested = d.ingested /\ e.zst = d.zst
                   /\ e.ingestQ = d.ingestQ /\ e.appendQ = d.appendQ

LEMMA KeepFields ==
  ASSUME NEW M, NEW d \in Days(M), NEW m \in Manifests
  PROVE  /\ Keep(d, m) \in Days(M) /\ SameFiles(d, Keep(d, m)) /\ Keep(d, m).tar = d.tar
         /\ Keep(d, m).man = m /\ Keep(d, m).doc = d.doc
         /\ Keep(d, m).pipe = d.pipe /\ Keep(d, m).orphan = d.orphan
BY DEF Days, Keep, SameFiles

LEMMA SaveFields ==
  ASSUME NEW M, NEW d \in Days(M), NEW m \in Manifests
  PROVE  /\ Save(d, m) \in Days(M) /\ SameFiles(d, Save(d, m)) /\ Save(d, m).tar = d.tar
         /\ Save(d, m).man = m /\ Save(d, m).doc = m
         /\ Save(d, m).pipe = d.pipe /\ Save(d, m).orphan = d.orphan
BY DEF Days, Save, SameFiles

LEMMA PipeFields ==
  ASSUME NEW M, NEW d \in Days(M), NEW p \in Threads \cup {None}
  PROVE  LET e == [d EXCEPT !.pipe = p] IN
         /\ e \in Days(M) /\ SameFiles(d, e) /\ e.tar = d.tar /\ e.man = d.man /\ e.doc = d.doc
         /\ e.pipe = p /\ e.orphan = d.orphan
BY DEF Days, SameFiles

LEMMA HandFields ==
  ASSUME NEW M, NEW d \in Days(M), NEW paths \in SUBSET M
  PROVE  LET e == Hand(d, paths) IN
         /\ e \in Days(M) /\ e.raw = d.raw /\ e.ingested = d.ingested /\ e.zst = d.zst
         /\ e.tar = d.tar /\ e.man = d.man /\ e.doc = d.doc /\ e.pipe = d.pipe
         /\ e.orphan = d.orphan
BY DEF Days, Hand

LEMMA SetTarFields ==
  ASSUME NEW M, NEW d \in Days(M), NEW tar \in Archives
  PROVE  LET e == SetTar(d, tar) IN
         /\ e \in Days(M) /\ SameFiles(d, e) /\ e.tar = tar /\ e.pipe = d.pipe
         /\ e.man.phase = d.man.phase /\ e.man.ent = d.man.ent /\ e.man.todo = d.man.todo
         /\ e.doc # None => /\ d.doc # None
                            /\ e.doc.phase = d.doc.phase /\ e.doc.ent = d.doc.ent
                            /\ e.doc.todo = d.doc.todo
         /\ e.orphan # None => /\ d.orphan # None
                               /\ e.orphan.man.phase = d.orphan.man.phase
                               /\ e.orphan.man.ent = d.orphan.man.ent
                               /\ e.orphan.man.todo = d.orphan.man.todo
<1>1. CASE tar = d.tar
  BY <1>1 DEF SetTar, SameFiles
<1>2. CASE tar # d.tar
  <2> DEFINE doc == IF d.doc = None THEN None ELSE Moved(d.doc)
             orphan == IF d.orphan = None THEN None
                       ELSE [census |-> d.orphan.census, man |-> Moved(d.orphan.man)]
             man == Moved(d.man)
  <2>1. SetTar(d, tar) = [d EXCEPT !.tar = tar, !.man = man, !.doc = doc, !.orphan = orphan]
    BY <1>2, Zenon DEF SetTar
  <2>2. man \in Manifests /\ man.phase = d.man.phase /\ man.ent = d.man.ent
        /\ man.todo = d.man.todo
    BY DayFields, MovedFields
  <2>3. /\ doc \in Manifests \cup {None}
        /\ doc # None => /\ d.doc # None /\ doc.phase = d.doc.phase
                         /\ doc.ent = d.doc.ent /\ doc.todo = d.doc.todo
    BY DayFields, MovedFields
  <2>4. /\ orphan \in Orphans \cup {None}
        /\ orphan # None => /\ d.orphan # None
                            /\ orphan.man.phase = d.orphan.man.phase
                            /\ orphan.man.ent = d.orphan.man.ent
                            /\ orphan.man.todo = d.orphan.man.todo
    <3>1. CASE d.orphan = None
      BY <3>1
    <3>2. CASE d.orphan # None
      <4>1. PICK m \in Manifests : m = Moved(d.orphan.man)
        BY <3>2, DayFields, MovedFields
      <4>2. m.phase = d.orphan.man.phase /\ m.ent = d.orphan.man.ent /\ m.todo = d.orphan.man.todo
        BY <3>2, <4>1, DayFields, MovedFields
      <4>3. orphan = [census |-> d.orphan.census, man |-> m] /\ d.orphan.census \in Archives
        BY <3>2, <4>1, DayFields
      <4> HIDE DEF orphan
      <4> QED BY <3>2, <4>2, <4>3 DEF Orphans
    <3> QED BY <3>1, <3>2
  <2> HIDE DEF doc, orphan, man
  <2>5. LET e == SetTar(d, tar) IN
        /\ e \in Days(M) /\ SameFiles(d, e) /\ e.tar = tar /\ e.pipe = d.pipe
        /\ e.man = man /\ e.doc = doc /\ e.orphan = orphan
    BY <2>1, <2>2, <2>3, <2>4 DEF Days, SameFiles
  <2> QED BY <2>2, <2>3, <2>4, <2>5
<1> QED BY <1>1, <1>2

-----------------------------------------------------------------------------
(* Steps that keep the day in order *)

\* What DayOK asks of a day that has the files of another one.
LEMMA SameFilesOK ==
  ASSUME NEW M \in SUBSET File, NEW d, NEW e \in Days(M), DayOK(d, M),
         e.raw = d.raw, e.ingested = d.ingested, e.zst = d.zst,
         e.tar # None => Members(d.zst) \subseteq e.tar,
         ManifestOK(e.man, M, d.raw, d.ingested),
         e.doc # None => ManifestOK(e.doc, M, d.raw, d.ingested),
         e.orphan # None => ManifestOK(e.orphan.man, M, d.raw, d.ingested)
  PROVE  DayOK(e, M)
BY DEF DayOK, ArchiveOK

LEMMA SetTarOK ==
  ASSUME NEW M \in SUBSET File, NEW d, DayOK(d, M), NEW tar \in Archives,
         tar # None => Members(d.zst) \subseteq tar
  PROVE  DayOK(SetTar(d, tar), M)
<1> DEFINE e == SetTar(d, tar)
<1>0. d \in Days(M)
  BY DEF DayOK
<1>1. /\ e \in Days(M) /\ SameFiles(d, e) /\ e.tar = tar
      /\ e.man.phase = d.man.phase /\ e.man.ent = d.man.ent /\ e.man.todo = d.man.todo
      /\ e.doc # None => /\ d.doc # None
                         /\ e.doc.phase = d.doc.phase /\ e.doc.ent = d.doc.ent
                         /\ e.doc.todo = d.doc.todo
      /\ e.orphan # None => /\ d.orphan # None
                            /\ e.orphan.man.phase = d.orphan.man.phase
                            /\ e.orphan.man.ent = d.orphan.man.ent
                            /\ e.orphan.man.todo = d.orphan.man.todo
  BY <1>0, SetTarFields
<1> HIDE DEF e
<1>2. ManifestOK(e.man, M, d.raw, d.ingested)
  BY <1>1 DEF DayOK, ManifestOK
<1>3. e.doc # None => ManifestOK(e.doc, M, d.raw, d.ingested)
  BY <1>1 DEF DayOK, ManifestOK
<1>4. e.orphan # None => ManifestOK(e.orphan.man, M, d.raw, d.ingested)
  BY <1>1 DEF DayOK, ManifestOK
<1>5. DayOK(e, M)
  BY <1>1, <1>2, <1>3, <1>4, SameFilesOK DEF SameFiles
<1> QED BY <1>5 DEF e

LEMMA SaveOK ==
  ASSUME NEW M \in SUBSET File, NEW d, DayOK(d, M), NEW m \in Manifests,
         ManifestOK(m, M, d.raw, d.ingested)
  PROVE  DayOK(Save(d, m), M)
<1>0. d \in Days(M)
  BY DEF DayOK
<1>1. PICK e \in Days(M) : e = Save(d, m)
  BY <1>0, SaveFields
<1>2. /\ SameFiles(d, e) /\ e.tar = d.tar /\ e.man = m /\ e.doc = m /\ e.orphan = d.orphan
  BY <1>0, <1>1, SaveFields
<1>3. /\ d.tar # None => Members(d.zst) \subseteq d.tar
      /\ d.orphan # None => ManifestOK(d.orphan.man, M, d.raw, d.ingested)
  BY DEF DayOK, ArchiveOK
<1>4. DayOK(e, M)
  BY <1>2, <1>3, SameFilesOK DEF SameFiles
<1> QED BY <1>1, <1>4

LEMMA KeepOK ==
  ASSUME NEW M \in SUBSET File, NEW d, DayOK(d, M), NEW m \in Manifests,
         ManifestOK(m, M, d.raw, d.ingested)
  PROVE  DayOK(Keep(d, m), M)
<1>0. d \in Days(M)
  BY DEF DayOK
<1>1. PICK e \in Days(M) : e = Keep(d, m)
  BY <1>0, KeepFields
<1>2. /\ SameFiles(d, e) /\ e.tar = d.tar /\ e.man = m /\ e.doc = d.doc /\ e.orphan = d.orphan
  BY <1>0, <1>1, KeepFields
<1>3. /\ d.tar # None => Members(d.zst) \subseteq d.tar
      /\ d.doc # None => ManifestOK(d.doc, M, d.raw, d.ingested)
      /\ d.orphan # None => ManifestOK(d.orphan.man, M, d.raw, d.ingested)
  BY DEF DayOK, ArchiveOK
<1>4. DayOK(e, M)
  BY <1>2, <1>3, SameFilesOK DEF SameFiles
<1> QED BY <1>1, <1>4

\* The verify thread and the queues are not what DayOK is about.
LEMMA PipeOK ==
  ASSUME NEW M \in SUBSET File, NEW d, DayOK(d, M), NEW p \in Threads \cup {None}
  PROVE  DayOK([d EXCEPT !.pipe = p], M)
<1>0. d \in Days(M)
  BY DEF DayOK
<1>1. PICK e \in Days(M) : e = [d EXCEPT !.pipe = p]
  BY <1>0, PipeFields
<1>2. /\ SameFiles(d, e) /\ e.tar = d.tar /\ e.man = d.man /\ e.doc = d.doc
      /\ e.orphan = d.orphan
  BY <1>0, <1>1, PipeFields
<1>3. /\ d.tar # None => Members(d.zst) \subseteq d.tar
      /\ ManifestOK(d.man, M, d.raw, d.ingested)
      /\ d.doc # None => ManifestOK(d.doc, M, d.raw, d.ingested)
      /\ d.orphan # None => ManifestOK(d.orphan.man, M, d.raw, d.ingested)
  BY DEF DayOK, ArchiveOK
<1>4. DayOK(e, M)
  BY <1>2, <1>3, SameFilesOK DEF SameFiles
<1> QED BY <1>1, <1>4

LEMMA HandOK ==
  ASSUME NEW M \in SUBSET File, NEW d, DayOK(d, M), NEW paths \in SUBSET M
  PROVE  DayOK(Hand(d, paths), M)
<1>0. d \in Days(M)
  BY DEF DayOK
<1>1. PICK e \in Days(M) : e = Hand(d, paths)
  BY <1>0, HandFields
<1>2. /\ e.raw = d.raw /\ e.ingested = d.ingested /\ e.zst = d.zst
      /\ e.tar = d.tar /\ e.man = d.man /\ e.doc = d.doc /\ e.orphan = d.orphan
  BY <1>0, <1>1, HandFields
<1>3. /\ d.tar # None => Members(d.zst) \subseteq d.tar
      /\ ManifestOK(d.man, M, d.raw, d.ingested)
      /\ d.doc # None => ManifestOK(d.doc, M, d.raw, d.ingested)
      /\ d.orphan # None => ManifestOK(d.orphan.man, M, d.raw, d.ingested)
  BY DEF DayOK, ArchiveOK
<1>4. DayOK(e, M)
  BY <1>2, <1>3, SameFilesOK
<1> QED BY <1>1, <1>4

\* Any phase but done may be written at any time ...
LEMMA PhaseOK ==
  ASSUME NEW M \in SUBSET File, NEW d, DayOK(d, M), NEW p \in Phases, p # "done"
  PROVE  DayOK(Phase(d, p), M) /\ Phase(d, p).man.phase = p
<1>0. d \in Days(M) /\ d.man \in Manifests /\ ManifestOK(d.man, M, d.raw, d.ingested)
  BY DayFields DEF DayOK
<1>1. PICK m \in Manifests : m = [d.man EXCEPT !.phase = p]
  BY <1>0, ManifestSet, ManifestFields
<1>2. m.phase = p /\ m.ent = d.man.ent /\ m.todo = d.man.todo
  BY <1>0, <1>1, ManifestSet, ManifestFields
<1>3. ManifestOK(m, M, d.raw, d.ingested)
  BY <1>0, <1>2 DEF ManifestOK
<1>4. Phase(d, p) = Save(d, m)
  BY <1>1 DEF Phase
<1> QED BY <1>0, <1>2, <1>3, <1>4, SaveOK, SaveFields

\* ... and done when no closed raw file is left.
LEMMA NothingLeft ==
  ASSUME NEW M \in SUBSET File, NEW d \in Days(M), ManifestOK(d.man, M, d.raw, d.ingested),
         ClosedRaw(d) = {}
  PROVE  \A f \in d.raw : d.man.ent[f] = "none"
<1>1. CASE VerificationComplete(d.man)
  <2> SUFFICES ASSUME NEW f \in d.raw PROVE d.man.ent[f] = "none"
    OBVIOUS
  <2>1. f \in File /\ d.man.ent[f] \in Status
    BY DayFields, ManifestFields
  <2>2. f \notin Blocking(d)
    BY <1>1 DEF ClosedRaw
  <2>3. d.man.ent[f] \in {"none", "deleted"}
    BY <2>1, <2>2 DEF Blocking, With
  <2> QED BY <2>1, <2>3 DEF ManifestOK
<1>2. CASE ~VerificationComplete(d.man)
  BY <1>2 DEF ClosedRaw
<1> QED BY <1>1, <1>2

LEMMA DoneOK ==
  ASSUME NEW M \in SUBSET File, NEW d, DayOK(d, M), \A f \in d.raw : d.man.ent[f] = "none"
  PROVE  DayOK(Phase(d, "done"), M)
<1>0. d \in Days(M) /\ d.man \in Manifests /\ ManifestOK(d.man, M, d.raw, d.ingested)
  BY DayFields DEF DayOK
<1>a. "done" \in Phases
  BY DEF Phases
<1>1. PICK m \in Manifests : m = [d.man EXCEPT !.phase = "done"]
  BY <1>0, <1>a, ManifestSet, ManifestFields
<1>2. m.phase = "done" /\ m.ent = d.man.ent /\ m.todo = d.man.todo
  BY <1>0, <1>a, <1>1, ManifestSet, ManifestFields
<1>3. ManifestOK(m, M, d.raw, d.ingested)
  BY <1>0, <1>2 DEF ManifestOK
<1>4. Phase(d, "done") = Save(d, m)
  BY <1>1 DEF Phase
<1> QED BY <1>0, <1>3, <1>4, SaveOK

-----------------------------------------------------------------------------
(* The operations on the day *)

LEMMA DayManifest ==
  ASSUME NEW M, NEW d, DayOK(d, M)
  PROVE  /\ d \in Days(M) /\ d.man \in Manifests /\ ManifestOK(d.man, M, d.raw, d.ingested)
         /\ d.raw \subseteq M /\ d.ingested \subseteq M
         /\ d.tar \in Archives /\ d.zst \in Archives
         /\ d.tar # None => Members(d.zst) \subseteq d.tar
BY DayFields DEF DayOK, ArchiveOK

\* A manifest whose phase is not done and whose entries are old ones.
LEMMA SaveAgain ==
  ASSUME NEW M \in SUBSET File, NEW d, DayOK(d, M), NEW m \in Manifests,
         m.ent = d.man.ent, m.phase # "done", Members(m.todo) \subseteq M
  PROVE  /\ DayOK(Save(d, m), M) /\ DayOK(Keep(d, m), M)
         /\ Save(d, m).man = m /\ Keep(d, m).man = m
<1>0. d \in Days(M) /\ ManifestOK(d.man, M, d.raw, d.ingested)
  BY DayManifest
<1>1. ManifestOK(m, M, d.raw, d.ingested)
  BY <1>0 DEF ManifestOK
<1>2. DayOK(Save(d, m), M) /\ Save(d, m).man = m
  BY <1>0, <1>1, SaveOK, SaveFields
<1>3. DayOK(Keep(d, m), M) /\ Keep(d, m).man = m
  BY <1>0, <1>1, KeepOK, KeepFields
<1> QED BY <1>2, <1>3

LEMMA LookOK ==
  ASSUME NEW M \in SUBSET File, NEW d, DayOK(d, M)
  PROVE  /\ DayOK(Look(d), M)
         /\ Look(d).man.phase = "done" => d.man.phase = "done"
         /\ Look(d).raw = d.raw /\ Look(d).ingested = d.ingested /\ Look(d).pipe = d.pipe
         /\ Look(d).orphan = d.orphan
         /\ Look(d).tar = d.tar /\ Look(d).zst = d.zst
<1>1. CASE d.man.id = "other" /\ d.tar # None /\ VerificationComplete(d.man)
  <2>1. PICK m : m = [d.man EXCEPT !.phase = "verifying", !.stage = "none",
                                   !.id = "none", !.todo = None]
    OBVIOUS
  <2>0. d.man \in Manifests
    BY DayManifest
  <2>2. m \in Manifests /\ m.phase = "verifying" /\ m.ent = d.man.ent /\ m.todo = None
    BY <2>0, <2>1 DEF Manifests, Phases, Archives
  <2>3. Members(m.todo) \subseteq M
    BY <2>2 DEF Members
  <2>4. Look(d) = Save(d, m)
    BY <1>1, <2>1 DEF Look
  <2> QED BY <2>2, <2>3, <2>4, SaveAgain, SaveFields, DayManifest DEF SameFiles
<1>2. CASE ~(d.man.id = "other" /\ d.tar # None /\ VerificationComplete(d.man))
  BY <1>2 DEF Look
<1> QED BY <1>1, <1>2

LEMMA NoneBlocks ==
  ASSUME NEW M \in SUBSET File, NEW d, DayOK(d, M), d.man.phase = "done"
  PROVE  Blocking(d) = {} /\ Retryable(d) = {}
BY DayManifest DEF ManifestOK, Blocking, Retryable, With

LEMMA ReopenDoneOK ==
  ASSUME NEW M \in SUBSET File, NEW d, DayOK(d, M)
  PROVE  DayOK(ReopenDone(d), M)
BY NoneBlocks DEF ReopenDone

\* Recording what classify found of some files.
LEMMA RecordOK ==
  ASSUME NEW M \in SUBSET File, NEW d, DayOK(d, M), NEW S \in SUBSET M,
         NEW status \in [S -> Status],
         \A f \in S : status[f] # "deleted" /\ (status[f] = "verified" => f \in d.ingested)
  PROVE  /\ Record(d.man, status) \in Manifests
         /\ d.man.phase # "done" \/ S = {}
              => ManifestOK(Record(d.man, status), M, d.raw, d.ingested)
         /\ \A m \in Manifests :
              /\ m.ent = Record(d.man, status).ent /\ m.phase # "done"
              /\ Members(m.todo) \subseteq M
              => ManifestOK(m, M, d.raw, d.ingested)
         /\ Record(d.man, status).phase = d.man.phase /\ Record(d.man, status).todo = d.man.todo
<1>1. PICK e : e = [f \in File |->
                      IF f \in DOMAIN status /\ d.man.ent[f] \notin {"verified", "deleted"}
                      THEN status[f] ELSE d.man.ent[f]]
  OBVIOUS
<1>2. d.man \in Manifests /\ d.man.ent \in [File -> Status]
  BY DayManifest, ManifestFields
<1>3. /\ e \in [File -> Status]
      /\ \A f \in File : e[f] = d.man.ent[f] \/ (f \in S /\ e[f] = status[f])
  BY <1>1, <1>2
<1>4. PICK m \in Manifests : m = [d.man EXCEPT !.ent = e]
  BY <1>2, <1>3, ManifestSet, ManifestFields
<1>5. m.ent = e /\ m.phase = d.man.phase /\ m.todo = d.man.todo
  BY <1>2, <1>3, <1>4, ManifestSet, ManifestFields
<1>6. d.man.phase # "done" \/ S = {} => ManifestOK(m, M, d.raw, d.ingested)
  BY <1>3, <1>5, DayManifest DEF ManifestOK
<1>8. \A k \in Manifests : k.ent = e /\ k.phase # "done" /\ Members(k.todo) \subseteq M
                            => ManifestOK(k, M, d.raw, d.ingested)
  BY <1>3, DayManifest DEF ManifestOK
<1>7. Record(d.man, status) = m
  BY <1>1, <1>4 DEF Record
<1> QED BY <1>5, <1>6, <1>7, <1>8

LEMMA ReclassifyOK ==
  ASSUME NEW M \in SUBSET File, NEW d, DayOK(d, M)
  PROVE  DayOK(Reclassify(d), M)
<1> DEFINE todo == {f \in Blocking(d) : d.man.ent[f] # "verified"}
           status == [f \in todo |-> Classified(d, Archived(d), f)]
           new == {f \in todo : \/ status[f] = "verified"
                                \/ d.man.ent[f] = "seal_invalid"}
           found == [f \in new |-> status[f]]
<1>1. new \subseteq M /\ (d.man.phase = "done" => new = {})
  BY NoneBlocks, DayManifest DEF Blocking, With
<1>2. /\ found \in [new -> Status]
      /\ \A f \in new : found[f] # "deleted" /\ (found[f] = "verified" => f \in d.ingested)
  BY DEF Classified, Status
<1>3. Reclassify(d) = Save(d, Record(d.man, found)) \/ Reclassify(d) = d
  BY Zenon DEF Reclassify
<1> HIDE DEF new, found
<1>4. /\ Record(d.man, found) \in Manifests
      /\ ManifestOK(Record(d.man, found), M, d.raw, d.ingested)
  BY <1>1, <1>2, RecordOK
<1> QED BY <1>3, <1>4, SaveOK

LEMMA BeginDeletingOK ==
  ASSUME NEW M \in SUBSET File, NEW d, DayOK(d, M)
  PROVE  DayOK(BeginDeleting(d), M)
<1>1. DayOK(Phase(d, "deleting"), M)
  BY PhaseOK DEF Phases
<1> QED BY <1>1 DEF BeginDeleting

LEMMA ReopenPendingOK ==
  ASSUME NEW M \in SUBSET File, NEW d, DayOK(d, M)
  PROVE  DayOK(ReopenPending(d), M)
<1>1. DayOK(Phase(d, "deleting"), M)
  BY PhaseOK DEF Phases
<1> QED BY <1>1 DEF ReopenPending

LEMMA HandoffPathsFiles ==
  ASSUME NEW M \in SUBSET File, NEW d, DayOK(d, M)
  PROVE  HandoffPaths(d) \subseteq M
BY DayManifest DEF HandoffPaths, Retryable, With

LEMMA HandoffOK ==
  ASSUME NEW M \in SUBSET File, NEW d, DayOK(d, M), NEW held
  PROVE  /\ DayOK(Handoff(d, held), M) /\ Handoff(d, held).man = d.man
         /\ Handoff(d, held).raw = d.raw /\ Handoff(d, held).ingested = d.ingested
<1>1. HandoffPaths(d) \ held \in SUBSET M
  BY HandoffPathsFiles
<1> QED BY <1>1, HandOK, HandFields, DayManifest DEF Handoff

LEMMA CompleteHandoffOK ==
  ASSUME NEW M \in SUBSET File, NEW d, DayOK(d, M), NEW held
  PROVE  /\ DayOK(CompleteHandoff(d, held), M) /\ CompleteHandoff(d, held).man = d.man
         /\ CompleteHandoff(d, held).raw = d.raw
         /\ CompleteHandoff(d, held).ingested = d.ingested
BY HandoffOK DEF CompleteHandoff

LEMMA ReverifyOK ==
  ASSUME NEW M \in SUBSET File, NEW d, DayOK(d, M)
  PROVE  Reverify(d) = d
BY NoneBlocks DEF Reverify

LEMMA NewThread == [census |-> None] \in Threads
BY DEF Threads, Archives

LEMMA StartVerifyOK ==
  ASSUME NEW M \in SUBSET File, NEW d, DayOK(d, M)
  PROVE  DayOK(StartVerify(d), M)
BY NewThread, ReverifyOK, PipeOK DEF StartVerify

\* Files that go are ingested and sealed.
LEMMA DeleteFilesOK ==
  ASSUME NEW M \in SUBSET File, NEW d, DayOK(d, M), NEW held
  PROVE  DayOK(DeleteFiles(d, held), M) /\ DeleteFiles(d, held).man.phase = "deleting"
<1>0. PICK gone : gone = Deletable(d, held)
  OBVIOUS
<1>1. PICK ent : ent = [f \in File |->
          IF f \notin Pending(d.man) THEN d.man.ent[f]
          ELSE IF f \in gone \/ f \notin d.raw THEN "deleted"
          ELSE IF d.zst # None /\ f \notin d.zst THEN "not_archived"
          ELSE "verified"]
  OBVIOUS
<1>2. PICK m : m = [d.man EXCEPT !.phase = "deleting", !.ent = ent]
  OBVIOUS
<1>3. PICK e : e = [d EXCEPT !.raw = d.raw \ gone, !.man = m]
  OBVIOUS
<1>4. d \in Days(M) /\ d.man \in Manifests /\ d.man.ent \in [File -> Status] /\ d.raw \subseteq M
  BY DayManifest, ManifestFields
<1>5. DeleteFiles(d, held) = e
  BY <1>0, <1>1, <1>2, <1>3, <1>4 DEF DeleteFiles, Days, Manifests
<1>6. \A f \in gone : f \in d.raw /\ f \in d.ingested /\ f \in Members(d.zst)
  BY <1>0, DayManifest DEF Deletable, Pending, ManifestOK, Members
<1>7. /\ ent \in [File -> Status]
      /\ \A f \in File : \/ ent[f] = d.man.ent[f]
                         \/ d.man.ent[f] = "verified" /\ ent[f] = "not_archived"
                         \/ d.man.ent[f] = "verified" /\ ent[f] = "deleted"
                            /\ f \notin d.raw \ gone
  BY <1>1, <1>4 DEF Pending, Status
<1>8. m \in Manifests /\ m.phase = "deleting" /\ m.ent = ent /\ m.todo = d.man.todo
  BY <1>2, <1>4, <1>7 DEF Manifests, Phases
<1>9. /\ e \in Days(M) /\ e.raw = d.raw \ gone /\ e.man = m
      /\ e.ingested = d.ingested /\ e.tar = d.tar /\ e.zst = d.zst /\ e.doc = d.doc
      /\ e.orphan = d.orphan
  BY <1>3, <1>4, <1>8 DEF Days
<1>10. ArchiveOK(e, M)
  BY <1>6, <1>9 DEF DayOK, ArchiveOK
<1>11. ManifestOK(m, M, e.raw, e.ingested)
  BY <1>7, <1>8, <1>9, DayManifest DEF ManifestOK
<1>12. e.doc # None => ManifestOK(e.doc, M, e.raw, e.ingested)
  BY <1>9 DEF DayOK, ManifestOK
<1>13. e.orphan # None => ManifestOK(e.orphan.man, M, e.raw, e.ingested)
  BY <1>9 DEF DayOK, ManifestOK
<1>14. DayOK(e, M)
  BY <1>9, <1>10, <1>11, <1>12, <1>13 DEF DayOK
<1> QED BY <1>5, <1>8, <1>9, <1>14

LEMMA DropTarOK ==
  ASSUME NEW M \in SUBSET File, NEW d, DayOK(d, M), ClosedRaw(d) = {}
  PROVE  /\ DayOK(Phase(d, "done"), M)
         /\ DayOK(Phase(SetTar(d, None), "done"), M)
<1>0. d \in Days(M) /\ None \in Archives
  BY DayManifest DEF Archives
<1>1. \A f \in d.raw : d.man.ent[f] = "none"
  BY NothingLeft, DayManifest
<1>2. PICK e : e = SetTar(d, None)
  OBVIOUS
<1>3. DayOK(e, M) /\ e.raw = d.raw /\ e.man.ent = d.man.ent
  BY <1>0, <1>2, SetTarOK, SetTarFields DEF SameFiles
<1>4. DayOK(Phase(e, "done"), M)
  BY <1>1, <1>3, DoneOK
<1> QED BY <1>1, <1>2, <1>4, DoneOK

LEMMA FinishDeleteOK ==
  ASSUME NEW M \in SUBSET File, NEW d, DayOK(d, M)
  PROVE  DayOK(FinishDelete(d), M)
<1>1. DayOK(Save(d, d.man), M)
  BY SaveOK, DayManifest
<1>2. DayOK(Phase(d, "complete"), M)
  BY PhaseOK DEF Phases
<1> QED BY <1>1, <1>2, DropTarOK DEF FinishDelete

LEMMA BatchDeleteOK ==
  ASSUME NEW M \in SUBSET File, NEW d0, DayOK(d0, M), NEW held
  PROVE  DayOK(BatchDelete(d0, held), M)
<1>1. PICK d1 : d1 = Reclassify(ReopenPending(Look(d0)))
  OBVIOUS
<1>2. DayOK(d1, M)
  BY <1>1, LookOK, ReopenPendingOK, ReclassifyOK
<1>3. PICK d2 : d2 = IF d1.man.phase \in {"complete", "deleting"}
                     THEN FinishDelete(DeleteFiles(d1, held)) ELSE d1
  OBVIOUS
<1>4. DayOK(d2, M)
  BY <1>2, <1>3, DeleteFilesOK, FinishDeleteOK
<1>5. BatchDelete(d0, held) = IF ShouldHandoff(d2) THEN CompleteHandoff(d2, held)
                              ELSE IF d2.man.phase = "verifying" THEN StartVerify(d2)
                              ELSE d2
  BY <1>1, <1>3, Zenon DEF BatchDelete
<1> QED BY <1>4, <1>5, CompleteHandoffOK, StartVerifyOK

\* Files that a cut delete took are gone from a disk whose manifests do not say so.
LEMMA CutDeleteOK ==
  ASSUME NEW M \in SUBSET File, NEW d0, DayOK(d0, M), NEW held
  PROVE  DayOK(CutDelete(d0, held), M)
<1>1. PICK d : d = Reclassify(ReopenPending(Look(d0)))
  OBVIOUS
<1>2. DayOK(d, M)
  BY <1>1, LookOK, ReopenPendingOK, ReclassifyOK
<1>3. PICK gone : gone = Deletable(d, held)
  OBVIOUS
<1>4. \A f \in gone : f \in d.raw /\ f \in d.ingested /\ f \in Members(d.zst)
  BY <1>2, <1>3, DayManifest DEF Deletable, Pending, ManifestOK, Members
<1>5. PICK e : e = [d EXCEPT !.raw = d.raw \ gone]
  OBVIOUS
<1>6. /\ e \in Days(M) /\ e.raw = d.raw \ gone /\ e.man = d.man
      /\ e.ingested = d.ingested /\ e.tar = d.tar /\ e.zst = d.zst /\ e.doc = d.doc
      /\ e.orphan = d.orphan
  BY <1>2, <1>5, DayManifest DEF Days
<1>7. ArchiveOK(e, M)
  BY <1>2, <1>4, <1>6 DEF DayOK, ArchiveOK
<1>8. ManifestOK(e.man, M, e.raw, e.ingested)
  BY <1>2, <1>6 DEF DayOK, ManifestOK
<1>9. e.doc # None => ManifestOK(e.doc, M, e.raw, e.ingested)
  BY <1>2, <1>6 DEF DayOK, ManifestOK
<1>10. e.orphan # None => ManifestOK(e.orphan.man, M, e.raw, e.ingested)
  BY <1>2, <1>6 DEF DayOK, ManifestOK
<1>11. DayOK(e, M)
  BY <1>6, <1>7, <1>8, <1>9, <1>10 DEF DayOK
<1>12. CutDelete(d0, held) \in {d, e}
  BY <1>1, <1>3, <1>5 DEF CutDelete
<1> QED BY <1>2, <1>11, <1>12

LEMMA KickDoneOK ==
  ASSUME NEW M \in SUBSET File, NEW d, DayOK(d, M), NEW held
  PROVE  DayOK(KickDone(d, held), M)
BY BeginDeletingOK, ReclassifyOK, HandoffOK DEF KickDone

LEMMA KickOK ==
  ASSUME NEW M \in SUBSET File, NEW d0, DayOK(d0, M), NEW held
  PROVE  DayOK(Kick(d0, held), M)
<1>1. PICK d : d = Look(d0)
  OBVIOUS
<1>2. DayOK(d, M)
  BY <1>1, LookOK
<1>3. /\ DayOK(ReopenPending(d), M) /\ DayOK(KickDone(d, held), M)
      /\ DayOK(StartVerify(d), M) /\ DayOK(BeginDeleting(d), M)
      /\ DayOK(CompleteHandoff(d, held), M) /\ DayOK(Handoff(d, held), M)
  BY <1>2, ReopenPendingOK, KickDoneOK, StartVerifyOK, BeginDeletingOK, CompleteHandoffOK,
     HandoffOK
<1>4. DayOK(BatchDelete(BeginDeleting(Reclassify(d)), held), M)
  BY <1>2, ReclassifyOK, BeginDeletingOK, BatchDeleteOK
<1> QED BY <1>1, <1>2, <1>3, <1>4, Zenon DEF Kick

LEMMA RequeueOK ==
  ASSUME NEW M \in SUBSET File, NEW d0, DayOK(d0, M), NEW held
  PROVE  DayOK(Requeue(d0, held), M)
<1>1. PICK d : d = Look(d0)
  OBVIOUS
<1>2. DayOK(d, M)
  BY <1>1, LookOK
<1>3. DayOK(Handoff(d, held), M) /\ DayOK(Kick(d, held), M)
  BY <1>2, HandoffOK, KickOK
<1> QED BY <1>1, <1>3, Zenon DEF Requeue

LEMMA CompleteWaitOK ==
  ASSUME NEW M \in SUBSET File, NEW d, DayOK(d, M), NEW held
  PROVE  DayOK(CompleteWait(d, held), M)
BY CompleteHandoffOK, RequeueOK, KickOK DEF CompleteWait

-----------------------------------------------------------------------------
(* The verify threads *)

LEMMA ThreadCensusOK ==
  ASSUME NEW M \in SUBSET File, NEW d, DayOK(d, M), NEW held
  PROVE  /\ DayOK(ThreadCensus(d, held), M)
         /\ ThreadCensus(d, held).man.phase = "done" => d.man.phase = "done"
         /\ ThreadCensus(d, held).raw = d.raw /\ ThreadCensus(d, held).ingested = d.ingested
<1>1. Reverify(d) = d
  BY ReverifyOK
<1>2. \A p \in Threads \cup {None} :
        /\ DayOK([d EXCEPT !.pipe = p], M) /\ [d EXCEPT !.pipe = p].man = d.man
        /\ [d EXCEPT !.pipe = p].raw = d.raw /\ [d EXCEPT !.pipe = p].ingested = d.ingested
  BY PipeOK, PipeFields, DayManifest DEF SameFiles
<1>3. PICK e : e = CompleteHandoff(Look(d), held)
  OBVIOUS
<1>4. /\ DayOK(e, M) /\ (e.man.phase = "done" => d.man.phase = "done")
      /\ e.raw = d.raw /\ e.ingested = d.ingested
  BY <1>3, LookOK, CompleteHandoffOK
<1>5. /\ DayOK([e EXCEPT !.pipe = None], M) /\ [e EXCEPT !.pipe = None].man = e.man
      /\ [e EXCEPT !.pipe = None].raw = e.raw /\ [e EXCEPT !.pipe = None].ingested = e.ingested
  BY <1>4, PipeOK, PipeFields, DayManifest DEF SameFiles
<1>6. [census |-> d.raw] \in Threads
  BY DayManifest DEF Threads, Archives
<1>7. \/ ThreadCensus(d, held) = [d EXCEPT !.pipe = None]
      \/ ThreadCensus(d, held) = [e EXCEPT !.pipe = None]
      \/ ThreadCensus(d, held) = [d EXCEPT !.pipe = [census |-> d.raw]]
  BY <1>1, <1>3, Zenon DEF ThreadCensus
<1> QED BY <1>2, <1>4, <1>5, <1>6, <1>7

LEMMA ThreadRecordOK ==
  ASSUME NEW M \in SUBSET File, NEW d, DayOK(d, M), NEW held
  PROVE  /\ DayOK(ThreadRecord(d, held), M) /\ ThreadRecord(d, held).man.phase # "done"
         /\ ThreadRecord(d, held).raw = d.raw /\ ThreadRecord(d, held).ingested = d.ingested
<1>1. PICK S : S = d.pipe.census \cap d.raw
  OBVIOUS
<1>2. PICK status : status = [f \in S |-> IF Parity(d) THEN Classified(d, d.zst, f)
                                          ELSE "seal_invalid"]
  OBVIOUS
<1>3. /\ S \subseteq M /\ status \in [S -> Status]
      /\ \A f \in S : status[f] # "deleted" /\ (status[f] = "verified" => f \in d.ingested)
  BY <1>1, <1>2, DayManifest DEF Classified, Status
<1>4. PICK r : r = Record(d.man, status)
  OBVIOUS
<1>a. Members(d.man.todo) \subseteq M
  BY DayManifest DEF ManifestOK
<1>5. /\ r \in Manifests /\ Members(r.todo) \subseteq M
      /\ \A m \in Manifests : m.ent = r.ent /\ m.phase # "done" /\ Members(m.todo) \subseteq M
                             => ManifestOK(m, M, d.raw, d.ingested)
  BY <1>a, <1>3, <1>4, RecordOK
<1>6. PICK m \in Manifests : m = [r EXCEPT !.phase = "complete"]
  BY <1>5 DEF Manifests, Phases
<1>7. m.phase = "complete" /\ m.ent = r.ent /\ m.todo = r.todo
  BY <1>5, <1>6 DEF Manifests
<1>8. ManifestOK(m, M, d.raw, d.ingested)
  BY <1>5, <1>7
<1>9. PICK v : v = Save(d, m)
  OBVIOUS
<1>10. DayOK(v, M) /\ v.man.phase # "done" /\ v.raw = d.raw /\ v.ingested = d.ingested
  BY <1>7, <1>8, <1>9, SaveOK, SaveFields, DayManifest DEF SameFiles
<1>11. PICK e : e = CompleteHandoff(Look(v), held)
  OBVIOUS
<1>12. DayOK(e, M) /\ e.man.phase # "done" /\ e.raw = d.raw /\ e.ingested = d.ingested
  BY <1>10, <1>11, LookOK, CompleteHandoffOK
<1>13. ThreadRecord(d, held) = [e EXCEPT !.pipe = None]
  BY <1>1, <1>2, <1>4, <1>6, <1>9, <1>11, Zenon DEF ThreadRecord
<1> QED BY <1>12, <1>13, PipeOK, PipeFields, DayManifest DEF SameFiles

LEMMA ThreadStepOK ==
  ASSUME NEW M \in SUBSET File, NEW d, DayOK(d, M), NEW held
  PROVE  /\ DayOK(ThreadStep(d, held), M)
         /\ ThreadStep(d, held).man.phase = "done" => d.man.phase = "done"
         /\ ThreadStep(d, held).raw = d.raw /\ ThreadStep(d, held).ingested = d.ingested
BY ThreadCensusOK, ThreadRecordOK DEF ThreadStep

\* The thread a job left behind sees the same files with its own manifest.
LEMMA OrphanStepOK ==
  ASSUME NEW M \in SUBSET File, NEW d, DayOK(d, M), NEW held, d.orphan # None
  PROVE  DayOK(OrphanStep(d, held), M) /\ OrphanStep(d, held).man = d.man
<1>0. /\ d \in Days(M) /\ d.man \in Manifests /\ d.pipe \in Threads \cup {None}
      /\ d.orphan.man \in Manifests /\ d.orphan.census \in Archives
      /\ ManifestOK(d.man, M, d.raw, d.ingested)
      /\ ManifestOK(d.orphan.man, M, d.raw, d.ingested)
  BY DayFields DEF DayOK
<1>1. PICK p \in Threads : p = [census |-> d.orphan.census]
  BY <1>0 DEF Threads
<1>2. PICK x : x = [d EXCEPT !.man = d.orphan.man, !.pipe = p]
  OBVIOUS
<1>3. /\ x \in Days(M) /\ x.raw = d.raw /\ x.ingested = d.ingested /\ x.zst = d.zst
      /\ x.tar = d.tar /\ x.man = d.orphan.man /\ x.doc = d.doc /\ x.orphan = d.orphan
  BY <1>0, <1>2 DEF Days
<1>4. /\ d.tar # None => Members(d.zst) \subseteq d.tar
      /\ d.doc # None => ManifestOK(d.doc, M, d.raw, d.ingested)
  BY DEF DayOK, ArchiveOK
<1>5. DayOK(x, M)
  BY <1>0, <1>3, <1>4, SameFilesOK
<1>6. PICK own : own = ThreadStep(x, held)
  OBVIOUS
<1>7. DayOK(own, M) /\ own.raw = d.raw /\ own.ingested = d.ingested
  BY <1>3, <1>5, <1>6, ThreadStepOK
<1>8. PICK o : o = IF own.pipe = None THEN None
                   ELSE [census |-> own.pipe.census, man |-> own.man]
  OBVIOUS
<1>9. own \in Days(M) /\ own.pipe \in Threads \cup {None} /\ own.man \in Manifests
  BY <1>7, DayFields DEF DayOK
<1>10. /\ o \in Orphans \cup {None}
       /\ o # None => o.man = own.man
  BY <1>8, <1>9 DEF Orphans, Threads
<1>11. PICK e : e = [own EXCEPT !.man = d.man, !.pipe = d.pipe, !.orphan = o]
  OBVIOUS
<1>12. /\ e \in Days(M) /\ e.raw = own.raw /\ e.ingested = own.ingested /\ e.zst = own.zst
       /\ e.tar = own.tar /\ e.man = d.man /\ e.doc = own.doc /\ e.orphan = o
  BY <1>0, <1>9, <1>10, <1>11 DEF Days
<1>13. /\ own.tar # None => Members(own.zst) \subseteq own.tar
       /\ own.doc # None => ManifestOK(own.doc, M, own.raw, own.ingested)
       /\ ManifestOK(own.man, M, own.raw, own.ingested)
  BY <1>7 DEF DayOK, ArchiveOK
<1>14. DayOK(e, M)
  BY <1>0, <1>7, <1>10, <1>12, <1>13, SameFilesOK
<1>15. OrphanStep(d, held) = e
  BY <1>1, <1>2, <1>6, <1>8, <1>11, Zenon DEF OrphanStep
<1> QED BY <1>12, <1>14, <1>15

-----------------------------------------------------------------------------
(* The end of a job, and the archives *)

LEMMA LeftOK ==
  ASSUME NEW M \in SUBSET File, NEW d, DayOK(d, M)
  PROVE  DayOK(Left(d), M)
<1>0. /\ d \in Days(M) /\ d.man \in Manifests /\ d.pipe \in Threads \cup {None}
      /\ d.orphan \in Orphans \cup {None}
      /\ ManifestOK(d.man, M, d.raw, d.ingested)
      /\ d.orphan # None => ManifestOK(d.orphan.man, M, d.raw, d.ingested)
      /\ d.tar # None => Members(d.zst) \subseteq d.tar
      /\ d.doc # None => ManifestOK(d.doc, M, d.raw, d.ingested)
  BY DayFields DEF DayOK, ArchiveOK
<1>1. PICK o : o = IF d.pipe = None THEN d.orphan
                   ELSE [census |-> d.pipe.census, man |-> d.man]
  OBVIOUS
<1>2. /\ o \in Orphans \cup {None}
      /\ o # None => o = d.orphan \/ o.man = d.man
  BY <1>0, <1>1 DEF Orphans, Threads
<1>3. PICK e : e = [d EXCEPT !.man = NewManifest, !.pipe = None, !.orphan = o]
  OBVIOUS
<1>4. NewManifest \in Manifests /\ ManifestOK(NewManifest, M, d.raw, d.ingested)
  BY NewManifestOK
<1>5. /\ e \in Days(M) /\ e.raw = d.raw /\ e.ingested = d.ingested /\ e.zst = d.zst
      /\ e.tar = d.tar /\ e.man = NewManifest /\ e.doc = d.doc /\ e.orphan = o
  BY <1>0, <1>2, <1>3, <1>4 DEF Days
<1>6. Left(d) = e
  BY <1>1, <1>3, Zenon DEF Left
<1>7. o # None => ManifestOK(o.man, M, d.raw, d.ingested)
  BY <1>0, <1>2
<1> QED BY <1>0, <1>4, <1>5, <1>6, <1>7, SameFilesOK

LEMMA RestoredOK ==
  ASSUME NEW M \in SUBSET File, NEW d, DayOK(d, M)
  PROVE  DayOK(Restored(d), M)
<1>1. d.zst \in Archives
  BY DayManifest
<1>2. DayOK(SetTar(d, d.zst), M)
  BY <1>1, ArchiveFacts, SetTarOK
<1> QED BY <1>2 DEF Restored

\* The new sealed archive is the tar, which holds all the old one did.
LEMMA SealedOK ==
  ASSUME NEW M \in SUBSET File, NEW d, DayOK(d, M), d.tar # None, NEW keep
  PROVE  DayOK(Sealed(d, keep), M)
<1>0. d \in Days(M) /\ d.tar \in Archives /\ Members(d.zst) \subseteq d.tar
      /\ Members(d.tar) = d.tar
  BY DayManifest, ArchiveFacts
<1>1. PICK e : e = [d EXCEPT !.zst = d.tar]
  OBVIOUS
<1>2. /\ e \in Days(M) /\ e.raw = d.raw /\ e.ingested = d.ingested /\ e.zst = d.tar
      /\ e.tar = d.tar /\ e.man = d.man /\ e.doc = d.doc /\ e.orphan = d.orphan
  BY <1>0, <1>1 DEF Days
<1>3. ArchiveOK(e, M)
  BY <1>0, <1>2 DEF DayOK, ArchiveOK
<1>4. DayOK(e, M)
  BY <1>2, <1>3 DEF DayOK
<1>5. PICK m : m = [d.man EXCEPT !.stage = "pre"]
  OBVIOUS
<1>6. /\ m \in Manifests /\ m.phase = d.man.phase /\ m.ent = d.man.ent /\ m.todo = d.man.todo
  BY <1>5, DayManifest DEF Manifests
<1>7. ManifestOK(m, M, d.raw, d.ingested)
  BY <1>6, DayManifest DEF ManifestOK
<1>8. DayOK(Save(e, m), M)
  BY <1>2, <1>4, <1>6, <1>7, SaveOK
<1>9. PICK n : n = IF d.zst # d.tar /\ d.man.stage = "post" THEN Save(e, m) ELSE e
  OBVIOUS
<1>10. DayOK(n, M) /\ None \in Archives
  BY <1>4, <1>8, <1>9 DEF Archives
<1>11. DayOK(SetTar(n, None), M)
  BY <1>10, SetTarOK
<1>12. Sealed(d, keep) = IF keep THEN n ELSE SetTar(n, None)
  BY <1>1, <1>5, <1>9, Zenon DEF Sealed
<1> QED BY <1>10, <1>11, <1>12

LEMMA PostVerifiedOK ==
  ASSUME NEW M \in SUBSET File, NEW d, DayOK(d, M)
  PROVE  DayOK(PostVerified(d), M)
<1>5. PICK m : m = [d.man EXCEPT !.stage = "post"]
  OBVIOUS
<1>6. /\ m \in Manifests /\ m.phase = d.man.phase /\ m.ent = d.man.ent /\ m.todo = d.man.todo
  BY <1>5, DayManifest DEF Manifests
<1>7. ManifestOK(m, M, d.raw, d.ingested)
  BY <1>6, DayManifest DEF ManifestOK
<1>8. DayOK(Save(d, m), M)
  BY <1>6, <1>7, SaveOK
<1> QED BY <1>5, <1>8 DEF PostVerified

LEMMA TryFinishOK ==
  ASSUME NEW M \in SUBSET File, NEW d, DayOK(d, M)
  PROVE  DayOK(TryFinish(d), M)
BY DropTarOK DEF TryFinish

-----------------------------------------------------------------------------
(* The actions *)

\* What a step starts from.
LEMMA Base ==
  ASSUME IInv
  PROVE  /\ made \in SUBSET File /\ DayOK(day, made) /\ job \in Jobs(made)
         /\ day \in Days(made) /\ day.man \in Manifests /\ day.raw \in SUBSET made
         /\ day.ingested \in SUBSET made
         /\ day.tar \in Archives /\ day.zst \in Archives
         /\ ManifestOK(day.man, made, day.raw, day.ingested)
<1>1. made \in SUBSET File /\ DayOK(day, made) /\ job \in Jobs(made)
  BY Zenon DEF IInv
<1> QED BY <1>1, DayManifest

LEMMA CloseCompleteOK ==
  ASSUME IInv, CloseComplete
  PROVE  DayOK(day', made)
<1>0. /\ made \in SUBSET File /\ DayOK(day, made) /\ day \in Days(made) /\ day.raw \in SUBSET made
  BY Base
<1>1. CASE day.doc = None
  <2>1. day' = [day EXCEPT !.doc = None]
    BY <1>1 DEF CloseComplete
  <2>2. day' = day
    BY <1>0, <1>1, <2>1 DEF Days
  <2> QED BY <1>0, <2>2
<1>2. CASE day.doc # None
  <2>1. PICK c \in Manifests : c = day.doc
    BY <1>0, <1>2, DayFields
  <2>2. ManifestOK(c, made, day.raw, day.ingested)
    BY <1>0, <1>2, <2>1 DEF DayOK
  <2>3. PICK x : x = [day EXCEPT !.man = c]
    OBVIOUS
  <2>4. x \in Days(made) /\ x.man = c /\ x.raw = day.raw /\ x.ingested = day.ingested
    BY <1>0, <2>1, <2>3 DEF Days
  <2>5. ClosedRaw(x) = {}
    BY <1>2, <2>1, <2>3 DEF CloseComplete, FilesystemComplete, Load
  <2>6. \A f \in day.raw : c.ent[f] = "none"
    BY <1>0, <2>2, <2>4, <2>5, NothingLeft
  <2>7. PICK m : m = [c EXCEPT !.phase = "done"]
    OBVIOUS
  <2>8. m \in Manifests /\ m.ent = c.ent /\ m.todo = c.todo
    BY <2>1, <2>7 DEF Manifests, Phases
  <2>9. ManifestOK(m, made, day.raw, day.ingested)
    BY <2>2, <2>6, <2>8 DEF ManifestOK
  <2>10. day' = [day EXCEPT !.doc = m]
    BY <1>2, <2>1, <2>7 DEF CloseComplete
  <2>11. PICK e : e = [day EXCEPT !.doc = m]
    OBVIOUS
  <2>12. /\ e \in Days(made) /\ e.raw = day.raw /\ e.ingested = day.ingested /\ e.zst = day.zst
         /\ e.tar = day.tar /\ e.man = day.man /\ e.doc = m /\ e.orphan = day.orphan
    BY <1>0, <2>8, <2>11 DEF Days
  <2>13. /\ day.tar # None => Members(day.zst) \subseteq day.tar
         /\ ManifestOK(day.man, made, day.raw, day.ingested)
         /\ day.orphan # None => ManifestOK(day.orphan.man, made, day.raw, day.ingested)
    BY <1>0 DEF DayOK, ArchiveOK
  <2>14. DayOK(e, made)
    BY <1>0, <2>9, <2>12, <2>13, SameFilesOK
  <2> QED BY <2>10, <2>11, <2>14
<1> QED BY <1>1, <1>2

LEMMA OpenOK ==
  ASSUME IInv, Open
  PROVE  DayOK(day', made)
<1>0. made \in SUBSET File /\ DayOK(day, made) /\ day \in Days(made)
  BY Base
<1>1. Load(day.doc) \in Manifests /\ ManifestOK(Load(day.doc), made, day.raw, day.ingested)
  BY <1>0, DayFields, NewManifestOK DEF Load, DayOK
<1>2. PICK d : d = Keep(day, Load(day.doc))
  OBVIOUS
<1>3. DayOK(d, made)
  BY <1>0, <1>1, <1>2, KeepOK
<1>4. day' = Look(d) \/ day' = ReopenDone(d)
  BY <1>2 DEF Open
<1> QED BY <1>0, <1>3, <1>4, LookOK, ReopenDoneOK

\* The list to classify, and the day in which it is read.
LEMMA PreSealReadOK ==
  ASSUME IInv, PreSealRead
  PROVE  /\ DayOK(day', made)
         /\ \/ job' = NoJob
            \/ \E s \in {"wait2", "wait3"} : job' = [job EXCEPT !.at = s]
            \/ /\ \E a \in Archives, l \in SUBSET made, s \in {"record1", "record2"} :
                    job' = [job EXCEPT !.mem = a, !.list = l, !.at = s]
               /\ day'.man.phase = "verifying"
<1>0. made \in SUBSET File /\ DayOK(day, made) /\ job.at \in {"pre1", "pre2"}
  BY Base DEF PreSealRead
<1>1. PICK d : d = Look(day)
  OBVIOUS
<1>2. PICK r : r = Restored(d)
  OBVIOUS
<1>3. DayOK(d, made) /\ DayOK(r, made)
  BY <1>0, <1>1, <1>2, LookOK, RestoredOK
<1>4. /\ r \in Days(made) /\ r.man \in Manifests /\ r.raw \subseteq made /\ r.tar \in Archives
      /\ r.man.todo \in Archives /\ Members(r.man.todo) \subseteq made
  BY <1>3, DayManifest, ManifestFields DEF ManifestOK
<1>5. PICK known : known = Blocking(r) \cup (r.raw \cap Members(r.tar))
  OBVIOUS
<1>6. PICK list : list = IF r.man.todo # None THEN r.man.todo
                         ELSE IF known # {} THEN known ELSE r.raw
  OBVIOUS
<1>7. list \in SUBSET made /\ list \in Archives /\ Members(list) = list
  <2>1. known \subseteq made
    BY <1>4, <1>5 DEF Blocking, With
  <2>2. r.man.todo # None => Members(r.man.todo) = r.man.todo
    BY <1>4, ArchiveFacts
  <2>3. list \in SUBSET made
    BY <1>4, <1>6, <2>1, <2>2
  <2> QED BY <1>0, <2>3, SetIsArchive
<1>8. CASE PreSealComplete(d.man)
  <2>1. day' = d /\ job' = [job EXCEPT !.at = IF job.at = "pre1" THEN "wait2" ELSE "wait3"]
    BY <1>1, <1>8 DEF PreSealRead, Goto
  <2> QED BY <1>0, <1>3, <2>1
<1>9. CASE ~PreSealComplete(d.man) /\ r.tar \in {None, {}}
  <2>1. PICK m : m = [r.man EXCEPT !.phase = "verifying"]
    OBVIOUS
  <2>2. m \in Manifests /\ m.phase = "verifying" /\ m.ent = r.man.ent /\ m.todo = r.man.todo
    BY <1>4, <2>1 DEF Manifests, Phases
  <2>3. day' = Left(Keep(r, m)) /\ job' = NoJob
    BY <1>1, <1>2, <1>9, <2>1 DEF PreSealRead, Yield, Return
  <2> QED BY <1>0, <1>3, <1>4, <2>2, <2>3, SaveAgain, LeftOK
<1>10. CASE ~PreSealComplete(d.man) /\ ~(r.tar \in {None, {}})
  <2>0. PICK todo : todo = IF list = {} THEN r.man.todo ELSE list
    OBVIOUS
  <2>1. PICK m : m = [r.man EXCEPT !.phase = "verifying", !.todo = todo]
    OBVIOUS
  <2>a. todo \in Archives /\ Members(todo) \subseteq made
    BY <1>4, <1>7, <2>0
  <2>2. m \in Manifests /\ m.phase = "verifying" /\ m.ent = r.man.ent /\ m.todo = todo
    BY <1>4, <2>a, <2>1 DEF Manifests, Phases
  <2>3. /\ day' = Save(r, m)
        /\ job' = [job EXCEPT !.mem = r.tar, !.list = list,
                     !.at = IF job.at = "pre1" THEN "record1" ELSE "record2"]
    BY <1>1, <1>2, <1>5, <1>6, <1>10, <2>0, <2>1 DEF PreSealRead
  <2>4. DayOK(Save(r, m), made) /\ Save(r, m).man = m
    BY <1>0, <1>3, <2>a, <2>2, SaveAgain
  <2>5. \E a \in Archives, l \in SUBSET made, s \in {"record1", "record2"} :
           job' = [job EXCEPT !.mem = a, !.list = l, !.at = s]
    BY <1>4, <1>7, <2>3
  <2> QED BY <2>2, <2>3, <2>4, <2>5
<1> QED BY <1>8, <1>9, <1>10

\* A batch recorded on whatever the manifest has become since it was read.
LEMMA RecordedOK ==
  ASSUME IInv, Recording, NEW batch, batch \subseteq job.list
  PROVE  /\ Recorded(batch) \in Manifests
         /\ \A m \in Manifests : m.ent = Recorded(batch).ent /\ m.phase # "done"
                                   /\ Members(m.todo) \subseteq made
                                 => ManifestOK(m, made, day.raw, day.ingested)
         /\ ManifestOK(Recorded(batch), made, day.raw, day.ingested)
<1>0. /\ made \in SUBSET File /\ DayOK(day, made) /\ job.list \subseteq made
  BY Base DEF Jobs
<1>1. day.man.phase # "done"
  BY Zenon DEF IInv, JobOK, Recording
<1>2. PICK status : status = [f \in batch |-> Classified(day, job.mem, f)]
  OBVIOUS
<1>3. /\ batch \subseteq made /\ status \in [batch -> Status]
      /\ \A f \in batch : status[f] # "deleted" /\ (status[f] = "verified" => f \in day.ingested)
  BY <1>0, <1>2 DEF Classified, Status
<1>4. PICK r : r = Record(day.man, status)
  OBVIOUS
<1>5. /\ r \in Manifests /\ r.phase = day.man.phase
      /\ \A m \in Manifests : m.ent = r.ent /\ m.phase # "done" /\ Members(m.todo) \subseteq made
                             => ManifestOK(m, made, day.raw, day.ingested)
  <2>1. batch \in SUBSET made /\ made \in SUBSET File /\ DayOK(day, made)
    BY <1>0, <1>3
  <2>2. /\ Record(day.man, status) \in Manifests
        /\ Record(day.man, status).phase = day.man.phase
        /\ \A m \in Manifests :
             /\ m.ent = Record(day.man, status).ent /\ m.phase # "done"
             /\ Members(m.todo) \subseteq made
             => ManifestOK(m, made, day.raw, day.ingested)
    BY <1>3, <2>1, RecordOK
  <2> QED BY <1>4, <2>2, Zenon
<1>6. PICK left : left = job.list \ batch
  OBVIOUS
<1>7. left \in Archives /\ Members(left) \subseteq made
  BY <1>0, <1>6, SetIsArchive
<1>8. PICK m : m = [r EXCEPT !.todo = left]
  OBVIOUS
<1>9. m \in Manifests /\ m.ent = r.ent /\ m.phase = r.phase /\ m.todo = left
  BY <1>5, <1>7, <1>8 DEF Manifests
<1>10. Recorded(batch) = m
  BY <1>2, <1>4, <1>6, <1>8, Zenon DEF Recorded
<1>11. ManifestOK(m, made, day.raw, day.ingested)
  BY <1>1, <1>5, <1>7, <1>9
<1> QED BY <1>5, <1>9, <1>10, <1>11

\* The rest of the list waits for the next claim, or the verification is complete.
LEMMA PreSealRecordOK ==
  ASSUME IInv, NEW batch, PreSealRecord(batch)
  PROVE  /\ DayOK(day', made)
         /\ \/ job' = NoJob
            \/ \E s \in {"wait2", "wait3"} :
                  job' = [job EXCEPT !.mem = None, !.list = {}, !.at = s]
<1>0. made \in SUBSET File /\ DayOK(day, made)
  BY Base
<1>1. PICK m : m = Recorded(batch)
  OBVIOUS
<1>2. /\ m \in Manifests
      /\ \A k \in Manifests : k.ent = m.ent /\ k.phase # "done" /\ Members(k.todo) \subseteq made
                             => ManifestOK(k, made, day.raw, day.ingested)
      /\ ManifestOK(m, made, day.raw, day.ingested)
  <2>1. Recording /\ batch \subseteq job.list
    BY DEF PreSealRecord
  <2> QED BY <1>1, <2>1, RecordedOK
<1>3. CASE batch # job.list
  <2>1. day' = Left(Save(day, m)) /\ job' = NoJob
    BY <1>1, <1>3 DEF PreSealRecord, Yield, Return
  <2> QED BY <1>0, <1>2, <2>1, SaveOK, LeftOK
<1>4. CASE batch = job.list
  <2>1. PICK k : k = [m EXCEPT !.phase = "complete", !.stage = "pre",
                               !.id = RecordedTar, !.todo = None]
    OBVIOUS
  <2>2. k \in Manifests /\ k.ent = m.ent /\ k.phase = "complete" /\ k.todo = None
    BY <1>2, <2>1 DEF Manifests, Phases, Archives, RecordedTar
  <2>3. ManifestOK(k, made, day.raw, day.ingested)
    BY <1>2, <2>2 DEF Members
  <2>4. /\ day' = Save(day, k)
        /\ job' = [job EXCEPT !.mem = None, !.list = {},
                     !.at = IF job.at = "record1" THEN "wait2" ELSE "wait3"]
    BY <1>1, <1>4, <2>1 DEF PreSealRecord
  <2> QED BY <1>0, <2>2, <2>3, <2>4, SaveOK
<1> QED BY <1>3, <1>4

LEMMA MergeOK ==
  ASSUME IInv, Merge
  PROVE  DayOK(day', made)
<1>0. made \in SUBSET File /\ DayOK(day, made)
  BY Base
<1>1. PICK d : d = Look(day)
  OBVIOUS
<1>2. DayOK(d, made)
  BY <1>0, <1>1, LookOK
<1>3. d \in Days(made) /\ d.man \in Manifests /\ ManifestOK(d.man, made, d.raw, d.ingested)
      /\ d.tar \in Archives /\ d.zst \in Archives
  BY <1>2, DayManifest
<1>4. PICK s : s = Save(d, d.man)
  OBVIOUS
<1>5. DayOK(s, made) /\ s.zst = d.zst
  BY <1>0, <1>2, <1>3, <1>4, SaveOK, SaveFields DEF SameFiles
<1>6. PICK a : a = Members(d.tar) \cup Members(d.zst)
  OBVIOUS
<1>7. a \in Archives /\ Members(s.zst) \subseteq a
  BY <1>3, <1>5, <1>6, ArchiveFacts, SetIsArchive
<1>8. day' = SetTar(s, a)
  BY <1>1, <1>4, <1>6 DEF Merge
<1> QED BY <1>0, <1>5, <1>7, <1>8, SetTarOK

LEMMA AppendOK ==
  ASSUME IInv, NEW f \in File, Append(f)
  PROVE  DayOK(day', made) /\ day'.man.phase = day.man.phase
<1>0. made \in SUBSET File /\ DayOK(day, made) /\ day \in Days(made)
  BY Base
<1>1. PICK d : d = [day EXCEPT !.appendQ = day.appendQ \ {f}]
  OBVIOUS
<1>2. /\ d \in Days(made) /\ d.raw = day.raw /\ d.ingested = day.ingested /\ d.zst = day.zst
      /\ d.tar = day.tar /\ d.man = day.man /\ d.doc = day.doc /\ d.orphan = day.orphan
  BY <1>0, <1>1 DEF Days
<1>3. /\ day.tar # None => Members(day.zst) \subseteq day.tar
      /\ ManifestOK(day.man, made, day.raw, day.ingested)
      /\ day.doc # None => ManifestOK(day.doc, made, day.raw, day.ingested)
      /\ day.orphan # None => ManifestOK(day.orphan.man, made, day.raw, day.ingested)
  BY <1>0 DEF DayOK, ArchiveOK
<1>4. DayOK(d, made)
  BY <1>0, <1>2, <1>3, SameFilesOK
<1>5. PICK a : a = Archived(d) \cup {f}
  OBVIOUS
<1>6. a \in Archives /\ Members(d.zst) \subseteq a
  <2>1. d.tar \in Archives /\ d.zst \in Archives
    BY <1>2, DayFields
  <2>2. a \in SUBSET File /\ Members(d.zst) \subseteq a
    BY <1>2, <1>3, <1>5, <2>1, ArchiveFacts DEF Archived
  <2> QED BY <2>2, SetIsArchive
<1>7. day' = SetTar(d, a) \/ day' = d
  BY <1>1, <1>5 DEF Append
<1> QED BY <1>0, <1>2, <1>4, <1>6, <1>7, SetTarOK, SetTarFields

LEMMA IngestOK ==
  ASSUME IInv, NEW f \in File, Ingest(f)
  PROVE  DayOK(day', made) /\ day'.man = day.man
<1>0. made \in SUBSET File /\ DayOK(day, made) /\ day \in Days(made)
  BY Base
<1>1. PICK e : e = [day EXCEPT !.ingestQ = day.ingestQ \ {f}, !.ingested = day.ingested \cup {f},
                               !.appendQ = day.appendQ \cup {f}]
  OBVIOUS
<1>2. /\ e \in Days(made) /\ e.raw = day.raw /\ e.ingested = day.ingested \cup {f}
      /\ e.zst = day.zst /\ e.tar = day.tar /\ e.man = day.man /\ e.doc = day.doc
      /\ e.orphan = day.orphan
  BY <1>0, <1>1 DEF Days, Ingest
<1>3. /\ ArchiveOK(e, made) /\ ManifestOK(e.man, made, e.raw, e.ingested)
  BY <1>0, <1>2 DEF DayOK, ArchiveOK, ManifestOK
<1>4. e.doc # None => ManifestOK(e.doc, made, e.raw, e.ingested)
  BY <1>0, <1>2 DEF DayOK, ManifestOK
<1>5. e.orphan # None => ManifestOK(e.orphan.man, made, e.raw, e.ingested)
  BY <1>0, <1>2 DEF DayOK, ManifestOK
<1>6. DayOK(e, made)
  BY <1>2, <1>3, <1>4, <1>5 DEF DayOK
<1> QED BY <1>1, <1>2, <1>6 DEF Ingest

\* No manifest has an entry for a file that was not there before.
LEMMA ArriveOK ==
  ASSUME IInv, NEW f \in File, Arrive(f)
  PROVE  DayOK(day', made') /\ day'.man = day.man
<1>0. made \in SUBSET File /\ DayOK(day, made) /\ day \in Days(made)
  BY Base
<1>1. PICK M : M = made \cup {f}
  OBVIOUS
<1>2. PICK e : e = [day EXCEPT !.raw = day.raw \cup {f}]
  OBVIOUS
<1>3. /\ e \in Days(M) /\ e.raw = day.raw \cup {f} /\ e.ingested = day.ingested
      /\ e.zst = day.zst /\ e.tar = day.tar /\ e.man = day.man /\ e.doc = day.doc
      /\ e.orphan = day.orphan
  BY <1>0, <1>1, <1>2 DEF Days
<1>4. f \notin made
  BY DEF Arrive
<1>5. ArchiveOK(e, M) /\ ManifestOK(e.man, M, e.raw, e.ingested)
  BY <1>0, <1>1, <1>3, <1>4 DEF DayOK, ArchiveOK, ManifestOK
<1>6. e.doc # None => ManifestOK(e.doc, M, e.raw, e.ingested)
  BY <1>0, <1>1, <1>3, <1>4 DEF DayOK, ManifestOK
<1>7. e.orphan # None => ManifestOK(e.orphan.man, M, e.raw, e.ingested)
  BY <1>0, <1>1, <1>3, <1>4 DEF DayOK, ManifestOK
<1>8. DayOK(e, M)
  BY <1>3, <1>5, <1>6, <1>7 DEF DayOK
<1> QED BY <1>1, <1>2, <1>3, <1>8 DEF Arrive

LEMMA RestartOK ==
  ASSUME NEW M \in SUBSET File, NEW d, DayOK(d, M), Restart(d)
  PROVE  DayOK(day', M)
<1>1. PICK kept \in BOOLEAN :
        day' = [d EXCEPT !.man = NewManifest, !.pipe = None, !.orphan = None,
                  !.ingestQ = IF kept THEN @ ELSE {}, !.appendQ = IF kept THEN @ ELSE {}]
  BY DEF Restart
<1>2. PICK e : e = [d EXCEPT !.man = NewManifest, !.pipe = None, !.orphan = None,
                  !.ingestQ = IF kept THEN @ ELSE {}, !.appendQ = IF kept THEN @ ELSE {}]
  OBVIOUS
<1>3. NewManifest \in Manifests /\ ManifestOK(NewManifest, M, d.raw, d.ingested)
  BY NewManifestOK
<1>4. /\ e \in Days(M) /\ e.raw = d.raw /\ e.ingested = d.ingested /\ e.zst = d.zst
      /\ e.tar = d.tar /\ e.man = NewManifest /\ e.doc = d.doc /\ e.orphan = None
  BY <1>2, <1>3 DEF DayOK, Days
<1>5. /\ d.tar # None => Members(d.zst) \subseteq d.tar
      /\ d.doc # None => ManifestOK(d.doc, M, d.raw, d.ingested)
  BY DEF DayOK, ArchiveOK
<1>6. DayOK(e, M)
  BY <1>3, <1>4, <1>5, SameFilesOK
<1> QED BY <1>1, <1>2, <1>6

LEMMA CrashOK ==
  ASSUME IInv, Crash
  PROVE  DayOK(day', made)
<1>0. made \in SUBSET File /\ DayOK(day, made)
  BY Base
<1>1. CASE Restart(day)
  BY <1>0, <1>1, RestartOK
<1>2. CASE \E held \in SUBSET day.raw : Restart(CutDelete(day, held))
  BY <1>0, <1>2, CutDeleteOK, RestartOK
<1>3. CASE Recording /\ Restart(Save(day, Recorded(job.list)))
  <2>1. /\ Recorded(job.list) \in Manifests
        /\ ManifestOK(Recorded(job.list), made, day.raw, day.ingested)
    BY <1>3, RecordedOK
  <2>2. DayOK(Save(day, Recorded(job.list)), made)
    BY <1>0, <2>1, SaveOK
  <2> QED BY <1>0, <1>3, <2>2, RestartOK
<1> QED BY <1>1, <1>2, <1>3, Zenon DEF Crash

-----------------------------------------------------------------------------
(* One step of the whole *)

\* The day stays in order.
LEMMA DayStep ==
  ASSUME IInv, Next
  PROVE  made' \in SUBSET File /\ DayOK(day', made')
<1>0. /\ made \in SUBSET File /\ DayOK(day, made) /\ day.raw \in SUBSET made
      /\ day.tar \in Archives
  BY Base
<1>a. DayOK(Look(day), made)
  BY <1>0, LookOK
<1>1. CASE CloseComplete
  BY <1>0, <1>1, CloseCompleteOK DEF CloseComplete
<1>2. CASE Open
  BY <1>0, <1>2, OpenOK DEF Open, Quiet
<1>3. CASE WaitOver
  BY <1>0, <1>a, <1>3 DEF WaitOver, Quiet
<1>4. CASE PreSealRead
  <2>1. made' = made
    BY <1>4 DEF PreSealRead, Quiet, Yield
  <2> QED BY <1>0, <1>4, <2>1, PreSealReadOK
<1>5. CASE Merge
  BY <1>0, <1>5, MergeOK DEF Merge, Quiet
<1>6. CASE \E held \in SUBSET File : Gate(held)
  <2>0. PICK held : Gate(held)
    BY <1>6
  <2>1. Unarchived \ held \in SUBSET made
    BY <1>0 DEF Unarchived
  <2>2. /\ made' = made
        /\ day' \in {Left(day), Left(Hand(day, Unarchived \ held)), day}
    BY <2>0 DEF Gate, Return
  <2> QED BY <1>0, <2>1, <2>2, HandOK, LeftOK
<1>7. CASE Seal
  <2>1. PICK d : d = Look(day)
    OBVIOUS
  <2>2. made' = made /\ (day' = d \/ (d.tar # None /\ day' = Sealed(d, KeepTar(d))))
    BY <1>7, <2>1 DEF Seal, Quiet
  <2> QED BY <1>0, <1>a, <2>1, <2>2, SealedOK
<1>8. CASE SealFails
  BY <1>0, <1>a, <1>8, LeftOK DEF SealFails, Return
<1>9. CASE PostSeal
  <2>1. made' = made /\ day' \in {PostVerified(Look(day)), day}
    BY <1>9 DEF PostSeal, Quiet
  <2> QED BY <1>0, <1>a, <2>1, PostVerifiedOK
<1>10. CASE Drop
  <2>1. PICK d : /\ d \in {TryFinish(Look(day)), day}
                 /\ day' = Left(d)
    BY <1>10 DEF Drop, Return
  <2>2. made' = made
    BY <1>10 DEF Drop
  <2> QED BY <1>0, <1>a, <2>1, <2>2, TryFinishOK, LeftOK
<1>11. CASE \E held \in SUBSET File : Wait(held)
  <2>1. PICK held : Wait(held)
    BY <1>11
  <2>2. /\ made' = made
        /\ day' \in {Left(CompleteWait(Look(day), held)), CompleteWait(Look(day), held)}
    BY <2>1 DEF Wait, Return
  <2> QED BY <1>0, <1>a, <2>2, CompleteWaitOK, LeftOK
<1>12. CASE \E held \in SUBSET File : NoTarHandoff(held)
  BY <1>0, <1>12, RequeueOK DEF NoTarHandoff, Holding
<1>13. CASE \E held \in SUBSET File : Release(held)
  BY <1>0, <1>13, BatchDeleteOK DEF Release, Holding
<1>14. CASE \E held \in SUBSET File : RawDelete(held)
  BY <1>0, <1>14, BatchDeleteOK DEF RawDelete, Holding
<1>15. CASE \E batch \in SUBSET File : PreSealRecord(batch)
  <2>1. PICK batch : PreSealRecord(batch)
    BY <1>15
  <2>2. made' = made
    BY <2>1 DEF PreSealRecord, Quiet, Yield
  <2> QED BY <1>0, <2>1, <2>2, PreSealRecordOK
<1>16. CASE \E held \in SUBSET File : Verify(held)
  BY <1>0, <1>16, ThreadStepOK DEF Verify, Holding
<1>17. CASE \E held \in SUBSET File : OrphanVerify(held)
  BY <1>0, <1>17, OrphanStepOK DEF OrphanVerify, Holding
<1>18. CASE Discover
  BY <1>0, <1>18, HandOK DEF Discover
<1>19. CASE DailyDirScan
  BY <1>0, <1>19 DEF DailyDirScan
<1>20. CASE Crash
  BY <1>0, <1>20, CrashOK DEF Crash
<1>21. CASE \E f \in File : Ingest(f)
  <2>1. PICK f \in File : Ingest(f)
    BY <1>21
  <2>2. made' = made
    BY <2>1 DEF Ingest
  <2> QED BY <1>0, <2>1, <2>2, IngestOK
<1>22. CASE \E f \in File : Append(f)
  <2>1. PICK f \in File : Append(f)
    BY <1>22
  <2>2. made' = made
    BY <2>1 DEF Append
  <2> QED BY <1>0, <2>1, <2>2, AppendOK
<1>23. CASE \E f \in File : Arrive(f)
  <2>1. PICK f \in File : Arrive(f)
    BY <1>23
  <2>2. made' \in SUBSET File
    BY <1>0, <2>1 DEF Arrive
  <2> QED BY <2>1, <2>2, ArriveOK
<1> QED BY <1>1, <1>2, <1>3, <1>4, <1>5, <1>6, <1>7, <1>8, <1>9, <1>10, <1>11, <1>12, <1>13,
           <1>14, <1>15, <1>16, <1>17, <1>18, <1>19, <1>20, <1>21, <1>22, <1>23, Zenon
           DEF Next, Stage

LEMMA NoJobOK == ASSUME NEW M PROVE NoJob \in Jobs(M) /\ NoJob.at = "idle"
BY DEF NoJob, Jobs, Stages, Archives

\* So does the job, which records only into a manifest that is not done.
LEMMA JobStep ==
  ASSUME IInv, Next
  PROVE  /\ job' \in Jobs(made')
         /\ job'.at \in {"record1", "record2"} => day'.man.phase # "done"
<1>0. made \in SUBSET File /\ DayOK(day, made) /\ day \in Days(made) /\ job \in Jobs(made)
      /\ day.raw \in SUBSET made
  BY Base
<1>a. job.at \in {"record1", "record2"} => day.man.phase # "done"
  BY Zenon DEF IInv, JobOK
<1>n. made' = made /\ job' = NoJob
        => job' \in Jobs(made') /\ job'.at \notin {"record1", "record2"}
  BY NoJobOK
<1>b. ASSUME NEW s \in Stages \ {"record1", "record2"}, NEW b \in BOOLEAN, made' = made,
             \/ job' = [job EXCEPT !.at = s]
             \/ job' = [job EXCEPT !.at = s, !.skip = b]
             \/ job' = [job EXCEPT !.at = s, !.ok = b]
             \/ job' = [job EXCEPT !.at = s, !.remains = b]
      PROVE  job' \in Jobs(made') /\ job'.at \notin {"record1", "record2"}
  BY <1>0, <1>b DEF Jobs
<1>c. \A j : /\ made' = made /\ j = job /\ (day'.man.phase = "done" => day.man.phase = "done")
             => j \in Jobs(made') /\ (j.at \in {"record1", "record2"} => day'.man.phase # "done")
  BY <1>0, <1>a
<1>1. CASE CloseComplete
  <2>1. day'.man = day.man
    BY <1>0, <1>1 DEF CloseComplete, Days
  <2> QED BY <1>1, <1>c, <2>1 DEF CloseComplete
<1>2. CASE Open
  BY <1>2, <1>b DEF Open, Goto, Quiet, Stages
<1>3. CASE WaitOver
  <2>1. PICK b : b = (job.skip \/ PhaseDoneSealed(Look(day)))
    OBVIOUS
  <2>2. b \in BOOLEAN
    BY <2>1, Zenon
  <2>3. PICK s : s = After(job.at, b)
    OBVIOUS
  <2>4. s \in Stages \ {"record1", "record2"}
    BY <1>3, <2>3 DEF WaitOver, Waits, After, Stages
  <2>5. made' = made /\ job' = [job EXCEPT !.at = s, !.skip = b]
    BY <1>3, <2>1, <2>3, Zenon DEF WaitOver, Advance, Quiet
  <2> QED BY <1>b, <2>2, <2>4, <2>5
<1>4. CASE PreSealRead
  <2>0. made' = made
    BY <1>4 DEF PreSealRead, Quiet, Yield
  <2>1. CASE job' = NoJob
    BY <1>n, <2>0, <2>1
  <2>2. CASE \E s \in {"wait2", "wait3"} : job' = [job EXCEPT !.at = s]
    BY <1>b, <2>0, <2>2 DEF Stages
  <2>3. CASE /\ \E a \in Archives, l \in SUBSET made, s \in {"record1", "record2"} :
                  job' = [job EXCEPT !.mem = a, !.list = l, !.at = s]
             /\ day'.man.phase = "verifying"
    BY <1>0, <2>0, <2>3 DEF Jobs, Stages
  <2> QED BY <1>4, <2>1, <2>2, <2>3, PreSealReadOK
<1>5. CASE Merge
  BY <1>5, <1>b DEF Merge, Goto, Quiet, Stages
<1>6. CASE \E held \in SUBSET File : Gate(held)
  <2>1. made' = made /\ (job' = NoJob \/ job' = [job EXCEPT !.at = "seal"])
    BY <1>6 DEF Gate, Return, Goto
  <2> QED BY <1>n, <1>b, <2>1 DEF Stages
<1>7. CASE Seal
  BY <1>7, <1>b DEF Seal, Goto, Quiet, Stages
<1>8. CASE SealFails
  <2>1. made' = made /\ (job' = NoJob \/ job' = [job EXCEPT !.at = "post"])
    BY <1>8 DEF SealFails, Return, Goto
  <2> QED BY <1>n, <1>b, <2>1 DEF Stages
<1>9. CASE PostSeal
  <2>1. PICK b : b = (~(day.tar = None /\ day.zst = None) /\ PostSealOk(Look(day)))
    OBVIOUS
  <2>2. b \in BOOLEAN
    BY <2>1, Zenon
  <2>3. made' = made /\ job' = [job EXCEPT !.at = "delete", !.ok = b]
    BY <1>9, <2>1, Zenon DEF PostSeal, Quiet
  <2> QED BY <1>b, <2>2, <2>3 DEF Stages
<1>10. CASE Drop
  <2>1. made' = made /\ job' = NoJob
    BY <1>10 DEF Drop, Return
  <2> QED BY <1>n, <2>1
<1>11. CASE \E held \in SUBSET File : Wait(held)
  <2>1. PICK held : Wait(held)
    BY <1>11
  <2>2. PICK s : s = After(job.at, TRUE)
    OBVIOUS
  <2>3. s \in Stages \ {"record1", "record2"}
    BY <2>1, <2>2 DEF Wait, Waits, After, Stages
  <2>4. made' = made /\ (job' = NoJob \/ job' = [job EXCEPT !.at = s, !.skip = TRUE])
    BY <2>1, <2>2 DEF Wait, Return, Advance
  <2> QED BY <1>n, <1>b, <2>3, <2>4
<1>12. CASE \E held \in SUBSET File : NoTarHandoff(held)
  BY <1>12, <1>b DEF NoTarHandoff, Holding, Goto, Stages
<1>13. CASE \E held \in SUBSET File : Release(held)
  BY <1>13, <1>b DEF Release, Holding, Goto, Stages
<1>14. CASE \E held \in SUBSET File : RawDelete(held)
  <2>1. PICK held : RawDelete(held)
    BY <1>14
  <2>2. PICK d : d = BatchDelete(day, held)
    OBVIOUS
  <2>3. PICK b : b = (d.man.phase # "done" /\ ClosedRaw(d) # {})
    OBVIOUS
  <2>4. b \in BOOLEAN
    BY <2>3, Zenon
  <2>5. made' = made /\ job' = [job EXCEPT !.at = "drop", !.remains = b]
    BY <2>1, <2>2, <2>3, Zenon DEF RawDelete, Holding
  <2> QED BY <1>b, <2>4, <2>5 DEF Stages
<1>15. CASE \E batch \in SUBSET File : PreSealRecord(batch)
  <2>1. PICK batch : PreSealRecord(batch)
    BY <1>15
  <2>0. made' = made
    BY <2>1 DEF PreSealRecord, Quiet, Yield
  <2>2. CASE job' = NoJob
    BY <1>n, <2>0, <2>2
  <2>3. CASE \E s \in {"wait2", "wait3"} : job' = [job EXCEPT !.mem = None, !.list = {}, !.at = s]
    BY <1>0, <2>0, <2>3 DEF Jobs, Stages, Archives
  <2> QED BY <2>1, <2>2, <2>3, PreSealRecordOK
<1>16. CASE \E held \in SUBSET File : Verify(held)
  <2>1. day'.man.phase = "done" => day.man.phase = "done"
    <3>1. PICK held : Verify(held)
      BY <1>16
    <3>2. day' = ThreadStep(day, held)
      BY <3>1 DEF Verify
    <3> QED BY <1>0, <3>2, ThreadStepOK
  <2> QED BY <1>16, <1>c, <2>1 DEF Verify, Holding
<1>17. CASE \E held \in SUBSET File : OrphanVerify(held)
  <2>1. day'.man = day.man
    <3>1. PICK held : OrphanVerify(held)
      BY <1>17
    <3>2. day.orphan # None /\ day' = OrphanStep(day, held)
      BY <3>1 DEF OrphanVerify
    <3> QED BY <1>0, <3>2, OrphanStepOK
  <2> QED BY <1>17, <1>c, <2>1 DEF OrphanVerify, Holding
<1>18. CASE Discover
  <2>1. day'.man = day.man
    BY <1>0, <1>18, HandFields DEF Discover
  <2> QED BY <1>18, <1>c, <2>1 DEF Discover
<1>19. CASE DailyDirScan
  BY <1>19, <1>c DEF DailyDirScan
<1>20. CASE Crash
  <2>1. made' = made /\ job' = NoJob
    BY <1>20 DEF Crash
  <2> QED BY <1>n, <2>1
<1>21. CASE \E f \in File : Ingest(f)
  <2>1. PICK f \in File : Ingest(f)
    BY <1>21
  <2>2. made' = made /\ job' = job
    BY <2>1 DEF Ingest
  <2> QED BY <1>c, <2>1, <2>2, IngestOK
<1>22. CASE \E f \in File : Append(f)
  <2>1. PICK f \in File : Append(f)
    BY <1>22
  <2>2. made' = made /\ job' = job
    BY <2>1 DEF Append
  <2> QED BY <1>c, <2>1, <2>2, AppendOK
<1>23. CASE \E f \in File : Arrive(f)
  <2>1. PICK f \in File : Arrive(f)
    BY <1>23
  <2>2. made \subseteq made' /\ job' = job
    BY <2>1 DEF Arrive
  <2>3. job \in Jobs(made')
    BY <1>0, <2>2 DEF Jobs
  <2> QED BY <1>a, <2>1, <2>2, <2>3, ArriveOK
<1> QED BY <1>1, <1>2, <1>3, <1>4, <1>5, <1>6, <1>7, <1>8, <1>9, <1>10, <1>11, <1>12, <1>13,
           <1>14, <1>15, <1>16, <1>17, <1>18, <1>19, <1>20, <1>21, <1>22, <1>23, Zenon
           DEF Next, Stage

-----------------------------------------------------------------------------
(* Flags, counts and the theorems *)

LEMMA FlagStep ==
  ASSUME Flags, [Next]_vars
  PROVE  Flags'
<1> USE DEF Flags
<1>1. CASE UNCHANGED vars
  BY <1>1, Zenon DEF vars
<1>2. CASE CloseComplete \/ DailyDirScan
  BY <1>2, Zenon DEF CloseComplete, DailyDirScan
<1>3. CASE Open \/ WaitOver \/ Merge \/ Seal \/ PostSeal
  BY <1>3, Zenon DEF Open, WaitOver, Merge, Seal, PostSeal, Quiet
<1>4. CASE PreSealRead
  BY <1>4, Zenon DEF PreSealRead, Quiet, Yield, Return
<1>5. CASE SealFails
  BY <1>5, Zenon DEF SealFails, Return
<1>6. CASE Drop
  <2>1. PICK d, b : Return(d, b) /\ boot' = boot
    BY <1>6, Zenon DEF Drop
  <2> QED BY <2>1, Zenon DEF Return
<1>7. CASE \E held \in SUBSET File : Wait(held)
  BY <1>7, Zenon DEF Wait, Return
<1>8. CASE \E held \in SUBSET File : NoTarHandoff(held) \/ Release(held) \/ RawDelete(held)
  BY <1>8, Zenon DEF NoTarHandoff, Release, RawDelete, Holding
<1>14. CASE \E held \in SUBSET File : Gate(held)
  BY <1>14, Zenon DEF Gate, Return
<1>9. CASE \E batch \in SUBSET File : PreSealRecord(batch)
  BY <1>9, Zenon DEF PreSealRecord, Quiet, Yield, Return
<1>10. CASE \E held \in SUBSET File : Verify(held) \/ OrphanVerify(held)
  BY <1>10, Zenon DEF Verify, OrphanVerify, Holding
<1>11. CASE Discover
  BY <1>11, Zenon DEF Discover
<1>12. CASE Crash
  BY <1>12, Zenon DEF Crash, Restart
<1>13. CASE \E f \in File : Ingest(f) \/ Append(f) \/ Arrive(f)
  BY <1>13, Zenon DEF Ingest, Append, Arrive
<1> QED BY <1>1, <1>2, <1>3, <1>4, <1>5, <1>6, <1>7, <1>8, <1>9, <1>10, <1>11, <1>12, <1>13, <1>14, Zenon
        DEF Next, Stage

LEMMA CountStep ==
  ASSUME IInv, Next
  PROVE  Counts'
<1>0. faults \in 0..MaxFaults /\ crashes \in 0..MaxCrashes
  BY Zenon DEF IInv, Counts
<1>a. ASSUME NEW n \in Nat, Fault(n), crashes' = crashes PROVE Counts'
  BY <1>0, <1>a, BoundAssumption DEF Fault, Counts
<1>b. UNCHANGED <<faults, crashes>> => Counts'
  BY <1>0 DEF Counts
<1>c. ASSUME NEW held, Held(held), crashes' = crashes PROVE Counts'
  BY <1>a, <1>c DEF Held
<1>1. CASE CloseComplete \/ Open \/ WaitOver \/ Merge \/ Seal \/ PostSeal \/ DailyDirScan
  BY <1>b, <1>1 DEF CloseComplete, Open, WaitOver, Merge, Seal, PostSeal, DailyDirScan, Quiet
<1>2. CASE PreSealRead \/ Drop
  <2>1. UNCHANGED <<faults, crashes>>
    BY <1>2, Zenon DEF PreSealRead, Drop, Yield, Quiet
  <2> QED BY <1>b, <2>1
<1>3. CASE SealFails
  BY <1>a, <1>3 DEF SealFails
<1>4. CASE \E held \in SUBSET File : Wait(held) \/ Gate(held)
  BY <1>4, <1>c DEF Wait, Gate
<1>5. CASE \E held \in SUBSET File : NoTarHandoff(held) \/ Release(held) \/ RawDelete(held)
  BY <1>5, <1>c DEF NoTarHandoff, Release, RawDelete, Holding
<1>6. CASE \E batch \in SUBSET File : PreSealRecord(batch)
  <2>1. UNCHANGED <<faults, crashes>>
    BY <1>6, Zenon DEF PreSealRecord, Yield, Quiet
  <2> QED BY <1>b, <2>1
<1>7. CASE Discover
  BY <1>b, <1>7 DEF Discover
<1>10. CASE \E held \in SUBSET File : Verify(held) \/ OrphanVerify(held)
  BY <1>10, <1>c DEF Verify, OrphanVerify, Holding
<1>8. CASE Crash
  BY <1>0, <1>8, BoundAssumption DEF Crash, Counts
<1>9. CASE \E f \in File : Ingest(f) \/ Append(f) \/ Arrive(f)
  BY <1>b, <1>9 DEF Ingest, Append, Arrive
<1> QED BY <1>1, <1>2, <1>3, <1>4, <1>5, <1>6, <1>7, <1>8, <1>9, <1>10, Zenon DEF Next, Stage

LEMMA Initially == ASSUME Init PROVE IInv
<1>1. PICK d : d = [raw |-> made, ingested |-> {}, tar |-> None, zst |-> None,
                    ingestQ |-> {}, appendQ |-> {}, doc |-> None,
                    man |-> NewManifest, pipe |-> None, orphan |-> None]
  OBVIOUS
<1>2. made \in SUBSET File /\ day = d /\ job = NoJob
  BY <1>1, LateAssumption DEF Init
<1>3. NewManifest \in Manifests /\ ManifestOK(NewManifest, made, made, {})
  BY NewManifestOK
<1>4. /\ d \in Days(made) /\ d.raw = made /\ d.ingested = {} /\ d.tar = None /\ d.zst = None
      /\ d.man = NewManifest /\ d.doc = None /\ d.orphan = None
  BY <1>1, <1>3 DEF Days, Archives
<1>5. ArchiveOK(d, made)
  BY <1>4 DEF ArchiveOK
<1>6. DayOK(d, made)
  BY <1>3, <1>4, <1>5 DEF DayOK
<1>7. job \in Jobs(made) /\ JobOK
  BY <1>2, NoJobOK DEF JobOK
<1>8. Counts
  BY BoundAssumption DEF Init, Counts
<1>9. Flags
  BY Zenon DEF Init, Flags
<1> QED BY <1>2, <1>6, <1>7, <1>8, <1>9, Zenon DEF IInv

LEMMA Stutters == ASSUME IInv, UNCHANGED vars PROVE IInv'
BY Zenon DEF IInv, vars, JobOK, Counts, Flags

\* The inductive invariant: in every state the open tar holds what the sealed archive
\* holds, a file that is gone is sealed and in the database, and each of the three copies
\* of the manifest (the job's, the one on disk, the one of a thread left behind) speaks only
\* of files there were, calls verified only what is in the database, deleted only what is
\* gone, and done only a day none of whose entries is on disk.
THEOREM DayCloseInductive == Spec => []IInv
<1>1. ASSUME IInv, [Next]_vars PROVE IInv'
  <2>1. CASE UNCHANGED vars
    BY <1>1, <2>1, Stutters
  <2>2. CASE Next
    <3>1. made' \in SUBSET File /\ DayOK(day', made')
      BY <1>1, <2>2, DayStep
    <3>2. /\ job' \in Jobs(made')
          /\ job'.at \in {"record1", "record2"} => day'.man.phase # "done"
      BY <1>1, <2>2, JobStep
    <3>3. Counts'
      BY <1>1, <2>2, CountStep
    <3>4. Flags'
      BY <1>1, FlagStep, Zenon DEF IInv
    <3> QED BY <3>1, <3>2, <3>3, <3>4, Zenon DEF IInv, JobOK
  <2> QED BY <1>1, <2>1, <2>2
<1> QED BY Initially, <1>1, PTL DEF Spec

\* The type invariant of the day close: queues, lists and raw files are files of the day,
\* archives, manifests and threads are well formed, the counters stay within their bounds.
THEOREM DayCloseTypes == Spec => []TypeOK
<1>1. ASSUME IInv PROVE TypeOK
  <2>1. made \in SUBSET File /\ day \in Days(made) /\ job \in Jobs(made) /\ Counts /\ Flags
    BY <1>1, Base, Zenon DEF IInv
  <2>2. /\ day.raw \subseteq made /\ made \subseteq File /\ day.ingested \subseteq made
        /\ day.tar \in Archives /\ day.zst \in Archives
        /\ day.ingestQ \subseteq made /\ day.appendQ \subseteq made
        /\ day.doc \in Manifests \cup {None} /\ day.man \in Manifests
        /\ day.pipe \in Threads \cup {None}
        /\ day.orphan \in [census : Archives, man : Manifests] \cup {None}
    BY <2>1, DayFields DEF Orphans
  <2>3. /\ job.at \in Stages /\ job.skip \in BOOLEAN /\ job.ok \in BOOLEAN
        /\ job.mem \in Archives /\ job.list \subseteq made /\ job.remains \in BOOLEAN
    BY <2>1 DEF Jobs
  <2> QED BY <2>1, <2>2, <2>3, Zenon DEF TypeOK, Counts, Flags
<1> QED BY <1>1, DayCloseInductive, PTL

\* INV-COPY: a raw file leaves the disk only when its samples are in the database and the
\* sealed archive holds it, for any interleaving of the job, the verify threads, ingest,
\* append, late files, failed seals and restarts (_apply_batch_delete_body).
THEOREM SafeRemoval == Spec => []SafelyRemoved
<1>1. ASSUME IInv PROVE SafelyRemoved
  BY <1>1, Base DEF DayOK, ArchiveOK, SafelyRemoved
<1> QED BY <1>1, DayCloseInductive, PTL

\* F15 / DE-25: a manifest on disk that says done has no entry for a raw file still there.
\* So ReopenDone, Reverify and KickDone never find work on a manifest that was saved.
THEOREM DoneMeansNoRaw == Spec => []DoneHoldsNoRaw
<1>1. ASSUME IInv PROVE DoneHoldsNoRaw
  BY <1>1, Base DEF DayOK, ManifestOK, DoneHoldsNoRaw
<1> QED BY <1>1, DayCloseInductive, PTL
=============================================================================
