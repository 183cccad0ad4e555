-------------------------- MODULE DayArchiveProofs --------------------------
(***************************************************************************)
(* What holds of a day's copies for any files, workers and bounds.  The    *)
(* member map never misstates the archive it names; and until a power loss *)
(* cuts a tar, an open tar holds all that is sealed, so that no seal takes *)
(* a member away and no raw file is removed without a sealed copy.         *)
(***************************************************************************)
EXTENDS DayArchive, TLAPS

\* Who may be where, and what he has read when he is there.
ProcOK(p) ==
  /\ pc[p] = "append" => p \in Appender
  /\ pc[p] \in {"restore", "decompress"} => p \in Appender \cup Closer
  /\ pc[p] \in {"scanned", "checked"} => p \in Mapper /\ seen[p] # None
  /\ pc[p] \in {"seal", "compress", "map", "keep", "merge", "drop", "delete"}
       => p \in Closer
  /\ pc[p] \in {"decompress", "merge", "delete"} => seen[p] # None
  /\ p \in Appender /\ pc[p] # "idle" => job[p] # None

\* The tar's lock is kept from the guard of a seal to its map.
SealOK(p) ==
  /\ pc[p] \in {"compress", "map"} => lock = p /\ tar # None /\ ~torn
  /\ pc[p] = "compress" => NextId <= MaxSeals
  /\ pc[p] = "map" => zst # None /\ zst.mem = tar

SealsOK == \A p \in Proc : SealOK(p)

\* A document names an archive that is or was, and never misstates the
\* present one.
DocOK(doc) ==
  doc # None => /\ zst # None
                /\ doc.id <= zst.id
                /\ doc.id = zst.id => doc.mem = zst.mem

MapOK == DocOK(map) /\ \A r \in Mapper : DocOK(seen[r])

\* Until a power loss: the restore's owner puts back all that is sealed and
\* nobody makes a tar meanwhile; a delete goes by what is sealed.
Uncut ==
  losses = 0 =>
    /\ ~torn /\ ~ztorn
    /\ tar # None => Sealed \subseteq tar
    /\ \A p \in Proc :
         /\ pc[p] = "decompress" => /\ restorer = p /\ tar = None
                                    /\ zst # None /\ seen[p] = Sealed
         /\ pc[p] = "delete" => seen[p] \subseteq Sealed
    /\ made \subseteq raw \cup Sealed

Typed ==
  /\ TypeOK
  /\ soft \/ torn => tar # None
  /\ zsoft \/ ztorn => zst # None
  /\ zst # None => zst.id <= MaxSeals + losses
  /\ \A p \in Proc : ProcOK(p)
IInv == Typed /\ SealsOK /\ MapOK /\ Uncut

LEMMA InitHolds == Init => IInv
<1>. SUFFICES ASSUME Init PROVE IInv
  OBVIOUS
<1>. USE DEF Init
<1>1. TypeOK
  <2>1. soft \in BOOLEAN /\ torn \in BOOLEAN /\ same \in [Closer -> BOOLEAN]
    OBVIOUS
  <2>2. kills \in 0..MaxKills /\ losses \in 0..MaxLosses
    BY DayBounds
  <2>3. /\ pc \in [Proc -> Steps] /\ job \in [Appender -> File \cup {None}]
        /\ DOMAIN seen = Proc
        /\ \A p \in Proc : seen[p] = None
    BY DEF Steps
  <2>. QED BY <2>1, <2>2, <2>3 DEF TypeOK
<1>2. \A p \in Proc : ProcOK(p) /\ SealOK(p)
  BY DEF ProcOK, SealOK
<1>3. MapOK
  BY DEF MapOK, DocOK, Proc
<1>4. Uncut
  BY DEF Uncut
<1>. QED BY <1>1, <1>2, <1>3, <1>4 DEF IInv, Typed, SealsOK

\* The documents of the member map.
LEMMA DocFields ==
  /\ \A doc \in Docs : doc.id \in 1..(MaxSeals + MaxLosses) /\ doc.mem \in SUBSET File
  /\ \A i \in 1..(MaxSeals + MaxLosses), m \in SUBSET File :
       [id |-> i, mem |-> m] \in Docs
BY DEF Docs

LEMMA ArchiveTypes ==
  ASSUME TypeOK
  PROVE  /\ Members(tar) \in SUBSET File /\ Sealed \in SUBSET File
         /\ zst # None => /\ zst.mem = Sealed /\ zst \in Docs
                          /\ zst.id \in 1..(MaxSeals + MaxLosses)
         /\ MapValid => map \in Docs /\ map.mem \in SUBSET File
BY DocFields DEF TypeOK, Members, Sealed, MapValid

\* A change of the tar keeps its type.
LEMMA SetTarTypes ==
  ASSUME NEW new \in (SUBSET File) \cup {None}, NEW u \in BOOLEAN, SetTar(new, u)
  PROVE  /\ tar' \in (SUBSET File) \cup {None}
         /\ soft' \in BOOLEAN /\ torn' \in BOOLEAN
         /\ same' \in [Closer -> BOOLEAN]
         /\ soft' \/ torn' => tar' # None
BY DEF SetTar

\* Type correctness of every step.
LEMMA TypedStep ==
  ASSUME Typed, SealsOK, Next
  PROVE  Typed'
<1>. USE DayBounds, DayProcs, NoneAssumption
      DEF Typed, TypeOK, ProcOK, Proc, Steps, rawVars, tarVars, zstVars, procVars, holders, faults
<1>1. ASSUME NEW f \in File, Arrive(f) PROVE Typed'
  BY <1>1 DEF Arrive
<1>2. ASSUME NEW f \in File, HandOff(f) PROVE Typed'
  BY <1>2 DEF HandOff
<1>3. ASSUME NEW a \in Appender, NEW f \in File, StartAppend(a, f) PROVE Typed'
  BY <1>3 DEF StartAppend, Goto
<1>4. ASSUME NEW a \in Appender, AppendFile(a) PROVE Typed'
  <2>1. /\ tar' \in (SUBSET File) \cup {None}
        /\ soft' \in BOOLEAN /\ torn' \in BOOLEAN
        /\ same' \in [Closer -> BOOLEAN]
        /\ soft' \/ torn' => tar' # None
    <3>1. CASE job[a] \in raw
      <4>1. Members(tar) \cup {job[a]} \in SUBSET File
        BY <3>1, ArchiveTypes
      <4>. QED BY <1>4, <3>1, <4>1, SetTarTypes DEF AppendFile
    <3>2. CASE job[a] \notin raw
      BY <1>4, <3>2 DEF AppendFile
    <3>. QED BY <3>1, <3>2
  <2>. QED BY <1>4, <2>1 DEF AppendFile, EndJob, Return, Goto, Read
<1>5. ASSUME NEW a \in Appender, FailAppend(a) PROVE Typed'
  BY <1>5 DEF FailAppend, EndJob, Return, Goto, Read, Lost
<1>6. ASSUME NEW p \in Appender \cup Closer, HaveTar(p) PROVE Typed'
  BY <1>6 DEF HaveTar, Goto, AfterRestore
<1>7. ASSUME NEW p \in Appender \cup Closer, Decompress(p) PROVE Typed'
  <2>1. zst.mem \in SUBSET File /\ zst.mem # None
    BY <1>7, ArchiveTypes DEF Decompress, ZstReadable
  <2>. QED BY <1>7, <2>1 DEF Decompress, ZstReadable, Goto, Read
<1>8. ASSUME NEW p \in Appender \cup Closer, InstallTar(p) PROVE Typed'
  BY <1>8 DEF InstallTar, SetTar, ReleaseRestore, Goto, Read, AfterRestore
<1>9. ASSUME Salvage PROVE Typed'
  <2>1. /\ tar' \in (SUBSET File) \cup {None}
        /\ soft' \in BOOLEAN /\ torn' \in BOOLEAN
        /\ same' \in [Closer -> BOOLEAN]
        /\ soft' \/ torn' => tar' # None
    BY <1>9, ArchiveTypes, SetTarTypes DEF Salvage, ZstReadable
  <2>. QED BY <1>9, <2>1 DEF Salvage
<1>10. ASSUME NEW c \in Closer, WantTar(c) PROVE Typed'
  BY <1>10 DEF WantTar, Goto
<1>11. ASSUME NEW c \in Closer, VerifyRaw(c) PROVE Typed'
  BY <1>11 DEF VerifyRaw, Readable, ZstReadable
<1>12. ASSUME NEW c \in Closer, MergeRead(c) PROVE Typed'
  <2>1. MemberUnion \in SUBSET File /\ MemberUnion # None
    <3>1. tar \in SUBSET File
      BY <1>12 DEF MergeRead, Divergent, Readable
    <3>. QED BY <3>1, ArchiveTypes DEF MemberUnion
  <2>. QED BY <1>12, <2>1 DEF MergeRead, Goto, Read
<1>13. ASSUME NEW c \in Closer, MergeInstall(c) PROVE Typed'
  <2>1. /\ tar' \in (SUBSET File) \cup {None}
        /\ soft' \in BOOLEAN /\ torn' \in BOOLEAN
        /\ same' \in [Closer -> BOOLEAN]
        /\ soft' \/ torn' => tar' # None
    BY <1>13, SetTarTypes DEF MergeInstall
  <2>. QED BY <1>13, <2>1 DEF MergeInstall, Return, Goto, Read
<1>14. ASSUME NEW c \in Closer, SealCheck(c) PROVE Typed'
  <2>1. zst # None => zst.mem \in SUBSET File
    BY ArchiveTypes
  <2>. QED BY <1>14, <2>1 DEF SealCheck, Goto, Read, ZstReadable
<1>15. ASSUME NEW c \in Closer, SealLock(c) PROVE Typed'
  BY <1>15 DEF SealLock, Goto, Return, Read, Readable, Locked
<1>16. ASSUME NEW c \in Closer, SealReplace(c) PROVE Typed'
  <2>1. zst' \in Docs /\ zst'.id <= MaxSeals + losses'
    <3>1. tar \in SUBSET File /\ NextId <= MaxSeals
      BY <1>16 DEF SealReplace, SealsOK, SealOK
    <3>2. NextId \in 1..(MaxSeals + MaxLosses)
      BY <3>1, ArchiveTypes DEF NextId
    <3>3. zst' = [id |-> NextId, mem |-> tar] /\ losses' = losses
      BY <1>16 DEF SealReplace
    <3>4. zst' \in Docs /\ zst'.id = NextId
      BY <3>1, <3>2, <3>3, DocFields
    <3>. QED BY <3>1, <3>2, <3>3, <3>4
  <2>2. zst' # None
    BY <2>1
  <2>. QED BY <1>16, <2>1, <2>2 DEF SealReplace, Goto
<1>17. ASSUME NEW c \in Closer, SealMap(c) PROVE Typed'
  <2>1. map' \in Docs \cup {None}
    <3>1. tar \in SUBSET File /\ zst # None
      BY <1>17 DEF SealMap, SealsOK, SealOK
    <3>2. [id |-> zst.id, mem |-> tar] \in Docs
      BY <3>1, ArchiveTypes, DocFields
    <3>. QED BY <1>17, <3>2 DEF SealMap
  <2>2. same' \in [Closer -> BOOLEAN]
    BY <1>17 DEF SealMap
  <2>. QED BY <1>17, <2>1, <2>2 DEF SealMap, Goto, Read
<1>18. ASSUME NEW c \in Closer, SealKeepTar(c) PROVE Typed'
  BY <1>18 DEF SealKeepTar, Return, Goto, Read
<1>19. ASSUME NEW c \in Closer, SealDropTar(c) PROVE Typed'
  <2>1. /\ tar' \in (SUBSET File) \cup {None}
        /\ soft' \in BOOLEAN /\ torn' \in BOOLEAN
        /\ same' \in [Closer -> BOOLEAN]
        /\ soft' \/ torn' => tar' # None
    BY <1>19, SetTarTypes DEF SealDropTar
  <2>. QED BY <1>19, <2>1 DEF SealDropTar, Return, Goto, Read
<1>20. ASSUME NEW c \in Closer, DropCheck(c) PROVE Typed'
  BY <1>20 DEF DropCheck, Goto, Readable, ZstReadable
<1>21. ASSUME NEW c \in Closer, DropTar(c) PROVE Typed'
  BY <1>21 DEF DropTar, SetTar, Goto
<1>22. ASSUME NEW c \in Closer, DeleteLookup(c) PROVE Typed'
  <2>1. map.mem \in SUBSET File /\ map.mem # None
    BY <1>22, ArchiveTypes DEF DeleteLookup
  <2>. QED BY <1>22, <2>1 DEF DeleteLookup, Goto, Read
<1>23. ASSUME NEW c \in Closer, DeleteEnd(c) PROVE Typed'
  BY <1>23 DEF DeleteEnd, Return, Goto, Read
<1>24. ASSUME NEW c \in Closer, NEW f \in File, DeleteRaw(c, f) PROVE Typed'
  BY <1>24 DEF DeleteRaw
<1>25. ASSUME NEW r \in Mapper, MapScan(r) PROVE Typed'
  BY <1>25 DEF MapScan, Goto, Read, ZstReadable
<1>26. ASSUME NEW r \in Mapper, MapCheck(r) PROVE Typed'
  BY <1>26 DEF MapCheck, Goto, Return, Read
<1>27. ASSUME NEW r \in Mapper, MapWrite(r) PROVE Typed'
  BY <1>27 DEF MapWrite, Return, Goto, Read
<1>28. ASSUME NEW p \in Proc, Kill(p) PROVE Typed'
  BY <1>28 DEF Kill, EndJob, ReleaseRestore, Return, Goto, Read, Lost
<1>30. ASSUME NEW p \in Appender \cup Closer, FailRestore(p) PROVE Typed'
  BY <1>30 DEF FailRestore, EndJob, ReleaseRestore, Return, Goto, Read, Lost
<1>29. ASSUME PowerLoss PROVE Typed'
  <2>1. /\ tar' \in (SUBSET File) \cup {None}
        /\ soft' \in BOOLEAN /\ torn' \in BOOLEAN
        /\ same' \in [Closer -> BOOLEAN]
        /\ soft' \/ torn' => tar' # None
    <3>1. /\ tar' \in (SUBSET File) \cup {None}
          /\ soft' \/ torn' => tar' # None
      BY <1>29 DEF PowerLoss, CutTar, CutZst
    <3>2. soft' \in BOOLEAN /\ torn' \in BOOLEAN
      BY <1>29 DEF PowerLoss, CutTar, CutZst
    <3>3. same' \in [Closer -> BOOLEAN]
      BY <1>29 DEF PowerLoss, CutTar, CutZst
    <3>. QED BY <3>1, <3>2, <3>3
  <2>2. queue' \subseteq File
    BY <1>29 DEF PowerLoss, Lost
  <2>3. losses' = losses + 1 /\ losses' \in 0..MaxLosses
    BY <1>29 DEF PowerLoss
  <2>4. /\ zst' \in Docs \cup {None} /\ gone' \subseteq File
        /\ zsoft' \in BOOLEAN /\ ztorn' \in BOOLEAN
        /\ zsoft' \/ ztorn' => zst' # None
        /\ zst' # None => zst'.id <= MaxSeals + losses'
    <3>1. CASE UNCHANGED <<zst, ztorn, gone>>
      <4>1. zsoft' = FALSE
        BY <1>29 DEF PowerLoss, CutZst
      <4>2. zst' # None => zst'.id <= MaxSeals + losses'
        BY <2>3, <3>1, ArchiveTypes
      <4>. QED BY <3>1, <4>1, <4>2
    <3>2. CASE ~UNCHANGED <<zst, ztorn, gone>>
      <4>1. /\ zsoft /\ zsoft' = FALSE /\ ztorn' = TRUE
            /\ zst' = [id |-> NextId, mem |-> {}]
            /\ gone' = gone \cup (zst.mem \ (raw \cup Members(tar')))
        BY <1>29, <3>2 DEF PowerLoss, CutZst
      <4>2. zst # None /\ zst.id \in 1..(MaxSeals + MaxLosses) /\ zst.mem \in SUBSET File
        BY <4>1, ArchiveTypes
      <4>3. NextId = zst.id + 1 /\ NextId <= MaxSeals + losses' /\ NextId \in Nat \ {0}
        BY <2>3, <4>2 DEF NextId
      <4>4. NextId \in 1..(MaxSeals + MaxLosses)
        BY <2>3, <4>3
      <4>5. zst' \in Docs /\ zst'.id = NextId
        BY <4>1, <4>4, DocFields
      <4>. QED BY <4>1, <4>2, <4>3, <4>5
    <3>. QED BY <3>1, <3>2
  <2>5. map' \in Docs \cup {None}
    BY <1>29 DEF PowerLoss
  <2>. QED BY <1>29, <2>1, <2>2, <2>3, <2>4, <2>5 DEF PowerLoss
<1>. QED
  BY <1>1, <1>2, <1>3, <1>4, <1>5, <1>6, <1>7, <1>8, <1>9, <1>10, <1>11,
     <1>12, <1>13, <1>14, <1>15, <1>16, <1>17, <1>18, <1>19, <1>20, <1>21,
     <1>22, <1>23, <1>24, <1>25, <1>26, <1>27, <1>28, <1>29,
     <1>30 DEF Next

\* The lock is kept while the tar is sealed.
LEMMA SealStep ==
  ASSUME Typed, SealsOK, Next
  PROVE  SealsOK'
<1>. USE DayBounds, DayProcs, NoneAssumption
      DEF Typed, TypeOK, ProcOK, Proc, Steps, SealsOK, SealOK, NextId, Locked,
          rawVars, tarVars, zstVars, procVars, holders, faults
<1>1. ASSUME NEW f \in File, Arrive(f) PROVE SealsOK'
  BY <1>1 DEF Arrive
<1>2. ASSUME NEW f \in File, HandOff(f) PROVE SealsOK'
  BY <1>2 DEF HandOff
<1>3. ASSUME NEW a \in Appender, NEW f \in File, StartAppend(a, f) PROVE SealsOK'
  BY <1>3 DEF StartAppend, Goto
<1>4. ASSUME NEW a \in Appender, AppendFile(a) PROVE SealsOK'
  BY <1>4 DEF AppendFile, SetTar, EndJob, Return, Goto, Read, Members
<1>5. ASSUME NEW a \in Appender, FailAppend(a) PROVE SealsOK'
  BY <1>5 DEF FailAppend, EndJob, Return, Goto, Read, Lost
<1>6. ASSUME NEW p \in Appender \cup Closer, HaveTar(p) PROVE SealsOK'
  BY <1>6 DEF HaveTar, Goto, AfterRestore
<1>7. ASSUME NEW p \in Appender \cup Closer, Decompress(p) PROVE SealsOK'
  BY <1>7 DEF Decompress, ZstReadable, Goto, Read
<1>8. ASSUME NEW p \in Appender \cup Closer, InstallTar(p) PROVE SealsOK'
  BY <1>8 DEF InstallTar, SetTar, ReleaseRestore, Goto, Read, AfterRestore
<1>9. ASSUME Salvage PROVE SealsOK'
  BY <1>9 DEF Salvage, SetTar, ZstReadable
<1>10. ASSUME NEW c \in Closer, WantTar(c) PROVE SealsOK'
  BY <1>10 DEF WantTar, Goto
<1>11. ASSUME NEW c \in Closer, VerifyRaw(c) PROVE SealsOK'
  BY <1>11 DEF VerifyRaw, Readable, ZstReadable
<1>12. ASSUME NEW c \in Closer, MergeRead(c) PROVE SealsOK'
  BY <1>12 DEF MergeRead, Goto, Read, Divergent, MemberUnion, Readable, ZstReadable
<1>13. ASSUME NEW c \in Closer, MergeInstall(c) PROVE SealsOK'
  BY <1>13 DEF MergeInstall, SetTar, Return, Goto, Read, Readable
<1>14. ASSUME NEW c \in Closer, SealCheck(c) PROVE SealsOK'
  BY <1>14 DEF SealCheck, Goto, Read, Readable, ZstReadable
<1>15. ASSUME NEW c \in Closer, SealLock(c) PROVE SealsOK'
  BY <1>15 DEF SealLock, Goto, Return, Read, Readable, Locked
<1>16. ASSUME NEW c \in Closer, SealReplace(c) PROVE SealsOK'
  <2>1. lock = c /\ \A q \in Proc \ {c} : pc[q] \notin {"compress", "map"}
    BY <1>16 DEF SealReplace
  <2>2. zst' # None /\ zst'.mem = tar /\ tar # None /\ ~torn
    <3>1. NextId \in 1..MaxSeals
      BY <1>16, ArchiveTypes DEF SealReplace
    <3>2. tar \in SUBSET File /\ ~torn
      BY <1>16 DEF SealReplace
    <3>3. zst' = [id |-> NextId, mem |-> tar]
      BY <1>16 DEF SealReplace
    <3>. HIDE DEF NextId
    <3>. QED BY <3>1, <3>2, <3>3, DocFields
  <2>. QED BY <1>16, <2>1, <2>2 DEF SealReplace, Goto
<1>17. ASSUME NEW c \in Closer, SealMap(c) PROVE SealsOK'
  BY <1>17 DEF SealMap, Goto, Read
<1>18. ASSUME NEW c \in Closer, SealKeepTar(c) PROVE SealsOK'
  BY <1>18 DEF SealKeepTar, Return, Goto, Read
<1>19. ASSUME NEW c \in Closer, SealDropTar(c) PROVE SealsOK'
  BY <1>19 DEF SealDropTar, SetTar, Return, Goto, Read
<1>20. ASSUME NEW c \in Closer, DropCheck(c) PROVE SealsOK'
  BY <1>20 DEF DropCheck, Goto, Readable, ZstReadable
<1>21. ASSUME NEW c \in Closer, DropTar(c) PROVE SealsOK'
  BY <1>21 DEF DropTar, SetTar, Goto
<1>22. ASSUME NEW c \in Closer, DeleteLookup(c) PROVE SealsOK'
  BY <1>22 DEF DeleteLookup, Goto, Read
<1>23. ASSUME NEW c \in Closer, DeleteEnd(c) PROVE SealsOK'
  BY <1>23 DEF DeleteEnd, Return, Goto, Read
<1>24. ASSUME NEW c \in Closer, NEW f \in File, DeleteRaw(c, f) PROVE SealsOK'
  BY <1>24 DEF DeleteRaw
<1>25. ASSUME NEW r \in Mapper, MapScan(r) PROVE SealsOK'
  BY <1>25 DEF MapScan, Goto, Read, ZstReadable
<1>26. ASSUME NEW r \in Mapper, MapCheck(r) PROVE SealsOK'
  BY <1>26 DEF MapCheck, Goto, Return, Read
<1>27. ASSUME NEW r \in Mapper, MapWrite(r) PROVE SealsOK'
  BY <1>27 DEF MapWrite, Return, Goto, Read
<1>28. ASSUME NEW p \in Proc, Kill(p) PROVE SealsOK'
  BY <1>28 DEF Kill, EndJob, ReleaseRestore, Return, Goto, Read, Lost
<1>30. ASSUME NEW p \in Appender \cup Closer, FailRestore(p) PROVE SealsOK'
  BY <1>30 DEF FailRestore, EndJob, ReleaseRestore, Return, Goto, Read, Lost
<1>29. ASSUME PowerLoss PROVE SealsOK'
  BY <1>29 DEF PowerLoss, CutTar, CutZst, Lost
<1>. QED
  BY <1>1, <1>2, <1>3, <1>4, <1>5, <1>6, <1>7, <1>8, <1>9, <1>10, <1>11,
     <1>12, <1>13, <1>14, <1>15, <1>16, <1>17, <1>18, <1>19, <1>20, <1>21,
     <1>22, <1>23, <1>24, <1>25, <1>26, <1>27, <1>28, <1>29,
     <1>30 DEF Next

\* No step makes a document that misstates the archive.
LEMMA MapStep ==
  ASSUME Typed, SealsOK, MapOK, Next
  PROVE  MapOK'
<1>. USE DayBounds, DayProcs, NoneAssumption, DocFields
      DEF Typed, TypeOK, ProcOK, Proc, Steps, MapOK, DocOK,
          rawVars, tarVars, zstVars, procVars, holders, faults
<1>1. ASSUME NEW f \in File, Arrive(f) PROVE MapOK'
  BY <1>1 DEF Arrive
<1>2. ASSUME NEW f \in File, HandOff(f) PROVE MapOK'
  BY <1>2 DEF HandOff
<1>3. ASSUME NEW a \in Appender, NEW f \in File, StartAppend(a, f) PROVE MapOK'
  BY <1>3 DEF StartAppend, Goto
<1>4. ASSUME NEW a \in Appender, AppendFile(a) PROVE MapOK'
  BY <1>4 DEF AppendFile, SetTar, EndJob, Return, Goto, Read, Members
<1>5. ASSUME NEW a \in Appender, FailAppend(a) PROVE MapOK'
  BY <1>5 DEF FailAppend, EndJob, Return, Goto, Read, Lost
<1>6. ASSUME NEW p \in Appender \cup Closer, HaveTar(p) PROVE MapOK'
  BY <1>6 DEF HaveTar, Goto, AfterRestore
<1>7. ASSUME NEW p \in Appender \cup Closer, Decompress(p) PROVE MapOK'
  BY <1>7 DEF Decompress, ZstReadable, Goto, Read
<1>8. ASSUME NEW p \in Appender \cup Closer, InstallTar(p) PROVE MapOK'
  BY <1>8 DEF InstallTar, SetTar, ReleaseRestore, Goto, Read, AfterRestore
<1>9. ASSUME Salvage PROVE MapOK'
  BY <1>9 DEF Salvage, SetTar, ZstReadable
<1>10. ASSUME NEW c \in Closer, WantTar(c) PROVE MapOK'
  BY <1>10 DEF WantTar, Goto
<1>11. ASSUME NEW c \in Closer, VerifyRaw(c) PROVE MapOK'
  BY <1>11 DEF VerifyRaw, Readable, ZstReadable
<1>12. ASSUME NEW c \in Closer, MergeRead(c) PROVE MapOK'
  BY <1>12 DEF MergeRead, Goto, Read, Divergent, MemberUnion, Readable, ZstReadable
<1>13. ASSUME NEW c \in Closer, MergeInstall(c) PROVE MapOK'
  BY <1>13 DEF MergeInstall, SetTar, Return, Goto, Read, Readable
<1>14. ASSUME NEW c \in Closer, SealCheck(c) PROVE MapOK'
  BY <1>14 DEF SealCheck, Goto, Read, Readable, ZstReadable
<1>15. ASSUME NEW c \in Closer, SealLock(c) PROVE MapOK'
  BY <1>15 DEF SealLock, Goto, Return, Read, Readable, Locked
<1>16. ASSUME NEW c \in Closer, SealReplace(c) PROVE MapOK'
  <2>1. /\ NextId \in 1..MaxSeals /\ tar \in SUBSET File
        /\ zst # None => zst.id \in Nat /\ NextId = zst.id + 1
    BY <1>16, ArchiveTypes DEF SealReplace, SealsOK, SealOK, NextId
  <2>2. zst' = [id |-> NextId, mem |-> tar] /\ UNCHANGED <<map, seen>>
    BY <1>16 DEF SealReplace
  <2>3. zst' # None /\ zst'.id = NextId
    BY <2>1, <2>2, DocFields
  <2>4. ASSUME NEW doc \in Docs \cup {None}, DocOK(doc), doc # None
        PROVE  zst' # None /\ doc.id < zst'.id
    BY <2>1, <2>3, <2>4, DocFields
  <2>5. ASSUME NEW doc \in Docs \cup {None}, DocOK(doc), doc # None
        PROVE  zst' # None /\ doc.id <= zst'.id /\ doc.id # zst'.id
    BY <2>1, <2>3, <2>4, <2>5, DocFields
  <2>. QED BY <2>2, <2>5
<1>17. ASSUME NEW c \in Closer, SealMap(c) PROVE MapOK'
  <2>1. /\ zst # None /\ zst.mem = tar /\ zst.id \in Nat
        /\ map' \in {map, [id |-> zst.id, mem |-> tar]} /\ zst' = zst
        /\ seen' = [seen EXCEPT ![c] = None]
    BY <1>17, ArchiveTypes DEF SealMap, SealsOK, SealOK, Read
  <2>. QED BY <2>1
<1>18. ASSUME NEW c \in Closer, SealKeepTar(c) PROVE MapOK'
  BY <1>18 DEF SealKeepTar, Return, Goto, Read
<1>19. ASSUME NEW c \in Closer, SealDropTar(c) PROVE MapOK'
  BY <1>19 DEF SealDropTar, SetTar, Return, Goto, Read
<1>20. ASSUME NEW c \in Closer, DropCheck(c) PROVE MapOK'
  BY <1>20 DEF DropCheck, Goto, Readable, ZstReadable
<1>21. ASSUME NEW c \in Closer, DropTar(c) PROVE MapOK'
  BY <1>21 DEF DropTar, SetTar, Goto
<1>22. ASSUME NEW c \in Closer, DeleteLookup(c) PROVE MapOK'
  BY <1>22 DEF DeleteLookup, Goto, Read
<1>23. ASSUME NEW c \in Closer, DeleteEnd(c) PROVE MapOK'
  BY <1>23 DEF DeleteEnd, Return, Goto, Read
<1>24. ASSUME NEW c \in Closer, NEW f \in File, DeleteRaw(c, f) PROVE MapOK'
  BY <1>24 DEF DeleteRaw
<1>25. ASSUME NEW r \in Mapper, MapScan(r) PROVE MapOK'
  BY <1>25 DEF MapScan, Goto, Read, ZstReadable
<1>26. ASSUME NEW r \in Mapper, MapCheck(r) PROVE MapOK'
  BY <1>26 DEF MapCheck, Goto, Return, Read
<1>27. ASSUME NEW r \in Mapper, MapWrite(r) PROVE MapOK'
  BY <1>27 DEF MapWrite, Return, Goto, Read
<1>28. ASSUME NEW p \in Proc, Kill(p) PROVE MapOK'
  BY <1>28 DEF Kill, EndJob, ReleaseRestore, Return, Goto, Read, Lost
<1>30. ASSUME NEW p \in Appender \cup Closer, FailRestore(p) PROVE MapOK'
  BY <1>30 DEF FailRestore, EndJob, ReleaseRestore, Return, Goto, Read, Lost
<1>29. ASSUME PowerLoss PROVE MapOK'
  <2>1. map' \in {map, None} /\ \A r \in Mapper : seen'[r] = None
    BY <1>29 DEF PowerLoss
  <2>2. CASE zst' = zst
    BY <2>1, <2>2
  <2>3. CASE zst' # zst
    <3>1. zsoft /\ zst' = [id |-> NextId, mem |-> {}]
      BY <1>29, <2>3 DEF PowerLoss, CutZst
    <3>2. zst # None /\ NextId = zst.id + 1 /\ zst.id \in Nat
      BY <3>1, ArchiveTypes DEF NextId
    <3>3. zst' \in Docs /\ zst'.id = NextId
      <4>1. zst.id <= MaxSeals + losses /\ losses < MaxLosses /\ losses \in Nat
        BY <3>2, <1>29 DEF PowerLoss
      <4>2. NextId \in 1..(MaxSeals + MaxLosses)
        BY <3>2, <4>1
      <4>. QED BY <3>1, <4>2, DocFields
    <3>4. zst' # None /\ zst'.id \in Nat /\ zst.id < zst'.id
      BY <3>2, <3>3
    <3>5. map # None => map.id \in Nat /\ map.id <= zst.id
      BY DocFields
    <3>. QED BY <2>1, <3>2, <3>4, <3>5
  <2>. QED BY <2>2, <2>3
<1>. QED
  BY <1>1, <1>2, <1>3, <1>4, <1>5, <1>6, <1>7, <1>8, <1>9, <1>10, <1>11,
     <1>12, <1>13, <1>14, <1>15, <1>16, <1>17, <1>18, <1>19, <1>20, <1>21,
     <1>22, <1>23, <1>24, <1>25, <1>26, <1>27, <1>28, <1>29,
     <1>30 DEF Next

\* Until a power loss, no step takes away what is sealed.
LEMMA UncutStep ==
  ASSUME Typed, SealsOK, MapOK, Uncut, Next
  PROVE  Uncut'
<1>. USE DayBounds, DayProcs, NoneAssumption
      DEF Typed, TypeOK, ProcOK, Proc, Uncut, Sealed,
          rawVars, tarVars, zstVars, procVars, holders, faults
<1>1. ASSUME NEW f \in File, Arrive(f) PROVE Uncut'
  BY <1>1 DEF Arrive
<1>2. ASSUME NEW f \in File, HandOff(f) PROVE Uncut'
  BY <1>2 DEF HandOff
<1>3. ASSUME NEW a \in Appender, NEW f \in File, StartAppend(a, f) PROVE Uncut'
  BY <1>3 DEF StartAppend, Goto
<1>4. ASSUME NEW a \in Appender, AppendFile(a) PROVE Uncut'
  <2>. SUFFICES ASSUME losses = 0 PROVE Uncut'
    BY <1>4 DEF AppendFile
  <2>1. /\ \A q \in Proc : pc[q] # "decompress"
        /\ tar # None => Sealed \subseteq tar
        /\ tar = None => Sealed = {}
    BY <1>4 DEF AppendFile, Readable
  <2>2. /\ UNCHANGED <<raw, made, zst, ztorn, restorer>> /\ ~torn'
        /\ tar' # None => Sealed \subseteq tar'
    BY <1>4, <2>1 DEF AppendFile, SetTar, Members
  <2>3. \A q \in Proc : /\ pc'[q] # "decompress"
                        /\ pc'[q] = "delete" => pc[q] = "delete" /\ seen'[q] = seen[q]
    BY <1>4, <2>1 DEF AppendFile, EndJob, Return, Goto, Read
  <2>. QED BY <2>2, <2>3
<1>5. ASSUME NEW a \in Appender, FailAppend(a) PROVE Uncut'
  BY <1>5 DEF FailAppend, EndJob, Return, Goto, Read, Lost
<1>6. ASSUME NEW p \in Appender \cup Closer, HaveTar(p) PROVE Uncut'
  BY <1>6 DEF HaveTar, Goto, AfterRestore
<1>7. ASSUME NEW p \in Appender \cup Closer, Decompress(p) PROVE Uncut'
  <2>1. \A q \in Proc : pc[q] = "decompress" => losses # 0
    BY <1>7 DEF Decompress, ZstReadable, OwnRestore
  <2>. QED BY <1>7, <2>1 DEF Decompress, ZstReadable, Goto, Read
<1>8. ASSUME NEW p \in Appender \cup Closer, InstallTar(p) PROVE Uncut'
  BY <1>8 DEF InstallTar, SetTar, ReleaseRestore, Goto, Read, AfterRestore
<1>9. ASSUME Salvage PROVE Uncut'
  BY <1>9 DEF Salvage, SetTar, ZstReadable
<1>10. ASSUME NEW c \in Closer, WantTar(c) PROVE Uncut'
  BY <1>10 DEF WantTar, Goto
<1>11. ASSUME NEW c \in Closer, VerifyRaw(c) PROVE Uncut'
  BY <1>11 DEF VerifyRaw, Readable, ZstReadable
<1>12. ASSUME NEW c \in Closer, MergeRead(c) PROVE Uncut'
  BY <1>12 DEF MergeRead, Goto, Read, Divergent, MemberUnion, Readable, ZstReadable
<1>13. ASSUME NEW c \in Closer, MergeInstall(c) PROVE Uncut'
  BY <1>13 DEF MergeInstall, SetTar, Return, Goto, Read, Readable
<1>14. ASSUME NEW c \in Closer, SealCheck(c) PROVE Uncut'
  BY <1>14 DEF SealCheck, Goto, Read, Readable, ZstReadable
<1>15. ASSUME NEW c \in Closer, SealLock(c) PROVE Uncut'
  BY <1>15 DEF SealLock, Goto, Return, Read, Readable, Locked
<1>16. ASSUME NEW c \in Closer, SealReplace(c) PROVE Uncut'
  <2>. SUFFICES ASSUME losses = 0 PROVE Uncut'
    BY <1>16 DEF SealReplace
  <2>1. tar # None /\ \A q \in Proc : pc[q] # "decompress"
    BY <1>16 DEF SealReplace, SealsOK, SealOK
  <2>2. Sealed' = tar
    <3>1. (zst # None)' /\ (zst.mem)' = tar
      <4>1. zst' = [id |-> NextId, mem |-> tar] /\ tar \in SUBSET File
        BY <1>16, <2>1 DEF SealReplace
      <4>2. NextId \in 1..MaxSeals
        BY <1>16, ArchiveTypes DEF SealReplace, SealsOK, SealOK, NextId
      <4>. QED BY <4>1, <4>2, DocFields
    <3>. QED BY <3>1
  <2>3. UNCHANGED <<raw, made, tar, torn, seen>> /\ Sealed \subseteq tar /\ ~ztorn'
    BY <1>16, <2>1 DEF SealReplace
  <2>4. pc' = [pc EXCEPT ![c] = "map"]
    BY <1>16 DEF SealReplace, Goto
  <2>. HIDE DEF Sealed
  <2>. QED BY <2>1, <2>2, <2>3, <2>4
<1>17. ASSUME NEW c \in Closer, SealMap(c) PROVE Uncut'
  BY <1>17 DEF SealMap, Goto, Read
<1>18. ASSUME NEW c \in Closer, SealKeepTar(c) PROVE Uncut'
  BY <1>18 DEF SealKeepTar, Return, Goto, Read
<1>19. ASSUME NEW c \in Closer, SealDropTar(c) PROVE Uncut'
  BY <1>19 DEF SealDropTar, SetTar, Return, Goto, Read
<1>20. ASSUME NEW c \in Closer, DropCheck(c) PROVE Uncut'
  BY <1>20 DEF DropCheck, Goto, Readable, ZstReadable
<1>21. ASSUME NEW c \in Closer, DropTar(c) PROVE Uncut'
  BY <1>21 DEF DropTar, SetTar, Goto
<1>22. ASSUME NEW c \in Closer, DeleteLookup(c) PROVE Uncut'
  <2>1. map.mem = Sealed
    BY <1>22 DEF DeleteLookup, MapValid, MapOK, DocOK
  <2>. QED BY <1>22, <2>1 DEF DeleteLookup, Goto, Read
<1>23. ASSUME NEW c \in Closer, DeleteEnd(c) PROVE Uncut'
  BY <1>23 DEF DeleteEnd, Return, Goto, Read
<1>24. ASSUME NEW c \in Closer, NEW f \in File, DeleteRaw(c, f) PROVE Uncut'
  BY <1>24 DEF DeleteRaw
<1>25. ASSUME NEW r \in Mapper, MapScan(r) PROVE Uncut'
  BY <1>25 DEF MapScan, Goto, Read, ZstReadable
<1>26. ASSUME NEW r \in Mapper, MapCheck(r) PROVE Uncut'
  BY <1>26 DEF MapCheck, Goto, Return, Read
<1>27. ASSUME NEW r \in Mapper, MapWrite(r) PROVE Uncut'
  BY <1>27 DEF MapWrite, Return, Goto, Read
<1>28. ASSUME NEW p \in Proc, Kill(p) PROVE Uncut'
  BY <1>28 DEF Kill, EndJob, ReleaseRestore, Return, Goto, Read, Lost
<1>30. ASSUME NEW p \in Appender \cup Closer, FailRestore(p) PROVE Uncut'
  BY <1>30 DEF FailRestore, EndJob, ReleaseRestore, Return, Goto, Read, Lost
<1>29. ASSUME PowerLoss PROVE Uncut'
  BY <1>29 DEF PowerLoss, CutTar, CutZst, Lost
<1>. QED
  BY <1>1, <1>2, <1>3, <1>4, <1>5, <1>6, <1>7, <1>8, <1>9, <1>10, <1>11,
     <1>12, <1>13, <1>14, <1>15, <1>16, <1>17, <1>18, <1>19, <1>20, <1>21,
     <1>22, <1>23, <1>24, <1>25, <1>26, <1>27, <1>28, <1>29,
     <1>30 DEF Next

\* The inductive invariant of a day's files.
THEOREM DayArchiveInductive == Spec => []IInv
<1>1. IInv /\ [Next]_vars => IInv'
  <2>1. ASSUME IInv, UNCHANGED vars PROVE IInv'
    BY <2>1 DEF IInv, vars, rawVars, tarVars, zstVars, procVars, holders, faults,
       Typed, TypeOK, ProcOK, SealsOK, SealOK, MapOK, DocOK, Uncut, Sealed, NextId
  <2>. QED BY <2>1, TypedStep, SealStep, MapStep, UncutStep DEF IInv
<1>. QED BY <1>1, InitHolds, PTL DEF Spec

\* Type correctness of the day's state, for any files, workers and bounds.
THEOREM DayArchiveTypes == Spec => []TypeOK
<1>1. IInv => TypeOK
  BY DEF IInv, Typed
<1>. QED BY <1>1, DayArchiveInductive, PTL

\* write_sealed_member_map: however a rebuild, a seal and a kill interleave,
\* a map that counts lists exactly the members of the archive on disk.
THEOREM MapIsTruthful == Spec => []MapTruthful
<1>1. IInv => MapTruthful
  BY DEF IInv, MapOK, DocOK, MapTruthful, MapValid
<1>. QED BY <1>1, DayArchiveInductive, PTL

\* decompress_compressed_to_tar and _append_to_tar: until a power loss the
\* open tar holds every sealed member.
THEOREM TarCovers == Spec => []TarCoversSealed
<1>1. IInv => TarCoversSealed
  BY DEF IInv, Uncut, TarCoversSealed
<1>. QED BY <1>1, DayArchiveInductive, PTL

\* INV-COPY until a power loss, in a stronger form: the raw file is there
\* or the sealed archive holds it, the open tar is never the only copy.
THEOREM CopyKept == Spec => [](losses = 0 => InvCopy /\ made \subseteq raw \cup Sealed)
<1>1. IInv => (losses = 0 => InvCopy /\ made \subseteq raw \cup Sealed)
  BY DEF IInv, Uncut, InvCopy
<1>. QED BY <1>1, DayArchiveInductive, PTL

\* SealedKeepsMembers until a power loss: the guard of a seal compares counts and bytes
\* only, and what makes it safe is that the tar it seals holds every sealed member.
THEOREM SealsKeepMembers == Spec => [][losses' = 0 => Sealed \subseteq Sealed']_zst
<1>1. ASSUME IInv, [Next]_vars PROVE [losses' = 0 => Sealed \subseteq Sealed']_zst
  <2>. SUFFICES ASSUME losses' = 0, zst' # zst PROVE Sealed \subseteq Sealed'
    OBVIOUS
  <2>0. ~PowerLoss
    BY <1>1, DayBounds DEF PowerLoss, IInv, Typed, TypeOK
  <2>1. PICK c \in Closer : SealReplace(c)
    BY <1>1, <2>0 DEF Next, Arrive, HandOff, StartAppend, AppendFile, FailAppend, HaveTar, Decompress,
       FailRestore,
       InstallTar, Salvage, WantTar, VerifyRaw, MergeRead, MergeInstall, SealCheck, SealLock,
       SealMap, SealKeepTar, SealDropTar, DropCheck, DropTar, DeleteLookup, DeleteEnd, DeleteRaw,
       MapScan, MapCheck, MapWrite, Kill, vars, zstVars
  <2>2. tar # None /\ Sealed \subseteq tar /\ tar \in SUBSET File /\ NextId \in 1..MaxSeals
    <3>1. tar # None /\ NextId <= MaxSeals /\ TypeOK /\ Uncut /\ losses = 0
      BY <1>1, <2>1 DEF IInv, Typed, SealsOK, SealOK, SealReplace, Proc, faults
    <3>2. NextId \in 1..MaxSeals
      BY <3>1, ArchiveTypes, DayBounds DEF NextId
    <3>. QED BY <3>1, <3>2 DEF Uncut, TypeOK
  <2>3. zst' = [id |-> NextId, mem |-> tar]
    BY <2>1 DEF SealReplace
  <2>4. zst' # None /\ zst'.mem = tar
    <3>1. NextId \in 1..(MaxSeals + MaxLosses)
      BY <2>2, DayBounds
    <3>. QED BY <2>2, <2>3, <3>1, DocFields, NoneAssumption
  <2>. QED BY <2>2, <2>4 DEF Sealed
<1>. QED BY <1>1, DayArchiveInductive, PTL DEF Spec
=============================================================================
