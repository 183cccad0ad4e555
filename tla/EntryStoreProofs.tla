-------------------------- MODULE EntryStoreProofs ---------------------------
(***************************************************************************)
(* The write-behind entry store, for any processes, threads, keys and      *)
(* bounds: what was saved stays saved unless somebody removes it, and what *)
(* was removed stays removed until somebody sets it.                       *)
(***************************************************************************)
EXTENDS EntryStore, TLAPS

\* The I/O lock: its holder alone is between copy and adoption; the fields of a write
\* are empty before its copy.
WriteOK(p, t) ==
  /\ write[p][t].pc \in {"merge", "adopt"} <=> io[p] = t
  /\ write[p][t].pc \in {"none", "begin"} =>
       write[p][t].mine = {} /\ write[p][t].dead = {} /\ write[p][t].merged = {}
  /\ write[p][t].pc = "merge" => write[p][t].merged = {}

WritesOK == \A p \in Procs, t \in Threads : WriteOK(p, t)

\* A key that was saved and not removed since is in the file, and nothing is about to
\* take it out.
KeptOK == \A k \in kept : /\ k \in disk
                          /\ \A p \in Procs : k \notin tombstones[p]
                          /\ \A p \in Procs, t \in Threads : k \notin write[p][t].dead

\* A removed key is in no store, no copy, no merged document and not in the file.
GoneOK == \A k \in gone : /\ k \notin disk
                          /\ \A p \in Procs : k \notin entries[p]
                          /\ \A p \in Procs, t \in Threads : /\ k \notin write[p][t].mine
                                                             /\ k \notin write[p][t].merged

\* Key k, being removed by p, and the write of thread t, whoever called it: while the
\* tombstone stands nothing is adopted; it falls only with a write that has taken k out.
Leaving(p, t, k) ==
  LET w == write[p][t] IN
  /\ w.pc = "merge" => /\ k \in w.dead => k \notin w.mine
                       /\ k \in tombstones[p] \/ k \notin w.mine
  /\ w.pc = "adopt" => /\ k \in w.dead => k \notin disk
                       /\ k \in tombstones[p] \/ k \notin w.merged

\* Key k, which the call of thread t removes.
RemovingOK(p, t, k) ==
  /\ write[p][t].pc # "none" /\ loaded[p] /\ k \notin entries[p]
  /\ write[p][t].pc = "begin" => k \in tombstones[p] \/ k \notin disk
  /\ write[p][t].pc = "merge" => /\ k \notin write[p][t].mine
                                 /\ k \in write[p][t].dead \/ k \notin disk
  /\ write[p][t].pc = "adopt" => k \notin disk /\ k \notin write[p][t].merged
  /\ \A u \in Threads : u # t => Leaving(p, u, k)

RemovalsOK == \A p \in Procs, t \in Callers : \A k \in removing[p][t] : RemovingOK(p, t, k)

IInv == TypeOK /\ WritesOK /\ KeptOK /\ GoneOK /\ RemovalsOK

\* Threads are told apart, and nobody is none of them.
LEMMA ThreadsDiffer == /\ Writer \notin Callers /\ NoThread \notin Threads
                       /\ Writer \in Threads /\ Callers \subseteq Threads
BY EntryStoreAssumption DEF Threads

\* The record of a write.
WriteRecord == [pc : {"none", "begin", "merge", "adopt"}, mine : SUBSET Keys, dead : SUBSET Keys,
                merged : SUBSET Keys, gen : Nat]

\* An empty store satisfies the invariant.
LEMMA InitHolds == Init => IInv
<1> SUFFICES ASSUME Init PROVE IInv
  OBVIOUS
<1> USE ThreadsDiffer DEF Init, NoWrite
<1>1. TypeOK
  BY DEF TypeOK
<1>2. WritesOK
  BY DEF WritesOK, WriteOK
<1>3. KeptOK /\ GoneOK
  BY DEF KeptOK, GoneOK
<1>4. RemovalsOK
  BY DEF RemovalsOK
<1> QED
  BY <1>1, <1>2, <1>3, <1>4 DEF IInv

-----------------------------------------------------------------------------
(* Types *)

\* What a process sees is a set of keys.
LEMMA LiveType == ASSUME TypeOK, NEW p \in Procs PROVE Live(p) \in SUBSET Keys
BY DEF TypeOK, Live

WriteType == write \in [Procs -> [Threads -> WriteRecord]]

\* write'[p][t] is r, and nothing else of write changes.
WriteBecomes(p, t, r) ==
  \A q \in Procs, u \in Threads : write'[q][u] = IF q = p /\ u = t THEN r ELSE write[q][u]

\* The record of a write at each step of it.
Began(p, t) == [write[p][t] EXCEPT !.pc = "begin"]
Woken(p) == [write[p][Writer] EXCEPT !.pc = "begin", !.gen = gen[p]]
Copied(p, t) == [write[p][t] EXCEPT !.pc = "merge", !.mine = Live(p), !.dead = tombstones[p]]
Saved(p, t) == [write[p][t] EXCEPT !.pc = "adopt", !.merged = Merged(write[p][t])]

\* A record stays one.
LEMMA RecordUpdate ==
  ASSUME NEW r \in WriteRecord, NEW A \in SUBSET Keys, NEW B \in SUBSET Keys, NEW n \in Nat
  PROVE  /\ [r EXCEPT !.pc = "begin"] \in WriteRecord
         /\ [r EXCEPT !.pc = "begin", !.gen = n] \in WriteRecord
         /\ [r EXCEPT !.pc = "merge", !.mine = A, !.dead = B] \in WriteRecord
         /\ [r EXCEPT !.pc = "adopt", !.merged = A] \in WriteRecord
BY DEF WriteRecord

\* A thread's write is such a record.
LEMMA WriteAt ==
  ASSUME TypeOK
  PROVE  WriteType /\ \A p \in Procs, t \in Threads : write[p][t] \in WriteRecord
BY DEF TypeOK, WriteType, WriteRecord

\* Replacing one record.
LEMMA WriteUpdate ==
  ASSUME WriteType, NEW p \in Procs, NEW t \in Threads, NEW r \in WriteRecord,
         write' = [write EXCEPT ![p][t] = r]
  PROVE  WriteType' /\ WriteBecomes(p, t, r)
BY DEF WriteType, WriteBecomes

\* What the actions write.
LEMMA ThenWriteUpdate ==
  ASSUME TypeOK, NEW p \in Procs, NEW t \in Callers, ThenWrite(p, t)
  PROVE  WriteType' /\ WriteBecomes(p, t, Began(p, t))
<1>1. WriteType /\ Began(p, t) \in WriteRecord
  BY WriteAt, RecordUpdate, ThreadsDiffer DEF Began
<1>2. write' = [write EXCEPT ![p][t] = Began(p, t)]
  BY DEF ThenWrite, Began
<1> QED
  BY <1>1, <1>2, WriteUpdate, ThreadsDiffer

LEMMA WakesUpdate ==
  ASSUME TypeOK, NEW p \in Procs, WriterWakes(p)
  PROVE  WriteType' /\ WriteBecomes(p, Writer, Woken(p))
<1>1. WriteType /\ Woken(p) \in WriteRecord
  <2>1. gen[p] \in Nat
    BY DEF TypeOK
  <2> QED
    BY <2>1, WriteAt, RecordUpdate, ThreadsDiffer DEF Woken
<1>2. write' = [write EXCEPT ![p][Writer] = Woken(p)]
  BY DEF WriterWakes, Woken
<1> QED
  BY <1>1, <1>2, WriteUpdate, ThreadsDiffer

LEMMA BeginUpdate ==
  ASSUME TypeOK, NEW p \in Procs, NEW t \in Threads, WriteBegin(p, t)
  PROVE  WriteType' /\ WriteBecomes(p, t, Copied(p, t))
<1>1. WriteType /\ Copied(p, t) \in WriteRecord
  <2>1. tombstones[p] \in SUBSET Keys
    BY DEF TypeOK
  <2> QED
    BY <2>1, LiveType, WriteAt, RecordUpdate DEF Copied
<1>2. write' = [write EXCEPT ![p][t] = Copied(p, t)]
  BY DEF WriteBegin, Copied
<1> QED
  BY <1>1, <1>2, WriteUpdate

LEMMA SaveUpdate ==
  ASSUME TypeOK, NEW p \in Procs, NEW t \in Threads, WriteSave(p, t)
  PROVE  WriteType' /\ WriteBecomes(p, t, Saved(p, t))
<1>1. WriteType /\ Saved(p, t) \in WriteRecord
  <2>1. Merged(write[p][t]) \in SUBSET Keys
    BY WriteAt DEF TypeOK, WriteRecord, Merged
  <2> QED
    BY <2>1, WriteAt, RecordUpdate DEF Saved
<1>2. write' = [write EXCEPT ![p][t] = Saved(p, t)]
  BY DEF WriteSave, Saved
<1> QED
  BY <1>1, <1>2, WriteUpdate

LEMMA EndUpdate ==
  ASSUME TypeOK, NEW p \in Procs, NEW t \in Threads, WriteEnd(p, t) \/ WriteFails(p, t)
  PROVE  WriteType' /\ WriteBecomes(p, t, NoWrite)
<1>1. WriteType /\ NoWrite \in WriteRecord
  BY DEF TypeOK, WriteType, WriteRecord, NoWrite
<1>2. write' = [write EXCEPT ![p][t] = NoWrite]
  BY DEF WriteEnd, WriteFails
<1> QED
  BY <1>1, <1>2, WriteUpdate

LEMMA CrashUpdate ==
  ASSUME TypeOK, NEW p \in Procs, Crash(p), NEW q \in Procs, NEW u \in Threads
  PROVE  write'[q][u] = IF q = p THEN NoWrite ELSE write[q][u]
<1>1. write' = [write EXCEPT ![p] = [t \in Threads |-> NoWrite]]
  BY DEF Crash
<1> QED
  BY <1>1, WriteAt DEF WriteType

\* Every action keeps the types.
LEMMA TypeStep == TypeOK /\ [Next]_vars => TypeOK'
<1> SUFFICES ASSUME TypeOK, [Next]_vars PROVE TypeOK'
  OBVIOUS
<1> USE ThreadsDiffer, LiveType DEF storeVars, markVars, writeVars, historyVars, boundVars,
    SetEntries, NoWrite, Fault
<1>1. ASSUME NEW p \in Procs, NEW k \in Keys, Set(p, k) PROVE TypeOK'
  BY <1>1 DEF TypeOK, Set
<1>2. ASSUME NEW p \in Procs, MarkDirty(p) PROVE TypeOK'
  BY <1>2 DEF TypeOK, MarkDirty
<1>3. ASSUME NEW p \in Procs, NEW t \in Callers, NEW E \in SUBSET Keys, remove_if(p, t, E)
      PROVE  TypeOK'
  <2>1. WriteType'
    BY <1>3, ThenWriteUpdate DEF remove_if
  <2> QED
    <3>1. removing' \in [Procs -> [Callers -> SUBSET Keys]]
      BY <1>3 DEF TypeOK, remove_if
    <3>2. entries' \in [Procs -> SUBSET Keys] /\ loaded' \in [Procs -> BOOLEAN]
      BY <1>3 DEF TypeOK, remove_if
    <3>3. tombstones' \in [Procs -> SUBSET Keys]
      BY <1>3 DEF TypeOK, remove_if, Bury
    <3>4. removals' \in Nat
      BY <1>3 DEF TypeOK, remove_if, ThenWrite
    <3> HIDE DEF SetEntries
    <3> QED
      BY <1>3, <2>1, <3>1, <3>2, <3>3, <3>4 DEF TypeOK, WriteType, WriteRecord, remove_if
<1>4. ASSUME NEW p \in Procs, NEW t \in Callers, NEW E \in SUBSET Keys, replace_all(p, t, E)
      PROVE  TypeOK'
  <2>1. WriteType'
    BY <1>4, ThenWriteUpdate DEF replace_all
  <2> QED
    <3>1. removing' \in [Procs -> [Callers -> SUBSET Keys]]
      BY <1>4 DEF TypeOK, replace_all
    <3>2. entries' \in [Procs -> SUBSET Keys] /\ loaded' \in [Procs -> BOOLEAN]
      BY <1>4 DEF TypeOK, replace_all
    <3>3. tombstones' \in [Procs -> SUBSET Keys]
      BY <1>4 DEF TypeOK, replace_all, Bury
    <3>4. removals' \in Nat
      BY <1>4 DEF TypeOK, replace_all, ThenWrite
    <3> HIDE DEF SetEntries
    <3> QED
      BY <1>4, <2>1, <3>1, <3>2, <3>3, <3>4 DEF TypeOK, WriteType, WriteRecord, replace_all
<1>5. ASSUME NEW p \in Procs, WriterWakes(p) PROVE TypeOK'
  <2>1. WriteType'
    BY <1>5, WakesUpdate
  <2> QED
    BY <1>5, <2>1 DEF TypeOK, WriteType, WriteRecord, WriterWakes
<1>6. ASSUME NEW p \in Procs, NEW t \in Threads, WriteBegin(p, t) PROVE TypeOK'
  <2>1. WriteType'
    BY <1>6, BeginUpdate
  <2> QED
    BY <1>6, <2>1 DEF TypeOK, WriteType, WriteRecord, WriteBegin
<1>7. ASSUME NEW p \in Procs, NEW t \in Threads, WriteSave(p, t) PROVE TypeOK'
  <2>1. WriteType'
    BY <1>7, SaveUpdate
  <2> QED
    BY <1>7, <2>1 DEF TypeOK, WriteType, WriteRecord, WriteSave, Merged
<1>8. ASSUME NEW p \in Procs, NEW t \in Threads, WriteEnd(p, t) PROVE TypeOK'
  <2>1. WriteType'
    BY <1>8, EndUpdate
  <2> QED
    <3>1. removing' \in [Procs -> [Callers -> SUBSET Keys]]
      <4>1. \/ removing' = removing
            \/ t \in Callers /\ removing' = [removing EXCEPT ![p][t] = {}]
        BY <1>8 DEF WriteEnd, Threads
      <4>2. removing \in [Procs -> [Callers -> SUBSET Keys]]
        BY DEF TypeOK
      <4> QED
        BY <4>1, <4>2
    <3>2. dirty' \in [Procs -> BOOLEAN]
      BY <1>8 DEF TypeOK, WriteEnd, StillDirty
    <3>3. gone' \subseteq Keys
      <4>1. CASE t = Writer
        BY <1>8, <4>1 DEF TypeOK, WriteEnd
      <4>2. CASE t # Writer
        <5>1. removing[p][t] \subseteq Keys
          BY <4>2 DEF TypeOK, Threads
        <5>2. gone' \subseteq gone \cup removing[p][t]
          BY <1>8, <4>2 DEF WriteEnd
        <5> QED
          BY <5>1, <5>2 DEF TypeOK
      <4> QED
        BY <4>1, <4>2
    <3> QED
      BY <1>8, <2>1, <3>1, <3>2, <3>3 DEF TypeOK, WriteType, WriteRecord, WriteEnd, Adopted
<1>9. ASSUME NEW p \in Procs, NEW t \in Threads, WriteFails(p, t) PROVE TypeOK'
  <2>1. WriteType'
    BY <1>9, EndUpdate
  <2> QED
    <3>1. removing' \in [Procs -> [Callers -> SUBSET Keys]]
      BY <1>9 DEF TypeOK, WriteFails
    <3> QED
      BY <1>9, <2>1, <3>1 DEF TypeOK, WriteType, WriteRecord, WriteFails
<1>10. ASSUME NEW p \in Procs, Crash(p) PROVE TypeOK'
  BY <1>10 DEF TypeOK, Crash
<1>11. CASE UNCHANGED vars
  BY <1>11 DEF TypeOK, vars
<1> QED
  BY <1>1, <1>2, <1>3, <1>4, <1>5, <1>6, <1>7, <1>8, <1>9, <1>10, <1>11 DEF Next, Write

-----------------------------------------------------------------------------
(* The I/O lock *)

\* Every action keeps the lock discipline.
LEMMA WritesStep == TypeOK /\ WritesOK /\ [Next]_vars => WritesOK'
<1> SUFFICES ASSUME TypeOK, WritesOK, [Next]_vars PROVE WritesOK'
  OBVIOUS
<1>0. /\ \A q \in Procs, u \in Threads : write[q][u] \in WriteRecord
      /\ io \in [Procs -> Threads \cup {NoThread}]
  BY WriteAt DEF TypeOK
<1> USE <1>0, ThreadsDiffer DEF WritesOK, WriteOK
<1>1. CASE UNCHANGED <<io, write>>
  BY <1>1
<1>2. ASSUME NEW p \in Procs, NEW t \in Callers, ThenWrite(p, t), UNCHANGED io PROVE WritesOK'
  BY <1>2, ThenWriteUpdate DEF ThenWrite, WriteBecomes, Began, WriteRecord
<1>3. ASSUME NEW p \in Procs, WriterWakes(p) PROVE WritesOK'
  <2>1. write[p][Writer].pc = "none" /\ UNCHANGED io
    BY <1>3 DEF WriterWakes
  <2>2. /\ Woken(p).pc = "begin" /\ Woken(p).mine = write[p][Writer].mine
        /\ Woken(p).dead = write[p][Writer].dead /\ Woken(p).merged = write[p][Writer].merged
    BY DEF Woken, WriteRecord
  <2> QED
    BY <1>3, <2>1, <2>2, WakesUpdate DEF WriteBecomes
<1>4. ASSUME NEW p \in Procs, NEW t \in Threads, WriteBegin(p, t) PROVE WritesOK'
  <2> SUFFICES ASSUME NEW q \in Procs, NEW u \in Threads PROVE WriteOK(q, u)'
    BY DEF WritesOK
  <2>1. /\ io[p] = NoThread /\ io' = [io EXCEPT ![p] = t]
        /\ write[p][t].pc = "begin" /\ write[p][t].merged = {}
    BY <1>4 DEF WriteBegin
  <2>2. write'[q][u] = IF q = p /\ u = t THEN Copied(p, t) ELSE write[q][u]
    BY <1>4, BeginUpdate DEF WriteBecomes
  <2>3. Copied(p, t).pc = "merge" /\ Copied(p, t).merged = write[p][t].merged
    BY DEF Copied, WriteRecord
  <2> QED
    BY <2>1, <2>2, <2>3
<1>5. ASSUME NEW p \in Procs, NEW t \in Threads, WriteSave(p, t) PROVE WritesOK'
  <2> SUFFICES ASSUME NEW q \in Procs, NEW u \in Threads PROVE WriteOK(q, u)'
    BY DEF WritesOK
  <2>1. io' = io /\ write[p][t].pc = "merge"
    BY <1>5 DEF WriteSave
  <2>2. write'[q][u] = IF q = p /\ u = t THEN Saved(p, t) ELSE write[q][u]
    BY <1>5, SaveUpdate DEF WriteBecomes
  <2>3. Saved(p, t).pc = "adopt"
    BY DEF Saved, WriteRecord
  <2> QED
    BY <2>1, <2>2, <2>3
<1>6. ASSUME NEW p \in Procs, NEW t \in Threads, WriteEnd(p, t) \/ WriteFails(p,
             t) PROVE WritesOK'
  <2> SUFFICES ASSUME NEW q \in Procs, NEW u \in Threads PROVE WriteOK(q, u)'
    BY DEF WritesOK
  <2>1. io' = [io EXCEPT ![p] = NoThread] /\ io[p] = t
    BY <1>6 DEF WriteEnd, WriteFails
  <2>2. write'[q][u] = IF q = p /\ u = t THEN NoWrite ELSE write[q][u]
    BY <1>6, EndUpdate DEF WriteBecomes
  <2> QED
    BY <2>1, <2>2 DEF NoWrite
<1>7. ASSUME NEW p \in Procs, Crash(p) PROVE WritesOK'
  BY <1>7, WriteAt DEF Crash, NoWrite, WriteType
<1> QED
  BY <1>1, <1>2, <1>3, <1>4, <1>5, <1>6, <1>7 DEF Next, Write, vars, writeVars, Set, MarkDirty,
    remove_if, replace_all

-----------------------------------------------------------------------------
(* What was saved *)

\* Every action keeps what was saved: who takes a key out has marked it first.
LEMMA KeptStep == TypeOK /\ WritesOK /\ KeptOK /\ [Next]_vars => KeptOK'
<1> SUFFICES ASSUME TypeOK, WritesOK, KeptOK, [Next]_vars PROVE KeptOK'
  OBVIOUS
<1>0. /\ \A q \in Procs, u \in Threads : write[q][u] \in WriteRecord
      /\ tombstones \in [Procs -> SUBSET Keys]
  BY WriteAt DEF TypeOK
<1> USE <1>0, ThreadsDiffer DEF KeptOK
<1>1. ASSUME NEW p \in Procs, NEW k \in Keys, Set(p, k) PROVE KeptOK'
  BY <1>1 DEF Set, writeVars
<1>2. ASSUME NEW p \in Procs, NEW t \in Callers, NEW doomed, ThenWrite(p, t), Bury(p, doomed),
             kept' = kept \ doomed, UNCHANGED disk
      PROVE  KeptOK'
  <2>1. Began(p, t).dead = write[p][t].dead
    BY DEF Began, WriteRecord
  <2>2. \A q \in Procs, u \in Threads : write'[q][u].dead = write[q][u].dead
    BY <1>2, <2>1, ThenWriteUpdate DEF WriteBecomes
  <2>3. \A q \in Procs : tombstones'[q] \subseteq tombstones[q] \cup doomed
    BY <1>2 DEF Bury
  <2> QED
    BY <1>2, <2>2, <2>3
<1>3. ASSUME NEW p \in Procs, WriterWakes(p) PROVE KeptOK'
  <2>1. UNCHANGED <<disk, kept, tombstones>>
    BY <1>3 DEF WriterWakes, storeVars, historyVars
  <2>2. Woken(p).dead = write[p][Writer].dead
    BY DEF Woken, WriteRecord
  <2> QED
    BY <1>3, <2>1, <2>2, WakesUpdate DEF WriteBecomes
<1>4. ASSUME NEW p \in Procs, NEW t \in Threads, WriteBegin(p, t) PROVE KeptOK'
  <2>1. UNCHANGED <<disk, kept, tombstones>>
    BY <1>4 DEF WriteBegin, historyVars
  <2>2. Copied(p, t).dead = tombstones[p]
    BY DEF Copied, WriteRecord
  <2> QED
    BY <1>4, <2>1, <2>2, BeginUpdate DEF WriteBecomes
<1>5. ASSUME NEW p \in Procs, NEW t \in Threads, WriteSave(p, t) PROVE KeptOK'
  <2> DEFINE w == write[p][t]
  <2>1. /\ disk' = (disk \ w.dead) \cup w.mine
        /\ kept' = kept \cup (w.mine \ BeingRemoved)
        /\ UNCHANGED tombstones
    BY <1>5 DEF WriteSave, Merged, storeVars
  <2>2. Saved(p, t).dead = w.dead
    BY DEF Saved, WriteRecord
  <2>3. \A q \in Procs, u \in Threads : write'[q][u].dead = write[q][u].dead
    BY <1>5, <2>2, SaveUpdate DEF WriteBecomes
  <2>4. \A k \in w.mine \ BeingRemoved :
          /\ \A q \in Procs : k \notin tombstones[q]
          /\ \A q \in Procs, u \in Threads : k \notin write[q][u].dead
    BY DEF BeingRemoved
  <2> QED
    BY <2>1, <2>3, <2>4
<1>6. ASSUME NEW p \in Procs, NEW t \in Threads, WriteEnd(p, t) \/ WriteFails(p, t) PROVE KeptOK'
  <2>1. UNCHANGED <<disk, kept>>
    BY <1>6 DEF WriteEnd, WriteFails, historyVars
  <2>2. \A q \in Procs : tombstones'[q] \subseteq tombstones[q]
    BY <1>6 DEF WriteEnd, WriteFails, storeVars
  <2>3. \A q \in Procs, u \in Threads : write'[q][u].dead \subseteq write[q][u].dead
    BY <1>6, EndUpdate DEF WriteBecomes, NoWrite
  <2> QED
    BY <2>1, <2>2, <2>3
<1>7. ASSUME NEW p \in Procs, Crash(p) PROVE KeptOK'
  <2>1. UNCHANGED <<disk, kept>> /\ \A q \in Procs : tombstones'[q] \subseteq tombstones[q]
    BY <1>7 DEF Crash
  <2>2. \A q \in Procs, u \in Threads : write'[q][u] \in {write[q][u], NoWrite}
    BY <1>7, CrashUpdate
  <2> QED
    BY <2>1, <2>2 DEF NoWrite
<1>8. CASE UNCHANGED <<disk, kept, tombstones, write>>
  BY <1>8
<1> QED
  BY <1>1, <1>2, <1>3, <1>4, <1>5, <1>6, <1>7, <1>8 DEF Next, Write, vars, storeVars, writeVars,
    historyVars, MarkDirty, remove_if, replace_all

-----------------------------------------------------------------------------
(* What was removed *)

\* The fields of the records the actions write.
LEMMA RecordFields ==
  ASSUME TypeOK, NEW p \in Procs, NEW t \in Threads
  PROVE  /\ Began(p, t).pc = "begin" /\ Began(p, t).mine = write[p][t].mine
         /\ Began(p, t).merged = write[p][t].merged
         /\ Woken(p).pc = "begin" /\ Woken(p).mine = write[p][Writer].mine
         /\ Woken(p).merged = write[p][Writer].merged
         /\ Copied(p, t).pc = "merge" /\ Copied(p, t).mine = Live(p)
         /\ Copied(p, t).dead = tombstones[p] /\ Copied(p, t).merged = write[p][t].merged
         /\ Saved(p, t).pc = "adopt" /\ Saved(p, t).mine = write[p][t].mine
         /\ Saved(p, t).dead = write[p][t].dead /\ Saved(p, t).merged = Merged(write[p][t])
BY WriteAt, ThreadsDiffer DEF WriteRecord, Began, Woken, Copied, Saved

\* What a removal in progress rests on: as long as its own write stays where it is, no
\* other write gets past its copy, and neither its tombstone falls nor k comes back.
LEMMA RemovingFrame ==
  ASSUME NEW q \in Procs, NEW u \in Callers, NEW k, RemovingOK(q, u, k),
         write'[q][u] = write[q][u],
         \A v \in Threads : v # u => \/ write'[q][v] = write[q][v]
                                     \/ write'[q][v].pc \in {"none", "begin"},
         loaded'[q], k \notin entries'[q],
         k \in tombstones[q] => k \in tombstones'[q],
         k \in disk' => k \in disk
  PROVE  RemovingOK(q, u, k)'
BY DEF RemovingOK, Leaving

\* Every action keeps what is known of the keys being removed.
LEMMA RemovalsStep == TypeOK /\ WritesOK /\ RemovalsOK /\ [Next]_vars => RemovalsOK'
<1> SUFFICES ASSUME TypeOK, WritesOK, RemovalsOK, [Next]_vars,
                    NEW q \in Procs, NEW u \in Callers, NEW k \in removing'[q][u]
             PROVE  RemovingOK(q, u, k)'
  BY DEF RemovalsOK
<1> USE ThreadsDiffer
<1>0. /\ loaded \in [Procs -> BOOLEAN] /\ entries \in [Procs -> SUBSET Keys]
      /\ tombstones \in [Procs -> SUBSET Keys] /\ io \in [Procs -> Threads \cup {NoThread}]
      /\ removing \in [Procs -> [Callers -> SUBSET Keys]]
  BY DEF TypeOK
<1>1. ASSUME NEW p \in Procs, NEW x \in Keys, Set(p, x) PROVE RemovingOK(q, u, k)'
  <2>1. k \in removing[q][u] /\ k # x /\ UNCHANGED <<write, disk>>
    BY <1>0, <1>1 DEF Set, writeVars
  <2>2. RemovingOK(q, u, k)
    BY <2>1 DEF RemovalsOK
  <2>3. loaded[q] /\ k \notin entries[q]
    BY <2>2 DEF RemovingOK
  <2>4. /\ loaded'[q] /\ k \notin entries'[q]
        /\ k \in tombstones[q] => k \in tombstones'[q]
    BY <1>0, <1>1, <2>1, <2>3 DEF Set, SetEntries, Live
  <2> QED
    BY <2>1, <2>2, <2>4, RemovingFrame
<1>2. CASE UNCHANGED <<disk, storeVars, write, removing>>
  BY <1>2 DEF RemovalsOK, RemovingOK, Leaving, storeVars
<1>3. ASSUME NEW p \in Procs, NEW t \in Callers, NEW E, NEW doomed, ThenWrite(p, t),
             SetEntries(p, E), Bury(p, doomed), E \cap doomed = {}, UNCHANGED disk,
             q = p /\ u = t => k \in doomed \ BeingTakenOut(p),
             ~(q = p /\ u = t) => k \in removing[q][u],
             q = p /\ u # t => k \notin E
      PROVE  RemovingOK(q, u, k)'
  <2>1. \A r \in Procs, v \in Threads :
          write'[r][v] = IF r = p /\ v = t THEN Began(p, t) ELSE write[r][v]
    BY <1>3, ThenWriteUpdate DEF WriteBecomes
  <2>2. Began(p, t).pc = "begin"
    BY RecordFields
  <2>3. /\ entries' = [entries EXCEPT ![p] = E] /\ loaded' = [loaded EXCEPT ![p] = TRUE]
        /\ tombstones' = [tombstones EXCEPT ![p] = @ \cup doomed]
    BY <1>3 DEF SetEntries, Bury
  <2>4. CASE q = p /\ u = t
    <3>1. k \in doomed /\ \A v \in Threads : k \notin write[p][v].dead
      BY <1>3, <2>4 DEF BeingTakenOut
    <3>2. k \in tombstones'[p] /\ k \notin entries'[p] /\ loaded'[p]
      BY <1>0, <1>3, <2>3, <3>1
    <3>3. write'[p][t].pc = "begin" /\ \A v \in Threads : v # t => write'[p][v] = write[p][v]
      BY <2>1, <2>2
    <3> QED
      BY <2>4, <3>1, <3>2, <3>3 DEF RemovingOK, Leaving
  <2>5. CASE ~(q = p /\ u = t)
    <3>1. RemovingOK(q, u, k)
      BY <1>3, <2>5 DEF RemovalsOK
    <3>2. loaded[q] /\ k \notin entries[q]
      BY <3>1 DEF RemovingOK
    <3>3. /\ loaded'[q] /\ k \notin entries'[q]
          /\ k \in tombstones[q] => k \in tombstones'[q]
      BY <1>0, <1>3, <2>3, <2>5, <3>2
    <3>4. /\ write'[q][u] = write[q][u]
          /\ \A v \in Threads : v # u => \/ write'[q][v] = write[q][v]
                                         \/ write'[q][v].pc \in {"none", "begin"}
      BY <2>1, <2>2, <2>5
    <3> QED
      BY <1>3, <3>1, <3>3, <3>4, RemovingFrame
  <2> QED
    BY <2>4, <2>5
<1>4. ASSUME NEW p \in Procs, NEW t \in Callers, NEW E \in SUBSET Keys, remove_if(p, t, E)
      PROVE  RemovingOK(q, u, k)'
  <2>1. /\ ThenWrite(p, t) /\ SetEntries(p, Live(p) \ E) /\ Bury(p, E) /\ UNCHANGED disk
        /\ removing' = [removing EXCEPT ![p][t] = E \ BeingTakenOut(p)]
    BY <1>4 DEF remove_if
  <2>2. /\ q = p /\ u = t => k \in E \ BeingTakenOut(p)
        /\ ~(q = p /\ u = t) => k \in removing[q][u]
    BY <1>0, <2>1
  <2>3. q = p /\ u # t => k \notin Live(p)
    BY <2>2 DEF RemovalsOK, RemovingOK, Live
  <2> QED
    BY <1>3, <2>1, <2>2, <2>3
<1>5. ASSUME NEW p \in Procs, NEW t \in Callers, NEW E \in SUBSET Keys, replace_all(p, t, E)
      PROVE  RemovingOK(q, u, k)'
  <2> DEFINE doomed == Live(p) \ E
  <2>1. /\ ThenWrite(p, t) /\ SetEntries(p, E) /\ Bury(p, doomed) /\ UNCHANGED disk
        /\ removing'[q][u] = IF q = p /\ u = t THEN doomed \ BeingTakenOut(p)
                                               ELSE removing[q][u] \ E
    BY <1>5 DEF replace_all
  <2> QED
    BY <1>3, <2>1
<1>6. ASSUME NEW p \in Procs, WriterWakes(p) PROVE RemovingOK(q, u, k)'
  <2>1. UNCHANGED <<disk, loaded, entries, tombstones, removing>>
    BY <1>6 DEF WriterWakes, storeVars
  <2>2. RemovingOK(q, u, k)
    BY <2>1 DEF RemovalsOK
  <2>3. /\ write'[q][u] = write[q][u]
        /\ \A v \in Threads : v # u => \/ write'[q][v] = write[q][v]
                                       \/ write'[q][v].pc \in {"none", "begin"}
    BY <1>6, WakesUpdate, RecordFields DEF WriteBecomes
  <2>4. loaded'[q] /\ k \notin entries'[q]
    BY <2>1, <2>2 DEF RemovingOK
  <2> QED
    BY <2>1, <2>2, <2>3, <2>4, RemovingFrame
<1>7. ASSUME NEW p \in Procs, NEW t \in Threads, WriteBegin(p, t) PROVE RemovingOK(q, u, k)'
  <2>1. /\ UNCHANGED <<disk, tombstones, removing>> /\ io[p] = NoThread
        /\ write[p][t].pc = "begin" /\ SetEntries(p, Live(p))
    BY <1>7 DEF WriteBegin
  <2>2. RemovingOK(q, u, k)
    BY <2>1 DEF RemovalsOK
  <2>3. loaded'[q] /\ k \notin entries'[q] /\ (q = p => k \notin Live(p))
    BY <1>0, <2>1, <2>2 DEF RemovingOK, SetEntries, Live
  <2>4. \A v \in Threads : write'[q][v] = IF q = p /\ v = t THEN Copied(p, t) ELSE write[q][v]
    BY <1>7, BeginUpdate DEF WriteBecomes
  <2>5. CASE q # p
    BY <2>1, <2>2, <2>3, <2>4, <2>5, RemovingFrame
  <2>6. CASE q = p
    <3>1. \A v \in Threads : write[p][v].pc \notin {"merge", "adopt"}
      BY <2>1 DEF WritesOK, WriteOK
    <3>2. /\ Copied(p, t).pc = "merge" /\ k \notin Copied(p, t).mine
          /\ Copied(p, t).dead = tombstones[p]
      BY <2>3, <2>6, RecordFields
    <3>3. \A v \in Threads : Leaving(p, v, k)'
      BY <2>1, <2>4, <2>6, <3>1, <3>2 DEF Leaving
    <3>4. CASE u = t
      BY <2>1, <2>2, <2>3, <2>4, <2>6, <3>2, <3>3, <3>4 DEF RemovingOK
    <3>5. CASE u # t
      BY <2>1, <2>2, <2>3, <2>4, <2>6, <3>3, <3>5 DEF RemovingOK
    <3> QED
      BY <3>4, <3>5
  <2> QED
    BY <2>5, <2>6
<1>8. ASSUME NEW p \in Procs, NEW t \in Threads, WriteSave(p, t) PROVE RemovingOK(q, u, k)'
  <2> DEFINE w == write[p][t]
  <2>1. /\ UNCHANGED <<loaded, entries, tombstones, io>> /\ w.pc = "merge"
        /\ disk' = (disk \ w.dead) \cup w.mine
        /\ removing'[q][u] = IF q = p THEN removing[q][u] ELSE removing[q][u] \ w.mine
    BY <1>8 DEF WriteSave, Merged, storeVars
  <2>2. RemovingOK(q, u, k)
    BY <2>1 DEF RemovalsOK
  <2>3. loaded'[q] /\ k \notin entries'[q]
    BY <2>1, <2>2 DEF RemovingOK
  <2>4. \A v \in Threads : write'[q][v] = IF q = p /\ v = t THEN Saved(p, t) ELSE write[q][v]
    BY <1>8, SaveUpdate DEF WriteBecomes
  <2>5. CASE q # p
    BY <2>1, <2>2, <2>3, <2>4, <2>5, RemovingFrame
  <2>6. CASE q = p
    <3>1. \A v \in Threads : v # t => write[p][v].pc \notin {"merge", "adopt"}
      BY <2>1 DEF WritesOK, WriteOK
    <3>2. /\ Saved(p, t).pc = "adopt" /\ Saved(p, t).dead = w.dead /\ Saved(p, t).merged = disk'
      BY <2>1, RecordFields DEF Merged
    <3>3. CASE u = t
      <4>1. k \notin disk'
        BY <2>1, <2>2, <2>6, <3>3 DEF RemovingOK
      <4> QED
        BY <2>1, <2>2, <2>3, <2>4, <2>6, <3>1, <3>2, <3>3, <4>1 DEF RemovingOK, Leaving
    <3>4. CASE u # t
      <4>1. /\ k \in w.dead => k \notin w.mine
            /\ k \in tombstones[p] \/ k \notin w.mine
            /\ k \in tombstones[p] \/ k \notin disk
        BY <2>1, <2>2, <2>6, <3>1, <3>4 DEF RemovingOK, Leaving, TypeOK
      <4>2. /\ k \in w.dead => k \notin disk'
            /\ k \in tombstones[p] \/ k \notin disk'
        BY <2>1, <4>1
      <4> QED
        BY <2>1, <2>2, <2>3, <2>4, <2>6, <3>1, <3>2, <3>4, <4>2 DEF RemovingOK, Leaving
    <3> QED
      BY <3>3, <3>4
  <2> QED
    BY <2>5, <2>6
<1>9. ASSUME NEW p \in Procs, NEW t \in Threads, WriteEnd(p, t) \/ WriteFails(p, t)
      PROVE  k \in removing[q][u] /\ ~(q = p /\ u = t) /\ UNCHANGED disk
  <2>1. UNCHANGED disk
    BY <1>9 DEF WriteEnd, WriteFails
  <2>2. CASE t = Writer
    BY <1>9, <2>1, <2>2 DEF WriteEnd, WriteFails
  <2>3. CASE t # Writer
    <3>1. removing' = [removing EXCEPT ![p][t] = {}] /\ t \in Callers
      BY <1>9, <2>3 DEF WriteEnd, WriteFails, Threads
    <3> QED
      BY <1>0, <2>1, <3>1
  <2> QED
    BY <2>2, <2>3
<1>10. ASSUME NEW p \in Procs, NEW t \in Threads, WriteEnd(p, t) PROVE RemovingOK(q, u, k)'
  <2> DEFINE w == write[p][t]
  <2>1. /\ SetEntries(p, Adopted(p, w)) /\ tombstones' = [tombstones EXCEPT ![p] = @ \ w.dead]
        /\ w.pc = "adopt"
    BY <1>10 DEF WriteEnd
  <2>2. RemovingOK(q, u, k)
    BY <1>9, <1>10 DEF RemovalsOK
  <2>3. \A v \in Threads : write'[q][v] = IF q = p /\ v = t THEN NoWrite ELSE write[q][v]
    BY <1>10, EndUpdate DEF WriteBecomes
  <2>4. CASE q # p
    <3>1. /\ loaded'[q] = loaded[q] /\ entries'[q] = entries[q]
          /\ tombstones'[q] = tombstones[q]
      BY <1>0, <2>1, <2>4 DEF SetEntries
    <3>2. loaded'[q] /\ k \notin entries'[q]
      BY <2>2, <3>1 DEF RemovingOK
    <3>3. \A v \in Threads : write'[q][v] = write[q][v]
      BY <2>3, <2>4
    <3>4. UNCHANGED disk
      BY <1>9, <1>10
    <3> QED
      BY <2>2, <3>1, <3>2, <3>3, <3>4, RemovingFrame
  <2>5. CASE q = p
    <3>1. u # t /\ \A v \in Threads : v # t => write[p][v].pc \notin {"merge", "adopt"}
      BY <1>9, <1>10, <2>1, <2>5 DEF WritesOK, WriteOK
    <3>2. /\ k \in w.dead => k \notin disk
          /\ k \in tombstones[p] \/ k \notin w.merged
          /\ k \in tombstones[p] \/ k \notin disk
      BY <2>1, <2>2, <2>5, <3>1 DEF RemovingOK, Leaving, TypeOK
    <3>3. loaded'[p] /\ k \notin entries'[p] /\ (k \in tombstones'[p] \/ k \notin disk')
      BY <1>0, <1>9, <1>10, <2>1, <2>2, <2>5, <3>2 DEF RemovingOK, SetEntries, Adopted
    <3> QED
      BY <1>9, <1>10, <2>2, <2>3, <2>5, <3>1, <3>3 DEF RemovingOK, Leaving, NoWrite
  <2> QED
    BY <2>4, <2>5
<1>11. ASSUME NEW p \in Procs, NEW t \in Threads, WriteFails(p, t) PROVE RemovingOK(q, u, k)'
  <2>1. UNCHANGED <<loaded, entries, tombstones>>
    BY <1>11 DEF WriteFails, storeVars
  <2>2. RemovingOK(q, u, k)
    BY <1>9, <1>11 DEF RemovalsOK
  <2>3. \A v \in Threads : write'[q][v] = IF q = p /\ v = t THEN NoWrite ELSE write[q][v]
    BY <1>11, EndUpdate DEF WriteBecomes
  <2>4. loaded'[q] /\ k \notin entries'[q]
    BY <2>1, <2>2 DEF RemovingOK
  <2> QED
    BY <1>9, <1>11, <2>1, <2>2, <2>3, <2>4, RemovingFrame DEF NoWrite
<1>12. ASSUME NEW p \in Procs, Crash(p) PROVE RemovingOK(q, u, k)'
  <2>1. /\ q # p /\ k \in removing[q][u] /\ UNCHANGED disk
        /\ loaded'[q] = loaded[q] /\ entries'[q] = entries[q] /\ tombstones'[q] = tombstones[q]
    BY <1>0, <1>12 DEF Crash
  <2>2. RemovingOK(q, u, k)
    BY <2>1 DEF RemovalsOK
  <2>3. \A v \in Threads : write'[q][v] = write[q][v]
    BY <1>12, <2>1, CrashUpdate
  <2>4. loaded'[q] /\ k \notin entries'[q]
    BY <2>1, <2>2 DEF RemovingOK
  <2> QED
    BY <2>1, <2>2, <2>3, <2>4, RemovingFrame
<1> QED
  BY <1>1, <1>2, <1>4, <1>5, <1>6, <1>7, <1>8, <1>10, <1>11, <1>12 DEF Next, Write, vars,
     writeVars,
    MarkDirty

\* Every action keeps what was removed out of the stores and the file.
LEMMA GoneStep == TypeOK /\ WritesOK /\ GoneOK /\ RemovalsOK /\ [Next]_vars => GoneOK'
<1> SUFFICES ASSUME TypeOK, WritesOK, GoneOK, RemovalsOK, [Next]_vars, NEW k \in gone'
             PROVE  /\ k \notin disk'
                    /\ \A q \in Procs : k \notin entries'[q]
                    /\ \A q \in Procs, u \in Threads : /\ k \notin write'[q][u].mine
                                                       /\ k \notin write'[q][u].merged
  BY DEF GoneOK
<1> DEFINE Out == /\ k \notin disk'
                  /\ \A q \in Procs : k \notin entries'[q]
                  /\ \A q \in Procs, u \in Threads : /\ k \notin write'[q][u].mine
                                                     /\ k \notin write'[q][u].merged
<1> USE ThreadsDiffer
<1>0. entries \in [Procs -> SUBSET Keys] /\ removing \in [Procs -> [Callers -> SUBSET Keys]]
  BY DEF TypeOK
<1>1. k \in gone => /\ k \notin disk
                    /\ \A q \in Procs : k \notin entries[q] /\ k \notin Live(q)
                    /\ \A q \in Procs, u \in Threads : /\ k \notin write[q][u].mine
                                                       /\ k \notin write[q][u].merged
  BY DEF GoneOK, Live
<1>2. ASSUME NEW p \in Procs, NEW x \in Keys, Set(p, x) PROVE Out
  <2>1. /\ k \in gone /\ k # x /\ UNCHANGED <<disk, write>>
        /\ entries' = [entries EXCEPT ![p] = Live(p) \cup {x}]
    BY <1>2 DEF Set, SetEntries, writeVars
  <2> QED
    BY <1>0, <1>1, <2>1
<1>3. ASSUME NEW p \in Procs, NEW t \in Callers, NEW E \in SUBSET Keys,
             remove_if(p, t, E) \/ replace_all(p, t, E)
      PROVE  Out
  <2>1. /\ k \in gone /\ UNCHANGED disk /\ ThenWrite(p, t)
        /\ \/ entries' = [entries EXCEPT ![p] = Live(p) \ E]
           \/ k \notin E /\ entries' = [entries EXCEPT ![p] = E]
    BY <1>3 DEF remove_if, replace_all, SetEntries
  <2>2. \A q \in Procs, u \in Threads :
          write'[q][u] = IF q = p /\ u = t THEN Began(p, t) ELSE write[q][u]
    BY <2>1, ThenWriteUpdate DEF WriteBecomes
  <2>3. \A q \in Procs : k \notin entries'[q]
    BY <1>0, <1>1, <2>1
  <2>4. \A q \in Procs, u \in Threads : k \notin write'[q][u].mine /\ k \notin write'[q][u].merged
    BY <1>1, <2>1, <2>2, RecordFields
  <2> QED
    BY <1>1, <2>1, <2>3, <2>4
<1>4. ASSUME NEW p \in Procs, WriterWakes(p) PROVE Out
  <2>1. k \in gone /\ UNCHANGED <<disk, entries>>
    BY <1>4 DEF WriterWakes, storeVars, historyVars
  <2> QED
    BY <1>1, <1>4, <2>1, WakesUpdate, RecordFields DEF WriteBecomes
<1>5. ASSUME NEW p \in Procs, NEW t \in Threads, WriteBegin(p, t) PROVE Out
  <2>1. k \in gone /\ UNCHANGED disk /\ entries' = [entries EXCEPT ![p] = Live(p)]
    BY <1>5 DEF WriteBegin, SetEntries, historyVars
  <2>2. \A q \in Procs : k \notin entries'[q]
    BY <1>0, <1>1, <2>1
  <2>3. \A q \in Procs, u \in Threads : k \notin write'[q][u].mine /\ k \notin write'[q][u].merged
    BY <1>1, <1>5, <2>1, BeginUpdate, RecordFields DEF WriteBecomes
  <2> QED
    BY <1>1, <2>1, <2>2, <2>3
<1>6. ASSUME NEW p \in Procs, NEW t \in Threads, WriteSave(p, t) PROVE Out
  <2>1. /\ k \in gone /\ UNCHANGED entries /\ disk' = Merged(write[p][t])
        /\ k \notin Merged(write[p][t])
    BY <1>1, <1>6 DEF WriteSave, Merged, storeVars
  <2> QED
    BY <1>1, <1>6, <2>1, SaveUpdate, RecordFields DEF WriteBecomes
<1>7. ASSUME NEW p \in Procs, NEW t \in Threads, WriteEnd(p, t) PROVE Out
  <2> DEFINE w == write[p][t]
  <2>1. /\ UNCHANGED disk /\ entries' = [entries EXCEPT ![p] = Adopted(p, w)] /\ w.pc = "adopt"
        /\ \/ k \in gone
           \/ t \in Callers /\ k \in removing[p][t] \ HeldElsewhere(p)
    BY <1>7 DEF WriteEnd, SetEntries, Threads
  <2>2. \A q \in Procs, u \in Threads :
          write'[q][u] = IF q = p /\ u = t THEN NoWrite ELSE write[q][u]
    BY <1>7, EndUpdate DEF WriteBecomes
  <2>3. CASE k \in gone
    <3>1. \A q \in Procs : k \notin entries'[q]
      BY <1>0, <1>1, <2>1, <2>3 DEF Adopted
    <3>2. \A q \in Procs, u \in Threads : k \notin write'[q][u].mine
          /\ k \notin write'[q][u].merged
      BY <1>1, <2>2, <2>3 DEF NoWrite
    <3> QED
      BY <1>1, <2>1, <2>3, <3>1, <3>2
  <2>4. CASE t \in Callers /\ k \in removing[p][t] \ HeldElsewhere(p)
    <3>1. RemovingOK(p, t, k)
      BY <2>4 DEF RemovalsOK
    <3>2. k \notin disk /\ k \notin w.merged /\ k \notin entries[p]
      BY <2>1, <3>1 DEF RemovingOK
    <3>3. \A q \in Procs \ {p} : /\ k \notin entries[q]
                                 /\ \A u \in Threads : k \notin write[q][u].mine \cup write[q][u].merged
      BY <2>4 DEF HeldElsewhere
    <3>4. \A u \in Threads : u # t => write[p][u].mine = {} /\ write[p][u].merged = {}
      <4> SUFFICES ASSUME NEW u \in Threads, u # t
                   PROVE  write[p][u].mine = {} /\ write[p][u].merged = {}
        OBVIOUS
      <4>1. WriteOK(p, u) /\ WriteOK(p, t)
        BY DEF WritesOK
      <4>2. write[p][u].pc \in {"none", "begin"}
        BY <2>1, <4>1, WriteAt DEF WriteOK, WriteRecord
      <4> QED
        BY <4>1, <4>2 DEF WriteOK
    <3>5. /\ k \notin disk'
          /\ \A q \in Procs : k \notin entries'[q]
      BY <1>0, <2>1, <3>2, <3>3 DEF Adopted
    <3>6. \A q \in Procs, u \in Threads : k \notin write'[q][u].mine
          /\ k \notin write'[q][u].merged
      BY <2>2, <3>3, <3>4 DEF NoWrite
    <3> QED
      BY <3>5, <3>6
  <2> QED
    BY <2>1, <2>3, <2>4
<1>8. ASSUME NEW p \in Procs, NEW t \in Threads, WriteFails(p, t) PROVE Out
  <2>1. k \in gone /\ UNCHANGED <<disk, entries>>
    BY <1>8 DEF WriteFails, storeVars, historyVars
  <2> QED
    BY <1>1, <1>8, <2>1, EndUpdate DEF WriteBecomes, NoWrite
<1>9. ASSUME NEW p \in Procs, Crash(p) PROVE Out
  <2>1. k \in gone /\ UNCHANGED disk /\ entries' = [entries EXCEPT ![p] = {}]
    BY <1>9 DEF Crash
  <2>2. \A q \in Procs : k \notin entries'[q]
    BY <1>0, <1>1, <2>1
  <2>3. \A q \in Procs, u \in Threads : k \notin write'[q][u].mine /\ k \notin write'[q][u].merged
    BY <1>1, <1>9, <2>1, CrashUpdate DEF NoWrite
  <2> QED
    BY <1>1, <2>1, <2>2, <2>3
<1>10. CASE UNCHANGED <<disk, entries, write, gone>>
  BY <1>1, <1>10
<1> QED
  BY <1>2, <1>3, <1>4, <1>5, <1>6, <1>7, <1>8, <1>9, <1>10 DEF Next, Write, vars, storeVars,
     writeVars,
    historyVars, MarkDirty

-----------------------------------------------------------------------------
(* Theorems *)

\* The invariant is inductive: every behaviour of the processes satisfies it.
THEOREM EntryStoreInductive == Spec => []IInv
<1>1. IInv /\ [Next]_vars => IInv'
  BY TypeStep, WritesStep, KeptStep, RemovalsStep, GoneStep DEF IInv
<1> QED
  BY InitHolds, <1>1, PTL DEF Spec

\* The file, the stores and the writes keep their types.
THEOREM EntryStoreTypes == Spec => []TypeOK
<1>1. IInv => TypeOK
  BY DEF IInv
<1> QED
  BY EntryStoreInductive, <1>1, PTL

\* Whatever the processes write at the same time, a key that was saved stays in the file
\* until some process removes it: _write merges with the file under its lock.
THEOREM SavedStays == Spec => []SavedStaysSaved
<1>1. IInv => SavedStaysSaved
  BY DEF IInv, KeptOK, SavedStaysSaved
<1> QED
  BY EntryStoreInductive, <1>1, PTL

\* A removal that has returned is not undone by a write under way, a failed save or a
\* crash, while no other process has a copy of the key.
THEOREM RemovedStays == Spec => []RemovedStaysRemoved
<1>1. IInv => RemovedStaysRemoved
  BY DEF IInv, GoneOK, RemovedStaysRemoved
<1> QED
  BY EntryStoreInductive, <1>1, PTL
=============================================================================
