-------------------------- MODULE TarAppendProofs --------------------------
(***************************************************************************)
(* The journalled append, for any members and bounds: a power loss takes   *)
(* at most the batch whose caller is not answered, and the append          *)
(* implements the atomic one.                                              *)
(***************************************************************************)
EXTENDS TarAppend, SequenceTheorems, TLAPS

-----------------------------------------------------------------------------
(* Sequences of cells.                                                     *)

\* A cut keeps the leading cells.
LEMMA CutFacts ==
  ASSUME NEW S, NEW s \in Seq(S), NEW n \in Nat, n <= Len(s)
  PROVE  /\ Cut(s, n) \in Seq(S) /\ Len(Cut(s, n)) = n
         /\ \A i \in 1..n : Cut(s, n)[i] = s[i]
<1>1. \A i \in 1..n : s[i] \in S
  BY LenProperties
<1> QED
  BY <1>1, SubSeqProperties DEF Cut

\* A cut at the end keeps all of them.
LEMMA CutAll ==
  ASSUME NEW S, NEW s \in Seq(S)
  PROVE  Cut(s, Len(s)) = s
BY SubSeqFull DEF Cut

\* A cut does not see what is behind it.
LEMMA CutAgrees ==
  ASSUME NEW S, NEW s \in Seq(S), NEW t \in Seq(S), NEW n \in Nat,
         n <= Len(s), n <= Len(t), \A i \in 1..n : s[i] = t[i]
  PROVE  Cut(s, n) = Cut(t, n)
<1>1. /\ Cut(s, n) \in Seq(S) /\ Len(Cut(s, n)) = n
      /\ \A i \in 1..n : Cut(s, n)[i] = s[i]
  BY CutFacts
<1>2. /\ Cut(t, n) \in Seq(S) /\ Len(Cut(t, n)) = n
      /\ \A i \in 1..n : Cut(t, n)[i] = t[i]
  BY CutFacts
<1> QED
  BY <1>1, <1>2, SeqEqual

\* The cells up to an old end and the batch behind it make the whole.
LEMMA CutAndBatch ==
  ASSUME NEW S, NEW s \in Seq(S), NEW n \in Nat, NEW b \in Seq(S),
         Len(s) = n + Len(b), \A i \in 1..Len(b) : s[n + i] = b[i]
  PROVE  s = Cut(s, n) \o b
<1>0. Len(b) \in Nat /\ n <= Len(s)
  BY LenProperties
<1>1. /\ Cut(s, n) \in Seq(S) /\ Len(Cut(s, n)) = n
      /\ \A i \in 1..n : Cut(s, n)[i] = s[i]
  BY <1>0, CutFacts
<1>2. /\ Cut(s, n) \o b \in Seq(S)
      /\ Len(Cut(s, n) \o b) = n + Len(b)
      /\ \A i \in 1..n + Len(b) :
           (Cut(s, n) \o b)[i] = IF i <= n THEN Cut(s, n)[i] ELSE b[i - n]
  BY <1>1, ConcatProperties
<1>3. \A i \in 1..Len(s) : s[i] = (Cut(s, n) \o b)[i]
  <2>1. SUFFICES ASSUME NEW i \in 1..n + Len(b) PROVE s[i] = (Cut(s, n) \o b)[i]
    BY <1>0
  <2>2. CASE i <= n
    BY <2>2, <1>0, <1>1, <1>2
  <2>3. CASE ~(i <= n)
    <3>1. i - n \in 1..Len(b) /\ n + (i - n) = i
      BY <2>3, <1>0
    <3> QED
      BY <2>3, <3>1, <1>0, <1>2
  <2> QED
    BY <2>2, <2>3
<1> QED
  BY <1>2, <1>3, SeqEqual

\* A cut between two sequences gives back the first.
LEMMA CutConcat ==
  ASSUME NEW S, NEW s \in Seq(S), NEW b \in Seq(S)
  PROVE  Cut(s \o b, Len(s)) = s
<1>1. /\ s \o b \in Seq(S) /\ Len(s \o b) = Len(s) + Len(b)
      /\ \A i \in 1..Len(s) + Len(b) : (s \o b)[i] = IF i <= Len(s) THEN s[i] ELSE b[i - Len(s)]
  BY ConcatProperties
<1>2. Len(s) \in Nat /\ Len(b) \in Nat
  BY LenProperties
<1>3. \A i \in 1..Len(s) : (s \o b)[i] = s[i]
  <2>1. SUFFICES ASSUME NEW i \in 1..Len(s) PROVE (s \o b)[i] = s[i]
    OBVIOUS
  <2>2. i \in 1..Len(s) + Len(b) /\ i <= Len(s)
    BY <1>2
  <2> QED
    BY <1>1, <2>2
<1>4. Cut(s \o b, Len(s)) = Cut(s, Len(s))
  <2>1. Len(s) <= Len(s \o b) /\ Len(s) <= Len(s)
    BY <1>1, <1>2
  <2> QED
    BY <1>1, <1>2, <1>3, <2>1, CutAgrees
<1> QED
  BY <1>4, CutAll

\* What is left of a sequence of members is one.
LEMMA PrefixMembers ==
  ASSUME NEW s \in Seq(Cell), NEW b \in Seq(Cell), s \o b \in Seq(Member)
  PROVE  s \in Seq(Member)
<1>1. Len(s) \in Nat /\ Len(s) <= Len(s \o b)
  BY ConcatProperties, LenProperties
<1>2. Cut(s \o b, Len(s)) \in Seq(Member)
  BY <1>1, CutFacts
<1> QED
  BY <1>2, CutConcat

\* Two parts whose members are members are a sequence of members.
LEMMA CellsAreMembers ==
  ASSUME NEW s \in Seq(Member), NEW b \in Seq(Member)
  PROVE  s \o b \in Seq(Member)
BY ConcatProperties

LEMMA ContentsAreSeqs ==
  /\ Contents \subseteq Seq(Member)
  /\ Contents \subseteq Seq(Cell)
  /\ Seq(Member) \subseteq Seq(Cell)
  /\ \A b \in Batches : b # << >> /\ b \in Contents
<1>1. \A b \in Batches : b \in Seq(Member) /\ Len(b) > 0
  <2>1. SUFFICES ASSUME NEW n \in 1..MaxCells, NEW b \in [1..n -> Member]
                 PROVE  b \in Seq(Member) /\ Len(b) > 0
    BY DEF Batches
  <2>2. n \in Nat /\ n > 0
    BY BoundAssumption
  <2> QED
    BY <2>2
<1>2. Seq(Member) \subseteq Seq(Cell)
  BY SeqMonotonic DEF Cell
<1>3. << >> \in Seq(Member)
  BY EmptySeq
<1>4. \A b \in Batches : b # << >>
  BY <1>1, EmptySeq
<1> QED
  BY <1>1, <1>2, <1>3, <1>4 DEF Contents

-----------------------------------------------------------------------------
(* The inductive invariant.                                                *)

\* A journal that was written for the file that is there.
Live(j) == j # NoJournal /\ j.ino = swaps

\* What recovery makes of the present file, beside the names of a directory state.
Fate(d) == IF ~d.hasTar THEN << >>
           ELSE IF Live(d.journal) THEN Cut(tar.cells, d.journal.end)
           ELSE tar.cells

Now == DirNow(tar, journal)
Whole == Recovered(tar, journal)

\* No power loss changes the file.
Solid == tar # NoTar => safe = Len(tar.cells) /\ high = Len(tar.cells)

FileOK == /\ tar # NoTar => /\ tar.ino = swaps
                            /\ safe <= Len(tar.cells) /\ Len(tar.cells) <= high
          /\ synced => Solid

\* A live journal speaks of cells that are synced.
JournalOK(j) ==
  j # NoJournal => /\ j.ino <= swaps
                   /\ j.ino = swaps => /\ tar # NoTar /\ j.end <= safe
                                       /\ j.hash = TailHash(tar.cells, j.end)

DirOK(d) == /\ d.hasTar => tar # NoTar
            /\ Live(d.journal) => d.hasTar
            /\ JournalOK(d.journal)
            /\ Fate(d) = Whole \/ (pend # << >> /\ Fate(d) \o pend = Whole)

DirsOK == Now \in dirs /\ \A d \in dirs : DirOK(d)

\* Unsynced content is covered by the one journal every power loss leaves.
Covered == IF Live(journal) THEN dirs = {Now} \/ (Solid /\ journal.end = Len(tar.cells))
           ELSE Solid

\* The batch as far as it is in the tar.
Written == \A i \in 1..wrote : tar.cells[end + i] = batch[i]

Journalled == Live(journal) /\ journal.end = end /\ dirs = {Now} /\ batch # << >>

StepOK ==
  /\ pc \in {"idle", "recover", "restore", "fsync", "open", "journal", "jsync", "truncate"}
       => wrote = 0
  /\ pc \in {"open", "journal", "dirsync"} => journal = NoJournal
  /\ pc \in {"open", "journal", "jsync"} => batch # << >>
  /\ pc \in {"restore", "fsync", "jsync"} => Live(journal)
  /\ pc \in {"journal", "jsync"} => tar # NoTar /\ end = Len(tar.cells)
  /\ pc \in {"restore", "jsync"} => journal.end = end
  /\ pc = "fsync" => journal.end = Len(tar.cells)
  /\ pc \in {"truncate", "header", "data", "commit"} => Journalled /\ Written
  /\ pc \in {"truncate", "header", "commit"} => Len(tar.cells) = end + wrote
  /\ pc = "header" => wrote <= Len(batch)
  /\ pc = "data" => Len(tar.cells) = end + wrote + 1 /\ wrote < Len(batch)
  /\ pc = "commit" => wrote = Len(batch)
  /\ pc = "unlink" /\ wrote = 0 /\ Live(journal) => journal.end = Len(tar.cells)
  /\ pc = "unlink" /\ wrote > 0 => /\ Journalled /\ Written /\ wrote = Len(batch)
                                   /\ Len(tar.cells) = end + wrote
  /\ pc = "unlink" => Solid

World == FileOK /\ DirsOK /\ Whole \in Seq(Member) /\ Covered

IInv == TypeOK /\ World /\ StepOK
-----------------------------------------------------------------------------
\* A step of the holder that touches no file.
LEMMA NoFileTouched ==
  ASSUME World, UNCHANGED <<fileVars, dirVars, pend, swaps>>
  PROVE  World'
<1>1. UNCHANGED <<tar, synced, safe, high, journal, dirs, pend, swaps>>
  BY DEF fileVars, dirVars
<1>2. FileOK' /\ Covered' /\ (Whole \in Seq(Member))'
  BY <1>1 DEF World, FileOK, Solid, Covered, Live, Now, DirNow, Whole, Recovered
<1>3. DirsOK'
  BY <1>1 DEF World, DirsOK, DirOK, JournalOK, Fate, Live, Now, DirNow, Whole, Recovered
<1> QED
  BY <1>2, <1>3 DEF World

\* A live journal is the one of the file that is there.
LEMMA LiveFacts ==
  ASSUME TypeOK, World, Live(journal)
  PROVE  /\ tar # NoTar /\ tar \in Tars /\ tar.ino = swaps /\ tar.cells \in Seq(Cell)
         /\ journal # NoJournal /\ journal \in Journals /\ journal.ino = swaps
         /\ journal.end \in Nat /\ journal.end <= safe
         /\ safe <= Len(tar.cells) /\ Len(tar.cells) <= high
         /\ Len(tar.cells) \in Nat /\ safe \in Nat /\ high \in Nat
         /\ journal.hash = TailHash(tar.cells, journal.end)
         /\ Matches(tar, journal)
         /\ Whole = Cut(tar.cells, journal.end)
<1>1. journal # NoJournal /\ journal \in Journals /\ journal.ino = swaps
  BY DEF Live, TypeOK
<1>2. DirOK(Now)
  BY Zenon DEF World, DirsOK
<1>3. JournalOK(journal)
  BY <1>2 DEF DirOK, Now, DirNow
<1>4. /\ tar # NoTar /\ journal.end <= safe
      /\ journal.hash = TailHash(tar.cells, journal.end)
  BY <1>1, <1>3 DEF JournalOK
<1>5. tar \in Tars /\ tar.cells \in Seq(Cell) /\ journal.end \in Nat
  BY <1>1, <1>4 DEF TypeOK, Tars, Journals
<1>6. tar.ino = swaps /\ safe <= Len(tar.cells) /\ Len(tar.cells) <= high
  BY <1>4 DEF World, FileOK
<1>7. Len(tar.cells) \in Nat /\ safe \in Nat /\ high \in Nat
  BY <1>5 DEF TypeOK
<1>8. Matches(tar, journal)
  BY <1>1, <1>4, <1>5, <1>6, <1>7 DEF Matches
<1>9. Whole = Cut(tar.cells, journal.end)
  BY <1>1, <1>4, <1>6 DEF Whole, Recovered
<1> QED
  BY <1>1, <1>4, <1>5, <1>6, <1>7, <1>8, <1>9

\* A journal that is not live says nothing of the file that is there.
LEMMA NotLiveFacts ==
  ASSUME TypeOK, World, ~Live(journal)
  PROVE  /\ ~Matches(tar, journal)
         /\ Solid
         /\ Whole = IF tar = NoTar THEN << >> ELSE tar.cells
<1>1. tar # NoTar => tar.ino = swaps
  BY DEF World, FileOK
<1> QED
  BY <1>1 DEF Live, Matches, World, Covered, Whole, Recovered

\* Behind the end of a live journal that every power loss leaves, the file may be changed.
LEMMA BehindJournal ==
  ASSUME TypeOK, World, Live(journal), dirs = {Now},
         UNCHANGED <<dirVars, pend, swaps>>,
         NEW c \in Seq(Cell), tar' = [tar EXCEPT !.cells = c], synced' = FALSE,
         journal.end <= Len(c), \A i \in 1..journal.end : c[i] = tar.cells[i],
         safe' \in Nat, high' \in Nat,
         journal.end <= safe', safe' <= Len(c), Len(c) <= high'
  PROVE  /\ World' /\ tar' \in Tars /\ tar' # NoTar /\ tar'.cells = c
         /\ Live(journal)' /\ (dirs = {Now})' /\ Whole' = Whole
<1>1. /\ tar # NoTar /\ tar \in Tars /\ tar.ino = swaps /\ tar.cells \in Seq(Cell)
      /\ journal # NoJournal /\ journal.ino = swaps /\ journal.end \in Nat
      /\ journal.end <= Len(tar.cells)
      /\ journal.hash = TailHash(tar.cells, journal.end)
      /\ Whole = Cut(tar.cells, journal.end)
  BY LiveFacts
<1>2. UNCHANGED <<journal, dirs, pend, swaps>>
  BY DEF dirVars
<1>3. tar' \in Tars /\ tar'.cells = c /\ tar'.ino = swaps
  BY <1>1 DEF Tars
<1>4. tar' # NoTar
  BY <1>3, NoneAssumption
<1>5. Live(journal)' /\ Now' = Now /\ (dirs = {Now})'
  BY <1>1, <1>2, <1>4 DEF Live, Now, DirNow
<1>6. TailHash(c, journal.end) = journal.hash
  <2>1. CASE journal.end = 0
    BY <1>1, <2>1 DEF TailHash
  <2>2. CASE journal.end # 0
    <3>1. journal.end \in 1..journal.end
      BY <1>1, <2>2
    <3>2. c[journal.end] = tar.cells[journal.end]
      BY <3>1
    <3> QED
      BY <1>1, <2>2, <3>2 DEF TailHash
  <2> QED
    BY <2>1, <2>2
<1>7. Cut(c, journal.end) = Whole
  BY <1>1, CutAgrees
<1>8. Whole' = Whole
  BY <1>1, <1>2, <1>3, <1>4, <1>7 DEF Whole, Recovered
<1>9. FileOK'
  BY <1>2, <1>3 DEF FileOK
<1>10. DirsOK'
  <2>1. Fate(Now)' = Whole'
    BY <1>2, <1>3, <1>4, <1>5, <1>7, <1>8 DEF Fate, Now, DirNow
  <2>2. JournalOK(journal)'
    <3>1. swaps \in Nat /\ swaps' = swaps
      BY <1>2, BoundAssumption DEF TypeOK
    <3> QED
      BY <1>1, <1>2, <1>3, <1>4, <1>6, <3>1 DEF JournalOK
  <2>3. DirOK(Now)'
    BY <1>4, <2>1, <2>2 DEF DirOK, Now, DirNow
  <2> QED
    BY <1>5, <2>3 DEF DirsOK
<1>11. (Whole \in Seq(Member))'
  BY <1>8 DEF World
<1> QED
  BY <1>3, <1>4, <1>5, <1>8, <1>9, <1>10, <1>11 DEF World, Covered

-----------------------------------------------------------------------------
\* The steps that touch no file.
LEMMA BeginStep == ASSUME IInv, NEW b \in Batches, Begin(b) PROVE IInv'
<1>1. UNCHANGED <<fileVars, dirVars, pend, swaps>>
  BY DEF Begin
<1>2. World'
  BY <1>1, NoFileTouched DEF IInv
<1>3. pc' = "recover" /\ batch' = b /\ wrote' = 0 /\ end' = 0 /\ b \in Contents
  BY ContentsAreSeqs DEF Begin
<1>4. TypeOK'
  BY <1>1, <1>3 DEF IInv, TypeOK, Steps, fileVars, dirVars
<1>5. StepOK'
  BY <1>3 DEF StepOK
<1> QED
  BY <1>2, <1>4, <1>5 DEF IInv

LEMMA RecoverOnlyStep == ASSUME IInv, RecoverOnly PROVE IInv'
<1>1. UNCHANGED <<fileVars, dirVars, pend, swaps>> /\ UNCHANGED <<batch, wrote, end>>
  BY DEF RecoverOnly
<1>2. World'
  BY <1>1, NoFileTouched DEF IInv
<1>3. pc = "idle" /\ pc' = "recover"
  BY DEF RecoverOnly
<1>4. TypeOK'
  BY <1>1, <1>3 DEF IInv, TypeOK, Steps, fileVars, dirVars
<1>5. StepOK'
  BY <1>1, <1>3 DEF StepOK, IInv
<1> QED
  BY <1>2, <1>4, <1>5 DEF IInv

LEMMA ReadJournalStep == ASSUME IInv, ReadJournal PROVE IInv'
<1>1. UNCHANGED <<tar, synced, safe, high, journal, dirs, pend, swaps>>
  BY DEF ReadJournal, fileVars, dirVars
<1>2. World'
  BY <1>1, NoFileTouched DEF IInv, fileVars, dirVars
<1>3. pc = "recover" /\ wrote = 0
  BY DEF ReadJournal, IInv, StepOK
<1>4. TypeOK /\ World
  BY DEF IInv
<1>5. CASE journal = NoJournal /\ Continue
  <2>1. CASE batch = << >>
    <3>1. pc' = "idle" /\ batch' = << >> /\ wrote' = 0 /\ end' = 0
      BY <1>5, <2>1 DEF Continue, Finish
    <3>2. TypeOK' /\ StepOK'
      BY <1>1, <1>4, <3>1 DEF TypeOK, Steps, StepOK, Contents
    <3> QED
      BY <1>2, <3>2 DEF IInv
  <2>2. CASE batch # << >>
    <3>1. pc' = "open" /\ UNCHANGED <<batch, wrote, end>>
      BY <1>3, <1>5, <2>2 DEF Continue, Goto
    <3>2. TypeOK' /\ StepOK'
      BY <1>1, <1>3, <1>4, <1>5, <2>2, <3>1 DEF TypeOK, Steps, StepOK
    <3> QED
      BY <1>2, <3>2 DEF IInv
  <2> QED
    BY <2>1, <2>2
<1>6. CASE Matches(tar, journal) /\ pc' = "restore" /\ end' = journal.end /\ UNCHANGED <<batch,
           wrote>>
  <2>1. Live(journal) /\ Live(journal)'
    BY <1>1, <1>4, <1>6, NotLiveFacts DEF Live
  <2>2. journal.end \in Nat
    BY <1>4, <2>1, LiveFacts
  <2>3. TypeOK' /\ StepOK'
    BY <1>1, <1>3, <1>4, <1>6, <2>1, <2>2 DEF TypeOK, Steps, StepOK
  <2> QED
    BY <1>2, <2>3 DEF IInv
<1>7. CASE journal # NoJournal /\ ~Matches(tar, journal) /\ Goto("unlink")
  <2>1. ~Live(journal) /\ ~Live(journal)'
    BY <1>1, <1>4, <1>7, LiveFacts DEF Live
  <2>2. Solid'
    BY <1>1, <1>4, <2>1, NotLiveFacts DEF Solid
  <2>3. TypeOK' /\ StepOK'
    BY <1>1, <1>3, <1>4, <1>7, <2>1, <2>2 DEF TypeOK, Steps, StepOK, Goto
  <2> QED
    BY <1>2, <2>3 DEF IInv
<1> QED
  BY <1>5, <1>6, <1>7 DEF ReadJournal

LEMMA OpenStep == ASSUME IInv, Open PROVE IInv'
<1>1. UNCHANGED <<tar, synced, safe, high, journal, dirs, pend, swaps>>
  BY DEF Open, fileVars, dirVars
<1>2. World'
  BY <1>1, NoFileTouched DEF IInv, fileVars, dirVars
<1>3. /\ pc = "open" /\ tar # NoTar /\ pc' = "journal" /\ end' = Len(tar.cells)
      /\ UNCHANGED <<batch, wrote>>
  BY DEF Open
<1>4. Len(tar.cells) \in Nat
  BY <1>3 DEF IInv, TypeOK, Tars
<1>5. TypeOK' /\ StepOK'
  BY <1>1, <1>3, <1>4 DEF IInv, TypeOK, Steps, StepOK
<1> QED
  BY <1>2, <1>5 DEF IInv

LEMMA RaiseStep == ASSUME IInv, Raise PROVE IInv'
<1>1. UNCHANGED <<tar, synced, safe, high, journal, dirs, pend, swaps>>
  BY DEF Raise, fileVars, dirVars
<1>2. World'
  BY <1>1, NoFileTouched DEF IInv, fileVars, dirVars
<1>3. pc' = "restore" /\ batch' = << >> /\ wrote' = 0 /\ end' = end
  BY DEF Raise
<1>4. Live(journal) /\ journal.end = end
  BY DEF Raise, IInv, StepOK, Journalled
<1>5. Live(journal)' /\ journal'.end = end'
  BY <1>1, <1>3, <1>4 DEF Live
<1>6. TypeOK' /\ StepOK'
  BY <1>1, <1>3, <1>5 DEF IInv, TypeOK, Steps, StepOK, Contents
<1> QED
  BY <1>2, <1>6 DEF IInv

LEMMA KillStep == ASSUME IInv, Kill PROVE IInv'
<1>1. UNCHANGED <<tar, synced, safe, high, journal, dirs, pend, swaps>>
  BY DEF Kill, fileVars, dirVars
<1>2. World'
  BY <1>1, NoFileTouched DEF IInv, fileVars, dirVars
<1>3. pc' = "idle" /\ batch' = << >> /\ wrote' = 0 /\ end' = 0
  BY DEF Kill, Finish
<1>4. TypeOK' /\ StepOK'
  BY <1>1, <1>3 DEF IInv, TypeOK, Steps, StepOK, Contents
<1> QED
  BY <1>2, <1>4 DEF IInv

-----------------------------------------------------------------------------
\* The steps that write to the tar or sync it.
LEMMA SameContent ==
  ASSUME TypeOK, World, UNCHANGED <<tar, dirVars, pend, swaps>>, tar # NoTar,
         safe' \in Nat, high' \in Nat, safe <= safe', safe' <= Len(tar.cells),
         Len(tar.cells) <= high', high' <= high, synced' => Solid'
  PROVE  World'
<1>1. UNCHANGED <<tar, journal, dirs, pend, swaps>>
  BY DEF dirVars
<1>2. /\ Len(tar.cells) \in Nat /\ safe \in Nat /\ high \in Nat
      /\ tar.ino = swaps
  BY DEF TypeOK, Tars, World, FileOK
<1>3. Solid => Solid'
  BY <1>1, <1>2 DEF Solid
<1>4. FileOK'
  BY <1>1, <1>2 DEF FileOK
<1>5. Now' = Now /\ Whole' = Whole /\ (Live(journal) <=> Live(journal)')
  BY <1>1 DEF Now, DirNow, Whole, Recovered, Live
<1>6. Covered'
  BY <1>1, <1>3, <1>5 DEF Covered, World
<1>7. ASSUME NEW d \in dirs PROVE DirOK(d)'
  <2>1. DirOK(d)
    BY DEF World, DirsOK
  <2>2. Fate(d)' = Fate(d)
    BY <1>1 DEF Fate, Live
  <2>3. JournalOK(d.journal)'
    <3>1. d.journal \in Journals \cup {NoJournal}
      BY DEF TypeOK, DirStates
    <3>2. JournalOK(d.journal)
      BY <2>1 DEF DirOK
    <3>3. d.journal # NoJournal => d.journal.end \in Nat
      BY <3>1 DEF Journals
    <3> QED
      BY <1>1, <1>2, <3>2, <3>3 DEF JournalOK
  <2> QED
    BY <1>1, <1>5, <2>1, <2>2, <2>3 DEF DirOK, Live
<1>8. DirsOK'
  BY <1>1, <1>5, <1>7 DEF DirsOK, World
<1> QED
  BY <1>4, <1>5, <1>6, <1>8 DEF World

LEMMA RestoreCutStep == ASSUME IInv, RestoreCut PROVE IInv' /\ Whole' = Whole
<1> DEFINE c == Cut(tar.cells, end)
<1>1. /\ pc = "restore" /\ pc' = "fsync" /\ UNCHANGED <<batch, wrote, end>>
      /\ UNCHANGED <<journal, dirs, pend, swaps>>
  BY DEF RestoreCut, Goto, dirVars
<1>2. /\ tar' = [tar EXCEPT !.cells = c] /\ synced' = FALSE
      /\ safe' = Min2(safe, Len(c))
      /\ high' = IF Len(c) > high THEN Len(c) ELSE high
  BY DEF RestoreCut, SetTar
<1>3. TypeOK /\ World /\ Live(journal) /\ journal.end = end /\ wrote = 0
  BY <1>1 DEF IInv, StepOK
<1>4. /\ tar # NoTar /\ tar \in Tars /\ tar.cells \in Seq(Cell)
      /\ end \in Nat /\ end <= safe /\ safe <= Len(tar.cells) /\ Len(tar.cells) <= high
      /\ Len(tar.cells) \in Nat /\ safe \in Nat /\ high \in Nat
  BY <1>3, LiveFacts
<1>5. c \in Seq(Cell) /\ Len(c) = end /\ \A i \in 1..end : c[i] = tar.cells[i]
  BY <1>4, CutFacts
<1> HIDE DEF c
<1>6. safe' = end /\ safe' \in Nat /\ high' = high
  BY <1>2, <1>4, <1>5 DEF Min2
<1>7. World' /\ tar' \in Tars /\ tar'.cells = c /\ Live(journal)' /\ Whole' = Whole
  <2>1. CASE dirs = {Now}
    <3>1. UNCHANGED <<dirVars, pend, swaps>>
      BY <1>1 DEF dirVars
    <3>2. /\ journal.end <= Len(c) /\ \A i \in 1..journal.end : c[i] = tar.cells[i]
          /\ journal.end <= safe' /\ safe' <= Len(c) /\ Len(c) <= high' /\ high' \in Nat
      BY <1>3, <1>4, <1>5, <1>6
    <3> QED
      BY <1>2, <1>3, <1>5, <1>6, <2>1, <3>1, <3>2, BehindJournal
  <2>2. CASE Solid /\ journal.end = Len(tar.cells)
    <3>1. c = tar.cells
      BY <1>3, <1>4, <2>2, CutAll DEF c
    <3>2. tar' = tar
      BY <1>2, <1>4, <3>1 DEF Tars
    <3>3. safe' = safe
      BY <1>3, <1>4, <1>6, <2>2
    <3>4. UNCHANGED <<tar, dirVars, pend, swaps>>
      BY <1>1, <3>2 DEF dirVars
    <3>5. World'
      BY <1>2, <1>3, <1>4, <1>6, <3>3, <3>4, SameContent
    <3> QED
      BY <1>1, <1>3, <1>4, <3>1, <3>2, <3>5 DEF Live, Whole, Recovered
  <2> QED
    BY <1>3, <2>1, <2>2 DEF World, Covered
<1>8. TypeOK'
  BY <1>1, <1>2, <1>3, <1>4, <1>6, <1>7 DEF TypeOK, Steps
<1>9. StepOK'
  BY <1>1, <1>3, <1>5, <1>7 DEF StepOK
<1> QED
  BY <1>7, <1>8, <1>9 DEF IInv

LEMMA FsyncStep ==
  ASSUME IInv, Live(journal), NEW step, Fsync(step), Goto("unlink")
  PROVE  /\ World' /\ TypeOK' /\ Solid' /\ UNCHANGED <<tar, journal, dirs, pend, swaps>>
         /\ UNCHANGED <<batch, wrote, end>> /\ pc' = "unlink"
<1>1. /\ synced' = TRUE /\ safe' = Len(tar.cells) /\ high' = Len(tar.cells)
      /\ UNCHANGED <<tar, journal, dirs, pend, swaps>>
      /\ UNCHANGED <<batch, wrote, end>> /\ pc' = "unlink"
  BY DEF Fsync, Goto, dirVars
<1>2. /\ tar # NoTar /\ safe <= Len(tar.cells) /\ Len(tar.cells) <= high
      /\ Len(tar.cells) \in Nat
  BY LiveFacts DEF IInv
<1>3. Solid' /\ UNCHANGED <<tar, dirVars, pend, swaps>>
  BY <1>1 DEF Solid, dirVars
<1>4. World'
  BY <1>1, <1>2, <1>3, SameContent DEF IInv
<1>5. TypeOK'
  BY <1>1, <1>2 DEF IInv, TypeOK, Steps
<1> QED
  BY <1>1, <1>3, <1>4, <1>5

LEMMA RestoreFsyncStep == ASSUME IInv, RestoreFsync PROVE IInv'
<1>1. pc = "fsync" /\ Fsync("fsync") /\ Goto("unlink")
  BY DEF RestoreFsync, Fsync
<1>2. Live(journal) /\ journal.end = Len(tar.cells) /\ wrote = 0
  BY <1>1 DEF IInv, StepOK
<1>3. /\ World' /\ TypeOK' /\ Solid' /\ UNCHANGED <<tar, journal, dirs, pend, swaps>>
      /\ UNCHANGED <<batch, wrote, end>> /\ pc' = "unlink"
  BY <1>1, <1>2, FsyncStep
<1>4. StepOK'
  BY <1>2, <1>3 DEF StepOK
<1> QED
  BY <1>3, <1>4 DEF IInv

LEMMA CommitFsyncStep == ASSUME IInv, CommitFsync PROVE IInv'
<1>1. pc = "commit" /\ Fsync("commit") /\ Goto("unlink")
  BY DEF CommitFsync, Fsync
<1>2. /\ Journalled /\ Written /\ wrote = Len(batch) /\ Len(tar.cells) = end + wrote
      /\ Live(journal)
  BY <1>1 DEF IInv, StepOK, Journalled
<1>3. /\ World' /\ TypeOK' /\ Solid' /\ UNCHANGED <<tar, journal, dirs, pend, swaps>>
      /\ UNCHANGED <<batch, wrote, end>> /\ pc' = "unlink"
  BY <1>1, <1>2, FsyncStep
<1>4. Journalled' /\ Written'
  BY <1>2, <1>3 DEF Journalled, Written, Live, Now, DirNow
<1>5. batch \in Seq(Member) /\ batch # << >>
  BY <1>2, ContentsAreSeqs DEF IInv, TypeOK, Journalled
<1>6. wrote # 0
  BY <1>2, <1>5, EmptySeq
<1>7. StepOK'
  BY <1>2, <1>3, <1>4, <1>6 DEF StepOK
<1> QED
  BY <1>3, <1>7 DEF IInv

-----------------------------------------------------------------------------
\* What an append knows of the tar once its journal is on disk.
LEMMA AppendFacts ==
  ASSUME IInv, pc \in {"truncate", "header", "data", "commit"}
  PROVE  /\ TypeOK /\ World /\ Live(journal) /\ journal.end = end /\ dirs = {Now}
         /\ tar # NoTar /\ tar \in Tars /\ tar.cells \in Seq(Cell)
         /\ end \in Nat /\ end <= safe /\ safe <= Len(tar.cells) /\ Len(tar.cells) <= high
         /\ Len(tar.cells) \in Nat /\ safe \in Nat /\ high \in Nat
         /\ batch \in Seq(Member) /\ batch # << >> /\ Len(batch) \in Nat /\ wrote \in Nat
<1>1. TypeOK /\ World /\ Live(journal) /\ journal.end = end /\ dirs = {Now} /\ batch # << >>
  BY DEF IInv, StepOK, Journalled
<1>2. batch \in Seq(Member) /\ wrote \in Nat
  BY <1>1, ContentsAreSeqs DEF TypeOK
<1>3. Len(batch) \in Nat
  BY <1>2, LenProperties
<1> QED
  BY <1>1, <1>2, <1>3, LiveFacts

LEMMA AppendWrites ==
  ASSUME IInv, pc \in {"truncate", "header", "data"}, NEW c \in Seq(Cell),
         tar' = [tar EXCEPT !.cells = c], synced' = FALSE,
         UNCHANGED <<journal, dirs, pend, swaps, batch, end>>,
         end <= Len(c), \A i \in 1..end : c[i] = tar.cells[i],
         safe' \in Nat, high' \in Nat, end <= safe', safe' <= Len(c), Len(c) <= high',
         pc' \in Steps, wrote' \in Nat
  PROVE  TypeOK' /\ World' /\ tar'.cells = c /\ Journalled' /\ Whole' = Whole
<1>1. /\ TypeOK /\ World /\ Live(journal) /\ journal.end = end /\ dirs = {Now}
      /\ batch # << >>
  BY AppendFacts
<1>2. UNCHANGED <<dirVars, pend, swaps>>
  BY DEF dirVars
<1>3. /\ World' /\ tar' \in Tars /\ tar' # NoTar /\ tar'.cells = c
      /\ Live(journal)' /\ (dirs = {Now})' /\ Whole' = Whole
  BY <1>1, <1>2, BehindJournal
<1>4. TypeOK'
  BY <1>1, <1>3 DEF TypeOK
<1>5. Journalled'
  BY <1>1, <1>3 DEF Journalled
<1> QED
  BY <1>3, <1>4, <1>5

LEMMA TruncateStep == ASSUME IInv, Truncate PROVE IInv' /\ Whole' = Whole
<1> DEFINE c == Cut(tar.cells, end)
<1>1. /\ pc = "truncate" /\ pc' = "header" /\ UNCHANGED <<batch, wrote, end>>
      /\ UNCHANGED <<journal, dirs, pend, swaps>>
  BY DEF Truncate, Goto, dirVars
<1>2. /\ tar' = [tar EXCEPT !.cells = c] /\ synced' = FALSE
      /\ safe' = Min2(safe, Len(c))
      /\ high' = IF Len(c) > high THEN Len(c) ELSE high
  BY DEF Truncate, SetTar
<1>3. /\ tar.cells \in Seq(Cell) /\ end \in Nat /\ end <= safe /\ safe <= Len(tar.cells)
      /\ Len(tar.cells) <= high /\ Len(tar.cells) \in Nat /\ safe \in Nat /\ high \in Nat
      /\ Len(batch) \in Nat
  BY <1>1, AppendFacts
<1>4. c \in Seq(Cell) /\ Len(c) = end /\ \A i \in 1..end : c[i] = tar.cells[i]
  <2>1. end <= Len(tar.cells)
    BY <1>3
  <2> QED
    BY <1>3, <2>1, CutFacts
<1> HIDE DEF c
<1>5. safe' = end /\ high' = high
  BY <1>2, <1>3, <1>4 DEF Min2
<1>6. wrote = 0 /\ wrote' = 0
  BY <1>1 DEF IInv, StepOK
<1>7. TypeOK' /\ World' /\ tar'.cells = c /\ Journalled' /\ Whole' = Whole
  <2>1. /\ end <= Len(c) /\ safe' \in Nat /\ high' \in Nat /\ end <= safe'
        /\ safe' <= Len(c) /\ Len(c) <= high' /\ wrote' \in Nat /\ pc' \in Steps
    BY <1>1, <1>3, <1>4, <1>5, <1>6 DEF Steps
  <2> QED
    BY <1>1, <1>2, <1>4, <2>1, AppendWrites
<1>8. Written' /\ Len(tar'.cells) = end' + wrote' /\ wrote' <= Len(batch')
  BY <1>1, <1>3, <1>4, <1>6, <1>7 DEF Written
<1>9. StepOK'
  BY <1>1, <1>7, <1>8 DEF StepOK
<1> QED
  BY <1>7, <1>9 DEF IInv

LEMMA WriteHeaderStep == ASSUME IInv, WriteHeader PROVE IInv' /\ Whole' = Whole
<1> DEFINE c == Append(tar.cells, Torn)
<1>1. /\ pc = "header" /\ pc' = "data" /\ UNCHANGED <<batch, wrote, end>>
      /\ UNCHANGED <<journal, dirs, pend, swaps>> /\ wrote < Len(batch)
  BY DEF WriteHeader, Goto, dirVars
<1>2. /\ tar' = [tar EXCEPT !.cells = c] /\ synced' = FALSE
      /\ safe' = Min2(safe, Len(c))
      /\ high' = IF Len(c) > high THEN Len(c) ELSE high
  BY DEF WriteHeader, SetTar
<1>3. /\ tar.cells \in Seq(Cell) /\ end \in Nat /\ end <= safe /\ safe <= Len(tar.cells)
      /\ Len(tar.cells) <= high /\ Len(tar.cells) \in Nat /\ safe \in Nat /\ high \in Nat
      /\ wrote \in Nat
  BY <1>1, AppendFacts
<1>4. /\ c \in Seq(Cell) /\ Len(c) = Len(tar.cells) + 1
      /\ \A i \in 1..Len(tar.cells) : c[i] = tar.cells[i]
  <2>1. Torn \in Cell
    BY DEF Cell
  <2> QED
    BY <1>3, <2>1, AppendProperties
<1> HIDE DEF c
<1>5. safe' = safe /\ high' \in Nat /\ Len(c) <= high'
  BY <1>2, <1>3, <1>4 DEF Min2
<1>6. TypeOK' /\ World' /\ tar'.cells = c /\ Journalled' /\ Whole' = Whole
  <2>1. /\ end <= Len(c) /\ safe' \in Nat /\ end <= safe' /\ safe' <= Len(c)
        /\ wrote' \in Nat /\ pc' \in Steps /\ \A i \in 1..end : c[i] = tar.cells[i]
    BY <1>1, <1>3, <1>4, <1>5 DEF Steps
  <2> QED
    BY <1>1, <1>2, <1>4, <1>5, <2>1, AppendWrites
<1>7. Written /\ Len(tar.cells) = end + wrote
  BY <1>1 DEF IInv, StepOK
<1>8. Written'
  <2>1. SUFFICES ASSUME NEW i \in 1..wrote PROVE c[end + i] = batch[i]
    BY <1>1, <1>6 DEF Written
  <2>2. end + i \in 1..Len(tar.cells)
    BY <1>3, <1>7
  <2> QED
    BY <1>4, <1>7, <2>2 DEF Written
<1>9. Len(tar'.cells) = end' + wrote' + 1 /\ wrote' < Len(batch')
  BY <1>1, <1>3, <1>4, <1>6, <1>7
<1>10. StepOK'
  BY <1>1, <1>6, <1>8, <1>9 DEF StepOK
<1> QED
  BY <1>6, <1>10 DEF IInv

LEMMA WriteDataStep == ASSUME IInv, WriteData PROVE IInv' /\ Whole' = Whole
<1> DEFINE n == Len(tar.cells) - 1
           m == batch[wrote + 1]
           c == Cut(tar.cells, n) \o <<m>>
<1>1. /\ pc = "data" /\ pc' = "header" /\ UNCHANGED <<batch, end>> /\ wrote' = wrote + 1
      /\ UNCHANGED <<journal, dirs, pend, swaps>>
  BY DEF WriteData, dirVars
<1>2. /\ tar' = [tar EXCEPT !.cells = c] /\ synced' = FALSE
      /\ safe' = Min2(safe, n) /\ high' = high
  BY DEF WriteData, SetLast
<1>3. /\ tar.cells \in Seq(Cell) /\ end \in Nat /\ end <= safe /\ safe <= Len(tar.cells)
      /\ Len(tar.cells) <= high /\ Len(tar.cells) \in Nat /\ safe \in Nat /\ high \in Nat
      /\ wrote \in Nat /\ batch \in Seq(Member) /\ Len(batch) \in Nat
  BY <1>1, AppendFacts
<1>4. Written /\ Len(tar.cells) = end + wrote + 1 /\ wrote < Len(batch)
  BY <1>1 DEF IInv, StepOK
<1>5. n = end + wrote /\ n \in Nat /\ n <= Len(tar.cells) /\ m \in Cell
  <2>1. m \in Member
    BY <1>3, <1>4, ElementOfSeq
  <2> QED
    BY <1>3, <1>4, <2>1 DEF Cell
<1>6. /\ c \in Seq(Cell) /\ Len(c) = n + 1 /\ c[n + 1] = m
      /\ \A i \in 1..n : c[i] = tar.cells[i]
  <2> HIDE DEF n, m
  <2>1. /\ Cut(tar.cells, n) \in Seq(Cell) /\ Len(Cut(tar.cells, n)) = n
        /\ \A i \in 1..n : Cut(tar.cells, n)[i] = tar.cells[i]
    BY <1>3, <1>5, CutFacts
  <2>2. <<m>> \in Seq(Cell) /\ Len(<<m>>) = 1 /\ <<m>>[1] = m
    BY <1>5
  <2>3. /\ c \in Seq(Cell) /\ Len(c) = n + 1
        /\ \A i \in 1..n + 1 : c[i] = IF i <= n THEN Cut(tar.cells, n)[i] ELSE <<m>>[i - n]
    BY <2>1, <2>2, ConcatProperties
  <2> HIDE DEF c
  <2>4. n + 1 \in 1..n + 1 /\ ~(n + 1 <= n) /\ (n + 1) - n = 1
    BY <1>5
  <2>5. c[n + 1] = m
    BY <2>2, <2>3, <2>4
  <2>6. ASSUME NEW i \in 1..n PROVE c[i] = tar.cells[i]
    <3>1. i \in 1..n + 1 /\ i <= n
      BY <1>5
    <3> QED
      BY <2>1, <2>3, <3>1
  <2> QED
    BY <2>3, <2>5, <2>6
<1> HIDE DEF n, m, c
<1>7. safe' \in Nat /\ end <= safe' /\ safe' <= Len(c) /\ Len(c) <= high' /\ high' \in Nat
  BY <1>2, <1>3, <1>4, <1>5, <1>6 DEF Min2
<1>8. TypeOK' /\ World' /\ tar'.cells = c /\ Journalled' /\ Whole' = Whole
  <2>1. /\ end <= Len(c) /\ wrote' \in Nat /\ pc' \in Steps
        /\ \A i \in 1..end : c[i] = tar.cells[i]
    BY <1>1, <1>3, <1>5, <1>6 DEF Steps
  <2> QED
    BY <1>1, <1>2, <1>6, <1>7, <2>1, AppendWrites
<1>9. Written'
  <2>1. SUFFICES ASSUME NEW i \in 1..wrote + 1 PROVE c[end + i] = batch[i]
    BY <1>1, <1>8 DEF Written
  <2>2. CASE i = wrote + 1
    BY <1>3, <1>5, <1>6, <2>2 DEF m
  <2>3. CASE i # wrote + 1
    <3>1. i \in 1..wrote /\ end + i \in 1..n
      BY <1>3, <1>5, <2>3
    <3> QED
      BY <1>4, <1>6, <3>1 DEF Written
  <2> QED
    BY <2>2, <2>3
<1>10. Len(tar'.cells) = end' + wrote' /\ wrote' <= Len(batch')
  BY <1>1, <1>3, <1>4, <1>5, <1>6, <1>8
<1>11. StepOK'
  BY <1>1, <1>8, <1>9, <1>10 DEF StepOK
<1> QED
  BY <1>8, <1>11 DEF IInv

LEMMA WriteEofStep == ASSUME IInv, WriteEof PROVE IInv' /\ Whole' = Whole
<1> DEFINE c == tar.cells
<1>1. /\ pc = "header" /\ pc' = "commit" /\ UNCHANGED <<batch, wrote, end>>
      /\ UNCHANGED <<journal, dirs, pend, swaps>> /\ wrote = Len(batch)
  BY DEF WriteEof, Goto, dirVars
<1>2. /\ tar' = [tar EXCEPT !.cells = c] /\ synced' = FALSE
      /\ safe' = Min2(safe, Len(c))
      /\ high' = IF Len(c) > high THEN Len(c) ELSE high
  BY DEF WriteEof, SetTar
<1>3. /\ c \in Seq(Cell) /\ end \in Nat /\ end <= safe /\ safe <= Len(c)
      /\ Len(c) <= high /\ Len(c) \in Nat /\ safe \in Nat /\ high \in Nat
      /\ wrote \in Nat
  BY <1>1, AppendFacts
<1>4. safe' = safe /\ high' = high
  BY <1>2, <1>3 DEF Min2
<1>5. TypeOK' /\ World' /\ tar'.cells = c /\ Journalled' /\ Whole' = Whole
  <2>1. /\ end <= Len(c) /\ safe' \in Nat /\ high' \in Nat /\ end <= safe' /\ safe' <= Len(c)
        /\ Len(c) <= high' /\ wrote' \in Nat /\ pc' \in Steps
    BY <1>1, <1>3, <1>4 DEF Steps
  <2> QED
    BY <1>1, <1>2, <1>3, <2>1, AppendWrites
<1>6. Written /\ Len(tar.cells) = end + wrote
  BY <1>1 DEF IInv, StepOK
<1>7. Written'
  BY <1>1, <1>5, <1>6 DEF Written
<1>8. StepOK'
  BY <1>1, <1>5, <1>6, <1>7 DEF StepOK
<1> QED
  BY <1>5, <1>8 DEF IInv

-----------------------------------------------------------------------------
\* What a power loss leaves: the file and names of one directory state, from
\* which recovery makes the same as from the present file beside those names.
LEMMA TailFacts ==
  ASSUME TypeOK, NEW s \in Tails
  PROVE  s \in Seq(Cell) /\ Len(s) \in Nat /\ (high = safe => Len(s) = 0)
<1>1. PICK n \in 0..high - safe : s \in [1..n -> Cell]
  BY DEF Tails
<1>2. n \in Nat /\ (high = safe => n = 0)
  BY <1>1 DEF TypeOK
<1>3. s \in Seq(Cell) /\ Len(s) = n
  BY <1>1, <1>2
<1> QED
  BY <1>2, <1>3

LEMMA TarOutcomeFacts ==
  ASSUME TypeOK, World, tar # NoTar, NEW t \in TarOutcomes
  PROVE  /\ t \in Tars /\ t.ino = swaps /\ t.cells \in Seq(Cell)
         /\ safe <= Len(t.cells)
         /\ \A i \in 1..safe : t.cells[i] = tar.cells[i]
         /\ Solid => t.cells = tar.cells
<1>1. /\ tar \in Tars /\ tar.cells \in Seq(Cell) /\ tar.ino = swaps /\ tar.ino \in Nat
      /\ safe <= Len(tar.cells) /\ safe \in Nat /\ Len(tar.cells) \in Nat
  BY DEF TypeOK, World, FileOK, Tars
<1>2. CASE synced
  <2>1. t = tar
    BY <1>2 DEF TarOutcomes
  <2> QED
    BY <1>1, <2>1
<1>3. CASE ~synced
  <2>1. PICK s \in Tails : t = [ino |-> tar.ino, cells |-> Cut(tar.cells, safe) \o s]
    BY <1>3 DEF TarOutcomes
  <2> DEFINE u == Cut(tar.cells, safe)
  <2>2. s \in Seq(Cell) /\ Len(s) \in Nat /\ (high = safe => Len(s) = 0)
    BY TailFacts
  <2>3. u \in Seq(Cell) /\ Len(u) = safe /\ \A i \in 1..safe : u[i] = tar.cells[i]
    BY <1>1, CutFacts
  <2> HIDE DEF u
  <2>4. /\ u \o s \in Seq(Cell) /\ Len(u \o s) = safe + Len(s)
        /\ \A i \in 1..safe + Len(s) : (u \o s)[i] = IF i <= safe THEN u[i] ELSE s[i - safe]
    BY <2>2, <2>3, ConcatProperties
  <2>5. t.cells = u \o s /\ t.ino = swaps /\ t \in Tars
    BY <1>1, <2>1, <2>4 DEF u, Tars
  <2>6. \A i \in 1..safe : t.cells[i] = tar.cells[i]
    <3>1. SUFFICES ASSUME NEW i \in 1..safe PROVE t.cells[i] = tar.cells[i]
      OBVIOUS
    <3>2. i \in 1..safe + Len(s) /\ i <= safe
      BY <1>1, <2>2
    <3> QED
      BY <2>3, <2>4, <2>5, <3>2
  <2>7. ASSUME Solid PROVE t.cells = tar.cells
    <3>1. safe = Len(tar.cells) /\ Len(s) = 0
      BY <2>2, <2>7 DEF Solid
    <3>2. Len(t.cells) = Len(tar.cells)
      BY <1>1, <2>4, <2>5, <3>1
    <3> QED
      BY <1>1, <2>4, <2>5, <2>6, <3>1, <3>2, SeqEqual
  <2>8. safe <= Len(t.cells)
    BY <1>1, <2>2, <2>4, <2>5
  <2> QED
    BY <2>4, <2>5, <2>6, <2>7, <2>8
<1> QED
  BY <1>2, <1>3

\* A power loss leaves what recovery can use: of one of the directory states.
Leaves(o, d) ==
  /\ o.journal = d.journal
  /\ o.tar \in Tars \cup {NoTar} /\ o.journal \in Journals \cup {NoJournal}
  /\ o.tar = NoTar <=> ~d.hasTar
  /\ o.tar # NoTar => o.tar.ino = swaps /\ Len(o.tar.cells) \in Nat
  /\ Live(d.journal) => /\ o.tar # NoTar /\ d.journal.end <= Len(o.tar.cells)
                        /\ d.journal.hash = TailHash(o.tar.cells, d.journal.end)
  /\ Recovered(o.tar, o.journal) = Fate(d)

LEMMA OutcomeFacts ==
  ASSUME TypeOK, World, NEW o \in Outcomes
  PROVE  \E d \in dirs : Leaves(o, d)
<1>1. PICK d \in dirs : o \in IF d.hasTar
             THEN {[tar |-> t, journal |-> d.journal] : t \in TarOutcomes}
             ELSE {[tar |-> NoTar, journal |-> d.journal]}
  BY Zenon DEF Outcomes
<1>2. d.journal \in Journals \cup {NoJournal} /\ d.hasTar \in BOOLEAN
  BY DEF TypeOK, DirStates
<1>3. DirOK(d)
  BY DEF World, DirsOK
<1>4. CASE ~d.hasTar
  <2>1. o.tar = NoTar /\ o.journal = d.journal
    BY <1>1, <1>4
  <2>2. ~Live(d.journal)
    BY <1>3, <1>4 DEF DirOK
  <2>3. Recovered(o.tar, o.journal) = Fate(d)
    BY <1>4, <2>1 DEF Recovered, Fate
  <2> QED
    BY <1>2, <1>4, <2>1, <2>2, <2>3 DEF Leaves
<1>5. CASE d.hasTar
  <2>1. PICK t \in TarOutcomes : o = [tar |-> t, journal |-> d.journal]
    BY <1>1, <1>5
  <2>2. tar # NoTar /\ o.tar = t /\ o.journal = d.journal
    BY <1>3, <1>5, <2>1 DEF DirOK
  <2>3. /\ t \in Tars /\ t.ino = swaps /\ t.cells \in Seq(Cell) /\ safe <= Len(t.cells)
        /\ \A i \in 1..safe : t.cells[i] = tar.cells[i]
        /\ Solid => t.cells = tar.cells
    BY <2>2, TarOutcomeFacts
  <2>4. t # NoTar /\ Len(t.cells) \in Nat
    BY <2>3, NoneAssumption, LenProperties
  <2>5. CASE ~Live(d.journal)
    <3>1. t.cells = tar.cells
      <4>1. CASE Live(journal) /\ dirs = {Now}
        BY <2>5, <4>1 DEF Now, DirNow
      <4>2. CASE Solid
        BY <2>3, <4>2
      <4> QED
        BY <4>1, <4>2 DEF World, Covered
    <3>2. Recovered(o.tar, o.journal) = Fate(d)
      BY <1>5, <2>2, <2>3, <2>4, <2>5, <3>1 DEF Recovered, Fate, Live
    <3> QED
      BY <1>2, <1>5, <2>2, <2>3, <2>4, <2>5, <3>2 DEF Leaves
  <2>6. CASE Live(d.journal)
    <3>1. /\ d.journal # NoJournal /\ d.journal.ino = swaps /\ d.journal.end <= safe
          /\ d.journal.hash = TailHash(tar.cells, d.journal.end)
      BY <1>3, <2>6 DEF DirOK, JournalOK, Live
    <3>2. d.journal.end \in Nat /\ safe \in Nat /\ tar.cells \in Seq(Cell)
          /\ safe <= Len(tar.cells) /\ Len(tar.cells) \in Nat
      BY <1>2, <2>2, <3>1 DEF Journals, TypeOK, Tars, World, FileOK
    <3>3. /\ d.journal.end <= Len(t.cells) /\ d.journal.end <= Len(tar.cells)
          /\ \A i \in 1..d.journal.end : t.cells[i] = tar.cells[i]
      BY <2>3, <2>4, <3>1, <3>2
    <3>4. TailHash(t.cells, d.journal.end) = d.journal.hash
      BY <3>1, <3>2, <3>3 DEF TailHash
    <3>5. Cut(t.cells, d.journal.end) = Cut(tar.cells, d.journal.end)
      BY <2>3, <3>2, <3>3, CutAgrees
    <3>6. Recovered(o.tar, o.journal) = Fate(d)
      BY <1>5, <2>2, <2>3, <2>4, <2>6, <3>1, <3>5 DEF Recovered, Fate
    <3> QED
      BY <1>2, <1>5, <2>2, <2>3, <2>4, <3>3, <3>4, <3>6 DEF Leaves
  <2> QED
    BY <2>5, <2>6
<1> QED
  BY <1>2, <1>4, <1>5

-----------------------------------------------------------------------------
\* The steps on names.  An older directory state stays as good as it was.
LEMMA OldDirs ==
  ASSUME World, UNCHANGED <<tar, safe, pend, swaps>>, Whole' = Whole, NEW d \in dirs
  PROVE  DirOK(d)'
<1>1. DirOK(d)
  BY DEF World, DirsOK
<1>2. Fate(d)' = Fate(d)
  BY DEF Fate, Live
<1>3. JournalOK(d.journal)' <=> JournalOK(d.journal)
  BY DEF JournalOK
<1> QED
  BY <1>1, <1>2, <1>3 DEF DirOK, Live

\* The new one is as good as the state it is of.
LEMMA NewDir ==
  ASSUME FileOK', JournalOK(journal)'
  PROVE  DirOK(Now)' /\ Fate(Now)' = Whole'
<1>1. Now'.hasTar = (tar' # NoTar) /\ Now'.journal = journal'
  BY DEF Now, DirNow
<1>2. Live(journal)' => tar' # NoTar
  BY DEF JournalOK, Live
<1>3. tar' # NoTar => tar'.ino = swaps'
  BY DEF FileOK
<1>4. Fate(Now)' = Whole'
  BY <1>1, <1>2, <1>3 DEF Fate, Whole, Recovered, Live
<1> QED
  BY <1>1, <1>2, <1>4 DEF DirOK

LEMMA OneDir ==
  ASSUME FileOK', JournalOK(journal)', (dirs = {Now})', (Whole \in Seq(Member))',
         Live(journal)' \/ Solid'
  PROVE  World'
<1>1. DirOK(Now)'
  BY NewDir
<1>2. DirsOK'
  BY <1>1 DEF DirsOK
<1> QED
  BY <1>2 DEF World, Covered

LEMMA DirStateType ==
  ASSUME NEW t, NEW j \in Journals \cup {NoJournal}
  PROVE  DirNow(t, j) \in DirStates
BY DEF DirNow, DirStates

LEMMA NowJournal == ASSUME World PROVE JournalOK(journal)
<1>1. DirOK(Now)
  BY Zenon DEF World, DirsOK
<1> QED
  BY <1>1 DEF DirOK, Now, DirNow

\* An fsync of the directory, the files being as they are.
LEMMA DirFsyncWorld ==
  ASSUME TypeOK, World, UNCHANGED <<fileVars, journal, swaps>>, DirFsync
  PROVE  World' /\ dirs' \subseteq DirStates /\ (dirs = {Now})' /\ Whole' = Whole
<1>1. UNCHANGED <<tar, synced, safe, high, journal, swaps>>
  BY DEF fileVars
<1>2. (dirs = {Now})' /\ Whole' = Whole
  BY <1>1 DEF DirFsync, Now, Whole, Recovered
<1>3. FileOK' /\ JournalOK(journal)' /\ (Live(journal)' \/ Solid')
  BY <1>1, NowJournal DEF World, FileOK, Solid, JournalOK, Covered, Live
<1>4. (Whole \in Seq(Member))'
  BY <1>2 DEF World
<1>5. dirs' \subseteq DirStates
  BY <1>1, DirStateType DEF DirFsync, TypeOK
<1> QED
  BY <1>2, <1>3, <1>4, <1>5, OneDir

LEMMA DirSyncStep == ASSUME IInv, DirSync PROVE IInv'
<1>1. pc = "dirsync" /\ pend' = << >> /\ UNCHANGED <<fileVars, journal, swaps>> /\ DirFsync
  BY DEF DirSync
<1>2. TypeOK /\ World /\ journal = NoJournal
  BY <1>1 DEF IInv, StepOK
<1>3. World' /\ dirs' \subseteq DirStates
  BY <1>1, <1>2, DirFsyncWorld
<1>4. UNCHANGED <<tar, synced, safe, high, journal, swaps>>
  BY <1>1 DEF fileVars
<1>5. CASE batch = << >> \/ wrote > 0
  <2>1. pc' = "idle" /\ batch' = << >> /\ wrote' = 0 /\ end' = 0
    BY <1>5 DEF DirSync, Continue, Finish
  <2>2. TypeOK' /\ StepOK'
    BY <1>1, <1>2, <1>3, <1>4, <2>1 DEF TypeOK, Steps, StepOK, Contents
  <2> QED
    BY <1>3, <2>2 DEF IInv
<1>6. CASE batch # << >> /\ ~(wrote > 0)
  <2>1. pc' = "open" /\ UNCHANGED <<batch, wrote, end>>
    BY <1>6 DEF DirSync, Continue, Goto
  <2>2. wrote = 0
    BY <1>2, <1>6 DEF TypeOK
  <2>3. TypeOK' /\ StepOK'
    BY <1>1, <1>2, <1>3, <1>4, <1>6, <2>1, <2>2 DEF TypeOK, Steps, StepOK, Contents
  <2> QED
    BY <1>3, <2>3 DEF IInv
<1> QED
  BY <1>5, <1>6

LEMMA SyncJournalStep == ASSUME IInv, SyncJournal PROVE IInv'
<1>1. /\ pc = "jsync" /\ pc' = "truncate" /\ pend' = << >> /\ UNCHANGED <<batch, wrote, end>>
      /\ UNCHANGED <<fileVars, journal, swaps>> /\ DirFsync
  BY DEF SyncJournal, Goto
<1>2. /\ TypeOK /\ World /\ Live(journal) /\ wrote = 0 /\ batch # << >>
      /\ end = Len(tar.cells) /\ journal.end = end
  BY <1>1 DEF IInv, StepOK
<1>3. World' /\ dirs' \subseteq DirStates /\ (dirs = {Now})'
  BY <1>1, <1>2, DirFsyncWorld
<1>4. UNCHANGED <<tar, synced, safe, high, journal, swaps>>
  BY <1>1 DEF fileVars
<1>5. Journalled'
  BY <1>1, <1>2, <1>3, <1>4 DEF Journalled, Live
<1>6. Written' /\ Len(tar'.cells) = end' + wrote'
  BY <1>1, <1>2, <1>4 DEF Written, TypeOK
<1>7. TypeOK'
  BY <1>1, <1>2, <1>3, <1>4 DEF TypeOK, Steps, Contents
<1>8. StepOK'
  BY <1>1, <1>2, <1>5, <1>6 DEF StepOK
<1> QED
  BY <1>3, <1>7, <1>8 DEF IInv

LEMMA WriteJournalStep == ASSUME IInv, WriteJournal PROVE IInv' /\ Whole' = Whole
<1>1. /\ pc = "journal" /\ pc' = "jsync" /\ UNCHANGED <<batch, wrote, end>>
      /\ UNCHANGED <<tar, synced, safe, high, pend, swaps>>
      /\ journal' = [ino |-> tar.ino, end |-> end, hash |-> TailHash(tar.cells, end)]
      /\ dirs' = dirs \cup {DirNow(tar', journal')}
  BY DEF WriteJournal, Goto, fileVars, DirChange
<1>2. /\ TypeOK /\ World /\ tar # NoTar /\ wrote = 0 /\ batch # << >>
      /\ end = Len(tar.cells) /\ journal = NoJournal
  BY <1>1 DEF IInv, StepOK
<1>3. ~Live(journal) /\ Solid /\ Whole = tar.cells
  BY <1>2, NotLiveFacts DEF Live
<1>4. /\ tar.cells \in Seq(Cell) /\ tar.ino = swaps /\ tar.ino \in Nat /\ swaps \in Nat
      /\ end \in Nat /\ safe = end
  BY <1>2, <1>3, BoundAssumption DEF TypeOK, Tars, World, FileOK, Solid
<1>5. TailHash(tar.cells, end) \in Seq(Cell)
  <2>1. CASE end = 0
    BY <2>1, EmptySeq DEF TailHash
  <2>2. CASE end # 0
    <3>1. tar.cells[end] \in Cell
      BY <1>2, <1>4, <2>2, ElementOfSeq
    <3> QED
      BY <2>2, <3>1 DEF TailHash
  <2> QED
    BY <2>1, <2>2
<1>6. /\ journal' \in Journals /\ journal'.ino = swaps /\ journal'.end = end
      /\ journal'.hash = TailHash(tar.cells, end)
  BY <1>1, <1>4, <1>5 DEF Journals
<1>7. journal' # NoJournal /\ Live(journal)'
  BY <1>1, <1>6, NoneAssumption DEF Live
<1>8. Whole' = Whole
  BY <1>1, <1>2, <1>3, <1>4, <1>6, <1>7, CutAll DEF Whole, Recovered
<1>9. FileOK' /\ JournalOK(journal)'
  <2>1. FileOK'
    BY <1>1, <1>2 DEF World, FileOK, Solid
  <2> QED
    BY <1>1, <1>2, <1>4, <1>6, <2>1 DEF JournalOK
<1>10. DirsOK'
  <2>1. DirOK(Now)'
    BY <1>9, NewDir
  <2>2. \A d \in dirs : DirOK(d)'
    BY <1>1, <1>2, <1>8, OldDirs
  <2> QED
    BY <1>1, <2>1, <2>2 DEF DirsOK, Now
<1>11. World'
  BY <1>1, <1>2, <1>3, <1>6, <1>7, <1>8, <1>9, <1>10 DEF World, Covered, Solid
<1>12. TypeOK'
  BY <1>1, <1>2, <1>6, DirStateType DEF TypeOK, Steps
<1>13. StepOK'
  BY <1>1, <1>2, <1>6, <1>7 DEF StepOK
<1> QED
  BY <1>8, <1>11, <1>12, <1>13 DEF IInv

-----------------------------------------------------------------------------
\* The commit point of an append that wrote, or the end of a recovery.
LEMMA UnlinkStep ==
  ASSUME IInv, Unlink
  PROVE  /\ IInv'
         /\ swaps' = swaps
         /\ \/ Whole' = Whole /\ pend' = pend
            \/ Whole' = Whole \o batch /\ pend' = batch /\ batch \in Seq(Member)
<1>1. /\ pc = "unlink" /\ pc' = "dirsync" /\ UNCHANGED <<batch, wrote, end>>
      /\ UNCHANGED <<tar, synced, safe, high, swaps>> /\ journal' = NoJournal
      /\ pend' = IF wrote > 0 /\ wrote = Len(batch) THEN batch ELSE pend
      /\ dirs' = dirs \cup {DirNow(tar', journal')}
  BY DEF Unlink, Goto, fileVars, DirChange
<1>2. TypeOK /\ World /\ Solid
  BY <1>1 DEF IInv, StepOK
<1>3. batch \in Contents /\ wrote \in Nat
  BY <1>2 DEF TypeOK
<1>4. FileOK' /\ JournalOK(journal)' /\ Solid' /\ ~Live(journal)'
  BY <1>1, <1>2 DEF World, FileOK, Solid, JournalOK, Live
<1>5. Whole' = IF tar = NoTar THEN << >> ELSE tar.cells
  BY <1>1 DEF Whole, Recovered
<1>6. DirOK(Now)'
  BY <1>4, NewDir
<1>7. TypeOK'
  <2>1. pend' \in Contents /\ journal' \in Journals \cup {NoJournal}
    BY <1>1, <1>2, <1>3 DEF TypeOK
  <2> QED
    BY <1>1, <1>2, <2>1, DirStateType DEF TypeOK, Steps
<1>8. StepOK'
  BY <1>1, <1>2 DEF StepOK
<1>9. CASE wrote = 0
  <2>1. Whole' = Whole
    <3>1. CASE Live(journal)
      <4>1. journal.end = Len(tar.cells)
        BY <1>1, <1>9, <3>1 DEF IInv, StepOK
      <4>2. tar # NoTar /\ tar.cells \in Seq(Cell) /\ Whole = Cut(tar.cells, journal.end)
        BY <1>2, <3>1, LiveFacts
      <4> QED
        BY <1>5, <4>1, <4>2, CutAll
    <3>2. CASE ~Live(journal)
      BY <1>2, <1>5, <3>2, NotLiveFacts
    <3> QED
      BY <3>1, <3>2
  <2>2. pend' = pend
    BY <1>1, <1>9
  <2>3. \A d \in dirs : DirOK(d)'
    BY <1>1, <1>2, <2>1, <2>2, OldDirs
  <2>4. DirsOK'
    BY <1>1, <1>6, <2>3 DEF DirsOK, Now
  <2>5. World'
    BY <1>2, <1>4, <2>1, <2>4 DEF World, Covered
  <2> QED
    BY <1>1, <1>7, <1>8, <2>1, <2>2, <2>5 DEF IInv
<1>10. CASE wrote > 0
  <2>1. /\ Live(journal) /\ journal.end = end /\ dirs = {Now} /\ batch # << >>
        /\ Written /\ wrote = Len(batch) /\ Len(tar.cells) = end + wrote
    BY <1>1, <1>10 DEF IInv, StepOK, Journalled
  <2>2. tar # NoTar /\ tar.cells \in Seq(Cell) /\ end \in Nat /\ Whole = Cut(tar.cells, end)
    BY <1>2, <2>1, LiveFacts
  <2>3. pend' = batch /\ batch \in Seq(Member) /\ batch \in Seq(Cell)
    BY <1>1, <1>3, <1>10, <2>1, ContentsAreSeqs
  <2>4. tar.cells = Cut(tar.cells, end) \o batch
    BY <2>1, <2>2, <2>3, CutAndBatch DEF Written
  <2>5. Whole' = Whole \o batch
    BY <1>5, <2>2, <2>4
  <2>6. (Whole \in Seq(Member))'
    BY <1>2, <2>3, <2>5, CellsAreMembers DEF World
  <2>7. DirOK(Now)
    BY <1>2, Zenon DEF World, DirsOK
  <2>8. \A d \in dirs : DirOK(d)'
    <3>1. SUFFICES ASSUME NEW d, d = Now PROVE DirOK(d)'
      BY <2>1
    <3>2. d.hasTar = TRUE /\ d.journal = journal
      BY <2>2, <3>1 DEF Now, DirNow
    <3>3. Fate(d)' = Whole
      BY <1>1, <2>1, <2>2, <3>2 DEF Fate, Live
    <3>4. JournalOK(d.journal)'
      BY <1>1, <1>2, <3>2, NowJournal DEF JournalOK
    <3> QED
      BY <1>1, <2>1, <2>2, <2>3, <2>5, <3>2, <3>3, <3>4 DEF DirOK
  <2>9. DirsOK'
    BY <1>1, <1>6, <2>8 DEF DirsOK, Now
  <2>10. World'
    BY <1>4, <2>6, <2>9 DEF World, Covered
  <2> QED
    BY <1>1, <1>7, <1>8, <2>3, <2>5, <2>10 DEF IInv
<1> QED
  BY <1>3, <1>9, <1>10

LEMMA CreateStep ==
  ASSUME IInv, Create
  PROVE  /\ IInv'
         /\ swaps' = swaps /\ Whole = << >> /\ batch \in Seq(Member)
         /\ Whole' = batch /\ pend' = batch
<1>1. /\ pc = "open" /\ tar = NoTar /\ tar' = [ino |-> swaps, cells |-> batch]
      /\ synced' = TRUE /\ safe' = Len(batch) /\ high' = Len(batch)
      /\ pend' = batch /\ pc' = "dirsync" /\ wrote' = Len(batch)
      /\ UNCHANGED <<batch, end, journal, swaps>>
      /\ dirs' = dirs \cup {DirNow(tar', journal')}
  BY DEF Create, Installed, DirChange
<1>2. TypeOK /\ World /\ journal = NoJournal /\ batch # << >>
  BY <1>1 DEF IInv, StepOK
<1>3. /\ batch \in Contents /\ batch \in Seq(Member) /\ batch \in Seq(Cell)
      /\ Len(batch) \in Nat /\ swaps \in Nat
  BY <1>2, ContentsAreSeqs, LenProperties, BoundAssumption DEF TypeOK
<1>4. tar' \in Tars /\ tar'.ino = swaps /\ tar'.cells = batch
  BY <1>1, <1>3 DEF Tars
<1>5. tar' # NoTar
  BY <1>4, NoneAssumption
<1>6. Whole = << >> /\ Whole' = batch
  BY <1>1, <1>2, <1>4, <1>5 DEF Whole, Recovered
<1>7. FileOK' /\ JournalOK(journal)' /\ Solid' /\ ~Live(journal)'
  BY <1>1, <1>2, <1>3, <1>4 DEF FileOK, Solid, JournalOK, Live
<1>8. DirOK(Now)'
  BY <1>7, NewDir
<1>9. ASSUME NEW d \in dirs PROVE DirOK(d)'
  <2>1. ~d.hasTar /\ ~Live(d.journal) /\ JournalOK(d.journal)
    BY <1>1, <1>2 DEF World, DirsOK, DirOK
  <2>2. ~Live(d.journal)'
    BY <1>1, <2>1 DEF Live
  <2>3. JournalOK(d.journal)'
    BY <1>1, <2>1 DEF JournalOK, Live
  <2>4. Fate(d)' = << >>
    BY <2>1 DEF Fate
  <2>5. << >> \o batch = batch
    BY <1>3, ConcatEmptySeq
  <2> QED
    BY <1>1, <1>2, <1>6, <2>1, <2>2, <2>3, <2>4, <2>5 DEF DirOK
<1>10. DirsOK'
  BY <1>1, <1>8, <1>9 DEF DirsOK, Now
<1>11. World'
  BY <1>3, <1>6, <1>7, <1>10 DEF World, Covered
<1>12. TypeOK'
  BY <1>1, <1>2, <1>3, <1>4, DirStateType DEF TypeOK, Steps
<1>13. StepOK'
  BY <1>1, <1>2 DEF StepOK
<1> QED
  BY <1>1, <1>3, <1>6, <1>11, <1>12, <1>13 DEF IInv

LEMMA PowerLossStep ==
  ASSUME IInv, PowerLoss
  PROVE  /\ IInv'
         /\ swaps' = swaps /\ pend' = << >>
         /\ Whole' = Whole \/ (pend # << >> /\ Whole' \o pend = Whole)
<1>1. /\ synced' = TRUE /\ pend' = << >> /\ swaps' = swaps
      /\ pc' = "idle" /\ batch' = << >> /\ wrote' = 0 /\ end' = 0
      /\ dirs' = {DirNow(tar', journal')}
  BY DEF PowerLoss, Finish, DirFsync
<1>2. TypeOK /\ World
  BY DEF IInv
<1>3. PICK o \in Outcomes :
        /\ tar' = o.tar /\ journal' = o.journal
        /\ safe' = IF o.tar = NoTar THEN 0 ELSE Len(o.tar.cells)
        /\ high' = IF o.tar = NoTar THEN 0 ELSE Len(o.tar.cells)
  BY DEF PowerLoss
<1>4. PICK d \in dirs : Leaves(o, d)
  BY <1>2, OutcomeFacts
<1>5. DirOK(d)
  BY <1>2 DEF World, DirsOK
<1>6. Whole' = Fate(d)
  BY <1>3, <1>4 DEF Leaves, Whole, Recovered
<1>7. Whole' = Whole \/ (pend # << >> /\ Whole' \o pend = Whole)
  BY <1>5, <1>6 DEF DirOK
<1>8. (Whole \in Seq(Member))'
  <2>1. CASE Whole' = Whole
    BY <1>2, <2>1 DEF World
  <2>2. CASE Whole' \o pend = Whole
    <3>1. pend \in Seq(Cell)
      BY <1>2, ContentsAreSeqs DEF TypeOK
    <3>2. Fate(d) \in Seq(Cell)
      <4>1. CASE ~d.hasTar
        BY <4>1, EmptySeq DEF Fate
      <4>2. CASE d.hasTar
        <5>1. tar # NoTar /\ tar.cells \in Seq(Cell) /\ Len(tar.cells) \in Nat
              /\ safe \in Nat /\ safe <= Len(tar.cells)
          BY <1>2, <1>5, <4>2 DEF DirOK, TypeOK, Tars, World, FileOK
        <5>2. CASE Live(d.journal)
          <6>1. d.journal.end \in Nat /\ d.journal.end <= safe
            BY <1>2, <1>5, <5>2 DEF DirOK, JournalOK, Live, TypeOK, DirStates, Journals
          <6>2. d.journal.end <= Len(tar.cells)
            BY <5>1, <6>1
          <6> QED
            BY <4>2, <5>1, <5>2, <6>1, <6>2, CutFacts DEF Fate
        <5>3. CASE ~Live(d.journal)
          BY <4>2, <5>1, <5>3 DEF Fate
        <5> QED
          BY <5>2, <5>3
      <4> QED
        BY <4>1, <4>2
    <3> QED
      BY <1>2, <1>6, <2>2, <3>1, <3>2, PrefixMembers DEF World
  <2> QED
    BY <1>7, <2>1, <2>2
<1>9. safe' \in Nat /\ high' \in Nat
  BY <1>3, <1>4 DEF Leaves
<1>10. FileOK' /\ Solid'
  BY <1>1, <1>3, <1>4, <1>9 DEF Leaves, FileOK, Solid
<1>11. JournalOK(journal)'
  BY <1>1, <1>3, <1>4, <1>5 DEF Leaves, JournalOK, Live, DirOK
<1>12. World'
  <2>1. (dirs = {Now})'
    BY <1>1 DEF Now
  <2> QED
    BY <1>8, <1>10, <1>11, <2>1, OneDir
<1>13. TypeOK'
  <2>1. tar' \in Tars \cup {NoTar} /\ journal' \in Journals \cup {NoJournal}
    BY <1>3, <1>4 DEF Leaves
  <2> QED
    BY <1>1, <1>2, <1>9, <2>1, DirStateType DEF TypeOK, Steps, Contents
<1>14. StepOK'
  BY <1>1 DEF StepOK
<1> QED
  BY <1>1, <1>7, <1>12, <1>13, <1>14 DEF IInv

LEMMA SwapStep ==
  ASSUME IInv, Swap
  PROVE  IInv' /\ swaps' = swaps + 1 /\ pend' = << >>
<1>1. /\ swaps' = swaps + 1 /\ pend' = << >> /\ swaps < MaxSwaps
      /\ UNCHANGED <<journal, pc, batch, wrote, end>>
      /\ dirs' = {DirNow(tar', journal')} /\ pc = "idle"
  BY DEF Swap, procVars, DirFsync
<1>2. TypeOK /\ World /\ JournalOK(journal) /\ swaps \in Nat /\ swaps' \in 0..MaxSwaps
      /\ wrote = 0
  BY <1>1, NowJournal, BoundAssumption DEF IInv, TypeOK, StepOK
<1>3. ~Live(journal)' /\ JournalOK(journal)'
  <2>1. journal # NoJournal => journal.ino \in Nat
    BY <1>2 DEF TypeOK, Journals
  <2> QED
    BY <1>1, <1>2, <2>1 DEF Live, JournalOK
<1>4. /\ FileOK' /\ Solid' /\ (Whole \in Seq(Member))'
      /\ tar' \in Tars \cup {NoTar} /\ synced' \in BOOLEAN /\ safe' \in Nat /\ high' \in Nat
  <2>1. CASE \E s \in Contents : Installed(swaps + 1, s)
    <3>1. PICK s \in Contents : Installed(swaps + 1, s)
      BY <2>1
    <3>2. s \in Seq(Member) /\ s \in Seq(Cell) /\ Len(s) \in Nat
      BY ContentsAreSeqs, LenProperties
    <3>3. /\ tar' = [ino |-> swaps + 1, cells |-> s] /\ synced' = TRUE
          /\ safe' = Len(s) /\ high' = Len(s)
      BY <3>1 DEF Installed
    <3>4. tar' \in Tars /\ tar'.ino = swaps' /\ tar'.cells = s
      BY <1>1, <1>2, <3>2, <3>3 DEF Tars
    <3>5. tar' # NoTar
      BY <3>4, NoneAssumption
    <3>6. Whole' = s
      BY <1>3, <3>4, <3>5 DEF Whole, Recovered, Live
    <3> QED
      BY <3>2, <3>3, <3>4, <3>5, <3>6 DEF FileOK, Solid
  <2>2. CASE tar' = NoTar /\ synced' = TRUE /\ safe' = 0 /\ high' = 0
    BY <2>2, EmptySeq DEF FileOK, Solid, Whole, Recovered
  <2> QED
    BY <2>1, <2>2 DEF Swap
<1>5. World'
  <2>1. (dirs = {Now})'
    BY <1>1 DEF Now
  <2> QED
    BY <1>3, <1>4, <2>1, OneDir
<1>6. TypeOK'
  BY <1>1, <1>2, <1>4, DirStateType DEF TypeOK, Contents
<1>7. StepOK'
  BY <1>1, <1>2 DEF StepOK
<1> QED
  BY <1>1, <1>5, <1>6, <1>7 DEF IInv

-----------------------------------------------------------------------------
LEMMA InitHolds == Init => IInv
<1> SUFFICES ASSUME Init PROVE IInv
  OBVIOUS
<1> USE DEF Init
<1>1. TypeOK
  BY BoundAssumption DEF TypeOK, Steps, Contents, DirStates
<1>2. StepOK
  BY DEF StepOK
<1>3. FileOK /\ Covered /\ Whole = << >>
  BY DEF FileOK, Solid, Covered, Live, Whole, Recovered
<1>4. Now = [hasTar |-> FALSE, journal |-> NoJournal]
  BY DEF Now, DirNow
<1>5. DirOK(Now)
  BY <1>3, <1>4 DEF DirOK, Live, JournalOK, Fate
<1>6. DirsOK
  BY <1>4, <1>5 DEF DirsOK
<1>7. Whole \in Seq(Member)
  BY <1>3, EmptySeq
<1> QED
  BY <1>1, <1>2, <1>3, <1>6, <1>7 DEF IInv, World

LEMMA StepHolds == IInv /\ [Next]_vars => IInv'
<1> SUFFICES ASSUME IInv, [Next]_vars PROVE IInv'
  OBVIOUS
<1>1. CASE UNCHANGED vars
  <2>1. UNCHANGED <<tar, synced, safe, high, journal, dirs, pc, batch, wrote, end, pend, swaps>>
    BY <1>1 DEF vars, fileVars, dirVars, procVars
  <2>2. World'
    BY <2>1, NoFileTouched DEF IInv, fileVars, dirVars
  <2>3. TypeOK'
    BY <2>1 DEF IInv, TypeOK
  <2>4. StepOK'
    BY <2>1 DEF IInv, StepOK, Journalled, Written, Live, Now, DirNow, Solid
  <2> QED
    BY <2>2, <2>3, <2>4 DEF IInv
<1>2. CASE Next
  BY <1>2, BeginStep, RecoverOnlyStep, ReadJournalStep, RestoreCutStep, RestoreFsyncStep,
     UnlinkStep, DirSyncStep, CreateStep, OpenStep, WriteJournalStep, SyncJournalStep,
     TruncateStep, WriteHeaderStep, WriteDataStep, WriteEofStep, CommitFsyncStep, RaiseStep,
     KillStep, PowerLossStep, SwapStep, Zenon DEF Next
<1> QED
  BY <1>1, <1>2

\* The names on disk, the journal and the unsynced cells fit together at every
\* system call of clone_append and recover_interrupted_append.
THEOREM TarAppendInductive == Spec => []IInv
<1>1. Init => IInv
  BY InitHolds
<1>2. IInv /\ [Next]_vars => IInv'
  BY StepHolds
<1> QED
  BY <1>1, <1>2, PTL DEF Spec

\* The variables keep their types.
THEOREM TarAppendTypes == Spec => []TypeOK
<1>1. IInv => TypeOK
  BY DEF IInv
<1> QED
  BY <1>1, TarAppendInductive, PTL

\* Whatever a power loss keeps of what clone_append has not synced, recovery
\* gives back the archive, at most without the batch not yet answered.
THEOREM PowerLossKeepsArchive == Spec => []PowerLossSafe
<1>1. IInv => PowerLossSafe
  <2>1. SUFFICES ASSUME IInv, NEW o \in Outcomes
                 PROVE  \/ Recovered(o.tar, o.journal) = Recovered(tar, journal)
                        \/ /\ pend # << >>
                           /\ Recovered(o.tar, o.journal) \o pend = Recovered(tar, journal)
    BY Zenon DEF PowerLossSafe
  <2>2. PICK d \in dirs : Leaves(o, d)
    BY <2>1, OutcomeFacts DEF IInv
  <2>3. Recovered(o.tar, o.journal) = Fate(d)
    BY <2>2 DEF Leaves
  <2>4. DirOK(d)
    BY <2>1 DEF IInv, World, DirsOK
  <2> QED
    BY <2>3, <2>4 DEF DirOK, Whole
<1> QED
  BY <1>1, TarAppendInductive, PTL
-----------------------------------------------------------------------------
(* The refinement.                                                         *)

\* A batch put behind the archive is the atomic step.
LEMMA IsAddBatch ==
  ASSUME NEW s \in Seq(Member), NEW b \in Seq(Member),
         Recovered(tar, journal) = s, Recovered(tar, journal)' = s \o b,
         pend' = b, swaps' = swaps
  PROVE  Abstract!AddBatch
<1>1. s \o b \in Seq(Member) /\ Len(s \o b) = Len(s) + Len(b)
      /\ \A i \in 1..Len(s) + Len(b) : (s \o b)[i] = IF i <= Len(s) THEN s[i] ELSE b[i - Len(s)]
  BY ConcatProperties
<1>2. Len(s) \in Nat /\ Len(b) \in Nat
  BY LenProperties
<1>3. Abstract!IsPrefix(s, s \o b)
  <2>1. SubSeq(s \o b, 1, Len(s)) = s /\ SubSeq(s, 1, Len(s)) = s
    BY CutConcat, CutAll DEF Cut
  <2> QED
    BY <1>1, <1>2, <2>1 DEF Abstract!IsPrefix
<1>4. SubSeq(s \o b, Len(s) + 1, Len(s \o b)) = b
  <2> DEFINE u == SubSeq(s \o b, Len(s) + 1, Len(s) + Len(b))
  <2>1. \A i \in Len(s) + 1..Len(s) + Len(b) : (s \o b)[i] \in Member
    BY <1>1, <1>2, ElementOfSeq
  <2>2. /\ u \in Seq(Member)
        /\ Len(u) = IF Len(s) + 1 <= Len(s) + Len(b)
                      THEN (Len(s) + Len(b)) - (Len(s) + 1) + 1 ELSE 0
        /\ \A i \in 1..(Len(s) + Len(b)) - (Len(s) + 1) + 1 :
             u[i] = (s \o b)[(Len(s) + 1) + i - 1]
    BY <1>2, <2>1, SubSeqProperties
  <2> HIDE DEF u
  <2>3. Len(u) = Len(b)
    BY <1>2, <2>2
  <2>4. ASSUME NEW i \in 1..Len(b) PROVE u[i] = b[i]
    <3>1. /\ i \in 1..(Len(s) + Len(b)) - (Len(s) + 1) + 1
          /\ (Len(s) + 1) + i - 1 = Len(s) + i /\ Len(s) + i \in 1..Len(s) + Len(b)
          /\ ~(Len(s) + i <= Len(s)) /\ (Len(s) + i) - Len(s) = i
      BY <1>2
    <3>2. u[i] = (s \o b)[Len(s) + i]
      BY <2>2, <3>1
    <3> QED
      BY <1>1, <3>1, <3>2
  <2>5. u = b
    BY <2>2, <2>3, <2>4, SeqEqual
  <2> QED
    BY <1>1, <2>5 DEF u
<1> QED
  BY <1>1, <1>3, <1>4 DEF Abstract!AddBatch

\* Each step of the append is a step of the atomic one, or is not seen.
LEMMA StepImplements ==
  ASSUME IInv, [Next]_vars
  PROVE  [Abstract!AbsNext]_(Abstract!absVars)
<1>1. TypeOK /\ World /\ Whole \in Seq(Member)
  BY DEF IInv, World
<1>2. ASSUME Whole' = Whole, pend' = pend, swaps' = swaps PROVE UNCHANGED Abstract!absVars
  BY <1>2 DEF Abstract!absVars, Whole
<1>3. ASSUME Whole' = Whole, pend' = << >>, swaps' = swaps PROVE Abstract!AbsNext
  BY <1>3 DEF Abstract!AbsNext, Abstract!Settle, Whole
<1>4. ASSUME UNCHANGED <<tar, journal, pend, swaps>> PROVE UNCHANGED Abstract!absVars
  BY <1>4 DEF Abstract!absVars, Recovered
<1>5. CASE UNCHANGED vars
  BY <1>4, <1>5 DEF vars, fileVars, dirVars
<1>6. CASE \/ \E b \in Batches : Begin(b)
           \/ RecoverOnly \/ ReadJournal \/ RestoreFsync \/ Open \/ CommitFsync \/ Raise \/ Kill
  BY <1>4, <1>6 DEF Begin, RecoverOnly, ReadJournal, RestoreFsync, Open, CommitFsync, Raise,
                    Kill, Fsync, fileVars, dirVars
<1>7. CASE WriteJournal
  <2>1. Whole' = Whole
    BY <1>7, WriteJournalStep
  <2> QED
    BY <1>2, <1>7, <2>1 DEF WriteJournal
<1>8. CASE RestoreCut \/ Truncate \/ WriteHeader \/ WriteData \/ WriteEof
  <2>1. Whole' = Whole
    BY <1>8, RestoreCutStep, TruncateStep, WriteHeaderStep, WriteDataStep, WriteEofStep
  <2>2. pend' = pend /\ swaps' = swaps
    BY <1>8 DEF RestoreCut, Truncate, WriteHeader, WriteData, WriteEof
  <2> QED
    BY <1>2, <2>1, <2>2
<1>9. CASE Unlink
  <2>1. CASE Whole' = Whole /\ pend' = pend
    BY <1>2, <1>9, <2>1, UnlinkStep
  <2>2. CASE Whole' = Whole \o batch /\ pend' = batch /\ batch \in Seq(Member)
    <3>1. Abstract!AddBatch
      BY <1>1, <1>9, <2>2, UnlinkStep, IsAddBatch DEF Whole
    <3> QED
      BY <3>1 DEF Abstract!AbsNext
  <2> QED
    BY <1>9, <2>1, <2>2, UnlinkStep
<1>10. CASE DirSync \/ SyncJournal
  <2>1. UNCHANGED <<fileVars, journal, swaps>> /\ DirFsync /\ pend' = << >>
    BY <1>10 DEF DirSync, SyncJournal
  <2>2. Whole' = Whole
    BY <1>1, <2>1, DirFsyncWorld
  <2> QED
    BY <1>3, <2>1, <2>2
<1>11. CASE Create
  <2>1. /\ swaps' = swaps /\ Whole = << >> /\ batch \in Seq(Member)
        /\ Whole' = batch /\ pend' = batch
    BY <1>11, CreateStep
  <2>2. Whole' = Whole \o batch
    BY <2>1, ConcatEmptySeq
  <2>3. Abstract!AddBatch
    BY <1>1, <2>1, <2>2, IsAddBatch DEF Whole
  <2> QED
    BY <2>3 DEF Abstract!AbsNext
<1>12. CASE PowerLoss
  <2>1. CASE Whole' = Whole
    BY <1>3, <1>12, <2>1, PowerLossStep
  <2>2. CASE pend # << >> /\ Whole' \o pend = Whole
    BY <1>12, <2>2, PowerLossStep DEF Abstract!AbsNext, Abstract!Undo, Whole
  <2> QED
    BY <1>12, <2>1, <2>2, PowerLossStep
<1>13. CASE Swap
  <2>1. IInv' /\ swaps' = swaps + 1 /\ pend' = << >>
    BY <1>13, SwapStep
  <2>2. (Whole \in Seq(Member))'
    BY <2>1 DEF IInv, World
  <2> QED
    BY <2>1, <2>2 DEF Abstract!AbsNext, Abstract!Swap, Whole
<1> QED
  BY <1>5, <1>6, <1>7, <1>8, <1>9, <1>10, <1>11, <1>12, <1>13 DEF Next

\* clone_append implements the atomic append: a batch is added as a whole or
\* not at all, and no crash takes back one whose caller was answered.
THEOREM AppendIsAtomic == Spec => AtomicAppendSpec
<1>1. Init => Abstract!AbsInit
  BY DEF Init, Abstract!AbsInit, Recovered
<1>2. IInv /\ [Next]_vars => [Abstract!AbsNext]_(Abstract!absVars)
  BY StepImplements
<1> QED
  BY <1>1, <1>2, TarAppendInductive, PTL DEF Spec, AtomicAppendSpec
=============================================================================
