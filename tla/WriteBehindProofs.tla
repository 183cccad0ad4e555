-------------------------- MODULE WriteBehindProofs --------------------------
(***************************************************************************)
(* The write-behind writer, for any flushers and bounds.  The I/O lock     *)
(* serves copy and save in turn, so the disk never goes back; and a flush  *)
(* that returns without an error has found everything before it on disk,   *)
(* as long as no write failed or nobody else flushes: the error slot is    *)
(* one for all flushers, and the next flush clears it.                     *)
(***************************************************************************)
EXTENDS WriteBehind, TLAPS

\* Only the holder of the I/O lock is between its copy and its save.
Locked == \A a \in Attempters : attempt[a].pc = "save" <=> io = a

\* A flusher attempts a write only inline.
InlineOnly == \A f \in Flushers : flush[f].pc # "inline" => attempt[f].pc = "none"

\* What is saved was live, and the copy about to be saved is no older than the disk.
Ordered == /\ disk <= mem
           /\ \A a \in Attempters : attempt[a].pc = "save" => /\ disk <= attempt[a].copy
                                                             /\ attempt[a].copy <= mem

\* The inductive invariant behind SavesInOrder.
OrderInv == Locked /\ InlineOnly /\ Ordered

\* The writer, and what it picked, belong to a running thread.
PickOK == /\ picked.asked <= forceAsked
          /\ attempt[Writer].pc = "none" => picked = NothingPicked
          /\ thread # "run" => attempt[Writer].pc = "none"

\* What a has copied, or saved, holds the changes that w names.
Holds(a, w) == /\ attempt[a].pc = "save" => attempt[a].copy >= w
               /\ attempt[a].pc = "saved" => disk >= w

\* The last finished write holds them, or it failed.
Answered(w) == error \/ disk >= w

\* A waiting flush: once the writer has picked its ticket, every write under way or
\* finished holds what it waits for.
WaitOK(f) ==
  flush[f].pc = "wait" =>
    /\ flush[f].ticket \in 1..forceAsked
    /\ forceDone >= flush[f].ticket => Answered(flush[f].want)
    /\ forceDone >= flush[f].ticket \/ picked.asked >= flush[f].ticket
         => Holds(Writer, flush[f].want)
    /\ picked.asked >= flush[f].ticket /\ attempt[Writer].pc = "done"
         => Answered(flush[f].want)

\* An inline flush begins when no thread runs: all later writes hold what it wants.
InlineOK(f) ==
  flush[f].pc = "inline" =>
    /\ Holds(f, flush[f].want) /\ Holds(Writer, flush[f].want)
    /\ attempt[f].pc = "done" => Answered(flush[f].want)

\* Either nobody else flushes, or no write has failed.
Undisturbed == (\A f, g \in Flushers : f = g) \/ faults = 0

FaultFree == faults = 0 => ~error /\ \A a \in Attempters : attempt[a].pc # "failed"

WantsLive == \A f \in Flushers : flush[f].want <= mem

FlushOK(f) == /\ WaitOK(f)
              /\ InlineOK(f)
              /\ flush[f].pc = "returned" => disk >= flush[f].want

\* The inductive invariant behind FlushDurable.
FlushInv == /\ PickOK /\ FaultFree /\ WantsLive
            /\ Undisturbed => \A f \in Flushers : FlushOK(f)

IInv == TypeOK /\ OrderInv /\ FlushInv

-----------------------------------------------------------------------------
\* The threads are told apart, and nobody is none of them.
LEMMA ThreadsDiffer == /\ Writer \notin Flushers /\ NoThread \notin Attempters
                       /\ Writer \in Attempters /\ Flushers \subseteq Attempters
BY WriteBehindAssumption DEF Attempters

\* The parts of TypeOK: the flags, what the writer picked, and the rest.
Flags == /\ dirty \in BOOLEAN /\ stop \in BOOLEAN /\ error \in BOOLEAN
         /\ force \in BOOLEAN /\ dropped \in BOOLEAN
PickedType == picked \in [forced : BOOLEAN, asked : Nat]
Counts == mem \in Nat /\ disk \in Nat /\ gen \in Nat /\ faults \in Nat
          /\ forceAsked \in Nat /\ forceDone \in 0..forceAsked
Threads == /\ changer \in {"idle", "start", "mark"} /\ thread \in {"none", "run", "exiting"}
           /\ attempt \in [Attempters ->
                [pc : {"none", "begin", "copy", "save", "saved", "failed", "done"},
                 gen : Nat, copy : Nat]]
           /\ io \in Attempters \cup {NoThread}
           /\ flush \in [Flushers -> [pc : {"idle", "wait", "inline", "returned", "raised",
                                            "timedout"}, ticket : Nat, want : Nat]]

\* These are all of TypeOK.
LEMMA TypeParts == TypeOK <=> Flags /\ PickedType /\ Counts /\ Threads
BY Zenon DEF TypeOK, Flags, PickedType, Counts, Threads

\* A new writer satisfies the invariant.
LEMMA InitHolds == Init => IInv
<1> SUFFICES ASSUME Init PROVE IInv
  OBVIOUS
<1> USE ThreadsDiffer DEF Init, NoAttempt, NothingPicked
<1>1. Flags
  BY DEF Flags
<1>2. PickedType
  BY DEF PickedType
<1>3. Counts /\ Threads
  BY DEF Counts, Threads
<1>4. OrderInv
  BY DEF OrderInv, Locked, InlineOnly, Ordered, Attempters
<1>5. FlushInv
  BY DEF FlushInv, FaultFree, WantsLive, PickOK, FlushOK, WaitOK, InlineOK, Attempters
<1> QED
  BY <1>1, <1>2, <1>3, <1>4, <1>5, TypeParts DEF IInv

-----------------------------------------------------------------------------
(* Types *)

\* Every action keeps the flags Boolean.
LEMMA FlagsStep == Flags /\ PickedType /\ Counts /\ [Next]_vars => Flags' /\ PickedType'
<1> SUFFICES ASSUME Flags, PickedType, Counts, [Next]_vars PROVE Flags' /\ PickedType'
  OBVIOUS
<1> USE DEF Flags, PickedType, stateVars, flagVars, forceVars, threadVars, attemptVars,
        NothingPicked
<1>1. CASE Change \/ StartThread \/ mark_dirty \/ Stop
  <2>1. CASE Change
    BY <2>1, Zenon DEF Change
  <2>2. CASE StartThread
    BY <2>2, Zenon DEF StartThread
  <2>3. CASE mark_dirty
    BY <2>3, Zenon DEF mark_dirty
  <2>4. CASE Stop
    BY <2>4, Zenon DEF Stop
  <2> QED
    BY <1>1, <2>1, <2>2, <2>3, <2>4
<1>2. ASSUME NEW a \in Attempters, Attempt(a) \/ AttemptFails(a) PROVE Flags' /\ PickedType'
  BY <1>2, Zenon DEF Attempt, AttemptBegin, AttemptCopy, AttemptSave, AttemptEnd, AttemptFails,
    StillDirty
<1>3. CASE WriterPick \/ WriterExit \/ WriterDone \/ ThreadGone
  <2>1. CASE WriterPick
    <3>1. picked' \in [forced : BOOLEAN, asked : Nat]
      BY <2>1 DEF WriterPick, Counts
    <3> QED
      BY <2>1, <3>1, Zenon DEF WriterPick
  <2>2. CASE WriterExit \/ ThreadGone
    <3>1. CASE WriterExit
      BY <3>1, Zenon DEF WriterExit
    <3>2. CASE ThreadGone
      BY <3>2, Zenon DEF ThreadGone
    <3> QED
      BY <2>2, <3>1, <3>2
  <2>3. CASE WriterDone
    <3>1. picked' \in [forced : BOOLEAN, asked : Nat]
      BY <2>3 DEF WriterDone
    <3> QED
      BY <2>3, <3>1, Zenon DEF WriterDone
  <2> QED
    BY <1>3, <2>1, <2>2, <2>3
<1>4. ASSUME NEW f \in Flushers,
             \/ FlushReturn(f) \/ FlushBegin(f) \/ FlushInline(f) \/ FlushRefused(f)
             \/ FlushTimeout(f)
      PROVE  Flags' /\ PickedType'
  BY <1>4, Zenon DEF FlushReturn, FlushBegin, FlushInline, FlushRefused, FlushTimeout
<1>5. CASE UNCHANGED vars
  BY <1>5, Zenon DEF vars
<1> QED
  BY <1>1, <1>2, <1>3, <1>4, <1>5 DEF Next, WriterThread, Flusher, Attempters

\* Every action keeps the counters; that forceDone stays below forceAsked is PickOK.
LEMMA CountsStep == PickedType /\ Counts /\ Threads /\ PickOK /\ [Next]_vars => Counts'
<1> SUFFICES ASSUME PickedType, Counts, Threads, PickOK, [Next]_vars PROVE Counts'
  OBVIOUS
<1> USE DEF Counts, stateVars, flagVars, forceVars, threadVars, attemptVars
<1>1. CASE Change \/ StartThread \/ mark_dirty \/ Stop
  <2>1. CASE Change
    BY <2>1 DEF Change
  <2>2. CASE StartThread
    BY <2>2 DEF StartThread
  <2>3. CASE mark_dirty
    BY <2>3 DEF mark_dirty
  <2>4. CASE Stop
    BY <2>4 DEF Stop
  <2> QED
    BY <1>1, <2>1, <2>2, <2>3, <2>4
<1>2. ASSUME NEW a \in Attempters, Attempt(a) \/ AttemptFails(a) PROVE Counts'
  BY <1>2 DEF Attempt, AttemptBegin, AttemptCopy, AttemptSave, AttemptEnd, AttemptFails, Threads
<1>3. CASE WriterPick \/ WriterExit \/ WriterDone \/ ThreadGone
  <2>1. CASE WriterPick
    BY <2>1 DEF WriterPick, TicketsDone, PickOK, PickedType
  <2>2. CASE WriterExit
    BY <2>2 DEF WriterExit, TicketsDone, PickOK, PickedType
  <2>3. CASE WriterDone
    BY <2>3 DEF WriterDone, TicketsDone, PickOK, PickedType
  <2>4. CASE ThreadGone
    BY <2>4 DEF ThreadGone, TicketsDone, PickOK, PickedType
  <2> QED
    BY <1>3, <2>1, <2>2, <2>3, <2>4
<1>4. ASSUME NEW f \in Flushers,
             \/ FlushReturn(f) \/ FlushBegin(f) \/ FlushInline(f) \/ FlushRefused(f)
             \/ FlushTimeout(f)
      PROVE  Counts'
  <2>1. CASE FlushBegin(f)
    BY <2>1 DEF FlushBegin
  <2>2. CASE FlushReturn(f) \/ FlushInline(f) \/ FlushRefused(f) \/ FlushTimeout(f)
    <3>1. CASE FlushReturn(f)
      BY <3>1 DEF FlushReturn
    <3>2. CASE FlushInline(f)
      BY <3>2 DEF FlushInline
    <3>3. CASE FlushRefused(f)
      BY <3>3 DEF FlushRefused
    <3>4. CASE FlushTimeout(f)
      BY <3>4 DEF FlushTimeout
    <3> QED
      BY <2>2, <3>1, <3>2, <3>3, <3>4
  <2> QED
    BY <1>4, <2>1, <2>2
<1>5. CASE UNCHANGED vars
  BY <1>5 DEF vars
<1> QED
  BY <1>1, <1>2, <1>3, <1>4, <1>5 DEF Next, WriterThread, Flusher, Attempters

\* Every action keeps the types of what the threads are doing.
LEMMA ThreadsStep == Counts /\ Threads /\ [Next]_vars => Threads'
<1> SUFFICES ASSUME Counts, Threads, [Next]_vars PROVE Threads'
  OBVIOUS
<1> USE ThreadsDiffer DEF Counts, Threads, stateVars, flagVars, forceVars, threadVars,
        attemptVars, NoAttempt
<1>1. CASE Change \/ StartThread \/ mark_dirty \/ Stop
  <2>1. CASE Change
    BY <2>1 DEF Change
  <2>2. CASE StartThread
    BY <2>2 DEF StartThread
  <2>3. CASE mark_dirty
    BY <2>3 DEF mark_dirty
  <2>4. CASE Stop
    BY <2>4 DEF Stop
  <2> QED
    BY <1>1, <2>1, <2>2, <2>3, <2>4
<1>2. ASSUME NEW a \in Attempters, Attempt(a) \/ AttemptFails(a) PROVE Threads'
  <2>1. CASE AttemptBegin(a) \/ AttemptCopy(a)
    <3>1. CASE AttemptBegin(a)
      BY <3>1 DEF AttemptBegin
    <3>2. CASE AttemptCopy(a)
      BY <3>2 DEF AttemptCopy
    <3> QED
      BY <2>1, <3>1, <3>2
  <2>2. CASE AttemptSave(a) \/ AttemptFails(a)
    <3>1. CASE AttemptSave(a)
      BY <3>1 DEF AttemptSave, Goto
    <3>2. CASE AttemptFails(a)
      BY <3>2 DEF AttemptFails, Goto
    <3> QED
      BY <2>2, <3>1, <3>2
  <2>3. CASE AttemptEnd(a)
    BY <2>3 DEF AttemptEnd
  <2> QED
    BY <1>2, <2>1, <2>2, <2>3 DEF Attempt
<1>3. CASE WriterPick \/ WriterExit \/ WriterDone \/ ThreadGone
  <2>1. CASE WriterPick
    BY <2>1 DEF WriterPick, Goto
  <2>2. CASE WriterExit
    BY <2>2 DEF WriterExit, Goto
  <2>3. CASE WriterDone
    BY <2>3 DEF WriterDone, Goto
  <2>4. CASE ThreadGone
    BY <2>4 DEF ThreadGone, Goto
  <2> QED
    BY <1>3, <2>1, <2>2, <2>3, <2>4
<1>4. ASSUME NEW f \in Flushers,
             \/ FlushReturn(f) \/ FlushBegin(f) \/ FlushInline(f) \/ FlushRefused(f)
             \/ FlushTimeout(f)
      PROVE  Threads'
  <2>1. CASE FlushReturn(f)
    <3>1. Answer \in {"raised", "returned"}
      BY DEF Answer
    <3>2. flush' = [flush EXCEPT ![f].pc = Answer, ![f].ticket = 0]
      BY <2>1 DEF FlushReturn
    <3>3. attempt' = attempt \/ attempt' = [attempt EXCEPT ![f].pc = "none"]
      BY <2>1 DEF FlushReturn, Goto
    <3>4. UNCHANGED <<changer, thread, io>>
      BY <2>1 DEF FlushReturn
    <3>5. attempt' \in [Attempters ->
            [pc : {"none", "begin", "copy", "save", "saved", "failed", "done"},
             gen : Nat, copy : Nat]]
      BY <3>3
    <3>6. flush' \in [Flushers -> [pc : {"idle", "wait", "inline", "returned", "raised",
                                         "timedout"}, ticket : Nat, want : Nat]]
      BY <3>1, <3>2
    <3> QED
      BY <3>4, <3>5, <3>6
  <2>2. CASE FlushBegin(f)
    BY <2>2 DEF FlushBegin
  <2>3. CASE FlushInline(f)
    BY <2>3 DEF FlushInline
  <2>4. CASE FlushRefused(f)
    BY <2>4 DEF FlushRefused
  <2>5. CASE FlushTimeout(f)
    BY <2>5 DEF FlushTimeout
  <2> QED
    BY <1>4, <2>1, <2>2, <2>3, <2>4, <2>5
<1>5. CASE UNCHANGED vars
  BY <1>5 DEF vars
<1> QED
  BY <1>1, <1>2, <1>3, <1>4, <1>5 DEF Next, WriterThread, Flusher, Attempters

-----------------------------------------------------------------------------
(* The order of saves *)

\* Every action keeps the lock discipline and the order of copy, disk and live state.
LEMMA OrderStep == Counts /\ Threads /\ OrderInv /\ [Next]_vars => OrderInv'
<1> SUFFICES ASSUME Counts, Threads, OrderInv, [Next]_vars PROVE OrderInv'
  OBVIOUS
<1> USE ThreadsDiffer DEF Counts, Threads, OrderInv, Locked, InlineOnly, Ordered, Attempters,
    stateVars, flagVars, forceVars, threadVars, attemptVars, NoAttempt
<1>1. CASE Change
  BY <1>1 DEF Change
<1>2. CASE StartThread \/ mark_dirty \/ Stop
  <2>1. CASE StartThread
    BY <2>1 DEF StartThread
  <2>2. CASE mark_dirty
    BY <2>2 DEF mark_dirty
  <2>3. CASE Stop
    BY <2>3 DEF Stop
  <2> QED
    BY <1>2, <2>1, <2>2, <2>3
<1>3. ASSUME NEW a \in Attempters, Attempt(a) \/ AttemptFails(a) PROVE OrderInv'
  <2>1. CASE AttemptBegin(a)
    BY <2>1 DEF AttemptBegin
  <2>2. CASE AttemptCopy(a)
    BY <2>2 DEF AttemptCopy
  <2>3. CASE AttemptSave(a)
    BY <2>3 DEF AttemptSave, Goto
  <2>4. CASE AttemptFails(a)
    BY <2>4 DEF AttemptFails, Goto
  <2>5. CASE AttemptEnd(a)
    BY <2>5 DEF AttemptEnd
  <2> QED
    BY <1>3, <2>1, <2>2, <2>3, <2>4, <2>5 DEF Attempt
<1>4. CASE WriterPick \/ WriterDone
  <2>1. CASE WriterPick
    BY <2>1 DEF WriterPick, Goto
  <2>2. CASE WriterDone
    BY <2>2 DEF WriterDone, Goto
  <2> QED
    BY <1>4, <2>1, <2>2
<1>5. CASE WriterExit \/ ThreadGone
  <2>1. CASE WriterExit
    BY <2>1 DEF WriterExit
  <2>2. CASE ThreadGone
    BY <2>2 DEF ThreadGone
  <2> QED
    BY <1>5, <2>1, <2>2
<1>6. ASSUME NEW f \in Flushers,
             \/ FlushReturn(f) \/ FlushBegin(f) \/ FlushInline(f) \/ FlushRefused(f)
             \/ FlushTimeout(f)
      PROVE  OrderInv'
  <2>1. CASE FlushReturn(f)
    BY <2>1 DEF FlushReturn, Goto, Answer
  <2>2. CASE FlushInline(f)
    BY <2>2 DEF FlushInline, Busy
  <2>3. CASE FlushBegin(f)
    BY <2>3 DEF FlushBegin, Busy
  <2>4. CASE FlushRefused(f)
    BY <2>4 DEF FlushRefused, Busy
  <2>5. CASE FlushTimeout(f)
    BY <2>5 DEF FlushTimeout
  <2> QED
    BY <1>6, <2>1, <2>2, <2>3, <2>4, <2>5
<1>7. CASE UNCHANGED vars
  BY <1>7 DEF vars
<1> QED
  BY <1>1, <1>2, <1>3, <1>4, <1>5, <1>6, <1>7 DEF Next, WriterThread, Flusher

\* A step never puts an older state on the disk: only the lock's holder saves.
LEMMA DiskStep == Counts /\ Threads /\ OrderInv /\ [Next]_vars => disk' >= disk
<1> SUFFICES ASSUME Counts, Threads, OrderInv, [Next]_vars PROVE disk' >= disk
  OBVIOUS
<1>1. ASSUME NEW a \in Attempters, AttemptSave(a) PROVE disk' >= disk
  BY <1>1 DEF AttemptSave, Goto, Counts, Threads, OrderInv, Ordered
<1>2. CASE UNCHANGED disk
  BY <1>2 DEF Counts, Threads
<1>3. ASSUME NEW a \in Attempters, Attempt(a) \/ AttemptFails(a) PROVE disk' >= disk
  BY <1>1, <1>2, <1>3 DEF Attempt, AttemptBegin, AttemptCopy, AttemptEnd, AttemptFails, stateVars
<1> QED
  BY <1>2, <1>3 DEF Next, vars, stateVars, Change, StartThread, mark_dirty, Stop, WriterThread,
    WriterPick, WriterExit, WriterDone, ThreadGone, Flusher, FlushReturn, FlushBegin,
    FlushInline, FlushRefused, FlushTimeout, Attempters

-----------------------------------------------------------------------------
(* Flushes *)

\* Every action keeps what the writer picked.
LEMMA PickStep == Counts /\ Threads /\ PickedType /\ PickOK /\ [Next]_vars => PickOK'
<1> SUFFICES ASSUME Counts, Threads, PickedType, PickOK, [Next]_vars PROVE PickOK'
  OBVIOUS
<1> USE ThreadsDiffer DEF Counts, Threads, PickedType, PickOK, stateVars, flagVars, forceVars,
    threadVars, attemptVars, NoAttempt, NothingPicked
<1>1. CASE Change \/ StartThread \/ mark_dirty \/ Stop
  <2>1. CASE Change
    BY <2>1 DEF Change
  <2>2. CASE StartThread
    BY <2>2 DEF StartThread
  <2>3. CASE mark_dirty
    BY <2>3 DEF mark_dirty
  <2>4. CASE Stop
    BY <2>4 DEF Stop
  <2> QED
    BY <1>1, <2>1, <2>2, <2>3, <2>4
<1>2. ASSUME NEW a \in Attempters, Attempt(a) \/ AttemptFails(a) PROVE PickOK'
  <2>1. CASE AttemptBegin(a) \/ AttemptCopy(a)
    <3>1. CASE AttemptBegin(a)
      BY <3>1 DEF AttemptBegin
    <3>2. CASE AttemptCopy(a)
      BY <3>2 DEF AttemptCopy
    <3> QED
      BY <2>1, <3>1, <3>2
  <2>2. CASE AttemptSave(a) \/ AttemptFails(a)
    <3>1. CASE AttemptSave(a)
      BY <3>1 DEF AttemptSave, Goto
    <3>2. CASE AttemptFails(a)
      BY <3>2 DEF AttemptFails, Goto
    <3> QED
      BY <2>2, <3>1, <3>2
  <2>3. CASE AttemptEnd(a)
    BY <2>3 DEF AttemptEnd
  <2> QED
    BY <1>2, <2>1, <2>2, <2>3 DEF Attempt
<1>3. CASE WriterPick
  BY <1>3 DEF WriterPick
<1>4. CASE WriterExit \/ WriterDone \/ ThreadGone
  <2>1. CASE WriterExit
    BY <2>1 DEF WriterExit, Goto
  <2>2. CASE WriterDone
    BY <2>2 DEF WriterDone, Goto
  <2>3. CASE ThreadGone
    BY <2>3 DEF ThreadGone, Goto
  <2> QED
    BY <1>4, <2>1, <2>2, <2>3
<1>5. ASSUME NEW f \in Flushers,
             \/ FlushReturn(f) \/ FlushBegin(f) \/ FlushInline(f) \/ FlushRefused(f)
             \/ FlushTimeout(f)
      PROVE  PickOK'
  <2>1. CASE FlushReturn(f) \/ FlushInline(f)
    <3>1. CASE FlushReturn(f)
      BY <3>1 DEF FlushReturn, Goto
    <3>2. CASE FlushInline(f)
      BY <3>2 DEF FlushInline, Goto
    <3> QED
      BY <2>1, <3>1, <3>2
  <2>2. CASE FlushBegin(f)
    BY <2>2 DEF FlushBegin
  <2>3. CASE FlushRefused(f) \/ FlushTimeout(f)
    <3>1. CASE FlushRefused(f)
      BY <3>1 DEF FlushRefused
    <3>2. CASE FlushTimeout(f)
      BY <3>2 DEF FlushTimeout
    <3> QED
      BY <2>3, <3>1, <3>2
  <2> QED
    BY <1>5, <2>1, <2>2, <2>3
<1>6. CASE UNCHANGED vars
  BY <1>6 DEF vars
<1> QED
  BY <1>1, <1>2, <1>3, <1>4, <1>5, <1>6 DEF Next, WriterThread, Flusher, Attempters

\* An error takes a failed write.
LEMMA FaultFreeStep == Counts /\ Threads /\ FaultFree /\ [Next]_vars => FaultFree'
<1> SUFFICES ASSUME Counts, Threads, FaultFree, [Next]_vars PROVE FaultFree'
  OBVIOUS
<1> USE ThreadsDiffer DEF Counts, Threads, FaultFree, stateVars, flagVars, forceVars,
    threadVars, attemptVars, NoAttempt
<1>1. CASE Change \/ StartThread \/ mark_dirty \/ Stop
  <2>1. CASE Change
    BY <2>1 DEF Change
  <2>2. CASE StartThread
    BY <2>2 DEF StartThread
  <2>3. CASE mark_dirty
    BY <2>3 DEF mark_dirty
  <2>4. CASE Stop
    BY <2>4 DEF Stop
  <2> QED
    BY <1>1, <2>1, <2>2, <2>3, <2>4
<1>2. ASSUME NEW a \in Attempters, Attempt(a) \/ AttemptFails(a) PROVE FaultFree'
  <2>1. CASE AttemptBegin(a) \/ AttemptCopy(a)
    <3>1. CASE AttemptBegin(a)
      BY <3>1 DEF AttemptBegin
    <3>2. CASE AttemptCopy(a)
      BY <3>2 DEF AttemptCopy
    <3> QED
      BY <2>1, <3>1, <3>2
  <2>2. CASE AttemptSave(a)
    BY <2>2 DEF AttemptSave, Goto
  <2>3. CASE AttemptEnd(a)
    BY <2>3 DEF AttemptEnd
  <2>4. CASE AttemptFails(a)
    BY <2>4 DEF AttemptFails
  <2> QED
    BY <1>2, <2>1, <2>2, <2>3, <2>4 DEF Attempt
<1>3. CASE WriterPick \/ WriterDone
  <2>1. CASE WriterPick
    BY <2>1 DEF WriterPick, Goto
  <2>2. CASE WriterDone
    BY <2>2 DEF WriterDone, Goto
  <2> QED
    BY <1>3, <2>1, <2>2
<1>4. CASE WriterExit \/ ThreadGone
  <2>1. CASE WriterExit
    BY <2>1 DEF WriterExit
  <2>2. CASE ThreadGone
    BY <2>2 DEF ThreadGone
  <2> QED
    BY <1>4, <2>1, <2>2
<1>5. ASSUME NEW f \in Flushers,
             \/ FlushReturn(f) \/ FlushBegin(f) \/ FlushInline(f) \/ FlushRefused(f)
             \/ FlushTimeout(f)
      PROVE  FaultFree'
  <2>1. CASE FlushReturn(f)
    <3>1. attempt' = attempt \/ attempt' = [attempt EXCEPT ![f].pc = "none"]
      BY <2>1 DEF FlushReturn, Goto
    <3>2. UNCHANGED <<error, faults>>
      BY <2>1 DEF FlushReturn
    <3> QED
      BY <3>1, <3>2
  <2>2. CASE FlushInline(f)
    BY <2>2 DEF FlushInline
  <2>3. CASE FlushBegin(f)
    BY <2>3 DEF FlushBegin
  <2>4. CASE FlushRefused(f) \/ FlushTimeout(f)
    <3>1. CASE FlushRefused(f)
      BY <3>1 DEF FlushRefused
    <3>2. CASE FlushTimeout(f)
      BY <3>2 DEF FlushTimeout
    <3> QED
      BY <2>4, <3>1, <3>2
  <2> QED
    BY <1>5, <2>1, <2>2, <2>3, <2>4
<1>6. CASE UNCHANGED vars
  BY <1>6 DEF vars
<1> QED
  BY <1>1, <1>2, <1>3, <1>4, <1>5, <1>6 DEF Next, WriterThread, Flusher, Attempters

\* The number of failed writes never falls.
LEMMA FaultsStep == Counts /\ [Next]_vars => faults' >= faults
<1> SUFFICES ASSUME Counts, [Next]_vars PROVE faults' >= faults
  OBVIOUS
<1>1. CASE UNCHANGED faults
  BY <1>1 DEF Counts
<1>2. ASSUME NEW a \in Attempters, Attempt(a) \/ AttemptFails(a) PROVE faults' >= faults
  BY <1>1, <1>2 DEF Counts, Attempt, AttemptBegin, AttemptCopy, AttemptSave, AttemptEnd,
     AttemptFails
<1>3. ASSUME NEW f \in Flushers,
             \/ FlushReturn(f) \/ FlushBegin(f) \/ FlushInline(f) \/ FlushRefused(f)
             \/ FlushTimeout(f)
      PROVE  UNCHANGED faults
  BY <1>3 DEF FlushReturn, FlushBegin, FlushInline, FlushRefused, FlushTimeout
<1> QED
  BY <1>1, <1>2, <1>3 DEF Next, vars, Change, StartThread, mark_dirty, Stop, WriterThread,
    WriterPick, WriterExit, WriterDone, ThreadGone, Flusher, Attempters

\* What a flush wants was live when it began.
LEMMA WantsStep == Counts /\ Threads /\ WantsLive /\ [Next]_vars => WantsLive'
<1> SUFFICES ASSUME Counts, Threads, WantsLive, [Next]_vars PROVE WantsLive'
  OBVIOUS
<1> USE DEF Counts, Threads, WantsLive, stateVars, attemptVars
<1>1. CASE Change
  BY <1>1 DEF Change
<1>2. CASE UNCHANGED <<mem, flush>>
  BY <1>2
<1>3. ASSUME NEW f \in Flushers,
             \/ FlushReturn(f) \/ FlushBegin(f) \/ FlushInline(f) \/ FlushRefused(f)
             \/ FlushTimeout(f)
      PROVE  WantsLive'
  <2>1. CASE FlushReturn(f)
    BY <2>1 DEF FlushReturn
  <2>2. CASE FlushBegin(f)
    BY <2>2 DEF FlushBegin
  <2>3. CASE FlushInline(f)
    BY <2>3 DEF FlushInline
  <2>4. CASE FlushRefused(f)
    BY <2>4 DEF FlushRefused
  <2>5. CASE FlushTimeout(f)
    BY <2>5 DEF FlushTimeout
  <2> QED
    BY <1>3, <2>1, <2>2, <2>3, <2>4, <2>5
<1>4. ASSUME NEW a \in Attempters, Attempt(a) \/ AttemptFails(a) PROVE WantsLive'
  BY <1>2, <1>4 DEF Attempt, AttemptBegin, AttemptCopy, AttemptSave, AttemptEnd, AttemptFails
<1> QED
  BY <1>1, <1>2, <1>3, <1>4 DEF Next, vars, StartThread, mark_dirty, Stop, WriterThread,
    WriterPick, WriterExit, WriterDone, ThreadGone, Flusher, Attempters

\* Undisturbed: every action keeps what a flush waits for.
LEMMA FlushStep ==
  Counts /\ Threads /\ PickedType /\ OrderInv /\ FlushInv /\ [Next]_vars
    => (Undisturbed => \A f \in Flushers : FlushOK(f))'
<1> SUFFICES ASSUME Counts, Threads, PickedType, OrderInv, FlushInv, [Next]_vars, Undisturbed',
                    NEW g \in Flushers
             PROVE  FlushOK(g)'
  OBVIOUS
<1>0. Undisturbed /\ FlushOK(g) /\ PickOK /\ FaultFree /\ WantsLive
  <2>1. faults' = 0 => faults = 0
    BY FaultsStep, CountsStep DEF FlushInv, Counts
  <2> QED
    BY <2>1 DEF FlushInv, Undisturbed
<1>1. disk' >= disk /\ disk \in Nat /\ disk' \in Nat
  BY DiskStep, CountsStep, <1>0 DEF Counts
<1> USE <1>0, <1>1, ThreadsDiffer DEF Counts, Threads, PickedType, FlushOK, WaitOK, InlineOK,
        Holds,
    Answered, stateVars, flagVars, forceVars, threadVars, attemptVars, NoAttempt, NothingPicked
<1>2. CASE Change \/ StartThread \/ mark_dirty \/ Stop
  <2>1. CASE Change
    BY <2>1 DEF Change
  <2>2. CASE StartThread
    BY <2>2 DEF StartThread
  <2>3. CASE mark_dirty
    BY <2>3 DEF mark_dirty
  <2>4. CASE Stop
    BY <2>4 DEF Stop
  <2> QED
    BY <1>2, <2>1, <2>2, <2>3, <2>4
<1>3. ASSUME NEW a \in Attempters, Attempt(a) \/ AttemptFails(a) PROVE FlushOK(g)'
  <2>1. CASE AttemptBegin(a)
    BY <2>1 DEF AttemptBegin
  <2>2. CASE AttemptCopy(a)
    BY <2>2 DEF AttemptCopy, WantsLive
  <2>3. CASE AttemptSave(a)
    BY <2>3 DEF AttemptSave, Goto, OrderInv, Locked, Ordered
  <2>4. CASE AttemptEnd(a)
    <3> USE <2>4 DEF AttemptEnd
    <3>1. attempt[a].pc = "failed" => error'
      OBVIOUS
    <3>2. a = Writer \/ a = g \/ ~error
      BY DEF Undisturbed, FaultFree, Attempters
    <3>3. a = g => flush[g].pc = "inline"
      BY DEF OrderInv, InlineOnly
    <3>4. CASE attempt[a].pc = "failed"
      BY <3>1, <3>4
    <3>5. CASE attempt[a].pc = "saved"
      BY <3>2, <3>3, <3>5
    <3> QED
      BY <3>4, <3>5
  <2>5. CASE AttemptFails(a)
    BY <2>5 DEF AttemptFails, Goto
  <2> QED
    BY <1>3, <2>1, <2>2, <2>3, <2>4, <2>5 DEF Attempt
<1>4. CASE WriterPick
  BY <1>4 DEF WriterPick
<1>5. CASE WriterDone
  BY <1>5 DEF WriterDone, Goto, TicketsDone
<1>6. CASE WriterExit \/ ThreadGone
  <2>1. CASE WriterExit
    BY <2>1 DEF WriterExit
  <2>2. CASE ThreadGone
    BY <2>2 DEF ThreadGone
  <2> QED
    BY <1>6, <2>1, <2>2
<1>7. ASSUME NEW f \in Flushers,
             \/ FlushReturn(f) \/ FlushBegin(f) \/ FlushInline(f) \/ FlushRefused(f)
             \/ FlushTimeout(f)
      PROVE  FlushOK(g)'
  <2>1. CASE FlushReturn(f)
    <3>1. /\ flush' = [flush EXCEPT ![f].pc = Answer, ![f].ticket = 0]
          /\ UNCHANGED <<disk, error, forceAsked, forceDone, picked>>
      BY <2>1 DEF FlushReturn
    <3>2. Answer \in {"raised", "returned"} /\ (Answer = "returned" => ~error)
      BY DEF Answer
    <3>3. /\ attempt' = attempt \/ attempt' = [attempt EXCEPT ![f].pc = "none"]
          /\ ~error => disk >= flush[f].want \/ f # g
      BY <2>1 DEF FlushReturn, Goto
    <3>4. CASE f = g
      BY <3>1, <3>2, <3>3, <3>4
    <3>5. CASE f # g
      BY <3>1, <3>3, <3>5
    <3> QED
      BY <3>4, <3>5
  <2>2. CASE FlushBegin(f)
    BY <2>2 DEF FlushBegin, PickOK, FaultFree, Undisturbed
  <2>3. CASE FlushInline(f)
    BY <2>3 DEF FlushInline, PickOK
  <2>4. CASE FlushRefused(f)
    BY <2>4 DEF FlushRefused
  <2>5. CASE FlushTimeout(f)
    BY <2>5 DEF FlushTimeout
  <2> QED
    BY <1>7, <2>1, <2>2, <2>3, <2>4, <2>5
<1>8. CASE UNCHANGED vars
  BY <1>8 DEF vars
<1> QED
  BY <1>2, <1>3, <1>4, <1>5, <1>6, <1>7, <1>8 DEF Next, WriterThread, Flusher, Attempters

-----------------------------------------------------------------------------
(* Theorems *)

\* The invariant is inductive: every behaviour of the writer satisfies it.
THEOREM WriteBehindInductive == Spec => []IInv
<1>1. IInv /\ [Next]_vars => IInv'
  <2> SUFFICES ASSUME IInv, [Next]_vars PROVE IInv'
    OBVIOUS
  <2>1. Flags /\ PickedType /\ Counts /\ Threads
    BY TypeParts DEF IInv
  <2>2. OrderInv /\ PickOK /\ FaultFree /\ WantsLive /\ FlushInv
    BY DEF IInv, FlushInv
  <2>3. Flags' /\ PickedType' /\ Counts' /\ Threads'
    BY <2>1, <2>2, FlagsStep, CountsStep, ThreadsStep
  <2>4. TypeOK'
    BY <2>3, Zenon DEF TypeOK, Flags, PickedType, Counts, Threads
  <2>5. OrderInv' /\ PickOK' /\ FaultFree' /\ WantsLive'
    BY <2>1, <2>2, OrderStep, PickStep, FaultFreeStep, WantsStep
  <2>6. (Undisturbed => \A f \in Flushers : FlushOK(f))'
    BY <2>1, <2>2, FlushStep
  <2> QED
    BY <2>4, <2>5, <2>6 DEF IInv, FlushInv
<1> QED
  BY InitHolds, <1>1, PTL DEF Spec

\* The writer's fields, attempts and flushers keep their types.
THEOREM WriteBehindTypes == Spec => []TypeOK
<1>1. IInv => TypeOK
  BY DEF IInv
<1> QED
  BY WriteBehindInductive, <1>1, PTL

\* No write puts an older state on the disk than the one it holds: the I/O lock spans
\* copy and save.
THEOREM DiskNeverGoesBack == Spec => SavesInOrder
<1>1. IInv /\ [Next]_vars => [disk' >= disk]_vars
  BY DiskStep, TypeParts DEF IInv
<1> QED
  BY WriteBehindInductive, <1>1, PTL DEF Spec, SavesInOrder

\* A flush that returns without raising has made everything before it durable, provided
\* that nobody else flushes or that no write has failed.  (With two flushers and a failed
\* write it may not: the second flush clears the error of the first.)
THEOREM FlushIsDurable == Spec => [](Undisturbed => FlushDurable)
<1>1. IInv => (Undisturbed => FlushDurable)
  BY DEF IInv, FlushInv, FlushOK, FlushDurable
<1> QED
  BY WriteBehindInductive, <1>1, PTL
=============================================================================
