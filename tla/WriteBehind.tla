----------------------------- MODULE WriteBehind -----------------------------
(***************************************************************************)
(* WriteBehindWriter: one daemon thread that turns dirty marks into        *)
(* coalesced snapshot writes, and the callers that force a flush and wait  *)
(* for it (hpcperfstats/dbload/lib/sync_timedb_write_behind.py).           *)
(*                                                                         *)
(* The state that is persisted is abstracted to the number of changes made *)
(* to it: mem is the live state, disk the last one saved.  The coalescing  *)
(* interval may be over at any time a write is owed.  The write callback   *)
(* is WriteBehindEntryStore's: copy and save under one I/O lock.           *)
(***************************************************************************)
EXTENDS Integers, FiniteSets

CONSTANTS
  Flushers,      \* threads that call flush
  Writer,        \* the daemon thread
  NoThread,      \* nobody holds the I/O lock
  InlineOk,      \* values callers pass for inline_ok: write yourself when no thread runs
  MayStop,       \* whether stop is called
  MayTimeOut,    \* whether a flush may outwait FORCE_FLUSH_TIMEOUT_S
  MaxChanges,    \* bound: changes to the live state
  MaxFlushes,    \* bound: flushes through the thread
  MaxFaults      \* bound: failed writes

ASSUME WriteBehindAssumption ==
  /\ IsFiniteSet(Flushers) /\ Writer \notin Flushers
  /\ NoThread \notin Flushers \cup {Writer}
  /\ InlineOk \subseteq BOOLEAN /\ MayStop \in BOOLEAN /\ MayTimeOut \in BOOLEAN
  /\ MaxChanges \in Nat /\ MaxFlushes \in Nat /\ MaxFaults \in Nat

Attempters == Flushers \cup {Writer}

VARIABLES
  mem, disk,                  \* live and saved state
  changer,                    \* the changing thread: "idle", "start", "mark"
  dirty, gen, stop, error,    \* _dirty, _gen, _stop, _error is not None
  force, forceAsked, forceDone,
  thread,                     \* "none", "run", or "exiting": returned but is_alive
  picked,                     \* what _main noted when it left its wait
  attempt,                    \* _attempt of each thread
  io,                         \* holder of the I/O lock
  flush,                      \* what each flusher is doing
  dropped,                    \* stop was asked not to flush (history)
  faults

stateVars == <<mem, disk, changer>>
flagVars == <<dirty, gen, stop, error>>
forceVars == <<force, forceAsked, forceDone>>
threadVars == <<thread, picked>>
attemptVars == <<attempt, io>>
vars == <<stateVars, flagVars, forceVars, threadVars, attemptVars, flush, dropped, faults>>

NoAttempt == [pc |-> "none", gen |-> 0, copy |-> 0]
NothingPicked == [forced |-> FALSE, asked |-> 0]

Init ==
  /\ mem = 0 /\ disk = 0 /\ changer = "idle"
  /\ dirty = FALSE /\ gen = 0 /\ stop = FALSE /\ error = FALSE
  /\ force = FALSE /\ forceAsked = 0 /\ forceDone = 0
  /\ thread = "none" /\ picked = NothingPicked
  /\ attempt = [a \in Attempters |-> NoAttempt]
  /\ io = NoThread
  /\ flush = [f \in Flushers |-> [pc |-> "idle", ticket |-> 0, want |-> 0]]
  /\ dropped = FALSE /\ faults = 0

-----------------------------------------------------------------------------
(* A change: WriteBehindEntryStore.set changes the entries, starts the thread, marks *)

Change ==
  /\ changer = "idle" /\ mem < MaxChanges
  /\ mem' = mem + 1 /\ changer' = "start"
  /\ UNCHANGED <<disk, flagVars, forceVars, threadVars, attemptVars, flush, dropped, faults>>

\* start: a thread that is alive, though leaving, is not replaced.
StartThread ==
  /\ changer = "start" /\ changer' = "mark"
  /\ IF thread = "none" THEN thread' = "run" /\ stop' = FALSE
                        ELSE UNCHANGED <<thread, stop>>
  /\ UNCHANGED <<mem, disk, dirty, gen, error, forceVars, picked, attemptVars, flush,
                 dropped, faults>>

mark_dirty ==
  /\ changer = "mark" /\ changer' = "idle"
  /\ dirty' = TRUE /\ gen' = gen + 1
  /\ UNCHANGED <<mem, disk, stop, error, forceVars, threadVars, attemptVars, flush,
                 dropped, faults>>

Stop ==
  /\ MayStop
  /\ thread = "run" /\ ~stop
  /\ stop' = TRUE
  /\ \/ UNCHANGED <<dirty, dropped>>
     \/ dirty' = FALSE /\ dropped' = TRUE
  /\ UNCHANGED <<stateVars, gen, error, forceVars, threadVars, attemptVars, flush, faults>>

-----------------------------------------------------------------------------
(* _attempt: note the generation, write, clear dirty unless a change raced it *)

Goto(a, from, to) ==
  /\ attempt[a].pc = from
  /\ attempt' = [attempt EXCEPT ![a].pc = to]

AttemptBegin(a) ==
  /\ attempt[a].pc = "begin"
  /\ attempt' = [attempt EXCEPT ![a].pc = "copy", ![a].gen = gen]
  /\ UNCHANGED <<stateVars, flagVars, forceVars, threadVars, io, flush, dropped, faults>>

\* Mutant: the write callback without its I/O lock.
AttemptCopy_NoLock(a) ==
  /\ attempt[a].pc = "copy"
  /\ attempt' = [attempt EXCEPT ![a].pc = "save", ![a].copy = mem]
  /\ UNCHANGED <<stateVars, flagVars, forceVars, threadVars, io, flush, dropped, faults>>

AttemptCopy(a) ==
  /\ attempt[a].pc = "copy" /\ io = NoThread
  /\ attempt' = [attempt EXCEPT ![a].pc = "save", ![a].copy = mem]
  /\ io' = a
  /\ UNCHANGED <<stateVars, flagVars, forceVars, threadVars, flush, dropped, faults>>

AttemptSave(a) ==
  /\ Goto(a, "save", "saved")
  /\ disk' = attempt[a].copy
  /\ io' = NoThread
  /\ UNCHANGED <<mem, changer, flagVars, forceVars, threadVars, flush, dropped, faults>>

AttemptFails(a) ==
  /\ faults < MaxFaults /\ faults' = faults + 1
  /\ Goto(a, "save", "failed")
  /\ io' = NoThread
  /\ UNCHANGED <<stateVars, flagVars, forceVars, threadVars, flush, dropped>>

\* Mutant and original: what the dirty flag becomes after a successful write.
StillDirty_Never(a) == FALSE
StillDirty(a) == dirty /\ gen # attempt[a].gen

AttemptEnd(a) ==
  /\ \/ attempt[a].pc = "saved" /\ error' = FALSE /\ dirty' = StillDirty(a)
     \/ attempt[a].pc = "failed" /\ error' = TRUE /\ UNCHANGED dirty
  /\ attempt' = [attempt EXCEPT ![a] = [NoAttempt EXCEPT !.pc = "done"]]
  /\ UNCHANGED <<stateVars, gen, stop, forceVars, threadVars, io, flush, dropped, faults>>

-----------------------------------------------------------------------------
(* _main *)

\* Mutant: the force flag is read after it was cleared.
WriterPick_ForcedLate ==
  /\ thread = "run" /\ attempt[Writer].pc = "none"
  /\ force \/ dirty
  /\ picked' = [forced |-> FALSE, asked |-> forceAsked]
  /\ force' = FALSE
  /\ attempt' = [attempt EXCEPT ![Writer].pc = "begin"]
  /\ UNCHANGED <<stateVars, flagVars, forceAsked, forceDone, thread, io, flush, dropped,
                 faults>>

\* A flush was asked for, or a write is owed and the interval is over or stop is set.
WriterPick ==
  /\ thread = "run" /\ attempt[Writer].pc = "none"
  /\ force \/ dirty
  /\ picked' = [forced |-> force, asked |-> forceAsked]
  /\ force' = FALSE
  /\ attempt' = [attempt EXCEPT ![Writer].pc = "begin"]
  /\ UNCHANGED <<stateVars, flagVars, forceAsked, forceDone, thread, io, flush, dropped,
                 faults>>

WriterExit ==
  /\ thread = "run" /\ attempt[Writer].pc = "none"
  /\ stop /\ ~force /\ ~dirty
  /\ thread' = "exiting"
  /\ UNCHANGED <<stateVars, flagVars, forceVars, picked, attemptVars, flush, dropped, faults>>

\* Mutants and original: the tickets a finished forced attempt completes.
TicketsDone_AskedSince == forceAsked
TicketsDone_OneMore == picked.asked + 1
TicketsDone == IF picked.asked > forceDone THEN picked.asked ELSE forceDone

WriterDone ==
  /\ Goto(Writer, "done", "none")
  /\ forceDone' = IF picked.forced THEN TicketsDone ELSE forceDone
  /\ picked' = NothingPicked
  /\ thread' = IF stop /\ error THEN "exiting" ELSE thread
  /\ UNCHANGED <<stateVars, flagVars, force, forceAsked, io, flush, dropped, faults>>

ThreadGone ==
  /\ thread = "exiting" /\ thread' = "none"
  /\ UNCHANGED <<stateVars, flagVars, forceVars, picked, attemptVars, flush, dropped, faults>>

-----------------------------------------------------------------------------
(* flush *)

Busy(f) == flush[f].pc \in {"wait", "inline"}

FlushBegin(f) ==
  /\ ~Busy(f) /\ thread # "none" /\ forceAsked < MaxFlushes
  /\ forceAsked' = forceAsked + 1 /\ force' = TRUE /\ error' = FALSE
  /\ flush' = [flush EXCEPT ![f] = [pc |-> "wait", ticket |-> forceAsked + 1, want |-> mem]]
  /\ UNCHANGED <<stateVars, dirty, gen, stop, forceDone, threadVars, attemptVars, dropped,
                 faults>>

\* No thread: the caller writes itself (inline_ok).
FlushInline(f) ==
  /\ ~Busy(f) /\ thread = "none" /\ TRUE \in InlineOk
  /\ flush' = [flush EXCEPT ![f] = [pc |-> "inline", ticket |-> 0, want |-> mem]]
  /\ attempt' = [attempt EXCEPT ![f].pc = "begin"]
  /\ UNCHANGED <<stateVars, flagVars, forceVars, threadVars, io, dropped, faults>>

\* No thread and not inline_ok: RuntimeError.
FlushRefused(f) ==
  /\ ~Busy(f) /\ thread = "none" /\ FALSE \in InlineOk
  /\ flush' = [flush EXCEPT ![f] = [pc |-> "raised", ticket |-> 0, want |-> mem]]
  /\ UNCHANGED <<stateVars, flagVars, forceVars, threadVars, attemptVars, dropped, faults>>

Answer == IF error THEN "raised" ELSE "returned"

FlushReturn(f) ==
  /\ \/ /\ flush[f].pc = "wait" /\ forceDone >= flush[f].ticket
        /\ UNCHANGED attempt
     \/ /\ flush[f].pc = "inline" /\ Goto(f, "done", "none")
  /\ flush' = [flush EXCEPT ![f].pc = Answer, ![f].ticket = 0]
  /\ UNCHANGED <<stateVars, flagVars, forceVars, threadVars, io, dropped, faults>>

FlushTimeout(f) ==
  /\ MayTimeOut
  /\ flush[f].pc = "wait" /\ forceDone < flush[f].ticket
  /\ flush' = [flush EXCEPT ![f].pc = "timedout"]
  /\ UNCHANGED <<stateVars, flagVars, forceVars, threadVars, attemptVars, dropped, faults>>

Attempt(a) == \/ AttemptBegin(a) \/ AttemptCopy(a) \/ AttemptSave(a) \/ AttemptEnd(a)

WriterThread == WriterPick \/ WriterExit \/ WriterDone \/ ThreadGone \/ Attempt(Writer)

Flusher(f) == FlushReturn(f) \/ Attempt(f)

Next == \/ Change \/ StartThread \/ mark_dirty \/ Stop
        \/ WriterThread
        \/ \E a \in Attempters : AttemptFails(a)
        \/ \E f \in Flushers : \/ Flusher(f) \/ FlushBegin(f) \/ FlushInline(f)
                              \/ FlushRefused(f) \/ FlushTimeout(f)

Spec == Init /\ [][Next]_vars

\* Fairness: threads that can go on do, and a change in progress is completed.
FairSpec == /\ Spec
            /\ WF_vars(WriterThread)
            /\ WF_vars(StartThread \/ mark_dirty)
            /\ \A f \in Flushers : WF_vars(Flusher(f))

-----------------------------------------------------------------------------
(* Properties *)

\* The type of the writer's fields, the attempts and the flushers.
TypeOK ==
  /\ mem \in Nat /\ disk \in Nat /\ changer \in {"idle", "start", "mark"}
  /\ dirty \in BOOLEAN /\ gen \in Nat /\ stop \in BOOLEAN /\ error \in BOOLEAN
  /\ force \in BOOLEAN /\ forceAsked \in Nat /\ forceDone \in 0..forceAsked
  /\ thread \in {"none", "run", "exiting"}
  /\ picked \in [forced : BOOLEAN, asked : Nat]
  /\ attempt \in [Attempters -> [pc : {"none", "begin", "copy", "save", "saved", "failed",
                                       "done"}, gen : Nat, copy : Nat]]
  /\ io \in Attempters \cup {NoThread}
  /\ flush \in [Flushers -> [pc : {"idle", "wait", "inline", "returned", "raised",
                                   "timedout"}, ticket : Nat, want : Nat]]
  /\ dropped \in BOOLEAN /\ faults \in Nat

\* A flush that returns without raising has made everything that preceded it durable,
\* whether the thread or the caller wrote, and whatever writes failed meanwhile.
FlushDurable == \A f \in Flushers : flush[f].pc = "returned" => disk >= flush[f].want

\* A write never puts back an older state than the one on disk.
SavesInOrder == [][disk' >= disk]_vars

\* Every marked change reaches the disk, failed and racing writes notwithstanding,
\* unless the writer is told to stop.
MarksReachDisk == \A n \in 1..MaxChanges : (gen >= n) ~> (disk >= n \/ stop)

\* Every flush is answered by the writer while nobody stops it; none depends on its
\* timeout.
FlushAnswered == \A f \in Flushers : (flush[f].pc = "wait") ~> (flush[f].pc # "wait" \/ stop)
=============================================================================
