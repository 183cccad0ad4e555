----------------------------- MODULE EntryStore ------------------------------
(***************************************************************************)
(* WriteBehindEntryStore: the in-memory master of a sidecar of entries,    *)
(* merged with the file on every write, in the processes that share the    *)
(* file (hpcperfstats/dbload/lib/sync_timedb_write_behind.py).             *)
(*                                                                         *)
(* An entry is its key; the value under it is not told apart.  Each        *)
(* process has a writer thread and callers that remove entries; both write *)
(* under the process's I/O lock, and load, merge and save under the file   *)
(* lock, in one step.  The coalescing of WriteBehind is reduced here to    *)
(* its dirty flag and generation.                                          *)
(***************************************************************************)
EXTENDS Integers, FiniteSets

CONSTANTS
  Procs,       \* processes with a store on the same path
  Callers,     \* threads of a process that call remove_if or replace_all
  Writer,      \* the write-behind thread of a process
  NoThread,    \* nobody holds the process's I/O lock
  Keys,
  MaxSets,     \* bound: calls of set
  MaxRemovals, \* bound: calls of remove_if and replace_all
  MaxFaults    \* bound: failed saves and process crashes

ASSUME EntryStoreAssumption ==
  /\ IsFiniteSet(Procs) /\ IsFiniteSet(Callers) /\ IsFiniteSet(Keys)
  /\ Writer \notin Callers /\ NoThread \notin Callers \cup {Writer}
  /\ MaxSets \in Nat /\ MaxRemovals \in Nat /\ MaxFaults \in Nat

Threads == Callers \cup {Writer}

VARIABLES
  disk,       \* keys in the sidecar file
  loaded,     \* _entries is not None
  entries,    \* _entries of each process
  tombstones, \* _tombstones
  dirty, gen, \* of the process's writer
  marking,    \* set has changed the entries and not yet marked
  io,         \* holder of _io_lock
  write,      \* the _write in progress of each thread
  removing,   \* keys the thread's call has taken out and not reported, less those that an
              \* earlier write was taking out then, and those that were set or saved by
              \* another process since (history)
  gone,       \* keys whose removal returned while no other process had a copy, and
              \* that nobody set since (history)
  kept,       \* keys saved while nobody was removing them (history)
  sets, removals, faults

storeVars == <<loaded, entries, tombstones>>
markVars == <<dirty, gen, marking>>
writeVars == <<io, write>>
historyVars == <<gone, kept>>
boundVars == <<sets, removals, faults>>
vars == <<disk, storeVars, markVars, writeVars, removing, historyVars, boundVars>>

NoWrite == [pc |-> "none", mine |-> {}, dead |-> {}, merged |-> {}, gen |-> 0]

Init ==
  /\ disk = {}
  /\ loaded = [p \in Procs |-> FALSE]
  /\ entries = [p \in Procs |-> {}] /\ tombstones = [p \in Procs |-> {}]
  /\ dirty = [p \in Procs |-> FALSE] /\ gen = [p \in Procs |-> 0]
  /\ marking = [p \in Procs |-> FALSE]
  /\ io = [p \in Procs |-> NoThread]
  /\ write = [p \in Procs |-> [t \in Threads |-> NoWrite]]
  /\ removing = [p \in Procs |-> [t \in Callers |-> {}]]
  /\ gone = {} /\ kept = {}
  /\ sets = 0 /\ removals = 0 /\ faults = 0

-----------------------------------------------------------------------------
(* Operations *)

\* _ensure_loaded: the file is read once, at the first access.
Live(p) == IF loaded[p] THEN entries[p] ELSE disk

\* The entries become E, in a store that is loaded from now on.
SetEntries(p, E) == /\ entries' = [entries EXCEPT ![p] = E]
                    /\ loaded' = [loaded EXCEPT ![p] = TRUE]

\* set: entries and tombstones under the lock ...
Set(p, k) ==
  /\ sets < MaxSets /\ sets' = sets + 1
  /\ ~marking[p]
  /\ SetEntries(p, Live(p) \cup {k})
  /\ tombstones' = [tombstones EXCEPT ![p] = @ \ {k}]
  /\ marking' = [marking EXCEPT ![p] = TRUE]
  /\ removing' = [q \in Procs |-> [t \in Callers |-> removing[q][t] \ {k}]]
  /\ gone' = gone \ {k}
  /\ UNCHANGED <<disk, dirty, gen, writeVars, kept, removals, faults>>

\* Mutant: the mark counts down.
MarkDirty_Down(p) ==
  /\ marking[p] /\ marking' = [marking EXCEPT ![p] = FALSE]
  /\ dirty' = [dirty EXCEPT ![p] = TRUE]
  /\ gen' = [gen EXCEPT ![p] = @ - 1]
  /\ UNCHANGED <<disk, storeVars, writeVars, removing, historyVars, boundVars>>

\* ... then start and mark_dirty of the writer.
MarkDirty(p) ==
  /\ marking[p] /\ marking' = [marking EXCEPT ![p] = FALSE]
  /\ dirty' = [dirty EXCEPT ![p] = TRUE]
  /\ gen' = [gen EXCEPT ![p] = @ + 1]
  /\ UNCHANGED <<disk, storeVars, writeVars, removing, historyVars, boundVars>>

\* Mutant: a removed key leaves no tombstone.
Bury_Nothing(p, doomed) == UNCHANGED tombstones

\* Keys that left the entries and are still to be taken out of the file.
Bury(p, doomed) == tombstones' = [tombstones EXCEPT ![p] = @ \cup doomed]

\* The caller goes on to its own _write.
ThenWrite(p, t) ==
  /\ write[p][t].pc = "none"
  /\ write' = [write EXCEPT ![p][t] = [@ EXCEPT !.pc = "begin"]]
  /\ removals < MaxRemovals /\ removals' = removals + 1

\* Keys that a write of p under way is taking out: when it ends it forgets their
\* tombstones, also one that a later removal of the same key has put there since.
BeingTakenOut(p) == UNION {write[p][u].dead : u \in Threads}

\* remove_if: take the matching entries out, write if there are any.
remove_if(p, t, doomed) ==
  /\ doomed # {} /\ doomed \subseteq Live(p)
  /\ SetEntries(p, Live(p) \ doomed)
  /\ Bury(p, doomed)
  /\ ThenWrite(p, t)
  /\ removing' = [removing EXCEPT ![p][t] = doomed \ BeingTakenOut(p)]
  /\ kept' = kept \ doomed
  /\ UNCHANGED <<disk, markVars, io, gone, sets, faults>>

\* replace_all: install E; tombstones of keys in E stay.
replace_all(p, t, E) ==
  LET doomed == Live(p) \ E IN
  /\ SetEntries(p, E)
  /\ Bury(p, doomed)
  /\ ThenWrite(p, t)
  /\ removing' = [q \in Procs |-> [u \in Callers |->
                    IF q = p /\ u = t THEN doomed \ BeingTakenOut(p) ELSE removing[q][u] \ E]]
  /\ gone' = gone \ E
  /\ kept' = kept \ doomed
  /\ UNCHANGED <<disk, markVars, io, sets, faults>>

-----------------------------------------------------------------------------
(* _write *)

\* The writer thread finds the store dirty; _attempt notes the generation.
WriterWakes(p) ==
  /\ dirty[p] /\ write[p][Writer].pc = "none"
  /\ write' = [write EXCEPT ![p][Writer] = [@ EXCEPT !.pc = "begin", !.gen = gen[p]]]
  /\ UNCHANGED <<disk, storeVars, markVars, io, removing, historyVars, boundVars>>

\* With the I/O lock: copy entries and tombstones.
WriteBegin(p, t) ==
  /\ write[p][t].pc = "begin" /\ io[p] = NoThread
  /\ io' = [io EXCEPT ![p] = t]
  /\ SetEntries(p, Live(p))
  /\ write' = [write EXCEPT ![p][t] = [@ EXCEPT !.pc = "merge", !.mine = Live(p),
                                                 !.dead = tombstones[p]]]
  /\ UNCHANGED <<disk, tombstones, markVars, removing, historyVars, boundVars>>

\* Mutant and original: what a write saves, given the file's keys.
Merged_NoDisk(w) == w.mine
Merged(w) == (disk \ w.dead) \cup w.mine

\* Keys that a tombstone, or a write already under way, is about to take out.
BeingRemoved == UNION {tombstones[q] \cup UNION {write[q][t].dead : t \in Threads} : q \in Procs}

\* Under the file lock: load, merge, save.
WriteSave(p, t) ==
  LET w == write[p][t] IN
  /\ w.pc = "merge"
  /\ disk' = Merged(w)
  /\ write' = [write EXCEPT ![p][t] = [@ EXCEPT !.pc = "adopt", !.merged = Merged(w)]]
  /\ kept' = kept \cup (w.mine \ BeingRemoved)
  /\ removing' = [q \in Procs |-> [u \in Callers |->
                    IF q = p THEN removing[q][u] ELSE removing[q][u] \ w.mine]]
  /\ UNCHANGED <<storeVars, markVars, io, gone, boundVars>>

\* Mutant: foreign keys are adopted without asking the tombstones.
Adopted_All(p, w) == entries[p] \cup w.merged

\* Keys of the merged document that this process does not have and did not remove.
Adopted(p, w) == entries[p] \cup (w.merged \ tombstones[p])

\* Whether the store is dirty after the writer's write.
StillDirty(p) == dirty[p] /\ gen[p] # write[p][Writer].gen

\* Keys another process has in memory, or in a write under way: its next save puts
\* them back, and the removal does not reach it.
HeldElsewhere(p) ==
  UNION {entries[q] \cup UNION {write[q][t].mine \cup write[q][t].merged : t \in Threads} :
           q \in Procs \ {p}}

\* Adopt, forget the tombstones written, release; a caller returns, the writer
\* clears dirty unless a mark raced it.
WriteEnd(p, t) ==
  LET w == write[p][t] IN
  /\ w.pc = "adopt"
  /\ SetEntries(p, Adopted(p, w))
  /\ tombstones' = [tombstones EXCEPT ![p] = @ \ w.dead]
  /\ io' = [io EXCEPT ![p] = NoThread]
  /\ write' = [write EXCEPT ![p][t] = NoWrite]
  /\ IF t = Writer
       THEN /\ dirty' = [dirty EXCEPT ![p] = StillDirty(p)]
            /\ UNCHANGED <<removing, gone>>
       ELSE /\ gone' = gone \cup (removing[p][t] \ HeldElsewhere(p))
            /\ removing' = [removing EXCEPT ![p][t] = {}]
            /\ UNCHANGED dirty
  /\ UNCHANGED <<disk, gen, marking, kept, boundVars>>

Fault == faults < MaxFaults /\ faults' = faults + 1

\* The save raises: tombstones stay, a caller gets the exception, the writer tries again.
WriteFails(p, t) ==
  /\ Fault
  /\ write[p][t].pc = "merge"
  /\ io' = [io EXCEPT ![p] = NoThread]
  /\ write' = [write EXCEPT ![p][t] = NoWrite]
  /\ removing' = IF t = Writer THEN removing ELSE [removing EXCEPT ![p][t] = {}]
  /\ UNCHANGED <<disk, storeVars, markVars, historyVars, sets, removals>>

\* A hard crash and restart: what was not written is gone.
Crash(p) ==
  /\ Fault
  /\ entries' = [entries EXCEPT ![p] = {}] /\ loaded' = [loaded EXCEPT ![p] = FALSE]
  /\ tombstones' = [tombstones EXCEPT ![p] = {}]
  /\ dirty' = [dirty EXCEPT ![p] = FALSE] /\ gen' = [gen EXCEPT ![p] = 0]
  /\ marking' = [marking EXCEPT ![p] = FALSE]
  /\ io' = [io EXCEPT ![p] = NoThread]
  /\ write' = [write EXCEPT ![p] = [t \in Threads |-> NoWrite]]
  /\ removing' = [removing EXCEPT ![p] = [t \in Callers |-> {}]]
  /\ UNCHANGED <<disk, gone, kept, sets, removals>>

Write(p, t) == WriteBegin(p, t) \/ WriteSave(p, t) \/ WriteEnd(p, t)

Next == \E p \in Procs :
          \/ \E k \in Keys : Set(p, k)
          \/ MarkDirty(p)
          \/ \E t \in Callers, E \in SUBSET Keys : remove_if(p, t, E) \/ replace_all(p, t, E)
          \/ WriterWakes(p)
          \/ \E t \in Threads : Write(p, t) \/ WriteFails(p, t)
          \/ Crash(p)

Spec == Init /\ [][Next]_vars

-----------------------------------------------------------------------------
(* Properties *)

\* The type of the file, the stores and the writes in progress.
TypeOK ==
  /\ disk \subseteq Keys
  /\ loaded \in [Procs -> BOOLEAN]
  /\ entries \in [Procs -> SUBSET Keys] /\ tombstones \in [Procs -> SUBSET Keys]
  /\ dirty \in [Procs -> BOOLEAN] /\ gen \in [Procs -> Nat] /\ marking \in [Procs -> BOOLEAN]
  /\ io \in [Procs -> Threads \cup {NoThread}]
  /\ write \in [Procs -> [Threads ->
       [pc : {"none", "begin", "merge", "adopt"}, mine : SUBSET Keys, dead : SUBSET Keys,
        merged : SUBSET Keys, gen : Nat]]]
  /\ removing \in [Procs -> [Callers -> SUBSET Keys]]
  /\ gone \subseteq Keys /\ kept \subseteq Keys
  /\ sets \in Nat /\ removals \in Nat /\ faults \in Nat

\* A key whose removal has returned, and of which no other process had a copy then, is in
\* no store and not in the file until it is set again: neither a write that was under way
\* nor a crash brings it back.  (A removal that begins while a write is taking the same key
\* out for an earlier one is not covered: _write forgets the tombstone of both.)
RemovedStaysRemoved ==
  /\ gone \cap disk = {}
  /\ \A p \in Procs : gone \cap entries[p] = {}

\* A key that was saved and that nobody removes stays in the file, whatever the
\* processes write at the same time.
SavedStaysSaved == kept \subseteq disk
=============================================================================
