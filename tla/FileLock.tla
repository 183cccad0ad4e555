------------------------------ MODULE FileLock ------------------------------
(***************************************************************************)
(* The lock of one file (dbload/lib/file_locking.py): an flock on a        *)
(* sidecar that every acquirer may create, and that writers, probes and    *)
(* sweeps unlink.  What is locked is an inode, what is agreed upon is a    *)
(* name; a process is inside when the inode it has locked is the one the   *)
(* name stands for.  Every system call is a step of its own, and a process *)
(* may be killed between any two of them.                                  *)
(***************************************************************************)
EXTENDS FiniteSets

CONSTANTS Writer,    \* users of file_write_lock
          Reader,    \* users of file_read_lock_wait
          Sweeper,   \* cleanup_stale_fnctl_lock_sidecars
          Inode,     \* inodes a sidecar may get
          None

ASSUME FileLockAssumption ==
  /\ None \notin Inode
  /\ Writer \cap Reader = {}
  /\ Sweeper \cap (Writer \cup Reader) = {}

Proc == Writer \cup Reader \cup Sweeper

VARIABLES path,   \* the inode the sidecar's name stands for, or None
          fd,     \* per process: the sidecar it has open,
          held,   \*   its lock on that inode,
          pc      \*   and its next step

vars == <<path, fd, held, pc>>

Steps == {"idle", "look", "probe", "flock", "current", "remove", "close",
          "open", "lock", "check", "in", "leave", "unlink", "unlock"}

TypeOK ==
  /\ path \in Inode \cup {None}
  /\ fd \in [Proc -> Inode \cup {None}]
  /\ held \in [Proc -> {"none", "sh", "ex"}]
  /\ pc \in [Proc -> Steps]
  /\ \A p \in Proc : held[p] # "none" => fd[p] # None

Init ==
  /\ path = None
  /\ fd = [p \in Proc |-> None]
  /\ held = [p \in Proc |-> "none"]
  /\ pc = [p \in Proc |-> "idle"]
-----------------------------------------------------------------------------
(* System calls.                                                           *)

Goto(p, step) == pc' = [pc EXCEPT ![p] = step]

\* open(lock_path, "a+"): the file the name stands for, or a new one.
OpenSidecar(p) ==
  \E i \in Inode :
    /\ IF path = None THEN \A q \in Proc : fd[q] # i ELSE i = path
    /\ path' = i
    /\ fd' = [fd EXCEPT ![p] = i]

\* flock(fd, mode | LOCK_NB) would be granted.
Grantable(p, mode) ==
  \A q \in Proc \ {p} :
    fd[q] = fd[p] => held[q] = "none" \/ (held[q] = "sh" /\ mode = "sh")

Close_KeepsLock(p) == fd' = [fd EXCEPT ![p] = None] /\ UNCHANGED held
Close(p) ==
  /\ fd' = [fd EXCEPT ![p] = None]
  /\ held' = [held EXCEPT ![p] = "none"]

\* _sidecar_is_current
SidecarIsCurrent(p) == path # None /\ path = fd[p]

Mode_AllShared(p) == "sh"
Mode(p) == IF p \in Reader THEN "sh" ELSE "ex"
-----------------------------------------------------------------------------
(* _maybe_reset_stale_lock_file: remove the sidecar if nobody holds it.    *)

\* The first call of every round, and all that a sweep does.
Begin(p) ==
  /\ pc[p] = "idle"
  /\ Goto(p, "look")
  /\ UNCHANGED <<path, fd, held>>

AfterProbe(p) == IF p \in Sweeper THEN "idle" ELSE "open"

ProbeLook(p) ==
  /\ pc[p] = "look"
  /\ Goto(p, IF path = None THEN AfterProbe(p) ELSE "probe")
  /\ UNCHANGED <<path, fd, held>>

ProbeOpen(p) ==
  /\ pc[p] = "probe"
  /\ OpenSidecar(p)
  /\ Goto(p, "flock")
  /\ UNCHANGED held

ProbeLock(p) ==
  /\ pc[p] = "flock"
  /\ IF Grantable(p, "ex")
     THEN Goto(p, "current") /\ held' = [held EXCEPT ![p] = "ex"]
     ELSE Goto(p, "close") /\ UNCHANGED held
  /\ UNCHANGED <<path, fd>>

ProbeCurrent(p) ==
  /\ pc[p] = "current"
  /\ Goto(p, IF SidecarIsCurrent(p) THEN "remove" ELSE "close")
  /\ UNCHANGED <<path, fd, held>>

ProbeRemove(p) ==
  /\ pc[p] = "remove"
  /\ path' = None
  /\ Goto(p, "close")
  /\ UNCHANGED <<fd, held>>

ProbeClose(p) ==
  /\ pc[p] = "close"
  /\ Close(p)
  /\ Goto(p, AfterProbe(p))
  /\ UNCHANGED path
-----------------------------------------------------------------------------
(* file_write_lock and file_read_lock_wait.                                *)

LockOpen(p) ==
  /\ pc[p] = "open"
  /\ OpenSidecar(p)
  /\ Goto(p, "lock")
  /\ UNCHANGED held

\* A round that fails is begun again, or the caller times out.
Retry(p) == Close(p) /\ Goto(p, "idle")

LockTry(p) ==
  /\ pc[p] = "lock"
  /\ IF Grantable(p, Mode(p))
     THEN /\ held' = [held EXCEPT ![p] = Mode(p)]
          /\ Goto(p, "check")
          /\ UNCHANGED fd
     ELSE Retry(p)
  /\ UNCHANGED path

LockCheck(p) ==
  /\ pc[p] = "check"
  /\ IF SidecarIsCurrent(p)
     THEN Goto(p, "in") /\ UNCHANGED <<fd, held>>
     ELSE Retry(p)
  /\ UNCHANGED path

\* The end of the caller's block; a reader leaves the sidecar alone.
Leave(p) ==
  /\ pc[p] = "in"
  /\ Goto(p, IF p \in Reader THEN "unlock" ELSE "leave")
  /\ UNCHANGED <<path, fd, held>>

LeaveCheck_UnlockFirst(p) ==
  /\ pc[p] = "leave"
  /\ Goto(p, IF SidecarIsCurrent(p) THEN "unlink" ELSE "unlock")
  /\ held' = [held EXCEPT ![p] = "none"]
  /\ UNCHANGED <<path, fd>>

LeaveCheck(p) ==
  /\ pc[p] = "leave"
  /\ Goto(p, IF SidecarIsCurrent(p) THEN "unlink" ELSE "unlock")
  /\ UNCHANGED <<path, fd, held>>

Unlink(p) ==
  /\ pc[p] = "unlink"
  /\ path' = None
  /\ Goto(p, "unlock")
  /\ UNCHANGED <<fd, held>>

Unlock(p) ==
  /\ pc[p] = "unlock"
  /\ Close(p)
  /\ Goto(p, "idle")
  /\ UNCHANGED path
-----------------------------------------------------------------------------
\* A process dies: its descriptors are closed, the sidecar stays.
Kill(p) ==
  /\ pc[p] # "idle"
  /\ Close(p)
  /\ Goto(p, "idle")
  /\ UNCHANGED path

Step(p) ==
  \/ Begin(p) \/ ProbeLook(p) \/ ProbeOpen(p) \/ ProbeLock(p)
  \/ ProbeCurrent(p) \/ ProbeRemove(p) \/ ProbeClose(p)
  \/ LockOpen(p) \/ LockTry(p) \/ LockCheck(p)
  \/ Leave(p) \/ LeaveCheck(p) \/ Unlink(p) \/ Unlock(p)
  \/ Kill(p)

Next == \E p \in Proc : Step(p)

Spec == Init /\ [][Next]_vars
-----------------------------------------------------------------------------
(* Properties.                                                             *)

Inside == {p \in Proc : pc[p] = "in"}

\* Whoever is inside has locked the inode that the name stands for, however
\* others release, probe, sweep or die: the next acquirer sees the lock.
HolderOwnsPath ==
  \A p \in Inside : fd[p] = path /\ held[p] = Mode(p)

\* The lock implements the readers-writer lock its callers rely on:
\* file_write_lock excludes every other user, file_read_lock_wait every
\* writer.
RW == INSTANCE RWLock WITH inside <- Inside
ImplementsRWLock == RW!Spec
=============================================================================
