--------------------------- MODULE FileLockProofs ---------------------------
(***************************************************************************)
(* The sidecar lock is a readers-writer lock, for any sets of writers,     *)
(* readers, sweeps and inodes.  The inductive invariant: the kernel's      *)
(* locks exclude each other on an inode, and a process between its check   *)
(* and its unlink has locked the inode that the name stands for.  Whoever  *)
(* unlinks holds that inode exclusively, so nobody else is inside.         *)
(***************************************************************************)
EXTENDS FileLock, TLAPS

\* The kernel's promise: an exclusive lock is alone on its inode.
FlockExclusive ==
  \A p, q \in Proc :
    p # q /\ fd[p] = fd[q] /\ held[p] = "ex" => held[q] = "none"

\* Between the check and the unlink: the name's inode, locked.
Owning(p) ==
  pc[p] \in {"in", "leave", "unlink", "remove"} =>
    /\ fd[p] = path /\ fd[p] # None
    /\ held[p] = (IF pc[p] = "remove" THEN "ex" ELSE Mode(p))

\* A lock that has not been checked yet.
Locking(p) ==
  /\ pc[p] = "check" => held[p] = Mode(p)
  /\ pc[p] = "current" => held[p] = "ex"
  /\ pc[p] \in {"leave", "unlink"} => p \notin Reader
  /\ pc[p] \in {"open", "lock", "check", "in"} => p \notin Sweeper
  /\ pc[p] \in {"idle", "look", "open", "probe"} => fd[p] = None
  /\ pc[p] \in {"lock", "flock"} => held[p] = "none" /\ fd[p] # None

IInv ==
  /\ TypeOK
  /\ FlockExclusive
  /\ \A p \in Proc : Owning(p) /\ Locking(p)

LEMMA InitHolds == Init => IInv
BY FileLockAssumption
   DEF Init, IInv, TypeOK, FlockExclusive, Owning, Locking, Steps, Proc

\* Opening the sidecar: the name is taken or, if free, given to a new inode.
LEMMA OpenKeeps ==
  ASSUME NEW p \in Proc, TypeOK, OpenSidecar(p), held' = held,
         fd[p] = None
  PROVE  /\ path' \in Inode /\ fd' = [fd EXCEPT ![p] = path']
         /\ held[p] = "none"
         /\ path # None => path' = path
         /\ path = None => \A q \in Proc : fd[q] # path'
BY FileLockAssumption DEF OpenSidecar, TypeOK

LEMMA StepKeeps ==
  ASSUME IInv, NEW p \in Proc, Step(p)
  PROVE  IInv'
<1>. USE FileLockAssumption DEF IInv, TypeOK, Owning, Locking, FlockExclusive,
                               Steps, Goto, Close
<1>1. CASE Begin(p)
  BY <1>1 DEF Begin
<1>2. CASE ProbeLook(p)
  BY <1>2 DEF ProbeLook, AfterProbe
<1>3. CASE ProbeOpen(p)
  <2>1. held' = held /\ OpenSidecar(p) /\ fd[p] = None
        /\ pc' = [pc EXCEPT ![p] = "flock"]
    BY <1>3 DEF ProbeOpen
  <2>2. /\ path' \in Inode /\ fd' = [fd EXCEPT ![p] = path']
        /\ held[p] = "none"
        /\ path # None => path' = path
        /\ path = None => \A q \in Proc : fd[q] # path'
    BY <2>1, OpenKeeps
  <2>. QED BY <2>1, <2>2
<1>4. CASE ProbeLock(p)
  <2>0. pc[p] = "flock" /\ UNCHANGED <<path, fd>>
    BY <1>4 DEF ProbeLock
  <2>1. CASE Grantable(p, "ex")
    <3>1. held' = [held EXCEPT ![p] = "ex"] /\ pc' = [pc EXCEPT ![p] = "current"]
      BY <1>4, <2>1 DEF ProbeLock
    <3>2. FlockExclusive'
      BY <2>0, <2>1, <3>1 DEF Grantable
    <3>. QED BY <2>0, <3>1, <3>2
  <2>2. CASE ~Grantable(p, "ex")
    BY <1>4, <2>2 DEF ProbeLock
  <2>. QED BY <2>1, <2>2
<1>5. CASE ProbeCurrent(p)
  BY <1>5 DEF ProbeCurrent, SidecarIsCurrent
<1>6. CASE ProbeRemove(p)
  BY <1>6 DEF ProbeRemove, Mode
<1>7. CASE ProbeClose(p)
  BY <1>7 DEF ProbeClose, AfterProbe
<1>8. CASE LockOpen(p)
  <2>1. held' = held /\ OpenSidecar(p) /\ fd[p] = None
        /\ pc' = [pc EXCEPT ![p] = "lock"] /\ p \notin Sweeper
    BY <1>8 DEF LockOpen
  <2>2. /\ path' \in Inode /\ fd' = [fd EXCEPT ![p] = path']
        /\ held[p] = "none"
        /\ path # None => path' = path
        /\ path = None => \A q \in Proc : fd[q] # path'
    BY <2>1, OpenKeeps
  <2>. QED BY <2>1, <2>2
<1>9. CASE LockTry(p)
  <2>0. pc[p] = "lock" /\ path' = path
    BY <1>9 DEF LockTry
  <2>1. CASE Grantable(p, Mode(p))
    <3>1. /\ held' = [held EXCEPT ![p] = Mode(p)] /\ fd' = fd
          /\ pc' = [pc EXCEPT ![p] = "check"]
      BY <1>9, <2>1 DEF LockTry
    <3>2. Mode(p) \in {"sh", "ex"}
      BY DEF Mode
    <3>3. FlockExclusive'
      BY <2>0, <2>1, <3>1, <3>2 DEF Grantable
    <3>. QED BY <2>0, <3>1, <3>2, <3>3
  <2>2. CASE ~Grantable(p, Mode(p))
    BY <1>9, <2>2 DEF LockTry, Retry
  <2>. QED BY <2>1, <2>2
<1>10. CASE LockCheck(p)
  BY <1>10 DEF LockCheck, SidecarIsCurrent, Mode, Retry
<1>11. CASE Leave(p)
  BY <1>11 DEF Leave
<1>12. CASE LeaveCheck(p)
  BY <1>12 DEF LeaveCheck, SidecarIsCurrent
<1>13. CASE Unlink(p)
  BY <1>13 DEF Unlink, Mode
<1>14. CASE Unlock(p)
  BY <1>14 DEF Unlock
<1>15. CASE Kill(p)
  BY <1>15 DEF Kill
<1>. QED
  BY <1>1, <1>2, <1>3, <1>4, <1>5, <1>6, <1>7, <1>8, <1>9, <1>10, <1>11,
     <1>12, <1>13, <1>14, <1>15 DEF Step

\* The inductive invariant of the sidecar protocol.
THEOREM FileLockInductive == Spec => []IInv
<1>1. IInv /\ [Next]_vars => IInv'
  <2>1. ASSUME IInv, UNCHANGED vars PROVE IInv'
    BY <2>1 DEF vars, IInv, TypeOK, Owning, Locking, FlockExclusive
  <2>. QED BY <2>1, StepKeeps DEF Next
<1>. QED BY <1>1, InitHolds, PTL DEF Spec

\* Type correctness of the lock's state, for all sets of processes.
THEOREM FileLockTypes == Spec => []TypeOK
<1>1. IInv => TypeOK
  BY DEF IInv
<1>. QED BY <1>1, FileLockInductive, PTL

\* file_write_lock and file_read_lock_wait: whoever is inside has locked the
\* inode that the sidecar's name stands for.
THEOREM HolderOwnsPathHolds == Spec => []HolderOwnsPath
<1>1. IInv => HolderOwnsPath
  BY DEF IInv, Owning, HolderOwnsPath, Inside
<1>. QED BY <1>1, FileLockInductive, PTL

\* A step of the lock is a step of the readers-writer lock or leaves the set
\* of insiders alone.
LEMMA StepImplements ==
  ASSUME IInv, NEW p \in Proc, Step(p)
  PROVE  [RW!Next]_Inside
<1>. USE DEF Goto
<1>1. ASSUME pc[p] # "in", pc' = [pc EXCEPT ![p] = pc'[p]], pc'[p] # "in"
      PROVE  Inside' = Inside
  BY <1>1 DEF Inside, IInv, TypeOK
<1>2. CASE LockCheck(p)
  <2>1. CASE pc'[p] = "in"
    <3>1. /\ pc[p] = "check" /\ fd[p] = path /\ path # None
          /\ held[p] = Mode(p) /\ p \in Writer \cup Reader
          /\ pc' = [pc EXCEPT ![p] = "in"]
      BY <1>2, <2>1 DEF LockCheck, SidecarIsCurrent, Retry, IInv, TypeOK,
                        Locking, Proc
    <3>2. Inside' = Inside \cup {p} /\ p \notin Inside
      BY <3>1 DEF Inside, IInv, TypeOK
    <3>3. ASSUME NEW q \in Inside PROVE p \in Reader /\ q \in Reader
      <4>1. q # p /\ q \in Proc /\ fd[q] = path /\ held[q] = Mode(q)
        BY <3>2, <3>3 DEF Inside, IInv, Owning
      <4>. QED BY <3>1, <4>1 DEF IInv, FlockExclusive, Mode
    <3>4. RW!Enter(p)
      BY <3>2, <3>3 DEF RW!Enter
    <3>. QED BY <3>1, <3>4 DEF RW!Next
  <2>2. CASE pc'[p] # "in"
    BY <1>1, <1>2, <2>2 DEF LockCheck, Retry, IInv, TypeOK
  <2>. QED BY <2>1, <2>2
<1>3. CASE pc[p] = "in"
  <2>1. p \in Writer \cup Reader
    BY <1>3 DEF IInv, Locking, Proc
  <2>2. p \in Inside /\ Inside' = Inside \ {p}
    BY <1>3 DEF Step, Begin, ProbeLook, ProbeOpen, ProbeLock, ProbeCurrent,
       ProbeRemove, ProbeClose, LockOpen, LockTry, LockCheck, Leave,
       LeaveCheck, Unlink, Unlock, Kill, Inside, IInv, TypeOK
  <2>. QED BY <2>1, <2>2 DEF RW!Next, RW!Exit
<1>4. CASE pc[p] # "in" /\ ~LockCheck(p)
  <2>1. pc' = [pc EXCEPT ![p] = pc'[p]] /\ pc'[p] # "in"
    BY <1>4 DEF Step, Begin, ProbeLook, ProbeOpen, ProbeLock, ProbeCurrent,
       ProbeRemove, ProbeClose, LockOpen, LockTry, LockCheck, Leave,
       LeaveCheck, Unlink, Unlock, Kill, IInv, TypeOK, AfterProbe, Retry
  <2>. QED BY <1>1, <1>4, <2>1
<1>. QED BY <1>2, <1>3, <1>4

\* file_write_lock and file_read_lock_wait implement a readers-writer lock.
THEOREM FileLockIsRWLock == Spec => ImplementsRWLock
<1>1. Init => RW!Init
  BY DEF Init, RW!Init, Inside
<1>2. IInv /\ [Next]_vars => [RW!Next]_Inside
  <2>1. ASSUME UNCHANGED vars PROVE UNCHANGED Inside
    BY <2>1 DEF vars, Inside
  <2>. QED BY <2>1, StepImplements DEF Next
<1>. QED BY <1>1, <1>2, FileLockInductive, PTL
         DEF Spec, ImplementsRWLock, RW!Spec
=============================================================================
