---------------------------- MODULE LockedWrites ----------------------------
(***************************************************************************)
(* Kernel threads contending for kfs_lock, each making Rounds calls of    *)
(* fs_write on one file shared after fork (src/kern/kfs.c 295-398, as in  *)
(* the user program test_lock, which forks and writes from both sides).   *)
(* Only the part of fs_write that the lock protects against other writers *)
(* is kept: the read of fd->file_pos that places the bytes (line 341) and *)
(* the store fd->file_pos += written_bytes (line 384).  The block I/O in  *)
(* between may block the holder or be preempted, so other threads run     *)
(* while the lock is held.  Every write writes one byte.                  *)
(***************************************************************************)
EXTENDS SleepLock

CONSTANT Rounds    \* how many fs_write calls each thread makes

ASSUME Rounds \in Nat \ {0}

\* kfs_lock, the only lock of this module.
KfsLock == "kfs_lock"

VARIABLES
    pos,       \* fd->file_pos of the shared file
    seen,      \* seen[t]: the fd->file_pos thread t read for its current write
    writes     \* writes[t]: how many fs_write calls of thread t have returned

vars == <<kvars, lockTid, pc, pos, seen, writes>>
wvars == <<pos, seen, writes>>

PC == {"acquire", "wait", "read_pos", "store_pos", "release", "broadcast",
       "exit", "done"}

MaxPos == Rounds * Cardinality(Threads)

TypeOK ==
    /\ KernelTypeOK
    /\ LockTypeOK
    /\ pc \in [Threads -> PC]
    /\ pos \in 0..MaxPos
    /\ seen \in [Threads -> 0..MaxPos]
    /\ writes \in [Threads -> 0..Rounds]

\* Every thread starts ready, in any order, and kfs_lock is free.
Init ==
    /\ running = Idle
    /\ ready \in {s \in [1..Cardinality(Threads) -> Threads] :
                      \A t \in Threads : \E i \in DOMAIN s : s[i] = t}
    /\ waiters = [c \in Conds |-> <<>>]
    /\ lockTid = [l \in Locks |-> NoThread]
    /\ pc = [t \in Threads |-> "acquire"]
    /\ pos = 0
    /\ seen = [t \in Threads |-> 0]
    /\ writes = [t \in Threads |-> 0]

\* A faulty lock_acquire that tests the lock once ("if" for "while"): a
\* thread woken from condition_wait goes on as if it had the lock.
AcquireIf(t) ==
    /\ \/ LockAcquireClaim(t, KfsLock, "acquire", "read_pos")
       \/ LockAcquireBusy(t, KfsLock, "acquire", "wait")
       \/ LockWait(t, KfsLock, "wait", "read_pos")
    /\ UNCHANGED wvars

\* fs_write, kfs.c 303: lock_acquire(&kfs_lock).
Acquire(t) ==
    /\ \/ LockAcquireClaim(t, KfsLock, "acquire", "read_pos")
       \/ LockAcquireBusy(t, KfsLock, "acquire", "wait")
       \/ LockWait(t, KfsLock, "wait", "acquire")
    /\ UNCHANGED wvars

\* fs_write, kfs.c 341: byte_offset = fd->file_pos + written_bytes.
ReadPos(t) ==
    /\ running = t
    /\ Go(t, "read_pos", "store_pos")
    /\ seen' = [seen EXCEPT ![t] = pos]
    /\ UNCHANGED <<kvars, lockTid, pos, writes>>

\* fs_write, kfs.c 384: fd->file_pos += written_bytes.
StorePos(t) ==
    /\ running = t
    /\ Go(t, "store_pos", "release")
    /\ pos' = seen[t] + 1
    /\ writes' = [writes EXCEPT ![t] = @ + 1]
    /\ UNCHANGED <<kvars, lockTid, seen>>

\* fs_write, kfs.c 395: lock_release(&kfs_lock); the thread then makes
\* its next write or leaves its loop.
Release(t) ==
    /\ \/ LockReleaseClear(t, KfsLock, "release", "broadcast")
       \/ LockBroadcast(t, KfsLock, "broadcast",
                        IF writes[t] < Rounds THEN "acquire" ELSE "exit")
    /\ UNCHANGED wvars

\* thread_exit once the thread has made all of its writes.
Exit(t) ==
    /\ running = t
    /\ Go(t, "exit", "done")
    /\ ThreadExit
    /\ UNCHANGED <<lockTid, pos, seen, writes>>

Step(t) == Acquire(t) \/ ReadPos(t) \/ StorePos(t) \/ Release(t) \/ Exit(t)

Next ==
    \/ \E t \in Threads : Step(t)
    \/ Preempt /\ UNCHANGED <<lockTid, pc, wvars>>
    \/ IdleSchedule /\ UNCHANGED <<lockTid, pc, wvars>>

(* A thread that holds the hart keeps making progress while it is         *)
(* scheduled infinitely often (round-robin timer preemption); the idle     *)
(* thread hands the hart to a ready thread.  Preemption itself may or may *)
(* not happen at any point.                                               *)
Fairness ==
    /\ \A t \in Threads : SF_vars(Step(t))
    /\ WF_vars(IdleSchedule /\ UNCHANGED <<lockTid, pc, wvars>>)

Spec == Init /\ [][Next]_vars /\ Fairness

-----------------------------------------------------------------------------
CS == {"read_pos", "store_pos", "release"}

(* Mutual exclusion of lock_acquire: at most one thread is between its    *)
(* successful claim of kfs_lock and its release, and lk->tid names it.    *)
MutualExclusion ==
    \A t \in Threads :
        pc[t] \in CS => /\ lockTid[KfsLock] = t
                        /\ \A u \in Threads \ {t} : pc[u] \notin CS

\* The abstract fs_write, one indivisible step per call: the store of
\* file_pos is the point at which a call takes effect.
Atomic == INSTANCE AtomicWrites WITH apos <- pos, adone <- writes

(* fs_write implements the atomic write: every step of the threads either *)
(* leaves file_pos and the completed calls alone or is one whole call     *)
(* that advances file_pos by exactly its byte; the read of file_pos at    *)
(* line 341 and its store at line 384, with block I/O that may sleep in   *)
(* between, are never split by another thread's write under kfs_lock.      *)
WritesAtomic == Atomic!ASpec

(* Every thread that calls fs_write eventually makes all of its writes    *)
(* and exits: no thread sleeps on kfs_lock's condition forever.           *)
AllThreadsFinish ==
    <>(\A t \in Threads : pc[t] = "done")
=============================================================================
