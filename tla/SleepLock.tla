----------------------------- MODULE SleepLock -----------------------------
(***************************************************************************)
(* The sleep lock of src/kern/lock.h: struct lock {cond, tid}.             *)
(*                                                                         *)
(* The operators below are the steps of lock_acquire and lock_release for  *)
(* a thread t whose program counter pc[t] goes from label "from" to label *)
(* "to"; the modules whose threads take locks use them with their own     *)
(* labels.  The condition lk->cond of lock l is the condition named l of  *)
(* ThreadKernel.                                                           *)
(*                                                                         *)
(* lock_acquire is a loop: with interrupts disabled it tests lk->tid and   *)
(* claims the lock if free (lock.h 42-53); otherwise it restores the      *)
(* interrupt state (line 55) and only then calls condition_wait (line 58), *)
(* so a timer interrupt may be taken between the test and the wait: the   *)
(* two are separate steps here.  lock_release clears lk->tid (line 68) and *)
(* then broadcasts (line 69), again two steps.                            *)
(***************************************************************************)
EXTENDS ThreadKernel, Integers

CONSTANTS
    Locks,     \* the struct lock instances of the model
    NoThread   \* the value -1 of lk->tid

ASSUME NoThread \notin Threads \cup {Idle}
ASSUME Locks \subseteq Conds

VARIABLES
    lockTid,   \* lockTid[l]: lk->tid of lock l
    pc         \* pc[t]: the label thread t is at

LockTypeOK == lockTid \in [Locks -> Threads \cup {NoThread}]

Go(t, from, to) == pc[t] = from /\ pc' = [pc EXCEPT ![t] = to]

\* A faulty lock_acquire that claims the lock without testing lk->tid.
LockAcquireClaimNoTest(t, l, from, to) ==
    /\ running = t
    /\ Go(t, from, to)
    /\ lockTid' = [lockTid EXCEPT ![l] = t]
    /\ UNCHANGED kvars

\* lock_acquire, lock.h 42-53: with interrupts disabled the lock is found
\* free and the running thread claims it.
LockAcquireClaim(t, l, from, to) ==
    /\ running = t
    /\ Go(t, from, to)
    /\ lockTid[l] = NoThread
    /\ lockTid' = [lockTid EXCEPT ![l] = t]
    /\ UNCHANGED kvars

\* lock_acquire, lock.h 42-55: the lock is held by another thread; the
\* interrupt state is restored before the thread waits.
LockAcquireBusy(t, l, from, waitAt) ==
    /\ running = t
    /\ Go(t, from, waitAt)
    /\ lockTid[l] # NoThread
    /\ UNCHANGED <<kvars, lockTid>>

\* lock_acquire, lock.h 58: condition_wait(&lk->cond); when woken the
\* thread is back at the top of the loop.
LockWait(t, l, waitAt, from) ==
    /\ running = t
    /\ Go(t, waitAt, from)
    /\ ConditionWait(l)
    /\ UNCHANGED lockTid

\* lock_release, lock.h 66-68: assert(lk->tid == running_thread()) and
\* lk->tid = -1.
LockReleaseClear(t, l, from, to) ==
    /\ running = t
    /\ Go(t, from, to)
    /\ lockTid' = [lockTid EXCEPT ![l] = NoThread]
    /\ UNCHANGED kvars

\* lock_release, lock.h 69: condition_broadcast(&lk->cond).
LockBroadcast(t, l, from, to) ==
    /\ running = t
    /\ Go(t, from, to)
    /\ ConditionBroadcast(l)
    /\ UNCHANGED lockTid
=============================================================================
