---------------------------- MODULE ThreadKernel ----------------------------
(***************************************************************************)
(* The single-hart thread kernel: which thread holds the hart, the FIFO    *)
(* ready queue, and the FIFO waiter list of every condition variable.     *)
(*                                                                         *)
(* thread.c is not among the repository's sources (only its assembly      *)
(* half, src/kern/thrasm.s, is), so the operators below are modelled from  *)
(* spec.md sections 4.3 and 5: condition_wait links the running thread at *)
(* the tail of the condition and switches to the head of the ready queue  *)
(* (or to the idle thread); condition_broadcast appends all waiters, in    *)
(* order, to the ready queue; a timer interrupt moves the running thread  *)
(* to the tail of the ready queue and resumes the head.                   *)
(*                                                                         *)
(* Every other module that has threads EXTENDS this one and drives these  *)
(* operators from its own per-thread program counter.                     *)
(***************************************************************************)
EXTENDS Naturals, Sequences, FiniteSetsExt

CONSTANTS
    Threads,   \* kernel threads that run the modelled code (model values)
    Idle,      \* the idle thread, which runs when no other thread is ready
    Conds      \* the condition variables (struct condition) in the model

ASSUME Idle \notin Threads

VARIABLES
    running,   \* the thread whose pointer is in tp (the hart's thread)
    ready,     \* the ready queue, head first
    waiters    \* waiters[c]: the threads blocked in condition_wait(c), in order

kvars == <<running, ready, waiters>>

KernelTypeOK ==
    /\ running \in Threads \cup {Idle}
    /\ ready \in Seq(Threads)
    /\ waiters \in [Conds -> Seq(Threads)]

\* The thread that takes the hart when the running one gives it up.
NextRunning == IF ready = <<>> THEN Idle ELSE Head(ready)
RestReady   == IF ready = <<>> THEN <<>> ELSE Tail(ready)

\* condition_wait(c): unlink the running thread, link it at the tail of c,
\* and switch to the next ready thread.
ConditionWait(c) ==
    /\ waiters' = [waiters EXCEPT ![c] = Append(@, running)]
    /\ running' = NextRunning
    /\ ready' = RestReady

\* condition_broadcast(c): every waiter of c becomes ready, order preserved.
ConditionBroadcast(c) ==
    /\ ready' = ready \o waiters[c]
    /\ waiters' = [waiters EXCEPT ![c] = <<>>]
    /\ UNCHANGED running

\* thread_exit: the running thread gives up the hart for good.
ThreadExit ==
    /\ running' = NextRunning
    /\ ready' = RestReady
    /\ UNCHANGED waiters

\* A timer interrupt taken while interrupts are enabled: the running thread
\* goes to the tail of the ready queue and the head resumes.
Preempt ==
    /\ running # Idle
    /\ ready # <<>>
    /\ running' = Head(ready)
    /\ ready' = Append(Tail(ready), running)
    /\ UNCHANGED waiters

\* The idle thread yields to the first thread that became ready.
IdleSchedule ==
    /\ running = Idle
    /\ ready # <<>>
    /\ running' = Head(ready)
    /\ ready' = Tail(ready)
    /\ UNCHANGED waiters
=============================================================================
