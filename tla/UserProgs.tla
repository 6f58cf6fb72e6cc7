----------------------------- MODULE UserProgs -----------------------------
(***************************************************************************)
(* The user programs of src/user and src/unnamed/part_006 run as         *)
(* processes over the process and descriptor tables of ProcIo.  The      *)
(* kernel boots one init program in pid 0 (booted): init_ref_test.c,      *)
(* init1.c, init2.c, the lock test of part_006, or "any", a program that  *)
(* makes any syscall with any argument.  upc[p] is the point process p   *)
(* has reached in its program, a record [at, i]: at the label of its next *)
(* syscall, i a loop counter.  Each step is one syscall with the test the *)
(* program makes of its result; _msgout and _pioref only print and are   *)
(* left out, and so are the buffers and positions of the data calls.     *)
(*                                                                         *)
(* A program whose main returns makes no more syscalls ("end": the       *)
(* start-up code that called main is not among the sources); an exec'd   *)
(* image ("trek") is not among the sources either.                       *)
(***************************************************************************)
EXTENDS ProcIo, Sequences

CONSTANTS
    Programs,   \* the init programs the kernel may boot
    Rounds      \* model bound: iterations of a program's loop (3 or 100 in the code)

VARIABLES
    upc,        \* upc[p]: where process p is in its program
    booted      \* ghost: the program pid 0 was booted with

uvars == <<pvars, upc, booted>>

TestFile == "test.txt"
TrekFile == "trek"
Stopped  == {"none", "end", "trek"}   \* no record, main returned, exec'd

At(p, l) == [at |-> l, i |-> 0]
Start == [any |-> "any", init_ref_test |-> "rt_open", init1 |-> "i1_open",
          init2 |-> "i2_dev", lock_test |-> "lt_open"]

UserTypeOK ==
    /\ TypeOK
    /\ booted \in Programs
    /\ upc \in [Pids -> [at : STRING, i : 0 .. Rounds]]

UInit ==
    /\ Init
    /\ booted \in Programs
    /\ upc = [p \in Pids |-> At(p, IF p = 0 THEN Start[booted] ELSE "none")]

\* p makes the syscall at label from and goes on at label to.
Go(p, from, to) ==
    /\ upc[p].at = from
    /\ upc' = [upc EXCEPT ![p] = [at |-> to, i |-> 0]]

\* p makes the syscall at one of the labels of a loop body and goes on at
\* the next label, or after the last one at the first label of the next
\* iteration, or at after when Rounds iterations are done.
LoopStep(p, body, after) ==
    \E k \in 1 .. Len(body) :
        /\ upc[p].at = body[k]
        /\ upc' = [upc EXCEPT ![p] =
                    IF k < Len(body) THEN [@ EXCEPT !.at = body[k + 1]]
                    ELSE IF @.i + 1 < Rounds THEN [at |-> body[1], i |-> @.i + 1]
                    ELSE At(p, after)]

\* After a syscall of p, the label to go on at: ok if it returned a value
\* >= 0, bad otherwise (the test "if (result < 0)").
OnResult(p, from, ok, bad) ==
    /\ upc[p].at = from
    /\ upc' = [upc EXCEPT ![p] = [at |-> IF ret'[p] >= 0 THEN ok ELSE bad,
                                  i |-> 0]]

\* sysfork in a program: the parent goes on at parent; the child, entered
\* at Min(FreePids), starts at child when its thread was created, and a
\* child without a thread runs nothing.
ForkTo(p, parent, child) ==
    /\ SysFork(p)
    /\ upc' = IF FreePids = {} THEN [upc EXCEPT ![p] = At(p, parent)]
              ELSE LET c == Min(FreePids) IN
                   [upc EXCEPT ![p] = At(p, parent),
                               ![c] = At(c, IF proctab'[c] = "live"
                                            THEN child ELSE "none")]

\* thread_join's error for a tid with no thread; its value is in thread.c.
ENOCHILD == -10

\* A faulty syswait that waits for the process record of the thread to be
\* released, even when the thread was never created.
SysWaitRecord(p, tid) ==
    /\ proctab[tid] = "free"
    /\ ret' = [ret EXCEPT ![p] = tid]
    /\ UNCHANGED <<proctab, iotab, refcnt, inUse, file, held>>

\* syswait(tid), syscall.c 533-546: thread_join(tid) (thread.c, not among
\* the sources; spec.md 4.4 "exited tid / no-children").  The first thread
\* forked from pid 0 is given tid 1 and belongs to the process of pid 1;
\* the join returns once that process has exited, and fails at once when
\* no thread with that tid exists (the child's thread was never created).
SysWait(p, tid) ==
    /\ \/ proctab[tid] = "free" /\ ret' = [ret EXCEPT ![p] = tid]
       \/ proctab[tid] = "orphan" /\ ret' = [ret EXCEPT ![p] = ENOCHILD]
    /\ UNCHANGED <<proctab, iotab, refcnt, inUse, file, held>>

-----------------------------------------------------------------------------
(* init_ref_test.c: open test.txt as fd 0, fork; the parent closes fd 0,  *)
(* waits for thread 1 and exits; the child takes the length, reads,       *)
(* writes back, takes the length and reads again, closes fd 0, exits.     *)
RefChild == <<"rt_getlen", "rt_read", "rt_write", "rt_getlen2", "rt_read2">>

RefTest(p) ==
    \/ Go(p, "rt_open", "rt_fork") /\ SysFsOpen(p, 0, TestFile)
    \/ upc[p].at = "rt_fork" /\ ForkTo(p, "rt_pclose", RefChild[1])
    \/ Go(p, "rt_pclose", "rt_wait") /\ SysClose(p, 0)
    \/ Go(p, "rt_wait", "exit") /\ SysWait(p, 1)
    \/ \E k \in 1 .. Len(RefChild) :
          /\ Go(p, RefChild[k], IF k < Len(RefChild) THEN RefChild[k + 1]
                                                     ELSE "rt_cclose")
          /\ SysIoCall(p, 0, FALSE)
    \/ Go(p, "rt_cclose", "exit") /\ SysClose(p, 0)

(* init1.c: open the console (ser1) as fd 0, return if that fails; write  *)
(* the greeting Rounds times; close fd 0; return.                         *)
Init1Prog(p) ==
    \/ /\ \E known \in BOOLEAN : SysDevOpen(p, 0, known)
       /\ OnResult(p, "i1_open", "i1_write", "end")
    \/ LoopStep(p, <<"i1_write">>, "i1_close") /\ SysIoCall(p, 0, FALSE)
    \/ Go(p, "i1_close", "end") /\ SysClose(p, 0)

(* init2.c: open the console as fd 0 and trek as fd 1, exiting if either  *)
(* fails; exec fd 1.  If the exec comes back, main returns ("end"), into  *)
(* an image process_exec has already begun to tear down (Memory).         *)
Init2Prog(p) ==
    \/ /\ \E known \in BOOLEAN : SysDevOpen(p, 0, known)
       /\ OnResult(p, "i2_dev", "i2_fs", "exit")
    \/ SysFsOpen(p, 1, TrekFile) /\ OnResult(p, "i2_fs", "i2_exec", "exit")
    \/ SysExec(p, 1) /\ OnResult(p, "i2_exec", "trek", "end")

(* The lock test (src/unnamed/part_006): open test_lock.txt as fd 0 and  *)
(* fork; parent and child each seek, write and read Rounds times; the     *)
(* parent then waits for thread 1, reads, closes fd 0 and exits; the      *)
(* child closes fd 0 and exits.                                          *)
LockFile == "test_lock.txt"

LockTest(p) ==
    \/ Go(p, "lt_open", "lt_fork") /\ SysFsOpen(p, 0, LockFile)
    \/ upc[p].at = "lt_fork" /\ ForkTo(p, "lt_pseek", "lt_cseek")
    \/ /\ LoopStep(p, <<"lt_pseek", "lt_pwrite", "lt_pread">>, "lt_wait")
       /\ SysIoCall(p, 0, FALSE)
    \/ Go(p, "lt_wait", "lt_read") /\ SysWait(p, 1)
    \/ Go(p, "lt_read", "lt_pclose") /\ SysIoCall(p, 0, FALSE)
    \/ Go(p, "lt_pclose", "exit") /\ SysClose(p, 0)
    \/ /\ LoopStep(p, <<"lt_cseek", "lt_cwrite", "lt_cread">>, "lt_cclose")
       /\ SysIoCall(p, 0, FALSE)
    \/ Go(p, "lt_cclose", "exit") /\ SysClose(p, 0)

\* _exit() at the end of a branch.
ExitProg(p) == Go(p, "exit", "none") /\ SysExit(p)

\* A process booted with "any" makes any syscall ProcIo allows; its
\* children run "any" as well, and an exec'd image goes on as "any".
AnyProg(p) ==
    /\ upc[p].at = "any"
    /\ \/ TableCall(p) /\ UNCHANGED upc
       \/ ForkTo(p, "any", "any")
       \/ SysExit(p) /\ upc' = [upc EXCEPT ![p] = At(p, "none")]

\* One step of a shipped program in process p.
ProgStep(p) ==
    /\ \/ RefTest(p) \/ Init1Prog(p) \/ Init2Prog(p) \/ LockTest(p)
       \/ ExitProg(p)
    /\ UNCHANGED booted

UNext == \E p \in Pids : ProgStep(p) \/ (AnyProg(p) /\ UNCHANGED booted)

\* The timer preempts every user thread and the ready queue is FIFO
\* (spec.md 5): a process whose next syscall stays possible makes it.
\* Nothing is assumed of "any", which may stop at any point.
Fairness == \A p \in Pids : WF_uvars(ProgStep(p))

USpec == UInit /\ [][UNext]_uvars /\ Fairness

(***************************************************************************)
(* Properties                                                              *)
(***************************************************************************)

\* Every shipped init program runs to its end: init_ref_test's parent
\* returns from _wait(1) whether the child ran or its thread was never
\* created, the child's reads and writes and both closes happen, and no
\* process is left waiting on another (syswait, sysfork's failure path).
ProgramsEnd ==
    booted # "any" => <>(\A p \in Pids : upc[p].at \in Stopped)

\* Once every process of a shipped program has exited (every proctab
\* record released), no file_list entry and no device is left open:
\* fork's ioref, the closes of init_ref_test and process_exit's closes
\* together release every entry the programs opened.
AllExitedReleased ==
    (booted # "any" /\ \A p \in Pids : proctab[p] = "free") =>
        \A s \in Ios : ~inUse[s]
====
