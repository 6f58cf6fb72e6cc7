---------------------------- MODULE AtomicWrites ----------------------------
(***************************************************************************)
(* What fs_write promises its callers about the file position (spec.md    *)
(* 4.7: a write advances file_pos by the bytes written): each call is one *)
(* indivisible step that writes at the current position and moves it past *)
(* what it wrote.  Calls of different threads on one shared open file are *)
(* ordered, one after the other, and none is lost.  LockedWrites, where   *)
(* a write is a read of file_pos and a later store under kfs_lock, is      *)
(* checked against this specification.                                    *)
(***************************************************************************)
EXTENDS Naturals

CONSTANTS
    Threads,   \* the threads writing one byte per call to the shared file
    Rounds     \* how many calls each thread makes

VARIABLES
    apos,      \* file_pos of the shared open file
    adone      \* adone[t]: the calls of t that have taken effect

avars == <<apos, adone>>

AInit ==
    /\ apos = 0
    /\ adone = [t \in Threads |-> 0]

\* A call of t takes effect all at once: one byte at apos, apos moves on.
AWrite(t) ==
    /\ adone[t] < Rounds
    /\ apos' = apos + 1
    /\ adone' = [adone EXCEPT ![t] = @ + 1]

ANext == \E t \in Threads : AWrite(t)

ASpec == AInit /\ [][ANext]_avars
====
