---------------------------- MODULE MCLockedWrites ----------------------------
(* Instantiates LockedWrites for TLC: kfs_lock is the only condition.         *)
EXTENDS LockedWrites, TLC

CONSTANTS t1, t2, t3

MCThreads2 == {t1, t2}
MCThreads3 == {t1, t2, t3}
MCConds == {"kfs_lock"}
MCSymmetry == Permutations(MCThreads3)
=============================================================================
