----------------------------- MODULE MCVioblk -----------------------------
(* Two kernel threads on one virtio-blk device of two sectors.            *)
EXTENDS Vioblk, TLC

CONSTANTS t1, t2

MCThreads  == {t1, t2}
MCConds    == {"vio_lock", "used_updated"}
MCLocks    == {"vio_lock"}
MCDiskInit == (0 :> 1 @@ 1 :> 2)
MCSymmetry == Permutations(MCThreads)
====
