-------------------------------- MODULE MCKfs --------------------------------
(* Instantiates Kfs for TLC: two files on a disk of 2-byte blocks, over   *)
(* the in-memory literal device (iolit, as test_kfs.c mounts it).         *)
EXTENDS Kfs, TLC

CONSTANTS t1, t2, t3

MCThreads == {t1, t2}
MCConds == {"kfs_lock"}

\* inode 0: "a", 3 bytes in data blocks 0 and 1; inode 1: "b", 2 bytes in
\* data block 2.  "x" is not in the directory.
MCByteLen == (0 :> 3) @@ (1 :> 2)
MCDataBlockNum == (0 :> <<0, 1>>) @@ (1 :> <<2>>)
MCDir == ("a" :> 0) @@ ("b" :> 1)
MCNames == {"a", "b", "x"}
MCDiskInit == (0 :> <<1, 2>>) @@ (1 :> <<2, 0>>) @@ (2 :> <<1, 1>>)

\* iolit_write at the position set by lit_setpos (io.c 211-232, 350-362):
\* the block lands where the file system put it.
IoLitPut(d, k, v) == [d EXCEPT ![k] = v]

=============================================================================
