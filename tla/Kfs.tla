-------------------------------- MODULE Kfs --------------------------------
(***************************************************************************)
(* The flat file system of src/kern/kfs.c, driven by kernel threads that  *)
(* open, read, write, seek and close files concurrently.                   *)
(*                                                                         *)
(* State kept by kfs.c and modelled here:                                 *)
(*   file_list[MAX_OPEN_FILES]  ->  slot (flags, io.ops, pos, size, inode) *)
(*   static inode_t inode       ->  inodeBuf (the one shared inode buffer) *)
(*   static data_block_t        ->  dataBuf  (the one shared data buffer)  *)
(*   kfs_lock                   ->  lockTid["kfs_lock"] (SleepLock)        *)
(*   the disk image behind disk_io -> disk, one value per 4 KiB block:    *)
(*     block 0 the boot block, blocks 1..NumInodes the inodes, then the   *)
(*     data blocks.                                                       *)
(* The boot block is read once by fs_mount and kept in memory, so the     *)
(* directory (Dir), num_inodes and num_data are constants.  A block holds *)
(* BLK bytes (FS_BLKSZ, 4096 in the code); an inode block is the value    *)
(* [inode |-> i], whose byte_len and data_block_num are ByteLen[i] and    *)
(* DataBlockNum[i].  The device under disk_io is a parameter: DiskPut is  *)
(* what a SETPOS to the start of block k followed by a write of one block *)
(* does to the disk.                                                      *)
(*                                                                         *)
(* Every call of update_inode, update_data_block, write_data_block and    *)
(* write_inode is a disk I/O that may sleep; the caller holds kfs_lock,    *)
(* so only the unlocked fs_close can run in between, and it can run at    *)
(* any step boundary because the timer preempts kernel code.              *)
(***************************************************************************)
EXTENDS SleepLock, SequencesExt, Integers

CONSTANTS
    BLK,           \* FS_BLKSZ, bytes per block
    NumInodes,     \* boot_block.num_inodes
    NumData,       \* boot_block.num_data
    ByteLen,       \* ByteLen[i]: byte_len of inode i
    DataBlockNum,  \* DataBlockNum[i]: data_block_num of inode i, a sequence
    Dir,           \* the directory: file name -> inode number
    Names,         \* the names threads pass to fs_open (some not in Dir)
    Vals,          \* byte values; 0 is the zero byte
    DiskInit,      \* the data blocks of the image: DiskInit[b] for b < NumData
    NumSlots,      \* MAX_OPEN_FILES
    MaxN,          \* the largest n threads pass to fs_read and fs_write
    Calls,         \* how many file calls each thread makes
    NoSlot,        \* an io pointer that is not a file_list slot
    DiskPut(_, _, _)  \* DiskPut(disk, k, v): writing block image v at block k

ASSUME /\ BLK \in Nat \ {0} /\ 0 \in Vals
       /\ \A i \in 0..NumInodes-1 : \A k \in DOMAIN DataBlockNum[i] :
                DataBlockNum[i][k] \in Nat

Inodes == 0..(NumInodes - 1)
Slots == 1..NumSlots
DiskIdx == 0..NumInodes + NumData
DataPos(b) == 1 + NumInodes + b          \* block index of data block b
InodePos(i) == 1 + i                     \* block index of inode i
Data == [1..BLK -> Vals]
Zero == [k \in 1..BLK |-> 0]

\* A 4 KiB block image: the boot block, inode ino, or data bytes.
Block == [tag : {"boot", "inode", "data"}, ino : Inodes, bytes : Data]
BootImg     == [tag |-> "boot", ino |-> 0, bytes |-> Zero]
InodeImg(i) == [tag |-> "inode", ino |-> i, bytes |-> Zero]
DataImg(b)  == [tag |-> "data", ino |-> 0, bytes |-> b]

\* The negated error codes the calls return (error.h; only their being
\* distinct and negative matters).
ENOENT == -2
EIO    == -5
EBUSY  == -16
EINVAL == -22
Errors == {ENOENT, EIO, EBUSY, EINVAL}

\* The view of a block image as inode_t: an inode block gives its inode's
\* fields; any other image is read as byte_len 0 with no data blocks.
ImgLen(img)    == IF img.tag = "inode" THEN ByteLen[img.ino] ELSE 0
ImgBlocks(img) == IF img.tag = "inode" THEN DataBlockNum[img.ino] ELSE <<>>

\* (inode.byte_len + FS_BLKSZ - 1) / FS_BLKSZ
AllocatedBlocks(img) == (ImgLen(img) + BLK - 1) \div BLK

\* The bytes of the allocated blocks of inode i, in file order.
FileBytes(d, i) ==
    FlattenSeq([k \in 1..AllocatedBlocks(InodeImg(i)) |->
                   d[DataPos(DataBlockNum[i][k])].bytes])

\* Sequence s with the bytes from offset start on replaced by w.
Overwrite(s, start, w) ==
    [k \in DOMAIN s |-> IF start < k /\ k <= start + Len(w)
                        THEN w[k - start] ELSE s[k]]

\* A released file_list entry, as release_file leaves it.
FreeSlot == [flags |-> 0, ops |-> FALSE, pos |-> 0, size |-> 0, ino |-> 0]

KfsLock == "kfs_lock"

VARIABLES
    slot,      \* slot[s]: file_list[s]
    inodeBuf,  \* the static inode buffer, as the block image it was read from
    dataBuf,   \* the static data_block buffer
    disk,      \* disk[k]: block k of the device
    hd,        \* hd[t]: the io pointer thread t holds (a slot), or NoSlot
    calls,     \* calls[t]: file calls thread t still makes
    op,        \* op[t]: the call thread t is in and its local variables
    opened     \* opened[t]: the inode thread t opened its file for (history)

fvars == <<slot, inodeBuf, dataBuf, disk, hd, calls, op, opened>>
vars == <<kvars, lockTid, pc, fvars>>

PC == {"call", "acq", "wait", "open", "alloc", "read", "read_loop",
       "write", "write_loop", "setpos", "close2", "rel", "bcast",
       "exit", "done", "fault"}

Kinds == {"open", "read", "write", "setpos", "close", "getlen", "getpos",
          "getblksz"}

Op == [kind : Kinds, name : Names, n : 0..MaxN, data : Seq(Vals),
       p : 0..MaxN, start : Nat, ino : Inodes, total : Nat, done : Nat,
       got : Seq(Vals), snap : [DiskIdx -> Block],
       res : Nat \cup Errors]

TypeOK ==
    /\ KernelTypeOK
    /\ LockTypeOK
    /\ pc \in [Threads -> PC]
    /\ slot \in [Slots -> [flags : {0, 1}, ops : BOOLEAN, pos : Nat,
                           size : Nat, ino : Nat]]
    /\ inodeBuf \in Block
    /\ dataBuf \in Data
    /\ disk \in [DiskIdx -> Block]
    /\ hd \in [Threads -> Slots \cup {NoSlot}]
    /\ calls \in [Threads -> 0..Calls]
    /\ op \in [Threads -> Op]
    /\ opened \in [Threads -> Inodes]

\* The disk image at boot: boot block, inode blocks, data blocks.
DiskImage ==
    [k \in DiskIdx |-> IF k = 0 THEN BootImg
                       ELSE IF k <= NumInodes THEN InodeImg(k - 1)
                       ELSE DataImg(DiskInit[k - 1 - NumInodes])]

\* The local variables of a call that has just been made.
Call0(kind) == [kind |-> kind, name |-> CHOOSE x \in Names : TRUE, n |-> 0,
                data |-> <<>>, p |-> 0, start |-> 0, ino |-> 0, total |-> 0,
                done |-> 0, got |-> <<>>, snap |-> DiskImage, res |-> 0]

(* fs_mount, kfs.c 143-175: kfs_lock initialised, every file_list entry  *)
(* released by initialize_file_list, the boot block read.  The threads   *)
(* start ready in any order and hold no file.                            *)
Init ==
    /\ running = Idle
    /\ ready \in {s \in [1..Cardinality(Threads) -> Threads] :
                      \A t \in Threads : \E i \in DOMAIN s : s[i] = t}
    /\ waiters = [c \in Conds |-> <<>>]
    /\ lockTid = [l \in Locks |-> NoThread]
    /\ pc = [t \in Threads |-> "call"]
    /\ slot = [s \in Slots |-> FreeSlot]
    /\ inodeBuf = DataImg(Zero)
    /\ dataBuf = Zero
    /\ disk = DiskImage
    /\ hd = [t \in Threads |-> NoSlot]
    /\ calls = [t \in Threads |-> Calls]
    /\ op = [t \in Threads |-> Call0("open")]
    /\ opened = [t \in Threads |-> 0]

\* Thread t makes its next call, which the remaining calls bound.
StartCall(t, to) ==
    /\ running = t
    /\ pc[t] = "call"
    /\ calls[t] > 0
    /\ calls' = [calls EXCEPT ![t] = @ - 1]
    /\ pc' = [pc EXCEPT ![t] = to]

\* fs_open(name, &io), kfs.c 195-199: a thread without a file opens one.
CallOpen(t) ==
    /\ hd[t] = NoSlot
    /\ StartCall(t, "acq")
    /\ \E nm \in Names :
          op' = [op EXCEPT ![t] = [Call0("open") EXCEPT !.name = nm]]
    /\ UNCHANGED <<kvars, lockTid, slot, inodeBuf, dataBuf, disk, hd, opened>>

\* io->ops->read / write / ctl(SETPOS) on the thread's file (kfs.c 418-427,
\* 295-303, 541-553 and 717-721): the call takes kfs_lock first.
CallIo(t) ==
    /\ hd[t] # NoSlot
    /\ slot[hd[t]].ops
    /\ StartCall(t, "acq")
    /\ \/ \E n \in 1..MaxN :
             op' = [op EXCEPT ![t] = [Call0("read") EXCEPT !.n = n]]
       \/ \E n \in 1..MaxN : \E w \in [1..n -> Vals \ {0}] :
             op' = [op EXCEPT ![t] = [Call0("write") EXCEPT !.n = n, !.data = w]]
       \/ \E p \in 0..MaxN :
             op' = [op EXCEPT ![t] = [Call0("setpos") EXCEPT !.p = p]]
    /\ UNCHANGED <<kvars, lockTid, slot, inodeBuf, dataBuf, disk, hd, opened>>

\* What fs_getlen, fs_getpos and fs_getblksz (kfs.c 673-757) store through
\* arg: the entry's file_size, its file_pos, FS_BLKSZ.  None takes kfs_lock.
Query(cmd, f) ==
    CASE cmd = "getlen" -> f.size
      [] cmd = "getpos" -> f.pos
      [] cmd = "getblksz" -> BLK

\* io->ops->ctl(GETLEN / GETPOS / GETBLKSZ), fs_ioctl kfs.c 541-560: the
\* io is the file_list entry (get_fd_by_io); the query returns 0 having
\* stored its answer, kept in res, in one step on the unlocked entry.
CallQuery(t) ==
    /\ hd[t] # NoSlot
    /\ slot[hd[t]].ops
    /\ StartCall(t, "call")
    /\ \E cmd \in {"getlen", "getpos", "getblksz"} :
          op' = [op EXCEPT ![t] = [Call0(cmd) EXCEPT !.res = Query(cmd, slot[hd[t]])]]
    /\ UNCHANGED <<kvars, lockTid, slot, inodeBuf, dataBuf, disk, hd, opened>>

\* fs_close, kfs.c 264-271 and release_file, kfs.c 627-632: without
\* kfs_lock, the slot is marked unused (dt->flags = F_NOT_USE) first.
CallClose(t) ==
    /\ hd[t] # NoSlot
    /\ slot[hd[t]].ops
    /\ StartCall(t, "close2")
    /\ op' = [op EXCEPT ![t] = Call0("close")]
    /\ slot' = [slot EXCEPT ![hd[t]].flags = 0]
    /\ UNCHANGED <<kvars, lockTid, inodeBuf, dataBuf, disk, hd, opened>>

\* release_file, kfs.c 633-636: the other fields are reset; the caller's io
\* pointer is then dead.
CloseFinish(t) ==
    /\ running = t
    /\ pc[t] = "close2"
    /\ slot' = [slot EXCEPT ![hd[t]] = [@ EXCEPT !.ops = FALSE, !.pos = 0,
                                                  !.size = 0, !.ino = 0]]
    /\ hd' = [hd EXCEPT ![t] = NoSlot]
    /\ pc' = [pc EXCEPT ![t] = "call"]
    /\ UNCHANGED <<kvars, lockTid, inodeBuf, dataBuf, disk, calls, op, opened>>

\* A call through an io whose io.ops is NULL: the kernel faults on the
\* indirect call and the thread goes no further.
CallFault(t) ==
    /\ running = t
    /\ pc[t] = "call"
    /\ calls[t] > 0
    /\ hd[t] # NoSlot
    /\ ~slot[hd[t]].ops
    /\ pc' = [pc EXCEPT ![t] = "fault"]
    /\ UNCHANGED <<kvars, lockTid, fvars>>

\* The body that follows lock_acquire(&kfs_lock) in each call.
Body(t) == op[t].kind

\* lock_acquire(&kfs_lock) at the top of fs_open, fs_read, fs_write and
\* fs_setpos (kfs.c 200, 427, 303, 721).
Acquire(t) ==
    /\ \/ LockAcquireClaim(t, KfsLock, "acq", Body(t))
       \/ LockAcquireBusy(t, KfsLock, "acq", "wait")
       \/ LockWait(t, KfsLock, "wait", "acq")
    /\ UNCHANGED fvars

\* lock_release(&kfs_lock) on every path out of a locked call; the thread
\* then makes its next call.
Release(t) ==
    /\ \/ LockReleaseClear(t, KfsLock, "rel", "bcast")
       \/ LockBroadcast(t, KfsLock, "bcast", "call")
    /\ UNCHANGED fvars

\* Leave the locked body with result r.
Return(t, r) ==
    /\ pc' = [pc EXCEPT ![t] = "rel"]
    /\ op' = [op EXCEPT ![t].res = r]

\* thread_exit once the thread has made all of its calls.
Exit(t) ==
    /\ running = t
    /\ pc[t] = "call"
    /\ calls[t] = 0
    /\ pc' = [pc EXCEPT ![t] = "done"]
    /\ ThreadExit
    /\ UNCHANGED <<lockTid, fvars>>

\* update_inode(i), kfs.c 769-784: SETPOS to block 1 + i of disk_io and a
\* read of one block: the image that lands in the shared inode buffer.
UpdateInode(d, i) == d[InodePos(i)]

\* update_data_block(b), kfs.c 799-817: SETPOS past the boot block and the
\* inodes to data block b and a read of one block into the data buffer.
UpdateDataBlock(d, b) == d[DataPos(b)].bytes

\* write_data_block(b), kfs.c 832-849: SETPOS to data block b and a write
\* of the shared data buffer, which the device behind disk_io performs.
WriteDataBlock(d, b, bytes) == DiskPut(d, DataPos(b), DataImg(bytes))

\* write_inode(i), kfs.c 864-879: SETPOS to inode block i and a write of
\* the shared inode buffer.
WriteInode(d, i, img) == DiskPut(d, InodePos(i), img)

(* fs_open, kfs.c 201-228: linear scan of the directory; on a miss         *)
(* -ENOENT, on a hit update_inode reads the inode into the shared buffer. *)
OpenLookup(t) ==
    /\ running = t
    /\ pc[t] = "open"
    /\ IF op[t].name \in DOMAIN Dir
       THEN /\ inodeBuf' = UpdateInode(disk, Dir[op[t].name])
            /\ pc' = [pc EXCEPT ![t] = "alloc"]
            /\ UNCHANGED op
       ELSE /\ Return(t, ENOENT)
            /\ UNCHANGED inodeBuf
    /\ UNCHANGED <<kvars, lockTid, slot, dataBuf, disk, hd, calls, opened>>

(* fs_open, kfs.c 231-243, and allocate_file, kfs.c 594-612: the first    *)
(* entry with flags == F_NOT_USE gets the inode, pos 0, size              *)
(* inode.byte_len and F_IN_USE, then the vtable; *ioptr is set.  -EBUSY  *)
(* when every entry is in use.                                           *)
OpenAlloc(t) ==
    /\ running = t
    /\ pc[t] = "alloc"
    /\ LET ino  == Dir[op[t].name]
            free == {s \in Slots : slot[s].flags = 0}
        IN IF ino <= NumInodes /\ free # {}
           THEN LET s == Min(free) IN
                /\ slot' = [slot EXCEPT ![s] = [flags |-> 1, ops |-> TRUE,
                               pos |-> 0, size |-> ImgLen(inodeBuf), ino |-> ino]]
                /\ hd' = [hd EXCEPT ![t] = s]
                /\ opened' = [opened EXCEPT ![t] = ino]
                /\ Return(t, 0)
           ELSE /\ Return(t, EBUSY)
                /\ UNCHANGED <<slot, hd, opened>>
    /\ UNCHANGED <<kvars, lockTid, inodeBuf, dataBuf, disk, calls>>

(* fs_read, kfs.c 429-468: end of file returns 0; a bad inode number      *)
(* returns -EIO; otherwise update_inode, and the count to read is         *)
(* min(n, file_size - file_pos).                                         *)
ReadStart(t) ==
    /\ running = t
    /\ pc[t] = "read"
    /\ LET fd == slot[hd[t]] IN
       CASE fd.pos >= fd.size ->
              Return(t, 0) /\ UNCHANGED inodeBuf
         [] fd.ino >= NumInodes ->
              Return(t, EIO) /\ UNCHANGED inodeBuf
         [] OTHER ->
              /\ inodeBuf' = UpdateInode(disk, fd.ino)
              /\ op' = [op EXCEPT ![t].total = Min({op[t].n, fd.size - fd.pos}),
                                  ![t].start = fd.pos, ![t].ino = fd.ino]
              /\ pc' = [pc EXCEPT ![t] = "read_loop"]
    /\ UNCHANGED <<kvars, lockTid, slot, dataBuf, disk, hd, calls, opened>>

\* The block and offset of the next byte of a loop of fs_read or fs_write:
\* byte_offset = fd->file_pos + done, re-read at every iteration.
Offset(t) == slot[hd[t]].pos + op[t].done
BlockIdx(t) == Offset(t) \div BLK
BlockOff(t) == Offset(t) % BLK

\* A faulty fs_read iteration that copies out of the shared data buffer
\* without calling update_data_block first.
ReadBlockStale(t) ==
    /\ running = t
    /\ pc[t] = "read_loop"
    /\ op[t].done < op[t].total
    /\ IF BlockIdx(t) >= AllocatedBlocks(inodeBuf)
            \/ ImgBlocks(inodeBuf)[BlockIdx(t) + 1] >= NumData
       THEN Return(t, EIO) /\ UNCHANGED dataBuf
       ELSE LET blk  == dataBuf
                copy == Min({BLK - BlockOff(t), op[t].total - op[t].done})
            IN /\ dataBuf' = blk
               /\ op' = [op EXCEPT ![t].got = @ \o SubSeq(blk, BlockOff(t) + 1,
                                                          BlockOff(t) + copy),
                                   ![t].done = @ + copy]
               /\ UNCHANGED pc
    /\ UNCHANGED <<kvars, lockTid, slot, inodeBuf, disk, hd, calls, opened>>

(* One iteration of the loop of fs_read, kfs.c 473-515: a block index past *)
(* the allocated blocks or a data block number past num_data is -EIO;     *)
(* otherwise update_data_block loads the block into the shared buffer and *)
(* min(BLK - offset, left) bytes are copied out.                         *)
ReadBlock(t) ==
    /\ running = t
    /\ pc[t] = "read_loop"
    /\ op[t].done < op[t].total
    /\ IF BlockIdx(t) >= AllocatedBlocks(inodeBuf)
            \/ ImgBlocks(inodeBuf)[BlockIdx(t) + 1] >= NumData
       THEN Return(t, EIO) /\ UNCHANGED dataBuf
       ELSE LET blk  == UpdateDataBlock(disk, ImgBlocks(inodeBuf)[BlockIdx(t) + 1])
                copy == Min({BLK - BlockOff(t), op[t].total - op[t].done})
            IN /\ dataBuf' = blk
               /\ op' = [op EXCEPT ![t].got = @ \o SubSeq(blk, BlockOff(t) + 1,
                                                          BlockOff(t) + copy),
                                   ![t].done = @ + copy]
               /\ UNCHANGED pc
    /\ UNCHANGED <<kvars, lockTid, slot, inodeBuf, disk, hd, calls, opened>>

(* fs_read, kfs.c 518-524: fd->file_pos += read_bytes and return.        *)
ReadFinish(t) ==
    /\ running = t
    /\ pc[t] = "read_loop"
    /\ op[t].done >= op[t].total
    /\ slot' = [slot EXCEPT ![hd[t]].pos = @ + op[t].done]
    /\ Return(t, op[t].done)
    /\ UNCHANGED <<kvars, lockTid, inodeBuf, dataBuf, disk, hd, calls, opened>>

(* fs_write, kfs.c 305-331: a bad inode number returns -EIO; otherwise    *)
(* update_inode reads the inode into the shared buffer.                  *)
WriteStart(t) ==
    /\ running = t
    /\ pc[t] = "write"
    /\ LET fd == slot[hd[t]] IN
       IF fd.ino >= NumInodes
       THEN Return(t, EIO) /\ UNCHANGED inodeBuf
       ELSE /\ inodeBuf' = UpdateInode(disk, fd.ino)
            /\ op' = [op EXCEPT ![t].start = fd.pos, ![t].ino = fd.ino,
                                ![t].snap = disk]
            /\ pc' = [pc EXCEPT ![t] = "write_loop"]
    /\ UNCHANGED <<kvars, lockTid, slot, dataBuf, disk, hd, calls, opened>>

\* The loop of fs_write stops at the first block index past the allocated
\* blocks of the inode (kfs.c 347-349): the file never grows.
WriteRoom(t) ==
    /\ BlockIdx(t) < AllocatedBlocks(inodeBuf)
    /\ BlockIdx(t) < Len(ImgBlocks(inodeBuf))

\* A faulty fs_write iteration that copies into the shared data buffer
\* without calling update_data_block first, then writes it back.
WriteBlockStale(t) ==
    /\ running = t
    /\ pc[t] = "write_loop"
    /\ op[t].done < op[t].n
    /\ WriteRoom(t)
    /\ LET b    == ImgBlocks(inodeBuf)[BlockIdx(t) + 1]
           off  == BlockOff(t)
           copy == Min({BLK - off, op[t].n - op[t].done})
           new  == Overwrite(dataBuf, off,
                             SubSeq(op[t].data, op[t].done + 1, op[t].done + copy))
       IN /\ dataBuf' = new
          /\ disk' = DiskPut(disk, DataPos(b), DataImg(new))
          /\ op' = [op EXCEPT ![t].done = @ + copy]
    /\ UNCHANGED <<kvars, lockTid, pc, slot, inodeBuf, hd, calls, opened>>

(* One iteration of the loop of fs_write, kfs.c 339-380: update_data_block *)
(* loads the block into the shared buffer, min(BLK - offset, left) bytes  *)
(* of the caller's buffer are copied in, and write_data_block writes the  *)
(* shared buffer back to the same block.                                  *)
WriteBlock(t) ==
    /\ running = t
    /\ pc[t] = "write_loop"
    /\ op[t].done < op[t].n
    /\ WriteRoom(t)
    /\ LET b    == ImgBlocks(inodeBuf)[BlockIdx(t) + 1]
           off  == BlockOff(t)
           copy == Min({BLK - off, op[t].n - op[t].done})
           new  == Overwrite(UpdateDataBlock(disk, b), off,
                             SubSeq(op[t].data, op[t].done + 1, op[t].done + copy))
       IN /\ dataBuf' = new
          /\ disk' = WriteDataBlock(disk, b, new)
          /\ op' = [op EXCEPT ![t].done = @ + copy]
    /\ UNCHANGED <<kvars, lockTid, pc, slot, inodeBuf, hd, calls, opened>>

(* fs_write, kfs.c 383-397: when all bytes are written or the loop broke, *)
(* fd->file_pos += written_bytes, write_inode writes the shared inode     *)
(* buffer back to the file's inode block, and the call returns.          *)
WriteFinish(t) ==
    /\ running = t
    /\ pc[t] = "write_loop"
    /\ op[t].done >= op[t].n \/ ~WriteRoom(t)
    /\ slot' = [slot EXCEPT ![hd[t]].pos = @ + op[t].done]
    /\ disk' = WriteInode(disk, slot[hd[t]].ino, inodeBuf)
    /\ Return(t, op[t].done)
    /\ UNCHANGED <<kvars, lockTid, inodeBuf, dataBuf, hd, calls, opened>>

(* fs_setpos, kfs.c 722-731: a position past file_size is -EINVAL,       *)
(* otherwise it becomes fd->file_pos.                                    *)
SetPos(t) ==
    /\ running = t
    /\ pc[t] = "setpos"
    /\ IF op[t].p > slot[hd[t]].size
       THEN Return(t, EINVAL) /\ UNCHANGED slot
       ELSE /\ slot' = [slot EXCEPT ![hd[t]].pos = op[t].p]
            /\ Return(t, 0)
    /\ UNCHANGED <<kvars, lockTid, inodeBuf, dataBuf, disk, hd, calls, opened>>

Step(t) ==
    \/ CallOpen(t) \/ CallIo(t) \/ CallQuery(t) \/ CallClose(t) \/ CloseFinish(t)
    \/ CallFault(t) \/ Acquire(t) \/ Release(t) \/ Exit(t)
    \/ OpenLookup(t) \/ OpenAlloc(t)
    \/ ReadStart(t) \/ ReadBlock(t) \/ ReadFinish(t)
    \/ WriteStart(t) \/ WriteBlock(t) \/ WriteFinish(t)
    \/ SetPos(t)

Next ==
    \/ \E t \in Threads : Step(t)
    \/ Preempt /\ UNCHANGED <<lockTid, pc, fvars>>
    \/ IdleSchedule /\ UNCHANGED <<lockTid, pc, fvars>>

Spec == Init /\ [][Next]_vars

-----------------------------------------------------------------------------
\* The file_list entry behind thread t's io pointer is still the one fs_open
\* gave it: in use, with the vtable, naming the inode it opened.
Intact(t) ==
    /\ slot[hd[t]].flags = 1
    /\ slot[hd[t]].ops
    /\ slot[hd[t]].ino = opened[t]

(* A read returns the file's bytes: while fs_read runs under kfs_lock on   *)
(* a file that is still the caller's, the bytes it has copied out of the  *)
(* shared data buffer are the bytes of that file on disk from the         *)
(* position where the read started.                                       *)
ReadReturnsFileData ==
    \A t \in Threads :
        (op[t].kind = "read" /\ pc[t] \in {"read_loop", "rel"}
            /\ op[t].res \notin Errors /\ Intact(t))
        => op[t].got = SubSeq(FileBytes(disk, op[t].ino), op[t].start + 1,
                              op[t].start + op[t].done)

(* A write changes exactly the bytes it reports: when fs_write returns k  *)
(* bytes written on a file that is still the caller's, the disk is the    *)
(* disk at its start with the file's bytes from the starting position     *)
(* replaced by the first k bytes of the caller's buffer; no other byte,   *)
(* no inode block and not the boot block changed.                         *)
WriteEffect ==
    \A t \in Threads :
        (op[t].kind = "write" /\ pc[t] = "rel" /\ op[t].res \notin Errors
            /\ Intact(t))
        => /\ \A k \in DiskIdx \ {DataPos(b) : b \in 0..NumData-1} :
                  disk[k] = op[t].snap[k]
           /\ \A i \in Inodes :
                  FileBytes(disk, i) =
                     IF i = op[t].ino
                     THEN Overwrite(FileBytes(op[t].snap, i), op[t].start,
                                    SubSeq(op[t].data, 1, op[t].res))
                     ELSE FileBytes(op[t].snap, i)

(* An open file stays the caller's: while a thread holds the io pointer  *)
(* fs_open returned and has not begun to close it, the file_list entry is *)
(* in use, has the vtable and names the inode the thread opened, whatever *)
(* other threads open and close meanwhile.  fs_close takes no lock.       *)
OpenFileIntegrity ==
    \A t \in Threads : (hd[t] # NoSlot /\ pc[t] # "close2") => Intact(t)
=============================================================================
