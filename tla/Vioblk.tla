------------------------------ MODULE Vioblk ------------------------------
(***************************************************************************)
(* The VirtIO block driver (the vioblk.c half of src/kern/lock.h, lines   *)
(* 170-814) with the device behind it, driven by kernel threads that read, *)
(* write and seek the one opened device.                                   *)
(*                                                                         *)
(* Driver state:  dev->pos, dev->bufblkno, the block buffer dev->blkbuf,  *)
(* the request header (type, sector), the data descriptor's WRITE flag,   *)
(* the status byte, avail.idx - used.idx (pending), vio_lock (SleepLock)  *)
(* and the condition vq.used_updated (ThreadKernel).  Device state: the   *)
(* sectors, whether it has been notified, and bit 0 of interrupt_status.  *)
(*                                                                         *)
(* A block holds BlkSz bytes; its content is one value of Vals, so a      *)
(* request moves one value.  Lengths are in bytes so that a length that   *)
(* is not a multiple of the block size can be passed.  unsigned long is   *)
(* kept to UlongBits bits: what matters of its wrap-around is that the    *)
(* wrapped count is larger than the disk.                                 *)
(*                                                                         *)
(* operation_single_blk fills the request with interrupts enabled but     *)
(* under vio_lock, then disables interrupts, notifies and waits: the      *)
(* filling, the notification and condition_wait are one step here, since  *)
(* neither another thread (held off by vio_lock) nor the ISR (interrupts  *)
(* off) can observe a state in between.                                   *)
(***************************************************************************)
EXTENDS SleepLock, Sequences

CONSTANTS
    BlkSz,       \* dev->blksz in bytes
    NumSectors,  \* sectors of the disk
    Vals,        \* block contents
    DiskInit,    \* DiskInit[s]: the content of sector s at boot
    Lengths,     \* the lengths threads pass to ioread and iowrite
    WriteVals,   \* the block contents threads write
    Positions,   \* the positions threads pass to ioctl(SETPOS)
    UlongBits,   \* width kept of unsigned long
    Calls        \* device calls each thread makes

ASSUME BlkSz \in Nat \ {0} /\ WriteVals \subseteq Vals /\ Lengths \subseteq Nat /\ Positions \subseteq Nat

VioLock     == "vio_lock"
UsedUpdated == "used_updated"
Sectors     == 0 .. NumSectors - 1
ULONG       == 2^UlongBits

\* request types and status byte values (lock.h 227-236)
TIn  == 0
TOut == 1
SOk    == 0
SIoErr == 1

\* dev->size as vioblk_attach sets it, lock.h 420: sizeof(struct
\* vioblk_device), not the disk's capacity; it is kept apart from lengths.
SizeofDevice == "sizeof(struct vioblk_device)"

\* Error codes (only their being negative and distinct matters).
EIO     == -5
ENOTSUP == -95

VARIABLES
    pos,        \* dev->pos
    bufblkno,   \* dev->bufblkno
    blkbuf,     \* the content of dev->blkbuf
    hdrType,    \* vq.req_header.type
    hdrSector,  \* vq.req_header.sector
    descWrite,  \* VIRTQ_DESC_F_WRITE in vq.desc[2].flags
    status,     \* vq.req_status
    pending,    \* avail.idx - used.idx
    notified,   \* the device has been notified of the pending request
    intStatus,  \* bit 0 of regs->interrupt_status
    disk,       \* disk[s]: sector s
    calls,      \* calls[t]: device calls thread t still makes
    op          \* op[t]: the call thread t is in and its locals

dvars == <<pos, bufblkno, blkbuf, hdrType, hdrSector, descWrite, status,
           pending, notified, intStatus, disk, calls, op>>
vars == <<kvars, lockTid, pc, dvars>>

PC == {"call", "acq", "wait", "read", "write", "setpos", "io_wait",
       "io_done", "rel", "bcast", "exit", "done"}

\* The locals of a call: n the unsigned count still to transfer, req the
\* length asked for, sector vioblk_write's local sector, done the bytes
\* transferred, got the blocks read, val the content written, p the
\* SETPOS argument; lockPos and snap (ghosts) dev->pos and the disk when
\* the call took vio_lock.
Op == [kind : {"read", "write", "setpos", "getlen", "getpos", "getblksz"}, n : 0 .. ULONG - 1, req : Nat,
       sector : Nat, done : Nat, got : Seq(Vals), val : Vals, p : Nat,
       lockPos : Nat, snap : [Sectors -> Vals], res : Int]

TypeOK ==
    /\ KernelTypeOK
    /\ LockTypeOK
    /\ pc \in [Threads -> PC]
    /\ pos \in Nat /\ bufblkno \in Nat /\ blkbuf \in Vals
    /\ hdrType \in {TIn, TOut} /\ hdrSector \in Nat
    /\ descWrite \in BOOLEAN /\ status \in {SOk, SIoErr}
    /\ pending \in {0, 1} /\ notified \in BOOLEAN /\ intStatus \in {0, 1}
    /\ disk \in [Sectors -> Vals]
    /\ calls \in [Threads -> 0 .. Calls]
    /\ \A t \in Threads :
          \/ op[t].kind = "getlen" /\ op[t].res = SizeofDevice
          \/ op[t] \in Op

Op0 == [kind |-> "read", n |-> 0, req |-> 0, sector |-> 0, done |-> 0,
        got |-> <<>>, val |-> CHOOSE v \in Vals : TRUE, p |-> 0,
        lockPos |-> 0, snap |-> DiskInit, res |-> 0]

(* vioblk_attach and vioblk_open, lock.h 340-474: the descriptors are set  *)
(* up with no WRITE flag on the data descriptor, both ring indices are 0, *)
(* dev->pos = 0, bufblkno = 0, vio_lock is initialised.                   *)
Init ==
    /\ running = Idle
    /\ ready \in {s \in [1 .. Cardinality(Threads) -> Threads] :
                      \A t \in Threads : \E i \in DOMAIN s : s[i] = t}
    /\ waiters = [c \in Conds |-> <<>>]
    /\ lockTid = [l \in Locks |-> NoThread]
    /\ pc = [t \in Threads |-> "call"]
    /\ pos = 0 /\ bufblkno = 0
    /\ blkbuf \in Vals   \* kmalloc'd, not cleared by the memset
    /\ hdrType = TIn /\ hdrSector = 0 /\ descWrite = FALSE /\ status = SOk
    /\ pending = 0 /\ notified = FALSE /\ intStatus = 0
    /\ disk = DiskInit
    /\ calls = [t \in Threads |-> Calls]
    /\ op = [t \in Threads |-> Op0]

\* Thread t makes its next device call, which the remaining calls bound.
StartCall(t) ==
    /\ running = t
    /\ pc[t] = "call"
    /\ calls[t] > 0
    /\ calls' = [calls EXCEPT ![t] = @ - 1]

\* Leave a call with result r without having taken vio_lock.
ReturnEarly(t, r) ==
    /\ op' = [op EXCEPT ![t] = [Op0 EXCEPT !.res = r]]
    /\ UNCHANGED pc

\* vioblk_read(io, buf, n), lock.h 533-558: dev->bufblkno = dev->pos /
\* blksz before anything else and without vio_lock; n = 0 returns 0, an n
\* that is not a multiple of blksz -ENOTSUP; otherwise lock_acquire.
VioblkRead(t, n) ==
    /\ StartCall(t)
    /\ bufblkno' = pos \div BlkSz
    /\ \/ n = 0 /\ ReturnEarly(t, 0)
       \/ n # 0 /\ n % BlkSz # 0 /\ ReturnEarly(t, ENOTSUP)
       \/ /\ n # 0 /\ n % BlkSz = 0
          /\ op' = [op EXCEPT ![t] = [Op0 EXCEPT !.kind = "read", !.n = n,
                                                 !.req = n]]
          /\ pc' = [pc EXCEPT ![t] = "acq"]
    /\ UNCHANGED <<kvars, lockTid, pos, blkbuf, hdrType, hdrSector, descWrite,
                   status, pending, notified, intStatus, disk>>

\* vioblk_write(io, buf, n), lock.h 603-627: the same unlocked store of
\* dev->bufblkno; the local sector starts at 0; dev->readonly is never set
\* by vioblk_attach, so the -EIO branch is dead; n = 0 returns 0; there is
\* no check that n is a multiple of blksz.
VioblkWrite(t, n, v) ==
    /\ StartCall(t)
    /\ bufblkno' = pos \div BlkSz
    /\ \/ n = 0 /\ ReturnEarly(t, 0)
       \/ /\ n # 0
          /\ op' = [op EXCEPT ![t] = [Op0 EXCEPT !.kind = "write", !.n = n,
                                          !.req = n, !.sector = 0, !.val = v]]
          /\ pc' = [pc EXCEPT ![t] = "acq"]
    /\ UNCHANGED <<kvars, lockTid, pos, blkbuf, hdrType, hdrSector, descWrite,
                   status, pending, notified, intStatus, disk>>

\* vioblk_ioctl(IOCTL_SETPOS) -> vioblk_setpos, lock.h 719-739 and 794-801.
VioblkSetpos(t, p) ==
    /\ StartCall(t)
    /\ op' = [op EXCEPT ![t] = [Op0 EXCEPT !.kind = "setpos", !.p = p]]
    /\ pc' = [pc EXCEPT ![t] = "acq"]
    /\ UNCHANGED <<kvars, lockTid, pos, bufblkno, blkbuf, hdrType, hdrSector,
                   descWrite, status, pending, notified, intStatus, disk>>

\* vioblk_ioctl(GETLEN / GETPOS / GETBLKSZ), lock.h 719-739, 770-812:
\* vioblk_getlen, vioblk_getpos and vioblk_getblksz store and return
\* dev->size, dev->pos and dev->blksz without vio_lock, in one step.
\* dev->pos is a uint64_t returned as an int; positions here are small.
VioblkQuery(t, cmd) ==
    /\ StartCall(t)
    /\ LET v == CASE cmd = "getlen"   -> SizeofDevice
                  [] cmd = "getpos"   -> pos
                  [] cmd = "getblksz" -> BlkSz
       IN  op' = [op EXCEPT ![t] = [Op0 EXCEPT !.kind = cmd, !.res = v]]
    /\ UNCHANGED <<kvars, lockTid, pc, pos, bufblkno, blkbuf, hdrType,
                   hdrSector, descWrite, status, pending, notified, intStatus,
                   disk>>

\* A faulty entry to the locked body that does not test vio_lock.
AcquireNoTest(t) ==
    /\ \/ /\ LockAcquireClaimNoTest(t, VioLock, "acq", op[t].kind)
          /\ op' = [op EXCEPT ![t].lockPos = pos, ![t].snap = disk]
       \/ LockAcquireBusy(t, VioLock, "acq", "wait") /\ UNCHANGED op
       \/ LockWait(t, VioLock, "wait", "acq") /\ UNCHANGED op
    /\ UNCHANGED <<pos, bufblkno, blkbuf, hdrType, hdrSector, descWrite,
                   status, pending, notified, intStatus, disk, calls>>

\* lock_acquire(&vio_lock) (lock.h 558, 627, 796); the ghost lockPos
\* records dev->pos and the ghost snap the disk at the claim.
Acquire(t) ==
    /\ \/ /\ LockAcquireClaim(t, VioLock, "acq", op[t].kind)
          /\ op' = [op EXCEPT ![t].lockPos = pos, ![t].snap = disk]
       \/ LockAcquireBusy(t, VioLock, "acq", "wait") /\ UNCHANGED op
       \/ LockWait(t, VioLock, "wait", "acq") /\ UNCHANGED op
    /\ UNCHANGED <<pos, bufblkno, blkbuf, hdrType, hdrSector, descWrite,
                   status, pending, notified, intStatus, disk, calls>>

\* Leave the locked body with result r: lock_release, then return.
Return(t, r) ==
    /\ pc' = [pc EXCEPT ![t] = "rel"]
    /\ op' = [op EXCEPT ![t].res = r]

\* lock_release(&vio_lock) on every path out of a locked body.
\* vioblk_setpos returns dev->pos read after the release (lock.h 799-800),
\* taken here with the broadcast, once other threads may have moved it.
Release(t) ==
    /\ \/ LockReleaseClear(t, VioLock, "rel", "bcast") /\ UNCHANGED op
       \/ /\ LockBroadcast(t, VioLock, "bcast", "call")
          /\ op' = IF op[t].kind = "setpos" THEN [op EXCEPT ![t].res = pos]
                                           ELSE op
    /\ UNCHANGED <<pos, bufblkno, blkbuf, hdrType, hdrSector, descWrite,
                   status, pending, notified, intStatus, disk, calls>>

\* thread_exit once the thread has made all of its calls.
Exit(t) ==
    /\ running = t
    /\ pc[t] = "call"
    /\ calls[t] = 0
    /\ pc' = [pc EXCEPT ![t] = "done"]
    /\ ThreadExit
    /\ UNCHANGED <<lockTid, dvars>>

\* operation_single_blk(dev, sector, datasz, type), lock.h 676-708, up to
\* the wait: the status byte is cleared, the header gets type and sector,
\* the data descriptor gets VIRTQ_DESC_F_WRITE when the type is IN (it is
\* never cleared), avail.idx is incremented, the device is notified with
\* interrupts disabled and the thread waits on used_updated.
Submit(t, sector, type) ==
    /\ status' = SOk
    /\ hdrType' = type
    /\ hdrSector' = sector
    /\ descWrite' = (descWrite \/ type = TIn)
    /\ pending' = pending + 1
    /\ notified' = TRUE
    /\ ConditionWait(UsedUpdated)
    /\ pc' = [pc EXCEPT ![t] = "io_wait"]

\* The loop of vioblk_read, lock.h 561-567 and 586-589: while bytes are left, read
\* sector dev->bufblkno; when none are left, release and return the count.
ReadLoop(t) ==
    /\ running = t
    /\ pc[t] = "read"
    /\ \/ op[t].n > 0 /\ Submit(t, bufblkno, TIn) /\ UNCHANGED op
       \/ op[t].n = 0 /\ Return(t, op[t].done)
          /\ UNCHANGED <<hdrType, hdrSector, descWrite, status, pending,
                         notified, kvars>>
    /\ UNCHANGED <<lockTid, pos, bufblkno, blkbuf, intStatus, disk, calls>>

\* The loop of vioblk_write, lock.h 630-638 and 658-661: while n > 0, copy a whole
\* block of the caller's buffer into dev->blkbuf and write it to sector
\* (the local counter from 0, not dev->pos).
WriteLoop(t) ==
    /\ running = t
    /\ pc[t] = "write"
    /\ \/ /\ op[t].n > 0
          /\ blkbuf' = op[t].val
          /\ Submit(t, op[t].sector, TOut)
          /\ UNCHANGED op
       \/ op[t].n = 0 /\ Return(t, op[t].done)
          /\ UNCHANGED <<blkbuf, hdrType, hdrSector, descWrite, status,
                         pending, notified, kvars>>
    /\ UNCHANGED <<lockTid, pos, bufblkno, intStatus, disk, calls>>

\* vioblk_read after a block, lock.h 576-582: memcpy out of dev->blkbuf,
\* bytes_read += blksz, bufsz -= blksz, bufblkno += 1, pos += blksz.
ReadBlockDone(t) ==
    /\ op' = [op EXCEPT ![t].got = Append(@, blkbuf), ![t].done = @ + BlkSz,
                        ![t].n = @ - BlkSz]
    /\ bufblkno' = bufblkno + 1
    /\ pos' = pos + BlkSz
    /\ pc' = [pc EXCEPT ![t] = "read"]

\* vioblk_write after a block, lock.h 648-652: bytes_written += blksz;
\* n -= blksz in unsigned long; sector += 1; pos += blksz.
WriteBlockDone(t) ==
    /\ op' = [op EXCEPT ![t].done = @ + BlkSz,
                        ![t].n = (@ - BlkSz) % ULONG,
                        ![t].sector = @ + 1]
    /\ pos' = pos + BlkSz
    /\ pc' = [pc EXCEPT ![t] = "write"]
    /\ UNCHANGED bufblkno

\* The thread woken from used_updated runs again: operation_single_blk
\* restores interrupts and checks the status byte (lock.h 709-716, 569-573 and 640-644); a
\* status other than OK makes the loop release vio_lock and return -EIO.
IoDone(t) ==
    /\ running = t
    /\ pc[t] = "io_wait"
    /\ \/ status # SOk /\ Return(t, EIO) /\ UNCHANGED <<pos, bufblkno>>
       \/ status = SOk /\ op[t].kind = "read" /\ ReadBlockDone(t)
       \/ status = SOk /\ op[t].kind = "write" /\ WriteBlockDone(t)
    /\ UNCHANGED <<kvars, lockTid, blkbuf, hdrType, hdrSector, descWrite,
                   status, pending, notified, intStatus, disk, calls>>

\* vioblk_setpos, lock.h 796-798: dev->pos = *posptr under vio_lock, then
\* lock_release; the result is read in Release.
Setpos(t) ==
    /\ running = t
    /\ pc[t] = "setpos"
    /\ pos' = op[t].p
    /\ pc' = [pc EXCEPT ![t] = "rel"]
    /\ UNCHANGED <<kvars, lockTid, op, bufblkno, blkbuf, hdrType, hdrSector,
                   descWrite, status, pending, notified, intStatus, disk, calls>>

\* The device serves the notified request and raises its interrupt: an IN
\* request copies the sector into the block buffer, an OUT request copies
\* the block buffer to the sector; a sector past the disk is IOERR.  An OUT
\* request whose data descriptor is device-writable is malformed (VirtIO
\* 2.7.4): the device may fail it or complete it without reading the data.
\* The sector is checked first.
DeviceServe ==
    /\ notified /\ pending = 1
    /\ LET inRange == hdrSector \in Sectors IN
       \/ /\ hdrType = TIn /\ inRange
          /\ blkbuf' = disk[hdrSector] /\ status' = SOk /\ UNCHANGED disk
       \/ /\ hdrType = TOut /\ inRange /\ ~descWrite
          /\ disk' = [disk EXCEPT ![hdrSector] = blkbuf] /\ status' = SOk
          /\ UNCHANGED blkbuf
       \/ /\ hdrType = TOut /\ inRange /\ descWrite
          /\ status' \in {SOk, SIoErr} /\ UNCHANGED <<blkbuf, disk>>
       \/ /\ ~inRange
          /\ status' = SIoErr /\ UNCHANGED <<blkbuf, disk>>
    /\ pending' = 0
    /\ notified' = FALSE
    /\ intStatus' = 1
    /\ UNCHANGED <<kvars, lockTid, pc, pos, bufblkno, hdrType, hdrSector,
                   descWrite, calls, op>>

\* A faulty ISR that acknowledges the interrupt without the broadcast.
VioblkIsrAckOnly ==
    /\ intStatus = 1
    /\ intStatus' = 0
    /\ UNCHANGED kvars

\* vioblk_isr, lock.h 749-759: bit 0 of interrupt_status set means the used
\* ring was updated: broadcast used_updated; then acknowledge.
VioblkIsr ==
    /\ intStatus = 1
    /\ ConditionBroadcast(UsedUpdated)
    /\ intStatus' = 0

Isr == VioblkIsr /\ UNCHANGED <<lockTid, pc, pos, bufblkno, blkbuf, hdrType,
                                hdrSector, descWrite, status, pending, notified,
                                disk, calls, op>>

Step(t) ==
    \/ \E n \in Lengths : VioblkRead(t, n)
    \/ \E n \in Lengths, v \in WriteVals : VioblkWrite(t, n, v)
    \/ \E p \in Positions : VioblkSetpos(t, p)
    \/ \E cmd \in {"getlen", "getpos", "getblksz"} : VioblkQuery(t, cmd)
    \/ Acquire(t) \/ ReadLoop(t) \/ WriteLoop(t) \/ IoDone(t) \/ Setpos(t)
    \/ Release(t) \/ Exit(t)

Next ==
    \/ \E t \in Threads : Step(t)
    \/ DeviceServe
    \/ Isr
    \/ Preempt /\ UNCHANGED <<lockTid, pc, dvars>>
    \/ IdleSchedule /\ UNCHANGED <<lockTid, pc, dvars>>

(* Threads as in LockedWrites: a thread the timer schedules infinitely    *)
(* often progresses; the device eventually serves a notified request and  *)
(* a raised interrupt is eventually taken.                                *)
Fairness ==
    /\ \A t \in Threads : SF_vars(Step(t))
    /\ WF_vars(IdleSchedule /\ UNCHANGED <<lockTid, pc, dvars>>)
    /\ WF_vars(DeviceServe)
    /\ WF_vars(Isr)

Spec == Init /\ [][Next]_vars /\ Fairness

-----------------------------------------------------------------------------
(* One request in flight, the vio_lock holder's: a thread sleeping on     *)
(* used_updated holds vio_lock, no other thread sleeps there, and a       *)
(* request in the avail ring has its sleeping submitter.  The single      *)
(* descriptor chain and dev->blkbuf are shared by all requests.           *)
OneRequestInFlight ==
    /\ \A t \in Threads : pc[t] = "io_wait" => lockTid[VioLock] = t
    /\ \A t, u \in Threads : pc[t] = "io_wait" /\ pc[u] = "io_wait" => t = u
    /\ pending = 1 => \E t \in Threads : pc[t] = "io_wait"

(* No lost completion: a thread that submitted a request and sleeps on    *)
(* used_updated is woken, because the notification and condition_wait    *)
(* run with interrupts disabled and the ISR broadcasts after the device    *)
(* raises its interrupt.                                                  *)
UsedWaitEnds ==
    \A t \in Threads : pc[t] = "io_wait" ~> pc[t] # "io_wait"

(* A read returns the sectors at the device position: the blocks a read  *)
(* has copied out are the sectors from dev->pos / blksz as it was when    *)
(* the read took vio_lock (spec.md 4.6: the position is kept in the       *)
(* device struct and advanced on every transfer).                          *)
ReadReturnsDisk ==
    \A t \in Threads :
        op[t].kind = "read" /\ pc[t] \in {"read", "io_wait", "rel"} =>
            \A i \in 1 .. Len(op[t].got) :
                LET s == op[t].lockPos \div BlkSz + i - 1
                IN  s \in Sectors /\ op[t].got[i] = disk[s]

(* A write changes exactly the sectors it is for: when vioblk_write is   *)
(* about to release vio_lock, no sector outside the blocks from dev->pos *)
(* / blksz (as it was when the write took vio_lock) that its length      *)
(* covers has changed, and if it returns the full length each of those    *)
(* sectors holds the value written (spec.md 4.6: transfers start at the   *)
(* device position).  It takes the write's own sector choice, its        *)
(* unsigned count and the descriptor flags a previous read left behind   *)
(* to get right together.                                                 *)
WriteEffect ==
    \A t \in Threads :
        LET first  == op[t].lockPos \div BlkSz
            target == first .. first + (op[t].req + BlkSz - 1) \div BlkSz - 1
        IN  (op[t].kind = "write" /\ pc[t] = "rel") =>
                /\ \A s \in Sectors \ target : disk[s] = op[t].snap[s]
                /\ op[t].res = op[t].req =>
                      \A s \in target : s \in Sectors /\ disk[s] = op[t].val
====
