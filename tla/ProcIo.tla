------------------------------ MODULE ProcIo ------------------------------
(***************************************************************************)
(* The process table and the per-process descriptor tables of              *)
(* src/kern/process.c and src/kern/syscall.c, over the open-file table of *)
(* src/kern/kfs.c.                                                         *)
(*                                                                         *)
(* A descriptor iotab[p][fd] holds a pointer to the io_intf embedded in   *)
(* an entry of kfs's file_list; the entry is the "slot" here.  Its        *)
(* refcnt counts the descriptors that share it after fork.  Each syscall  *)
(* is one step of the process that makes it: a process is one user thread *)
(* and the calls below do not sleep, so processes interleave at syscall   *)
(* granularity.                                                            *)
(*                                                                         *)
(* ioref and ioclose live in io.h, which is not among the sources; they   *)
(* are modelled from spec.md 4.8: ioref increments the count, ioclose     *)
(* decrements it and calls the implementation's close only at zero.       *)
(*                                                                         *)
(* held[p][fd] is a ghost: the file the process opened on that            *)
(* descriptor.  It is not in the code; the properties compare it with     *)
(* what the slot the descriptor points to currently holds.                *)
(***************************************************************************)
EXTENDS Naturals, FiniteSets, FiniteSetsExt

CONSTANTS
    NProc,       \* NPROC, the size of proctab
    IoMax,       \* PROCESS_IOMAX, the size of every iotab
    NumSlots,    \* MAX_OPEN_FILES, the size of kfs's file_list
    Names,       \* file names user programs pass to _fsopen
    Dir,         \* the names that have a directory entry on the disk
    Null,        \* the NULL pointer of iotab and of held
    ExitShared,  \* may a program exit holding a descriptor it shares?
    MaxRef       \* model bound: a fork that would take a refcnt past it is not explored

ASSUME Dir \subseteq Names /\ Null \notin Names

Pids  == 0 .. NProc - 1
Fds   == 0 .. IoMax - 1
Slots == 0 .. NumSlots - 1

\* The io_intf of the virtio block device, the one registered device
\* (vioblk_attach, lock.h 462), next to the file_list entries.
Blk     == NumSlots
Ios     == Slots \cup {Blk}
DevName == "blk"

\* Error codes of the syscall ABI (negative in a0).
EBADFD == -77
EMFILE == -24
EBUSY  == -16
ENOENT == -2
EBADFMT == -9
ENODEV == -19

VARIABLES
    proctab,    \* proctab[p]: "free", "live" (has a thread) or "orphan"
    iotab,      \* iotab[p][fd]: the io the descriptor points to, or Null
    refcnt,     \* refcnt[s]: io.refcnt of file_list[s] or of the device
    inUse,      \* inUse[s]: file_list[s].flags = F_IN_USE; inUse[Blk]: dev->opened
    file,       \* file[s]: the file whose inode file_list[s] holds; DevName
    held,       \* ghost: held[p][fd] the file opened on that descriptor
    ret         \* ret[p]: the value the last syscall of p left in a0

pvars == <<proctab, iotab, refcnt, inUse, file, held, ret>>

NoFds == [fd \in Fds |-> Null]

TypeOK ==
    /\ proctab \in [Pids -> {"free", "live", "orphan"}]
    /\ iotab \in [Pids -> [Fds -> Ios \cup {Null}]]
    /\ refcnt \in [Ios -> -1 .. MaxRef]   \* -1: sysdevopen's ioclose at count 0
    /\ inUse \in [Ios -> BOOLEAN]
    /\ file \in [Ios -> Names \cup {DevName, Null}]
    /\ held \in [Pids -> [Fds -> Names \cup {DevName, Null}]]
    /\ ret \in [Pids -> Int]

\* procmgr_init: only the main process (pid 0) exists, with no descriptor;
\* initialize_file_list / release_file leave every slot free; the device
\* record is zeroed by vioblk_attach (lock.h 408-409), so it is closed.
Init ==
    /\ proctab = [p \in Pids |-> IF p = 0 THEN "live" ELSE "free"]
    /\ iotab = [p \in Pids |-> NoFds]
    /\ refcnt = [s \in Ios |-> 0]
    /\ inUse = [s \in Ios |-> FALSE]
    /\ file = [s \in Ios |-> Null]
    /\ held = [p \in Pids |-> NoFds]
    /\ ret = [p \in Pids |-> 0]

\* The descriptors, of processes that still have a record, pointing at s.
Holders(s) == {<<p, fd>> \in Pids \X Fds :
                  proctab[p] # "free" /\ iotab[p][fd] = s}

\* release_file: the slot is free again and forgets its file.
Released(s) ==
    /\ inUse' = [inUse EXCEPT ![s] = FALSE]
    /\ file' = [file EXCEPT ![s] = Null]

\* A faulty ioclose that reaches the implementation whatever the count.
IoCloseAlways(s) ==
    /\ refcnt' = [refcnt EXCEPT ![s] = @ - 1]
    /\ Released(s)

\* A faulty ioclose that tests the count before the decrement.
IoCloseLate(s) ==
    /\ refcnt' = [refcnt EXCEPT ![s] = @ - 1]
    /\ IF refcnt[s] = 0 THEN Released(s) ELSE UNCHANGED <<inUse, file>>

\* ioclose (spec.md 4.8): decrement io->refcnt; at zero call the file's
\* close, fs_close, which is release_file (kfs.c 264-274, 627-638).
IoClose(s) ==
    /\ refcnt' = [refcnt EXCEPT ![s] = @ - 1]
    /\ IF refcnt[s] - 1 = 0 THEN Released(s) ELSE UNCHANGED <<inUse, file>>

\* fd is a descriptor in range that is open.
IsOpen(p, fd) == fd \in Fds /\ iotab[p][fd] # Null

FreeFd(p) == {fd \in Fds : iotab[p][fd] = Null}
FreePids   == {q \in Pids : proctab[q] = "free"}
FreeSlots  == {s \in Slots : ~inUse[s]}

\* A syscall that fails with error e and changes nothing else.
Fail(p, e) ==
    /\ ret' = [ret EXCEPT ![p] = e]
    /\ UNCHANGED <<proctab, iotab, refcnt, inUse, file, held>>

\* The failures of sysfsopen, syscall.c 175-222, in the code's order.
\* fs_open fails with ENOENT for a name without directory entry and with
\* EBUSY when allocate_file finds no free slot (kfs.c 201-243, 594-612).
\* Past fs_open, an fd at or beyond PROCESS_IOMAX, an fd in use, or no
\* free fd when fd < 0 gives the slot back with fs_close: allocation and
\* release leave file_list as it was.
FsOpenFail(p, fd, name) ==
    \/ name \notin Dir /\ Fail(p, ENOENT)
    \/ name \in Dir /\ FreeSlots = {} /\ Fail(p, EBUSY)
    \/ /\ name \in Dir /\ FreeSlots # {}
       /\ \/ fd >= IoMax /\ Fail(p, EMFILE)
          \/ fd \in Fds /\ iotab[p][fd] # Null /\ Fail(p, EBADFD)
          \/ fd < 0 /\ FreeFd(p) = {} /\ Fail(p, EMFILE)

\* A faulty store that leaves refcnt as the slot's last user left it.
FsOpenStoreKeepRef(p, nfd, name) ==
    LET s == Min(FreeSlots) IN
    /\ iotab' = [iotab EXCEPT ![p][nfd] = s]
    /\ held' = [held EXCEPT ![p][nfd] = name]
    /\ inUse' = [inUse EXCEPT ![s] = TRUE]
    /\ file' = [file EXCEPT ![s] = name]
    /\ ret' = [ret EXCEPT ![p] = nfd]
    /\ UNCHANGED <<proctab, refcnt>>

\* fs_open's allocate_file takes the first free slot (kfs.c 598-609); then
\* sysfsopen stores the io at new_fd with refcnt = 1 (syscall.c 226-230).
FsOpenStore(p, nfd, name) ==
    LET s == Min(FreeSlots) IN
    /\ iotab' = [iotab EXCEPT ![p][nfd] = s]
    /\ held' = [held EXCEPT ![p][nfd] = name]
    /\ refcnt' = [refcnt EXCEPT ![s] = 1]
    /\ inUse' = [inUse EXCEPT ![s] = TRUE]
    /\ file' = [file EXCEPT ![s] = name]
    /\ ret' = [ret EXCEPT ![p] = nfd]
    /\ UNCHANGED proctab

\* sysfsopen(fd, name), syscall.c 168-231: fd >= 0 asks for that fd, fd < 0
\* for the lowest free one.
SysFsOpen(p, fd, name) ==
    /\ proctab[p] = "live"
    /\ \/ FsOpenFail(p, fd, name)
       \/ /\ name \in Dir /\ FreeSlots # {}
          /\ \/ fd \in Fds /\ iotab[p][fd] = Null /\ FsOpenStore(p, fd, name)
             \/ fd < 0 /\ FreeFd(p) # {} /\ FsOpenStore(p, Min(FreeFd(p)), name)

\* The fd checks of sysdevopen after a successful device_open, syscall.c
\* 110-141, with their error codes; BadFd is 0 when fd can be used.
BadFd(p, fd) ==
    CASE fd >= IoMax                              -> EMFILE
      [] fd \in Fds /\ iotab[p][fd] # Null          -> EBADFD
      [] fd < 0 /\ FreeFd(p) = {}                  -> EMFILE
      [] OTHER                                     -> 0

\* vioblk_open, lock.h 483-500, past its EBUSY test: dev->opened = 1 and
\* the device's io is handed out (dev->pos = 0 is Vioblk's concern).
VioblkOpen ==
    /\ inUse' = [inUse EXCEPT ![Blk] = TRUE]
    /\ file' = [file EXCEPT ![Blk] = DevName]

\* sysdevopen(fd, name, instno), syscall.c 87-151.  device_open (device.c,
\* not among the sources) fails for a name nobody registered; for "blk"
\* it calls vioblk_open (lock.h 483-500): -EBUSY when dev->opened, else
\* dev->opened = 1.  A bad fd is then refused after ioclose(io), which
\* decrements the refcnt the device io kept from its last use and calls
\* vioblk_close only when that reaches zero; a good one stores the io with
\* refcnt = 1.
SysDevOpen(p, fd, known) ==
    /\ proctab[p] = "live"
    /\ \/ ~known /\ Fail(p, ENODEV)
       \/ known /\ inUse[Blk] /\ Fail(p, EBUSY)
       \/ /\ known /\ ~inUse[Blk] /\ BadFd(p, fd) # 0
          /\ refcnt' = [refcnt EXCEPT ![Blk] = @ - 1]
          /\ IF refcnt[Blk] - 1 = 0 THEN UNCHANGED <<inUse, file>>
                                    ELSE VioblkOpen
          /\ ret' = [ret EXCEPT ![p] = BadFd(p, fd)]
          /\ UNCHANGED <<proctab, iotab, held>>
       \/ /\ known /\ ~inUse[Blk] /\ BadFd(p, fd) = 0
          /\ LET nfd == IF fd >= 0 THEN fd ELSE Min(FreeFd(p)) IN
             /\ iotab' = [iotab EXCEPT ![p][nfd] = Blk]
             /\ held' = [held EXCEPT ![p][nfd] = DevName]
             /\ ret' = [ret EXCEPT ![p] = nfd]
          /\ refcnt' = [refcnt EXCEPT ![Blk] = 1]
          /\ VioblkOpen
          /\ UNCHANGED proctab

\* sysclose(fd), syscall.c 247-275: an fd out of range or not open is
\* EBADFD; otherwise ioclose and clear the descriptor.
SysClose(p, fd) ==
    /\ proctab[p] = "live"
    /\ \/ ~IsOpen(p, fd) /\ Fail(p, EBADFD)
       \/ /\ IsOpen(p, fd)
          /\ IoClose(iotab[p][fd])
          /\ iotab' = [iotab EXCEPT ![p][fd] = Null]
          /\ held' = [held EXCEPT ![p][fd] = Null]
          /\ ret' = [ret EXCEPT ![p] = 0]
          /\ UNCHANGED proctab

\* A faulty process_fork that shares the descriptors without ioref.
ProcessForkNoRef(p, c) ==
    /\ iotab' = [iotab EXCEPT ![c] = iotab[p]]
    /\ held' = [held EXCEPT ![c] = held[p]]
    /\ UNCHANGED refcnt

\* process_fork, process.c 191-199: the child's iotab is the parent's, slot
\* for slot, and every live descriptor's io gets ioref.  A slot that two
\* descriptors of the parent point at gets one ioref for each.
ProcessFork(p, c) ==
    /\ iotab' = [iotab EXCEPT ![c] = iotab[p]]
    /\ held' = [held EXCEPT ![c] = held[p]]
    /\ refcnt' = [s \in Ios |->
                    refcnt[s] + Cardinality({fd \in Fds : iotab[p][fd] = s})]

\* sysfork, syscall.c 497-517, with process_fork, process.c 173-204: the
\* first free pid of proctab, EBUSY when there is none; the child record
\* is entered in proctab at the end of process_fork.  thread_fork_to_user
\* may then fail: sysfork returns its error and nothing undoes the child,
\* which stays in proctab, holding its descriptors, with no thread.
SysFork(p) ==
    /\ proctab[p] = "live"
    /\ \/ FreePids = {} /\ Fail(p, EBUSY)
       \/ FreePids # {} /\
          LET c == Min(FreePids) IN
          /\ ProcessFork(p, c)
          /\ \A s \in Ios : refcnt'[s] <= MaxRef
          /\ \E started \in BOOLEAN :
                /\ proctab' = [proctab EXCEPT ![c] = IF started THEN "live"
                                                                ELSE "orphan"]
                /\ ret' = [ret EXCEPT ![p] = IF started THEN c ELSE EBUSY,
                                      ![c] = 0]
          /\ UNCHANGED <<inUse, file>>

\* The shared-descriptor discipline of the user programs: with ExitShared
\* FALSE a process exits only when none of its descriptors is shared with
\* another process (init_ref_test.c closes fd 0 in both processes before
\* _exit; init2.c exits holding its unshared console).
MayExit(p) ==
    ExitShared \/ \A fd \in Fds : iotab[p][fd] # Null =>
                                    Holders(iotab[p][fd]) = {<<p, fd>>}

\* sysexit -> process_exit, process.c 140-157: every open descriptor's
\* ops->close is called directly (fs_close, release_file), the iotab is
\* cleared, and the proctab entry is released.  refcnt is not touched.
SysExit(p) ==
    LET mine == {iotab[p][fd] : fd \in Fds} \ {Null} IN
    /\ proctab[p] = "live"
    /\ MayExit(p)
    /\ inUse' = [s \in Ios |-> IF s \in mine THEN FALSE ELSE inUse[s]]
    /\ file' = [s \in Ios |-> IF s \in mine THEN Null ELSE file[s]]
    /\ iotab' = [iotab EXCEPT ![p] = NoFds]
    /\ held' = [held EXCEPT ![p] = NoFds]
    /\ proctab' = [proctab EXCEPT ![p] = "free"]
    /\ UNCHANGED <<refcnt, ret>>

\* sysexec(fd), syscall.c 452-481: an fd out of range or not open is
\* EBADFD; otherwise the descriptor is cleared and process_exec
\* (process.c 88-126) loads the image from the io.  The io is not closed on
\* either outcome: elf_load fails and the error comes back, or the process
\* goes on running the new image.
SysExec(p, fd) ==
    /\ proctab[p] = "live"
    /\ \/ ~IsOpen(p, fd) /\ Fail(p, EBADFD)
       \/ /\ IsOpen(p, fd)
          /\ iotab' = [iotab EXCEPT ![p][fd] = Null]
          /\ held' = [held EXCEPT ![p][fd] = Null]
          /\ \E loaded \in BOOLEAN : ret' = [ret EXCEPT ![p] = IF loaded THEN 0
                                                                ELSE EBADFMT]
          /\ UNCHANGED <<proctab, refcnt, inUse, file>>

EINVAL == -22
EIO    == -5

\* sysread, syswrite and sysioctl, syscall.c 293-331, 349-387, 405-436: an
\* fd out of range or not open is EBADFD; read and write reject a NULL
\* buffer with EINVAL; otherwise the io's read, write or ioctl runs on
\* the file_list entry the descriptor points at and its result, a count
\* or an error, is returned.  No table changes.
SysIoCall(p, fd, bufNull) ==
    /\ proctab[p] = "live"
    /\ \/ ~IsOpen(p, fd) /\ Fail(p, EBADFD)
       \/ IsOpen(p, fd) /\ bufNull /\ Fail(p, EINVAL)
       \/ IsOpen(p, fd) /\ ~bufNull /\ \E r \in {0, 1, EIO} : Fail(p, r)

\* The descriptor arguments user code may pass: -1 (any), every fd, and
\* PROCESS_IOMAX (out of range).
FdArgs == -1 .. IoMax

\* The syscalls of p that change no process record.
TableCall(p) ==
    \/ \E fd \in FdArgs, name \in Names : SysFsOpen(p, fd, name)
    \/ \E fd \in FdArgs, known \in BOOLEAN : SysDevOpen(p, fd, known)
    \/ \E fd \in FdArgs : SysClose(p, fd)
    \/ \E fd \in FdArgs : SysExec(p, fd)
    \/ \E fd \in FdArgs, bufNull \in BOOLEAN : SysIoCall(p, fd, bufNull)

Next == \E p \in Pids : TableCall(p) \/ SysFork(p) \/ SysExit(p)

Spec == Init /\ [][Next]_pvars

(***************************************************************************)
(* Properties                                                              *)
(***************************************************************************)

\* Every descriptor of a process that still has a record points at an
\* open file_list entry holding the file the process opened on it: fork's
\* ioref, sysclose's ioclose and process_exit's direct close must together
\* never release an entry some other descriptor still uses, or hand it to
\* a later fs_open while the old descriptor still points at it.
NoDanglingHandle ==
    \A p \in Pids, fd \in Fds :
        proctab[p] # "free" /\ iotab[p][fd] # Null =>
            /\ inUse[iotab[p][fd]]
            /\ file[iotab[p][fd]] = held[p][fd]

\* An open file_list entry, or the opened device, is reachable from a
\* descriptor of a process that can still run: one that no runnable
\* process can close stays taken until reboot (sysexec clears the
\* descriptor "since io object will be closed", syscall.c 472; a child
\* whose thread_fork_to_user failed keeps its descriptors with no thread
\* to close them; sysdevopen's ioclose on a bad fd may not reach
\* vioblk_close).
NoLeakedHandle ==
    \A s \in Ios :
        inUse[s] => \E pf \in Holders(s) : proctab[pf[1]] = "live"
====
