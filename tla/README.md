# TLA+ models of the Illinux RISC-V kernel

These modules model the concurrent and stateful parts of the kernel under
`src/src/kern/` and `src/unnamed/`, and TLC checks them. Each module is
translated from the C code. `PROJECT.json` maps every definition to the
lines it models.

## The system and how its parts interact

- **Threads.** Kernel threads share one hart. A timer interrupt preempts
  the running thread. A thread blocks on a `struct condition` (a FIFO
  waiter list), and `condition_broadcast` makes every waiter ready.
  `thread.c` is not among the sources.
- **Sleep lock.** `lock.h` (`lock_acquire` / `lock_release`) is built on a
  condition. Two components use it:
  - the file system: `kfs_lock`;
  - the VirtIO block driver, which also lives in `lock.h`: `vio_lock`.
- **kfs** (`kfs.c`) is a flat file system over a block device (`disk_io`).
  - It keeps a table of open files (`file_list`) and one static inode
    buffer and one static data-block buffer, shared by all calls.
  - Every block access is a SETPOS followed by a read or write on the
    device, and it may sleep.
- **The VirtIO block driver** serves one request at a time.
  - A request is issued by `vioblk_operation_single_blk`, and the thread
    sleeps on `used_updated`.
  - The ISR broadcasts that condition when the device has updated the used
    ring.
- **Processes** (`process.c`) have a descriptor table `iotab`. Its entries
  point at `io_intf`s, for files the `io` embedded in a `file_list` entry.
  - `fork` shares the descriptors and increments `refcnt` (`ioref`).
  - `sysclose` calls `ioclose`.
  - `exit` calls each io's close directly.
  - `exec` drops the executable's descriptor.
- **System calls** (`syscall.c`) dispatch from `syscall_handler`.
- **Virtual memory** (`memory.c`) uses Sv39 page tables.
  - Pages come from a free list.
  - `walk_pt` creates tables on demand.
  - `memory_space_clone` copies the user pages for fork.
  - `memory_unmap_and_free_user` and `memory_space_reclaim` tear a space
    down.
  - The user page-fault handler (`excp.c`) maps pages on demand; an
    instruction page fault or any other user exception goes to
    `default_excp_handler`, which panics (`halt.c`): the machine stops.
  - The ELF loader (`src/unnamed/part_005`) maps and fills segments,
    reading the file through an io with `ioseek` and `ioread_full`.
- **I/O interfaces** (`src/unnamed/part_002`, `io.c`). Every io is a
  four-method vtable. The in-memory literal (`iolit`) serves a host
  buffer. `test_kfs.c` mounts kfs on one, and the loader's test main
  loads ELF images from one.
- **Interrupts.** The PLIC driver (`src/unnamed/part_003`, `plic.c`)
  programs the platform interrupt controller through memory-mapped
  words: `plic_init` gives every source priority 0 and enables it for
  context 1 (S mode on hart 0); `plic_enable_irq`/`plic_disable_irq` set
  a source's priority (`vioblk_open` enables the virtio source through
  `intr_enable_irq`); the dispatcher (`intr.c`, not among the sources)
  claims an external interrupt with `plic_claim_irq`, runs the source's
  ISR (`vioblk_isr` for the disk) and completes it with `plic_close_irq`.
- **Devices.** `sysdevopen` opens the virtio block device (`vioblk_open`)
  into a descriptor.
- **User programs** (`src/src/user/init_ref_test.c`, `init1.c`, `init2.c`,
  and the lock test `src/unnamed/part_006`) are what the kernel boots as
  init. They drive the process and descriptor tables: two of them fork
  with an open file, close it in both processes and have the parent
  `_wait(1)` for the child; init1 writes to the console; init2 opens the
  console and `trek` and execs `trek`.

## Modules

| Module | Models | State | Actions |
|---|---|---|---|
| `ThreadKernel` | scheduler and condition variables (spec 4.3, 5; `thread.c` absent) | `running`, `ready`, `waiters` | `ConditionWait`, `ConditionBroadcast`, `ThreadExit`, `Preempt`, `IdleSchedule` |
| `SleepLock` | `lock_acquire`, `lock_release` (`lock.h` 38-74) | `lockTid` | claim, busy, wait, clear, broadcast: one step each, between the points where interrupts are enabled |
| `LockedWrites` | `fs_write`'s read-modify-write of `file_pos` under `kfs_lock` (`kfs.c` 303, 341, 384, 395) | `pos`, `seen`, `writes` | `Acquire`, `ReadPos`, `StorePos`, `Release`, `Exit` |
| `Kfs` | `fs_open`, `fs_read`, `fs_write`, `fs_ioctl` (SETPOS, and the unlocked GETLEN/GETPOS/GETBLKSZ queries as the one step `CallQuery`), `fs_close`, `allocate_file`, `release_file`, and the disk helpers `update_inode`, `update_data_block`, `write_data_block`, `write_inode` | `slot` (file_list), `inodeBuf`, `dataBuf`, `disk`, per-thread `op` (locals) | one action per block of code between two possible sleeps |
| `ProcIo` | `procmgr_init`, `process_fork`'s iotab copy, `process_exit`, `sysdevopen`, `sysfsopen`, `sysclose`, `sysread`/`syswrite`/`sysioctl`, `sysfork`, `sysexec`, `sysexit` | `proctab`, `iotab`, `refcnt` (of the `file_list` ios and the block device's io `Blk`), the `file_list` flags and files | one action per syscall |
| `Vioblk` | `vioblk_read`, `vioblk_write`, `vioblk_ioctl` (`vioblk_setpos`, and the unlocked getters as the one step `VioblkQuery`), `vioblk_operation_single_blk`, `vioblk_isr`, with the device as an environment | `pos`, `bufblkno`, `blkbuf`, request header, descriptor WRITE flag, `status`, ring state, `disk` | per-thread steps, `DeviceServe`, `Isr` |
| `Memory` | `memory_init`, `alloc/free_page`, `walk_pt`, `alloc_and_map_page`, `set_page_flags`, `space_clone`, `unmap_and_free_user`, `space_reclaim`, `handle_page_fault`, `process_exec` with `elf_load`, `excp.c`'s non-syscall branches, `panic` | `mem` (every page as two PTE-sized words), `freeList`, `active`, `spaces`, `halted` | `ProcessExec`, `UserStore`, `PageFault` (no leaf, or a leaf without R or W), `InstrPageFault`, `OtherUserExcp`, `Fork`, `Exit`, `Switch`; `Panic` sets `halted` |
| `UserProgs` | the user programs (`init_ref_test.c`, `init1.c`, `init2.c`, `part_006`) as processes over `ProcIo`, and `syswait` (`syscall.c` 533-546) | `upc[p]` (label of the next syscall, loop counter), ghost `booted` | `RefTest`, `Init1Prog`, `Init2Prog`, `LockTest`, `ExitProg`: one disjunct per syscall of the program, each a `ProcIo` syscall with the program's test of its result; `AnyProg` makes any syscall |
| `Plic` | `plic_init`, `plic_enable_irq`, `plic_disable_irq`, `plic_claim_irq`, `plic_close_irq` and the register functions they call (`plic_set_source_priority`, `plic_enable_source_for_context`, `plic_claim_context_interrupt`, `plic_complete_context_interrupt`), with the PLIC as an environment | `reg` (register words by offset, each the set of its 1-bits), `claimed` (in service per context), device lines `req`, ghost `on`, the dispatcher's `hpc`/`hirq` | `PlicInit`, `plic_enable_irq`, `plic_disable_irq`, `plic_claim_irq`, `plic_close_irq`; hardware `Raise`, `Gateway` |
| `AtomicWrites` | what `fs_write` promises of `file_pos` (spec 4.7): the abstract specification `LockedWrites` refines | `apos`, `adone` | `AWrite`: one whole call |
| `IoLit` | `iolit_init`, `iolit_read`, `iolit_ioctl` with `lit_setlen`/`lit_getlen`/`lit_getpos`/`lit_setpos`, `ioread_full` | none: pure operators over a literal record `[buf, size, pos]` | instanced by `Memory` as `Lit` |

How the modules are built:

- **Threads and locks.** Modules with threads extend `SleepLock`, which
  extends `ThreadKernel`. Each thread has a program counter `pc`, and an
  action fires only for the running thread.
- **Memory.** The Sv39 tree is cut to three levels of two entries. Index 0
  of the root is the kernel half (the `main_pt2` gigapage entry) and index
  1 the user half.
  - Memory operations are pure operators on a machine record
    `[mem, free, ok, got]`. An action composes them the way the C function
    calls them, so a whole handler is one step.
  - The recursive `walk_and_free_user` is a `RECURSIVE` operator.
  - An executable is an iolit file whose units are pages, plus its
    program headers. `ProcessExec` is the whole of `process_exec` as one
    step: the teardown, then `elf_load`. `elf_load` seeks to `p_offset`,
    maps the pages, reads `p_filesz` with `ioread_full`, zero-fills the
    rest and sets the segment's flags, or stops with the code's error.
- **Kfs.** The device under `disk_io` is the constant operator `DiskPut`.
  `MCKfs` gives it `iolit_write` at `lit_setpos`'s position, the device
  `test_kfs.c` mounts.
- **PLIC.** The driver's functions are operators over the register file
  that store and load at the offsets the code computes; the PLIC's
  actions and its claim/complete semantics read the same file at the
  layout of the RISC-V PLIC specification (`RefPrio`, `RefPend`, `RefEn`,
  `RefTh`, `RefCc`). A driver address off that layout stores into a word
  the hardware never reads. A 32-bit word is the set of its 1-bits, since
  bit 31 is beyond TLC's integers. `plic_init`'s loop over 1024 sources is
  computed word by word (`InitWordFor`): each iteration writes one
  priority word and ORs one enable bit, so a word ends as the last
  priority stored there plus the bits ORed in from then on.
- **Programs.** `UserProgs` extends `ProcIo`. A program step is the
  `ProcIo` syscall conjoined with the move of `upc`, so a branch on a
  result (`if (result < 0)`) reads `ret'`.
- **Ghost variables.** `held` in ProcIo and `opened`/`snap` in Kfs and `lockPos`/`snap` in Vioblk exist
  only for the properties.

## Runs

Passing runs:

- **`lock_safety`** (`MCLockedWrites.cfg`; 3 threads, 2 writes each,
  symmetry over threads):
  - `MutualExclusion`: at most one thread is in its critical section, and
    `lk->tid` names it.
  - `WritesAtomic` (refinement): `LockedWrites` implements `AtomicWrites`,
    in which each `fs_write` call is one indivisible step that moves
    `file_pos` by its byte, under the mapping `apos <- pos`,
    `adone <- writes`. The store of `file_pos` is the step at which a call
    takes effect; every other step leaves both alone.
- **`kfs_data`** (`MCKfs.cfg`; 2 threads, 3 calls each, 1 open-file slot,
  two files on 2-byte blocks):
  - `ReadReturnsFileData`: a read copies exactly the file's bytes from
    where it started.
  - `WriteEffect`: a returned write changed exactly the reported bytes of
    its file and nothing else.
  - Both hold under every interleaving with the unlocked `fs_close`.
- **`user_programs`** (`MCUserProgs.cfg`; 3 processes, 2 fds, 1
  `file_list` entry plus the device's io, refcounts up to 3, loops of 2
  rounds; pid 0 boots one of the four programs or `any`, a process that
  makes any syscall with any argument and whose children do too):
  - `NoDanglingHandle`: every descriptor points at an in-use entry holding
    the file opened on it. For `any`, exit is restricted to processes
    that hold no shared descriptor (`ExitShared = FALSE`), the discipline
    every shipped program keeps.
  - `AllExitedReleased`: once every process of a shipped program has
    exited, no `file_list` entry and no device is open.
  - `ProgramsEnd` (liveness): every shipped program runs to its end; the
    parent's `_wait(1)` comes back both when the child exited and when
    sysfork's `thread_fork_to_user` failed and the child never ran.
  - The VIEW leaves out `ret`: every step reads only the result of its
    own syscall, so states that differ in `ret` alone have the same
    futures.
- **`vioblk_cycle`** (`MCVioblk.cfg`; 2 threads, 2 sectors, block of 2
  bytes, lengths 0, 1 and 2; two calls per thread among read, write,
  seek and the three ioctl queries):
  - `OneRequestInFlight`: only the lock holder has a request pending.
  - `UsedWaitEnds`: every thread waiting on `used_updated` is eventually
    woken, under weak fairness of the device and the ISR.
- **`plic_interrupts`** (`MCPlic.cfg` on `Plic`; sources 1, 31 and 32,
  priorities up to 2, two requests per device; the driver enables and
  disables sources at any time after `plic_init`):
  - `InServiceMatchesDispatcher`: the PLIC has in service exactly the
    source the dispatcher claimed and has not closed, nothing for
    context 0.
  - `ClaimsEnabledSource` (action property): every claim returns a source
    whose last driver call was `plic_enable_irq`. A request the gateway
    made pending stays pending across `plic_disable_irq`; only the zero
    priority stored at the PLIC's address for that source keeps it from
    being claimed.
  - `Delivery` (liveness): a request of a source the driver has enabled is
    serviced unless the driver disables the source first. It needs
    `plic_init` to enable each source for context 1 at the word and bit the
    PLIC reads, a priority above the threshold `plic_init` leaves, and each
    claim completed so that the gateway forwards the next request.
- **`memory_pool`** (`MCMemory.cfg`; 7 pool pages, four images, faults at
  two stack-pointer pages):
  - `FramesExclusive`: no page is in two places (free list, table, leaf).
  - `ForkEquality` (action property): a new child space shows the
    parent's user pages, flags and bytes.
  - `ExecLoadsImage` (action property): after exec of a good image that
    does not panic, every PT_LOAD page is mapped with U and exactly the
    segment's R/W/X. It holds the file's content from `p_offset`, or
    zeros past `p_filesz`. This covers the literal's seek, clamp and
    position arithmetic and `ioread_full`'s loop.
  - The four images are:
    - text and a zero-filled data page after a non-loadable header;
    - a segment in the kernel half (`-EINVAL`);
    - an unaligned segment (the kernel panics);
    - a segment that reads past the end of the file (`-EIO` after
      mapping).

Violation runs. Each one checks one property that the code breaks, and
`PROJECT.json` records the finding:

| Run | Property | Shows |
|---|---|---|
| `lock_lost_wakeup` | `AllThreadsFinish` | `lock_acquire` enables interrupts before `condition_wait`, so a release in between is a lost wakeup (`lock.h:55`) |
| `kfs_close_race` | `OpenFileIntegrity` | `fs_close` releases a `file_list` entry without `kfs_lock` (`kfs.c:264`) |
| `procio_leak` | `NoLeakedHandle` | a failed `sysdevopen` calls `ioclose` on the device io whose `refcnt` is still 0, so `vioblk_close` never runs and the device stays opened by nobody (`syscall.c:116`); `sysexec` and a failed `thread_fork_to_user` leak the same way |
| `vioblk_stale_pos` | `ReadReturnsDisk` | `bufblkno` is computed from `dev->pos` before `vio_lock` is taken (`lock.h:539`) |
| `vioblk_write_effect` | `WriteEffect` | after a seek to 2, a write of one block returns 2 but has overwritten sector 0 and left sector 1 as it was: `vioblk_write` counts sectors from a local `0`, not `dev->pos` (`lock.h:606`). With that fixed, the property still fails through the data descriptor's WRITE flag: a read sets it and nothing clears it (`lock.h:692`), so the device may complete a later write without reading its buffer; with both fixed, a write of one byte wraps the unsigned count (`lock.h:650`) and writes on into the next sector. With all three fixed the property holds |
| `memory_exit_leak` | `UserFramesReleased` | `walk_and_free_user` frees only `PTE_U` entries, and tables have no U, so nothing is freed (`memory.c:807`) |

`process_exit` closes shared ios directly, not through `ioclose`
(`process.c:149`, a divergence from spec 4.5). The shipped programs never
exit while sharing a descriptor, so `user_programs` passes; with
`ExitShared = TRUE`, `MCProcIoExit.cfg` (on `MCProcIo`, not among the
twelve runs) lets a process exit while sharing one, and TLC finds
`NoDanglingHandle` violated after a fork and an exit. `PROJECT.json`
records this finding against `user_programs`, whose property it is.

Type invariants are checked where a plausible bug of the mapped code can
break one (`memory_pool`, `user_programs`, `plic_interrupts`). `LockedWrites`,
`Kfs` and `Vioblk` keep their `TypeOK` as documentation of the state's
shape: their fields only take values of their C types, and the runs spend
their checks on the safety properties instead.

Every property of a passing run has a mutant in `PROJECT.json`. A mutant
is a plausible bug in the mapped code, and TLC finds the property violated
under the run's own cfg. Examples:

- a lock claimed without the test;
- `if` for `while` in `lock_acquire`;
- `ReadBlock` or `WriteBlock` without `update_data_block`;
- fork without `ioref`;
- an `ioclose` that tests the count before decrementing it;
- a `syswait` that waits for the child's record even when its thread never ran;
- an `iolit_read` that copies from the start of the buffer, ignoring `pos`;
- an ISR that never broadcasts;
- an allocator that does not unlink the page;
- a clone that shares the parent's page;
- an enable that shifts by `srcno`, not `srcno % 32`;
- priority registers addressed from source 1 rather than 0;
- `plic_close_irq` or `plic_init` using context 0 (the calls left
  commented out in the code).

## Bounds

- **Threads.** Two or three threads and two or three calls per thread are
  enough for every pair of operations to interleave at every step
  boundary. That includes a third thread arriving while one holds the lock
  and one waits.
- **File system.** One `file_list` slot makes an `fs_open` reuse a slot
  another thread just closed. Blocks of two bytes with a file of three
  bytes make reads and writes cross a block boundary.
- **Processes.** Three processes and a refcount bound of 3 let a
  descriptor be shared by a parent, a child and a grandchild. The shipped
  programs fork once, so two of the three processes suffice for them;
  two loop rounds run each loop body twice, with the other process's
  steps between the rounds. One
  `file_list` entry besides the device is enough for reuse after close.
  The two violation runs keep two entries.
- **Memory.**
  - Seven pool pages hold a root, two tables and a leaf for two spaces, so
    fork succeeds once and then runs out.
  - Two entries per level still separate the kernel and user halves, two
    level-1 slots and two pages in a table.
  - `PageSize = 2` and `SizeBits = 4` let a length wrap.
  - A two-page file holds both a header page and a text page. A segment
    at `p_offset` 1 therefore shows a read that ignores the position, and
    one of `p_filesz` 2 runs past the end.
- **PLIC.** Sources 1, 31 and 32 put two sources in one enable and pending
  word, one at its sign bit, and one in the next word. Two priority levels
  make the claim choose by priority and by id. Two requests per device make
  a source's second request depend on the completion of its first.

## Fairness

- **Threads.** `LockedWrites` and `Vioblk` assume strong fairness of each
  thread's step, because the timer preempts round-robin and a thread runs
  whenever it is scheduled. The idle thread's hand-off is weakly fair.
- **Device and interrupts.** In `Vioblk` the device eventually serves a
  notified request, and a raised interrupt is eventually taken (weak
  fairness).
- **User programs.** `UserProgs` assumes weak fairness of each process's
  program step: the timer preempts every user thread and the ready queue
  is FIFO (spec 5), so a process whose next syscall stays enabled makes
  it. The only step that can be disabled is `_wait`, which stays enabled
  once the child has exited. `any` gets no fairness.
- **PLIC.** The gateway forwards a held request, the hart takes an
  asserted external interrupt, and the dispatcher finishes the ISR and
  the close it began (weak fairness). Interrupts are enabled in U mode
  and whenever the kernel waits (spec 5). Nothing is assumed of the
  devices or of the driver's enable and disable calls.
- **No fairness.** The other modules check only safety and assume no
  fairness.

## Not modelled

- **Not in the sources.**
  - `thread.c`: modelled from the spec in `ThreadKernel`.
  - `intr.c`: the external-interrupt dispatch around `plic_claim_irq` and
    `plic_close_irq` (spec 2, L2), and `plic.h`'s `PLIC_PRIO_MAX` (the
    constant `PrioMax`).
  - `plic_source_pending`, `plic_disable_source_for_context` and
    `plic_set_context_threshold` have no caller. The threshold therefore
    keeps its reset value, 0 on QEMU's virt machine, which is the
    model's initial state.
  - `ioref`/`ioclose` in `io.h`: modelled from spec 4.8.
- **Skipped parts of modelled components.**
  - `memory_space_create`, `memory_validate_vptr_len` and
    `memory_validate_vstr`: no caller (the one call, in `sysmsgout`, is
    commented out).
  - `sysmsgout`, `sysusleep`, `syspioref`, and `syswait(0)`
    (`thread_join_any`): console output, timers and a join no program
    makes.
  - `thread_join` is modelled from spec 4.4, and the tid the programs
    wait for, 1, is taken to be the first forked child's.
  - The console the programs open (`"ser"`, `uart.c` not among the
    sources) is the model's one registered device, which `sysdevopen`
    opens exclusively as it does the virtio device.
  - The user programs' buffers, file positions and printing. The lock
    test's layout of the shared file depends on how the parent's and the
    child's seeks and writes interleave (they share one `file_pos`); that
    is a property of the file data, which `UserProgs` abstracts.
  - `iowrite`, `iolit_close` (no caller) and the `ioterm` console layer
    (CRLF normalisation and line editing, pure formatting).
  - The ELF header read and `verify_elf_header`: one outcome (`hdrOk`).
- **Left out entirely.**
  - `halt_success` (no caller);
  - the boot and test mains;
  - the mkfs build.
- **Bugs recorded as hazards without a run.** One step shows each of them
  and a unit test reaches it directly:
  - the page-fault handler is passed the stack pointer (`excp.c:88`);
  - pages come off the free list unzeroed (`memory.c:429`);
  - `vioblk_attach` sets `dev->size` to `sizeof(struct vioblk_device)`
    (`lock.h:420`), so ioctl GETLEN on the device answers the size of the
    driver's struct, not the disk's. `Vioblk` answers `SizeofDevice`.
- **Harmless or unreachable in these sources.**
  - `vioblk_setpos` returns `dev->pos` read after `lock_release`
    (`lock.h:800`). `Release` models that late read. The only callers,
    kfs's disk helpers, test the result's sign alone.
  - `vioblk_setpos` reads a `uint64_t` through the pointer to kfs's
    `uint32_t` offset (`lock.h:798`, `kfs.c:772`). No source mounts kfs
    on the virtio device, so the two are not composed.
- **Left open by the spec.** `fs_write` writes into the unused tail of
  the last allocated block and moves `file_pos` past `file_size`, which
  it never updates (`kfs.c:384`). `fs_read` then returns 0. spec.md
  leaves it to the implementation whether writes extend `file_size`.
  `WriteEffect` in `Kfs` checks only that the bytes land in the block.

