------------------------------- MODULE Memory -------------------------------
(***************************************************************************)
(* The page allocator and the Sv39 address-space manager of               *)
(* src/kern/memory.c, driven by the process operations that use it:       *)
(* process_exec with the ELF loader (process.c 88-126, src/unnamed/      *)
(* part_005 112-253), user page faults                                     *)
(* (excp.c 86-89), fork's memory_space_clone (process.c 190) and           *)
(* process_exit (process.c 143-144).                                       *)
(*                                                                         *)
(* Physical memory is a function from page numbers to page contents.  A   *)
(* page holds PTE_PER_LEVEL words; the model keeps two of them per page   *)
(* (Idx), each a PTE record, so that a page's content is the same thing   *)
(* whether the page is used as a page table, as user data or as a free-   *)
(* list node.  A virtual page is <<VPN2, VPN1, VPN0>>; root index KernIdx *)
(* stands for the kernel half (MMIO giga-pages and the RAM table that     *)
(* memory_init builds) and UserIdx for [USER_START_VMA, USER_END_VMA).   *)
(*                                                                         *)
(* The kernel runs on one hart and none of these functions sleeps or takes *)
(* a lock, so each call is one atomic step.  The helpers thread a machine *)
(* record m = [mem, free, ok, got] through the calls in the order the     *)
(* code makes them: ok is FALSE once the code panicked, got is the value  *)
(* the last call returned (a page number, 0 for NULL).                    *)
(***************************************************************************)
EXTENDS Naturals, Sequences, SequencesExt, FiniteSets

CONSTANTS
    NFrames,     \* pages of the free-page pool that memory_init seeds
    StoreWords,  \* words a user program may store into its pages
    Images,      \* the executables exec loads: sequences of program headers
    StackPages,  \* pages a user program's stack pointer may be in
    SizeBits     \* the width of size_t

Idx       == 0..1            \* the words of a page (PTE_PER_LEVEL, abstracted)
KernIdx   == 0               \* root index of the kernel half
UserIdx   == 1               \* root index of the user range
MainRoot  == 0               \* main_pt2
KernFrame == NFrames + 1     \* the frame the kernel-half entry points at
Frames    == 1..NFrames      \* the free-page pool
Pages     == 0..NFrames + 1
Flag      == {"V", "R", "W", "X", "U", "G", "A", "D"}
RWX       == {"R", "W", "X"}
PTE       == [flags : SUBSET Flag, ppn : Pages]
NullPte   == [flags |-> {}, ppn |-> 0]

VA        == Idx \X Idx \X Idx
UserVAs   == {UserIdx} \X Idx \X Idx
\* The order in which memory_space_clone's loop visits the user pages.
UserVASeq == << <<UserIdx,0,0>>, <<UserIdx,0,1>>, <<UserIdx,1,0>>, <<UserIdx,1,1>> >>

\* The word union linked_page stores: the next pointer, whose low (flag)
\* bits are zero because pages are aligned.
Link(next) == [flags |-> {}, ppn |-> next]

VARIABLES
    mem,       \* mem[p][i]: word i of physical page p
    freeList,  \* free_list, head first
    active,    \* the root page of the space in satp
    spaces,    \* root pages of the address spaces of live processes
    halted     \* the kernel panicked

mvars == <<mem, freeList, active, spaces, halted>>

TypeOK ==
    /\ mem \in [Pages -> [Idx -> PTE]]
    /\ freeList \in Seq(Frames)
    /\ spaces \subseteq Frames \cup {MainRoot}
    /\ active \in spaces \cup {MainRoot}
    /\ halted \in BOOLEAN

\* memory_init, memory.c 180-185 and 239-249: main_pt2 maps the kernel half
\* only; every pool page is linked to the next one.
Init ==
    /\ mem = [p \in Pages |->
                IF p = MainRoot
                THEN [i \in Idx |-> IF i = KernIdx
                                    THEN [flags |-> {"V","R","W","G","A","D"},
                                          ppn |-> KernFrame]
                                    ELSE NullPte]
                ELSE [i \in Idx |-> IF i = 0 /\ p \in Frames
                                    THEN Link(IF p < NFrames THEN p + 1 ELSE 0)
                                    ELSE NullPte]]
    /\ freeList = [i \in 1..NFrames |-> i]
    /\ active = MainRoot
    /\ spaces = {MainRoot}
    /\ halted = FALSE

Machine == [mem |-> mem, free |-> freeList, ok |-> TRUE, got |-> 0]

\* A faulty memory_alloc_page that returns the head but leaves it linked.
AllocNoPop(m) ==
    IF ~m.ok THEN m
    ELSE IF m.free = <<>> THEN [m EXCEPT !.ok = FALSE]
    ELSE [m EXCEPT !.got = Head(m.free)]

\* memory_alloc_page, memory.c 422-433: panic on an empty list, else unlink
\* the head.  The page is not cleared.
Alloc(m) ==
    IF ~m.ok THEN m
    ELSE IF m.free = <<>> THEN [m EXCEPT !.ok = FALSE]
    ELSE [m EXCEPT !.got = Head(m.free), !.free = Tail(m.free)]

\* memory_free_page, memory.c 445-455: page->next = free_list; push.
FreePage(m, p) ==
    [m EXCEPT !.mem[p][0] = Link(IF m.free = <<>> THEN 0 ELSE Head(m.free)),
              !.free = <<p>> \o m.free]

\* One inner level of walk_pt, memory.c 746-760 and 766-781: follow a valid
\* entry; else fail, or install a fresh table with flags = PTE_V only.
WalkLevel(m, t, i, create) ==
    IF ~m.ok THEN m
    ELSE IF "V" \in m.mem[t][i].flags THEN [m EXCEPT !.got = m.mem[t][i].ppn]
    ELSE IF ~create THEN [m EXCEPT !.got = 0]
    ELSE LET a == Alloc(m)
         IN  IF ~a.ok THEN a
             ELSE [a EXCEPT !.mem[t][i] = [flags |-> {"V"}, ppn |-> a.got]]

\* walk_pt(root, vma, create), memory.c 741-790: the level-0 table of va.
WalkPt(m, root, va, create) ==
    LET m1 == WalkLevel(m, root, va[1], create)
    IN  IF ~m1.ok \/ m1.got = 0 THEN m1 ELSE WalkLevel(m1, m1.got, va[2], create)

\* memory_alloc_and_map_page, memory.c 469-495: walk with create, allocate
\* the page, set ppn and OR the flags into the entry.
MapPage(m, root, va, fl) ==
    LET w == WalkPt(m, root, va, TRUE)
        a == Alloc(w)
    IN  IF ~a.ok THEN a
        ELSE [a EXCEPT !.mem[w.got][va[3]] =
                [flags |-> @.flags \cup fl \cup {"V", "A", "D"}, ppn |-> a.got]]

\* memory_set_page_flags, memory.c 534-547: rewrite the flags of the leaf,
\* keeping V, A and D; a NULL level-0 table is dereferenced (a fatal fault).
SetPageFlags(m, root, va, fl) ==
    LET w == WalkPt(m, root, va, FALSE)
    IN  IF w.got = 0 THEN [m EXCEPT !.ok = FALSE]
        ELSE [m EXCEPT !.mem[w.got][va[3]].flags = fl \cup {"V", "A", "D"}]

\* A faulty clone loop body that maps the fresh page without the memcpy.
CloneUserPageNoCopy(m, P, C, va) ==
    LET w == WalkPt(m, P, va, FALSE)
        e == m.mem[w.got][va[3]]
        a == Alloc(m)
        n == WalkPt(a, C, va, TRUE)
    IN  IF ~m.ok \/ w.got = 0 \/ "V" \notin e.flags \/ "U" \notin e.flags THEN m
        ELSE IF ~a.ok THEN a
        ELSE IF ~n.ok THEN n
        ELSE [n EXCEPT !.mem[n.got][va[3]] = [flags |-> e.flags, ppn |-> a.got]]

\* The loop body of memory_space_clone, memory.c 365-387, for parent root P
\* and child root C: a valid U leaf of P is copied into a fresh page that is
\* mapped in C with the same flags.
CloneUserPage(m, P, C, va) ==
    LET w == WalkPt(m, P, va, FALSE)
        e == m.mem[w.got][va[3]]
        a == Alloc(m)
        c == [a EXCEPT !.mem[a.got] = m.mem[e.ppn]]
        n == WalkPt(c, C, va, TRUE)
    IN  IF ~m.ok \/ w.got = 0 \/ "V" \notin e.flags \/ "U" \notin e.flags THEN m
        ELSE IF ~a.ok THEN a
        ELSE IF ~n.ok THEN n
        ELSE [n EXCEPT !.mem[n.got][va[3]] = [flags |-> e.flags, ppn |-> a.got]]

\* memory_space_clone, memory.c 327-390: a root page (not cleared) whose
\* kernel-half entries are copied from main_pt2, then the deep copy of the
\* user range; got is the new root.
SpaceClone(m, P) ==
    LET r == Alloc(m)
        k == [r EXCEPT !.mem[r.got][KernIdx] = m.mem[MainRoot][KernIdx]]
    IN  IF ~r.ok THEN r
        ELSE [FoldLeft(LAMBDA acc, va : CloneUserPage(acc, P, r.got, va), k, UserVASeq)
                EXCEPT !.got = r.got]

RECURSIVE WalkAndFreeUser(_, _)

\* The loop body of walk_and_free_user, memory.c 801-813: an entry with U
\* set is descended into when it is a valid non-leaf, then its page freed.
FreeEntry(m, t, i) ==
    LET e == m.mem[t][i]
        d == IF "V" \in e.flags /\ e.flags \cap RWX = {}
             THEN WalkAndFreeUser(m, e.ppn) ELSE m
    IN  IF "U" \notin e.flags THEN m ELSE FreePage(d, e.ppn)

\* walk_and_free_user(root), memory.c 795-815.
WalkAndFreeUser(m, t) ==
    FoldLeft(LAMBDA acc, i : FreeEntry(acc, t, i), m, <<0, 1>>)

\* memory_unmap_and_free_user, memory.c 579-585, on the active root.
UnmapAndFreeUser(m) == WalkAndFreeUser(m, active)

(***************************************************************************)
(* The translation of a user page in a space, read as the MMU reads it.   *)
(***************************************************************************)
PteAt(r, va, lvl) ==
    LET e2 == mem[r][va[1]]
        e1 == mem[e2.ppn][va[2]]
        e0 == mem[e1.ppn][va[3]]
    IN  CASE lvl = 2 -> e2 [] lvl = 1 -> e1 [] OTHER -> e0

\* The walk from root r reaches the level-lvl entry of va and it is valid.
Reaches(r, va, lvl) == \A l \in lvl..2 : "V" \in PteAt(r, va, l).flags

\* va has a valid leaf in space r.
Mapped(r, va) == Reaches(r, va, 0) /\ PteAt(r, va, 0).flags \cap RWX # {}

\* va is accessible from user mode in space r.
UserMapped(r, va) == Mapped(r, va) /\ "U" \in PteAt(r, va, 0).flags

\* Apply the machine record of a kernel call to the state.
Apply(m) ==
    /\ mem' = m.mem
    /\ freeList' = m.free
    /\ halted' = ~m.ok
(***************************************************************************)
(* The ELF loader.  An image is [file, phdrs]: the executable's contents  *)
(* as an iolit whose units are pages, and its program headers.  A header *)
(* is [type, vas, aligned, fl, off, filesz]: PT_LOAD or not, the user     *)
(* pages [p_vaddr, p_vaddr + p_memsz) covers, in order, whether p_memsz   *)
(* is a multiple of PAGE_SIZE, the R/W/X of p_flags, p_offset and         *)
(* p_filesz (in pages).                                                    *)
(***************************************************************************)
EIO    == -5
EINVAL == -22

ZeroPage  == [i \in Idx |-> NullPte]
\* What lies past an image in memory: a page of no program's.
StrayPage == [i \in Idx |-> [flags |-> {"X"}, ppn |-> 0]]

Lit == INSTANCE IoLit WITH Width <- SizeBits, Stray <- StrayPage

\* memory_alloc_and_map_range, memory.c 508-520: panic on an unaligned
\* size, else memory_alloc_and_map_page for every page in turn.
MapRange(m, root, seg, fl) ==
    IF ~seg.aligned THEN [m EXCEPT !.ok = FALSE]
    ELSE FoldLeft(LAMBDA acc, va : MapPage(acc, root, va, fl), m, seg.vas)

\* memory_set_range_flags, memory.c 560-572: the same panic, then
\* memory_set_page_flags for every page.
SetRangeFlags(m, root, seg, fl) ==
    IF ~seg.aligned THEN [m EXCEPT !.ok = FALSE]
    ELSE FoldLeft(LAMBDA acc, va : IF acc.ok THEN SetPageFlags(acc, root, va, fl)
                                   ELSE acc, m, seg.vas)

\* The copy of ioread_full into the freshly mapped pages, part_005 218,
\* and the memset of [p_filesz, p_memsz), part_005 227-233: page k of the
\* segment gets the k-th page read, or zeros past them.
FillRange(m, root, seg, data) ==
    FoldLeftDomain(LAMBDA acc, k :
        LET va == seg.vas[k] IN
        [acc EXCEPT !.mem[acc.mem[WalkPt(acc, root, va, FALSE).got][va[3]].ppn] =
            IF k <= Len(data) THEN data[k] ELSE ZeroPage], m, seg.vas)

RECURSIVE LoadSegments(_, _, _, _)

\* The loop of elf_load over the program headers from i on, part_005
\* 152-246, reading through the iolit file: a header that is not PT_LOAD
\* is skipped; a range outside the user range is -EINVAL; a failed seek to
\* p_offset is -EIO; the pages are mapped U|R|W; a read of p_filesz that
\* comes back short is -EIO (the pages stay mapped U|R|W); else the pages
\* are filled and given U and the segment's R/W/X.  got is the value
\* returned, 0 on success.
LoadSegments(m, img, file, i) ==
    IF i > Len(img.phdrs) THEN [m EXCEPT !.got = 0]
    ELSE LET seg  == img.phdrs[i]
             seek == Lit!IolitIoctl(file, "SETPOS", seg.off)
         IN
         IF seg.type # "load" THEN LoadSegments(m, img, file, i + 1)
         ELSE IF \E k \in DOMAIN seg.vas : seg.vas[k][1] # UserIdx
         THEN [m EXCEPT !.got = EINVAL]
         ELSE IF seek.ret < 0 THEN [m EXCEPT !.got = EIO]
         ELSE LET a == MapRange(m, active, seg, {"U", "R", "W"})
                  r == Lit!IoreadFull(seek.lit, seg.filesz)
              IN  IF ~a.ok THEN a
                  ELSE IF r.ret # seg.filesz THEN [a EXCEPT !.got = EIO]
                  ELSE LoadSegments(SetRangeFlags(FillRange(a, active, seg, r.data),
                                                  active, seg, {"U"} \cup seg.fl),
                                    img, r.lit, i + 1)

\* elf_load(io, &entry), part_005 112-150: the seek to 0, the header read
\* and verify_elf_header fail with an error before anything is mapped.
\* The header reads leave the file wherever; each segment seeks first.
ElfLoad(m, img, hdrOk) ==
    IF ~m.ok THEN m
    ELSE IF ~hdrOk THEN [m EXCEPT !.got = EIO]
    ELSE LoadSegments(m, img, img.file, 1)

(***************************************************************************)
(* Actions.  A user program runs, and traps into the kernel, only while   *)
(* the active space is the space of a live process.                       *)
(***************************************************************************)
Running == ~halted /\ active \in spaces

\* A user store to a writable user page (hardware, not kernel code).
UserStore(va, w) ==
    /\ Running
    /\ UserMapped(active, va)
    /\ "W" \in PteAt(active, va, 0).flags
    /\ mem' = [mem EXCEPT ![PteAt(active, va, 0).ppn][1] = w]
    /\ UNCHANGED <<freeList, active, spaces, halted>>

\* panic(msg), halt.c 23-28: print msg, then halt_failure (18-21), which
\* stops the machine through the virt test device and spins.
Panic ==
    /\ halted' = TRUE
    /\ UNCHANGED <<mem, freeList>>

\* default_excp_handler, excp.c 98-112: print the exception's name and
\* sepc, then panic.
DefaultExcpHandler == Panic

\* memory_handle_page_fault(vptr), memory.c 708-721: panic outside the user
\* range, else map a fresh R|W|U page at vptr's page.
HandlePageFault(vptr) ==
    IF vptr[1] # UserIdx
    THEN Panic
    ELSE Apply(MapPage(Machine, active, vptr, {"R", "W", "U"}))

\* A user access of kind acc ("R" load, "W" store, "X" fetch) at va traps:
\* va has no user leaf, or the leaf lacks the permission.
AccessFaults(va, acc) ==
    ~UserMapped(active, va) \/ acc \notin PteAt(active, va, 0).flags

\* excp.c 86-89: a load or store page fault from user mode at va (a store
\* to a read-only page included); the handler is passed the user's stack
\* pointer sp (tfr->x[TFR_SP]), which the program may hold at any page.
PageFault(va, acc, sp) ==
    /\ Running
    /\ AccessFaults(va, acc)
    /\ HandlePageFault(sp)
    /\ UNCHANGED <<active, spaces>>

\* excp.c 90-94: an instruction page fault from user mode at va falls
\* through to the default case, default_excp_handler.
InstrPageFault(va) ==
    /\ Running
    /\ AccessFaults(va, "X")
    /\ DefaultExcpHandler
    /\ UNCHANGED <<active, spaces>>

\* excp.c 92-94: any other exception from user mode (an illegal or
\* misaligned instruction, a breakpoint) goes to default_excp_handler.
OtherUserExcp ==
    /\ Running
    /\ DefaultExcpHandler
    /\ UNCHANGED <<active, spaces>>

\* process_fork, process.c 190: the child's space is memory_space_clone of
\* the parent's, the active one; the parent keeps running.
Fork ==
    /\ Running
    /\ LET m == SpaceClone(Machine, active)
       IN  /\ Apply(m)
           /\ spaces' = IF m.ok THEN spaces \cup {m.got} ELSE spaces
    /\ UNCHANGED active

\* process_exec(exeio), process.c 88-126: the user mappings are torn down,
\* then elf_load fills the same space; on an error it is returned to the
\* caller in the half-built space, else the thread jumps to user mode.
\* hdrOk is whether the header seeks, reads and verifies.
ProcessExec(img, hdrOk) ==
    /\ Running
    /\ Apply(ElfLoad(UnmapAndFreeUser(Machine), img, hdrOk))
    /\ UNCHANGED <<active, spaces>>

\* A faulty process_exit whose reclaim does not switch to the main space.
ExitNoSwitch ==
    /\ Running
    /\ Apply(UnmapAndFreeUser(UnmapAndFreeUser(Machine)))
    /\ spaces' = spaces \ {active}
    /\ UNCHANGED active

\* process_exit, process.c 143-144: memory_unmap_and_free_user, then
\* memory_space_reclaim (memory.c 400-410), which frees the user pages
\* again and switches to main_mtag.  The process's space is gone.
Exit ==
    /\ Running
    /\ Apply(UnmapAndFreeUser(UnmapAndFreeUser(Machine)))
    /\ active' = MainRoot
    /\ spaces' = spaces \ {active}

\* The scheduler resumes a thread of another process, which loads that
\* process's mtag with memory_space_switch.
Switch(r) ==
    /\ ~halted
    /\ r \in spaces \ {active}
    /\ active' = r
    /\ UNCHANGED <<mem, freeList, spaces, halted>>

Next ==
    \/ \E img \in Images, hdrOk \in BOOLEAN :
          ProcessExec(img, hdrOk)
    \/ \E va \in UserVAs, w \in StoreWords : UserStore(va, w)
    \/ \E va \in VA, acc \in {"R", "W"}, sp \in StackPages : PageFault(va, acc, sp)
    \/ \E va \in VA : InstrPageFault(va)
    \/ OtherUserExcp
    \/ Fork
    \/ Exit
    \/ \E r \in Frames \cup {MainRoot} : Switch(r)

Spec == Init /\ [][Next]_mvars
(***************************************************************************)
(* Properties.                                                            *)
(***************************************************************************)

\* The entries of live spaces that hold page f: f as a root, or as the page
\* a valid entry of a user-range walk points at (keyed by root and prefix).
Holders(f) ==
    {<<r>> : r \in spaces \cap {f}}
    \cup {<<x[1], SubSeq(x[2], 1, 3 - x[3])>> :
            x \in {y \in spaces \X UserVAs \X (0..2) :
                     Reaches(y[1], y[2], y[3]) /\ PteAt(y[1], y[2], y[3]).ppn = f}}

\* A pool page is in one place at most: on the free list once, or the root,
\* a table or a data page at one entry of one live space.  Broken by an
\* allocator that hands a page out twice or a fork that shares a parent
\* page with the child instead of copying it (memory_alloc_page,
\* memory_space_clone).
FramesExclusive ==
    /\ IsInjective(freeList)
    /\ \A f \in Frames :
         Cardinality(Holders(f)) + (IF f \in Range(freeList) THEN 1 ELSE 0) <= 1

\* The user address space of r: flags and content of every user leaf.
UserView(r) ==
    [va \in UserVAs |-> IF UserMapped(r, va)
                        THEN <<PteAt(r, va, 0).flags, mem[PteAt(r, va, 0).ppn]>>
                        ELSE <<>>]

\* Fork equality (spec section 8): the step that creates a child space
\* (memory_space_clone in process_fork) leaves it with the same user
\* pages, flags and bytes as the parent's.
ForkEquality ==
    [][\A r \in Frames :
         (r \notin spaces /\ r \in spaces') => UserView(r)' = UserView(active)']_mvars

\* space_reclaim frees every frame reachable through a U leaf (spec 4.2):
\* when a process exits, each page of its user mappings is back on the
\* free list (process_exit, walk_and_free_user).
UserFramesReleased ==
    [][Exit => \A va \in UserVAs :
                 UserMapped(active, va) => PteAt(active, va, 0).ppn \in Range(freeList')]_mvars

\* An image as the ELF format and spec 4.1 describe a good one: every
\* PT_LOAD segment lies in the user range, is page aligned and has its
\* p_filesz units inside the file.
ImageValid(img) ==
    \A i \in DOMAIN img.phdrs :
        LET seg == img.phdrs[i] IN
        seg.type = "load" =>
            /\ \A k \in DOMAIN seg.vas : seg.vas[k][1] = UserIdx
            /\ seg.aligned
            /\ seg.off + seg.filesz <= Len(img.file.buf)

\* What the ELF format puts at page k of segment seg: the file's content
\* from p_offset on for p_filesz, zeros after.
SegmentPage(img, seg, k) ==
    IF k <= seg.filesz THEN img.file.buf[seg.off + k] ELSE ZeroPage

\* Exec loads the image (spec 4.1, 8.5): when process_exec runs elf_load on
\* a good image and nothing panics, every page of every PT_LOAD segment
\* is then mapped with U and exactly the segment's R/W/X, and holds the
\* file's bytes or the zero fill (elf_load's seek, map, ioread_full over
\* the iolit, memset and set_range_flags, in that order).
ExecLoadsImage ==
    [][\A img \in Images :
         (ImageValid(img) /\ ~halted' /\ ProcessExec(img, TRUE)) =>
            \A i \in DOMAIN img.phdrs :
              LET seg == img.phdrs[i] IN
              seg.type = "load" =>
                \A k \in DOMAIN seg.vas :
                  LET v == UserView(active)'[seg.vas[k]] IN
                  /\ v # <<>>
                  /\ v[1] \cap {"U", "R", "W", "X"} = {"U"} \cup seg.fl
                  /\ v[2] = SegmentPage(img, seg, k)]_mvars
=============================================================================
