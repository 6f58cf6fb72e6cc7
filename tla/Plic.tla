------------------------------- MODULE Plic -------------------------------
(***************************************************************************)
(* The PLIC driver (src/unnamed/part_003, plic.c) and the S-mode external  *)
(* interrupt path that uses it.  The driver only computes register         *)
(* addresses and reads or writes 32-bit words there; what a word means is  *)
(* the PLIC's (RISC-V PLIC specification), so the model keeps the register *)
(* file reg as a function from offsets (from PLIC_IOBASE) to words, the    *)
(* driver's actions write at the addresses the code computes, and the      *)
(* hardware actions read the same words at the layout of the PLIC          *)
(* specification.  A driver address off that layout writes a register      *)
(* nobody reads (or no register of the model at all).                      *)
(*                                                                         *)
(* Hardware: a device raises its request line (req); the gateway of a      *)
(* source forwards a request by setting its pending bit and forwards no   *)
(* other until the source is completed; a claim of context c returns the   *)
(* pending source enabled for c of highest priority above c's threshold   *)
(* (ties to the lowest id), clears its pending bit and puts it in service  *)
(* (claimed[c]); a completion of an enabled source in service releases it. *)
(*                                                                         *)
(* The interrupt dispatcher (intr.c, not among the sources; spec.md 2, L2  *)
(* "S-mode exception/interrupt dispatch") takes the external interrupt of  *)
(* context 1, claims it through plic_claim_irq, runs the source's ISR,     *)
(* which acknowledges the device, and closes it through plic_close_irq.    *)
(***************************************************************************)
EXTENDS Integers, FiniteSetsExt

CONSTANTS
    Sources,    \* the interrupt sources devices raise (ids in 1 .. PLIC_SRCCNT-1)
    PrioMax,    \* PLIC_PRIO_MAX (plic.h, not among the sources)
    MaxRaise    \* model bound: requests a device raises

PLIC_SRCCNT              == 1024
PLIC_CTXCNT              == 2
PLIC_SOURCE_PRIO         == 4
PLIC_PENDING             == 4096
PLIC_ENABLE              == 8192
NEXT_PLIC_ENABLE         == 128
PLIC_PRIO_TR             == 2097152
NEXT_PLIC_PRIO_TR        == 4096
PLIC_CLAIM_COMPLETE      == 2097156
NEXT_PLIC_CLAIM_COMPLETE == 4096

Ctxs == 0 .. PLIC_CTXCNT - 1
(* A 32-bit register word is the set of its 1-bits (bit 31 is beyond    *)
(* TLC's integers).  ToBits and ToNum convert a number below 2^31 (a       *)
(* priority, a threshold, a source id) to a word and back.                 *)
Bits == 0 .. 31
ToBits(n) == {k \in 0 .. 30 : (n \div 2^k) % 2 = 1}
ToNum(w) == MapThenSumSet(LAMBDA k : 2^k, w \cap 0 .. 30)

(* The register layout of the PLIC specification: the words the hardware  *)
(* reads and writes for the sources of the model and the two contexts.     *)
RefPrio(s)   == 4 * s
RefPend(s)   == 4096 + 4 * (s \div 32)
RefEn(c, s)  == 8192 + 128 * c + 4 * (s \div 32)
RefTh(c)     == 2097152 + 4096 * c
RefCc(c)     == 2097156 + 4096 * c
Addrs == {RefPrio(s) : s \in Sources} \cup {RefPend(s) : s \in Sources}
         \cup {RefEn(c, s) : c \in Ctxs, s \in Sources} \cup {RefTh(c) : c \in Ctxs}

VARIABLES
    reg,        \* reg[a]: the word at offset a
    claimed,    \* claimed[c]: the sources in service for context c
    req,        \* req[s]: the device of source s holds its request line
    raised,     \* raised[s]: requests the device of s raised (bounded)
    on,         \* ghost: on[s] iff the last driver call for s enabled it
    inited,     \* plic_init has run
    hpc,        \* the dispatcher: "idle" or "claimed"
    hirq        \* the source the dispatcher claimed (0: none)

vars == <<reg, claimed, req, raised, on, inited, hpc, hirq>>

Load(r, a) == IF a \in DOMAIN r THEN r[a] ELSE {}
Store(r, a, v) == IF a \in DOMAIN r THEN [r EXCEPT ![a] = v] ELSE r

\* What the hardware sees.
Prio(s)     == ToNum(reg[RefPrio(s)])
Pending(s)  == s % 32 \in reg[RefPend(s)]
En(c, s)    == s % 32 \in reg[RefEn(c, s)]
Candidates(c) ==
    {s \in Sources : Pending(s) /\ En(c, s) /\ Prio(s) > ToNum(reg[RefTh(c)])}
Best(c) ==
    IF Candidates(c) = {} THEN 0
    ELSE CHOOSE s \in Candidates(c) : \A t \in Candidates(c) :
            Prio(t) < Prio(s) \/ (Prio(t) = Prio(s) /\ s <= t)
-----------------------------------------------------------------------------
(* The driver's register functions, over a register file r.               *)

\* A faulty priority address that numbers the sources from 1.
PrioAddrOneBased(srcno) == PLIC_SOURCE_PRIO * (srcno - 1)

\* plic_set_source_priority: the guard and the store at 4 * srcno.
PrioAddr(srcno) == PLIC_SOURCE_PRIO * srcno
plic_set_source_priority(r, srcno, level) ==
    IF srcno < PLIC_SRCCNT /\ level <= PrioMax
    THEN Store(r, PrioAddr(srcno), ToBits(level)) ELSE r

\* plic_enable_source_for_context: word |= 1 << (srcno % 32).  For
\* srcno % 32 = 31 the int shift reaches the sign bit; the build yields
\* 0x80000000 once converted for the uint32_t |=.
EnAddr(ctxno, srcno) ==
    PLIC_ENABLE + ctxno * NEXT_PLIC_ENABLE + (srcno \div 32) * 4
\* A faulty enable that shifts by srcno, not srcno % 32.
plic_enable_source_for_context_nomod(r, ctxno, srcno) ==
    IF ctxno < PLIC_CTXCNT /\ srcno < PLIC_SRCCNT
    THEN Store(r, EnAddr(ctxno, srcno), Load(r, EnAddr(ctxno, srcno)) \cup {srcno})
    ELSE r

plic_enable_source_for_context(r, ctxno, srcno) ==
    IF ctxno < PLIC_CTXCNT /\ srcno < PLIC_SRCCNT
    THEN Store(r, EnAddr(ctxno, srcno),
               Load(r, EnAddr(ctxno, srcno)) \cup {srcno % 32})
    ELSE r

\* The claim/complete register the driver addresses for ctxno.
CcAddr(ctxno) == PLIC_CLAIM_COMPLETE + ctxno * NEXT_PLIC_CLAIM_COMPLETE

\* plic_init's loop over i = 0 .. PLIC_SRCCNT-1, register word by word.
\* Iteration i calls plic_set_source_priority(i, 0), which stores only at
\* PrioAddr(i), then plic_enable_source_for_context(1, i), which ORs bits
\* into one word: the word at a ends as the last priority stored there
\* (or its old value), with the bits the enables of that iteration and
\* the later ones OR in at a.  InitBits(a, c, i): what the enable of
\* iteration i for context c ORs in at a.
PrioWrites(a) == {i \in 0 .. PLIC_SRCCNT - 1 : PrioAddr(i) = a}
InitBits(a, c, i) == plic_enable_source_for_context([x \in {a} |-> {}], c, i)[a]
InitWordFor(r, a, c) ==
    LET P == PrioWrites(a) IN
    (IF P = {} THEN r[a]
     ELSE plic_set_source_priority([x \in {a} |-> r[a]], Max(P), 0)[a])
        \cup UNION {InitBits(a, c, i) :
                        i \in {j \in 0 .. PLIC_SRCCNT - 1 : \A p \in P : p <= j}}

\* A faulty loop that enables the sources for context 0 (the call left
\* commented out in plic_init).
InitWordCtx0(r, a) == InitWordFor(r, a, 0)

InitWord(r, a) == InitWordFor(r, a, 1)
InitLoop(r) == [a \in DOMAIN r |-> InitWord(r, a)]
-----------------------------------------------------------------------------
(* The hardware's side of a read or write of the claim/complete register. *)

\* A read at a: a claim of the context whose claim register a is: Best,
\* its pending bit cleared and put in service; any other word just reads.
ClaimAt(a) ==
    LET cs == {c \in Ctxs : RefCc(c) = a}
        c  == CHOOSE x \in cs : TRUE
        v  == Best(c)
    IN IF cs = {} THEN [val |-> ToNum(Load(reg, a)), reg |-> reg, claimed |-> claimed]
       ELSE IF v = 0 THEN [val |-> 0, reg |-> reg, claimed |-> claimed]
       ELSE [val |-> v,
             reg |-> [reg EXCEPT ![RefPend(v)] = @ \ {v % 32}],
             claimed |-> [claimed EXCEPT ![c] = @ \cup {v}]]

\* A write of v at a: the completion of v for the context whose claim
\* register a is, ignored unless v is enabled for it and in service; any
\* other word is stored.
CompleteAt(a, v) ==
    LET cs == {c \in Ctxs : RefCc(c) = a}
        c  == CHOOSE x \in cs : TRUE
    IN IF cs = {} THEN [reg |-> Store(reg, a, ToBits(v)), claimed |-> claimed]
       ELSE [reg |-> reg,
             claimed |-> IF v \in claimed[c] /\ En(c, v)
                         THEN [claimed EXCEPT ![c] = @ \ {v}] ELSE claimed]

\* plic_claim_context_interrupt: the read of ctxno's claim register; 0 for
\* a context out of range.
plic_claim_context_interrupt(ctxno) ==
    IF ctxno < PLIC_CTXCNT THEN ClaimAt(CcAddr(ctxno))
    ELSE [val |-> 0, reg |-> reg, claimed |-> claimed]

\* plic_complete_context_interrupt: the write of srcno to ctxno's
\* claim/complete register, guarded by both ranges.
plic_complete_context_interrupt(ctxno, srcno) ==
    IF ctxno < PLIC_CTXCNT /\ srcno < PLIC_SRCCNT
    THEN CompleteAt(CcAddr(ctxno), srcno)
    ELSE [reg |-> reg, claimed |-> claimed]
-----------------------------------------------------------------------------
TypeOK ==
    /\ DOMAIN reg = Addrs /\ \A a \in Addrs : reg[a] \subseteq Bits
    /\ claimed \in [Ctxs -> SUBSET Sources]
    /\ req \in [Sources -> BOOLEAN]
    /\ raised \in [Sources -> 0 .. MaxRaise]
    /\ on \in [Sources -> BOOLEAN]
    /\ inited \in BOOLEAN
    /\ hpc \in {"idle", "claimed"}
    /\ hirq \in {0} \cup Sources

\* After reset every register of the model reads 0 (as on QEMU's virt
\* machine); in particular the threshold of context 1, which plic_init
\* never sets.
Init ==
    /\ reg = [a \in Addrs |-> {}]
    /\ claimed = [c \in Ctxs |-> {}]
    /\ req = [s \in Sources |-> FALSE]
    /\ raised = [s \in Sources |-> 0]
    /\ on = [s \in Sources |-> FALSE]
    /\ inited = FALSE
    /\ hpc = "idle"
    /\ hirq = 0

\* plic_init, once at boot before any device is opened.
PlicInit ==
    /\ ~inited
    /\ reg' = InitLoop(reg)
    /\ inited' = TRUE
    /\ UNCHANGED <<claimed, req, raised, on, hpc, hirq>>

\* plic_enable_irq(irqno, prio): the source's priority (intr_enable_irq,
\* from vioblk_open); prio is any level the caller may pass.
plic_enable_irq(irqno, prio) ==
    /\ inited
    /\ reg' = plic_set_source_priority(reg, irqno, prio)
    /\ on' = [on EXCEPT ![irqno] = TRUE]
    /\ UNCHANGED <<claimed, req, raised, inited, hpc, hirq>>

\* plic_disable_irq(irqno): priority 0 for irqno > 0; otherwise only a
\* debug message.
plic_disable_irq(irqno) ==
    /\ inited
    /\ reg' = IF 0 < irqno THEN plic_set_source_priority(reg, irqno, 0) ELSE reg
    /\ on' = [on EXCEPT ![irqno] = FALSE]
    /\ UNCHANGED <<claimed, req, raised, inited, hpc, hirq>>

\* The device of s raises its request line.
Raise(s) ==
    /\ ~req[s]
    /\ raised[s] < MaxRaise
    /\ req' = [req EXCEPT ![s] = TRUE]
    /\ raised' = [raised EXCEPT ![s] = @ + 1]
    /\ UNCHANGED <<reg, claimed, on, inited, hpc, hirq>>

\* The gateway of s forwards the request: pending, unless s is pending or
\* in service already.
Gateway(s) ==
    /\ req[s]
    /\ ~Pending(s)
    /\ \A c \in Ctxs : s \notin claimed[c]
    /\ reg' = [reg EXCEPT ![RefPend(s)] = @ \cup {s % 32}]
    /\ UNCHANGED <<claimed, req, raised, on, inited, hpc, hirq>>

\* The hart takes the external interrupt of context 1 and the dispatcher
\* calls plic_claim_irq: plic_claim_context_interrupt(1).
plic_claim_irq ==
    LET r == plic_claim_context_interrupt(1) IN
    /\ inited
    /\ hpc = "idle"
    /\ Best(1) # 0
    /\ reg' = r.reg
    /\ claimed' = r.claimed
    /\ hirq' = r.val
    /\ hpc' = "claimed"
    /\ UNCHANGED <<req, raised, on, inited>>

\* A faulty close that completes for context 0 (the call left commented
\* out in plic_close_irq).
plic_close_irq_ctx0 ==
    LET w == plic_complete_context_interrupt(0, hirq) IN
    /\ hpc = "claimed"
    /\ req' = IF hirq > 0 THEN [req EXCEPT ![hirq] = FALSE] ELSE req
    /\ reg' = w.reg
    /\ claimed' = w.claimed
    /\ hpc' = "idle"
    /\ hirq' = 0
    /\ UNCHANGED <<raised, on, inited>>

\* The dispatcher runs the ISR of the claimed source, which acknowledges
\* its device, and calls plic_close_irq: plic_complete_context_interrupt(1,
\* irqno).
plic_close_irq ==
    LET w == plic_complete_context_interrupt(1, hirq) IN
    /\ hpc = "claimed"
    /\ req' = IF hirq > 0 THEN [req EXCEPT ![hirq] = FALSE] ELSE req
    /\ reg' = w.reg
    /\ claimed' = w.claimed
    /\ hpc' = "idle"
    /\ hirq' = 0
    /\ UNCHANGED <<raised, on, inited>>

Next ==
    \/ PlicInit
    \/ \E s \in Sources :
          \/ \E p \in 1 .. PrioMax : plic_enable_irq(s, p)
          \/ plic_disable_irq(s)
          \/ Raise(s)
          \/ Gateway(s)
    \/ plic_claim_irq
    \/ plic_close_irq

\* The gateway forwards a held request and the hart takes an asserted
\* external interrupt (interrupts are enabled in U mode and whenever the
\* kernel waits, spec.md 5); the dispatcher finishes what it began.
Fairness ==
    /\ \A s \in Sources : WF_vars(Gateway(s))
    /\ WF_vars(plic_claim_irq)
    /\ WF_vars(plic_close_irq)

Spec == Init /\ [][Next]_vars /\ Fairness
-----------------------------------------------------------------------------
(***************************************************************************)
(* Properties                                                              *)
(***************************************************************************)

\* What the PLIC has in service is exactly what the dispatcher holds: no
\* source is ever claimed for context 0, and context 1 has in service the
\* source the dispatcher claimed and not yet closed, and nothing once it
\* is idle.  A claim through the wrong context or a completion
\* plic_complete_context_interrupt writes where the PLIC does not take it
\* leaves a source in service for good, and its gateway never forwards
\* that device's interrupts again.
InServiceMatchesDispatcher ==
    /\ claimed[0] = {}
    /\ claimed[1] = IF hpc = "claimed" /\ hirq # 0 THEN {hirq} ELSE {}

\* Every claim of plic_claim_irq returns a source the driver enabled last
\* (plic_enable_irq, not plic_disable_irq since): a request the gateway
\* made pending before plic_disable_irq stays pending, and only the zero
\* priority plic_set_source_priority stores at the PLIC's address for the
\* source keeps the claim from handing it to a disabled ISR.
ClaimsEnabledSource ==
    [][hpc = "idle" /\ hpc' = "claimed" => on[hirq']]_vars

\* A device request on a source the driver has enabled (plic_enable_irq
\* after plic_init, not disabled since) is serviced by its ISR, unless the
\* driver disables the source first: plic_init must enable every source
\* for context 1 at the word and bit the PLIC reads, plic_enable_irq must
\* give it a priority above the threshold plic_init leaves, and every
\* claim must be completed so that the gateway forwards the next request.
Delivery ==
    \A s \in Sources : (req[s] /\ on[s]) ~> (~req[s] \/ ~on[s])
====
