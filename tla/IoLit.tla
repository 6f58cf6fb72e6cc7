-------------------------------- MODULE IoLit --------------------------------
(* The in-memory literal io of io.c (src/unnamed/part_002 113-383) and    *)
(* ioread_full (59-75), the loop that calls an io's read until the        *)
(* request is done; elf_load reads segments through them (part_005 218,  *)
(* the image being an iolit in the loader's test main, part_004 70).      *)
(* An io_lit is a record [buf, size, pos]: buf is the host buffer, unit k *)
(* at buf[k+1], size and pos its fields.  unsigned long arithmetic wraps  *)
(* at 2^Width.  Each operation is a pure operator returning the new       *)
(* literal with the call's result.                                        *)
EXTENDS Integers, Sequences

CONSTANTS
    Width,      \* bits of unsigned long / size_t
    Stray       \* what memcpy copies from past the end of the host buffer

EINVAL  == -22
ENOTSUP == -95
ULong   == 2^Width

\* iolit_init(lit, buf, size), io.c 113-122.
IolitInit(buf, size) == [buf |-> buf, size |-> size, pos |-> 0]

\* The number of bytes a read of n copies, io.c 181-182:
\* bytes_remaining = size - pos in unsigned long, then the smaller
\* of n and that.
Count(lit, n) ==
    LET remaining == (lit.size - lit.pos) % ULong
    IN  IF n < remaining THEN n ELSE remaining

\* A faulty iolit_read that copies from lit->buf, not lit->buf + lit->pos.
IolitReadAtStart(lit, n) ==
    IF n = 0 THEN [lit |-> lit, ret |-> EINVAL, data |-> <<>>]
    ELSE LET c == Count(lit, n)
         IN [lit  |-> [lit EXCEPT !.pos = (@ + c) % ULong],
             ret  |-> c,
             data |-> [k \in 1..c |-> IF k <= Len(lit.buf) THEN lit.buf[k] ELSE Stray]]

\* iolit_read(io, buf, bufsz), io.c 168-190: memcpy of Count bytes from
\* buf + pos, then pos += Count.  A byte past the host buffer is Stray.
IolitRead(lit, n) ==
    IF n = 0 THEN [lit |-> lit, ret |-> EINVAL, data |-> <<>>]
    ELSE LET c == Count(lit, n)
         IN [lit  |-> [lit EXCEPT !.pos = (@ + c) % ULong],
             ret  |-> c,
             data |-> [k \in 1..c |-> IF lit.pos + k <= Len(lit.buf)
                                       THEN lit.buf[lit.pos + k] ELSE Stray]]

\* lit_setlen, io.c 282-290: size takes the uint32_t argument unchecked
\* (arguments are below 2^32, so the uint32_t read changes nothing).
LitSetlen(lit, arg) == [lit |-> [lit EXCEPT !.size = arg], ret |-> 0, out |-> arg]

\* lit_setpos, io.c 350-362: a position past size is -EINVAL.
LitSetpos(lit, arg) ==
    IF arg > lit.size THEN [lit |-> lit, ret |-> EINVAL, out |-> arg]
    ELSE [lit |-> [lit EXCEPT !.pos = arg], ret |-> 0, out |-> arg]

\* lit_getlen and lit_getpos, io.c 306-334: *arg = size, *arg = pos.
LitGetlen(lit, arg) == [lit |-> lit, ret |-> 0, out |-> lit.size]
LitGetpos(lit, arg) == [lit |-> lit, ret |-> 0, out |-> lit.pos]

\* iolit_ioctl(io, cmd, arg), io.c 248-265: dispatch on cmd; out is *arg
\* after the call.
IolitIoctl(lit, cmd, arg) ==
    CASE cmd = "SETLEN" -> LitSetlen(lit, arg)
      [] cmd = "GETLEN" -> LitGetlen(lit, arg)
      [] cmd = "GETPOS" -> LitGetpos(lit, arg)
      [] cmd = "SETPOS" -> LitSetpos(lit, arg)
      [] OTHER -> [lit |-> lit, ret |-> ENOTSUP, out |-> arg]

RECURSIVE ReadLoop(_, _, _, _)
\* The loop of ioread_full, io.c 59-75: read bufsz - acc more; an error is
\* returned, a read of 0 ends the loop with acc.
ReadLoop(lit, n, acc, data) ==
    IF acc >= n THEN [lit |-> lit, ret |-> acc, data |-> data]
    ELSE LET r == IolitRead(lit, n - acc)
         IN  IF r.ret < 0 THEN [lit |-> r.lit, ret |-> r.ret, data |-> data]
             ELSE IF r.ret = 0 THEN [lit |-> r.lit, ret |-> acc, data |-> data]
             ELSE ReadLoop(r.lit, n, acc + r.ret, data \o r.data)

\* ioread_full(io, buf, bufsz), io.c 59-75.
IoreadFull(lit, n) == ReadLoop(lit, n, 0, <<>>)

====
