------------------------------- MODULE BufCopy -------------------------------
(***************************************************************************)
(* fuse_buf_copy_pmem: the copy between two vectors of buffers that every  *)
(* read and every write of file data goes through                          *)
(* (src/src/backends/nvram-nvml/fuse_buf_copy_pmem.cpp; the file of the    *)
(* devdax backend is the same).                                            *)
(*                                                                         *)
(* A buffer is memory or a file descriptor, on which every system call may *)
(* transfer less than it was asked for, nothing, or fail.  A byte is known *)
(* by its place in the source; `out` is what arrived at the destination.   *)
(***************************************************************************)
EXTENDS Integers, Sequences

CONSTANTS
  Sources, Dests,  \* the vectors: sequences of [size, fd, retry]
  Chunk            \* the temporary buffer of fuse_buf_fd_to_fd

VARIABLES
  srcv, dstv,      \* the vectors, with the place that each has come to
  copied,          \* what fuse_buf_copy_pmem has counted
  at,              \* where the copy is
  len, part, res,  \* the arguments and the result of fuse_buf_copy_one
  via, tmp,        \* how bytes go between descriptors; what was read and not yet written
  lost,            \* bytes read and never written: gone, if the descriptor cannot seek
  out, short       \* the bytes at the destination; a call fell short or failed

vars == <<srcv, dstv, copied, at, len, part, res, via, tmp, lost, out, short>>

Vec(bufs) == [buf |-> bufs, idx |-> 1, off |-> 0]

Init ==
  /\ srcv \in {Vec(b) : b \in Sources} /\ dstv \in {Vec(b) : b \in Dests}
  /\ copied = 0 /\ at = "next" /\ len = 0 /\ part = 0 /\ res = 0
  /\ via = "splice" /\ tmp = 0 /\ lost = 0 /\ out = <<>> /\ short = FALSE

\* The bytes of the first k buffers.
Before(bufs, k) ==
  LET sum[i \in 0 .. Len(bufs)] == IF i = 0 THEN 0 ELSE sum[i - 1] + bufs[i].size
  IN  sum[k]
fuse_buf_size(v) == Before(v.buf, Len(v.buf))
min_size(a, b) == IF a < b THEN a ELSE b

AtEnd(v) == v.idx > Len(v.buf)
fuse_bufvec_current(v) == v.buf[v.idx]

\* Where a vector has come to, counted from its first byte.
Place(v) == Before(v.buf, v.idx - 1) + v.off

\* At the end of the vector the offset stays, which nothing looks at.
fuse_bufvec_advance(v, n) ==
  IF v.off + n = fuse_bufvec_current(v).size
  THEN [v EXCEPT !.idx = @ + 1, !.off = 0] ELSE [v EXCEPT !.off = @ + n]

\* The bytes of the source from where the current copy has come to.
Bytes(n) == [i \in 1 .. n |-> Place(srcv) + part + i]

\* The head of the loop.
CopyNext ==
  /\ at = "next"
  /\ \/ /\ AtEnd(srcv) \/ AtEnd(dstv)
        /\ at' = "done" /\ UNCHANGED <<srcv, dstv, copied, len, part, res, via, tmp, lost, out, short>>
     \/ /\ ~ AtEnd(srcv) /\ ~ AtEnd(dstv)
        /\ len' = min_size(fuse_bufvec_current(srcv).size - srcv.off,
                           fuse_bufvec_current(dstv).size - dstv.off)
        /\ at' = "one" /\ part' = 0 /\ via' \in {"splice", "buffer"}
        /\ UNCHANGED <<srcv, dstv, copied, res, tmp, lost, out, short>>

ToMemory == ~ fuse_bufvec_current(dstv).fd
FromMemory == ~ fuse_bufvec_current(srcv).fd

\* fuse_buf_copy_one, both in memory.
CopyMemory ==
  /\ at = "one" /\ FromMemory /\ ToMemory
  /\ out' = out \o Bytes(len) /\ res' = len /\ at' = "advance"
  /\ UNCHANGED <<srcv, dstv, copied, len, part, via, tmp, lost, short>>

\* A system call on n bytes: how many it transfers, or -1.
Outcomes(n) == -1 .. n
Retry == fuse_bufvec_current(IF FromMemory THEN dstv ELSE srcv).retry

\* Slip: what the calls before the one that failed have transferred is not counted.
SlipForgets ==
  /\ at = "one" /\ FromMemory # ToMemory
  /\ IF part = len THEN at' = "advance" /\ res' = part /\ UNCHANGED <<part, out, short>>
     ELSE \E n \in Outcomes(len - part) :
       /\ out' = out \o Bytes(IF n < 0 THEN 0 ELSE n) /\ short' = (short \/ n < len - part)
       /\ IF n <= 0 \/ ~ Retry THEN at' = "advance" /\ res' = n /\ UNCHANGED part
          ELSE part' = part + n /\ UNCHANGED <<at, res>>
  /\ UNCHANGED <<srcv, dstv, copied, len, via, tmp, lost>>

\* fuse_buf_write and fuse_buf_read: a turn of their loop.
Transfer ==
  /\ at = "one" /\ FromMemory # ToMemory
  /\ IF part = len THEN at' = "advance" /\ res' = part /\ UNCHANGED <<part, out, short>>
     ELSE \E n \in Outcomes(len - part) :
       /\ out' = out \o Bytes(IF n < 0 THEN 0 ELSE n) /\ short' = (short \/ n < len - part)
       /\ CASE n = -1 -> at' = "advance" /\ res' = (IF part = 0 THEN -1 ELSE part) /\ UNCHANGED part
            [] n = 0 \/ (n > 0 /\ ~ Retry) -> at' = "advance" /\ res' = part + n /\ UNCHANGED part
            [] OTHER -> part' = part + n /\ UNCHANGED <<at, res>>
  /\ UNCHANGED <<srcv, dstv, copied, len, via, tmp, lost>>

BothFds == at = "one" /\ ~ FromMemory /\ ~ ToMemory

\* fuse_buf_splice: a turn of its loop.  A first call that is not supported
\* (EINVAL) turns to fuse_buf_fd_to_fd.
Splice ==
  /\ BothFds /\ via = "splice"
  /\ IF part = len THEN at' = "advance" /\ res' = part /\ UNCHANGED <<part, via, out, short>>
     ELSE \/ part = 0 /\ via' = "buffer" /\ UNCHANGED <<at, part, res, out, short>>
          \/ \E n \in Outcomes(len - part) :
               /\ out' = out \o Bytes(IF n < 0 THEN 0 ELSE n) /\ short' = (short \/ n < len - part)
               /\ IF n > 0 /\ (fuse_bufvec_current(srcv).retry \/ fuse_bufvec_current(dstv).retry)
                  THEN part' = part + n /\ UNCHANGED <<at, res>>
                  ELSE /\ at' = "advance" /\ UNCHANGED part
                       /\ res' = (IF n = -1 /\ part # 0 THEN part ELSE part + n)
               /\ UNCHANGED via
  /\ UNCHANGED <<srcv, dstv, copied, len, tmp, lost>>

\* fuse_buf_fd_to_fd: Chunk bytes at a time are read, and then written.
FdRead ==
  /\ BothFds /\ via = "buffer" /\ tmp = 0
  /\ IF part = len THEN at' = "advance" /\ res' = part /\ UNCHANGED <<tmp, short>>
     ELSE \E n \in Outcomes(min_size(Chunk, len - part)) :
       /\ short' = (short \/ n < min_size(Chunk, len - part))
       /\ IF n > 0 THEN tmp' = n /\ UNCHANGED <<at, res>>
          ELSE at' = "advance" /\ res' = (IF part = 0 THEN n ELSE part) /\ UNCHANGED tmp
  /\ UNCHANGED <<srcv, dstv, copied, len, part, via, lost, out>>

\* What cannot be written of a chunk is dropped with the buffer.
FdWrite ==
  /\ at = "one" /\ tmp # 0 /\ tmp' = 0
  /\ \E n \in Outcomes(tmp) :
       /\ out' = out \o Bytes(IF n < 0 THEN 0 ELSE n)
       /\ lost' = tmp - (IF n < 0 THEN 0 ELSE n)
       /\ LET whole == n = min_size(Chunk, len - part) IN
          /\ short' = (short \/ ~ whole)
          /\ IF n > 0 /\ whole THEN part' = part + n /\ UNCHANGED <<at, res>>
             ELSE /\ at' = "advance" /\ UNCHANGED part
                  /\ res' = (IF n > 0 THEN part + n ELSE IF part = 0 THEN n ELSE part)
  /\ UNCHANGED <<srcv, dstv, copied, len, via>>

\* The rest of the turn: the destination is not advanced when the source ends.
Advance ==
  /\ at = "advance"
  /\ IF res < 0 THEN at' = "done" /\ UNCHANGED <<srcv, dstv, copied>>
     ELSE /\ copied' = copied + res
          /\ srcv' = fuse_bufvec_advance(srcv, res)
          /\ dstv' = IF AtEnd(srcv') THEN dstv ELSE fuse_bufvec_advance(dstv, res)
          /\ at' = IF AtEnd(srcv') \/ AtEnd(dstv') \/ res < len THEN "done" ELSE "next"
  /\ part' = 0 /\ UNCHANGED <<len, res, via, tmp, lost, out, short>>

Done == at = "done" /\ UNCHANGED vars

Next == CopyNext \/ CopyMemory \/ Transfer \/ Splice \/ FdRead \/ FdWrite \/ Advance \/ Done

Spec == Init /\ [][Next]_vars

-----------------------------------------------------------------------------
\* What fuse_buf_copy_pmem returns is what it did, however the system calls fall
\* short: the first `copied` bytes of the source, in order and each once, and the
\* source stands behind them, so that the copy into the next region of a write
\* goes on there.  Nothing ends early without a call that fell short, and a stream
\* loses bytes only to a write that ends the copy: none arrives from behind them.
CopyExact ==
  at \in {"next", "done"} =>
    /\ out = [i \in 1 .. copied |-> i] /\ Place(srcv) = copied
    /\ ~ AtEnd(srcv) /\ at = "next" => Place(dstv) = copied
    /\ lost # 0 => at = "done" /\ short
    /\ at = "done" /\ ~ short => copied = min_size(fuse_buf_size(srcv), fuse_buf_size(dstv))
=============================================================================
