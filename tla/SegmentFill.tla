----------------------------- MODULE SegmentFill -----------------------------
(***************************************************************************)
(* How the one segment of a preloaded file is filled: segment::fill_from,  *)
(* its two copy loops and zero_fill (segment.cpp of both backends).        *)
(*                                                                         *)
(* A byte of the source is known by its place in it.  Place -1 is the last *)
(* byte in front of the segment, which on the device belongs to another    *)
(* one.  read() may return less than was asked for, EINTR or an error.     *)
(***************************************************************************)
EXTENDS Integers

CONSTANTS
  SourceSizes,        \* how long the file on Lustre may be
  SegmentSize,        \* m_size: the length that fstat told, aligned
  NVML_TRANSFER_SIZE

VARIABLES
  source,             \* the length of the file
  is_pmem, memory,    \* m_pool.m_is_pmem and what m_pool.m_data points to
  total,              \* bytes copied, later m_bytes
  filling,            \* where fill_from is
  undrained           \* bytes written and not yet drained to the device

vars == <<source, is_pmem, memory, total, filling, undrained>>

Old == -1             \* what was there before
Zero == -2
Failed == -1          \* what read() and the copy loops return for an error

Init ==
  /\ source \in SourceSizes /\ is_pmem \in BOOLEAN
  /\ memory = [i \in -1 .. SegmentSize - 1 |-> Old]
  /\ total = 0 /\ filling = "copy" /\ undrained = {}

\* read() from where the descriptor stands; an interrupted call changes nothing.
read == IF total = source THEN {0, Failed}
        ELSE {n \in 1 .. NVML_TRANSFER_SIZE : n <= source - total} \cup {Failed}

Bytes(n) == total .. total + n - 1
Write(n) == memory' = [i \in DOMAIN memory |-> IF i \in Bytes(n) THEN i ELSE memory[i]]

\* Slip: a short read is taken for the end of the file.
SlipShortRead ==
  /\ filling = "copy" /\ ~ is_pmem
  /\ \E n \in read :
       CASE n = Failed -> total' = n /\ filling' = "failed" /\ UNCHANGED memory
         [] n = 0 -> filling' = "zero" /\ UNCHANGED <<total, memory>>
         [] OTHER -> /\ Write(n) /\ total' = total + n
                     /\ filling' = IF n < NVML_TRANSFER_SIZE THEN "zero" ELSE filling
  /\ UNCHANGED <<source, is_pmem, undrained>>

\* A turn of the loop over memcpy.
copy_data_to_non_pmem ==
  /\ filling = "copy" /\ ~ is_pmem
  /\ \E n \in read :
       CASE n = Failed -> total' = n /\ filling' = "failed" /\ UNCHANGED memory
         [] n = 0 -> filling' = "zero" /\ UNCHANGED <<total, memory>>
         [] OTHER -> Write(n) /\ total' = total + n /\ UNCHANGED filling
  /\ UNCHANGED <<source, is_pmem, undrained>>

\* A turn of the loop over pmem_memcpy_nodrain; the end of the file drains, an
\* error does not.
copy_data_to_pmem ==
  /\ filling = "copy" /\ is_pmem
  /\ \E n \in read :
       CASE n = Failed -> total' = n /\ filling' = "failed" /\ UNCHANGED <<memory, undrained>>
         [] n = 0 -> filling' = "zero" /\ undrained' = {} /\ UNCHANGED <<total, memory>>
         [] OTHER -> /\ Write(n) /\ total' = total + n /\ undrained' = undrained \cup Bytes(n)
                     /\ UNCHANGED filling
  /\ UNCHANGED <<source, is_pmem>>

\* zero_fill(m_bytes, m_size - m_bytes): offset + size <= m_size is m_bytes + m_size -
\* m_bytes <= m_size, also for the -1 of an error.  pmem_memset_persist drains.
zero_fill ==
  /\ memory' = [i \in DOMAIN memory |-> IF i >= total THEN Zero ELSE memory[i]]
  /\ undrained' = {}

\* The rest of fill_from.
fill_from ==
  /\ filling \in {"zero", "failed"} /\ zero_fill
  /\ filling' = IF filling = "zero" THEN "filled" ELSE "spoilt"
  /\ UNCHANGED <<source, is_pmem, total>>

Done == filling \in {"filled", "spoilt"} /\ UNCHANGED vars

Next == copy_data_to_non_pmem \/ copy_data_to_pmem \/ fill_from \/ Done

Spec == Init /\ [][Next]_vars

-----------------------------------------------------------------------------
\* A segment that fill_from has filled without a read error holds the file and then
\* zeroes, m_bytes is the length of the file, whatever the calls of read() returned;
\* the byte in front is another segment's, and every byte is on the device.
FillExact ==
  filling = "filled" =>
    /\ total = source /\ undrained = {} /\ memory[-1] = Old
    /\ \A i \in 0 .. SegmentSize - 1 : memory[i] = IF i < source THEN i ELSE Zero

\* After a read error as well, nothing in front of the segment is written.
StaysInside == memory[-1] = Old
=============================================================================
