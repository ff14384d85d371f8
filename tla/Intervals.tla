----------------------------- MODULE Intervals -----------------------------
(***************************************************************************)
(* Half-open byte ranges [start, end), as the range lock, its descriptors  *)
(* and its handles all use them (src/src/range_lock.h).  Anything with the *)
(* fields start and end is a range.                                        *)
(***************************************************************************)
EXTENDS Naturals

Contains(a, x) == a.start <= x /\ x < a.end

\* The test both lock_range_reader and lock_range_writer make, on each range
\* they meet, against the requested one.
Overlap(a, b) == a.start < b.end /\ b.start < a.end

Within(a, b) == b.start <= a.start /\ a.end <= b.end

Larger(x, y) == IF x < y THEN y ELSE x
Smaller(x, y) == IF x < y THEN x ELSE y
=============================================================================
