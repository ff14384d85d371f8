---------------------------- MODULE MCRangeLock ----------------------------
(***************************************************************************)
(* RangeLock for TLC.  Three threads on three or four bytes: enough for    *)
(* two readers that overlap partially, a third range that bridges the gap  *)
(* between two others, a node cut on both sides, and waiters of both kinds *)
(* on the same node.                                                       *)
(***************************************************************************)
EXTENDS RangeLock, TLC

CONSTANT MaxOffset    \* ranges lie in [0, MaxOffset)

MCRequests ==
  {q \in [start : 0 .. MaxOffset, end : 0 .. MaxOffset, type : {"reader", "writer"}] :
     q.start < q.end}

Perms == Permutations(Threads)
=============================================================================
