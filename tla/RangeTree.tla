----------------------------- MODULE RangeTree -----------------------------
(***************************************************************************)
(* The nodes of the range-lock tree (lock_manager::range in               *)
(* src/src/range_lock.h) and what add_reader (src/src/range_lock.cpp)      *)
(* makes of them.  These are the definitions RangeLock takes its steps     *)
(* with; RangeWalk checks them against the loop of the code.               *)
(***************************************************************************)
EXTENDS Intervals

Nodes == [start : Nat, end : Nat, type : {"reader", "writer"}, refs : Nat,
          is_proxy : BOOLEAN, read_wanted : BOOLEAN, write_wanted : BOOLEAN]

\* The constructor range(start, end, type).
NewRange(s, e, ty, proxy) ==
  [start |-> s, end |-> e, type |-> ty, refs |-> 1, is_proxy |-> proxy,
   read_wanted |-> FALSE, write_wanted |-> FALSE]

First(S) == CHOOSE n \in S : \A m \in S : n.start <= m.start

\* The ranges that block a reader which overlaps O: a writer holds them or
\* waits for them.
\* Slips: the test for a waiting writer is missing; the one for a holder is.
SlipHeldOnly(O) == {n \in O : n.type = "writer"}
SlipWantedOnly(O) == {n \in O : n.write_wanted}
Blocking(O) == {n \in O : n.type = "writer" \/ n.write_wanted}

\* The range a writer over q, which overlaps O, waits for: one at its own
\* start, else the next one after it, else the one before.
Met(q, O) ==
  LET After == {n \in O : q.start <= n.start}
  IN First(IF After # {} THEN After ELSE O)

(***************************************************************************)
(* add_reader: what becomes of the tree when a reader is granted.  Each    *)
(* overlapping node is cut at the ends of the new range; the part inside   *)
(* gains a reference; the parts of the new range that no node covered get  *)
(* proxies of their own.                                                   *)
(***************************************************************************)
\* A proxy for the part [s, e) of n.  The flags of a node that is cut are
\* clear: range_proxify and range_split assert it (AddReaderAsserts).
Part(n, s, e, refs) ==
  [start |-> s, end |-> e, type |-> n.type, refs |-> refs, is_proxy |-> TRUE,
   read_wanted |-> n.read_wanted, write_wanted |-> n.write_wanted]

Front(n, q) ==
  IF n.start < q.start THEN {Part(n, n.start, q.start, n.refs)} ELSE {}

Shared(n, q) ==
  Part(n, Larger(n.start, q.start), Smaller(n.end, q.end), n.refs + 1)

Rear(n, q) ==
  IF q.end < n.end THEN {Part(n, q.end, n.end, n.refs)} ELSE {}

Pieces(n, q) == Front(n, q) \cup {Shared(n, q)} \cup Rear(n, q)

\* The maximal stretches of q that no node of O covers: each begins at the
\* start of q or the end of a node, and ends at the end of q or at a node.
\* Slip: add_reader returns without adding the remaining end range.
SlipNoTail(q, O) ==
  {p \in ({q.start} \cup {n.end : n \in O}) \X {n.start : n \in O} :
     /\ q.start <= p[1] /\ p[1] < p[2] /\ p[2] <= q.end
     /\ \A n \in O : n.end <= p[1] \/ p[2] <= n.start}

GapBounds(q, O) ==
  {p \in ({q.start} \cup {n.end : n \in O}) \X ({q.end} \cup {n.start : n \in O}) :
     /\ q.start <= p[1] /\ p[1] < p[2] /\ p[2] <= q.end
     /\ \A n \in O : n.end <= p[1] \/ p[2] <= n.start}

Gaps(q, O) == {NewRange(p[1], p[2], "reader", TRUE) : p \in GapBounds(q, O)}

\* The tree after a reader q was granted over the nodes O it overlaps.
Grown(T, q, O) == (T \ O) \cup (UNION {Pieces(n, q) : n \in O}) \cup Gaps(q, O)

\* The tree after a reader dropped its reference of each of the proxies P.
Shrunk(T, P) ==
  (T \ P) \cup {[n EXCEPT !.refs = @ - 1] : n \in P \ {m \in P : m.refs = 1}}
=============================================================================
