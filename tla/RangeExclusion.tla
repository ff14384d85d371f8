--------------------------- MODULE RangeExclusion ---------------------------
(***************************************************************************)
(* What lock_manager promises its callers (src/src/range_lock.h, class     *)
(* comment): a reader shares its range with readers, a writer shares it    *)
(* with nobody.  The only state is the set of granted requests.            *)
(***************************************************************************)
EXTENDS Intervals

CONSTANTS Threads, Requests

VARIABLE grants       \* the pairs <<thread, request>> now granted

Conflict(p, q) == Overlap(p, q) /\ (p.type = "writer" \/ q.type = "writer")

Init == grants = {}

\* lock_range returns: the request conflicts with no grant, and the thread
\* had none (a file operation holds one range of a file at a time).
Grant(t, q) ==
  /\ \A g \in grants : g[1] # t /\ ~ Conflict(g[2], q)
  /\ grants' = grants \cup {<<t, q>>}

\* unlock_range returns.
Revoke(g) ==
  /\ g \in grants
  /\ grants' = grants \ {g}

Next == \/ \E t \in Threads, q \in Requests : Grant(t, q)
        \/ \E g \in grants : Revoke(g)

Spec == Init /\ [][Next]_grants
=============================================================================
