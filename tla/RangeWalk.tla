----------------------------- MODULE RangeWalk -----------------------------
(***************************************************************************)
(* The loops of src/src/range_lock.cpp, one iteration per step: the scan   *)
(* of lock_range_reader, the walk of add_reader, the walk of               *)
(* unlock_range_reader.  RangeLock takes each of them as one step defined  *)
(* over the whole tree (module RangeTree); here each call records what     *)
(* those definitions promise and the loop has to arrive at it.             *)
(*                                                                         *)
(* The mutex makes the calls sequential.  A call that would wait flags the *)
(* range and stays parked: what it does when woken is in RangeLock.        *)
(*                                                                         *)
(* A pointer to a node is the node's start, which is its key.              *)
(***************************************************************************)
EXTENDS RangeTree, Integers

CONSTANTS Slots,       \* places for handles
          Requests     \* the lock_range calls; empty ranges are allowed here

Null == -1
Free == [start |-> 0, end |-> 0, type |-> "none"]

VARIABLES
  tree,      \* m_tree
  held,      \* the request of each slot's handle, or Free
  live,      \* the slots whose m_ptr is a node of the tree
  loc,       \* "idle", or the loop that is running
  slot,      \* the slot of the running call
  prev,      \* prev_range_ptr
  next,      \* next_range_ptr (pr in unlock_range_reader)
  len,       \* len of unlock_range_reader
  expected   \* what RangeTree says the tree is when the call is over

vars == <<tree, held, live, loc, slot, prev, next, len, expected>>

At(p) == CHOOSE n \in tree : n.start = p
Starts == {n.start : n \in tree}

\* tree.nearest and tree.next: the closest start below or above p.
Before(p) ==
  LET S == {s \in Starts : s < p} IN
  IF S = {} THEN Null ELSE CHOOSE s \in S : \A r \in S : r <= s
After(p) ==
  LET S == {s \in Starts : p < s} IN
  IF S = {} THEN Null ELSE CHOOSE s \in S : \A r \in S : s <= r

\* tree.find sets where to the null index when it finds the start; nearest
\* returns nullptr for the null index.
Find(q) == IF q.start \in Starts THEN q.start ELSE Before(q.start)
NearestAfter(q) == IF q.start \in Starts THEN Null ELSE After(q.start)

\* The range at p reaches beyond offset s.
Covers(p, s) == p # Null /\ s < At(p).end

Init ==
  /\ tree = {} /\ held = [i \in Slots |-> Free] /\ live = {}
  /\ loc = "idle" /\ slot = (CHOOSE i \in Slots : TRUE) /\ prev = Null /\ next = Null /\ len = 0
  /\ expected = {}

-----------------------------------------------------------------------------
(***************************************************************************)
(* What the tree must become, in the terms RangeLock uses.                 *)
(***************************************************************************)
Meets(q) == {n \in tree : Overlap(n, q)}
Flagged(n, f) == (tree \ {n}) \cup {[n EXCEPT ![f] = TRUE]}
Inserted(q) == tree \cup {NewRange(q.start, q.end, q.type, FALSE)}

AfterReader(q) ==
  LET O == Meets(q)  B == Blocking(O) IN
  IF B # {} THEN Flagged(First(B), "read_wanted")
  ELSE IF O # {} THEN Grown(tree, q, O) ELSE Inserted(q)

AfterWriter(q) ==
  LET O == Meets(q) IN
  IF O # {} THEN Flagged(Met(q, O), "write_wanted") ELSE Inserted(q)

AfterUnlock(i) ==
  IF i \in live THEN {n \in tree : n.start # held[i].start}
  ELSE Shrunk(tree, {n \in tree : Within(n, held[i])})

-----------------------------------------------------------------------------
Return == loc' = "idle" /\ prev' = Null /\ next' = Null /\ len' = 0

\* Wait on n: its flag is set and the call is parked.
Park(n, f) ==
  /\ tree' = Flagged(n, f)
  /\ held' = [held EXCEPT ![slot'] = Free]
  /\ Return
  /\ UNCHANGED live

\* insert_at, or add on an empty tree: the handle's own node.
Insert(i, q) ==
  /\ tree' = Inserted(q)
  /\ live' = live \cup {i}
  /\ held' = [held EXCEPT ![i] = q]
  /\ Return

\* Slip: the scan looks at holders only.
SlipBlocksHeld(n) == n.type = "writer"
Blocks(n) == n.type = "writer" \/ n.write_wanted

(***************************************************************************)
(* lock_range_reader up to the for loop.                                   *)
(***************************************************************************)
LockReader(i, q) ==
  LET p == Find(q) IN
  /\ loc = "idle" /\ held[i] = Free /\ q.type = "reader"
  /\ slot' = i /\ expected' = AfterReader(q)
  /\ \/ tree = {} /\ Insert(i, q)
     \/ /\ tree # {} /\ Covers(p, q.start) /\ Blocks(At(p))
        /\ Park(At(p), "read_wanted")
     \/ /\ tree # {} /\ ~ (Covers(p, q.start) /\ Blocks(At(p)))
        /\ held' = [held EXCEPT ![i] = q]
        /\ loc' = IF Covers(p, q.start) /\ q.end < At(p).end
                    THEN "got_lock" ELSE "scan"
        /\ prev' = p
        /\ next' = IF p # Null THEN After(p) ELSE NearestAfter(q)
        /\ UNCHANGED <<tree, live, len>>

\* An iteration of the for loop of lock_range_reader.
Scan ==
  LET q == held[slot]  n == At(next) IN
  /\ loc = "scan"
  /\ UNCHANGED <<slot, expected>>
  /\ \/ /\ next # Null /\ n.start < q.end /\ Blocks(n)
        /\ Park(n, "read_wanted")
     \/ /\ next # Null => q.end <= n.start \/ (~ Blocks(n) /\ q.end <= n.end)
        /\ loc' = "got_lock"
        /\ UNCHANGED <<tree, held, live, prev, next, len>>
     \/ /\ next # Null /\ n.start < q.end /\ ~ Blocks(n) /\ n.end < q.end
        /\ next' = After(next)
        /\ UNCHANGED <<tree, held, live, loc, prev, len>>

-----------------------------------------------------------------------------
(***************************************************************************)
(* range_proxify and range_split.                                          *)
(***************************************************************************)
Proxified(n) == IF n.is_proxy THEN n ELSE NewRange(n.start, n.end, "reader", TRUE)

Detach(n) ==
  live' = IF n.is_proxy THEN live ELSE {j \in live : held[j].start # n.start}

FrontOf(n, offset) == [Proxified(n) EXCEPT !.end = offset]

\* The rear part takes over m_refs, which the slip forgets.
SlipRearOfFresh(n, offset) == NewRange(offset, n.end, "reader", TRUE)
RearOf(n, offset) ==
  [NewRange(offset, n.end, "reader", TRUE) EXCEPT !.refs = n.refs]

Bumped(n) == [n EXCEPT !.refs = @ + 1]

\* range_new_proxy for [s, e).
Proxy(s, e) == NewRange(s, e, "reader", TRUE)

\* add_reader before its loop: the range before q is cut at q's start.
AddReader ==
  LET q == held[slot]
      cut == Covers(prev, q.start) /\ At(prev).start # q.start
      T == IF cut THEN (tree \ {At(prev)}) \cup {FrontOf(At(prev), q.start),
                                                 RearOf(At(prev), q.start)}
           ELSE tree
      n == IF Covers(prev, q.start) THEN q.start ELSE NearestAfter(q)
  IN
  /\ loc = "got_lock"
  /\ prev' = Null /\ next' = n
  /\ IF cut THEN Detach(At(prev)) ELSE UNCHANGED live
  /\ \/ /\ n = Null \/ q.end <= n
        /\ loc' = "insert" /\ tree' = T
     \/ /\ n # Null /\ n < q.end
        /\ loc' = "walk"
        /\ tree' = IF q.start < n THEN T \cup {Proxy(q.start, n)} ELSE T
  /\ UNCHANGED <<held, slot, len, expected>>

\* No overlaps: insert_at(new_range, where).
InsertAt ==
  /\ loc = "insert"
  /\ Insert(slot, held[slot])
  /\ UNCHANGED <<slot, expected>>

\* An iteration of the loop of add_reader, or what follows the loop.
Walk ==
  LET q == held[slot]
      n == At(next)
      gap == IF prev # Null /\ At(prev).end < n.start
               THEN {Proxy(At(prev).end, n.start)} ELSE {}
      others == (tree \ {n}) \cup gap
  IN
  /\ loc = "walk"
  /\ UNCHANGED <<held, slot, expected>>
  /\ \/ /\ next = Null \/ q.end <= next
        /\ tree' = tree \cup {Proxy(At(prev).end, q.end)}
        /\ Return /\ UNCHANGED live
     \/ /\ next # Null /\ next < q.end /\ q.end = n.end
        /\ tree' = others \cup {Bumped(Proxified(n))}
        /\ Detach(n) /\ Return
     \/ /\ next # Null /\ next < q.end /\ q.end < n.end
        /\ tree' = others \cup {Bumped(FrontOf(n, q.end)), RearOf(n, q.end)}
        /\ Detach(n) /\ Return
     \/ /\ next # Null /\ next < q.end /\ n.end < q.end
        /\ tree' = others \cup {Bumped(Proxified(n))}
        /\ Detach(n)
        /\ prev' = next /\ next' = After(next)
        /\ UNCHANGED <<loc, len>>

-----------------------------------------------------------------------------
(***************************************************************************)
(* lock_range_writer, one round of its loop.                               *)
(***************************************************************************)
Follows(q) == After(q.start) # Null /\ After(q.start) < q.end
Precedes(q) == Before(q.start) # Null /\ q.start < At(Before(q.start)).end

LockWriter(i, q) ==
  /\ loc = "idle" /\ held[i] = Free /\ q.type = "writer"
  /\ slot' = i /\ expected' = AfterWriter(q)
  /\ \/ q.start \in Starts /\ Park(At(q.start), "write_wanted")
     \/ /\ q.start \notin Starts /\ Follows(q)
        /\ Park(At(After(q.start)), "write_wanted")
     \/ /\ q.start \notin Starts /\ ~ Follows(q) /\ Precedes(q)
        /\ Park(At(Before(q.start)), "write_wanted")
     \/ /\ q.start \notin Starts /\ ~ Follows(q) /\ ~ Precedes(q)
        /\ Insert(i, q)

-----------------------------------------------------------------------------
\* unlock_range_writer, and unlock_range_reader as far as its loop.
Unlock(i) ==
  /\ loc = "idle" /\ held[i] # Free
  /\ slot' = i /\ expected' = AfterUnlock(i)
  /\ \/ /\ i \in live
        /\ tree' = tree \ {At(held[i].start)}
        /\ live' = live \ {i}
        /\ held' = [held EXCEPT ![i] = Free]
        /\ Return
     \/ /\ i \notin live
        /\ loc' = "drop" /\ prev' = Null /\ next' = held[i].start
        /\ len' = held[i].end - held[i].start
        /\ UNCHANGED <<tree, held, live>>

\* An iteration of the loop of unlock_range_reader; next is pr.
Drop ==
  LET n == At(next) IN
  /\ loc = "drop"
  /\ tree' = IF n.refs = 1 THEN tree \ {n}
             ELSE (tree \ {n}) \cup {[n EXCEPT !.refs = @ - 1]}
  /\ UNCHANGED <<slot, live, expected>>
  /\ \/ /\ len = n.end - n.start
        /\ held' = [held EXCEPT ![slot] = Free]
        /\ Return
     \/ /\ len # n.end - n.start
        /\ len' = len - (n.end - n.start)
        /\ next' = After(next)
        /\ UNCHANGED <<held, loc, prev>>

Next ==
  \/ \E i \in Slots, q \in Requests : LockReader(i, q) \/ LockWriter(i, q)
  \/ \E i \in Slots : Unlock(i)
  \/ Scan \/ AddReader \/ InsertAt \/ Walk \/ Drop

Spec == Init /\ [][Next]_vars

-----------------------------------------------------------------------------
\* The loops compute what RangeLock says a call does to the tree: every call
\* of lock_range and unlock_range leaves exactly the nodes RangeTree defines.
WalksAgree == loc = "idle" => tree = expected

(***************************************************************************)
(* The assertions in range_new_proxy, range_proxify, range_split,          *)
(* add_reader and unlock_range_reader hold whenever a loop gets to them:   *)
(* the rest that is added at the end is not empty, no wanted or counted    *)
(* range is made a proxy, and the proxies of a handle follow one another.  *)
(***************************************************************************)
WalkAsserts ==
  LET q == held[slot] IN
  /\ loc = "walk" =>
       \/ /\ next = Null \/ q.end <= next
          /\ prev # Null /\ At(prev).end # q.end
       \/ /\ next # Null /\ next < q.end
          /\ LET n == At(next) IN
             /\ ~ n.is_proxy => n.refs = 1
             /\ ~ n.read_wanted /\ ~ n.write_wanted
             /\ q.end < n.end => n.end - n.start > 1 /\ q.end > n.start
  /\ loc = "drop" =>
       /\ next \in Starts
       /\ LET n == At(next) IN
          /\ n.type = "reader" /\ n.is_proxy /\ n.refs # 0
          /\ len # n.end - n.start => n.end \in Starts /\ n.end - n.start < len

\* insert_at gets the null index only when the tree is empty: it asserts
\* m_root == nullptr.
InsertsAtLeaf == loc = "insert" => held[slot].start \notin Starts
=============================================================================
