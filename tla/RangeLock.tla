----------------------------- MODULE RangeLock -----------------------------
(***************************************************************************)
(* efsng::lock_manager (src/src/range_lock.cpp, range_lock.h): byte-range  *)
(* locks of a file.  Locked ranges live in an AVL tree ordered by their    *)
(* start.  A reader that overlaps readers already in the tree is granted   *)
(* by cutting the ranges it meets into reference-counted proxies that tile *)
(* its own range; its handle then has no node of its own.  A request that  *)
(* meets a conflicting range waits on that range's condition variable and  *)
(* starts again when it is woken.                                          *)
(*                                                                         *)
(* lock_range and unlock_range run under m_mutex, which only a wait        *)
(* releases, so one action is one stretch of code with the mutex held.     *)
(*                                                                         *)
(* The tree is the set of its nodes: AVL search by start and in-order next *)
(* are then "the node with this start" and "the first node after".         *)
(***************************************************************************)
EXTENDS RangeTree, FiniteSets

CONSTANTS Threads,    \* FUSE worker threads using the file's lock manager
          Requests    \* the lock_range calls they may make

ASSUME ThreadsAssumption == IsFiniteSet(Threads)

\* Non-empty ranges of a file.  (Empty ones, which truncate() and unload()
\* can ask for, are the subject of module RangeWalk.)
ASSUME RequestsAssumption ==
  Requests \subseteq {q \in [start : Nat, end : Nat, type : {"reader", "writer"}] :
                        q.start < q.end}

NoRequest == [start |-> 0, end |-> 0, type |-> "none"]

VARIABLES
  tree,      \* m_tree: the set of nodes
  pc,        \* where each thread is in lock_range / unlock_range / ~range_lock
  req,       \* the range and type of each thread's call, then of its handle
  ptr,       \* m_ptr of each thread's handle (see Pointers)
  waitAt,    \* start of the node whose condition variable the thread waits on
  status     \* "running", or how the process died

vars == <<tree, pc, req, ptr, waitAt, status>>

(***************************************************************************)
(* m_ptr: null; the in-tree node of this handle; a descriptor that was     *)
(* taken out of the tree when proxies replaced it (m_refs = 0); or a       *)
(* descriptor already freed by unlock_range_reader.                        *)
(***************************************************************************)
Pointers == {"null", "live", "detached", "freed"}

Overlapping(q) == {n \in tree : Overlap(n, q)}

Init ==
  /\ tree = {}
  /\ pc = [t \in Threads |-> "idle"]
  /\ req = [t \in Threads |-> NoRequest]
  /\ ptr = [t \in Threads |-> "null"]
  /\ waitAt = [t \in Threads |-> 0]
  /\ status = "running"

-----------------------------------------------------------------------------
(***************************************************************************)
(* Waiting.  Both lock functions flag the range as wanted and wait on its  *)
(* condition variable for their kind.                                      *)
(***************************************************************************)
Wait(t, q, n, flagged, state) ==
  /\ tree' = (tree \ {n}) \cup {flagged}
  /\ pc' = [pc EXCEPT ![t] = state]
  /\ req' = [req EXCEPT ![t] = q]
  /\ waitAt' = [waitAt EXCEPT ![t] = n.start]
  /\ UNCHANGED <<ptr, status>>

ReaderWait(t, q, n) ==
  Wait(t, q, n, [n EXCEPT !.read_wanted = TRUE], "rd_wait")

WriterWait(t, q, n) ==
  Wait(t, q, n, [n EXCEPT !.write_wanted = TRUE], "wr_wait")

-----------------------------------------------------------------------------
Granted(t, q, p) ==
  /\ pc' = [pc EXCEPT ![t] = "held"]
  /\ req' = [req EXCEPT ![t] = q]
  /\ waitAt' = [waitAt EXCEPT ![t] = 0]
  /\ UNCHANGED status
  /\ ptr' = p

\* No overlap: the handle's node goes into the tree.
InsertNode(t, q) ==
  /\ tree' = tree \cup {NewRange(q.start, q.end, q.type, FALSE)}
  /\ Granted(t, q, [ptr EXCEPT ![t] = "live"])

\* range_proxify takes the node of another handle out of the tree.
\* Slip: m_refs of the replaced node is not reset to 0.
SlipAttached(O) == [u \in Threads |-> ptr[u]]

Detached(O) ==
  [u \in Threads |->
     IF ptr[u] = "live" /\ \E n \in O : ~ n.is_proxy /\ n.start = req[u].start
       THEN "detached" ELSE ptr[u]]

ShareNodes(t, q, O) ==
  /\ tree' = Grown(tree, q, O)
  /\ Granted(t, q, Detached(O))

AddReader(t, q) ==
  LET O == Overlapping(q) IN
  \/ O = {} /\ InsertNode(t, q)
  \/ O # {} /\ ShareNodes(t, q, O)

(***************************************************************************)
(* lock_range_reader, from the label retry on.  The reader waits on the    *)
(* first range that blocks it, in tree order.                              *)
(***************************************************************************)
ReaderBlockers(q) == Blocking(Overlapping(q))

ReaderAttempt(t, q) ==
  LET B == ReaderBlockers(q) IN
  \/ B = {} /\ AddReader(t, q)
  \/ B # {} /\ ReaderWait(t, q, First(B))

LockReader(t) ==
  /\ status = "running" /\ pc[t] = "idle"
  /\ \E q \in Requests : q.type = "reader" /\ ReaderAttempt(t, q)

(***************************************************************************)
(* A woken reader jumps back to retry, past the test for an empty tree.    *)
(* find() on an empty tree leaves an index that nearest() takes for a real *)
(* position, and the scan dereferences what it returns.                    *)
(***************************************************************************)
RetryReader(t) ==
  /\ status = "running" /\ pc[t] = "rd_woken"
  /\ \/ tree # {} /\ ReaderAttempt(t, req[t])
     \/ /\ tree = {}
        /\ status' = "segv"
        /\ UNCHANGED <<tree, pc, req, ptr, waitAt>>

(***************************************************************************)
(* lock_range_writer: a writer waits for any overlapping range.            *)
(***************************************************************************)
WriterBlocker(q) == Met(q, Overlapping(q))

WriterAttempt(t, q) ==
  \/ Overlapping(q) = {} /\ InsertNode(t, q)
  \/ Overlapping(q) # {} /\ WriterWait(t, q, WriterBlocker(q))

LockWriter(t) ==
  /\ status = "running" /\ pc[t] = "idle"
  /\ \E q \in Requests : q.type = "writer" /\ WriterAttempt(t, q)

RetryWriter(t) ==
  /\ status = "running" /\ pc[t] = "wr_woken"
  /\ WriterAttempt(t, req[t])

-----------------------------------------------------------------------------
(***************************************************************************)
(* Unlocking.  A removed node wakes the threads waiting on its condition   *)
(* variables, if it is flagged.                                            *)
(***************************************************************************)
\* Slip: only the writers are notified.
SlipWritersOnly(u, dead) ==
  pc[u] = "wr_wait" /\ \E n \in dead : n.write_wanted /\ n.start = waitAt[u]

Woken(u, dead) ==
  \/ pc[u] = "rd_wait" /\ \E n \in dead : n.read_wanted /\ n.start = waitAt[u]
  \/ pc[u] = "wr_wait" /\ \E n \in dead : n.write_wanted /\ n.start = waitAt[u]

WakeState(u) == IF pc[u] = "rd_wait" THEN "rd_woken" ELSE "wr_woken"

Released(t, dead, p) ==
  /\ pc' = [u \in Threads |-> IF u = t THEN "unlocked"
                              ELSE IF Woken(u, dead) THEN WakeState(u) ELSE pc[u]]
  /\ waitAt' = [u \in Threads |-> IF Woken(u, dead) THEN 0 ELSE waitAt[u]]
  /\ ptr' = [ptr EXCEPT ![t] = p]
  /\ UNCHANGED <<req, status>>

\* The handle's own node is still in the tree.
RemoveNode(t) ==
  LET dead == {n \in tree : n.start = req[t].start} IN
  /\ tree' = tree \ dead
  /\ Released(t, dead, "null")

(***************************************************************************)
(* The walk drops one reference of every proxy.  m_ptr is reset only when  *)
(* some proxy dies, but a detached descriptor is freed in any case.        *)
(***************************************************************************)
DropReferences(t, P) ==
  LET dead == {n \in P : n.refs = 1} IN
  /\ tree' = Shrunk(tree, P)
  /\ Released(t, dead,
       IF ptr[t] = "detached" /\ dead = {} THEN "freed" ELSE "null")

UnlockReader(t) ==
  LET P == {n \in tree : Within(n, req[t])} IN
  /\ status = "running" /\ pc[t] = "held" /\ req[t].type = "reader"
  /\ \/ ptr[t] = "live" /\ RemoveNode(t)
     \/ ptr[t] # "live" /\ DropReferences(t, P)

UnlockWriter(t) ==
  /\ status = "running" /\ pc[t] = "held" /\ req[t].type = "writer"
  /\ RemoveNode(t)

(***************************************************************************)
(* ~range_lock.  Through a freed pointer it reads m_refs of released       *)
(* memory: if that still is 0 the descriptor is deleted a second time.     *)
(***************************************************************************)
DestroyHandle(t) ==
  /\ status = "running" /\ pc[t] = "unlocked"
  /\ status' \in IF ptr[t] = "freed" THEN {"running", "double_free"} ELSE {"running"}
  /\ pc' = [pc EXCEPT ![t] = "idle"]
  /\ req' = [req EXCEPT ![t] = NoRequest]
  /\ ptr' = [ptr EXCEPT ![t] = "null"]
  /\ UNCHANGED <<tree, waitAt>>

\* std::condition_variable may wake a waiter that nobody notified.
SpuriousWake(t) ==
  /\ status = "running" /\ pc[t] \in {"rd_wait", "wr_wait"}
  /\ pc' = [pc EXCEPT ![t] = WakeState(t)]
  /\ waitAt' = [waitAt EXCEPT ![t] = 0]
  /\ UNCHANGED <<tree, req, ptr, status>>

\* The process is gone.
Dead == status # "running" /\ UNCHANGED vars

Step(t) ==
  \/ LockReader(t) \/ RetryReader(t) \/ LockWriter(t) \/ RetryWriter(t)
  \/ UnlockReader(t) \/ UnlockWriter(t) \/ DestroyHandle(t) \/ SpuriousWake(t)

Next == (\E t \in Threads : Step(t)) \/ Dead

Spec == Init /\ [][Next]_vars

(***************************************************************************)
(* A holder finishes its copy and unlocks, and a woken thread gets the     *)
(* mutex in the end.  Nobody has to ask for a lock.                        *)
(***************************************************************************)
Fairness ==
  \A t \in Threads : /\ WF_vars(UnlockReader(t) \/ UnlockWriter(t))
                     /\ WF_vars(DestroyHandle(t))
                     /\ WF_vars(RetryReader(t) \/ RetryWriter(t))

FairSpec == Spec /\ Fairness

-----------------------------------------------------------------------------
Holding(t) == pc[t] = "held"

Holders(n) == {t \in Threads : Holding(t) /\ Overlap(n, req[t])}

\* Types of the variables: nodes, thread states, handles.  A thread in a call
\* has a request, of the kind its state says.
TypeOK ==
  /\ tree \subseteq Nodes
  /\ pc \in [Threads -> {"idle", "rd_wait", "rd_woken", "wr_wait", "wr_woken",
                         "held", "unlocked"}]
  /\ req \in [Threads -> Requests \cup {NoRequest}]
  /\ ptr \in [Threads -> Pointers]
  /\ waitAt \in [Threads -> Nat]
  /\ status \in {"running", "segv", "double_free"}
  /\ \A t \in Threads : /\ pc[t] # "idle" => req[t] \in Requests
                        /\ pc[t] \in {"rd_wait", "rd_woken"} => req[t].type = "reader"
                        /\ pc[t] \in {"wr_wait", "wr_woken"} => req[t].type = "writer"

(***************************************************************************)
(* Mutual exclusion: whatever splitting and merging the tree went through, *)
(* two granted ranges overlap only if both are readers.                    *)
(***************************************************************************)
WriterExclusion ==
  \A t, u \in Threads :
    /\ t # u /\ Holding(t) /\ Holding(u)
    /\ Overlap(req[t], req[u])
    => req[t].type = "reader" /\ req[u].type = "reader"

\* The nodes of the tree are non-empty and pairwise disjoint, so their starts
\* are keys and an in-order walk meets them one after the other.
TreeDisjoint ==
  /\ \A n \in tree : n.start < n.end
  /\ \A m, n \in tree : m # n => ~ Overlap(m, n)

\* Every node lies inside, or outside, each granted range: the cuts made by
\* add_reader are enough for unlock_range_reader to walk whole nodes.
NodesAligned ==
  \A t \in Threads, n \in tree :
    Holding(t) /\ Overlap(n, req[t]) => Within(n, req[t])

\* Every byte of a granted range is under some node.
GrantsCovered ==
  \A t \in Threads :
    Holding(t) =>
      \A x \in req[t].start .. (req[t].end - 1) : \E n \in tree : Contains(n, x)

\* m_refs of a node is the number of handles whose range covers it, and is
\* never 0 in the tree: no node outlives its last holder or dies before it.
RefsCountHolders ==
  \A n \in tree : n.refs > 0 /\ n.refs = Cardinality(Holders(n))

\* Handles and nodes agree: a node has the type of the handles over it; a
\* handle with a live m_ptr has an original node that spans exactly its range
\* and is shared with nobody; under any other handle there are only proxies.
HandlesMatchNodes ==
  /\ \A t \in Threads : Holding(t) =>
       /\ \A n \in tree : Overlap(n, req[t]) =>
            n.type = req[t].type /\ (n.is_proxy <=> ptr[t] # "live")
       /\ ptr[t] = "live" =>
            \E n \in tree : n.start = req[t].start /\ n.end = req[t].end
       /\ req[t].type = "writer" => ptr[t] = "live"
  /\ \A t \in Threads : ptr[t] = "live" => Holding(t)
  /\ \A n \in tree : n.type = "writer" => ~ n.is_proxy
  /\ \A n \in tree : ~ n.is_proxy => n.refs = 1

\* Readers wait only behind a writer that holds the range or waits for it, so
\* a node no reader is blocked by has no flag to lose when it is cut.
ReadWantedBehindWriter ==
  \A n \in tree : n.read_wanted => n.type = "writer" \/ n.write_wanted

\* A thread waits only on a node that is still in the tree and flagged for
\* its kind, so the removal of that node wakes it: no wake-up is lost.
WaitersFlagged ==
  \A t \in Threads :
    /\ pc[t] = "rd_wait" => \E n \in tree : n.start = waitAt[t] /\ n.read_wanted
    /\ pc[t] = "wr_wait" => \E n \in tree : n.start = waitAt[t] /\ n.write_wanted

\* The inductive invariant: what the nodes are, who holds them, who waits.
Inv ==
  /\ TypeOK
  /\ TreeDisjoint /\ NodesAligned /\ GrantsCovered
  /\ RefsCountHolders /\ HandlesMatchNodes
  /\ ReadWantedBehindWriter /\ WaitersFlagged

\* The asserts of range_proxify and range_split hold for every reader request
\* that may be granted now.
AddReaderAsserts ==
  \A q \in Requests :
    q.type = "reader" /\ ReaderBlockers(q) = {} =>
      \A n \in Overlapping(q) :
        /\ n.is_proxy \/ n.refs = 1
        /\ (n.is_proxy /\ Within(n, q)) \/ (~ n.read_wanted /\ ~ n.write_wanted)

\* The asserts of unlock_range_reader hold for every handle without a node in
\* the tree: reader proxies tile its range.  That of unlock_range_writer: a
\* writer's handle has its node.
UnlockAsserts ==
  \A t \in Threads : Holding(t) =>
    LET P == {n \in tree : Within(n, req[t])} IN
    /\ req[t].type = "writer" => ptr[t] = "live"
    /\ ptr[t] # "live" =>
         /\ \E n \in P : n.start = req[t].start /\ n.is_proxy
         /\ \A n \in P : /\ n.refs # 0 /\ n.type = "reader"
                         /\ n.end = req[t].end \/ \E m \in P : m.start = n.end

\* A reader is never granted bytes of a range some writer is waiting for:
\* write_wanted keeps a stream of readers from overtaking the writer.
NoOvertaking ==
  [][\A t, u \in Threads :
       /\ ~ Holding(t) /\ Holding(t)' /\ req'[t].type = "reader"
       /\ pc[u] = "wr_wait"
       => \A n \in tree : n.start = waitAt[u] => ~ Overlap(n, req'[t])]_vars

\* Every wait ends: the range waited for is released even if other threads
\* keep locking and unlocking for ever.
WaitEnds ==
  \A t \in Threads :
    pc[t] \in {"rd_wait", "wr_wait"} ~>
      pc[t] \notin {"rd_wait", "wr_wait"} \/ status # "running"

(***************************************************************************)
(* The lock manager implements the readers/writer promise of its class     *)
(* comment.                                                                *)
(***************************************************************************)
Promise == INSTANCE RangeExclusion WITH
             grants <- {<<t, req[t]>> : t \in {u \in Threads : Holding(u)}}

\* Every grant and release of the tree-based lock is one of the abstract lock.
Implements == Promise!Spec

(***************************************************************************)
(* What the repository expects and the code does not do (see README).      *)
(***************************************************************************)
\* tests/unit/tests-range-lock.cpp: a reader that met a writer goes on once
\* the writer is finished.
ReaderResumes == status # "segv"

\* range_lock.h, ~range_lock: a non-null m_ptr is "still alive".
HandleAlive == \A t \in Threads : pc[t] = "unlocked" => ptr[t] # "freed"
=============================================================================
