----------------------------- MODULE MCProgress -----------------------------
(***************************************************************************)
(* The two services whose callers sleep until somebody wakes them, each by *)
(* itself: the pool that runs imports and requests, and the range locks of *)
(* a file.  `service` says which of them runs.                             *)
(*                                                                         *)
(* Three workers and four tasks have a worker that is woken for a task     *)
(* another has taken.  Three lockers of two bytes have a waiter that two   *)
(* others pass.                                                            *)
(***************************************************************************)
EXTENDS ThreadPool

CONSTANTS Lockers, MaxOffset    \* threads at the range locks, and their bytes

VARIABLES service, tree, pc, req, ptr, waitAt, status

lockVars == <<tree, pc, req, ptr, waitAt, status>>
allVars == <<service, vars, lockVars>>

MCRequests ==
  {q \in [start : 0 .. MaxOffset, end : 0 .. MaxOffset, type : {"reader", "writer"}] :
     q.start < q.end}

L == INSTANCE RangeLock WITH Threads <- Lockers, Requests <- MCRequests

Begin == service \in {"pool", "lock"} /\ Init /\ L!Init

InPool(A) == service = "pool" /\ A /\ UNCHANGED <<service, lockVars>>
InLock(A) == service = "lock" /\ A /\ UNCHANGED <<service, vars>>

Step ==
  \/ service = "pool" /\ Next /\ UNCHANGED <<service, lockVars>>
  \/ service = "lock" /\ L!Next /\ UNCHANGED <<service, vars>>

\* The fairness of the two modules.
ProgressFairness ==
  /\ \A w \in Workers : WF_allVars(InPool(Work(w)))
  /\ WF_allVars(InPool(invalidate)) /\ WF_allVars(InPool(Join))
  /\ \A t \in Lockers : /\ WF_allVars(InLock(L!UnlockReader(t) \/ L!UnlockWriter(t)))
                        /\ WF_allVars(InLock(L!DestroyHandle(t)))
                        /\ WF_allVars(InLock(L!RetryReader(t) \/ L!RetryWriter(t)))

ProgressSpec == Begin /\ [][Step]_allVars /\ ProgressFairness

-----------------------------------------------------------------------------
\* Every wait in lock_range ends: the range waited for is released even if other
\* threads keep locking and unlocking for ever.
WaitEnds == L!WaitEnds
=============================================================================
