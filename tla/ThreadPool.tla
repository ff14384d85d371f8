----------------------------- MODULE ThreadPool -----------------------------
(***************************************************************************)
(* The pool that runs imports and API requests (src/src/thread-pool.h) and *)
(* its queue (src/src/thread-pool-queue.h).                                *)
(*                                                                         *)
(* Every section under the queue's m_mutex is one step.  A task is known   *)
(* by its number in the order of submission; what it does is between the   *)
(* step that takes it from the queue and Finish.                           *)
(***************************************************************************)
EXTENDS Naturals, Sequences, FiniteSets

CONSTANTS
  Workers,     \* the threads of m_threads
  MaxTasks     \* bound on the tasks submitted

ASSUME PoolAssumption == IsFiniteSet(Workers) /\ Workers # {} /\ MaxTasks \in Nat

VARIABLES
  m_done, m_valid,
  m_queue,     \* the tasks that wait
  submitted,   \* how many tasks were submitted
  started,     \* the tasks taken, in the order they were
  finished,    \* the tasks that ran to their end
  at,          \* where each worker is
  task,        \* the task of a worker that is running
  stopping     \* how far destroy() has come

vars == <<m_done, m_valid, m_queue, submitted, started, finished, at, task, stopping>>

NoTask == 0

Init ==
  /\ m_done = FALSE /\ m_valid = TRUE /\ m_queue = <<>>
  /\ submitted = 0 /\ started = <<>> /\ finished = {}
  /\ at = [w \in Workers |-> "loop"] /\ task = [w \in Workers |-> NoTask]
  /\ stopping = "no"

Asleep == {w \in Workers : at[w] = "asleep"}

\* notify_one on m_condition: one of the sleepers, if there is one, wakes.
notify_one ==
  \/ \E w \in Asleep : at' = [at EXCEPT ![w] = "pop"]
  \/ Asleep = {} /\ UNCHANGED at
notify_all == at' = [w \in Workers |-> IF w \in Asleep THEN "pop" ELSE at[w]]

\* submit_and_track, submit_and_forget.  The callers, initialize() and the
\* thread of the API listener, are done when teardown() stops the pool.
submit ==
  /\ stopping = "no" /\ submitted < MaxTasks
  /\ submitted' = submitted + 1 /\ m_queue' = Append(m_queue, submitted + 1)
  /\ notify_one
  /\ UNCHANGED <<m_done, m_valid, started, finished, task, stopping>>

\* worker(): the test of m_done, at the head of the loop.
CheckDone(w) ==
  /\ at[w] = "loop"
  /\ at' = [at EXCEPT ![w] = IF m_done THEN "gone" ELSE "pop"]
  /\ UNCHANGED <<m_done, m_valid, m_queue, submitted, started, finished, task, stopping>>

\* Slip: the last task is taken.
SlipLast(w) ==
  /\ at[w] = "pop" /\ m_valid /\ m_queue # <<>>
  /\ LET x == m_queue[Len(m_queue)] IN
     /\ task' = [task EXCEPT ![w] = x] /\ started' = Append(started, x)
  /\ m_queue' = SubSeq(m_queue, 1, Len(m_queue) - 1)
  /\ at' = [at EXCEPT ![w] = "running"]
  /\ UNCHANGED <<m_done, m_valid, submitted, finished, stopping>>

\* wait_pop: the predicate holds and the queue is valid.
Pop(w) ==
  /\ at[w] = "pop" /\ m_valid /\ m_queue # <<>>
  /\ task' = [task EXCEPT ![w] = Head(m_queue)]
  /\ started' = Append(started, Head(m_queue)) /\ m_queue' = Tail(m_queue)
  /\ at' = [at EXCEPT ![w] = "running"]
  /\ UNCHANGED <<m_done, m_valid, submitted, finished, stopping>>

\* wait_pop: the queue is no longer valid, and the value of out is not set.
PopFails(w) ==
  /\ at[w] = "pop" /\ ~ m_valid
  /\ at' = [at EXCEPT ![w] = "loop"]
  /\ UNCHANGED <<m_done, m_valid, m_queue, submitted, started, finished, task, stopping>>

\* Slip: a worker sleeps without testing the predicate.
SlipUntested(w) ==
  /\ at[w] = "pop" /\ m_valid
  /\ at' = [at EXCEPT ![w] = "asleep"]
  /\ UNCHANGED <<m_done, m_valid, m_queue, submitted, started, finished, task, stopping>>

\* wait_pop: the predicate does not hold.
Sleep(w) ==
  /\ at[w] = "pop" /\ m_valid /\ m_queue = <<>>
  /\ at' = [at EXCEPT ![w] = "asleep"]
  /\ UNCHANGED <<m_done, m_valid, m_queue, submitted, started, finished, task, stopping>>

SpuriousWake(w) ==
  /\ at[w] = "asleep"
  /\ at' = [at EXCEPT ![w] = "pop"]
  /\ UNCHANGED <<m_done, m_valid, m_queue, submitted, started, finished, task, stopping>>

\* execute() returns.
Finish(w) ==
  /\ at[w] = "running"
  /\ finished' = finished \cup {task[w]} /\ task' = [task EXCEPT ![w] = NoTask]
  /\ at' = [at EXCEPT ![w] = "loop"]
  /\ UNCHANGED <<m_done, m_valid, m_queue, submitted, started, stopping>>

-----------------------------------------------------------------------------
(* destroy() *)
MarkDone ==
  /\ stopping = "no"
  /\ m_done' = TRUE /\ stopping' = "marked"
  /\ UNCHANGED <<m_valid, m_queue, submitted, started, finished, at, task>>

invalidate ==
  /\ stopping = "marked"
  /\ m_valid' = FALSE /\ notify_all /\ stopping' = "joining"
  /\ UNCHANGED <<m_done, m_queue, submitted, started, finished, task>>

Join ==
  /\ stopping = "joining" /\ \A w \in Workers : at[w] = "gone"
  /\ stopping' = "stopped"
  /\ UNCHANGED <<m_done, m_valid, m_queue, submitted, started, finished, at, task>>

Work(w) == CheckDone(w) \/ Pop(w) \/ PopFails(w) \/ Sleep(w) \/ Finish(w)

Stopped == stopping = "stopped" /\ UNCHANGED vars

Next ==
  \/ submit \/ MarkDone \/ invalidate \/ Join \/ Stopped
  \/ \E w \in Workers : Work(w) \/ SpuriousWake(w)

Spec == Init /\ [][Next]_vars

\* Workers run and tasks end; destroy(), once it is called, goes on.
Fairness == (\A w \in Workers : WF_vars(Work(w))) /\ WF_vars(invalidate) /\ WF_vars(Join)
FairSpec == Spec /\ Fairness

-----------------------------------------------------------------------------

\* No wake-up is lost: while workers sleep, there are as many others on their
\* way to wait_pop as there are tasks in the queue, although push notifies only
\* one and the one it wakes may find that another was faster.
AwakeForEach ==
  ~ m_done /\ Asleep # {} =>
    Cardinality({w \in Workers : at[w] \in {"loop", "pop"}}) >= Len(m_queue)

\* The pool does what TaskPool says, which is what the rest of the daemon is
\* built on: every task is taken once and in order, and runs to its end unless
\* the pool is stopped; stop() returns when the tasks that were taken have ended.
Pool == INSTANCE TaskPool WITH
  Concurrency <- Cardinality(Workers), taken <- Len(started),
  running <- {task[w] : w \in Workers} \ {NoTask}
Implements == Pool!PoolSpec

\* What efsng_destroy says of teardown(): it waits for all pending tasks.
PendingFinish == stopping = "stopped" => finished = 1 .. submitted
=============================================================================
