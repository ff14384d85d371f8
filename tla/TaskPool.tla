------------------------------ MODULE TaskPool ------------------------------
(***************************************************************************)
(* What the pool of threads promises to initialize(), teardown() and the   *)
(* handler of API requests: tasks are taken in the order of submission, at *)
(* most Concurrency of them run at a time, and stop() lets those that run  *)
(* come to their end.  ThreadPool is shown to implement it, and ApiDaemon  *)
(* is built on it.                                                         *)
(***************************************************************************)
EXTENDS Naturals, FiniteSets

CONSTANTS
  Concurrency,  \* how many tasks can run at a time
  MaxTasks      \* bound on the tasks submitted

VARIABLES
  submitted,    \* how many tasks were submitted
  taken,        \* how many of them were taken
  running,      \* the tasks that were taken and have not ended
  stopping      \* how far stop() has come

poolVars == <<submitted, taken, running, stopping>>

PoolInit == submitted = 0 /\ taken = 0 /\ running = {} /\ stopping = "no"

submit ==
  /\ stopping = "no" /\ submitted < MaxTasks
  /\ submitted' = submitted + 1 /\ UNCHANGED <<taken, running, stopping>>

take ==
  /\ stopping \in {"no", "marked"} /\ taken < submitted /\ Cardinality(running) < Concurrency
  /\ taken' = taken + 1 /\ running' = running \cup {taken + 1}
  /\ UNCHANGED <<submitted, stopping>>

finish(x) ==
  /\ x \in running /\ running' = running \ {x}
  /\ UNCHANGED <<submitted, taken, stopping>>

\* stop(): tasks may still be taken after the first step, none after the
\* second, and none runs after the third.
stop ==
  /\ \/ stopping = "no" /\ stopping' = "marked"
     \/ stopping = "marked" /\ stopping' = "joining"
     \/ stopping = "joining" /\ running = {} /\ stopping' = "stopped"
  /\ UNCHANGED <<submitted, taken, running>>

PoolNext == submit \/ take \/ (\E x \in 1 .. MaxTasks : finish(x)) \/ stop
PoolSafety == PoolInit /\ [][PoolNext]_poolVars

\* A task that waits is taken while the pool is not being stopped, and ends;
\* stop(), once it is called, returns.
PoolFairness ==
  /\ WF_poolVars(stopping = "no" /\ take)
  /\ \A x \in 1 .. MaxTasks : WF_poolVars(finish(x))
  /\ WF_poolVars(stopping # "no" /\ stop)

PoolSpec == PoolSafety /\ PoolFairness
=============================================================================
