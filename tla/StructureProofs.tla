-------------------------- MODULE StructureProofs --------------------------
(***************************************************************************)
(* Proofs about parts that the others are built on: the pool of threads,   *)
(* the allocator of the device, the filling of a segment and the copy      *)
(* between buffers.                                                        *)
(*                                                                         *)
(* The pool of threads loses no wake-up and does what TaskPool says, for   *)
(* any number of workers and of tasks.                                     *)
(***************************************************************************)
EXTENDS ThreadPool, Integers, FiniteSetTheorems, WellFoundedInduction, TLAPS

Places == {"loop", "pop", "asleep", "running", "gone"}
Stages == {"no", "marked", "joining", "stopped"}

TypeOK ==
  /\ m_done \in BOOLEAN /\ m_valid \in BOOLEAN
  /\ m_queue \in Seq(Nat) /\ started \in Seq(Nat) /\ submitted \in 0 .. MaxTasks
  /\ at \in [Workers -> Places] /\ task \in [Workers -> Nat]
  /\ stopping \in Stages

\* The flags that the workers read say how far destroy() has come.
FlagsAgree ==
  /\ m_done <=> stopping # "no"
  /\ m_valid <=> stopping \in {"no", "marked"}

\* The tasks are taken in the order of their numbers, and those behind are queued.
QueueInOrder ==
  /\ Len(started) + Len(m_queue) = submitted
  /\ \A i \in 1 .. Len(m_queue) : m_queue[i] = Len(started) + i

\* A worker that runs has a task that was taken, and no other worker has it.
OwnTasks ==
  /\ \A w \in Workers : IF at[w] = "running" THEN task[w] \in 1 .. Len(started)
                        ELSE task[w] = NoTask
  /\ \A v, w \in Workers : v # w /\ at[v] = "running" => task[v] # task[w]

\* Nobody has left before the pool was told to stop, and all have when join returned.
LeaveLast ==
  /\ \A w \in Workers : at[w] = "gone" => m_done
  /\ stopping = "stopped" => \A w \in Workers : at[w] = "gone"

PoolInv == TypeOK /\ FlagsAgree /\ QueueInOrder /\ OwnTasks /\ LeaveLast

-----------------------------------------------------------------------------
(* notify_one and notify_all only move sleepers to the head of wait_pop.     *)
LEMMA Notified ==
  ASSUME TypeOK, notify_one \/ notify_all
  PROVE  /\ at' \in [Workers -> Places]
         /\ \A w \in Workers : at'[w] = at[w] \/ (at[w] = "asleep" /\ at'[w] = "pop")
<1>1. CASE notify_one BY <1>1, Zenon DEF notify_one, Asleep, TypeOK, Places
<1>2. CASE notify_all BY <1>2, Zenon DEF notify_all, Asleep, TypeOK, Places
<1> QED BY <1>1, <1>2, Zenon

(* A new pool has nothing queued and its workers at the head of their loop.  *)
LEMMA PoolInitInv == Init => PoolInv
<1> SUFFICES ASSUME Init PROVE PoolInv BY Zenon
<1> USE DEF Init, NoTask
<1>1. TypeOK
  <2>1. <<>> \in Seq(Nat) /\ 0 \in 0 .. MaxTasks BY PoolAssumption
  <2>2. at \in [Workers -> Places] /\ task \in [Workers -> Nat] BY Zenon DEF Places
  <2> QED BY <2>1, <2>2, Zenon DEF TypeOK, Stages
<1>2. FlagsAgree /\ LeaveLast BY Zenon DEF FlagsAgree, LeaveLast
<1>3. QueueInOrder BY DEF QueueInOrder
<1>4. OwnTasks BY Zenon DEF OwnTasks
<1> QED BY <1>1, <1>2, <1>3, <1>4, Zenon DEF PoolInv

(* Every step of the workers, of submit and of destroy() keeps the invariant. *)
LEMMA PoolStep == PoolInv /\ [Next]_vars => PoolInv'
<1> SUFFICES ASSUME PoolInv, [Next]_vars PROVE PoolInv' BY Zenon
<1> USE DEF PoolInv
<1>1. CASE submit
  <2> USE <1>1 DEF submit
  <2>1. /\ at' \in [Workers -> Places]
        /\ \A w \in Workers : at'[w] = at[w] \/ (at[w] = "asleep" /\ at'[w] = "pop")
    BY Notified, Zenon
  <2>2. TypeOK' BY <2>1, PoolAssumption DEF TypeOK
  <2>3. FlagsAgree' BY Zenon DEF FlagsAgree
  <2>4. QueueInOrder' BY DEF QueueInOrder, TypeOK
  <2>5. OwnTasks' BY <2>1, Zenon DEF OwnTasks
  <2>6. LeaveLast' BY <2>1, Zenon DEF LeaveLast
  <2> QED BY <2>2, <2>3, <2>4, <2>5, <2>6, Zenon
<1>2. ASSUME NEW w \in Workers, CheckDone(w) PROVE PoolInv'
  <2> USE <1>2 DEF CheckDone
  <2>1. TypeOK' BY Zenon DEF TypeOK, Places
  <2>2. FlagsAgree' /\ QueueInOrder' BY Zenon DEF FlagsAgree, QueueInOrder
  <2>3. OwnTasks' BY Zenon DEF OwnTasks, TypeOK, Places
  <2>4. LeaveLast' BY Zenon DEF LeaveLast, TypeOK
  <2> QED BY <2>1, <2>2, <2>3, <2>4, Zenon
<1>3. ASSUME NEW w \in Workers, Pop(w) PROVE PoolInv'
  <2> USE <1>3 DEF Pop
  <2>0. Head(m_queue) = Len(started) + 1 /\ Head(m_queue) \in Nat /\ Len(m_queue) \in Nat \ {0}
    BY DEF QueueInOrder, TypeOK
  <2>1. TypeOK' BY <2>0 DEF TypeOK, Places
  <2>2. FlagsAgree' BY Zenon DEF FlagsAgree
  <2>4. Len(started') = Len(started) + 1 BY <2>0 DEF TypeOK
  <2>3. QueueInOrder'
    <3>1. /\ Len(m_queue') = Len(m_queue) - 1
          /\ \A i \in 1 .. Len(m_queue') : m_queue'[i] = m_queue[i + 1]
      BY <2>0 DEF TypeOK
    <3>2. Len(started) \in Nat /\ submitted' = submitted /\ submitted \in Nat BY DEF TypeOK
    <3> HIDE <1>3 DEF Pop
    <3>3. /\ Len(started) + Len(m_queue) = submitted
          /\ \A i \in 1 .. Len(m_queue) : m_queue[i] = Len(started) + i
      BY Zenon DEF QueueInOrder
    <3>4. \A i \in 1 .. Len(m_queue') : m_queue'[i] = Len(started') + i
      BY <2>0, <2>4, <3>1, <3>2, <3>3
    <3>5. Len(started') + Len(m_queue') = submitted'
      <4>1. Len(started') = Len(started) + 1 /\ Len(m_queue') = Len(m_queue) - 1 BY <2>4, <3>1, Zenon
      <4>2. Len(started) + Len(m_queue) = submitted BY <3>3, Zenon
      <4>3. Len(started) \in Nat /\ Len(m_queue) \in Nat BY <2>0, <3>2, Zenon
      <4>4. (Len(started) + 1) + (Len(m_queue) - 1) = submitted BY <4>2, <4>3
      <4> QED BY <4>1, <4>4, <3>2, Zenon
    <3> QED BY <3>4, <3>5, Zenon DEF QueueInOrder
  <2>5. OwnTasks' BY <2>0, <2>4, SMTT(30) DEF OwnTasks, TypeOK, NoTask
  <2>6. LeaveLast' BY Zenon DEF LeaveLast, TypeOK, FlagsAgree
  <2> QED BY <2>1, <2>2, <2>3, <2>5, <2>6, Zenon
<1>4. ASSUME NEW w \in Workers, PopFails(w) \/ Sleep(w) \/ SpuriousWake(w) PROVE PoolInv'
  <2> USE <1>4 DEF PopFails, Sleep, SpuriousWake
  <2>1. TypeOK' BY Zenon DEF TypeOK, Places
  <2>2. FlagsAgree' /\ QueueInOrder' BY DEF FlagsAgree, QueueInOrder
  <2>3. OwnTasks' BY DEF OwnTasks, TypeOK
  <2>4. LeaveLast' BY Zenon DEF LeaveLast, TypeOK
  <2> QED BY <2>1, <2>2, <2>3, <2>4, Zenon
<1>5. ASSUME NEW w \in Workers, Finish(w) PROVE PoolInv'
  <2> USE <1>5 DEF Finish
  <2>1. TypeOK' BY Zenon DEF TypeOK, Places, NoTask
  <2>2. FlagsAgree' /\ QueueInOrder' BY Zenon DEF FlagsAgree, QueueInOrder
  <2>3. OwnTasks' BY DEF OwnTasks, TypeOK, NoTask
  <2>4. LeaveLast' BY Zenon DEF LeaveLast, TypeOK
  <2> QED BY <2>1, <2>2, <2>3, <2>4, Zenon
<1>6. CASE MarkDone
  BY <1>6, Zenon DEF MarkDone, TypeOK, FlagsAgree, QueueInOrder, OwnTasks, LeaveLast, Stages
<1>7. CASE invalidate
  <2> USE <1>7 DEF invalidate
  <2>1. /\ at' \in [Workers -> Places]
        /\ \A w \in Workers : at'[w] = at[w] \/ (at[w] = "asleep" /\ at'[w] = "pop")
    BY Notified, Zenon
  <2>2. TypeOK' BY <2>1, Zenon DEF TypeOK, Stages
  <2>3. FlagsAgree' /\ QueueInOrder' BY Zenon DEF FlagsAgree, QueueInOrder
  <2>4. OwnTasks' BY <2>1, Zenon DEF OwnTasks
  <2>5. LeaveLast' BY <2>1, Zenon DEF LeaveLast
  <2> QED BY <2>2, <2>3, <2>4, <2>5, Zenon
<1>8. CASE Join
  BY <1>8, Zenon DEF Join, TypeOK, FlagsAgree, QueueInOrder, OwnTasks, LeaveLast, Stages
<1>9. CASE UNCHANGED vars
  BY <1>9, Zenon DEF vars, TypeOK, FlagsAgree, QueueInOrder, OwnTasks, LeaveLast
<1> QED BY <1>1, <1>2, <1>3, <1>4, <1>5, <1>6, <1>7, <1>8, <1>9, Zenon DEF Next, Work, Stopped

(* In every state of the pool the flags, the queue and the workers agree:    *)
(* tasks leave the queue in the order of submission and have one worker each. *)
THEOREM PoolInvariance == Spec => []PoolInv
BY PoolInitInv, PoolStep, PTL DEF Spec

-----------------------------------------------------------------------------
Awake == {w \in Workers : at[w] \in {"loop", "pop"}}

(* The sets of workers are finite, with natural numbers for sizes.           *)
LEMMA AwakeFinite == IsFiniteSet(Awake) /\ Cardinality(Awake) \in Nat
BY PoolAssumption, FS_Subset, FS_CardinalityType, Zenon DEF Awake

(* One worker joins those that are awake: their number does not fall.        *)
LEMMA AwakeMore ==
  ASSUME NEW w, Awake' = Awake \cup {w}
  PROVE  /\ Cardinality(Awake') >= Cardinality(Awake)
         /\ w \notin Awake => Cardinality(Awake') = Cardinality(Awake) + 1
BY AwakeFinite, FS_AddElement

(* One worker falls asleep in wait_pop or starts a task: one less is awake.  *)
LEMMA AwakeLess ==
  ASSUME NEW w \in Awake, Awake' = Awake \ {w}
  PROVE  Cardinality(Awake') = Cardinality(Awake) - 1
BY AwakeFinite, FS_RemoveElement, Zenon

(* What a step of one worker makes of the two sets.                          *)
LEMMA OneMoves ==
  ASSUME TypeOK, NEW w \in Workers, NEW place, at' = [at EXCEPT ![w] = place]
  PROVE  /\ Awake' = IF place \in {"loop", "pop"} THEN Awake \cup {w} ELSE Awake \ {w}
         /\ Asleep' = IF place = "asleep" THEN Asleep \cup {w} ELSE Asleep \ {w}
<1>1. \A v \in Workers : at'[v] = IF v = w THEN place ELSE at[v] BY Zenon DEF TypeOK
<1>2. CASE place \in {"loop", "pop"} BY <1>1, <1>2, Zenon DEF Awake, Asleep
<1>3. CASE place \notin {"loop", "pop"} BY <1>1, <1>3, Zenon DEF Awake, Asleep
<1> QED BY <1>2, <1>3, Zenon

(* A step keeps a worker on its way for each waiting task: push adds one to  *)
(* both, wait_pop takes one from both, and a worker sleeps only when nothing *)
(* waits.                                                                    *)
LEMMA AwakeStep == PoolInv /\ AwakeForEach /\ [Next]_vars => AwakeForEach'
<1> SUFFICES ASSUME PoolInv, AwakeForEach, [Next]_vars, ~ m_done', Asleep' # {}
             PROVE  Cardinality(Awake') >= Len(m_queue')
  BY Zenon DEF AwakeForEach, Awake
<1>0. /\ TypeOK
      /\ ~ m_done => m_valid
      /\ ~ m_done /\ Asleep # {} => Cardinality(Awake) >= Len(m_queue)
      /\ Len(m_queue) \in Nat
  BY DEF PoolInv, AwakeForEach, Awake, FlagsAgree, TypeOK
<1>1. CASE submit
  <2>0. Len(m_queue') = Len(m_queue) + 1 /\ ~ m_done BY <1>0, <1>1 DEF submit, TypeOK
  <2>1. CASE Asleep = {} /\ UNCHANGED at BY <2>1, Zenon DEF Asleep
  <2>2. ASSUME NEW w \in Asleep, at' = [at EXCEPT ![w] = "pop"]
        PROVE  Cardinality(Awake') >= Len(m_queue')
    <3>1. w \notin Awake /\ w \in Workers BY Zenon DEF Awake, Asleep
    <3>2. Awake' = Awake \cup {w} BY <1>0, <2>2, <3>1, OneMoves, Zenon
    <3>3. Cardinality(Awake') = Cardinality(Awake) + 1 BY <3>1, <3>2, AwakeMore, Zenon
    <3>4. Cardinality(Awake) >= Len(m_queue) BY <1>0, <2>0, Zenon
    <3> QED BY <1>0, <2>0, <3>3, <3>4, AwakeFinite
  <2> QED BY <1>1, <2>1, <2>2, Zenon DEF submit, notify_one
<1>2. ASSUME NEW w \in Workers, CheckDone(w) PROVE Cardinality(Awake') >= Len(m_queue')
  <2>1. Awake' = Awake /\ Asleep' = Asleep /\ m_queue' = m_queue /\ ~ m_done
    <3>1. w \in Awake /\ w \notin Asleep BY <1>2, Zenon DEF CheckDone, Awake, Asleep
    <3>2. at' = [at EXCEPT ![w] = "pop"] /\ m_queue' = m_queue /\ ~ m_done BY <1>2, Zenon DEF CheckDone
    <3>3. Awake' = Awake \cup {w} /\ Asleep' = Asleep \ {w} BY <1>0, <3>2, OneMoves, Zenon
    <3> QED BY <3>1, <3>2, <3>3, Zenon
  <2> QED BY <1>0, <2>1, Zenon
<1>3. ASSUME NEW w \in Workers, Pop(w) PROVE Cardinality(Awake') >= Len(m_queue')
  <2>1. Awake' = Awake \ {w} /\ w \in Awake /\ Asleep' = Asleep /\ ~ m_done
    <3>1. w \in Awake /\ w \notin Asleep BY <1>3, Zenon DEF Pop, Awake, Asleep
    <3>2. at' = [at EXCEPT ![w] = "running"] /\ ~ m_done BY <1>3, Zenon DEF Pop
    <3>3. \A v \in Workers : at'[v] = IF v = w THEN "running" ELSE at[v]
      BY <1>0, <3>2, Zenon DEF TypeOK
    <3>4. Awake' = Awake \ {w} /\ Asleep' = Asleep \ {w} BY <3>3, Zenon DEF Awake, Asleep
    <3> QED BY <3>1, <3>2, <3>4, Zenon
  <2>2. Len(m_queue') = Len(m_queue) - 1 BY <1>0, <1>3 DEF Pop, TypeOK
  <2>3. Cardinality(Awake') = Cardinality(Awake) - 1 BY <2>1, AwakeLess, Zenon
  <2>4. Cardinality(Awake) >= Len(m_queue) BY <1>0, <2>1, Zenon
  <2> QED BY <1>0, <2>2, <2>3, <2>4, AwakeFinite
<1>4. ASSUME NEW w \in Workers, PopFails(w) PROVE Cardinality(Awake') >= Len(m_queue')
  BY <1>0, <1>4, Zenon DEF PopFails
<1>5. ASSUME NEW w \in Workers, Sleep(w) PROVE Cardinality(Awake') >= Len(m_queue')
  <2>1. Len(m_queue') = 0 BY <1>5, Zenon DEF Sleep
  <2>2. Awake' = Awake \ {w} BY <1>0, <1>5, OneMoves, Zenon DEF Sleep
  <2>3. IsFiniteSet(Awake') BY <2>2, AwakeFinite, FS_RemoveElement, Zenon
  <2> QED BY <2>1, <2>3, FS_CardinalityType
<1>6. ASSUME NEW w \in Workers, SpuriousWake(w) \/ Finish(w)
      PROVE  Cardinality(Awake') >= Len(m_queue')
  <2>1. Awake' = Awake \cup {w} /\ m_queue' = m_queue /\ ~ m_done /\ Asleep # {}
    <3>1. /\ at' = [at EXCEPT ![w] = "pop"] \/ at' = [at EXCEPT ![w] = "loop"]
          /\ m_queue' = m_queue /\ ~ m_done
      BY <1>6 DEF SpuriousWake, Finish
    <3> QED BY <1>0, <3>1, OneMoves, Zenon
  <2>2. Cardinality(Awake') >= Cardinality(Awake) BY <2>1, AwakeMore, Zenon
  <2>3. IsFiniteSet(Awake') BY <2>1, AwakeFinite, FS_AddElement, Zenon
  <2> QED BY <1>0, <2>1, <2>2, <2>3, AwakeFinite, FS_CardinalityType
<1>7. CASE MarkDone BY <1>7, Zenon DEF MarkDone
<1>8. CASE invalidate BY <1>8, Zenon DEF invalidate, PoolInv, FlagsAgree
<1>9. CASE Join BY <1>9, Zenon DEF Join, PoolInv, FlagsAgree
<1>10. CASE UNCHANGED vars BY <1>0, <1>10, Zenon DEF vars, Awake, Asleep
<1> QED BY <1>1, <1>2, <1>3, <1>4, <1>5, <1>6, <1>7, <1>8, <1>9, <1>10, Zenon DEF Next, Work, Stopped

(* No wake-up of the pool is lost: while workers sleep and the pool is not   *)
(* stopped, there is for each waiting task one that will look for it.        *)
THEOREM NoWakeupLost == Spec => []AwakeForEach
<1>1. Init => AwakeForEach
  BY Zenon DEF Init, AwakeForEach, Asleep
<1> QED BY <1>1, AwakeStep, PoolInvariance, PTL DEF Spec

-----------------------------------------------------------------------------
Running == {task[w] : w \in Workers} \ {NoTask}

(* A task that runs has one worker, which is in the midst of execute().      *)
LEMMA RunningHasWorker ==
  ASSUME PoolInv
  PROVE  \A x : x \in Running <=> \E w \in Workers : at[w] = "running" /\ task[w] = x
BY DEF PoolInv, OwnTasks, NoTask, Running

(* While a worker is at wait_pop, fewer tasks run than there are workers.    *)
LEMMA RoomForOne ==
  ASSUME PoolInv, NEW w \in Workers, at[w] # "running"
  PROVE  Cardinality(Running) < Cardinality(Workers)
<1> DEFINE Busy == {v \in Workers : at[v] = "running"}
           f == [v \in Busy |-> task[v]]
<1>1. f \in Surjection(Busy, Running) BY RunningHasWorker, Zenon DEF Surjection
<1>2. Busy \in SUBSET Workers /\ Busy # Workers BY Zenon
<1> HIDE DEF Busy, f
<1>3. IsFiniteSet(Busy) /\ Cardinality(Busy) <= Cardinality(Workers)
      /\ Cardinality(Busy) # Cardinality(Workers)
  BY <1>2, PoolAssumption, FS_Subset, Zenon
<1>4. IsFiniteSet(Running) /\ Cardinality(Running) <= Cardinality(Busy) BY <1>1, <1>3, FS_Surjection, Zenon
<1>5. /\ Cardinality(Running) \in Nat /\ Cardinality(Busy) \in Nat
      /\ Cardinality(Workers) \in Nat
  BY <1>3, <1>4, PoolAssumption, FS_CardinalityType, Zenon
<1> QED BY <1>3, <1>4, <1>5

(* wait_pop takes the next task in the order of submission.                  *)
LEMMA PopTakes == ASSUME PoolInv, NEW w \in Workers, Pop(w) PROVE Pool!take
<1> USE DEF Pop, PoolInv
<1>1. Head(m_queue) = Len(started) + 1 /\ Len(m_queue) \in Nat \ {0} /\ Len(started) \in Nat
  BY DEF QueueInOrder, TypeOK
<1>2. Len(started) < submitted BY <1>1 DEF QueueInOrder
<1>3. Len(started') = Len(started) + 1 BY <1>1 DEF TypeOK
<1>4. task[w] = NoTask BY Zenon DEF OwnTasks
<1>5. \A v \in Workers : task'[v] = IF v = w THEN Len(started) + 1 ELSE task[v]
  BY <1>1, Zenon DEF TypeOK
<1>6. Running' = Running \cup {Len(started) + 1}
  <2>1. Len(started) + 1 # NoTask BY <1>1 DEF NoTask
  <2> HIDE DEF Pop
  <2> QED BY <1>4, <1>5, <2>1, Zenon DEF Running
<1>7. Cardinality(Running) < Cardinality(Workers) BY RoomForOne, Zenon
<1>9. Pool!Cardinality(Running) = Cardinality(Running) BY Zenon DEF Pool!Cardinality, Cardinality
<1>8. stopping \in {"no", "marked"} /\ UNCHANGED <<submitted, stopping>> BY Zenon DEF FlagsAgree
<1> HIDE DEF Pop, PoolInv
<1> QED BY <1>2, <1>3, <1>6, <1>7, <1>8, <1>9, Zenon DEF Pool!take, Running

(* When execute() returns, exactly the worker's own task has ended.          *)
LEMMA FinishEnds ==
  ASSUME PoolInv, NEW w \in Workers, Finish(w) PROVE \E x \in 1 .. MaxTasks : Pool!finish(x)
<1> USE DEF Finish, PoolInv
<1>1. task[w] \in 1 .. Len(started) /\ Len(started) \in Nat BY DEF OwnTasks, TypeOK
<1>2. Len(started) =< MaxTasks BY <1>1, PoolAssumption DEF QueueInOrder, TypeOK
<1>3. task[w] \in 1 .. MaxTasks /\ task[w] # NoTask BY <1>1, <1>2, PoolAssumption DEF NoTask
<1>4. \A v \in Workers : task'[v] = IF v = w THEN NoTask ELSE task[v] BY Zenon DEF TypeOK
<1>5. \A v \in Workers : v # w => task[v] # task[w] BY Zenon DEF OwnTasks
<1>6. task[w] \in Running /\ Running' = Running \ {task[w]}
  <2> HIDE DEF Finish, PoolInv
  <2> QED BY <1>3, <1>4, <1>5, Zenon DEF Running
<1>7. UNCHANGED <<submitted, started, stopping>> BY Zenon
<1>8. Pool!finish(task[w]) 
  <2> HIDE DEF Finish, PoolInv
  <2> QED BY <1>6, <1>7, Zenon DEF Pool!finish, Running
<1> HIDE DEF Finish, PoolInv
<1> QED BY <1>3, <1>8, Zenon DEF Pool!finish

(* Every step of the pool is a step that TaskPool allows or is not seen there. *)
LEMMA PoolRefines == PoolInv /\ [Next]_vars => [Pool!PoolNext]_(Pool!poolVars)
<1> SUFFICES ASSUME PoolInv, [Next]_vars PROVE [Pool!PoolNext]_(Pool!poolVars) BY Zenon
<1> USE DEF Pool!PoolNext
<1>1. CASE submit BY <1>1, Zenon DEF submit, Pool!submit
<1>2. ASSUME NEW w \in Workers, CheckDone(w) \/ PopFails(w) \/ Sleep(w) \/ SpuriousWake(w)
      PROVE  UNCHANGED Pool!poolVars
  BY <1>2, Zenon DEF CheckDone, PopFails, Sleep, SpuriousWake, Pool!poolVars
<1>3. ASSUME NEW w \in Workers, Pop(w) PROVE Pool!PoolNext BY <1>3, PopTakes, Zenon
<1>4. ASSUME NEW w \in Workers, Finish(w) PROVE Pool!PoolNext BY <1>4, FinishEnds, Zenon
<1>5. CASE MarkDone BY <1>5, Zenon DEF MarkDone, Pool!stop
<1>6. CASE invalidate BY <1>6, Zenon DEF invalidate, Pool!stop
<1>7. CASE Join
  <2>1. Running = {} BY <1>7, RunningHasWorker, Zenon DEF Join
  <2> QED BY <1>7, <2>1, Zenon DEF Join, Pool!stop, Running
<1>8. CASE UNCHANGED vars BY <1>8, Zenon DEF vars, Pool!poolVars
<1> QED BY <1>1, <1>2, <1>3, <1>4, <1>5, <1>6, <1>7, <1>8, Zenon DEF Next, Work, Stopped

(* The pool implements the safety part of TaskPool, on which the model of    *)
(* the daemon's API is built, for any number of workers and tasks: a task is *)
(* taken once and in order, at most one per worker runs, and stop() returns  *)
(* only when none does.                                                      *)
THEOREM PoolImplements == Spec => Pool!PoolSafety
<1>1. Init => Pool!PoolInit
  BY PoolAssumption, Zenon DEF Init, Pool!PoolInit, NoTask
<1> QED BY <1>1, PoolRefines, PoolInvariance, PTL DEF Spec, Pool!PoolSafety

-----------------------------------------------------------------------------
(***************************************************************************)
(* The parts of a segment.                                                 *)
(***************************************************************************)
CONSTANTS Segments, Sizes, m_length, m_size_of_segment, NVML_MAPPINGS,
          SourceSizes, SegmentSize, NVML_TRANSFER_SIZE,
          Sources, Dests, Chunk

VARIABLES m_init, m_address, m_offset, m_bitset, making, m_data, terminated,
          source, is_pmem, memory, total, filling, undrained,
          srcv, dstv, copied, pc, len, part, res, via, tmp, lost, out, short

P == INSTANCE BigPool
F == INSTANCE SegmentFill
C == INSTANCE BufCopy WITH at <- pc

-----------------------------------------------------------------------------
(***************************************************************************)
(* Naturals.                                                               *)
(***************************************************************************)
\* A non-empty set of naturals has a least element.
LEMMA LeastNat ==
  ASSUME NEW S, S \subseteq Nat, S # {}
  PROVE  \E m \in S : \A y \in S : m <= y
<1> DEFINE R == {ss \in Nat \X Nat : ss[1] < ss[2]}
<1>1. IsWellFoundedOn(R, Nat)
  BY NatLessThanWellFounded, Zenon DEF OpToRel
<1>2. \A x, y \in Nat : <<y, x>> \in R <=> y < x
  BY Zenon
<1> HIDE DEF R
<1>3. PICK x \in S : \A y \in S : ~ (<<y, x>> \in R)
  BY <1>1, WFMin, Zenon
<1>4. ASSUME NEW y \in S PROVE x <= y
  <2>1. x \in Nat /\ y \in Nat
    BY Zenon
  <2>2. ~ (y < x)
    BY <1>2, <1>3, <2>1, Zenon
  <2> QED BY <2>1, <2>2
<1> QED BY <1>4, Zenon

\* The bytes in front of a slot, cut in slots, are the slots in front of it.
LEMMA Product ==
  ASSUME NEW a \in Nat, NEW d \in Nat \ {0}
  PROVE  a * d \in Nat /\ (a * d) \div d = a
  OBVIOUS

\* A later slot does not begin earlier.
LEMMA Monotone ==
  ASSUME NEW a \in Nat, NEW b \in Nat, NEW d \in Nat, a <= b
  PROVE  a * d <= b * d
  OBVIOUS

\* The whole slots of a length lie inside of it.
LEMMA Quotient ==
  ASSUME NEW a \in Nat, NEW d \in Nat \ {0}
  PROVE  a \div d \in Nat /\ (a \div d) * d <= a
  OBVIOUS

\* Slots that follow each other take bytes that follow each other.
LEMMA Distribute ==
  ASSUME NEW a \in Nat, NEW b \in Nat, NEW d \in Nat
  PROVE  (a + b) * d = a * d + b * d
  OBVIOUS

\* A length without a rest is made of whole slots.
LEMMA Whole ==
  ASSUME NEW a \in Nat, NEW d \in Nat \ {0}, a % d = 0
  PROVE  (a \div d) * d = a
  OBVIOUS

-----------------------------------------------------------------------------
(***************************************************************************)
(* The allocator of the device.                                            *)
(***************************************************************************)
\* The first slot in use of those a segment would take is one of them.
LEMMA TakenIn ==
  ASSUME NEW j \in Nat, NEW n \in Nat, ~ P!Free(j, n)
  PROVE  P!FirstTaken(j, n) \in P!SlotsFrom(j, n)
<1> DEFINE S == P!SlotsFrom(j, n) \cap m_bitset
<1>1. S \subseteq Nat /\ S # {}
  BY DEF P!Free, P!SlotsFrom
<1>2. PICK i \in S : \A k \in S : i <= k
  BY <1>1, LeastNat, Zenon
<1>3. P!FirstTaken(j, n) = CHOOSE x \in S : \A k \in S : x <= k
  BY Zenon DEF P!FirstTaken
<1> HIDE DEF S
<1>4. P!FirstTaken(j, n) \in S
  BY <1>2, <1>3, Zenon
<1> QED BY <1>4, Zenon DEF S

\* Where all slots are free and inside of the device.
Place(j, n) == j \in Nat /\ P!Fits(j, n) /\ P!Free(j, n)

\* The search from the first slot ends, with no place, behind the last bit, or with a
\* place.
LEMMA ScanFinds ==
  ASSUME P!m_NVML_MAPPINGS \in Nat, NEW n \in Nat
  PROVE  P!scan(n) \in {P!NULL, P!OUT_OF_RANGE} \/ Place(P!scan(n), n)
<1> DEFINE M == P!m_NVML_MAPPINGS
           End(j) == j >= M \/ ~ P!Fits(j, n)
           Then(j) == P!FirstTaken(j, n) + 2
           from(g, j) == IF End(j) THEN P!NULL
                         ELSE IF P!Free(j, n) THEN P!Tested(j, n) ELSE g[Then(j)]
           Sound(k, g) == g = [j \in k .. M + 1 |-> from(g, j)]
           scan == CHOOSE g : Sound(0, g)
<1>1. P!scan(n) = scan[0]
  BY Zenon DEF P!scan
<1>2. ASSUME NEW j \in 0 .. M + 1, ~ End(j), ~ P!Free(j, n)
      PROVE  Then(j) \in j + 1 .. M + 1
  BY <1>2, TakenIn DEF P!SlotsFrom, P!Fits
<1>3. ASSUME NEW j \in 0 .. M + 1, NEW g, NEW h, End(j) \/ P!Free(j, n) \/ g[Then(j)] = h[Then(j)]
      PROVE  from(g, j) = from(h, j)
  BY <1>3, Zenon
<1>4. ASSUME NEW j \in 0 .. M + 1, NEW g
      PROVE  \/ from(g, j) \in {P!NULL, P!OUT_OF_RANGE}
             \/ from(g, j) = j /\ P!Fits(j, n) /\ P!Free(j, n)
             \/ from(g, j) = g[Then(j)] /\ Then(j) \in j + 1 .. M + 1
  BY <1>2, Zenon DEF P!Tested
<1>5. \A g : from(g, M + 1) = P!NULL
  BY SMT
<1> HIDE DEF from, End, Then
<1>6. ASSUME NEW k \in 0 .. M, NEW g, Sound(k + 1, g) PROVE \E h : Sound(k, h)
  <2> DEFINE h == [j \in k .. M + 1 |-> IF j = k THEN from(g, k) ELSE g[j]]
  <2>1. \A j \in k + 1 .. M + 1 : j \in k .. M + 1 /\ j # k /\ h[j] = g[j] /\ g[j] = from(g, j)
    BY <1>6, SMTT(30)
  <2>2. k \in k .. M + 1 /\ h[k] = from(g, k)
    BY SMT
  <2> HIDE DEF h
  <2>3. ASSUME NEW j \in k .. M + 1 PROVE from(g, j) = from(h, j)
    <3>1. j \in 0 .. M + 1 /\ j + 1 .. M + 1 \subseteq k + 1 .. M + 1
      BY SMT
    <3> QED BY <1>2, <1>3, <2>1, <3>1, Zenon
  <2>4. \A j \in k .. M + 1 : h[j] = from(h, j)
    <3>1. \A j \in k .. M + 1 : j = k \/ j \in k + 1 .. M + 1
      BY SMT
    <3> QED BY <2>1, <2>2, <2>3, <3>1, Zenon
  <2>5. h = [j \in k .. M + 1 |-> h[j]]
    BY Zenon DEF h
  <2> QED BY <2>4, <2>5, Zenon
<1>7. \E g : Sound(0, g)
  <2> DEFINE K == {k \in 0 .. M + 1 : \E g : Sound(k, g)}
  <2>1. M + 1 \in K
    <3> DEFINE g == [j \in M + 1 .. M + 1 |-> P!NULL]
    <3>1. \A j \in M + 1 .. M + 1 : from(g, j) = P!NULL
      BY <1>5
    <3>2. Sound(M + 1, g)
      BY <3>1, Zenon
    <3>3. M + 1 \in 0 .. M + 1
      BY SMT
    <3> QED BY <3>2, <3>3, Zenon
  <2>2. K \subseteq Nat
    BY SMT
  <2>3. PICK k \in K : \A y \in K : k <= y
    BY <2>1, <2>2, LeastNat, Zenon
  <2>4. ASSUME k # 0 PROVE FALSE
    <3>1. k - 1 \in 0 .. M /\ k - 1 + 1 = k /\ k - 1 \in 0 .. M + 1
      BY <2>4 DEF K
    <3>2. PICK g : Sound(k - 1 + 1, g)
      BY <3>1, Zenon
    <3>3. k - 1 \in K
      BY <1>6, <3>1, <3>2, Zenon
    <3>4. k <= k - 1
      BY <2>3, <3>3, Zenon
    <3> QED BY <3>1, <3>4
  <2> QED BY <2>3, <2>4, Zenon
<1>8. Sound(0, scan)
  BY <1>7, Zenon
<1>9. \A j \in 0 .. M + 1 : scan[j] = from(scan, j)
  BY <1>8, Zenon
<1> HIDE DEF scan
<1> DEFINE Good(x) == x \in {P!NULL, P!OUT_OF_RANGE} \/ Place(x, n)
           B == {M + 1 - j : j \in {i \in 0 .. M + 1 : ~ Good(scan[i])}}
<1>10. ASSUME B # {} PROVE FALSE
  <2>1. B \subseteq Nat
    BY SMT
  <2>2. PICK d \in B : \A y \in B : d <= y
    BY <1>10, <2>1, LeastNat, Zenon
  <2>3. PICK j \in 0 .. M + 1 : ~ Good(scan[j]) /\ d = M + 1 - j
    BY <2>2, Zenon
  <2>4. ASSUME Then(j) \in j + 1 .. M + 1 PROVE Good(scan[Then(j)])
    <3>1. Then(j) \in 0 .. M + 1 /\ ~ (d <= M + 1 - Then(j))
      BY <2>3, <2>4
    <3>2. ASSUME ~ Good(scan[Then(j)]) PROVE M + 1 - Then(j) \in B
      BY <3>1, <3>2, Zenon
    <3> HIDE DEF B
    <3> QED BY <2>2, <3>1, <3>2, Zenon
  <2>5. j \in Nat
    BY SMT
  <2>6. \/ scan[j] \in {P!NULL, P!OUT_OF_RANGE}
        \/ scan[j] = j /\ P!Fits(j, n) /\ P!Free(j, n)
        \/ scan[j] = scan[Then(j)] /\ Then(j) \in j + 1 .. M + 1
    <3>1. scan[j] = from(scan, j)
      BY <1>9, Zenon
    <3> QED BY <1>4, <3>1, Zenon
  <2>7. scan[j] = j /\ P!Fits(j, n) /\ P!Free(j, n) => Good(scan[j])
    BY <2>5, Zenon DEF Place
  <2>8. scan[j] = scan[Then(j)] /\ Then(j) \in j + 1 .. M + 1 => Good(scan[j])
    BY <2>4, Zenon
  <2> QED BY <2>3, <2>6, <2>7, <2>8, Zenon
<1>11. 0 \in 0 .. M + 1
  BY SMT
<1>12. Good(scan[0])
  BY <1>10, <1>11, Zenon
<1> QED BY <1>1, <1>12, Zenon

\* Segments of any size, on a device and with a bitset of any size.
DeviceConstants ==
  /\ m_size_of_segment \in Nat \ {0} /\ m_length \in Nat /\ NVML_MAPPINGS \in Nat
  /\ Sizes \subseteq Nat

InUse(s) == m_data[s] # P!NoAddress
Start(s) == m_data[s].at \div m_size_of_segment
Count(s) == P!slots(m_data[s].length)

\* A segment in use begins at a slot, its whole slots are inside of the device and
\* marked, and no other segment has any of them.
DeviceInv ==
  /\ m_offset \in Nat /\ DOMAIN m_data = Segments
  /\ \A s \in Segments : InUse(s) =>
       /\ Start(s) \in Nat /\ Count(s) \in Nat
       /\ m_data[s].at = Start(s) * m_size_of_segment /\ m_data[s].length \in Nat
       /\ Start(s) + Count(s) < P!m_NVML_MAPPINGS
       /\ P!SlotsOf(s) \subseteq m_bitset
  /\ \A s, t \in Segments : InUse(s) /\ InUse(t) /\ s # t => P!SlotsOf(s) \cap P!SlotsOf(t) = {}

\* The slots of a segment in terms of its first one and their number.
LEMMA SlotsRun == \A s : P!SlotsOf(s) = P!SlotsFrom(Start(s), Count(s))
  BY Zenon DEF P!SlotsOf, Start, Count

\* Where the next search begins is a slot or the first one behind the device.
LEMMA NextOffset ==
  ASSUME DeviceConstants, m_offset \in Nat, NEW start, start = P!NULL \/ start \in Nat,
         NEW n \in Nat
  PROVE  P!next_offset(start, n) \in Nat
  BY SMT DEF P!next_offset, P!NULL

\* A segment goes where the slots are free and inside of the device, or nowhere.
LEMMA PlaceFree ==
  ASSUME DeviceConstants, m_offset \in Nat, NEW n \in Nat
  PROVE  P!place(n) \in {P!NULL, P!OUT_OF_RANGE} \/ Place(P!place(n), n)
<1>1. P!m_NVML_MAPPINGS \in Nat
  BY Quotient, Zenon DEF DeviceConstants, P!m_NVML_MAPPINGS
<1> QED BY <1>1, ScanFinds, Zenon DEF P!place, P!Tested, Place

\* A step that leaves every segment and all marked slots as they are.
LEMMA DeviceStays ==
  ASSUME DeviceInv, m_offset' \in Nat, UNCHANGED <<m_bitset, m_data>>
  PROVE  DeviceInv'
  BY Zenon
  DEF DeviceInv, InUse, Start, Count, P!SlotsOf, P!SlotsFrom, P!slots, P!m_NVML_MAPPINGS, P!NoAddress

\* A segment that is allocated takes slots that nobody has.
LEMMA AllocateStep ==
  ASSUME DeviceConstants, DeviceInv, NEW s \in Segments, NEW size \in Sizes, P!allocate(s, size)
  PROVE  DeviceInv'
<1> DEFINE n == P!slots(size)
           k == P!place(n)
           d == [map |-> m_address, at |-> k * m_size_of_segment, length |-> size]
<1>1. /\ m_data[s] = P!NoAddress /\ k # P!OUT_OF_RANGE
      /\ m_data' = [m_data EXCEPT ![s] = IF k = P!NULL THEN P!NoAddress ELSE d]
      /\ m_bitset' = IF k = P!NULL THEN m_bitset ELSE m_bitset \cup P!SlotsFrom(k, n)
      /\ m_offset' = P!next_offset(k, n)
  BY Zenon DEF P!allocate
<1>2. n \in Nat /\ size \in Nat
  BY Quotient, Zenon DEF DeviceConstants, P!slots
<1>3. k = P!NULL \/ Place(k, n)
  BY <1>1, <1>2, PlaceFree, Zenon DEF DeviceInv
<1>4. m_offset' \in Nat
  BY <1>1, <1>2, <1>3, NextOffset, Zenon DEF DeviceInv, Place
<1>5. d.at = k * m_size_of_segment /\ d.length = size
  BY Zenon
<1> HIDE DEF k, n, d
<1>6. CASE k = P!NULL
  <2>1. \A t \in Segments : m_data'[t] = m_data[t]
    BY <1>1, <1>6, Zenon DEF DeviceInv
  <2>2. DOMAIN m_data' = Segments /\ m_bitset' = m_bitset
    BY <1>1, <1>6, Zenon DEF DeviceInv
  <2>3. \A t \in Segments : /\ InUse(t)' <=> InUse(t)
                           /\ Start(t)' = Start(t) /\ Count(t)' = Count(t)
                           /\ P!SlotsOf(t)' = P!SlotsOf(t)
    BY <2>1, Zenon DEF InUse, Start, Count, P!SlotsOf, P!SlotsFrom, P!slots, P!NoAddress
  <2> QED BY <1>4, <2>1, <2>2, <2>3, Zenon DEF DeviceInv, P!m_NVML_MAPPINGS
<1>7. CASE k # P!NULL
  <2>1. k \in Nat /\ P!Fits(k, n) /\ P!Free(k, n)
    BY <1>3, <1>7, Zenon DEF Place
  <2>2. /\ DOMAIN m_data' = Segments /\ m_data'[s] = d
        /\ \A t \in Segments : t # s => m_data'[t] = m_data[t]
        /\ m_bitset' = m_bitset \cup P!SlotsFrom(k, n)
    BY <1>1, <1>7, Zenon DEF DeviceInv
  <2>3. \A t \in Segments : t # s => /\ InUse(t)' <=> InUse(t)
                                    /\ Start(t)' = Start(t) /\ Count(t)' = Count(t)
                                    /\ P!SlotsOf(t)' = P!SlotsOf(t)
    BY <2>2, Zenon DEF InUse, Start, Count, P!SlotsOf, P!SlotsFrom, P!slots, P!NoAddress
  <2>4. ASSUME NEW t \in Segments, t # s, InUse(t)'
        PROVE  /\ Start(t)' \in Nat /\ Count(t)' \in Nat
               /\ m_data'[t].at = Start(t)' * m_size_of_segment /\ m_data'[t].length \in Nat
               /\ Start(t)' + Count(t)' < P!m_NVML_MAPPINGS
               /\ P!SlotsOf(t)' \subseteq m_bitset'
               /\ P!SlotsOf(t)' \cap P!SlotsFrom(k, n) = {}
    BY <2>1, <2>2, <2>3, <2>4, ZenonT(60) DEF DeviceInv, P!Free
  <2>5. Start(s)' = k /\ Count(s)' = n
    <3>1. (k * m_size_of_segment) \div m_size_of_segment = k
      BY <2>1, Product, Zenon DEF DeviceConstants
    <3> QED BY <1>5, <2>2, <3>1, Zenon DEF Start, Count, n, P!slots
  <2>6. P!SlotsOf(s)' = P!SlotsFrom(k, n)
    BY <2>2, <2>5, Zenon DEF Start, Count, P!SlotsOf, P!SlotsFrom
  <2>7. k + n < P!m_NVML_MAPPINGS
    BY <1>2, <2>1 DEF P!Fits
  <2>8. ASSUME NEW t \in Segments, NEW u \in Segments, InUse(t)', InUse(u)', t # u
        PROVE  P!SlotsOf(t)' \cap P!SlotsOf(u)' = {}
    <3>1. CASE t # s /\ u # s
      BY <2>3, <2>8, <3>1, Zenon DEF DeviceInv
    <3>2. CASE t = s
      BY <2>4, <2>6, <2>8, <3>2, Zenon
    <3>3. CASE u = s
      BY <2>4, <2>6, <2>8, <3>3, Zenon
    <3> QED BY <3>1, <3>2, <3>3, Zenon
  <2>9. m_data'[s].at = Start(s)' * m_size_of_segment /\ m_data'[s].length \in Nat
    BY <1>2, <1>5, <2>2, <2>5, Zenon
  <2> QED
    BY <1>2, <1>4, <2>1, <2>2, <2>4, <2>5, <2>6, <2>7, <2>8, <2>9, ZenonT(60)
    DEF DeviceInv, P!m_NVML_MAPPINGS
<1> QED BY <1>6, <1>7, Zenon

\* A segment that is given back frees its own slots, and none of another one; one
\* whose address is forgotten, or is in an earlier mapping, frees none.
LEMMA GiveBackStep ==
  ASSUME DeviceConstants, DeviceInv, NEW s \in Segments, P!deallocate(s) \/ P!forget(s)
  PROVE  DeviceInv'
<1>1. m_data' = [m_data EXCEPT ![s] = P!NoAddress] /\ UNCHANGED m_offset
  BY Zenon DEF P!deallocate, P!forget
<1>2. /\ DOMAIN m_data' = Segments /\ m_data'[s] = P!NoAddress
      /\ \A t \in Segments : t # s => m_data'[t] = m_data[t]
  BY <1>1, Zenon DEF DeviceInv
<1>3. \A t \in Segments : t # s => /\ InUse(t)' <=> InUse(t)
                                  /\ Start(t)' = Start(t) /\ Count(t)' = Count(t)
                                  /\ P!SlotsOf(t)' = P!SlotsOf(t)
  BY <1>2, Zenon DEF InUse, Start, Count, P!SlotsOf, P!SlotsFrom, P!slots, P!NoAddress
<1>4. ~ InUse(s)'
  BY <1>2, Zenon DEF InUse, P!NoAddress
<1>5. \/ m_bitset' = m_bitset
      \/ InUse(s) /\ \A i \in m_bitset : i \notin P!SlotsOf(s) => i \in m_bitset'
  <2> DEFINE Freed == {(m_data[s].at + i * m_size_of_segment) \div m_size_of_segment :
                       i \in 0 .. P!slots(m_data[s].length) - 1}
  <2>1. m_bitset' = m_bitset \/ (InUse(s) /\ m_bitset' = m_bitset \ Freed)
    BY Zenon DEF P!deallocate, P!forget, InUse
  <2>2. ASSUME InUse(s) PROVE Freed \subseteq P!SlotsOf(s)
    <3>1. Start(s) \in Nat /\ Count(s) \in Nat /\ m_data[s].at = Start(s) * m_size_of_segment
      BY <2>2, Zenon DEF DeviceInv
    <3>2. ASSUME NEW i \in 0 .. Count(s) - 1
          PROVE  (m_data[s].at + i * m_size_of_segment) \div m_size_of_segment = Start(s) + i
      <4>1. i \in Nat /\ Start(s) + i \in Nat
        BY <3>1
      <4>2. m_data[s].at + i * m_size_of_segment = (Start(s) + i) * m_size_of_segment
        <5>1. m_size_of_segment \in Nat
          BY Zenon DEF DeviceConstants
        <5>2. (Start(s) + i) * m_size_of_segment = Start(s) * m_size_of_segment + i * m_size_of_segment
          BY <3>1, <4>1, <5>1, Distribute, ZenonT(60)
        <5> QED BY <3>1, <5>2, Zenon
      <4> QED BY <4>1, <4>2, Product, Zenon DEF DeviceConstants
    <3>3. Freed = {Start(s) + i : i \in 0 .. Count(s) - 1}
      BY <3>2, Zenon DEF Count
    <3>4. Freed \subseteq P!SlotsFrom(Start(s), Count(s))
      BY <3>1, <3>3, SMTT(30) DEF P!SlotsFrom
    <3> QED BY <3>4, SlotsRun, Zenon
  <2> HIDE DEF Freed
  <2> QED BY <2>1, <2>2, Zenon
<1>6. ASSUME NEW t \in Segments, t # s, InUse(t)' PROVE P!SlotsOf(t)' \subseteq m_bitset'
  BY <1>3, <1>5, <1>6, ZenonT(60) DEF DeviceInv
<1> QED BY <1>1, <1>2, <1>3, <1>4, <1>6, Zenon DEF DeviceInv, P!m_NVML_MAPPINGS

\* Two runs of slots without a common one follow each other.
LEMMA IntervalsApart ==
  ASSUME NEW a \in Nat, NEW n \in Nat, NEW b \in Nat, NEW k \in Nat,
         P!SlotsFrom(a, n) \cap P!SlotsFrom(b, k) = {}
  PROVE  n = 0 \/ k = 0 \/ a + n <= b \/ b + k <= a
<1> SUFFICES ASSUME n # 0, k # 0, a + n > b, b + k > a PROVE FALSE
  OBVIOUS
<1>1. CASE a <= b
  <2>1. b \in P!SlotsFrom(a, n) /\ b \in P!SlotsFrom(b, k)
    BY <1>1 DEF P!SlotsFrom
  <2> QED BY <2>1, Zenon
<1>2. CASE b <= a
  <2>1. a \in P!SlotsFrom(a, n) /\ a \in P!SlotsFrom(b, k)
    BY <1>2 DEF P!SlotsFrom
  <2> QED BY <2>1, Zenon
<1> QED BY <1>1, <1>2, SMTT(30)

\* A segment of whole slots ends where its last slot does.
LEMMA WholeEnd ==
  ASSUME DeviceConstants, DeviceInv, NEW s \in Segments, InUse(s), P!Whole(s)
  PROVE  /\ m_data[s].at \in Nat /\ m_data[s].length \in Nat
         /\ m_data[s].length = Count(s) * m_size_of_segment
         /\ m_data[s].at + m_data[s].length = (Start(s) + Count(s)) * m_size_of_segment
<1>1. /\ Start(s) \in Nat /\ Count(s) \in Nat
      /\ m_data[s].at = Start(s) * m_size_of_segment /\ m_data[s].length \in Nat
  BY Zenon DEF DeviceInv
<1>2. m_size_of_segment \in Nat \ {0} /\ m_size_of_segment \in Nat
  BY Zenon DEF DeviceConstants
<1>3. m_data[s].length = Count(s) * m_size_of_segment
  BY <1>1, <1>2, Whole, Zenon DEF P!Whole, Count, P!slots
<1>4. (Start(s) + Count(s)) * m_size_of_segment = Start(s) * m_size_of_segment + Count(s) * m_size_of_segment
  BY <1>1, <1>2, Distribute, ZenonT(60)
<1>5. m_data[s].at \in Nat
  BY <1>1, <1>2, Product, Zenon
<1> QED BY <1>1, <1>3, <1>4, <1>5, Zenon

\* Segments whose slots are apart have their bytes apart, and slots inside of the
\* device are bytes inside of it.
LEMMA BytesApart ==
  ASSUME DeviceConstants, DeviceInv
  PROVE  P!NoOverlap
<1>1. ASSUME NEW s \in P!Live
      PROVE  /\ s \in Segments /\ InUse(s) /\ Start(s) \in Nat /\ Count(s) \in Nat
             /\ m_data[s].at = Start(s) * m_size_of_segment /\ m_data[s].length \in Nat
             /\ Start(s) + Count(s) < P!m_NVML_MAPPINGS
             /\ P!SlotsOf(s) \subseteq m_bitset
  <2>1. s \in Segments /\ InUse(s)
    BY Zenon DEF P!Live, InUse
  <2> QED BY <2>1, Zenon DEF DeviceInv
<1>2. m_size_of_segment \in Nat \ {0} /\ m_size_of_segment \in Nat /\ m_length \in Nat
  BY Zenon DEF DeviceConstants
<1>3. P!m_NVML_MAPPINGS \in Nat /\ P!m_NVML_MAPPINGS * m_size_of_segment <= m_length
  BY <1>2, Quotient, Zenon DEF P!m_NVML_MAPPINGS
<1>4. ASSUME NEW s \in P!Live PROVE P!SlotsOf(s) \subseteq m_bitset \cap 0 .. P!m_NVML_MAPPINGS - 1
  <2>1. P!SlotsFrom(Start(s), Count(s)) \subseteq 0 .. P!m_NVML_MAPPINGS - 1
    BY <1>1, <1>3, SMTT(30) DEF P!SlotsFrom
  <2> QED BY <1>1, <2>1, SlotsRun, Zenon
<1>5. ASSUME NEW s \in P!Live, NEW t \in P!Live, s # t PROVE P!SlotsOf(s) \cap P!SlotsOf(t) = {}
  BY <1>1, <1>5, Zenon DEF DeviceInv
<1>6. ASSUME NEW s \in P!Live, P!Whole(s) PROVE P!Extent(s) \subseteq 0 .. m_length - 1
  <2> DEFINE e == Start(s) + Count(s)
  <2>1. /\ m_data[s].at \in Nat /\ m_data[s].length \in Nat
        /\ m_data[s].at + m_data[s].length = e * m_size_of_segment
    BY <1>1, <1>6, WholeEnd, Zenon
  <2>2. e \in Nat /\ e <= P!m_NVML_MAPPINGS
    BY <1>1, <1>3
  <2> HIDE DEF e
  <2>3. e * m_size_of_segment <= P!m_NVML_MAPPINGS * m_size_of_segment
    BY <1>2, <1>3, <2>2, Monotone, Zenon
  <2>4. e * m_size_of_segment \in Nat /\ P!m_NVML_MAPPINGS * m_size_of_segment \in Nat
    BY <1>2, <1>3, <2>2, Product, Zenon
  <2>5. m_data[s].at + m_data[s].length <= m_length
    BY <1>2, <1>3, <2>1, <2>3, <2>4, SMTT(30)
  <2> QED BY <1>2, <2>1, <2>5, SMTT(30) DEF P!Extent
<1>7. ASSUME NEW s \in P!Live, NEW t \in P!Live, s # t, P!Whole(s), P!Whole(t)
      PROVE  P!Extent(s) \cap P!Extent(t) = {}
  <2>1. /\ m_data[s].at \in Nat /\ m_data[s].length \in Nat
        /\ m_data[s].at + m_data[s].length = (Start(s) + Count(s)) * m_size_of_segment
        /\ m_data[t].at \in Nat /\ m_data[t].length \in Nat
        /\ m_data[t].at + m_data[t].length = (Start(t) + Count(t)) * m_size_of_segment
    BY <1>1, <1>7, WholeEnd, Zenon
  <2>2. /\ Start(s) \in Nat /\ Count(s) \in Nat /\ m_data[s].at = Start(s) * m_size_of_segment
        /\ Start(t) \in Nat /\ Count(t) \in Nat /\ m_data[t].at = Start(t) * m_size_of_segment
        /\ Start(s) + Count(s) \in Nat /\ Start(t) + Count(t) \in Nat
    BY <1>1
  <2>3. P!SlotsFrom(Start(s), Count(s)) \cap P!SlotsFrom(Start(t), Count(t)) = {}
    BY <1>5, <1>7, SlotsRun, Zenon
  <2>4. \/ Count(s) = 0
        \/ Count(t) = 0
        \/ Start(s) + Count(s) <= Start(t)
        \/ Start(t) + Count(t) <= Start(s)
    BY <2>2, <2>3, IntervalsApart, Zenon
  <2>5. Count(s) = 0 => m_data[s].length = 0
    <3>1. m_data[s].length = Count(s) * m_size_of_segment
      BY <1>1, <1>7, WholeEnd, Zenon
    <3>2. 0 * m_size_of_segment = 0
      BY <1>2
    <3> QED BY <3>1, <3>2, Zenon
  <2>6. Count(t) = 0 => m_data[t].length = 0
    <3>1. m_data[t].length = Count(t) * m_size_of_segment
      BY <1>1, <1>7, WholeEnd, ZenonT(60)
    <3>2. 0 * m_size_of_segment = 0
      BY <1>2
    <3> QED BY <3>1, <3>2, Zenon
  <2>7. ASSUME Start(s) + Count(s) <= Start(t)
        PROVE  m_data[s].at + m_data[s].length <= m_data[t].at
    <3>1. (Start(s) + Count(s)) * m_size_of_segment <= Start(t) * m_size_of_segment
      BY <1>2, <2>2, <2>7, Monotone, SMTT(30)
    <3> QED BY <2>1, <2>2, <3>1, ZenonT(60)
  <2>8. ASSUME Start(t) + Count(t) <= Start(s)
        PROVE  m_data[t].at + m_data[t].length <= m_data[s].at
    <3>1. (Start(t) + Count(t)) * m_size_of_segment <= Start(s) * m_size_of_segment
      BY <1>2, <2>2, <2>8, Monotone, SMTT(30)
    <3> QED BY <2>1, <2>2, <3>1, ZenonT(60)
  <2>9. \/ m_data[s].length = 0
        \/ m_data[t].length = 0
        \/ m_data[s].at + m_data[s].length <= m_data[t].at
        \/ m_data[t].at + m_data[t].length <= m_data[s].at
    BY <2>4, <2>5, <2>6, <2>7, <2>8, Zenon
  <2> QED BY <2>1, <2>9, SMTT(30) DEF P!Extent
<1> QED BY <1>4, <1>5, <1>6, <1>7, Zenon DEF P!NoOverlap

\* The whole slots of every segment in use stay marked, inside of the device and its
\* own, whatever its size and however often the device is mapped.
THEOREM AllocatorInvariance ==
  ASSUME DeviceConstants
  PROVE  P!Spec => []DeviceInv
<1>1. P!Init => DeviceInv
  <2> SUFFICES ASSUME P!Init PROVE DeviceInv
    OBVIOUS
  <2>1. m_offset = 0 /\ m_data = [s \in Segments |-> P!NoAddress]
    BY Zenon DEF P!Init
  <2>2. m_offset \in Nat
    BY <2>1
  <2> QED BY <2>1, <2>2, Zenon DEF DeviceInv, InUse
<1>2. DeviceInv /\ [P!Next]_P!vars => DeviceInv'
  <2> SUFFICES ASSUME DeviceInv, [P!Next]_P!vars PROVE DeviceInv'
    OBVIOUS
  <2>1. 0 \in Nat /\ m_offset \in Nat
    BY Zenon DEF DeviceInv
  <2>2. ASSUME NEW s \in Segments, P!pool(s) \/ P!init(s) \/ P!map(s) PROVE DeviceInv'
    BY <2>1, <2>2, DeviceStays, Zenon DEF P!pool, P!init, P!map
  <2>3. ASSUME NEW s \in Segments, NEW size, P!out_of_range(s, size) PROVE DeviceInv'
    BY <2>1, <2>3, DeviceStays, Zenon DEF P!out_of_range
  <2>4. CASE UNCHANGED P!vars
    BY <2>1, <2>4, DeviceStays, Zenon DEF P!vars
  <2> QED BY <2>2, <2>3, <2>4, AllocateStep, GiveBackStep, ZenonT(60) DEF P!Next
<1> QED BY <1>1, <1>2, PTL DEF P!Spec

\* However files are made and removed, first segments map the device together, the
\* search wraps around or runs out of bits, and slots are lost: no two segments have a
\* whole slot in common, none is outside of the device, and segments of whole slots
\* share no byte (pool::pool, big_pool::init, allocate and deallocate of the devdax
\* backend), for segments, slots, a device and a bitset of any size.
THEOREM SegmentsApart ==
  ASSUME DeviceConstants
  PROVE  P!Spec => []P!NoOverlap
<1>1. DeviceInv => P!NoOverlap
  BY BytesApart
<1> QED BY <1>1, AllocatorInvariance, PTL

-----------------------------------------------------------------------------
(***************************************************************************)
(* The filling of a segment.                                               *)
(***************************************************************************)
\* The file does not grow after fstat told its length, which SegmentSize covers.
FillConstants ==
  /\ SegmentSize \in Nat /\ NVML_TRANSFER_SIZE \in Nat \ {0}
  /\ SourceSizes \subseteq 0 .. SegmentSize

\* While no read has failed, what was copied is the beginning of the file, and the
\* loop is left for the zeroes only at its end.
FillInv ==
  /\ source \in 0 .. SegmentSize
  /\ filling \in {"copy", "zero", "failed", "filled", "spoilt"}
  /\ DOMAIN memory = -1 .. SegmentSize - 1
  /\ filling \in {"copy", "zero", "filled"} =>
       /\ total \in 0 .. source /\ memory[-1] = F!Old
       /\ \A i \in 0 .. total - 1 : memory[i] = i
  /\ filling = "zero" => total = source
  /\ F!FillExact

\* A turn of either loop copies the next bytes of the file, however few it got.
LEMMA CopyStep ==
  ASSUME FillConstants, FillInv, F!copy_data_to_non_pmem \/ F!copy_data_to_pmem
  PROVE  FillInv'
<1>1. /\ filling = "copy" /\ source' = source
      /\ \E n \in F!read :
           \/ n = F!Failed /\ filling' = "failed" /\ memory' = memory
           \/ n = 0 /\ n # F!Failed /\ filling' = "zero" /\ total' = total /\ memory' = memory
           \/ n # 0 /\ n # F!Failed /\ F!Write(n) /\ total' = total + n /\ filling' = filling
  BY DEF F!copy_data_to_non_pmem, F!copy_data_to_pmem, F!Failed
<1>2. PICK n \in F!read :
           \/ n = F!Failed /\ filling' = "failed" /\ memory' = memory
           \/ n = 0 /\ n # F!Failed /\ filling' = "zero" /\ total' = total /\ memory' = memory
           \/ n # 0 /\ n # F!Failed /\ F!Write(n) /\ total' = total + n /\ filling' = filling
  BY <1>1, Zenon
<1>3. total \in 0 .. source /\ source \in 0 .. SegmentSize /\ SegmentSize \in Nat
  BY <1>1, Zenon DEF FillInv, FillConstants
<1>4. CASE n = F!Failed /\ filling' = "failed" /\ memory' = memory
  BY <1>1, <1>4, Zenon DEF FillInv, F!FillExact
<1>5. CASE n = 0 /\ n # F!Failed /\ filling' = "zero" /\ total' = total /\ memory' = memory
  <2>1. total = source
    BY <1>3, <1>5, SMTT(30) DEF F!read, F!Failed, FillConstants
  <2> QED BY <1>1, <1>5, <2>1, Zenon DEF FillInv, F!FillExact
<1>6. CASE n # 0 /\ n # F!Failed /\ F!Write(n) /\ total' = total + n /\ filling' = filling
  <2>1. n \in Nat \ {0} /\ n <= source - total
    BY <1>3, <1>6, SMTT(30) DEF F!read, F!Failed, FillConstants
  <2>2. total' \in 0 .. source
    BY <1>3, <1>6, <2>1, SMTT(30)
  <2>3. /\ DOMAIN memory' = -1 .. SegmentSize - 1
        /\ \A i \in -1 .. SegmentSize - 1 :
             memory'[i] = IF i \in F!Bytes(n) THEN i ELSE memory[i]
    BY <1>6, Zenon DEF F!Write, FillInv
  <2>4. memory'[-1] = F!Old
    <3>1. -1 \in -1 .. SegmentSize - 1 /\ -1 \notin F!Bytes(n)
      BY <1>3, <2>1, SMTT(30) DEF F!Bytes
    <3> QED BY <1>1, <2>3, <3>1, Zenon DEF FillInv
  <2>5. ASSUME NEW i \in 0 .. total' - 1 PROVE memory'[i] = i
    <3>1. i \in -1 .. SegmentSize - 1 /\ (i \in 0 .. total - 1 \/ i \in F!Bytes(n))
      BY <1>3, <1>6, <2>1, SMTT(30) DEF F!Bytes
    <3> QED BY <1>1, <2>3, <3>1, ZenonT(60) DEF FillInv
  <2> QED BY <1>1, <1>6, <2>2, <2>3, <2>4, <2>5, ZenonT(60) DEF FillInv, F!FillExact
<1> QED BY <1>2, <1>4, <1>5, <1>6, ZenonT(60)

\* The zeroes begin where the file ends.
LEMMA ZeroStep ==
  ASSUME FillConstants, FillInv, F!fill_from
  PROVE  FillInv'
<1>1. /\ DOMAIN memory' = -1 .. SegmentSize - 1
      /\ \A i \in -1 .. SegmentSize - 1 : memory'[i] = IF i >= total THEN F!Zero ELSE memory[i]
      /\ undrained' = {} /\ source' = source /\ total' = total
  BY Zenon DEF F!fill_from, F!zero_fill, FillInv
<1>2. CASE filling = "failed"
  <2>1. filling' = "spoilt"
    BY <1>2, Zenon DEF F!fill_from
  <2> QED BY <1>1, <2>1, Zenon DEF FillInv, F!FillExact
<1>3. CASE filling = "zero"
  <2>1. filling' = "filled"
    BY <1>3, Zenon DEF F!fill_from
  <2>2. total = source /\ source \in Nat /\ SegmentSize \in Nat /\ memory[-1] = F!Old
    BY <1>3 DEF FillInv, FillConstants
  <2>3. memory'[-1] = F!Old
    <3>1. -1 \in -1 .. SegmentSize - 1 /\ ~ (-1 >= total)
      BY <2>2
    <3> QED BY <1>1, <2>2, <3>1, Zenon
  <2>4. ASSUME NEW i \in 0 .. SegmentSize - 1
        PROVE  memory'[i] = IF i < source THEN i ELSE F!Zero
    <3>1. i \in -1 .. SegmentSize - 1 /\ (i < source => i \in 0 .. total - 1) /\ (i >= total <=> ~ (i < source))
      BY <2>2
    <3> QED BY <1>1, <1>3, <3>1, Zenon DEF FillInv
  <2>5. \A i \in 0 .. total' - 1 : memory'[i] = i
    <3>1. \A i \in 0 .. total' - 1 : i \in 0 .. SegmentSize - 1 /\ i < source
      BY <1>1, <2>2, SMTT(30) DEF FillInv
    <3> QED BY <2>4, <3>1, Zenon
  <2>6. total' \in 0 .. source'
    BY <1>1, <2>2, SMTT(30)
  <2> QED BY <1>1, <2>1, <2>2, <2>3, <2>4, <2>5, <2>6, ZenonT(60) DEF FillInv, F!FillExact
<1> QED BY <1>2, <1>3, Zenon DEF F!fill_from

\* However the calls of read() fall short, a segment that fill_from has filled holds
\* the file and then zeroes, all of it on the device and nothing in front of it
\* touched: the part of CopyExact about segments, for every size.
THEOREM FillsExactly ==
  ASSUME FillConstants
  PROVE  F!Spec => []F!FillExact
<1>1. F!Init => FillInv
  <2> SUFFICES ASSUME F!Init PROVE FillInv
    OBVIOUS
  <2>1. /\ source \in 0 .. SegmentSize /\ total = 0 /\ filling = "copy" /\ SegmentSize \in Nat
        /\ memory = [i \in -1 .. SegmentSize - 1 |-> F!Old]
    BY Zenon DEF F!Init, FillConstants
  <2>2. total \in 0 .. source /\ -1 \in -1 .. SegmentSize - 1 /\ 0 .. total - 1 = {}
    BY <2>1
  <2> QED BY <2>1, <2>2, Zenon DEF FillInv, F!FillExact
<1>2. FillInv /\ [F!Next]_F!vars => FillInv'
  <2> SUFFICES ASSUME FillInv, [F!Next]_F!vars PROVE FillInv'
    OBVIOUS
  <2>1. CASE F!Done \/ UNCHANGED F!vars
    BY <2>1, Zenon DEF F!Done, F!vars, FillInv, F!FillExact
  <2> QED BY <2>1, CopyStep, ZeroStep, Zenon DEF F!Next
<1>3. FillInv => F!FillExact
  BY Zenon DEF FillInv
<1> QED BY <1>1, <1>2, <1>3, PTL DEF F!Spec

-----------------------------------------------------------------------------
(***************************************************************************)
(* The copy between vectors of buffers.                                    *)
(***************************************************************************)
\* A sequence of buffers, each with a length.
Vector(bufs) == Len(bufs) \in Nat /\ \A i \in 1 .. Len(bufs) : bufs[i].size \in Nat

\* The sums of the lengths of the first buffers are a function.
LEMMA SumExists ==
  ASSUME NEW bufs, Vector(bufs)
  PROVE  \E g : g = [i \in 0 .. Len(bufs) |-> IF i = 0 THEN 0 ELSE g[i - 1] + bufs[i].size]
<1> DEFINE L == Len(bufs)
           Upto(k) == \E g : g = [i \in 0 .. k |-> IF i = 0 THEN 0 ELSE g[i - 1] + bufs[i].size]
           Bad == {k \in Nat : k <= L /\ ~ Upto(k)}
<1>1. L \in Nat
  BY Zenon DEF Vector
<1> SUFFICES ASSUME Bad # {} PROVE FALSE
  <2>1. L <= L
    BY <1>1
  <2> QED BY <1>1, <2>1, Zenon
<1>2. PICK k \in Bad : \A y \in Bad : k <= y
  <2> HIDE DEF Bad
  <2>1. Bad \subseteq Nat
    BY Zenon DEF Bad
  <2> QED BY <2>1, LeastNat, Zenon
<1>3. CASE k = 0
  <2> DEFINE g == [i \in 0 .. 0 |-> 0]
  <2>1. g = [i \in 0 .. 0 |-> IF i = 0 THEN 0 ELSE g[i - 1] + bufs[i].size]
    OBVIOUS
  <2> QED BY <1>2, <1>3, <2>1, Zenon
<1>4. CASE k # 0
  <2>1. k - 1 \in Nat /\ k - 1 <= L /\ ~ (k <= k - 1) /\ k \in Nat
    BY <1>1, <1>2, <1>4, SMTT(30)
  <2>2. Upto(k - 1)
    BY <1>2, <2>1, Zenon
  <2>3. PICK g : g = [i \in 0 .. k - 1 |-> IF i = 0 THEN 0 ELSE g[i - 1] + bufs[i].size]
    BY <2>2, Zenon
  <2> DEFINE h == [i \in 0 .. k |-> IF i = k THEN g[k - 1] + bufs[k].size ELSE g[i]]
  <2>4. ASSUME NEW i \in 0 .. k
        PROVE  h[i] = IF i = 0 THEN 0 ELSE h[i - 1] + bufs[i].size
    <3>1. CASE i = k
      <4>1. k - 1 \in 0 .. k /\ k - 1 # k
        BY <2>1
      <4> QED BY <1>4, <3>1, <4>1, ZenonT(60)
    <3>2. CASE i # k /\ i # 0
      <4>1. i \in 0 .. k - 1 /\ i - 1 \in 0 .. k /\ i - 1 # k
        BY <2>1, <3>2, SMTT(30)
      <4>2. g[i] = g[i - 1] + bufs[i].size
        BY <2>3, <3>2, <4>1, Zenon
      <4> QED BY <3>2, <4>1, <4>2, Zenon
    <3>3. CASE i = 0
      <4>1. 0 \in 0 .. k - 1
        BY <2>1
      <4>2. g[0] = 0
        BY <2>3, <4>1, Zenon
      <4> QED BY <1>4, <3>3, <4>2, Zenon
    <3> QED BY <3>1, <3>2, <3>3, Zenon
  <2>5. h = [i \in 0 .. k |-> IF i = 0 THEN 0 ELSE h[i - 1] + bufs[i].size]
    <3> HIDE DEF h
    <3>1. h = [i \in 0 .. k |-> h[i]]
      BY Zenon DEF h
    <3> QED BY <2>4, <3>1, Zenon
  <2>6. Upto(k)
    BY <2>5, Zenon
  <2> QED BY <1>2, <2>6, Zenon
<1> QED BY <1>3, <1>4, Zenon

\* What lies before a buffer is what lies before the one in front of it, and that one.
LEMMA BeforeStep ==
  ASSUME NEW bufs, Vector(bufs)
  PROVE  /\ C!Before(bufs, 0) = 0
         /\ \A k \in 1 .. Len(bufs) : C!Before(bufs, k) = C!Before(bufs, k - 1) + bufs[k].size
<1> DEFINE Sums(g) == g = [i \in 0 .. Len(bufs) |-> IF i = 0 THEN 0 ELSE g[i - 1] + bufs[i].size]
           s == CHOOSE g : Sums(g)
<1>1. Sums(s)
  BY SumExists, Zenon
<1>2. \A k : C!Before(bufs, k) = s[k]
  BY Zenon DEF C!Before
<1> HIDE DEF s
<1>3. Len(bufs) \in Nat
  BY Zenon DEF Vector
<1>4. s[0] = 0
  <2>1. 0 \in 0 .. Len(bufs)
    BY <1>3
  <2> QED BY <1>1, <2>1, Zenon
<1>5. ASSUME NEW k \in 1 .. Len(bufs) PROVE s[k] = s[k - 1] + bufs[k].size
  <2>1. k \in 0 .. Len(bufs) /\ k # 0
    BY <1>3
  <2> QED BY <1>1, <2>1, Zenon
<1> QED BY <1>2, <1>4, <1>5, Zenon

\* The bytes before a buffer are a number.
LEMMA BeforeNat ==
  ASSUME NEW bufs, Vector(bufs), NEW k \in 0 .. Len(bufs)
  PROVE  C!Before(bufs, k) \in Nat
<1> DEFINE Bad == {i \in Nat : i <= Len(bufs) /\ C!Before(bufs, i) \notin Nat}
<1>1. Len(bufs) \in Nat
  BY Zenon DEF Vector
<1> SUFFICES ASSUME Bad # {} PROVE FALSE
  <2>1. k \in Nat /\ k <= Len(bufs)
    BY <1>1
  <2> QED BY <2>1, Zenon
<1>2. PICK i \in Bad : \A y \in Bad : i <= y
  <2> HIDE DEF Bad
  <2>1. Bad \subseteq Nat
    BY Zenon DEF Bad
  <2> QED BY <2>1, LeastNat, Zenon
<1>3. i # 0
  BY <1>2, BeforeStep, SMTT(30)
<1>4. i \in 1 .. Len(bufs) /\ i - 1 \in Nat /\ i - 1 <= Len(bufs) /\ ~ (i <= i - 1)
  BY <1>1, <1>2, <1>3, SMTT(30)
<1>5. C!Before(bufs, i - 1) \in Nat
  BY <1>2, <1>4, Zenon
<1>6. C!Before(bufs, i) = C!Before(bufs, i - 1) + bufs[i].size /\ bufs[i].size \in Nat
  BY <1>4, BeforeStep, Zenon DEF Vector
<1>7. C!Before(bufs, i) \in Nat
  BY <1>5, <1>6, SMTT(30)
<1> QED BY <1>2, <1>7, Zenon

\* No buffer begins behind the end of its vector.
LEMMA BeforeEnd ==
  ASSUME NEW bufs, Vector(bufs), NEW k \in 0 .. Len(bufs)
  PROVE  C!Before(bufs, k) <= C!Before(bufs, Len(bufs))
<1> DEFINE L == Len(bufs)
           Bad == {d \in Nat : d <= L /\ ~ (C!Before(bufs, L - d) <= C!Before(bufs, L))}
<1>1. L \in Nat
  BY Zenon DEF Vector
<1> SUFFICES ASSUME Bad # {} PROVE FALSE
  <2>1. L - k \in Nat /\ L - k <= L /\ L - (L - k) = k
    BY <1>1, SMTT(30)
  <2> QED BY <2>1, Zenon
<1>2. PICK d \in Bad : \A y \in Bad : d <= y
  <2> HIDE DEF Bad
  <2>1. Bad \subseteq Nat
    BY Zenon DEF Bad
  <2> QED BY <2>1, LeastNat, Zenon
<1>3. d # 0
  <2>1. L \in 0 .. L /\ L - 0 = L
    BY <1>1
  <2>2. C!Before(bufs, L) \in Nat
    BY <2>1, BeforeNat, Zenon
  <2>3. C!Before(bufs, L) <= C!Before(bufs, L)
    BY <2>2, SMTT(30)
  <2> QED BY <1>2, <2>1, <2>3, Zenon
<1>4. /\ d - 1 \in Nat /\ d - 1 <= L /\ ~ (d <= d - 1)
      /\ L - (d - 1) \in 1 .. L /\ L - (d - 1) - 1 = L - d
      /\ L - d \in 0 .. L /\ L - (d - 1) \in 0 .. L /\ L \in 0 .. L
  BY <1>1, <1>2, <1>3, SMTT(30)
<1>5. C!Before(bufs, L - (d - 1)) <= C!Before(bufs, L)
  BY <1>2, <1>4, Zenon
<1>6. /\ C!Before(bufs, L - (d - 1)) = C!Before(bufs, L - d) + bufs[L - (d - 1)].size
      /\ bufs[L - (d - 1)].size \in Nat
  <2>1. C!Before(bufs, L - (d - 1)) = C!Before(bufs, L - (d - 1) - 1) + bufs[L - (d - 1)].size
    BY <1>4, BeforeStep, Zenon
  <2> QED BY <1>4, <2>1, Zenon DEF Vector
<1>7. /\ C!Before(bufs, L) \in Nat /\ C!Before(bufs, L - d) \in Nat
      /\ C!Before(bufs, L - (d - 1)) \in Nat
  BY <1>4, BeforeNat, Zenon
<1>8. C!Before(bufs, L - d) <= C!Before(bufs, L)
  BY <1>5, <1>6, <1>7, SMTT(30)
<1> QED BY <1>2, <1>8, Zenon

\* A vector and the place it has come to, which is inside of a buffer or behind all.
VecOK(v) ==
  /\ DOMAIN v = {"buf", "idx", "off"}
  /\ Vector(v.buf) /\ v.idx \in 1 .. Len(v.buf) + 1 /\ v.off \in Nat
  /\ v.idx <= Len(v.buf) => v.off <= v.buf[v.idx].size
  /\ v.idx > Len(v.buf) => v.off = 0

\* A place lies inside of its vector, with the rest of the current buffer behind it.
LEMMA PlaceBound ==
  ASSUME NEW v, VecOK(v)
  PROVE  /\ C!Place(v) \in Nat /\ C!fuse_buf_size(v) \in Nat
         /\ C!Place(v) <= C!fuse_buf_size(v)
         /\ C!AtEnd(v) => C!Place(v) = C!fuse_buf_size(v)
         /\ ~ C!AtEnd(v) =>
              \A n \in Nat : v.off + n <= v.buf[v.idx].size =>
                C!Place(v) + n <= C!fuse_buf_size(v)
<1> DEFINE b == v.buf
           L == Len(b)
           i == v.idx
<1>1. Vector(b) /\ i \in 1 .. L + 1 /\ v.off \in Nat /\ L \in Nat
  BY Zenon DEF VecOK, Vector
<1>2. i - 1 \in 0 .. L /\ L \in 0 .. L
  BY <1>1
<1>3. C!Before(b, i - 1) \in Nat /\ C!Before(b, L) \in Nat
  BY <1>1, <1>2, BeforeNat, Zenon
<1>4. C!Place(v) = C!Before(b, i - 1) + v.off /\ C!fuse_buf_size(v) = C!Before(b, L)
  BY Zenon DEF C!Place, C!fuse_buf_size
<1>5. CASE i > L
  <2>1. v.off = 0 /\ i - 1 = L
    BY <1>1, <1>5, SMTT(30) DEF VecOK
  <2>2. C!Place(v) = C!fuse_buf_size(v)
    BY <1>3, <1>4, <2>1, SMTT(30)
  <2>3. C!AtEnd(v)
    BY <1>5, Zenon DEF C!AtEnd
  <2>4. C!Place(v) \in Nat /\ C!fuse_buf_size(v) \in Nat
    BY <1>3, <1>4, <2>2, Zenon
  <2> QED BY <2>2, <2>3, <2>4, SMTT(30)
<1>6. CASE ~ (i > L)
  <2>1. i \in 1 .. L /\ i \in 0 .. L /\ i <= L
    BY <1>1, <1>6, SMTT(30)
  <2>2. C!Before(b, i) = C!Before(b, i - 1) + b[i].size /\ b[i].size \in Nat
    BY <1>1, <2>1, BeforeStep, Zenon DEF Vector
  <2>3. C!Before(b, i) <= C!Before(b, L) /\ C!Before(b, i) \in Nat
    BY <1>1, <2>1, BeforeEnd, BeforeNat, ZenonT(60)
  <2>4. v.off <= b[i].size
    BY <2>1, Zenon DEF VecOK
  <2>5. ~ C!AtEnd(v)
    BY <1>6, Zenon DEF C!AtEnd
  <2> HIDE DEF b, L, i
  <2>6. C!Place(v) \in Nat /\ C!Place(v) <= C!fuse_buf_size(v)
    BY <1>1, <1>3, <1>4, <2>2, <2>3, <2>4, SMTT(30)
  <2>7. ASSUME NEW n \in Nat, v.off + n <= b[i].size PROVE C!Place(v) + n <= C!fuse_buf_size(v)
    BY <1>1, <1>3, <1>4, <2>2, <2>3, <2>7, SMTT(30)
  <2>8. C!fuse_buf_size(v) \in Nat
    BY <1>3, <1>4, Zenon
  <2> QED BY <2>5, <2>6, <2>7, <2>8, ZenonT(60) DEF b, i
<1> QED BY <1>5, <1>6, Zenon

\* fuse_bufvec_advance moves the place on by what was copied, over the end of the
\* buffer when all of it was.
LEMMA AdvanceVec ==
  ASSUME NEW v, VecOK(v), ~ C!AtEnd(v), NEW n \in Nat, v.off + n <= v.buf[v.idx].size
  PROVE  /\ VecOK(C!fuse_bufvec_advance(v, n))
         /\ C!Place(C!fuse_bufvec_advance(v, n)) = C!Place(v) + n
         /\ C!fuse_buf_size(C!fuse_bufvec_advance(v, n)) = C!fuse_buf_size(v)
<1> DEFINE b == v.buf
           L == Len(b)
           i == v.idx
           w == C!fuse_bufvec_advance(v, n)
<1>1. /\ Vector(b) /\ i \in 1 .. L + 1 /\ v.off \in Nat /\ L \in Nat /\ ~ (i > L)
      /\ DOMAIN v = {"buf", "idx", "off"}
  BY Zenon DEF VecOK, Vector, C!AtEnd
<1>2. i \in 1 .. L /\ i \in 0 .. L /\ i - 1 \in 0 .. L /\ i + 1 \in 1 .. L + 1 /\ i + 1 - 1 = i
  BY <1>1, SMTT(30)
<1>3. C!Before(b, i) = C!Before(b, i - 1) + b[i].size /\ b[i].size \in Nat
  BY <1>1, <1>2, BeforeStep, Zenon DEF Vector
<1>4. C!Before(b, i) \in Nat /\ C!Before(b, i - 1) \in Nat
  BY <1>1, <1>2, BeforeNat, Zenon
<1>5. CASE v.off + n = b[i].size
  <2>1. w = [v EXCEPT !.idx = @ + 1, !.off = 0]
    BY <1>5, Zenon DEF C!fuse_bufvec_advance, C!fuse_bufvec_current
  <2>2. DOMAIN w = {"buf", "idx", "off"} /\ w.buf = b /\ w.idx = i + 1 /\ w.off = 0
    BY <1>1, <2>1, Zenon
  <2> HIDE DEF w
  <2>3. VecOK(w)
    <3>1. w.idx <= Len(w.buf) => w.off <= w.buf[w.idx].size
      <4>1. i + 1 <= L => b[i + 1].size \in Nat
        BY <1>1, <1>2, SMTT(30) DEF Vector
      <4> QED BY <2>2, <4>1, SMTT(30)
    <3> QED BY <1>1, <1>2, <2>1, <2>2, <3>1, ZenonT(60) DEF VecOK
  <2>4. C!Place(w) = C!Before(b, i) + 0
    <3>1. w.idx - 1 = i
      BY <1>2, <2>2, SMTT(30)
    <3> QED BY <2>2, <3>1, Zenon DEF C!Place
  <2>5. C!Place(v) = C!Before(b, i - 1) + v.off
    BY Zenon DEF C!Place
  <2>6. C!Place(w) = C!Place(v) + n
    BY <1>1, <1>3, <1>4, <1>5, <2>4, <2>5, SMTT(30)
  <2> QED BY <2>2, <2>3, <2>6, Zenon DEF C!fuse_buf_size, w
<1>6. CASE v.off + n # b[i].size
  <2>1. w = [v EXCEPT !.off = @ + n]
    BY <1>6, Zenon DEF C!fuse_bufvec_advance, C!fuse_bufvec_current
  <2>2. DOMAIN w = {"buf", "idx", "off"} /\ w.buf = b /\ w.idx = i /\ w.off = v.off + n
    BY <1>1, <2>1, Zenon
  <2> HIDE DEF w
  <2>3. v.off + n \in Nat
    BY <1>1
  <2>4. VecOK(w)
    BY <1>1, <2>1, <2>2, <2>3, ZenonT(60) DEF VecOK
  <2>5. C!Place(w) = C!Before(b, i - 1) + (v.off + n)
    BY <2>2, ZenonT(60) DEF C!Place
  <2>6. C!Place(v) = C!Before(b, i - 1) + v.off
    BY Zenon DEF C!Place
  <2>7. C!Place(w) = C!Place(v) + n
    BY <1>1, <1>4, <2>5, <2>6, SMTT(30)
  <2> QED BY <2>2, <2>4, <2>7, Zenon DEF C!fuse_buf_size, w
<1> QED BY <1>5, <1>6, Zenon

CopyConstants ==
  /\ Chunk \in Nat \ {0}
  /\ \A b \in Sources \cup Dests : Vector(b)

Prefix(n) == [i \in 1 .. n |-> i]

\* The rest of the current buffer of a vector.
Rest(v) == v.buf[v.idx].size - v.off

\* The rest of a buffer can be copied.
LEMMA RestFits ==
  ASSUME NEW v, VecOK(v), ~ C!AtEnd(v)
  PROVE  /\ Rest(v) \in Nat
         /\ \A n \in Nat : n <= Rest(v) => v.off + n <= v.buf[v.idx].size
<1>1. Len(v.buf) \in Nat /\ v.idx \in 1 .. Len(v.buf) + 1 /\ v.off \in Nat /\ ~ (v.idx > Len(v.buf))
  BY Zenon DEF VecOK, Vector, C!AtEnd
<1>2. v.idx \in 1 .. Len(v.buf) /\ v.idx <= Len(v.buf)
  BY <1>1
<1>3. v.buf[v.idx].size \in Nat /\ v.off <= v.buf[v.idx].size
  BY <1>2, Zenon DEF VecOK, Vector
<1> QED BY <1>1, <1>3, SMTT(30) DEF Rest

\* While a turn copies `len` bytes, both vectors stand in front of them.
OneInv ==
  /\ ~ C!AtEnd(srcv) /\ ~ C!AtEnd(dstv)
  /\ len \in Nat /\ len <= Rest(srcv) /\ len <= Rest(dstv)

\* What has arrived is the beginning of the source, as long as what was counted and
\* what the current turn has transferred; a turn that ends early had a call that fell
\* short; bytes that were read and not written are only between two descriptors.
CopyInv ==
  /\ VecOK(srcv) /\ VecOK(dstv) /\ copied \in Nat
  /\ pc \in {"next", "one", "advance", "done"}
  /\ C!Place(srcv) = copied
  /\ pc # "done" => C!Place(dstv) = copied
  /\ pc \in {"next", "done"} => out = Prefix(copied)
  /\ pc \in {"one", "advance"} => OneInv
  /\ pc = "one" => part \in 0 .. len /\ out = Prefix(copied + part) /\ tmp \in Nat
  /\ pc = "one" /\ part # 0 => ~ (C!FromMemory /\ C!ToMemory)
  /\ tmp # 0 => /\ pc = "one" /\ C!BothFds /\ via = "buffer"
                /\ tmp <= C!min_size(Chunk, len - part)
  /\ pc = "advance" => /\ res \in Int /\ res <= len /\ (res < len => short)
                       /\ out = Prefix(copied + (IF res < 0 THEN 0 ELSE res))
  /\ pc = "done" => /\ copied <= C!fuse_buf_size(srcv) /\ copied <= C!fuse_buf_size(dstv)
                    /\ \/ short
                       \/ copied = C!fuse_buf_size(srcv)
                       \/ copied = C!fuse_buf_size(dstv)

\* Bytes that follow what has arrived make it longer.
LEMMA PrefixGrows ==
  ASSUME NEW k \in Nat, NEW n \in Nat
  PROVE  Prefix(k) \o [i \in 1 .. n |-> k + i] = Prefix(k + n)
  BY SMT DEF Prefix

\* The bytes that a call transfers follow those that have arrived.
LEMMA BytesFollow ==
  ASSUME CopyInv, pc = "one", NEW n \in Nat, out' = out \o C!Bytes(n)
  PROVE  out' = Prefix(copied + (part + n)) /\ part + n \in Nat
<1>1. /\ C!Place(srcv) = copied /\ copied \in Nat /\ part \in Nat /\ len \in Nat
      /\ out = Prefix(copied + part)
  BY DEF CopyInv, OneInv
<1>2. C!Bytes(n) = [i \in 1 .. n |-> (copied + part) + i]
  BY <1>1, Zenon DEF C!Bytes
<1>3. copied + part \in Nat /\ (copied + part) + n = copied + (part + n) /\ part + n \in Nat
  BY <1>1
<1>4. out \o C!Bytes(n) = Prefix((copied + part) + n)
  BY <1>1, <1>2, <1>3, PrefixGrows, ZenonT(60)
<1> QED BY <1>3, <1>4, Zenon

\* A turn that goes on has counted what the call transferred.
LEMMA TurnGoesOn ==
  ASSUME CopyInv, pc = "one", pc' = "one", UNCHANGED <<srcv, dstv, copied, len>>,
         part' \in 0 .. len, out' = Prefix(copied + part'), tmp' \in Nat,
         part' # 0 => ~ (C!FromMemory /\ C!ToMemory),
         tmp' # 0 => C!BothFds' /\ via' = "buffer" /\ tmp' <= C!min_size(Chunk, len - part')
  PROVE  CopyInv'
<1>1. VecOK(srcv') /\ VecOK(dstv') /\ OneInv' /\ C!Place(srcv') = copied' /\ C!Place(dstv') = copied'
  BY Zenon DEF CopyInv, OneInv, Rest, C!AtEnd
<1>2. C!FromMemory' = C!FromMemory /\ C!ToMemory' = C!ToMemory
  BY Zenon DEF C!FromMemory, C!ToMemory, C!fuse_bufvec_current
<1> QED BY <1>1, <1>2, Zenon DEF CopyInv

\* A turn that ends returns what its calls have transferred, or an error when that is
\* nothing, and less than it was to copy only after a call that fell short.
LEMMA TurnEnds ==
  ASSUME CopyInv, pc = "one", pc' = "advance", UNCHANGED <<srcv, dstv, copied, len>>,
         tmp' = 0, res' \in Int, res' <= len, res' < len => short',
         out' = Prefix(copied + (IF res' < 0 THEN 0 ELSE res'))
  PROVE  CopyInv'
<1>1. VecOK(srcv') /\ VecOK(dstv') /\ OneInv' /\ C!Place(srcv') = copied' /\ C!Place(dstv') = copied'
  BY Zenon DEF CopyInv, OneInv, Rest, C!AtEnd
<1> QED BY <1>1, Zenon DEF CopyInv

\* The head of the loop finds the copy at the end of a vector, or begins a turn.
LEMMA CopyNextStep ==
  ASSUME CopyConstants, CopyInv, C!CopyNext
  PROVE  CopyInv'
<1>1. /\ VecOK(srcv) /\ VecOK(dstv) /\ C!Place(srcv) = copied /\ C!Place(dstv) = copied
      /\ copied \in Nat /\ out = Prefix(copied) /\ tmp = 0
  BY Zenon DEF CopyInv, C!CopyNext
<1>2. CASE C!AtEnd(srcv) \/ C!AtEnd(dstv)
  <2>1. pc' = "done" /\ UNCHANGED <<srcv, dstv, copied, out, tmp>>
    BY <1>2, Zenon DEF C!CopyNext
  <2>2. /\ copied <= C!fuse_buf_size(srcv) /\ copied <= C!fuse_buf_size(dstv)
        /\ \/ copied = C!fuse_buf_size(srcv)
           \/ copied = C!fuse_buf_size(dstv)
    BY <1>1, <1>2, PlaceBound, Zenon
  <2> QED BY <1>1, <2>1, <2>2, Zenon DEF CopyInv, C!fuse_buf_size
<1>3. CASE ~ C!AtEnd(srcv) /\ ~ C!AtEnd(dstv)
  <2>1. /\ pc' = "one" /\ UNCHANGED <<srcv, dstv, copied, out, tmp>> /\ part' = 0
        /\ len' = C!min_size(Rest(srcv), Rest(dstv))
    BY <1>3, Zenon DEF C!CopyNext, Rest, C!fuse_bufvec_current
  <2>2. Rest(srcv) \in Nat /\ Rest(dstv) \in Nat
    BY <1>1, <1>3, RestFits, ZenonT(60)
  <2>3. len' \in Nat /\ len' <= Rest(srcv) /\ len' <= Rest(dstv)
    BY <2>1, <2>2, SMTT(30) DEF C!min_size
  <2>4. OneInv'
    BY <1>3, <2>1, <2>3, ZenonT(60) DEF OneInv, Rest, C!AtEnd
  <2>5. part' \in 0 .. len' /\ copied + part' = copied /\ tmp \in Nat
    BY <1>1, <2>1, <2>3, SMTT(30)
  <2> QED BY <1>1, <2>1, <2>4, <2>5, ZenonT(60) DEF CopyInv
<1> QED BY <1>2, <1>3, Zenon

\* What a call transferred: nothing when it failed.
Got(n) == IF n < 0 THEN 0 ELSE n

\* A call on k bytes transfers at most those.
LEMMA Outcome ==
  ASSUME NEW k \in Nat, NEW n \in C!Outcomes(k)
  PROVE  n \in Int /\ Got(n) \in Nat /\ Got(n) <= k /\ n <= k /\ n >= -1
  BY DEF C!Outcomes, Got

\* A copy in memory transfers everything.
LEMMA CopyMemoryStep ==
  ASSUME CopyConstants, CopyInv, C!CopyMemory
  PROVE  CopyInv'
<1>1. /\ pc = "one" /\ pc' = "advance" /\ res' = len /\ out' = out \o C!Bytes(len)
      /\ UNCHANGED <<srcv, dstv, copied, len, tmp>> /\ C!FromMemory
  BY Zenon DEF C!CopyMemory
<1>2. len \in Nat /\ tmp = 0 /\ part = 0
  BY <1>1, Zenon DEF CopyInv, OneInv, C!BothFds, C!CopyMemory
<1>3. out' = Prefix(copied + (part + len))
  BY <1>1, <1>2, BytesFollow, ZenonT(60)
<1>4. part + len = IF res' < 0 THEN 0 ELSE res'
  BY <1>1, <1>2, SMTT(30)
<1>5. res' \in Int /\ res' <= len /\ ~ (res' < len)
  BY <1>1, <1>2, SMTT(30)
<1>6. tmp' = 0
  BY <1>1, <1>2, Zenon
<1> QED BY <1>1, <1>3, <1>4, <1>5, <1>6, TurnEnds, ZenonT(60)

\* What a call on the rest of the turn transferred has arrived behind the others.
LEMMA CallFollows ==
  ASSUME CopyInv, pc = "one", NEW n \in C!Outcomes(len - part),
         out' = out \o C!Bytes(IF n < 0 THEN 0 ELSE n)
  PROVE  /\ out' = Prefix(copied + (part + Got(n))) /\ part + Got(n) \in 0 .. len
         /\ n \in Int /\ n <= len - part /\ n >= -1 /\ part \in 0 .. len /\ len \in Nat
<1>1. part \in 0 .. len /\ len \in Nat
  BY Zenon DEF CopyInv, OneInv
<1>2. len - part \in Nat
  BY <1>1
<1>3. n \in Int /\ Got(n) \in Nat /\ Got(n) <= len - part /\ n <= len - part /\ n >= -1
  BY <1>2, Outcome, Zenon
<1>4. out' = Prefix(copied + (part + Got(n)))
  BY <1>3, BytesFollow, Zenon DEF Got
<1>5. part + Got(n) \in 0 .. len
  BY <1>1, <1>3, SMTT(30)
<1> QED BY <1>1, <1>3, <1>4, <1>5, ZenonT(60)

\* A turn ends with what was transferred by then when there is no more to do.
LEMMA TurnComplete ==
  ASSUME CopyInv, pc = "one", pc' = "advance", part = len, res' = part, tmp' = 0,
         UNCHANGED <<srcv, dstv, copied, len, out>>
  PROVE  CopyInv'
<1>1. part \in 0 .. len /\ len \in Nat /\ out = Prefix(copied + part)
  BY Zenon DEF CopyInv, OneInv
<1>2. res' \in Int /\ res' <= len /\ ~ (res' < len) /\ (IF res' < 0 THEN 0 ELSE res') = part
  BY <1>1, SMTT(30)
<1>3. out' = Prefix(copied + (IF res' < 0 THEN 0 ELSE res'))
  BY <1>1, <1>2, Zenon
<1> QED BY <1>2, <1>3, TurnEnds, Zenon

\* A turn of the loop of fuse_buf_write or fuse_buf_read.
LEMMA TransferStep ==
  ASSUME CopyConstants, CopyInv, C!Transfer
  PROVE  CopyInv'
<1>1. /\ pc = "one" /\ UNCHANGED <<srcv, dstv, copied, len, via, tmp>>
      /\ ~ (C!FromMemory /\ C!ToMemory) /\ ~ C!BothFds
  BY Zenon DEF C!Transfer, C!BothFds, C!FromMemory, C!ToMemory
<1>2. tmp = 0 /\ tmp' = 0 /\ tmp' \in Nat
  <2>1. tmp = 0 /\ tmp' = tmp
    BY <1>1, Zenon DEF CopyInv
  <2> QED BY <2>1
<1>3. CASE part = len
  BY <1>1, <1>2, <1>3, TurnComplete, ZenonT(60) DEF C!Transfer
<1>4. CASE part # len
  <2>1. PICK n \in C!Outcomes(len - part) :
          /\ out' = out \o C!Bytes(IF n < 0 THEN 0 ELSE n)
          /\ short' = (short \/ n < len - part)
          /\ \/ n = -1 /\ pc' = "advance" /\ res' = (IF part = 0 THEN -1 ELSE part)
             \/ (n = 0 \/ n > 0) /\ pc' = "advance" /\ res' = part + n
             \/ n # -1 /\ ~ (n = 0) /\ part' = part + n /\ pc' = pc
    BY <1>1, <1>4, SMTT(30) DEF C!Transfer
  <2>2. /\ out' = Prefix(copied + (part + Got(n))) /\ part + Got(n) \in 0 .. len
        /\ n \in Int /\ n <= len - part /\ n >= -1 /\ part \in 0 .. len /\ len \in Nat
    BY <1>1, <2>1, CallFollows, ZenonT(60)
  <2>3. n < len - part => short'
    BY <2>1, Zenon
  <2>4. CASE pc' = "advance"
    <3>1. \/ n = -1 /\ res' = (IF part = 0 THEN -1 ELSE part)
          \/ (n = 0 \/ n > 0) /\ res' = part + n
      BY <1>1, <2>1, <2>4, ZenonT(60)
    <3>2. /\ res' \in Int /\ res' <= len /\ (res' < len => n < len - part)
          /\ (IF res' < 0 THEN 0 ELSE res') = part + Got(n)
      <4>1. CASE n = -1 /\ res' = (IF part = 0 THEN -1 ELSE part)
        BY <1>4, <2>2, <4>1, SMTT(30) DEF Got
      <4>2. CASE n \in Nat /\ res' = part + n
        BY <2>2, <4>2, SMTT(30) DEF Got
      <4> QED BY <2>2, <3>1, <4>1, <4>2, SMTT(30)
    <3> QED BY <1>1, <1>2, <2>2, <2>3, <2>4, <3>2, TurnEnds, ZenonT(60)
  <2>5. CASE n # -1 /\ ~ (n = 0) /\ part' = part + n /\ pc' = pc
    <3>1. part' = part + Got(n)
      BY <2>2, <2>5, SMTT(30) DEF Got
    <3> QED BY <1>1, <1>2, <2>2, <2>5, <3>1, TurnGoesOn, ZenonT(60)
  <2> QED BY <2>1, <2>4, <2>5, ZenonT(60)
<1> QED BY <1>3, <1>4, Zenon

\* A turn of the loop of fuse_buf_splice, or its change to a buffer in between.
LEMMA SpliceStep ==
  ASSUME CopyConstants, CopyInv, C!Splice
  PROVE  CopyInv'
<1>1. /\ pc = "one" /\ UNCHANGED <<srcv, dstv, copied, len, tmp>>
      /\ ~ (C!FromMemory /\ C!ToMemory) /\ via = "splice"
  BY Zenon DEF C!Splice, C!BothFds
<1>2. tmp = 0 /\ tmp' = 0 /\ tmp' \in Nat
  BY <1>1, SMTT(30) DEF CopyInv
<1>3. CASE part = len
  BY <1>1, <1>2, <1>3, TurnComplete, ZenonT(60) DEF C!Splice
<1>4. CASE UNCHANGED <<pc, part, res, out, short>>
  <2>1. part' \in 0 .. len /\ out' = Prefix(copied + part')
    BY <1>1, <1>4, Zenon DEF CopyInv
  <2> QED BY <1>1, <1>2, <1>4, <2>1, TurnGoesOn, ZenonT(60)
<1>5. CASE part # len /\ ~ UNCHANGED <<pc, part, res, out, short>>
  <2>1. PICK n \in C!Outcomes(len - part) :
          /\ out' = out \o C!Bytes(IF n < 0 THEN 0 ELSE n)
          /\ short' = (short \/ n < len - part)
          /\ \/ n > 0 /\ part' = part + n /\ pc' = pc
             \/ pc' = "advance" /\ res' = (IF n = -1 /\ part # 0 THEN part ELSE part + n)
    BY <1>1, <1>5, Zenon DEF C!Splice
  <2>2. /\ out' = Prefix(copied + (part + Got(n))) /\ part + Got(n) \in 0 .. len
        /\ n \in Int /\ n <= len - part /\ n >= -1 /\ part \in 0 .. len /\ len \in Nat
    BY <1>1, <2>1, CallFollows, ZenonT(60)
  <2>3. n < len - part => short'
    BY <2>1, Zenon
  <2>4. CASE pc' = "advance"
    <3>1. res' = (IF n = -1 /\ part # 0 THEN part ELSE part + n)
      BY <1>1, <2>1, <2>4, SMTT(30)
    <3>2. /\ res' \in Int /\ res' <= len /\ (res' < len => n < len - part)
          /\ (IF res' < 0 THEN 0 ELSE res') = part + Got(n)
      BY <1>5, <2>2, <3>1, SMTT(30) DEF Got
    <3> QED BY <1>1, <1>2, <2>2, <2>3, <2>4, <3>2, TurnEnds, ZenonT(60)
  <2>5. CASE n > 0 /\ part' = part + n /\ pc' = pc
    <3>1. part' = part + Got(n)
      BY <2>2, <2>5, SMTT(30) DEF Got
    <3> QED BY <1>1, <1>2, <2>2, <2>5, <3>1, TurnGoesOn, ZenonT(60)
  <2> QED BY <2>1, <2>4, <2>5, ZenonT(60)
<1> QED BY <1>3, <1>4, <1>5, Zenon

\* What fits into the buffer between two descriptors.
LEMMA MinSize ==
  ASSUME NEW a \in Nat, NEW b \in Nat
  PROVE  C!min_size(a, b) \in Nat /\ C!min_size(a, b) <= b /\ (a # 0 /\ b # 0 => C!min_size(a, b) # 0)
  BY SMTT(30) DEF C!min_size

\* A read into the buffer of fuse_buf_fd_to_fd moves nothing yet.
LEMMA FdReadStep ==
  ASSUME CopyConstants, CopyInv, C!FdRead
  PROVE  CopyInv'
<1>1. /\ pc = "one" /\ UNCHANGED <<srcv, dstv, copied, len, part, via, out>>
      /\ ~ (C!FromMemory /\ C!ToMemory) /\ via = "buffer" /\ C!BothFds /\ tmp = 0
  BY Zenon DEF C!FdRead, C!BothFds
<1>2. /\ part \in 0 .. len /\ len \in Nat /\ out = Prefix(copied + part) /\ Chunk \in Nat \ {0}
  BY <1>1, Zenon DEF CopyInv, OneInv, CopyConstants
<1>3. CASE part = len
  BY <1>1, <1>3, TurnComplete, ZenonT(60) DEF C!FdRead
<1>4. CASE part # len
  <2> DEFINE k == C!min_size(Chunk, len - part)
  <2>1. PICK n \in C!Outcomes(k) :
          /\ short' = (short \/ n < k)
          /\ \/ n > 0 /\ tmp' = n /\ pc' = pc
             \/ ~ (n > 0) /\ pc' = "advance" /\ res' = (IF part = 0 THEN n ELSE part) /\ tmp' = tmp
    BY <1>4, Zenon DEF C!FdRead
  <2>2. k \in Nat \ {0} /\ k <= len - part
    <3>1. len - part \in Nat \ {0}
      BY <1>2, <1>4, SMTT(30)
    <3> QED BY <1>2, <3>1, MinSize, SMTT(30)
  <2> HIDE DEF k
  <2>3. n \in Int /\ n <= k /\ n >= -1
    BY <2>2, Outcome, SMTT(30)
  <2>4. CASE n > 0 /\ tmp' = n /\ pc' = pc
    <3>1. tmp' \in Nat /\ tmp' <= k
      BY <2>3, <2>4, SMTT(30)
    <3>2. C!BothFds'
      BY <1>1, <2>4, Zenon DEF C!BothFds, C!FromMemory, C!ToMemory, C!fuse_bufvec_current
    <3>3. k = C!min_size(Chunk, len - part') /\ out' = Prefix(copied + part') /\ part' \in 0 .. len
      BY <1>1, <1>2, Zenon DEF k
    <3> QED BY <1>1, <2>4, <3>1, <3>2, <3>3, TurnGoesOn, ZenonT(60)
  <2>5. CASE /\ ~ (n > 0) /\ pc' = "advance" /\ res' = (IF part = 0 THEN n ELSE part)
             /\ tmp' = tmp
    <3>1. n < k
      BY <2>2, <2>3, <2>5, SMTT(30)
    <3>2. short' /\ tmp' = 0
      BY <1>1, <2>1, <2>5, <3>1, ZenonT(60)
    <3>3. res' \in Int /\ res' <= len /\ (IF res' < 0 THEN 0 ELSE res') = part
      BY <1>2, <2>3, <2>5, SMTT(30)
    <3>4. out' = Prefix(copied + (IF res' < 0 THEN 0 ELSE res'))
      BY <1>1, <1>2, <3>3, ZenonT(60)
    <3> QED BY <1>1, <2>5, <3>2, <3>3, <3>4, TurnEnds, ZenonT(60)
  <2> QED BY <2>1, <2>4, <2>5, ZenonT(60)
<1> QED BY <1>3, <1>4, Zenon

\* The write that follows may fall short of what was read, or the read of the chunk:
\* the turn ends then, and what was read and not written is not counted.
LEMMA FdWriteStep ==
  ASSUME CopyConstants, CopyInv, C!FdWrite
  PROVE  CopyInv'
<1> DEFINE k == C!min_size(Chunk, len - part)
<1>1. /\ pc = "one" /\ UNCHANGED <<srcv, dstv, copied, len, via>> /\ tmp # 0 /\ tmp' = 0
  BY Zenon DEF C!FdWrite
<1>2. PICK n \in C!Outcomes(tmp) :
        /\ out' = out \o C!Bytes(IF n < 0 THEN 0 ELSE n)
        /\ short' = (short \/ ~ (n = k))
        /\ \/ n > 0 /\ n = k /\ part' = part + n /\ pc' = pc
           \/ /\ ~ (n > 0 /\ n = k) /\ pc' = "advance"
              /\ res' = (IF n > 0 THEN part + n ELSE IF part = 0 THEN n ELSE part)
  BY Zenon DEF C!FdWrite
<1>3. /\ part \in 0 .. len /\ len \in Nat /\ Chunk \in Nat \ {0} /\ tmp \in Nat /\ tmp <= k
      /\ ~ (C!FromMemory /\ C!ToMemory)
  BY <1>1, Zenon DEF CopyInv, OneInv, CopyConstants, C!BothFds
<1>4. k \in Nat /\ k <= len - part
  <2>1. len - part \in Nat
    BY <1>3, SMTT(30)
  <2> QED BY <1>3, <2>1, MinSize, SMTT(30)
<1> HIDE DEF k
<1>5. n \in Int /\ n <= tmp /\ n >= -1
  BY <1>3, Outcome, SMTT(30)
<1>6. n \in C!Outcomes(len - part)
  BY <1>3, <1>4, <1>5, SMTT(30) DEF C!Outcomes
<1>7. out' = Prefix(copied + (part + Got(n))) /\ part + Got(n) \in 0 .. len
  BY <1>1, <1>2, <1>6, CallFollows, ZenonT(60)
<1>8. CASE n > 0 /\ n = k /\ part' = part + n /\ pc' = pc
  <2>1. part' = part + Got(n)
    BY <1>5, <1>8, SMTT(30) DEF Got
  <2>2. tmp' \in Nat
    BY <1>1, SMTT(30)
  <2> QED BY <1>1, <1>3, <1>7, <1>8, <2>1, <2>2, TurnGoesOn, ZenonT(60)
<1>9. CASE /\ ~ (n > 0 /\ n = k) /\ pc' = "advance"
           /\ res' = (IF n > 0 THEN part + n ELSE IF part = 0 THEN n ELSE part)
  <2>1. n # k
    BY <1>1, <1>3, <1>4, <1>5, <1>9, SMTT(30)
  <2>2. short'
    BY <1>2, <2>1, ZenonT(60)
  <2>3. res' \in Int /\ res' <= len /\ (IF res' < 0 THEN 0 ELSE res') = part + Got(n)
    BY <1>3, <1>4, <1>5, <1>9, SMTT(30) DEF Got
  <2> QED BY <1>1, <1>7, <1>9, <2>2, <2>3, TurnEnds, ZenonT(60)
<1> QED BY <1>2, <1>8, <1>9, ZenonT(60)

\* The end of a turn moves both vectors on by what was copied, the source first.
LEMMA AdvanceStep ==
  ASSUME CopyConstants, CopyInv, C!Advance
  PROVE  CopyInv'
<1>1. /\ VecOK(srcv) /\ VecOK(dstv) /\ copied \in Nat /\ C!Place(srcv) = copied
      /\ C!Place(dstv) = copied /\ ~ C!AtEnd(srcv) /\ ~ C!AtEnd(dstv)
      /\ len \in Nat /\ len <= Rest(srcv) /\ len <= Rest(dstv)
      /\ res \in Int /\ res <= len /\ (res < len => short) /\ tmp = 0
      /\ out = Prefix(copied + (IF res < 0 THEN 0 ELSE res))
      /\ UNCHANGED <<out, short, tmp>>
  BY Zenon DEF CopyInv, OneInv, C!Advance
<1>2. /\ Rest(srcv) \in Nat /\ Rest(dstv) \in Nat
      /\ C!fuse_buf_size(srcv) \in Nat /\ C!fuse_buf_size(dstv) \in Nat
      /\ copied <= C!fuse_buf_size(srcv) /\ copied <= C!fuse_buf_size(dstv)
  BY <1>1, RestFits, PlaceBound, ZenonT(60)
<1>3. CASE res < 0
  <2>1. pc' = "done" /\ UNCHANGED <<srcv, dstv, copied>>
    BY <1>3, Zenon DEF C!Advance
  <2>2. short /\ copied + (IF res < 0 THEN 0 ELSE res) = copied
    <3>1. res < len
      BY <1>1, <1>3, SMTT(30)
    <3>2. copied + 0 = copied
      BY <1>1
    <3> QED BY <1>1, <1>3, <3>1, <3>2, ZenonT(60)
  <2> QED BY <1>1, <1>2, <2>1, <2>2, ZenonT(60) DEF CopyInv
<1>4. CASE ~ (res < 0)
  <2>1. res \in Nat /\ res <= Rest(srcv) /\ res <= Rest(dstv)
    BY <1>1, <1>2, <1>4, SMTT(30)
  <2>2. srcv.off + res <= srcv.buf[srcv.idx].size /\ dstv.off + res <= dstv.buf[dstv.idx].size
    BY <1>1, <2>1, RestFits, Zenon
  <2>3. copied + res <= C!fuse_buf_size(srcv) /\ copied + res <= C!fuse_buf_size(dstv)
    BY <1>1, <2>1, <2>2, PlaceBound, ZenonT(60)
  <2>4. /\ copied' = copied + res /\ srcv' = C!fuse_bufvec_advance(srcv, res)
        /\ dstv' = IF C!AtEnd(srcv') THEN dstv ELSE C!fuse_bufvec_advance(dstv, res)
        /\ pc' = IF C!AtEnd(srcv') \/ C!AtEnd(dstv') \/ res < len THEN "done" ELSE "next"
    BY <1>4, Zenon DEF C!Advance
  <2>5. /\ VecOK(srcv') /\ C!Place(srcv') = copied' /\ C!fuse_buf_size(srcv') = C!fuse_buf_size(srcv)
    BY <1>1, <2>1, <2>2, <2>4, AdvanceVec, ZenonT(60)
  <2>6. /\ VecOK(C!fuse_bufvec_advance(dstv, res))
        /\ C!Place(C!fuse_bufvec_advance(dstv, res)) = copied'
        /\ C!fuse_buf_size(C!fuse_bufvec_advance(dstv, res)) = C!fuse_buf_size(dstv)
    BY <1>1, <2>1, <2>2, <2>4, AdvanceVec, ZenonT(60)
  <2>7. /\ VecOK(dstv') /\ C!fuse_buf_size(dstv') = C!fuse_buf_size(dstv)
        /\ ~ C!AtEnd(srcv') => C!Place(dstv') = copied'
    BY <1>1, <2>4, <2>6, ZenonT(60)
  <2>8. copied' \in Nat
    BY <1>1, <2>1, <2>4, SMTT(30)
  <2>9. out' = Prefix(copied')
    BY <1>1, <1>4, <2>4, ZenonT(60)
  <2>10. CASE pc' = "next"
    <3>1. ~ C!AtEnd(srcv')
      BY <2>4, <2>10, Zenon
    <3> QED BY <1>1, <2>5, <2>7, <2>8, <2>9, <2>10, <3>1, ZenonT(60) DEF CopyInv
  <2>11. CASE pc' = "done"
    <3>1. C!AtEnd(srcv') \/ C!AtEnd(dstv') \/ res < len
      BY <2>4, <2>11, Zenon
    <3>2. \/ short'
          \/ copied' = C!fuse_buf_size(srcv')
          \/ copied' = C!fuse_buf_size(dstv')
      BY <1>1, <2>5, <2>7, <3>1, PlaceBound, ZenonT(60)
    <3>3. copied' <= C!fuse_buf_size(srcv') /\ copied' <= C!fuse_buf_size(dstv')
      BY <2>3, <2>4, <2>5, <2>7, ZenonT(60)
    <3> QED BY <1>1, <2>5, <2>7, <2>8, <2>9, <2>11, <3>2, <3>3, ZenonT(60) DEF CopyInv
  <2> QED BY <2>4, <2>10, <2>11, ZenonT(60)
<1> QED BY <1>3, <1>4, Zenon

\* Bytes are lost by a call that fell short and ends the copy.
LossInv ==
  lost # 0 => short /\ (pc = "done" \/ (pc = "advance" /\ res < len))

LEMMA LossStep ==
  ASSUME CopyInv, LossInv, CopyConstants, [C!Next]_C!vars
  PROVE  LossInv'
<1>1. CASE UNCHANGED C!vars
  BY <1>1, Zenon DEF C!vars, LossInv
<1>2. CASE UNCHANGED lost /\ pc \in {"next", "one"}
  BY <1>2, Zenon DEF LossInv
<1>3. CASE C!Advance
  <2>1. UNCHANGED <<lost, short>> /\ pc = "advance"
    BY <1>3, Zenon DEF C!Advance
  <2>2. ASSUME res < len PROVE pc' = "done"
    BY <1>3, <2>2, Zenon DEF C!Advance
  <2> QED BY <2>1, <2>2, Zenon DEF LossInv
<1>4. CASE C!FdWrite
  <2> DEFINE k == C!min_size(Chunk, len - part)
  <2>1. pc = "one" /\ tmp # 0
    BY <1>4, Zenon DEF C!FdWrite
  <2>2. PICK n \in C!Outcomes(tmp) :
          /\ lost' = tmp - (IF n < 0 THEN 0 ELSE n)
          /\ short' = (short \/ ~ (n = k))
          /\ \/ n > 0 /\ n = k
             \/ /\ pc' = "advance" /\ len' = len
                /\ res' = (IF n > 0 THEN part + n ELSE IF part = 0 THEN n ELSE part)
    BY <1>4, Zenon DEF C!FdWrite
  <2>3. /\ part \in 0 .. len /\ len \in Nat /\ Chunk \in Nat \ {0} /\ tmp \in Nat /\ tmp <= k
    BY <2>1, Zenon DEF CopyInv, OneInv, CopyConstants, C!BothFds
  <2>4. k \in Nat /\ k <= len - part
    <3>1. len - part \in Nat
      BY <2>3, SMTT(30)
    <3> QED BY <2>3, <3>1, MinSize, SMTT(30)
  <2> HIDE DEF k
  <2>5. n \in Int /\ n <= tmp /\ n >= -1
    BY <2>3, Outcome, SMTT(30)
  <2>6. ASSUME lost' # 0 PROVE ~ (n = k) /\ (res' = (IF n > 0 THEN part + n ELSE IF part = 0 THEN n ELSE part) => res' < len)
    BY <2>1, <2>2, <2>3, <2>4, <2>5, <2>6, SMTT(30)
  <2> QED BY <2>2, <2>6, ZenonT(60) DEF LossInv
<1> QED
  BY <1>1, <1>2, <1>3, <1>4, ZenonT(60)
  DEF C!Next, C!CopyNext, C!CopyMemory, C!Transfer, C!Splice, C!FdRead, C!Done, C!BothFds

\* However the system calls of a copy fall short: what fuse_buf_copy_pmem returns is
\* the length of the beginning of the source that arrived, the source stands behind
\* it, a copy ends early only after a call that fell short, and only then can bytes of
\* a stream be lost; for vectors of any number of buffers of any size.
THEOREM CopiesExactly ==
  ASSUME CopyConstants
  PROVE  C!Spec => []C!CopyExact
<1>1. C!Init => CopyInv
  <2> SUFFICES ASSUME C!Init PROVE CopyInv
    OBVIOUS
  <2>1. /\ copied = 0 /\ pc = "next" /\ tmp = 0 /\ out = <<>>
        /\ \E b \in Sources : srcv = C!Vec(b)
        /\ \E b \in Dests : dstv = C!Vec(b)
    BY Zenon DEF C!Init
  <2>2. ASSUME NEW b, Vector(b) PROVE VecOK(C!Vec(b)) /\ C!Place(C!Vec(b)) = 0
    <3> DEFINE v == C!Vec(b)
    <3>1. DOMAIN v = {"buf", "idx", "off"} /\ v.buf = b /\ v.idx = 1 /\ v.off = 0
      BY DEF C!Vec
    <3> HIDE DEF v
    <3>2. Len(b) \in Nat /\ 1 \in 1 .. Len(b) + 1 /\ 0 \in Nat /\ 1 - 1 = 0 /\ 0 + 0 = 0
      BY <2>2, SMTT(30) DEF Vector
    <3>3. 1 <= Len(b) => 0 <= b[1].size
      <4>1. 1 <= Len(b) => b[1].size \in Nat
        BY <2>2, <3>2, SMTT(30) DEF Vector
      <4> QED BY <4>1, SMTT(30)
    <3>4. VecOK(v)
      BY <2>2, <3>1, <3>2, <3>3, ZenonT(60) DEF VecOK
    <3>5. C!Place(v) = C!Before(b, 0) + 0
      BY <3>1, <3>2, Zenon DEF C!Place
    <3>6. C!Before(b, 0) = 0
      BY <2>2, BeforeStep, Zenon
    <3> QED BY <3>2, <3>4, <3>5, <3>6, ZenonT(60) DEF v
  <2>3. /\ VecOK(srcv) /\ C!Place(srcv) = 0 /\ VecOK(dstv) /\ C!Place(dstv) = 0
    BY <2>1, <2>2, Zenon DEF CopyConstants
  <2>4. out = Prefix(copied) /\ copied \in Nat
    BY <2>1, SMTT(30) DEF Prefix
  <2> QED BY <2>1, <2>3, <2>4, ZenonT(60) DEF CopyInv
<1>2. CopyInv /\ [C!Next]_C!vars => CopyInv'
  <2> SUFFICES ASSUME CopyInv, [C!Next]_C!vars PROVE CopyInv'
    OBVIOUS
  <2>1. CASE UNCHANGED C!vars
    BY <2>1, Zenon
    DEF C!vars, CopyInv, OneInv, Rest, C!AtEnd, C!BothFds, C!FromMemory, C!ToMemory,
        C!fuse_bufvec_current, C!fuse_buf_size, C!min_size
  <2>2. CASE C!Next
    BY <2>1, <2>2, CopyNextStep, CopyMemoryStep, TransferStep, SpliceStep, FdReadStep,
       FdWriteStep, AdvanceStep, ZenonT(60) DEF C!Next, C!Done
  <2> QED BY <2>1, <2>2, Zenon
<1>3. CopyInv /\ LossInv => C!CopyExact
  <2> SUFFICES ASSUME CopyInv, LossInv, pc \in {"next", "done"}
               PROVE  /\ out = [i \in 1 .. copied |-> i] /\ C!Place(srcv) = copied
                      /\ ~ C!AtEnd(srcv) /\ pc = "next" => C!Place(dstv) = copied
                      /\ lost # 0 => pc = "done" /\ short
                      /\ pc = "done" /\ ~ short =>
                           copied = C!min_size(C!fuse_buf_size(srcv), C!fuse_buf_size(dstv))
    BY Zenon DEF C!CopyExact
  <2>1. /\ out = [i \in 1 .. copied |-> i] /\ C!Place(srcv) = copied
        /\ pc = "next" => C!Place(dstv) = copied
        /\ lost # 0 => pc = "done" /\ short
    BY Zenon DEF CopyInv, LossInv, Prefix
  <2>2. ASSUME pc = "done", ~ short
        PROVE  copied = C!min_size(C!fuse_buf_size(srcv), C!fuse_buf_size(dstv))
    <3>1. /\ copied <= C!fuse_buf_size(srcv) /\ copied <= C!fuse_buf_size(dstv)
          /\ \/ copied = C!fuse_buf_size(srcv)
             \/ copied = C!fuse_buf_size(dstv)
      BY <2>2, Zenon DEF CopyInv
    <3>2. C!fuse_buf_size(srcv) \in Nat /\ C!fuse_buf_size(dstv) \in Nat
      BY PlaceBound, Zenon DEF CopyInv
    <3> QED BY <3>1, <3>2, SMTT(30) DEF C!min_size
  <2> QED BY <2>1, <2>2, Zenon
<1>4. C!Init => LossInv
  BY Zenon DEF C!Init, LossInv
<1>5. CopyInv /\ LossInv /\ [C!Next]_C!vars => LossInv'
  BY LossStep
<1> QED BY <1>1, <1>2, <1>3, <1>4, <1>5, PTL DEF C!Spec
=============================================================================
