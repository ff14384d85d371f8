-------------------------- MODULE ApiDaemonProofs --------------------------
(***************************************************************************)
(* What the daemon and its clients can rely on, for any number of clients, *)
(* backends, imports, tasks and workers.  The inductive invariant ApiInv   *)
(* has five parts: the tasks and the pool (TaskInv), the life of the       *)
(* daemon (ListenInv) and its imports (ImportInv), the tracker and the     *)
(* tasks it stands for (TrackInv), and the two ends of every connection    *)
(* (ClientInv).                                                            *)
(***************************************************************************)
EXTENDS ApiDaemon, TLAPS

MsgKinds == {"load", "status", "unload", "get_config", "change_type", "garbage"}
Requests == [kind : MsgKinds \cup {None}, target : Targets \cup {None}, tid : Nat]
JobKinds == {"import", "load_path", "unload_path"}
Jobs == [kind : JobKinds, target : Targets \cup {None}, tid : Nat]
Statuses == {"task_pending", "task_in_progress"} \cup Results
Steps == {"taken", "working", "ended"}

\* The tasks that were submitted have a job, those that were taken a step, and
\* those that have a result do not run any more.
TaskInv ==
  /\ submitted \in Nat /\ taken \in Nat /\ taken <= submitted /\ running \subseteq 1 .. taken
  /\ stopping \in {"no", "marked", "joining", "stopped"}
  /\ stopping = "stopped" => running = {}
  /\ job \in Seq(Jobs) /\ Len(job) = submitted
  /\ step \in Seq(Steps) /\ Len(step) = taken
  /\ DOMAIN result \subseteq (1 .. taken) \ running

Early == {"backends", "importing", "unwinding", "failed"}
Serving == {"serving", "unloaded"}
Late == {"deaf", "stopping"}

Awaited(n) == \E i \in 1 .. Len(futures) : futures[i] = n
Succeeded(n) == Returned(n) /\ result[n] = "success"

\* How far the daemon is says whether it listens ...
ListenInv ==
  /\ daemon \in Early \cup Serving \cup Late \cup {"gone", "terminated"}
  /\ daemon \in Early => ios = "idle"
  /\ daemon \in Serving <=> ios \in Clients \cup {"running"}
  /\ daemon \in Late => ios = "stopped"
  /\ daemon = "gone" => ios = "idle" /\ stopping = "stopped" /\ \A c \in Clients : conn[c] = "closed"
  /\ daemon = "terminated" => ios = "idle"
  /\ sockfile = "bound" => daemon \in Serving \cup {"deaf", "terminated"}

\* ... and what became of the imports.
ImportInv ==
  /\ futures \in Seq(Nat) /\ importing \in Nat
  /\ daemon = "backends" => job = <<>>
  /\ \A n \in 1 .. Len(job) : job[n].kind = "import" =>
       /\ daemon = "importing" => Awaited(n) \/ Succeeded(n)
       /\ daemon = "unwinding" => Awaited(n) \/ Returned(n)
       /\ daemon = "failed" => Returned(n)
       /\ daemon \in Serving => Succeeded(n)

\* A request that is a task has a number of its own, whose status follows the
\* task's steps.
TrackInv ==
  /\ Len(m_tracker) \in Nat /\ DOMAIN m_tracker = 1 .. Len(m_tracker)
  /\ \A t \in DOMAIN m_tracker : m_tracker[t] \in Statuses
  /\ \A n \in 1 .. Len(job) : job[n].kind # "import" =>
       /\ job[n].tid \in DOMAIN m_tracker
       /\ n > taken \/ step[n] = "taken" => m_tracker[job[n].tid] = "task_pending"
       /\ n <= taken /\ step[n] = "working" => m_tracker[job[n].tid] = "task_in_progress"
  /\ \A n \in 1 .. taken : job[n].kind = "import" => step[n] # "working"
  /\ \A m, n \in 1 .. Len(job) :
       m # n /\ job[m].kind # "import" /\ job[n].kind # "import" => job[m].tid # job[n].tid

\* One status may follow another in what a client is told of a task.
Follows(a, b) == Rank(a) <= Rank(b) /\ (Rank(a) = 3 => a = b)

Resp(c) == unpack_from_buffer(reply[c][1])

ClientTypeOK ==
  /\ pc \in [Clients -> {"idle", "sending", "waiting", "dead"}]
  /\ tid \in [Clients -> Nat] /\ request \in [Clients -> Requests] /\ ref \in Nat
  /\ wire \in [Clients -> {"nothing", "prefix", "all"}]
  /\ conn \in [Clients -> {"closed", "backlog", "header", "body", "answered"}]
  /\ DOMAIN reply = Clients /\ DOMAIN seen = Clients

\* How far a call of the library has come, and the daemon with its answer.
CallInv(c) ==
  /\ pc[c] = "idle" => reply[c] = NoReply /\ wire[c] = "nothing"
  /\ pc[c] = "sending" => wire[c] = "prefix"
  /\ pc[c] = "waiting" => wire[c] = "all"
  /\ wire[c] # "nothing" => request[c].kind \in MsgKinds
  /\ reply[c] # NoReply => conn[c] \in {"answered", "closed"} /\ wire[c] = "all"
  /\ ios = c => conn[c] = "body" /\ wire[c] = "all"

\* The identifier a client has, and what it was told of it.
TidInv(c) ==
  /\ request[c].kind = "status" => request[c].tid = tid[c]
  /\ IF tid[c] = NoTid THEN seen[c] \in {None, "no_such_task"}
     ELSE /\ tid[c] \in DOMAIN m_tracker /\ Follows(seen[c], m_tracker[tid[c]])
          /\ seen[c] \in Statuses \cup {None}

\* The status that is being read for it, and the answers that are on their way.
AnswerInv(c) ==
  /\ ios = c => /\ ref \in DOMAIN m_tracker /\ request[c].kind # "load"
                /\ request[c].kind = "status" => ref = tid[c]
  /\ reply[c] # NoReply /\ request[c].kind = "status" =>
       IF tid[c] = NoTid THEN Resp(c).status = "no_such_task"
       ELSE /\ Resp(c).status \in Statuses /\ Follows(seen[c], Resp(c).status)
            /\ Follows(Resp(c).status, m_tracker[tid[c]])
  /\ reply[c] # NoReply /\ request[c].kind = "load" =>
       Resp(c).type = "ACCEPTED" /\ Resp(c).tid \in DOMAIN m_tracker /\ Resp(c).tid # tid[c]

\* The identifiers that a client has or is being given.
Given(c) ==
  {t \in DOMAIN m_tracker : t = tid[c] \/ (reply[c] # NoReply /\ request[c].kind = "load" /\ t = Resp(c).tid)}

ClientInv ==
  /\ ClientTypeOK
  /\ \A c \in Clients : CallInv(c) /\ TidInv(c) /\ AnswerInv(c)
  /\ \A c, d \in Clients : c # d => Given(c) \cap Given(d) = {}

ApiInv == TaskInv /\ ListenInv /\ ImportInv /\ TrackInv /\ ClientInv

-----------------------------------------------------------------------------
(* The tracker hands out 1, 2, 3, ...: zero is never a task's identifier.     *)
LEMMA Tracked == TrackInv => \A t \in DOMAIN m_tracker : t \in Nat \ {0} /\ t # NoTid
  BY DEF TrackInv, NoTid

ReqTypes == AnyType \cup {"load_path"}

(* What create_from_buffer can make of a message that a client sent.         *)
LEMMA Decoded ==
  ASSUME NEW c \in Clients, request[c] \in Requests, request[c].kind \in MsgKinds,
         NEW req \in decode_body(c)
  PROVE  /\ req.type \in ReqTypes /\ req.target \in Targets \cup {None}
         /\ request[c].kind = "load" => req.type = "load_path"
         /\ request[c].kind = "status" => req.type = "status" /\ req.tid = request[c].tid
<1> DEFINE msg == request[c]
<1>1. msg.target \in Targets \cup {None} BY Zenon DEF Requests
<1>2. CASE msg.kind = "load"
  BY <1>1, <1>2 DEF decode_body, create_from_buffer, Req, ReqTypes, AnyType
<1>3. CASE msg.kind = "status"
  BY <1>3 DEF decode_body, create_from_buffer, Req, ReqTypes, AnyType
<1>4. CASE msg.kind \in {"unload", "change_type"}
  BY <1>4 DEF decode_body, create_from_buffer, Req, ReqTypes, AnyType
<1>5. CASE msg.kind \in {"get_config", "garbage"}
  BY <1>5 DEF decode_body, create_from_buffer, Req, ReqTypes, AnyType
<1> QED BY <1>2, <1>3, <1>4, <1>5, Zenon DEF MsgKinds

(* A response survives its trip: the field that is left out of the message   *)
(* is the one that unpack_from_buffer leaves unset.                          *)
LEMMA RoundTrip ==
  ASSUME NEW type, NEW t, NEW status
  PROVE  unpack_from_buffer(store_to_buffer(response(type, t, status))) = response(type, t, status)
<1> DEFINE msg == store_to_buffer(response(type, t, status))
<1>1. /\ DOMAIN msg = {"type", "status"} \cup {y \in {"tid"} : t # NoTid}
      /\ msg["type"] = type /\ msg["status"] = status /\ (t # NoTid => msg["tid"] = t)
  BY Zenon DEF store_to_buffer, response
<1> HIDE DEF msg
<1>2. "tid" \in DOMAIN msg <=> t # NoTid BY <1>1, Zenon
<1>3. unpack_from_buffer(msg) = response(type, t, status) BY <1>1, <1>2, Zenon DEF unpack_from_buffer
<1> QED BY <1>3, Zenon DEF msg

(* An exception that nobody catches ends the process and leaves the rest.    *)
Throws == Rethrow \/ UnloadThrows \/ \E x \in 1 .. MaxTasks : RequestThrows(x)

(* Whatever throws, the process ends.                                        *)
LEMMA ThrowsTerminate == Throws => Terminate
BY Zenon DEF Throws, Rethrow, UnloadThrows, RequestThrows

(* The calls of a client leave the daemon alone.                             *)
LEMMA ClientQuiet ==
  ASSUME NEW c \in Clients,
         \/ efs_load(c) \/ efs_status(c) \/ efs_unload(c) \/ OtherProgram(c)
         \/ Proceed(c) \/ Killed(c) \/ Interrupt(c)
  PROVE  UNCHANGED <<poolVars, daemonVars, taskVars, m_tracker, listenVars>>
<1>1. ASSUME NEW what, Calls(c, what)
      PROVE  UNCHANGED <<poolVars, daemonVars, taskVars, m_tracker, listenVars>>
  BY <1>1, Zenon DEF Calls
<1>2. CASE efs_load(c) \/ efs_status(c) \/ OtherProgram(c)
  BY <1>1, <1>2, Zenon DEF efs_load, efs_status, OtherProgram, send_request
<1>3. CASE efs_unload(c) BY <1>1, <1>3, Zenon DEF efs_unload, send_unload_request
<1>4. CASE Proceed(c) BY <1>4, Zenon DEF Proceed, send_message, recv_message, EndOfStream
<1>5. CASE Killed(c) \/ Interrupt(c) BY <1>5, Zenon DEF Killed, Interrupt
<1> QED BY <1>2, <1>3, <1>4, <1>5, Zenon

(* What a handler of the listener can do to the tasks: submit one, that is   *)
(* not an import.                                                            *)
LEMMA ListenerTasks ==
  ASSUME NEW c \in Clients, ClientTypeOK, CallInv(c),
         \/ do_accept(c) \/ do_read_request(c) \/ DropSession(c)
         \/ do_read_request_body(c) \/ ReadStatus(c)
  PROVE  /\ UNCHANGED <<daemonVars, step, result, sockfile>>
         /\ \/ UNCHANGED <<poolVars, job, m_tracker>>
            \/ \E req : /\ submit /\ Track(c, req)
                         /\ req.type \in {"load_path", "unload_path"}
                         /\ req.target \in Targets \cup {None}
                         /\ request[c].kind # "status"
<1>1. CASE do_accept(c) \/ do_read_request(c) \/ DropSession(c) \/ ReadStatus(c)
  BY <1>1, Zenon DEF do_accept, do_read_request, DropSession, ReadStatus, taskVars, listenVars
<1>2. CASE do_read_request_body(c)
  <2>1. UNCHANGED <<daemonVars, step, result, sockfile>> /\ wire[c] = "all"
    BY <1>2, Zenon DEF do_read_request_body
  <2>2. PICK req \in decode_body(c) : api_handler(c, req) BY <1>2, Zenon DEF do_read_request_body
  <2>3. request[c] \in Requests /\ request[c].kind \in MsgKinds
    BY <2>1, Zenon DEF ClientTypeOK, CallInv
  <2>4. /\ req.type \in ReqTypes /\ req.target \in Targets \cup {None}
        /\ request[c].kind = "status" => req.type = "status"
    BY <2>3, Decoded, Zenon
  <2>5. CASE req.type = "bad_request" BY <2>1, <2>2, <2>5, Zenon DEF api_handler, Reject
  <2>6. CASE req.type = "status" BY <2>1, <2>2, <2>6, Zenon DEF api_handler, FindStatus
  <2>7. CASE req.type \notin {"bad_request", "status"}
    <3>1. Track(c, req) BY <2>2, <2>7, Zenon DEF api_handler
    <3>2. submit BY <3>1, Zenon DEF Track
    <3> QED BY <2>1, <2>4, <2>7, <3>1, <3>2, Zenon DEF ReqTypes, AnyType
  <2> QED BY <2>5, <2>6, <2>7, Zenon
<1> QED BY <1>1, <1>2, Zenon

-----------------------------------------------------------------------------
(* The parts of the invariant hold when the daemon starts.                   *)
LEMMA ApiInitInv == ApiInit => ApiInv
<1> SUFFICES ASSUME ApiInit PROVE ApiInv BY Zenon
<1> USE DEF ApiInit, PoolInit
<1>0. <<>> \in Seq(Jobs) /\ <<>> \in Seq(Steps) /\ <<>> \in Seq(Nat) OBVIOUS
<1>1. TaskInv BY <1>0 DEF TaskInv
<1>2. ListenInv /\ ImportInv BY <1>0, ApiAssumption, Zenon DEF ListenInv, ImportInv, Early, Serving, Late
<1>3. TrackInv
  <2>1. DOMAIN m_tracker = {} /\ job = <<>> OBVIOUS
  <2>2. Len(m_tracker) = 0 BY Zenon
  <2> QED BY <2>1, <2>2 DEF TrackInv
<1>4. ClientInv
  <2>1. NoRequest \in Requests BY Zenon DEF NoRequest, Requests, NoTid
  <2>2. ClientTypeOK BY <2>1, Zenon DEF ClientTypeOK, NoTid
  <2>3. \A c \in Clients : CallInv(c) /\ TidInv(c) /\ AnswerInv(c)
    BY ApiAssumption, Zenon DEF CallInv, TidInv, AnswerInv, NoRequest, None
  <2>4. \A c, d \in Clients : c # d => Given(c) \cap Given(d) = {} BY DEF Given
  <2> QED BY <2>2, <2>3, <2>4, Zenon DEF ClientInv
<1> QED BY <1>1, <1>2, <1>3, <1>4, Zenon DEF ApiInv

(* submit appends the job of the task it counts.                             *)
LEMMA SubmitTask ==
  ASSUME TaskInv, submit, NEW j \in Jobs, job' = Append(job, j), UNCHANGED <<step, result>>
  PROVE  /\ TaskInv'
         /\ Len(job') = Len(job) + 1 /\ job'[Len(job) + 1] = j
         /\ \A n \in 1 .. Len(job) : job'[n] = job[n]
         /\ submitted' = Len(job) + 1 /\ Len(job) \in Nat
BY SMTT(30) DEF TaskInv, submit

(* A worker that ends a task, or goes on with it.                            *)
LEMMA StepTask ==
  ASSUME TaskInv, NEW x, NEW s \in Steps, At(x, "taken") \/ At(x, "working"), Goto(x, s),
         finish(x) \/ UNCHANGED poolVars, UNCHANGED job,
         \/ UNCHANGED result
         \/ finish(x) /\ DOMAIN result' = DOMAIN result \cup {x}
  PROVE  /\ TaskInv' /\ x \in 1 .. taken /\ taken' = taken /\ x \notin DOMAIN result
         /\ \A n \in 1 .. taken : step'[n] = IF n = x THEN s ELSE step[n]
<1>1. x \in running /\ x \in 1 .. taken /\ x \notin DOMAIN result BY Zenon DEF At, TaskInv
<1>2. /\ step' = [step EXCEPT ![x] = s] /\ step \in Seq(Steps) /\ Len(step) = taken
  BY Zenon DEF Goto, TaskInv
<1>3. /\ step' \in Seq(Steps) /\ Len(step') = taken
      /\ \A n \in 1 .. taken : step'[n] = IF n = x THEN s ELSE step[n]
  BY <1>1, <1>2
<1>4. /\ UNCHANGED <<submitted, taken, stopping>> /\ running' \subseteq running
      /\ finish(x) => running' = running \ {x}
  BY Zenon DEF finish, poolVars
<1>5. DOMAIN result' \subseteq (1 .. taken) \ running'
  BY <1>1, <1>4, Zenon DEF TaskInv
<1>6. TaskInv' BY <1>3, <1>4, <1>5, Zenon DEF TaskInv
<1> QED BY <1>1, <1>3, <1>4, <1>6, Zenon

(* The jobs of initialize() and of the handler of requests.                  *)
ImportJob == [kind |-> "import", target |-> Resources[importing + 1], tid |-> NoTid]
RequestJob(req) == [kind |-> req.type, target |-> req.target, tid |-> create_tid]

(* What initialize() submits for an entry of the configuration is a job.     *)
LEMMA ImportJobs == ASSUME ImportInv, Import PROVE ImportJob \in Jobs
<1>1. Resources[importing + 1] \in Targets BY ApiAssumption DEF ImportInv, Import
<1> QED BY <1>1, Zenon DEF ImportJob, Jobs, JobKinds, NoTid

(* A request that is tracked submits its job under a new task number, which  *)
(* the tracker then knows.                                                   *)
LEMMA TrackJobs ==
  ASSUME TrackInv, NEW c, NEW req, Track(c, req), req.type \in {"load_path", "unload_path"},
         req.target \in Targets \cup {None}
  PROVE  /\ job' = Append(job, RequestJob(req)) /\ RequestJob(req) \in Jobs
         /\ create_tid \in Nat \ {0} /\ create_tid \notin DOMAIN m_tracker
         /\ DOMAIN m_tracker' = 1 .. create_tid /\ DOMAIN m_tracker' = DOMAIN m_tracker \cup {create_tid}
         /\ Len(m_tracker') = create_tid
         /\ m_tracker'[create_tid] = "task_pending"
         /\ \A t \in DOMAIN m_tracker : m_tracker'[t] = m_tracker[t]
<1>1. /\ create_tid \in Nat \ {0} /\ create_tid \notin DOMAIN m_tracker
      /\ DOMAIN m_tracker \cup {create_tid} = 1 .. create_tid
  BY DEF TrackInv, create_tid
<1>2. m_tracker' = [n \in DOMAIN m_tracker \cup {create_tid} |->
                      IF n = create_tid THEN "task_pending" ELSE m_tracker[n]]
  BY Zenon DEF Track, add
<1>3. Len(m_tracker') = create_tid BY <1>1, <1>2
<1>4. job' = Append(job, RequestJob(req)) BY Zenon DEF Track, RequestJob
<1>5. RequestJob(req) \in Jobs BY <1>1, Zenon DEF RequestJob, Jobs, JobKinds
<1> HIDE DEF create_tid
<1> QED BY <1>1, <1>2, <1>3, <1>4, <1>5, Zenon

(* The steps of a worker with its task.                                      *)
LEMMA WorkTask ==
  ASSUME TaskInv, NEW x, Work(x)
  PROVE  /\ TaskInv' /\ x \in 1 .. taken /\ taken' = taken /\ x \notin DOMAIN result
         /\ UNCHANGED <<daemonVars, job, listenVars, clientVars, stopping>>
         /\ step[x] \in {"taken", "working"}
         /\ \/ UNCHANGED result
            \/ /\ DOMAIN result' = DOMAIN result \cup {x}
               /\ \A n \in DOMAIN result : result'[n] = result[n]
         /\ \A n \in 1 .. taken : n # x => step'[n] = step[n]
<1>1. CASE RunImport(x)
  <2>1. PICK ec \in Results \cup {Thrown} :
           result' = [n \in DOMAIN result \cup {x} |-> IF n = x THEN ec ELSE result[n]]
    BY <1>1, Zenon DEF RunImport
  <2>2. x \notin DOMAIN result BY <1>1, Zenon DEF RunImport, At, TaskInv
  <2>3. DOMAIN result' = DOMAIN result \cup {x} /\ \A n \in DOMAIN result : result'[n] = result[n]
    BY <2>1, <2>2, Zenon
  <2>4. At(x, "taken") /\ Goto(x, "ended") /\ finish(x) /\ UNCHANGED job BY <1>1, Zenon DEF RunImport, Ends
  <2>5. UNCHANGED <<daemonVars, listenVars, clientVars, stopping>> BY <1>1, <2>4, Zenon DEF RunImport, finish
  <2> QED BY <2>3, <2>4, <2>5, StepTask, Zenon DEF Steps, At
<1>2. CASE BeginRequest(x)
  <2>1. At(x, "taken") /\ Goto(x, "working") /\ UNCHANGED <<poolVars, job, result>>
    BY <1>2, Zenon DEF BeginRequest
  <2>2. UNCHANGED <<daemonVars, listenVars, clientVars, stopping>> BY <1>2, Zenon DEF BeginRequest, poolVars
  <2> QED BY <2>1, <2>2, StepTask, Zenon DEF Steps, At
<1>3. CASE LeaveRequest(x) \/ EndRequest(x)
  <2>1. /\ At(x, "taken") \/ At(x, "working")
        /\ Goto(x, "ended") /\ finish(x) /\ UNCHANGED <<job, result>>
    BY <1>3, Zenon DEF LeaveRequest, EndRequest, Ends
  <2>2. UNCHANGED <<daemonVars, listenVars, clientVars, stopping>>
    BY <1>3, <2>1, Zenon DEF LeaveRequest, EndRequest, finish
  <2> QED BY <2>1, <2>2, StepTask, Zenon DEF Steps, At
<1> QED BY <1>1, <1>2, <1>3, Zenon DEF Work

(* The tasks stay in order through every step.                               *)
LEMMA TaskStep == ASSUME ApiInv, [ApiNext]_allVars PROVE TaskInv'
<1>0. TaskInv /\ ClientTypeOK /\ \A c \in Clients : CallInv(c) BY Zenon DEF ApiInv, ClientInv
<1>1. ASSUME UNCHANGED <<poolVars, taskVars>> PROVE TaskInv'
  BY <1>0, <1>1, Zenon DEF TaskInv, poolVars, taskVars
<1>2. CASE Import
  <2>1. CASE UNCHANGED <<poolVars, job>> BY <1>1, <1>2, <2>1, Zenon DEF Import, taskVars
  <2>2. CASE submit /\ job' = Append(job, ImportJob)
    BY <1>0, <1>2, <2>2, ImportJobs, SubmitTask, Zenon DEF Import, ApiInv
  <2> QED BY <1>2, <2>1, <2>2, Zenon DEF Import, ImportJob
<1>3. CASE CreateBackends \/ WaitImport \/ Unwind \/ StartListener \/ Unload
  BY <1>1, <1>3, Zenon DEF CreateBackends, WaitImport, Unwind, StartListener, Unload
<1>4. CASE StopListener \/ RemoveSocket \/ Destroy \/ Rest
  BY <1>1, <1>4, Zenon DEF StopListener, RemoveSocket, Destroy, Rest, allVars
<1>5. CASE StopPool BY <1>0, <1>5, Zenon DEF StopPool, stop, TaskInv, taskVars
<1>6. CASE TakeTask
  <2>1. /\ taken' = taken + 1 /\ running' = running \cup {taken + 1} /\ taken < submitted
        /\ step' = Append(step, "taken") /\ stopping # "stopped"
        /\ UNCHANGED <<submitted, stopping, job, result>>
    BY <1>6, Zenon DEF TakeTask, take
  <2> QED BY <1>0, <2>1 DEF TaskInv, Steps
<1>7. ASSUME NEW x \in 1 .. MaxTasks, Work(x) PROVE TaskInv'
  BY <1>0, <1>7, WorkTask, Zenon
<1>8. ASSUME NEW c \in Clients,
             \/ do_accept(c) \/ do_read_request(c) \/ DropSession(c)
             \/ do_read_request_body(c) \/ ReadStatus(c)
      PROVE  TaskInv'
  <2>1. UNCHANGED <<step, result>> BY <1>0, <1>8, ListenerTasks, Zenon
  <2>2. CASE UNCHANGED <<poolVars, job, m_tracker>> BY <1>1, <2>1, <2>2, Zenon DEF taskVars
  <2>3. ASSUME NEW req, submit, Track(c, req), req.type \in {"load_path", "unload_path"},
               req.target \in Targets \cup {None}
        PROVE  TaskInv'
    BY <1>0, <2>1, <2>3, TrackJobs, SubmitTask, Zenon DEF ApiInv
  <2> QED BY <1>0, <1>8, <2>2, <2>3, ListenerTasks, Zenon
<1>9. ASSUME NEW c \in Clients,
             \/ efs_load(c) \/ efs_status(c) \/ efs_unload(c) \/ OtherProgram(c)
             \/ Proceed(c) \/ Killed(c) \/ Interrupt(c)
      PROVE  TaskInv'
  BY <1>1, <1>9, ClientQuiet, Zenon
<1>10. CASE UNCHANGED allVars BY <1>1, <1>10, Zenon DEF allVars
<1>11. CASE Throws BY <1>1, <1>11, ThrowsTerminate, Zenon DEF Terminate
<1> QED
  BY <1>2, <1>3, <1>4, <1>5, <1>6, <1>7, <1>8, <1>9, <1>10, <1>11, Zenon
  DEF ApiNext, Start, Teardown, Listener, Throws

-----------------------------------------------------------------------------
(* The daemon listens in the phases that say so, and when it is gone nobody  *)
(* is connected.                                                             *)
LEMMA ListenStep == ASSUME ApiInv, [ApiNext]_allVars PROVE ListenInv'
<1> USE DEF Early, Serving, Late
<1>0. /\ ListenInv /\ TaskInv /\ ClientTypeOK /\ \A c \in Clients : CallInv(c)
      /\ Clients \cap {"idle", "running", "stopped"} = {}
  BY ApiAssumption, Zenon DEF ApiInv, ClientInv
<1>1. ASSUME UNCHANGED <<daemon, ios, sockfile, stopping, conn>> PROVE ListenInv'
  BY <1>0, <1>1, Zenon DEF ListenInv
<1>2. CASE CreateBackends \/ Import \/ WaitImport \/ Unwind
  <2>1. UNCHANGED <<ios, sockfile, conn>> /\ daemon \in Early /\ daemon' \in Early
    BY <1>2, Zenon DEF CreateBackends, Import, WaitImport, Unwind, AllSubmitted, listenVars, clientVars
  <2> QED BY <1>0, <2>1, Zenon DEF ListenInv
<1>3. CASE StartListener BY <1>0, <1>3, Zenon DEF ListenInv, StartListener, run
<1>4. CASE Unload BY <1>0, <1>4, Zenon DEF ListenInv, Unload, listenVars
<1>5. CASE StopListener BY <1>0, <1>5, Zenon DEF ListenInv, StopListener
<1>6. CASE RemoveSocket BY <1>0, <1>6, Zenon DEF ListenInv, RemoveSocket
<1>7. CASE StopPool
  BY <1>0, <1>7, Zenon DEF ListenInv, StopPool, stop, daemonVars, listenVars, clientVars
<1>8. CASE Destroy
  <2>1. /\ daemon' = "gone" /\ ios' = "idle" /\ stopping' = "stopped" /\ sockfile' = sockfile
        /\ sockfile # "bound"
    BY <1>0, <1>8, Zenon DEF Destroy, poolVars, ListenInv
  <2>2. \A c \in Clients : conn'[c] = "closed" BY <1>8, Zenon DEF Destroy
  <2> QED BY <1>0, <2>1, <2>2, Zenon DEF ListenInv
<1>9. CASE TakeTask
  BY <1>1, <1>9, Zenon DEF TakeTask, take, daemonVars, listenVars, clientVars
<1>10. ASSUME NEW x \in 1 .. MaxTasks, Work(x) PROVE ListenInv'
  BY <1>0, <1>1, <1>10, WorkTask, Zenon DEF daemonVars, listenVars, clientVars
<1>11. ASSUME NEW c \in Clients,
              \/ do_accept(c) \/ do_read_request(c) \/ DropSession(c)
              \/ do_read_request_body(c) \/ ReadStatus(c)
       PROVE  ListenInv'
  <2>1. ios \in Clients \cup {"running"} /\ ios' \in Clients \cup {"running"}
    <3>1. CASE do_accept(c) \/ do_read_request(c) \/ DropSession(c) \/ ReadStatus(c)
      BY <1>11, <3>1, Zenon DEF do_accept, do_read_request, DropSession, ReadStatus, Listening, listenVars
    <3>2. CASE do_read_request_body(c)
      <4>1. PICK req \in decode_body(c) : api_handler(c, req) BY <3>2, Zenon DEF do_read_request_body
      <4>2. ios' = ios \/ ios' = c
        BY <4>1, Zenon DEF api_handler, Reject, FindStatus, Track
      <4> QED BY <3>2, <4>2, Zenon DEF do_read_request_body, Listening
    <3> QED BY <1>11, <3>1, <3>2, Zenon
  <2>2. UNCHANGED <<daemon, sockfile>> BY <1>0, <1>11, ListenerTasks, Zenon DEF daemonVars
  <2> QED BY <1>0, <2>1, <2>2, Zenon DEF ListenInv
<1>12. ASSUME NEW c \in Clients,
              \/ efs_load(c) \/ efs_status(c) \/ efs_unload(c) \/ OtherProgram(c)
              \/ Proceed(c) \/ Killed(c) \/ Interrupt(c)
       PROVE  ListenInv'
  <2>1. UNCHANGED <<daemon, sockfile, ios, stopping>>
    BY <1>12, ClientQuiet, Zenon DEF poolVars, daemonVars, listenVars
  <2>2. UNCHANGED conn \/ conn' = [conn EXCEPT ![c] = "closed"] \/ sockfile = "bound"
    <3>1. ASSUME NEW what, send_request(c, what)
          PROVE  conn' = [conn EXCEPT ![c] = "closed"] \/ sockfile = "bound"
      BY <3>1, Zenon DEF send_request, connect_to_daemon, Reachable, Return, Goes
    <3>2. CASE efs_load(c) \/ efs_status(c) \/ OtherProgram(c)
      BY <3>1, <3>2, Zenon DEF efs_load, efs_status, OtherProgram
    <3>3. CASE efs_unload(c) BY <3>3, Zenon DEF efs_unload, send_unload_request
    <3>4. CASE Proceed(c)
      BY <3>4, Zenon DEF Proceed, send_message, recv_message, EndOfStream, Return, Goes
    <3>5. CASE Killed(c) \/ Interrupt(c) BY <3>5, Zenon DEF Killed, Interrupt
    <3> QED BY <1>12, <3>2, <3>3, <3>4, <3>5, Zenon
  <2>3. daemon = "gone" => \A d \in Clients : conn'[d] = "closed"
    BY <1>0, <2>2, Zenon DEF ListenInv, ClientTypeOK
  <2> QED BY <1>0, <2>1, <2>3, Zenon DEF ListenInv
<1>13. CASE UNCHANGED allVars
  BY <1>1, <1>13, Zenon DEF allVars, poolVars, daemonVars, listenVars, clientVars
<1>14. CASE Throws
  <2>1. daemon' = "terminated" /\ ios' = "idle" BY <1>14, ThrowsTerminate, Zenon DEF Terminate
  <2> QED BY <1>0, <2>1, Zenon DEF ListenInv
<1> QED
  BY <1>2, <1>3, <1>4, <1>5, <1>6, <1>7, <1>8, <1>9, <1>10, <1>11, <1>12, <1>13, <1>14, Zenon
  DEF ApiNext, Start, Teardown, Listener, Rest, Throws

-----------------------------------------------------------------------------
(* What a step leaves of an import's result, once it is there.               *)
ResultsStay ==
  /\ DOMAIN result \subseteq DOMAIN result'
  /\ \A n \in DOMAIN result : result'[n] = result[n]

(* Imports are only ever added to while the daemon is importing.             *)
LEMMA ImportFrame ==
  ASSUME ImportInv, UNCHANGED <<daemon, futures, importing>>, ResultsStay,
         \/ UNCHANGED job
         \/ /\ daemon # "backends" /\ Len(job) \in Nat
            /\ Len(job') = Len(job) + 1 /\ job'[Len(job) + 1].kind # "import"
            /\ \A n \in 1 .. Len(job) : job'[n] = job[n]
  PROVE  ImportInv'
<1>1. ASSUME NEW n \in 1 .. Len(job'), job'[n].kind = "import"
      PROVE  n \in 1 .. Len(job) /\ job[n].kind = "import"
  BY <1>1
<1>2. \A n : /\ Returned(n) => Returned(n)'
             /\ Succeeded(n) => Succeeded(n)'
             /\ Awaited(n)' <=> Awaited(n)
  BY Zenon DEF ResultsStay, Returned, Succeeded, Awaited
<1>3. daemon' = "backends" => job' = <<>> BY Zenon DEF ImportInv
<1> QED BY <1>1, <1>2, <1>3, Zenon DEF ImportInv

(* Every import that was submitted is awaited until its result is known, and *)
(* one that fails ends the start of the daemon.                              *)
LEMMA ImportStep == ASSUME ApiInv, [ApiNext]_allVars PROVE ImportInv'
<1>0. /\ ImportInv /\ ListenInv /\ TaskInv /\ TrackInv /\ ClientTypeOK
      /\ \A c \in Clients : CallInv(c)
  BY Zenon DEF ApiInv, ClientInv
<1>a. UNCHANGED result => ResultsStay BY Zenon DEF ResultsStay
<1>1. ASSUME UNCHANGED <<daemon, futures, importing, job, result>> PROVE ImportInv'
  BY <1>0, <1>a, <1>1, ImportFrame, Zenon
<1>2. CASE CreateBackends
  <2>1. UNCHANGED <<job, futures, importing>> /\ job = <<>> /\ daemon' \in {"failed", "importing"}
    BY <1>0, <1>2, Zenon DEF CreateBackends, taskVars, ImportInv
  <2> QED BY <1>0, <2>1 DEF ImportInv, Serving
<1>3. CASE Import
  <2>1. daemon = "importing" /\ importing' = importing + 1 /\ UNCHANGED result BY <1>3, Zenon DEF Import
  <2>2. CASE UNCHANGED <<job, futures>> /\ daemon' \in {"importing", "unwinding"}
    <3>1. \A n : /\ Succeeded(n) => Returned(n)
                 /\ Returned(n)' <=> Returned(n)
                 /\ Succeeded(n)' <=> Succeeded(n)
                 /\ Awaited(n)' <=> Awaited(n)
      BY <2>1, <2>2, Zenon DEF Succeeded, Returned, Awaited
    <3> QED BY <1>0, <2>1, <2>2, <3>1 DEF ImportInv, Serving
  <2>3. CASE /\ submit /\ job' = Append(job, ImportJob) /\ futures' = Append(futures, submitted')
             /\ UNCHANGED daemon
    <3>1. /\ Len(job') = Len(job) + 1 /\ Len(job) \in Nat /\ submitted' = Len(job) + 1
          /\ \A n \in 1 .. Len(job) : job'[n] = job[n]
      BY <1>0, <1>3, <2>3, ImportJobs, SubmitTask, Zenon DEF Import
    <3>2. /\ Len(futures') = Len(futures) + 1 /\ futures' \in Seq(Nat)
          /\ futures'[Len(futures) + 1] = Len(job) + 1 /\ Len(futures) \in Nat
          /\ \A i \in 1 .. Len(futures) : futures'[i] = futures[i]
      BY <1>0, <2>3, <3>1 DEF ImportInv
    <3>3. \A n : n = Len(job) + 1 => Awaited(n)'
      <4>1. Len(futures) + 1 \in 1 .. Len(futures') BY <3>2
      <4> QED BY <3>2, <4>1, Zenon DEF Awaited
    <3>4. \A n : /\ Awaited(n) => Awaited(n)'
                 /\ Succeeded(n) => Succeeded(n)'
      BY <2>1, <3>2 DEF Awaited, Succeeded, Returned
    <3>5. \A n \in 1 .. Len(job') : job'[n].kind = "import" => Awaited(n)' \/ Succeeded(n)'
      BY <1>0, <2>1, <3>1, <3>3, <3>4 DEF ImportInv
    <3> QED BY <1>0, <2>1, <2>3, <3>2, <3>5 DEF ImportInv, Serving
  <2> QED BY <1>3, <2>1, <2>2, <2>3, Zenon DEF Import, ImportJob
<1>b. ASSUME futures # <<>>, futures' = Tail(futures)
      PROVE  /\ Head(futures) = futures[1] /\ futures' \in Seq(Nat)
             /\ \A n : Awaited(n) => n = futures[1] \/ Awaited(n)'
  <2>1. /\ futures' \in Seq(Nat) /\ Len(futures') = Len(futures) - 1 /\ Len(futures) \in Nat
        /\ Head(futures) = futures[1]
        /\ \A i \in 1 .. Len(futures') : futures'[i] = futures[i + 1]
    BY <1>0, <1>b DEF ImportInv
  <2>2. ASSUME NEW n, NEW i \in 1 .. Len(futures), futures[i] = n, i # 1 PROVE Awaited(n)'
    <3>1. i - 1 \in 1 .. Len(futures') /\ futures'[i - 1] = n BY <2>1, <2>2
    <3> QED BY <3>1, Zenon DEF Awaited
  <2> QED BY <2>1, <2>2, Zenon DEF Awaited
<1>4. CASE WaitImport
  <2>1. /\ daemon = "importing" /\ futures # <<>> /\ Returned(Head(futures)) /\ futures' = Tail(futures)
        /\ daemon' = IF result[Head(futures)] = "success" THEN daemon ELSE "unwinding"
        /\ UNCHANGED <<importing, job, result>>
    BY <1>4, Zenon DEF WaitImport, AllSubmitted, taskVars
  <2>2. /\ Head(futures) = futures[1] /\ futures' \in Seq(Nat)
        /\ \A n : Awaited(n) => n = futures[1] \/ Awaited(n)'
    BY <1>b, <2>1, Zenon
  <2>4. \A n : /\ Returned(n)' <=> Returned(n)
               /\ Succeeded(n)' <=> Succeeded(n)
               /\ Succeeded(n) => Returned(n)
    BY <2>1, Zenon DEF Succeeded, Returned
  <2>5. ASSUME NEW n \in 1 .. Len(job), job[n].kind = "import"
        PROVE  /\ daemon' = "importing" => Awaited(n)' \/ Succeeded(n)'
               /\ daemon' = "unwinding" => Awaited(n)' \/ Returned(n)'
    BY <1>0, <2>1, <2>2, <2>4, <2>5, Zenon DEF ImportInv, Succeeded
  <2> QED BY <1>0, <2>1, <2>2, <2>5, Zenon DEF ImportInv, Serving
<1>5. CASE Unwind
  <2>1. daemon = "unwinding" /\ UNCHANGED <<importing, job, result>> BY <1>5, Zenon DEF Unwind, taskVars
  <2>2. \A n : Returned(n)' <=> Returned(n) BY <2>1, Zenon DEF Returned
  <2>3. CASE futures = <<>> /\ daemon' = "failed" /\ UNCHANGED futures
    <3>1. \A n \in 1 .. Len(job) : job[n].kind = "import" => Returned(n)
      BY <1>0, <2>1, <2>3 DEF ImportInv, Awaited
    <3> QED BY <1>0, <2>1, <2>2, <2>3, <3>1, Zenon DEF ImportInv, Serving
  <2>4. CASE /\ futures # <<>> /\ Returned(Head(futures)) /\ futures' = Tail(futures)
             /\ UNCHANGED daemon
    <3>1. /\ Head(futures) = futures[1] /\ futures' \in Seq(Nat)
          /\ \A n : Awaited(n) => n = futures[1] \/ Awaited(n)'
      BY <1>b, <2>4, Zenon
    <3>2. \A n \in 1 .. Len(job) : job[n].kind = "import" => Awaited(n)' \/ Returned(n)'
      BY <1>0, <2>1, <2>2, <2>4, <3>1, Zenon DEF ImportInv
    <3> QED BY <1>0, <2>1, <2>4, <3>1, <3>2, Zenon DEF ImportInv, Serving
  <2> QED BY <1>5, <2>3, <2>4, Zenon DEF Unwind
<1>6. CASE StartListener
  <2>1. /\ daemon = "importing" /\ daemon' = "serving" /\ futures = <<>>
        /\ UNCHANGED <<importing, job, result, futures>>
    BY <1>6, Zenon DEF StartListener, AllSubmitted, taskVars
  <2>2. \A n \in 1 .. Len(job) : job[n].kind = "import" => Succeeded(n)
    BY <1>0, <2>1 DEF ImportInv, Awaited
  <2>3. \A n : Succeeded(n)' <=> Succeeded(n) BY <2>1, Zenon DEF Succeeded, Returned
  <2> QED BY <1>0, <2>1, <2>2, <2>3, Zenon DEF ImportInv, Serving
<1>7. CASE Unload \/ StopListener \/ RemoveSocket \/ Destroy
  <2>1. /\ UNCHANGED <<futures, importing, job, result>>
        /\ daemon' \in {"unloaded", "deaf", "stopping", "gone"}
        /\ daemon' = "unloaded" => daemon = "serving"
    BY <1>7, Zenon DEF Unload, StopListener, RemoveSocket, Destroy, taskVars
  <2>2. \A n : Succeeded(n) => Succeeded(n)' BY <2>1, Zenon DEF Succeeded, Returned
  <2> QED BY <1>0, <2>1, <2>2, Zenon DEF ImportInv, Serving
<1>8. CASE StopPool \/ TakeTask \/ UNCHANGED allVars
  BY <1>1, <1>8, Zenon DEF StopPool, TakeTask, allVars, daemonVars, taskVars
<1>9. ASSUME NEW x \in 1 .. MaxTasks, Work(x) PROVE ImportInv'
  <2>1. UNCHANGED <<daemon, futures, importing, job>> BY <1>0, <1>9, WorkTask, Zenon DEF daemonVars
  <2>2. ResultsStay BY <1>0, <1>9, WorkTask, Zenon DEF ResultsStay
  <2> QED BY <1>0, <2>1, <2>2, ImportFrame, Zenon
<1>10. ASSUME NEW c \in Clients,
              \/ do_accept(c) \/ do_read_request(c) \/ DropSession(c)
              \/ do_read_request_body(c) \/ ReadStatus(c)
       PROVE  ImportInv'
  <2>1. UNCHANGED <<daemon, futures, importing, step, result>>
    BY <1>0, <1>10, ListenerTasks, Zenon DEF daemonVars
  <2>2. CASE UNCHANGED <<poolVars, job, m_tracker>> BY <1>1, <2>1, <2>2, Zenon
  <2>3. ASSUME NEW req, submit, Track(c, req), req.type \in {"load_path", "unload_path"},
               req.target \in Targets \cup {None}
        PROVE  ImportInv'
    <3>1. job' = Append(job, RequestJob(req)) /\ RequestJob(req) \in Jobs BY <1>0, <2>3, TrackJobs, Zenon
    <3>2. /\ Len(job') = Len(job) + 1 /\ Len(job) \in Nat /\ job'[Len(job) + 1] = RequestJob(req)
          /\ \A n \in 1 .. Len(job) : job'[n] = job[n]
      BY <1>0, <2>1, <2>3, <3>1, SubmitTask, Zenon
    <3>3. RequestJob(req).kind # "import" BY <2>3, Zenon DEF RequestJob
    <3>4. daemon # "backends"
      <4>1. ios \in Clients \cup {"running"}
        BY <1>10, <2>3, Zenon DEF do_accept, do_read_request, DropSession, do_read_request_body, ReadStatus, Listening
      <4> QED BY <1>0, <4>1, Zenon DEF ListenInv, Serving
    <3> QED BY <1>0, <1>a, <2>1, <3>2, <3>3, <3>4, ImportFrame, Zenon
  <2> QED BY <1>0, <1>10, <2>2, <2>3, ListenerTasks, Zenon
<1>11. ASSUME NEW c \in Clients,
              \/ efs_load(c) \/ efs_status(c) \/ efs_unload(c) \/ OtherProgram(c)
              \/ Proceed(c) \/ Killed(c) \/ Interrupt(c)
       PROVE  ImportInv'
  BY <1>1, <1>11, ClientQuiet, Zenon DEF daemonVars, taskVars
<1>12. CASE Throws
  <2>1. daemon' = "terminated" /\ UNCHANGED <<futures, importing, job, result>>
    BY <1>12, ThrowsTerminate, Zenon DEF Terminate, taskVars
  <2> QED BY <1>0, <2>1, Zenon DEF ImportInv, Serving
<1> QED
  BY <1>2, <1>3, <1>4, <1>5, <1>6, <1>7, <1>8, <1>9, <1>10, <1>11, <1>12, Zenon
  DEF ApiNext, Start, Teardown, Listener, Rest, Throws

-----------------------------------------------------------------------------
(* What Rank says of the statuses a client can be told.                      *)
LEMMA Ranks ==
  /\ \A a : Rank(a) \in 0 .. 3 /\ Follows(a, a)
  /\ \A a, b, d : Follows(a, b) /\ Follows(b, d) => Follows(a, d)
  /\ \A b : Follows(None, b)
  /\ \A b \in Statuses : Follows("task_pending", b)
  /\ \A b \in Results : Follows("task_in_progress", b)
<1>1. \A a : Rank(a) \in 0 .. 3 BY DEF Rank
<1>2. \A a, b, d : Follows(a, b) /\ Follows(b, d) => Follows(a, d)
  <2>1. SUFFICES ASSUME NEW a, NEW b, NEW d, Follows(a, b), Follows(b, d) PROVE Follows(a, d)
    BY Zenon
  <2>2. /\ Rank(a) \in 0 .. 3 /\ Rank(b) \in 0 .. 3 /\ Rank(d) \in 0 .. 3
        /\ Rank(a) <= Rank(b) /\ Rank(b) <= Rank(d) /\ (Rank(a) = 3 => a = b) /\ (Rank(b) = 3 => b = d)
    BY <1>1, <2>1, Zenon DEF Follows
  <2>3. Rank(a) <= Rank(d) BY <2>2
  <2>4. Rank(a) = 3 => a = d BY <2>2, Zenon
  <2> QED BY <2>3, <2>4, Zenon DEF Follows
<1>3. /\ Rank(None) = 0 /\ Rank("task_pending") = 1 /\ Rank("task_in_progress") = 2
      /\ \A b \in Results : Rank(b) = 3
  BY Zenon DEF Rank, None, Results
<1>4. \A b : Follows(None, b) BY <1>1, <1>3 DEF Follows
<1>5. \A b \in Statuses : Follows("task_pending", b) BY <1>3 DEF Follows, Statuses
<1>6. \A b \in Results : Follows("task_in_progress", b) BY <1>3 DEF Follows
<1>7. \A a : Follows(a, a) BY <1>1 DEF Follows
<1> QED BY <1>1, <1>2, <1>4, <1>5, <1>6, <1>7, Zenon

\* No task that is tracked is forgotten, and its status only goes on.
Forward ==
  \A t \in DOMAIN m_tracker : t \in DOMAIN m_tracker' /\ Follows(m_tracker[t], m_tracker'[t])

(* set records a status of the task of one request.                          *)
LEMMA SetStatus ==
  ASSUME TaskInv, TrackInv, NEW x \in 1 .. taken, job[x].kind # "import",
         NEW ec \in Statuses, set(job[x].tid, ec), Follows(m_tracker[job[x].tid], ec),
         UNCHANGED <<job, taken>>,
         \A n \in 1 .. taken : n # x => step'[n] = step[n],
         step'[x] = IF ec = "task_in_progress" THEN "working" ELSE "ended"
  PROVE  TrackInv' /\ Forward
<1> DEFINE t == job[x].tid
<1>1. taken \in Nat /\ Len(job) \in Nat /\ taken <= Len(job) /\ x \in 1 .. Len(job)
  BY DEF TaskInv
<1>2. t \in DOMAIN m_tracker BY <1>1, Zenon DEF TrackInv
<1>3. DOMAIN m_tracker' = DOMAIN m_tracker /\ Len(m_tracker') = Len(m_tracker)
      /\ \A u \in DOMAIN m_tracker : m_tracker'[u] = IF u = t THEN ec ELSE m_tracker[u]
  <2>1. Len(m_tracker) \in Nat /\ DOMAIN m_tracker = 1 .. Len(m_tracker) BY Zenon DEF TrackInv
  <2> QED BY <2>1 DEF set
<1> HIDE DEF t
<1>4. Forward BY <1>2, <1>3, Ranks, Zenon DEF Forward, t
<1>5. ASSUME NEW n \in 1 .. Len(job), job[n].kind # "import"
      PROVE  /\ job[n].tid \in DOMAIN m_tracker
             /\ n > taken \/ step'[n] = "taken" => m_tracker'[job[n].tid] = "task_pending"
             /\ n <= taken /\ step'[n] = "working" => m_tracker'[job[n].tid] = "task_in_progress"
  <2>1. CASE n = x BY <1>1, <1>2, <1>3, <2>1 DEF t
  <2>2. CASE n # x
    <3>1. job[n].tid \in DOMAIN m_tracker /\ job[n].tid # t BY <1>1, <1>5, <2>2, Zenon DEF TrackInv, t
    <3>2. m_tracker'[job[n].tid] = m_tracker[job[n].tid] BY <1>3, <3>1, Zenon
    <3>3. n <= taken => step'[n] = step[n] BY <1>1, <2>2
    <3>4. /\ n > taken \/ step[n] = "taken" => m_tracker[job[n].tid] = "task_pending"
          /\ n <= taken /\ step[n] = "working" => m_tracker[job[n].tid] = "task_in_progress"
      BY <1>5, Zenon DEF TrackInv
    <3> QED BY <1>1, <3>1, <3>2, <3>3, <3>4
  <2> QED BY <2>1, <2>2, Zenon
<1>6. \A n \in 1 .. taken : job[n].kind = "import" => step'[n] # "working" BY Zenon DEF TrackInv
<1>7. \A u \in DOMAIN m_tracker : m_tracker'[u] \in Statuses BY <1>3, Zenon DEF TrackInv
<1>8. TrackInv'
  <2>1. \A n \in 1 .. Len(job') : job'[n].kind # "import" =>
          /\ job'[n].tid \in DOMAIN m_tracker'
          /\ n > taken' \/ step'[n] = "taken" => m_tracker'[job'[n].tid] = "task_pending"
          /\ n <= taken' /\ step'[n] = "working" => m_tracker'[job'[n].tid] = "task_in_progress"
    BY <1>3, <1>5, Zenon
  <2> QED BY <1>3, <1>6, <1>7, <2>1 DEF TrackInv
<1> QED BY <1>4, <1>8, Zenon

(* The status of a request follows the task that a worker makes of it, and   *)
(* no step takes it back.                                                    *)
LEMMA TrackStep == ASSUME ApiInv, [ApiNext]_allVars PROVE TrackInv' /\ Forward
<1>0. /\ ImportInv /\ TaskInv /\ TrackInv /\ ClientTypeOK /\ \A c \in Clients : CallInv(c)
  BY Zenon DEF ApiInv, ClientInv
<1>a. UNCHANGED m_tracker => Forward BY Ranks, Zenon DEF Forward
<1>b. /\ taken \in Nat /\ Len(job) \in Nat /\ taken <= Len(job) /\ Len(step) = taken /\ step \in Seq(Steps)
      /\ submitted = Len(job) /\ job \in Seq(Jobs)
  BY <1>0, Zenon DEF TaskInv
<1>1. ASSUME UNCHANGED <<taken, step, job, m_tracker>> PROVE TrackInv' /\ Forward
  BY <1>0, <1>a, <1>1 DEF TrackInv
<1>2. CASE CreateBackends \/ WaitImport \/ Unwind \/ StartListener \/ Unload
  BY <1>1, <1>2, Zenon DEF CreateBackends, WaitImport, Unwind, StartListener, Unload, taskVars, poolVars
<1>3. CASE StopListener \/ RemoveSocket \/ Destroy \/ UNCHANGED allVars
  BY <1>1, <1>3, Zenon DEF StopListener, RemoveSocket, Destroy, allVars, taskVars, poolVars
<1>4. CASE StopPool BY <1>1, <1>4, Zenon DEF StopPool, stop, taskVars
<1>5. CASE Import
  <2>1. UNCHANGED <<step, result, m_tracker>> BY <1>5, Zenon DEF Import
  <2>2. CASE UNCHANGED <<poolVars, job>> BY <1>1, <2>1, <2>2, Zenon DEF poolVars
  <2>3. CASE submit /\ job' = Append(job, ImportJob)
    <3>1. /\ Len(job') = Len(job) + 1 /\ job'[Len(job) + 1].kind = "import"
          /\ \A n \in 1 .. Len(job) : job'[n] = job[n]
      BY <1>0, <1>5, <2>1, <2>3, ImportJobs, SubmitTask DEF ImportJob
    <3>2. UNCHANGED <<taken, step>> BY <2>1, <2>3, Zenon DEF submit
    <3>3. \A n \in 1 .. Len(job') : job'[n].kind # "import" => n \in 1 .. Len(job) /\ job'[n] = job[n]
      BY <1>b, <3>1
    <3>4. \A n \in 1 .. taken : job'[n] = job[n] BY <1>b, <3>1
    <3> HIDE DEF ImportJob
    <3> QED BY <1>0, <1>a, <2>1, <3>2, <3>3, <3>4, SMTT(30) DEF TrackInv
  <2> QED BY <1>5, <2>2, <2>3, Zenon DEF Import, ImportJob
<1>6. CASE TakeTask
  <2>1. /\ taken' = taken + 1 /\ taken < submitted /\ step' = Append(step, "taken")
        /\ UNCHANGED <<job, m_tracker>>
    BY <1>6, Zenon DEF TakeTask, take
  <2>2. step'[taken + 1] = "taken" /\ \A n \in 1 .. taken : step'[n] = step[n] BY <1>b, <2>1
  <2>3. \A n \in 1 .. Len(job) : job[n].kind # "import" =>
          /\ n > taken' \/ step'[n] = "taken" => m_tracker[job[n].tid] = "task_pending"
          /\ n <= taken' /\ step'[n] = "working" => m_tracker[job[n].tid] = "task_in_progress"
    <3>1. SUFFICES ASSUME NEW n \in 1 .. Len(job), job[n].kind # "import"
                   PROVE  /\ n > taken' \/ step'[n] = "taken" => m_tracker[job[n].tid] = "task_pending"
                          /\ n <= taken' /\ step'[n] = "working" => m_tracker[job[n].tid] = "task_in_progress"
      BY Zenon
    <3>2. CASE n \in 1 .. taken
      BY <1>0, <1>b, <2>1, <2>2, <3>1, <3>2 DEF TrackInv
    <3>3. CASE n > taken
      <4>1. n = taken + 1 \/ n > taken + 1 BY <1>b, <3>3
      <4> QED BY <1>0, <1>b, <2>1, <2>2, <3>1, <3>3, <4>1 DEF TrackInv
    <3> QED BY <1>b, <3>2, <3>3
  <2>4. \A n \in 1 .. taken' : job[n].kind = "import" => step'[n] # "working"
    BY <1>0, <1>b, <2>1, <2>2 DEF TrackInv
  <2> QED BY <1>0, <1>a, <2>1, <2>3, <2>4, ZenonT(30) DEF TrackInv
<1>7. ASSUME NEW x \in 1 .. MaxTasks, Work(x) PROVE TrackInv' /\ Forward
  <2>1. /\ x \in 1 .. taken /\ taken' = taken /\ UNCHANGED job /\ step[x] \in {"taken", "working"}
        /\ \A n \in 1 .. taken : n # x => step'[n] = step[n]
    BY <1>0, <1>7, WorkTask, Zenon
  <2>2. x \in 1 .. Len(step) /\ x \in 1 .. Len(job) BY <1>b, <2>1
  <2>3. \A s : Goto(x, s) => step'[x] = s BY <1>b, <2>2, SMTT(30) DEF Goto
  <2>4. CASE RunImport(x) \/ LeaveRequest(x)
    <3>1. UNCHANGED m_tracker /\ step'[x] = "ended" BY <2>3, <2>4, Zenon DEF RunImport, LeaveRequest, Ends
    <3>2. \A n \in 1 .. taken : step'[n] = step[n] \/ step'[n] = "ended" BY <2>1, <3>1, Zenon
    <3>3. \A n \in 1 .. Len(job) : job[n].kind # "import" =>
            /\ n > taken \/ step'[n] = "taken" => m_tracker[job[n].tid] = "task_pending"
            /\ n <= taken /\ step'[n] = "working" => m_tracker[job[n].tid] = "task_in_progress"
      <4>1. \A n \in 1 .. Len(job) : n > taken \/ n \in 1 .. taken BY <1>b
      <4>2. \A n \in 1 .. taken : n <= taken /\ ~ (n > taken) BY <1>b
      <4> QED BY <1>0, <3>2, <4>1, <4>2 DEF TrackInv
    <3>4. \A n \in 1 .. taken : job[n].kind = "import" => step'[n] # "working"
      BY <1>0, <3>2, Zenon DEF TrackInv
    <3> QED BY <1>0, <1>a, <2>1, <3>1, <3>3, <3>4 DEF TrackInv
  <2>5. CASE BeginRequest(x)
    <3>1. /\ job[x].kind # "import" /\ set(job[x].tid, "task_in_progress") /\ step'[x] = "working"
          /\ step[x] = "taken"
      BY <2>3, <2>5, Zenon DEF BeginRequest, Known, At
    <3>2. m_tracker[job[x].tid] = "task_pending" BY <1>0, <2>2, <3>1, Zenon DEF TrackInv
    <3> QED BY <1>0, <2>1, <3>1, <3>2, SetStatus, Ranks, Zenon DEF Statuses
  <2>6. CASE EndRequest(x)
    <3>1. step[x] = "working" /\ step'[x] = "ended" BY <2>3, <2>6, Zenon DEF EndRequest, At, Ends
    <3>2. PICK ec \in Results : set(job[x].tid, ec) BY <2>6, Zenon DEF EndRequest
    <3>3. job[x].kind # "import" BY <1>0, <2>1, <3>1, Zenon DEF TrackInv
    <3>4. m_tracker[job[x].tid] = "task_in_progress"
      BY <1>0, <1>b, <2>1, <2>2, <3>1, <3>3 DEF TrackInv
    <3>5. ec # "task_in_progress" /\ ec \in Statuses BY <3>2, Zenon DEF Results, Statuses
    <3> QED BY <1>0, <2>1, <3>1, <3>2, <3>3, <3>4, <3>5, SetStatus, Ranks, Zenon
  <2> QED BY <1>7, <2>4, <2>5, <2>6, Zenon DEF Work
<1>8. ASSUME NEW c \in Clients,
             \/ do_accept(c) \/ do_read_request(c) \/ DropSession(c)
             \/ do_read_request_body(c) \/ ReadStatus(c)
      PROVE  TrackInv' /\ Forward
  <2>1. UNCHANGED <<step, result>> BY <1>0, <1>8, ListenerTasks, Zenon
  <2>2. CASE UNCHANGED <<poolVars, job, m_tracker>> BY <1>1, <2>1, <2>2, Zenon DEF poolVars
  <2>3. ASSUME NEW req, submit, Track(c, req), req.type \in {"load_path", "unload_path"},
               req.target \in Targets \cup {None}
        PROVE  TrackInv' /\ Forward
    <3>1. PICK t : t = create_tid BY Zenon
    <3>2. /\ job' = Append(job, RequestJob(req)) /\ RequestJob(req) \in Jobs
          /\ t \in Nat \ {0} /\ t \notin DOMAIN m_tracker
          /\ DOMAIN m_tracker' = 1 .. t /\ DOMAIN m_tracker' = DOMAIN m_tracker \cup {t}
          /\ Len(m_tracker') = t /\ m_tracker'[t] = "task_pending"
          /\ \A u \in DOMAIN m_tracker : m_tracker'[u] = m_tracker[u]
      BY <1>0, <2>3, <3>1, TrackJobs, Zenon
    <3>3. /\ Len(job') = Len(job) + 1 /\ job'[Len(job) + 1].tid = t
          /\ job'[Len(job) + 1].kind # "import"
          /\ \A n \in 1 .. Len(job) : job'[n] = job[n]
      BY <1>0, <2>1, <2>3, <3>1, <3>2, SubmitTask DEF RequestJob
    <3>4. taken' = taken /\ step' = step BY <2>1, <2>3, Zenon DEF submit
    <3>5. Forward BY <3>2, Ranks, ZenonT(60) DEF Forward
    <3>6. \A n \in 1 .. Len(job') : job'[n].kind # "import" =>
            /\ job'[n].tid \in DOMAIN m_tracker'
            /\ n > taken \/ step[n] = "taken" => m_tracker'[job'[n].tid] = "task_pending"
            /\ n <= taken /\ step[n] = "working" => m_tracker'[job'[n].tid] = "task_in_progress"
      BY <1>0, <1>b, <3>2, <3>3, SMTT(30) DEF TrackInv
    <3>7. \A m, n \in 1 .. Len(job') :
            m # n /\ job'[m].kind # "import" /\ job'[n].kind # "import" => job'[m].tid # job'[n].tid
      BY <1>0, <1>b, <3>2, <3>3 DEF TrackInv
    <3>8. \A n \in 1 .. taken : job'[n] = job[n] BY <1>b, <3>3
    <3>9. \A u \in DOMAIN m_tracker' : m_tracker'[u] \in Statuses
      BY <1>0, <3>2, Zenon DEF TrackInv, Statuses
    <3>10. /\ DOMAIN m_tracker' = 1 .. Len(m_tracker')
           /\ \A n \in 1 .. taken : job'[n].kind = "import" => step[n] # "working"
      BY <1>0, <3>2, <3>8, Zenon DEF TrackInv
    <3> QED BY <3>2, <3>4, <3>5, <3>6, <3>7, <3>9, <3>10, Zenon DEF TrackInv
  <2> QED BY <1>0, <1>8, <2>2, <2>3, ListenerTasks, Zenon
<1>9. ASSUME NEW c \in Clients,
             \/ efs_load(c) \/ efs_status(c) \/ efs_unload(c) \/ OtherProgram(c)
             \/ Proceed(c) \/ Killed(c) \/ Interrupt(c)
      PROVE  TrackInv' /\ Forward
  BY <1>1, <1>9, ClientQuiet, Zenon DEF taskVars, poolVars
<1>10. CASE Throws BY <1>1, <1>10, ThrowsTerminate, Zenon DEF Terminate, taskVars, poolVars
<1> QED
  BY <1>2, <1>3, <1>4, <1>5, <1>6, <1>7, <1>8, <1>9, <1>10, Zenon
  DEF ApiNext, Start, Teardown, Listener, Rest, Throws

-----------------------------------------------------------------------------
\* A step leaves what a client knows and has asked as it is, and the answer.
Keeps(d) ==
  /\ tid'[d] = tid[d] /\ seen'[d] = seen[d] /\ request'[d] = request[d]
  /\ wire'[d] = wire[d] /\ reply'[d] = reply[d]

(* The invariant of a client survives what others do, and what moves only    *)
(* its connection.                                                           *)
LEMMA RowStays ==
  ASSUME ClientInv, TrackInv, TrackInv', Forward, NEW d \in Clients, Keeps(d),
         pc'[d] = pc[d] \/ pc'[d] = "dead",
         conn'[d] = conn[d] \/ (reply[d] # NoReply => conn'[d] \in {"answered", "closed"}),
         ios' = d => ios = d /\ ref' = ref /\ conn'[d] = conn[d]
  PROVE  CallInv(d)' /\ TidInv(d)' /\ AnswerInv(d)' /\ Given(d)' \subseteq Given(d)
<1>0. CallInv(d) /\ TidInv(d) /\ AnswerInv(d) BY Zenon DEF ClientInv
<1>1. CallInv(d)' BY <1>0, Zenon DEF CallInv, Keeps
<1>2. TidInv(d)' BY <1>0, Ranks DEF TidInv, Keeps, Forward
<1>3. Resp(d)' = Resp(d) BY Zenon DEF Resp, Keeps
<1>4. AnswerInv(d)'
  <2>1. ios' = d => ref' \in DOMAIN m_tracker' /\ request'[d].kind # "load"
                    /\ (request'[d].kind = "status" => ref' = tid'[d])
    BY <1>0, Zenon DEF AnswerInv, Keeps, Forward
  <2>2. ASSUME reply'[d] # NoReply, request'[d].kind = "status", tid'[d] # NoTid
        PROVE  /\ Resp(d)'.status \in Statuses /\ Follows(seen'[d], Resp(d)'.status)
               /\ Follows(Resp(d)'.status, m_tracker'[tid'[d]])
    <3>1. /\ Resp(d).status \in Statuses /\ Follows(seen[d], Resp(d).status)
          /\ Follows(Resp(d).status, m_tracker[tid[d]]) /\ tid[d] \in DOMAIN m_tracker
      BY <1>0, <2>2, Zenon DEF AnswerInv, TidInv, Keeps
    <3> QED BY <1>3, <3>1, Ranks, Zenon DEF Forward, Keeps
  <2>3. ASSUME reply'[d] # NoReply, request'[d].kind = "status", tid'[d] = NoTid
        PROVE  Resp(d)'.status = "no_such_task"
    BY <1>0, <1>3, <2>3, Zenon DEF AnswerInv, Keeps
  <2>4. ASSUME reply'[d] # NoReply, request'[d].kind = "load"
        PROVE  Resp(d)'.type = "ACCEPTED" /\ Resp(d)'.tid \in DOMAIN m_tracker' /\ Resp(d)'.tid # tid'[d]
    BY <1>0, <1>3, <2>4, Zenon DEF AnswerInv, Keeps, Forward
  <2> QED BY <2>1, <2>2, <2>3, <2>4, Zenon DEF AnswerInv, NoTid
<1>5. Given(d)' \subseteq Given(d)
  <2>1. NoTid \notin DOMAIN m_tracker' BY DEF TrackInv, NoTid
  <2>2. SUFFICES ASSUME NEW t \in Given(d)' PROVE t \in Given(d) BY Zenon
  <2>3. t \in DOMAIN m_tracker' /\ (t = tid[d] \/ (reply[d] # NoReply /\ request[d].kind = "load" /\ t = Resp(d).tid))
    BY <1>3, <2>2, Zenon DEF Given, Keeps
  <2>4. t # NoTid BY <2>1, <2>3, Zenon
  <2>5. t \in DOMAIN m_tracker BY <1>0, <2>3, <2>4, Zenon DEF TidInv, AnswerInv
  <2> QED BY <2>3, <2>5, Zenon DEF Given
<1> QED BY <1>1, <1>2, <1>4, <1>5, Zenon

(* A step that changes the row of one client.                                *)
LEMMA RowMoves ==
  ASSUME ClientInv, TrackInv, TrackInv', Forward, NEW c \in Clients, ClientTypeOK',
         \A d \in Clients \ {c} : Keeps(d) /\ pc'[d] = pc[d] /\ conn'[d] = conn[d],
         ios' # ios => ios' \in {"running", c}, ios' # c => ref' = ref \/ ios' = "running",
         CallInv(c)', TidInv(c)', AnswerInv(c)',
         \A t \in Given(c)' : t \in Given(c) \/ t \notin DOMAIN m_tracker
  PROVE  ClientInv'
<1>1. ASSUME NEW d \in Clients, d # c
      PROVE  CallInv(d)' /\ TidInv(d)' /\ AnswerInv(d)' /\ Given(d)' \subseteq Given(d)
  <2>1. ios' = d => ios = d /\ ref' = ref BY <1>1, ApiAssumption, Zenon
  <2>2. Keeps(d) /\ pc'[d] = pc[d] /\ conn'[d] = conn[d] BY <1>1, Zenon
  <2> QED BY <2>1, <2>2, RowStays, Zenon
<1>2. \A d : Given(d) \subseteq DOMAIN m_tracker BY Zenon DEF Given
<1>3. ASSUME NEW d \in Clients, NEW e \in Clients, d # e PROVE Given(d)' \cap Given(e)' = {}
  BY <1>1, <1>2, <1>3, Zenon DEF ClientInv
<1>4. \A d \in Clients : CallInv(d)' /\ TidInv(d)' /\ AnswerInv(d)' BY <1>1, Zenon
<1> QED BY <1>3, <1>4, Zenon DEF ClientInv

(* The answer that the daemon writes is the one that the client will read.   *)
LEMMA Answered ==
  ASSUME ClientTypeOK, NEW c \in Clients, NEW type, NEW t, NEW status, Respond(c, type, t, status)
  PROVE  /\ DOMAIN reply' = Clients /\ reply'[c] # NoReply /\ Resp(c)' = response(type, t, status)
         /\ \A d \in Clients \ {c} : reply'[d] = reply[d]
         /\ conn' \in [Clients -> {"closed", "backlog", "header", "body", "answered"}]
         /\ conn'[c] = "answered" /\ \A d \in Clients \ {c} : conn'[d] = conn[d]
<1> DEFINE m == store_to_buffer(response(type, t, status))
<1>1. reply' = [reply EXCEPT ![c] = <<m>>] /\ conn' = [conn EXCEPT ![c] = "answered"]
  BY Zenon DEF Respond, do_write_response, Goes
<1>2. unpack_from_buffer(m) = response(type, t, status) BY RoundTrip, Zenon
<1> HIDE DEF m
<1>3. reply'[c] = <<m>> BY <1>1, Zenon DEF ClientTypeOK
<1>4. Resp(c)' = response(type, t, status) BY <1>2, <1>3 DEF Resp
<1>5. reply'[c] # NoReply BY <1>3 DEF NoReply
<1> QED BY <1>1, <1>4, <1>5, Zenon DEF ClientTypeOK

(* A call that returns leaves the client ready for the next one.             *)
LEMMA Returns ==
  ASSUME ClientInv, TrackInv, TrackInv', Forward, NEW c \in Clients, Return(c),
         UNCHANGED listenVars, ios # c, tid' \in [Clients -> Nat], DOMAIN seen' = Clients,
         \A d \in Clients \ {c} : tid'[d] = tid[d] /\ seen'[d] = seen[d],
         TidInv(c)', \A t \in Given(c)' : t \in Given(c)
  PROVE  ClientInv'
<1>1. ClientTypeOK BY Zenon DEF ClientInv
<1>2. /\ pc' = [pc EXCEPT ![c] = "idle"] /\ request' = [request EXCEPT ![c] = NoRequest]
      /\ wire' = [wire EXCEPT ![c] = "nothing"] /\ reply' = [reply EXCEPT ![c] = NoReply]
      /\ conn' = [conn EXCEPT ![c] = "closed"] /\ UNCHANGED <<ios, ref>>
  BY Zenon DEF Return, Goes, listenVars
<1>3. NoRequest \in Requests BY Zenon DEF NoRequest, Requests, NoTid
<1>4. ClientTypeOK'
  BY <1>1, <1>2, <1>3, Zenon DEF ClientTypeOK
<1>5. /\ pc'[c] = "idle" /\ wire'[c] = "nothing" /\ reply'[c] = NoReply /\ request'[c] = NoRequest
      /\ \A d \in Clients \ {c} : Keeps(d) /\ pc'[d] = pc[d] /\ conn'[d] = conn[d]
  BY <1>1, <1>2, Zenon DEF ClientTypeOK, Keeps
<1>6. CallInv(c)' /\ AnswerInv(c)' BY <1>2, <1>5, Zenon DEF CallInv, AnswerInv, NoRequest
<1> QED BY <1>2, <1>4, <1>5, <1>6, RowMoves, Zenon

-----------------------------------------------------------------------------
(* A request that was read in full is answered, or its status is looked up.  *)
LEMMA HandlerStep ==
  ASSUME ApiInv, TrackInv', Forward, NEW c \in Clients, do_read_request_body(c)
  PROVE  ClientInv'
<1>0. /\ ClientInv /\ TrackInv /\ ClientTypeOK /\ CallInv(c) /\ TidInv(c) /\ AnswerInv(c)
  BY Zenon DEF ApiInv, ClientInv
<1>1. /\ ios = "running" /\ conn[c] = "body" /\ wire[c] = "all"
      /\ UNCHANGED <<pc, request, wire, tid, seen>>
  BY Zenon DEF do_read_request_body, Listening
<1>2. PICK req \in decode_body(c) : api_handler(c, req) BY Zenon DEF do_read_request_body
<1>3. /\ reply[c] = NoReply /\ request[c] \in Requests /\ request[c].kind \in MsgKinds
      /\ c # "running"
  BY <1>0, <1>1, ApiAssumption, Zenon DEF CallInv, ClientTypeOK
<1>4. /\ req.type \in ReqTypes /\ req.target \in Targets \cup {None}
      /\ request[c].kind = "load" => req.type = "load_path"
      /\ request[c].kind = "status" => req.type = "status" /\ req.tid = request[c].tid
  BY <1>3, Decoded, Zenon
<1>5. TidInv(c)' BY <1>0, <1>1, Ranks, Zenon DEF TidInv, Forward
<1>6. ASSUME NEW type, NEW t, NEW status, Respond(c, type, t, status), UNCHANGED <<ios, ref>>,
             AnswerInv(c)', \A u \in Given(c)' : u \in Given(c) \/ u \notin DOMAIN m_tracker
      PROVE  ClientInv'
  <2>1. /\ DOMAIN reply' = Clients /\ reply'[c] # NoReply
        /\ \A d \in Clients \ {c} : reply'[d] = reply[d]
        /\ conn' \in [Clients -> {"closed", "backlog", "header", "body", "answered"}]
        /\ conn'[c] = "answered" /\ \A d \in Clients \ {c} : conn'[d] = conn[d]
    BY <1>0, <1>6, Answered, Zenon
  <2>2. ClientTypeOK' BY <1>0, <1>1, <1>6, <2>1, Zenon DEF ClientTypeOK
  <2>3. CallInv(c)' BY <1>0, <1>1, <1>3, <1>6, <2>1, Zenon DEF CallInv
  <2>4. \A d \in Clients \ {c} : Keeps(d) /\ pc'[d] = pc[d] /\ conn'[d] = conn[d]
    BY <1>1, <2>1, Zenon DEF Keeps
  <2> QED BY <1>0, <1>5, <1>6, <2>2, <2>3, <2>4, RowMoves, Zenon
<1>7. ASSUME NEW type, NEW t, NEW status, Respond(c, type, t, status), request[c].kind # "load"
      PROVE  \A u \in Given(c)' : u \in Given(c) \/ u \notin DOMAIN m_tracker
  BY <1>1, <1>7, Zenon DEF Given
<1>8. CASE req.type = "bad_request"
  <2>1. /\ Respond(c, "REJECTED", NoTid, "bad_request") /\ UNCHANGED <<m_tracker, ios, ref>>
        /\ request[c].kind \notin {"load", "status"}
    BY <1>2, <1>4, <1>8, Zenon DEF api_handler, Reject
  <2>2. AnswerInv(c)' BY <1>1, <1>3, <2>1, Zenon DEF AnswerInv
  <2> QED BY <1>6, <1>7, <2>1, <2>2, Zenon
<1>9. CASE req.type = "status"
  <2>1. FindStatus(c, req.tid) /\ request[c].kind # "load" BY <1>2, <1>4, <1>9, Zenon DEF api_handler
  <2>2. request[c].kind = "status" => req.tid = tid[c] BY <1>0, <1>4, Zenon DEF TidInv
  <2>3. CASE get(req.tid) = {} /\ Respond(c, "ACCEPTED", NoTid, "no_such_task")
             /\ UNCHANGED <<m_tracker, ios, ref>>
    <3>1. request[c].kind = "status" => tid[c] = NoTid
      BY <1>0, <2>2, <2>3, Zenon DEF get, TidInv
    <3>2. Resp(c)' = response("ACCEPTED", NoTid, "no_such_task") BY <1>0, <2>3, Answered
    <3>3. Resp(c)'.status = "no_such_task" BY <3>2 DEF response
    <3>4. AnswerInv(c)' BY <1>1, <1>3, <2>1, <2>3, <3>1, <3>3, Zenon DEF AnswerInv
    <3> QED BY <1>6, <1>7, <2>1, <2>3, <3>4, Zenon
  <2>4. CASE (\E n \in get(req.tid) : ios' = c /\ ref' = n)
             /\ UNCHANGED <<poolVars, job, m_tracker, conn, reply>>
    <3>1. ios' = c /\ ref' = req.tid /\ req.tid \in DOMAIN m_tracker BY <2>4, Zenon DEF get
    <3>2. req.tid \in Nat BY <1>0, <3>1, Tracked, Zenon
    <3>3. ClientTypeOK' BY <1>0, <1>1, <2>4, <3>1, <3>2, Zenon DEF ClientTypeOK
    <3>4. CallInv(c)' BY <1>0, <1>1, <1>3, <2>4, <3>1, Zenon DEF CallInv
    <3>5. AnswerInv(c)' BY <1>1, <1>3, <2>1, <2>2, <2>4, <3>1, Zenon DEF AnswerInv
    <3>6. Given(c)' = Given(c) BY <1>1, <1>3, <2>4, Zenon DEF Given
    <3>7. \A d \in Clients \ {c} : Keeps(d) /\ pc'[d] = pc[d] /\ conn'[d] = conn[d]
      BY <1>1, <2>4, Zenon DEF Keeps
    <3> QED BY <1>0, <1>5, <3>1, <3>3, <3>4, <3>5, <3>6, <3>7, RowMoves, Zenon
  <2> QED BY <2>1, <2>3, <2>4, Zenon DEF FindStatus
<1>10. CASE req.type \notin {"bad_request", "status"}
  <2>1. Track(c, req) BY <1>2, <1>10, Zenon DEF api_handler
  <2>2. PICK t : t = create_tid BY Zenon
  <2>3. Respond(c, "ACCEPTED", t, "success") /\ UNCHANGED <<ios, ref>> BY <2>1, <2>2, Zenon DEF Track
  <2>4. /\ t \in Nat \ {0} /\ t \notin DOMAIN m_tracker /\ t \in DOMAIN m_tracker'
        /\ DOMAIN m_tracker' = DOMAIN m_tracker \cup {t}
    BY <1>0, <1>4, <1>10, <2>1, <2>2, TrackJobs, Zenon DEF ReqTypes, AnyType
  <2>5. Resp(c)' = response("ACCEPTED", t, "success") BY <1>0, <2>3, Answered
  <2>6. Resp(c)'.type = "ACCEPTED" /\ Resp(c)'.tid = t BY <2>5 DEF response
  <2>7. tid[c] # t BY <1>0, <2>4, Zenon DEF TidInv, NoTid
  <2>8. request[c].kind # "status" BY <1>4, <1>10, Zenon
  <2>9. AnswerInv(c)' BY <1>1, <1>3, <2>3, <2>4, <2>6, <2>7, <2>8, Zenon DEF AnswerInv
  <2>10. \A u \in Given(c)' : u \in Given(c) \/ u \notin DOMAIN m_tracker
    BY <1>1, <2>4, <2>6, Zenon DEF Given
  <2> QED BY <1>6, <2>3, <2>9, <2>10, Zenon
<1> QED BY <1>8, <1>9, <1>10, Zenon

(* The status of a task is read through the reference, after the lock.       *)
LEMMA ReadStep ==
  ASSUME ApiInv, TrackInv', Forward, NEW c \in Clients, ReadStatus(c)
  PROVE  ClientInv'
<1>0. /\ ClientInv /\ TrackInv /\ ClientTypeOK /\ CallInv(c) /\ TidInv(c) /\ AnswerInv(c)
  BY DEF ApiInv, ClientInv
<1>1. /\ ios = c /\ Respond(c, "ACCEPTED", NoTid, m_tracker[ref]) /\ ios' = "running"
      /\ ref' = NoTid /\ UNCHANGED <<m_tracker, pc, request, wire, tid, seen>>
  BY Zenon DEF ReadStatus
<1>2. /\ DOMAIN reply' = Clients /\ reply'[c] # NoReply
      /\ Resp(c)' = response("ACCEPTED", NoTid, m_tracker[ref])
      /\ \A d \in Clients \ {c} : reply'[d] = reply[d]
      /\ conn' \in [Clients -> {"closed", "backlog", "header", "body", "answered"}]
      /\ conn'[c] = "answered" /\ \A d \in Clients \ {c} : conn'[d] = conn[d]
  BY <1>0, <1>1, Answered
<1>3. ClientTypeOK' BY <1>0, <1>1, <1>2, Zenon DEF ClientTypeOK, NoTid
<1>4. c # "running" /\ wire[c] = "all" BY <1>0, <1>1, ApiAssumption, Zenon DEF CallInv
<1>5. CallInv(c)' BY <1>0, <1>1, <1>2, <1>4, Zenon DEF CallInv
<1>6. TidInv(c)' BY <1>0, <1>1, Zenon DEF TidInv
<1>7. Resp(c)'.status = m_tracker[ref] BY <1>2 DEF response
<1>8. /\ ref \in DOMAIN m_tracker /\ request[c].kind # "load" /\ m_tracker[ref] \in Statuses
      /\ request[c].kind = "status" => ref = tid[c]
  BY <1>0, <1>1, Zenon DEF AnswerInv, TrackInv
<1>9. ref # NoTid BY <1>0, <1>8, Tracked, Zenon
<1>10. request[c].kind = "status" => Follows(seen[c], m_tracker[ref]) BY <1>0, <1>8, <1>9, Zenon DEF TidInv
<1>11. AnswerInv(c)' BY <1>1, <1>4, <1>7, <1>8, <1>9, <1>10, Ranks, Zenon DEF AnswerInv
<1>12. \A u \in Given(c)' : u \in Given(c) BY <1>1, <1>8, Zenon DEF Given
<1>13. \A d \in Clients \ {c} : Keeps(d) /\ pc'[d] = pc[d] /\ conn'[d] = conn[d]
  BY <1>1, <1>2, Zenon DEF Keeps
<1> QED BY <1>0, <1>1, <1>3, <1>5, <1>6, <1>11, <1>12, <1>13, RowMoves, Zenon

-----------------------------------------------------------------------------
(* A call that is sent: nothing of an earlier one is left in its way.        *)
LEMMA SendStep ==
  ASSUME ApiInv, TrackInv', Forward, NEW c \in Clients, NEW what \in Targets \cup (Kinds \ {"efs_unload"}),
         send_request(c, what)
  PROVE  ClientInv'
<1>0. /\ ClientInv /\ TrackInv /\ ClientTypeOK /\ CallInv(c) /\ TidInv(c) /\ AnswerInv(c)
  BY Zenon DEF ApiInv, ClientInv
<1>1. /\ pc[c] = "idle" /\ UNCHANGED <<m_tracker, listenVars, tid, seen>>
      /\ reply[c] = NoReply /\ wire[c] = "nothing" /\ ios # c
  BY <1>0, Zenon DEF send_request, Calls, CallInv
<1>2. CASE Return(c)
  <2>1. reply' = [reply EXCEPT ![c] = NoReply] /\ request' = [request EXCEPT ![c] = NoRequest]
    BY <1>2, Zenon DEF Return
  <2>2. TidInv(c)' BY <1>0, <1>1, <2>1, Zenon DEF TidInv, ClientTypeOK, NoRequest, None
  <2>3. \A t \in Given(c)' : t \in Given(c) BY <1>0, <1>1, <2>1, Zenon DEF Given, ClientTypeOK
  <2>4. tid' \in [Clients -> Nat] /\ DOMAIN seen' = Clients BY <1>0, <1>1, Zenon DEF ClientTypeOK
  <2> QED BY <1>0, <1>1, <1>2, <2>2, <2>3, <2>4, Returns, Zenon
<1>3. CASE /\ connect_to_daemon(c) /\ pc' = [pc EXCEPT ![c] = "sending"]
           /\ pack_to_buffer(c, what)
           /\ wire' = [wire EXCEPT ![c] = "prefix"] /\ UNCHANGED <<errno, reply>>
  <2>1. PICK msg : msg = build_request_msg(c, what) BY Zenon
  <2>2. /\ msg \in Requests /\ msg.kind \in MsgKinds /\ (msg.kind = "status" => msg.tid = tid[c])
    <3>1. tid[c] \in Nat BY <1>0, Zenon DEF ClientTypeOK
    <3>2. CASE what \in Targets /\ msg = build_load_path_msg(what)
      BY <3>2, Zenon DEF build_load_path_msg, Requests, MsgKinds, NoTid
    <3>3. CASE msg = [kind |-> "status", target |-> None, tid |-> tid[c]]
      BY <3>1, <3>3, Zenon DEF Requests, MsgKinds
    <3>4. CASE what \in Kinds \ {"efs_unload", "status"} /\ msg = [kind |-> what, target |-> None, tid |-> NoTid]
      BY <3>4, Zenon DEF Requests, MsgKinds, Kinds, NoTid
    <3> QED BY <2>1, <3>2, <3>3, <3>4 DEF build_request_msg
  <2>3. request' = [request EXCEPT ![c] = msg] /\ conn' = [conn EXCEPT ![c] = "backlog"]
    BY <1>3, <2>1, Zenon DEF pack_to_buffer, connect_to_daemon, Goes
  <2>4. /\ request'[c] = msg /\ wire'[c] = "prefix" /\ pc'[c] = "sending"
        /\ \A d \in Clients \ {c} : Keeps(d) /\ pc'[d] = pc[d] /\ conn'[d] = conn[d]
    BY <1>0, <1>1, <1>3, <2>3, Zenon DEF ClientTypeOK, Keeps
  <2>5. ClientTypeOK' BY <1>0, <1>1, <1>3, <2>2, <2>3, Zenon DEF ClientTypeOK, listenVars
  <2>6. CallInv(c)' BY <1>1, <1>3, <2>2, <2>4, Zenon DEF CallInv, listenVars
  <2>7. TidInv(c)' BY <1>0, <1>1, <2>2, <2>4, Zenon DEF TidInv
  <2>8. AnswerInv(c)' BY <1>1, <1>3, Zenon DEF AnswerInv, listenVars
  <2>9. \A t \in Given(c)' : t \in Given(c) BY <1>1, <1>3, Zenon DEF Given
  <2> QED BY <1>0, <1>1, <2>4, <2>5, <2>6, <2>7, <2>8, <2>9, RowMoves, Zenon DEF listenVars
<1> QED BY <1>2, <1>3, Zenon DEF send_request

(* The end of a call: what the client makes of the response it reads.        *)
LEMMA ReceiveStep ==
  ASSUME ApiInv, TrackInv', Forward, NEW c \in Clients, recv_message(c)
  PROVE  ClientInv'
<1>0. /\ ClientInv /\ TrackInv /\ ClientTypeOK /\ CallInv(c) /\ TidInv(c) /\ AnswerInv(c)
  BY DEF ApiInv, ClientInv
<1>1. /\ reply[c] # NoReply /\ Return(c) /\ UNCHANGED <<m_tracker, listenVars>>
      /\ CASE request[c].kind = "load" -> send_load_request(c, Resp(c))
           [] request[c].kind = "status" -> send_status_request(c, Resp(c))
           [] OTHER -> UNCHANGED <<tid, seen>>
  BY Zenon DEF recv_message, Resp
<1>2. ios # c BY <1>0, <1>1, Zenon DEF CallInv
<1>3. reply'[c] = NoReply /\ request'[c] = NoRequest BY <1>0, <1>1, Zenon DEF Return, ClientTypeOK
<1>4. CASE request[c].kind = "load"
  <2>1. /\ Resp(c).type = "ACCEPTED" /\ Resp(c).tid \in DOMAIN m_tracker
    BY <1>0, <1>1, <1>4, Zenon DEF AnswerInv
  <2>2. tid' = [tid EXCEPT ![c] = Resp(c).tid] /\ seen' = [seen EXCEPT ![c] = None]
    BY <1>1, <1>4, <2>1, Zenon DEF send_load_request
  <2>3. Resp(c).tid \in Nat \ {0} BY <1>0, <2>1, Tracked, Zenon
  <2> HIDE DEF Resp
  <2>4. /\ tid' \in [Clients -> Nat] /\ DOMAIN seen' = Clients
        /\ \A d \in Clients \ {c} : tid'[d] = tid[d] /\ seen'[d] = seen[d]
        /\ tid'[c] = Resp(c).tid /\ seen'[c] = None
    BY <1>0, <2>2, <2>3, Zenon DEF ClientTypeOK
  <2>5. TidInv(c)' BY <1>1, <1>3, <2>1, <2>3, <2>4, Ranks DEF TidInv, NoRequest, None, NoTid
  <2>6. \A t \in Given(c)' : t \in Given(c) BY <1>1, <1>3, <1>4, <2>4, Zenon DEF Given
  <2> QED BY <1>0, <1>1, <1>2, <2>4, <2>5, <2>6, Returns, Zenon
<1>5. CASE request[c].kind = "status"
  <2>1. seen' = [seen EXCEPT ![c] = Resp(c).status] /\ UNCHANGED tid
    BY <1>1, <1>5, Zenon DEF send_status_request
  <2> HIDE DEF Resp
  <2>2. /\ tid' \in [Clients -> Nat] /\ DOMAIN seen' = Clients
        /\ \A d \in Clients \ {c} : tid'[d] = tid[d] /\ seen'[d] = seen[d]
        /\ seen'[c] = Resp(c).status
    BY <1>0, <2>1, Zenon DEF ClientTypeOK
  <2>3. TidInv(c)'
    BY <1>0, <1>1, <1>3, <1>5, <2>1, <2>2 DEF TidInv, AnswerInv, NoRequest, None
  <2>4. \A t \in Given(c)' : t \in Given(c) BY <1>1, <1>3, <2>1, Zenon DEF Given
  <2> QED BY <1>0, <1>1, <1>2, <2>2, <2>3, <2>4, Returns, Zenon
<1>6. CASE request[c].kind \notin {"load", "status"}
  <2>1. UNCHANGED <<tid, seen>> BY <1>1, <1>6, Zenon
  <2>2. tid' \in [Clients -> Nat] /\ DOMAIN seen' = Clients BY <1>0, <2>1, Zenon DEF ClientTypeOK
  <2>3. TidInv(c)' BY <1>0, <1>1, <1>3, <2>1 DEF TidInv, NoRequest, None
  <2>4. \A t \in Given(c)' : t \in Given(c) BY <1>1, <1>3, <2>1, Zenon DEF Given
  <2> QED BY <1>0, <1>1, <1>2, <2>1, <2>2, <2>3, <2>4, Returns, Zenon
<1> QED BY <1>4, <1>5, <1>6, Zenon

-----------------------------------------------------------------------------
(* What moves no more than the connections keeps the clients' invariant.     *)
LEMMA AllStay ==
  ASSUME ClientInv, TrackInv, TrackInv', Forward, ClientTypeOK',
         \A d \in Clients : Keeps(d) /\ (pc'[d] = pc[d] \/ pc'[d] = "dead"),
         \A d \in Clients :
           conn'[d] = conn[d] \/ (reply[d] # NoReply => conn'[d] \in {"answered", "closed"}),
         \A d \in Clients : ios' = d => ios = d /\ ref' = ref /\ conn'[d] = conn[d]
  PROVE  ClientInv'
<1>1. \A d \in Clients : CallInv(d)' /\ TidInv(d)' /\ AnswerInv(d)' /\ Given(d)' \subseteq Given(d)
  BY RowStays, Zenon
<1>2. \A d, e \in Clients : d # e => Given(d)' \cap Given(e)' = {} BY <1>1, Zenon DEF ClientInv
<1> QED BY <1>1, <1>2, Zenon DEF ClientInv

(* The two ends of every connection agree, whatever the order of the steps.  *)
LEMMA ClientStep == ASSUME ApiInv, [ApiNext]_allVars PROVE ClientInv'
<1>0. /\ ClientInv /\ TrackInv /\ TaskInv /\ ListenInv /\ ClientTypeOK
      /\ TrackInv' /\ Forward
      /\ \A c \in Clients : CallInv(c) /\ TidInv(c) /\ AnswerInv(c)
      /\ \A c \in Clients : c \notin {"idle", "running", "stopped"}
  BY TrackStep, ApiAssumption, Zenon DEF ApiInv, ClientInv
<1>1. ASSUME UNCHANGED clientVars, UNCHANGED ref, UNCHANGED ios \/ ios' \in {"idle", "running", "stopped"}
      PROVE  ClientInv'
  <2>1. \A d \in Clients : Keeps(d) /\ pc'[d] = pc[d] /\ conn'[d] = conn[d]
    BY <1>1, Zenon DEF clientVars, Keeps
  <2>2. ClientTypeOK' BY <1>0, <1>1, Zenon DEF ClientTypeOK, clientVars
  <2>3. \A d \in Clients : ios' = d => ios = d BY <1>0, <1>1, Zenon
  <2> QED BY <1>0, <1>1, <2>1, <2>2, <2>3, AllStay, Zenon
<1>2. CASE CreateBackends \/ WaitImport \/ Unwind \/ StartListener \/ Unload \/ Import
  BY <1>1, <1>2, Zenon DEF CreateBackends, WaitImport, Unwind, StartListener, run, Unload, Import, listenVars
<1>3. CASE StopListener \/ RemoveSocket \/ StopPool \/ TakeTask \/ UNCHANGED allVars
  BY <1>1, <1>3, Zenon DEF StopListener, RemoveSocket, StopPool, TakeTask, allVars, listenVars
<1>4. CASE Destroy \/ Throws
  <2>1. /\ UNCHANGED <<pc, tid, seen, request, wire, reply, ref>> /\ ios' = "idle"
        /\ conn' = [c \in Clients |-> "closed"]
    BY <1>4, ThrowsTerminate, Zenon DEF Destroy, Terminate
  <2>2. \A d \in Clients : Keeps(d) /\ pc'[d] = pc[d] /\ conn'[d] = "closed" BY <2>1, Zenon DEF Keeps
  <2>3. ClientTypeOK' BY <1>0, <2>1, Zenon DEF ClientTypeOK
  <2> QED BY <1>0, <2>1, <2>2, <2>3, AllStay, Zenon
<1>5. ASSUME NEW x \in 1 .. MaxTasks, Work(x) PROVE ClientInv'
  BY <1>0, <1>1, <1>5, WorkTask, Zenon DEF listenVars
<1>6. ASSUME NEW c \in Clients, do_accept(c) \/ do_read_request(c) \/ DropSession(c) PROVE ClientInv'
  <2>1. /\ UNCHANGED <<pc, tid, seen, request, wire, reply, ref, ios>> /\ ios = "running"
        /\ conn[c] \in {"backlog", "header", "body"}
        /\ \E state \in {"header", "body", "closed"} : conn' = [conn EXCEPT ![c] = state]
    BY <1>6, Zenon DEF do_accept, do_read_request, DropSession, Goes, Listening, listenVars
  <2>2. reply[c] = NoReply BY <1>0, <2>1, Zenon DEF CallInv
  <2>3. \A d \in Clients : Keeps(d) /\ pc'[d] = pc[d] BY <2>1, Zenon DEF Keeps
  <2>4. \A d \in Clients \ {c} : conn'[d] = conn[d] BY <1>0, <2>1, Zenon DEF ClientTypeOK
  <2>5. ClientTypeOK' BY <1>0, <2>1 DEF ClientTypeOK
  <2> QED BY <1>0, <2>1, <2>2, <2>3, <2>4, <2>5, AllStay, Zenon
<1>7. ASSUME NEW c \in Clients, do_read_request_body(c) PROVE ClientInv' BY <1>0, <1>7, HandlerStep, Zenon
<1>8. ASSUME NEW c \in Clients, ReadStatus(c) PROVE ClientInv' BY <1>0, <1>8, ReadStep
<1>9. ASSUME NEW c \in Clients, efs_load(c) \/ efs_status(c) \/ OtherProgram(c) PROVE ClientInv'
  <2>1. PICK what \in Targets \cup (Kinds \ {"efs_unload"}) : send_request(c, what)
    BY <1>9, Zenon DEF efs_load, efs_status, OtherProgram, Kinds
  <2> QED BY <1>0, <2>1, SendStep, Zenon
<1>10. ASSUME NEW c \in Clients, efs_unload(c) \/ Interrupt(c) \/ Killed(c) PROVE ClientInv'
  <2>1. UNCHANGED <<tid, seen, request, wire, reply, conn, listenVars>>
        /\ (UNCHANGED pc \/ pc' = [pc EXCEPT ![c] = "dead"])
    BY <1>10, Zenon DEF efs_unload, send_unload_request, Calls, Interrupt, Killed
  <2>2. ClientTypeOK' BY <1>0, <2>1, Zenon DEF ClientTypeOK, listenVars
  <2>3. \A d \in Clients : Keeps(d) /\ (pc'[d] = pc[d] \/ pc'[d] = "dead")
    BY <1>0, <2>1, Zenon DEF Keeps, ClientTypeOK
  <2> QED BY <1>0, <2>1, <2>2, <2>3, AllStay, Zenon DEF listenVars
<1>11. ASSUME NEW c \in Clients, ios # c, Return(c), UNCHANGED <<m_tracker, listenVars, tid, seen>>
       PROVE  ClientInv'
  <2>1. reply'[c] = NoReply /\ request'[c] = NoRequest BY <1>0, <1>11, Zenon DEF Return, ClientTypeOK
  <2>2. TidInv(c)' BY <1>0, <1>11, <2>1 DEF TidInv, NoRequest, None
  <2>3. \A t \in Given(c)' : t \in Given(c) BY <1>11, <2>1, Zenon DEF Given
  <2>4. tid' \in [Clients -> Nat] /\ DOMAIN seen' = Clients BY <1>0, <1>11, Zenon DEF ClientTypeOK
  <2> QED BY <1>0, <1>11, <2>2, <2>3, <2>4, Returns, Zenon
<1>12. ASSUME NEW c \in Clients, send_message(c) PROVE ClientInv'
  <2>1. pc[c] = "sending" /\ UNCHANGED <<m_tracker, listenVars, tid, seen>> BY <1>12, Zenon DEF send_message
  <2>2. ios # c /\ reply[c] = NoReply /\ request[c].kind \in MsgKinds BY <1>0, <2>1, Zenon DEF CallInv
  <2>3. CASE Return(c) BY <1>11, <2>1, <2>2, <2>3, Zenon
  <2>4. CASE pc' = [pc EXCEPT ![c] = "dead"] /\ UNCHANGED <<errno, request, wire, conn, reply>>
    <3>1. ClientTypeOK' BY <1>0, <2>1, <2>4, Zenon DEF ClientTypeOK, listenVars
    <3>2. \A d \in Clients : Keeps(d) /\ (pc'[d] = pc[d] \/ pc'[d] = "dead")
      BY <1>0, <2>1, <2>4, Zenon DEF Keeps, ClientTypeOK
    <3> QED BY <1>0, <2>1, <2>4, <3>1, <3>2, AllStay, Zenon DEF listenVars
  <2>5. CASE /\ pc' = [pc EXCEPT ![c] = "waiting"] /\ wire' = [wire EXCEPT ![c] = "all"]
             /\ UNCHANGED <<errno, request, conn, reply>>
    <3>1. ClientTypeOK' BY <1>0, <2>1, <2>5, Zenon DEF ClientTypeOK, listenVars
    <3>2. /\ pc'[c] = "waiting" /\ wire'[c] = "all"
          /\ \A d \in Clients \ {c} : Keeps(d) /\ pc'[d] = pc[d] /\ conn'[d] = conn[d]
      BY <1>0, <2>1, <2>5, Zenon DEF Keeps, ClientTypeOK
    <3>3. CallInv(c)' BY <2>1, <2>2, <2>5, <3>2, Zenon DEF CallInv, listenVars
    <3>4. TidInv(c)' BY <1>0, <2>1, <2>5, Zenon DEF TidInv
    <3>5. AnswerInv(c)' BY <2>1, <2>2, <2>5, Zenon DEF AnswerInv, listenVars
    <3>6. \A t \in Given(c)' : t \in Given(c) BY <2>1, <2>2, <2>5, Zenon DEF Given
    <3> QED BY <1>0, <2>1, <3>1, <3>2, <3>3, <3>4, <3>5, <3>6, RowMoves, Zenon DEF listenVars
  <2> QED BY <1>12, <2>3, <2>4, <2>5, Zenon DEF send_message
<1>13. ASSUME NEW c \in Clients, EndOfStream(c) PROVE ClientInv'
  <2>1. conn[c] = "closed" /\ Return(c) /\ UNCHANGED <<m_tracker, listenVars, tid, seen>>
    BY <1>13, Zenon DEF EndOfStream
  <2>2. ios # c BY <1>0, <2>1, Zenon DEF CallInv
  <2> QED BY <1>11, <2>1, <2>2, Zenon
<1>14. ASSUME NEW c \in Clients, recv_message(c) PROVE ClientInv' BY <1>0, <1>14, ReceiveStep
<1> QED
  BY <1>2, <1>3, <1>4, <1>5, <1>6, <1>7, <1>8, <1>9, <1>10, <1>12, <1>13, <1>14, Zenon
  DEF ApiNext, Start, Teardown, Listener, Rest, Proceed, Throws

-----------------------------------------------------------------------------
(* The inductive invariant holds throughout, for every number of clients,    *)
(* imports, backends, workers and tasks.                                     *)
THEOREM ApiInvariance == ApiSpec => []ApiInv
<1>1. ApiInv /\ [ApiNext]_allVars => ApiInv'
  BY TaskStep, ListenStep, ImportStep, TrackStep, ClientStep, Zenon DEF ApiInv
<1> QED BY <1>1, ApiInitInv, PTL DEF ApiSpec

(* initialize() lets the listener start only when every import succeeded,    *)
(* and gives up only when none of them runs.                                 *)
THEOREM ServesImported == ApiSpec => []ReadyWhenImported
<1>1. ApiInv => ReadyWhenImported
  <2>1. SUFFICES ASSUME ApiInv PROVE ReadyWhenImported BY Zenon
  <2>2. DOMAIN job = 1 .. Len(job) BY <2>1 DEF ApiInv, TaskInv
  <2> QED BY <2>1, <2>2, Zenon DEF ApiInv, ImportInv, ReadyWhenImported, Serving, Succeeded
<1> QED BY <1>1, ApiInvariance, PTL

(* create_tid gives every accepted load a number of its own, and the tracker *)
(* knows it when the client asks.                                            *)
THEOREM TidsStayKnown == ApiSpec => []TidsKnown
<1>1. ApiInv => TidsKnown
  <2>1. SUFFICES ASSUME ApiInv, NEW c \in Clients, tid[c] # NoTid
                 PROVE  /\ tid[c] \in DOMAIN m_tracker /\ \A d \in Clients \ {c} : tid[d] # tid[c]
                        /\ seen[c] # "no_such_task"
    BY Zenon DEF TidsKnown
  <2>2. tid[c] \in DOMAIN m_tracker /\ seen[c] \in Statuses \cup {None}
    BY <2>1, Zenon DEF ApiInv, ClientInv, TidInv
  <2>3. seen[c] # "no_such_task" BY <2>2, Zenon DEF Statuses, Results, None
  <2>4. \A d : tid[d] = tid[c] => tid[c] \in Given(d) BY <2>2, Zenon DEF Given
  <2>5. \A d \in Clients \ {c} : Given(c) \cap Given(d) = {} BY <2>1, Zenon DEF ApiInv, ClientInv
  <2>6. \A d \in Clients \ {c} : tid[d] # tid[c] BY <2>4, <2>5, Zenon
  <2> QED BY <2>2, <2>3, <2>6, Zenon
<1> QED BY <1>1, ApiInvariance, PTL

(* teardown() has stopped the listener and joined the workers before the     *)
(* context is deleted.                                                       *)
THEOREM GoneIsQuiet == ApiSpec => []QuietWhenGone
<1>1. ApiInv => QuietWhenGone BY Zenon DEF ApiInv, TaskInv, ListenInv, QuietWhenGone
<1> QED BY <1>1, ApiInvariance, PTL

(* Only recv_message changes what a client was told.                         *)
LEMMA ToldByReply ==
  ASSUME ApiInv, [ApiNext]_allVars
  PROVE  UNCHANGED <<tid, seen>> \/ \E c \in Clients : recv_message(c)
<1>0. TaskInv /\ ClientTypeOK /\ \A c \in Clients : CallInv(c) BY DEF ApiInv, ClientInv
<1>1. CASE CreateBackends \/ WaitImport \/ Unwind \/ StartListener \/ Unload \/ Import
  BY <1>1, Zenon DEF CreateBackends, WaitImport, Unwind, StartListener, Unload, Import, clientVars
<1>2. CASE StopListener \/ RemoveSocket \/ StopPool \/ TakeTask \/ Destroy \/ UNCHANGED allVars
  BY <1>2, Zenon DEF StopListener, RemoveSocket, StopPool, TakeTask, Destroy, allVars, clientVars
<1>3. ASSUME NEW x \in 1 .. MaxTasks, Work(x) PROVE UNCHANGED <<tid, seen>>
  BY <1>0, <1>3, WorkTask, Zenon DEF clientVars
<1>4. ASSUME NEW c \in Clients,
             \/ do_accept(c) \/ do_read_request(c) \/ DropSession(c)
             \/ do_read_request_body(c) \/ ReadStatus(c)
      PROVE  UNCHANGED <<tid, seen>>
  BY <1>4, Zenon DEF do_accept, do_read_request, DropSession, do_read_request_body, ReadStatus
<1>5. ASSUME NEW c \in Clients,
             \/ efs_load(c) \/ efs_status(c) \/ efs_unload(c) \/ OtherProgram(c)
             \/ send_message(c) \/ EndOfStream(c) \/ Killed(c) \/ Interrupt(c)
      PROVE  UNCHANGED <<tid, seen>>
  <2>1. ASSUME NEW what, Calls(c, what) PROVE UNCHANGED <<tid, seen>> BY <2>1, Zenon DEF Calls
  <2>2. CASE efs_load(c) \/ efs_status(c) \/ OtherProgram(c) \/ efs_unload(c)
    BY <2>1, <2>2, Zenon
    DEF efs_load, efs_status, OtherProgram, efs_unload, send_request, send_unload_request
  <2> QED BY <1>5, <2>2, Zenon DEF send_message, EndOfStream, Killed, Interrupt
<1>6. CASE Throws BY <1>6, ThrowsTerminate, Zenon DEF Terminate
<1> QED
  BY <1>1, <1>2, <1>3, <1>4, <1>5, <1>6, Zenon
  DEF ApiNext, Start, Teardown, Listener, Rest, Proceed, Throws

(* What efs_status tells a client of its task never goes back, although the  *)
(* status is read after the tracker's lock was let go.                       *)
THEOREM NeverGoesBack == ApiSpec => StatusForward
<1> DEFINE Onward == \A c \in Clients : tid'[c] = tid[c] =>
             /\ Rank(seen'[c]) >= Rank(seen[c])
             /\ Rank(seen[c]) = 3 => seen'[c] = seen[c]
<1>1. ASSUME ApiInv, [ApiNext]_allVars PROVE Onward
  <2>0. ClientTypeOK /\ \A c \in Clients : TidInv(c) /\ AnswerInv(c) BY <1>1, Zenon DEF ApiInv, ClientInv
  <2>a. \A a, b : Follows(a, b) => Rank(b) >= Rank(a) /\ (Rank(a) = 3 => b = a)
    BY Ranks, Zenon DEF Follows
  <2>1. CASE UNCHANGED <<tid, seen>> BY <2>1, Ranks
  <2>2. ASSUME NEW c \in Clients, recv_message(c) PROVE Onward
    <3>1. /\ reply[c] # NoReply
          /\ CASE request[c].kind = "load" -> send_load_request(c, Resp(c))
               [] request[c].kind = "status" -> send_status_request(c, Resp(c))
               [] OTHER -> UNCHANGED <<tid, seen>>
      BY <2>2, Zenon DEF recv_message, Resp
    <3>2. CASE request[c].kind = "load"
      <4>1. Resp(c).type = "ACCEPTED" /\ Resp(c).tid # tid[c] BY <2>0, <3>1, <3>2, Zenon DEF AnswerInv
      <4>2. tid' = [tid EXCEPT ![c] = Resp(c).tid] /\ seen' = [seen EXCEPT ![c] = None]
        BY <3>1, <3>2, <4>1, Zenon DEF send_load_request
      <4>3. tid'[c] # tid[c] /\ \A d \in Clients \ {c} : seen'[d] = seen[d]
        BY <2>0, <4>1, <4>2, Zenon DEF ClientTypeOK
      <4> QED BY <4>3, Ranks
    <3>3. CASE request[c].kind = "status"
      <4>1. seen' = [seen EXCEPT ![c] = Resp(c).status] BY <3>1, <3>3, Zenon DEF send_status_request
      <4>2. seen'[c] = Resp(c).status /\ \A d \in Clients \ {c} : seen'[d] = seen[d]
        BY <2>0, <4>1, Zenon DEF ClientTypeOK
      <4>3. CASE tid[c] = NoTid
        <5>1. Resp(c).status = "no_such_task" /\ seen[c] \in {None, "no_such_task"}
          BY <2>0, <3>1, <3>3, <4>3, Zenon DEF AnswerInv, TidInv
        <5>2. Rank(Resp(c).status) = 0 /\ Rank(seen[c]) = 0 BY <5>1, Zenon DEF Rank, None
        <5> QED BY <4>2, <5>2, Ranks
      <4>4. CASE tid[c] # NoTid
        <5>1. Follows(seen[c], Resp(c).status) BY <2>0, <3>1, <3>3, <4>4, Zenon DEF AnswerInv
        <5> QED BY <2>a, <4>2, <5>1, Ranks
      <4> QED BY <4>3, <4>4, Zenon
    <3>4. CASE request[c].kind \notin {"load", "status"} BY <3>1, <3>4, Ranks
    <3> QED BY <3>2, <3>3, <3>4, Zenon
  <2> QED BY <1>1, <2>1, <2>2, ToldByReply, Zenon
<1>2. ApiInv /\ [ApiNext]_allVars => [Onward]_allVars BY <1>1, Zenon
<1> QED BY <1>2, ApiInvariance, PTL DEF ApiSpec, StatusForward
=============================================================================
