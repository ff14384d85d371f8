------------------------------ MODULE ApiDaemon ------------------------------
(***************************************************************************)
(* The life of the daemon and its API: context.cpp, api/listener.h,        *)
(* api/message.h, api/requests.*, efsng_init and efsng_destroy of          *)
(* efs-ng.cpp, and the client library under src/lib/.                      *)
(*                                                                         *)
(* The main thread initializes and tears down; the workers of TaskPool     *)
(* run imports and requests; the thread of the listener runs the handlers  *)
(* of all the sessions one after the other; every client is a process with *)
(* one call and one connection at a time.  A handler of the listener is    *)
(* one step, except that the status of a task is found under the tracker's *)
(* lock and read after it.  A message is its request or its response: the  *)
(* prefix and the body of a request travel apart, because the library      *)
(* writes them apart.  An exception that nobody catches ends the daemon    *)
(* where it is; imports keep theirs for who waits for them.                *)
(***************************************************************************)
EXTENDS TaskPool, Sequences

CONSTANTS
  Clients,     \* the client processes
  Configured,  \* the backends of the configuration file
  Resources,   \* m_resources: the target of every import, a sequence
  Targets,     \* the backends that clients name, configured or not
  Program,     \* the calls of every client: a target to load from or a kind of request
  Faulty       \* the clients that signals kill or interrupt, or that have no memory left

\* "efs_unload" is the call of the library, "unload" the request of the protocol.
Kinds == {"status", "efs_unload", "unload", "get_config", "change_type", "garbage"}

ASSUME ApiAssumption ==
  /\ Configured \subseteq Targets /\ Resources \in Seq(Targets)
  /\ Program \in [Clients -> Seq(SUBSET (Targets \cup Kinds))]
  /\ Clients \cap {"idle", "running", "stopped"} = {}

VARIABLES
  daemon,      \* how far initialize() or teardown() has come
  m_backends, futures, importing,
  job, step,   \* what each task is to do; how far the tasks taken are
  result,      \* what the import tasks returned
  m_tracker,
  sockfile, ios, ref,
  pc, calls, tid, errno, seen,
  request, wire, conn, reply    \* the connection of a client, seen from both ends

daemonVars == <<daemon, m_backends, futures, importing>>
taskVars == <<job, step, result>>
listenVars == <<sockfile, ios, ref>>
clientVars == <<pc, calls, tid, errno, seen, request, wire, conn, reply>>
allVars == <<poolVars, daemonVars, taskVars, m_tracker, listenVars, clientVars>>

NoTid == 0
None == "none"
NoReply == <<>>
NoRequest == [kind |-> None, target |-> None, tid |-> NoTid]
Results == {"success", "no_such_path"}   \* what load() and unload() return
Thrown == "exception"                     \* ... or they throw

ApiInit ==
  /\ PoolInit
  /\ daemon = "backends" /\ m_backends = {} /\ futures = <<>> /\ importing = 0
  /\ job = <<>> /\ step = <<>> /\ result = <<>>
  /\ m_tracker = <<>>
  /\ sockfile = "none" /\ ios = "idle" /\ ref = NoTid
  /\ pc = [c \in Clients |-> "idle"] /\ calls = [c \in Clients |-> 0]
  /\ request = [c \in Clients |-> NoRequest] /\ tid = [c \in Clients |-> NoTid]
  /\ errno = [c \in Clients |-> "0"] /\ conn = [c \in Clients |-> "closed"]
  /\ reply = [c \in Clients |-> NoReply]
  /\ seen = [c \in Clients |-> None] /\ wire = [c \in Clients |-> "nothing"]

\* std::terminate: every thread stops where it is and the kernel closes the
\* sockets.  The file of the listener's socket stays.
Alive == daemon # "terminated"
Terminate ==
  /\ daemon' = "terminated" /\ ios' = "idle" /\ conn' = [c \in Clients |-> "closed"]
  /\ UNCHANGED <<poolVars, m_backends, futures, importing, taskVars, m_tracker, sockfile, ref,
                 pc, calls, request, wire, tid, errno, reply, seen>>

-----------------------------------------------------------------------------
(* initialize() *)

\* Backends that cannot be created are left out; without any it throws.
CreateBackends ==
  /\ daemon = "backends"
  /\ \E made \in SUBSET Configured :
       /\ m_backends' = made /\ daemon' = IF made = {} THEN "failed" ELSE "importing"
  /\ UNCHANGED <<poolVars, futures, importing, taskVars, m_tracker, listenVars, clientVars>>

\* One turn of the loop over m_resources; an import for a backend that is not
\* there is ignored.  The configuration may have left out an option of the
\* resource, on which kv.at throws.
Import ==
  /\ daemon = "importing" /\ importing < Len(Resources)
  /\ importing' = importing + 1
  /\ LET target == Resources[importing + 1] IN
     \/ target \notin m_backends /\ UNCHANGED <<poolVars, job, futures, daemon>>
     \/ /\ target \in m_backends /\ UNCHANGED daemon
        /\ submit /\ job' = Append(job, [kind |-> "import", target |-> target, tid |-> NoTid])
        /\ futures' = Append(futures, submitted')
     \/ daemon' = "unwinding" /\ UNCHANGED <<poolVars, job, futures>>
  /\ UNCHANGED <<m_backends, step, result, m_tracker, listenVars, clientVars>>

AllSubmitted == daemon = "importing" /\ importing = Len(Resources)

Returned(n) == n \in DOMAIN result

\* Slip: the result of an import is not looked at.
SlipIgnoreResult ==
  /\ AllSubmitted /\ futures # <<>> /\ Returned(Head(futures))
  /\ futures' = Tail(futures) /\ UNCHANGED daemon
  /\ UNCHANGED <<poolVars, m_backends, importing, taskVars, m_tracker, listenVars, clientVars>>

\* rv.get() of the next future, which rethrows what the import threw.
WaitImport ==
  /\ AllSubmitted /\ futures # <<>> /\ Returned(Head(futures))
  /\ futures' = Tail(futures)
  /\ daemon' = IF result[Head(futures)] = "success" THEN daemon ELSE "unwinding"
  /\ UNCHANGED <<poolVars, m_backends, importing, taskVars, m_tracker, listenVars, clientVars>>

\* An exception destroys the futures, one after the other: ~task_future waits for
\* each that is left.  Then efsng_init exits.
Unwind ==
  /\ daemon = "unwinding"
  /\ \/ futures = <<>> /\ daemon' = "failed" /\ UNCHANGED futures
     \/ /\ futures # <<>> /\ Returned(Head(futures)) /\ result[Head(futures)] # Thrown
        /\ futures' = Tail(futures) /\ UNCHANGED daemon
  /\ UNCHANGED <<poolVars, m_backends, importing, taskVars, m_tracker, listenVars, clientVars>>

\* get() in the destructor of a future rethrows what a second import threw.
Rethrow ==
  /\ daemon = "unwinding" /\ futures # <<>> /\ Returned(Head(futures))
  /\ result[Head(futures)] = Thrown /\ Terminate

\* The listener binds its socket and starts its thread.
run == sockfile' = "bound" /\ ios' = "running"

\* A socket file left behind is removed, and the listener made.
StartListener ==
  /\ AllSubmitted /\ futures = <<>> /\ run /\ daemon' = "serving"
  /\ UNCHANGED <<poolVars, m_backends, futures, importing, taskVars, m_tracker, ref, clientVars>>

-----------------------------------------------------------------------------
(* teardown() and efsng_destroy *)

\* unload() of the first backend, with the listener and the workers running.
Unload ==
  /\ daemon = "serving" /\ daemon' = "unloaded"
  /\ UNCHANGED <<poolVars, m_backends, futures, importing, taskVars, m_tracker, listenVars, clientVars>>

\* It throws, and no frame of libfuse catches.
UnloadThrows == daemon = "serving" /\ Terminate

\* m_ios.stop() and the join: the handler that runs comes to its end.
StopListener ==
  /\ daemon = "unloaded" /\ ios = "running"
  /\ ios' = "stopped" /\ daemon' = "deaf"
  /\ UNCHANGED <<poolVars, m_backends, futures, importing, taskVars, m_tracker, sockfile, ref, clientVars>>

RemoveSocket ==
  /\ daemon = "deaf"
  /\ sockfile' = "none" /\ daemon' = "stopping"
  /\ UNCHANGED <<poolVars, m_backends, futures, importing, taskVars, m_tracker, ios, ref, clientVars>>

StopPool ==
  /\ daemon = "stopping" /\ stop
  /\ UNCHANGED <<daemonVars, taskVars, m_tracker, listenVars, clientVars>>

\* Slip: the context is deleted when the pool was told to stop.
SlipNoJoin ==
  /\ daemon = "stopping" /\ stopping \in {"joining", "stopped"}
  /\ daemon' = "gone" /\ ios' = "idle" /\ m_backends' = {}
  /\ conn' = [c \in Clients |-> "closed"]
  /\ UNCHANGED <<poolVars, futures, importing, taskVars, m_tracker, sockfile, ref,
                 pc, calls, request, wire, tid, errno, reply, seen>>

\* delete efsng_ctx: with the listener go the sessions and their sockets.
Destroy ==
  /\ daemon = "stopping" /\ stopping = "stopped"
  /\ daemon' = "gone" /\ ios' = "idle" /\ m_backends' = {}
  /\ conn' = [c \in Clients |-> "closed"]
  /\ UNCHANGED <<poolVars, futures, importing, taskVars, m_tracker, sockfile, ref,
                 pc, calls, request, wire, tid, errno, reply, seen>>

-----------------------------------------------------------------------------
(* The workers: the pool, and the lambdas they run. *)

TakeTask ==
  /\ Alive /\ take /\ step' = Append(step, "taken")
  /\ UNCHANGED <<daemonVars, job, result, m_tracker, listenVars, clientVars>>

At(x, s) == Alive /\ x \in running /\ step[x] = s
Goto(x, s) == step' = [step EXCEPT ![x] = s]
Ends(x) == Goto(x, "ended") /\ finish(x)

\* The lambda of initialize(): its value, or what it throws, is what the future gives.
RunImport(x) ==
  /\ At(x, "taken") /\ job[x].kind = "import" /\ Ends(x)
  /\ \E ec \in Results \cup {Thrown} :
       result' = [n \in DOMAIN result \cup {x} |-> IF n = x THEN ec ELSE result[n]]
  /\ UNCHANGED <<daemonVars, job, m_tracker, listenVars, clientVars>>

\* The tracker: every operation is under its mutex, and set leaves a task that is
\* not tracked alone.
exists(t) == t \in DOMAIN m_tracker
get(t) == {n \in DOMAIN m_tracker : n = t}
add(t, ec) == m_tracker' = [n \in DOMAIN m_tracker \cup {t} |-> IF n = t THEN ec ELSE m_tracker[n]]
set(t, ec) == m_tracker' = [n \in DOMAIN m_tracker |-> IF n = t THEN ec ELSE m_tracker[n]]

Known(x) == job[x].kind \in {"load_path", "unload_path"} /\ job[x].target \in m_backends

\* The handler of api_handler: the request is for a backend that is there.
BeginRequest(x) ==
  /\ At(x, "taken") /\ Known(x)
  /\ set(job[x].tid, "task_in_progress") /\ Goto(x, "working")
  /\ UNCHANGED <<poolVars, daemonVars, job, result, listenVars, clientVars>>

\* Anything else is left as it is, pending.
LeaveRequest(x) ==
  /\ At(x, "taken") /\ job[x].kind # "import" /\ ~ Known(x) /\ Ends(x)
  /\ UNCHANGED <<daemonVars, job, result, m_tracker, listenVars, clientVars>>

\* Slip: the outcome is not recorded.
SlipNotRecorded(x) ==
  /\ At(x, "working") /\ Ends(x)
  /\ UNCHANGED <<daemonVars, job, result, m_tracker, listenVars, clientVars>>

\* Slip: a load that failed is tried again, after its outcome was recorded.
SlipRetry(x) ==
  /\ At(x, "working")
  /\ \E ec \in Results :
       /\ set(job[x].tid, ec)
       /\ IF ec = "success" THEN Ends(x) ELSE Goto(x, "taken") /\ UNCHANGED poolVars
  /\ UNCHANGED <<daemonVars, job, result, listenVars, clientVars>>

\* load() or unload() returns, and its error code becomes the status.
EndRequest(x) ==
  /\ At(x, "working") /\ Ends(x)
  /\ \E ec \in Results : set(job[x].tid, ec)
  /\ UNCHANGED <<daemonVars, job, result, listenVars, clientVars>>

\* It throws: nothing keeps the exception of a task that was submitted and
\* forgotten, and pool::worker lets it go.
RequestThrows(x) == At(x, "working") /\ Terminate

Work(x) == RunImport(x) \/ BeginRequest(x) \/ LeaveRequest(x) \/ EndRequest(x)

-----------------------------------------------------------------------------
(* The listener's thread. *)

Listening == ios = "running"

Goes(c, state) == conn' = [conn EXCEPT ![c] = state]

\* do_accept: a session for the connection.
do_accept(c) ==
  /\ Listening /\ conn[c] = "backlog" /\ Goes(c, "header")
  /\ UNCHANGED <<poolVars, daemonVars, taskVars, m_tracker, listenVars,
                 pc, calls, request, wire, tid, errno, reply, seen>>

\* The length of the body, once the prefix is there.
decode_header(c) == wire[c] # "nothing"

\* It reads the prefix and goes on to read the body.
do_read_request(c) ==
  /\ Listening /\ conn[c] = "header" /\ decode_header(c) /\ Goes(c, "body")
  /\ UNCHANGED <<poolVars, daemonVars, taskVars, m_tracker, listenVars,
                 pc, calls, request, wire, tid, errno, reply, seen>>

\* The read fails because the client is gone: the session is dropped.
DropSession(c) ==
  /\ Listening /\ pc[c] = "dead" /\ conn[c] = "body" /\ wire[c] = "prefix"
  /\ Goes(c, "closed")
  /\ UNCHANGED <<poolVars, daemonVars, taskVars, m_tracker, listenVars,
                 pc, calls, request, wire, tid, errno, reply, seen>>

Req(type, target, t) == [type |-> type, target |-> target, tid |-> t]

\* The types that an m_type that was not set can be read as.  Without the name of
\* a backend unload_path stands for load_path, get_config, change_type and what is
\* no type at all: the task that is made of them does nothing.
AnyType == {"unload_path", "status", "bad_request"}

\* create_from_buffer.  The constructors for unload and change_type leave
\* m_type, m_tid and m_backend as they are: the first two have any value, the
\* backend is the empty name, which no backend has.
create_from_buffer(msg) ==
  CASE msg.kind = "load" -> {Req("load_path", msg.target, NoTid)}
    [] msg.kind = "status" -> {Req("status", None, msg.tid)}
    [] msg.kind \in {"unload", "change_type"} ->
         {Req(type, None, NoTid) : type \in AnyType \ {"status"}}
           \cup {Req("status", None, t) : t \in 0 .. MaxTasks}
    [] msg.kind \in {"get_config", "garbage"} -> {Req("bad_request", None, NoTid)}

\* A response, and the message it becomes: store_to_buffer sets the fields that
\* the response has.
response(type, t, status) == [type |-> type, tid |-> t, status |-> status]
store_to_buffer(resp) ==
  [x \in {"type", "status"} \cup {y \in {"tid"} : resp.tid # NoTid} |-> resp[x]]

\* encode_response and do_write_response: the session's last reference goes with it.
do_write_response(c, resp) ==
  reply' = [reply EXCEPT ![c] = <<store_to_buffer(resp)>>] /\ Goes(c, "answered")
Respond(c, type, t, status) == do_write_response(c, response(type, t, status))

\* Slip: a bad request gets no answer.
SlipNoAnswer(c) ==
  /\ Goes(c, "answered")
  /\ UNCHANGED <<poolVars, job, m_tracker, ios, ref, reply>>

Reject(c) ==
  /\ Respond(c, "REJECTED", NoTid, "bad_request")
  /\ UNCHANGED <<poolVars, job, m_tracker, ios, ref>>

\* tracker::get, under the lock; the status is read through the reference.
FindStatus(c, t) ==
  \/ /\ \E n \in get(t) : ios' = c /\ ref' = n
     /\ UNCHANGED <<poolVars, job, m_tracker, conn, reply>>
  \/ /\ get(t) = {} /\ Respond(c, "ACCEPTED", NoTid, "no_such_task")
     /\ UNCHANGED <<poolVars, job, m_tracker, ios, ref>>

\* Slip: the number of a task is given to the request before it is counted.
SlipSameTid(c, req) ==
  LET t == IF m_tracker = <<>> THEN 1 ELSE Len(m_tracker) IN
  /\ submit
  /\ m_tracker' = [n \in DOMAIN m_tracker \cup {t} |-> IF n = t THEN "task_pending" ELSE m_tracker[n]]
  /\ job' = Append(job, [kind |-> req.type, target |-> req.target, tid |-> t])
  /\ Respond(c, "ACCEPTED", t, "success")
  /\ UNCHANGED <<ios, ref>>

\* Task ids count from 1, and every id that was given is tracked.
create_tid == Len(m_tracker) + 1

\* create_tid, add, submit_and_forget.
Track(c, req) ==
  LET t == create_tid IN
  /\ submit
  /\ ~ exists(t) /\ add(t, "task_pending")
  /\ job' = Append(job, [kind |-> req.type, target |-> req.target, tid |-> t])
  /\ Respond(c, "ACCEPTED", t, "success")
  /\ UNCHANGED <<ios, ref>>

api_handler(c, req) ==
  CASE req.type = "bad_request" -> Reject(c)
    [] req.type = "status" -> FindStatus(c, req.tid)
    [] OTHER -> Track(c, req)

decode_body(c) == create_from_buffer(request[c])

do_read_request_body(c) ==
  /\ Listening /\ conn[c] = "body" /\ wire[c] = "all"
  /\ \E req \in decode_body(c) : api_handler(c, req)
  /\ UNCHANGED <<daemonVars, step, result, sockfile, pc, calls, request, wire, tid, errno, seen>>

ReadStatus(c) ==
  /\ ios = c /\ Respond(c, "ACCEPTED", NoTid, m_tracker[ref])
  /\ ios' = "running" /\ ref' = NoTid
  /\ UNCHANGED <<poolVars, daemonVars, taskVars, m_tracker, sockfile,
                 pc, calls, request, wire, tid, errno, seen>>

Listener ==
  \E c \in Clients :
    \/ do_accept(c) \/ do_read_request(c) \/ DropSession(c) \/ do_read_request_body(c)
    \/ ReadStatus(c)

-----------------------------------------------------------------------------
(* A client: efs_load, efs_unload and efs_status of the library, and         *)
(* programs that send what else the protocol has.                            *)

\* The call returns, and its connection is closed.
Return(c) ==
  /\ pc' = [pc EXCEPT ![c] = "idle"] /\ errno' = [errno EXCEPT ![c] = "0"]
  /\ request' = [request EXCEPT ![c] = NoRequest] /\ wire' = [wire EXCEPT ![c] = "nothing"]
  /\ reply' = [reply EXCEPT ![c] = NoReply] /\ Goes(c, "closed")

\* The message of a call: a load carries the backend, a status the number of the task.
build_load_path_msg(what) == [kind |-> "load", target |-> what, tid |-> NoTid]
build_request_msg(c, what) ==
  CASE what \in Targets -> build_load_path_msg(what)
    [] what = "status" -> [kind |-> "status", target |-> None, tid |-> tid[c]]
    [] OTHER -> [kind |-> what, target |-> None, tid |-> NoTid]
pack_to_buffer(c, what) == request' = [request EXCEPT ![c] = build_request_msg(c, what)]

\* A socket whose process is gone refuses.
Reachable == sockfile = "bound" /\ Alive
connect_to_daemon(c) == Reachable /\ Goes(c, "backlog")

\* The next call of the program.
Calls(c, what) ==
  /\ pc[c] = "idle" /\ calls[c] < Len(Program[c]) /\ calls' = [calls EXCEPT ![c] = @ + 1]
  /\ what \in Program[c][calls'[c]]
  /\ UNCHANGED <<poolVars, daemonVars, taskVars, m_tracker, listenVars, tid, seen>>

\* The first half of send_request, with the prefix that send_message writes.
\* Without memory for the message it returns ENOMEM, and without a socket to connect
\* to ECONNFAILED.
send_request(c, what) ==
  /\ Calls(c, what)
  /\ \/ /\ connect_to_daemon(c) /\ pc' = [pc EXCEPT ![c] = "sending"]
        /\ pack_to_buffer(c, what)
        /\ wire' = [wire EXCEPT ![c] = "prefix"] /\ UNCHANGED <<errno, reply>>
     \/ ~ Reachable /\ Return(c)
     \/ c \in Faulty /\ Return(c)

\* efs_unload packs its request and returns EFS_API_SUCCESS: nothing is sent.
send_unload_request(c) ==
  Calls(c, "efs_unload") /\ UNCHANGED <<pc, errno, request, wire, conn, reply>>

efs_load(c) == \E what \in Targets : send_request(c, what)
efs_status(c) == send_request(c, "status")
efs_unload(c) == send_unload_request(c)
OtherProgram(c) == \E what \in Kinds \ {"status", "efs_unload"} : send_request(c, what)

\* write() goes on while there is somebody to read.
send_data(c) == conn[c] # "closed"

\* send_message: the body.  If the daemon has gone the call returns
\* ERPCSENDFAILED, or the client dies of the SIGPIPE that it did not ignore.
send_message(c) ==
  /\ pc[c] = "sending"
  /\ \/ ~ send_data(c) /\ Return(c)
     \/ /\ ~ send_data(c) /\ pc' = [pc EXCEPT ![c] = "dead"]
        /\ UNCHANGED <<errno, request, wire, conn, reply>>
     \/ /\ send_data(c)
        /\ pc' = [pc EXCEPT ![c] = "waiting"] /\ wire' = [wire EXCEPT ![c] = "all"]
        /\ UNCHANGED <<errno, request, conn, reply>>
  /\ UNCHANGED <<poolVars, daemonVars, taskVars, m_tracker, listenVars, calls, tid, seen>>

\* The client is killed; what it wrote stays in the socket.
Killed(c) ==
  /\ c \in Faulty /\ pc[c] \in {"sending", "waiting"} /\ pc' = [pc EXCEPT ![c] = "dead"]
  /\ UNCHANGED <<poolVars, daemonVars, taskVars, m_tracker, listenVars, calls, tid, errno,
                 seen, request, wire, conn, reply>>

\* A signal interrupts read(): recv_data tries again, and errno stays.
Interrupt(c) ==
  /\ c \in Faulty /\ pc[c] = "waiting" /\ errno[c] = "0" /\ reply[c] = NoReply
  /\ errno' = [errno EXCEPT ![c] = "EINTR"]
  /\ UNCHANGED <<poolVars, daemonVars, taskVars, m_tracker, listenVars, pc, calls, tid,
                 seen, request, wire, conn, reply>>

\* A field that the message does not have is left as it was, unset.
unpack_from_buffer(msg) ==
  response(msg.type, IF "tid" \in DOMAIN msg THEN msg.tid ELSE NoTid, msg.status)

\* __tid is set when the load was accepted, and what was seen of the task before
\* is about another one.
send_load_request(c, resp) ==
  LET loaded == resp.type = "ACCEPTED" IN
  /\ tid' = [tid EXCEPT ![c] = IF loaded THEN resp.tid ELSE @]
  /\ seen' = [seen EXCEPT ![c] = IF loaded THEN None ELSE @]
send_status_request(c, resp) == seen' = [seen EXCEPT ![c] = resp.status] /\ UNCHANGED tid

\* recv_message, and what the call makes of the response.
recv_message(c) ==
  /\ pc[c] = "waiting" /\ reply[c] # NoReply /\ Return(c)
  /\ LET resp == unpack_from_buffer(reply[c][1]) IN
     CASE request[c].kind = "load" -> send_load_request(c, resp)
       [] request[c].kind = "status" -> send_status_request(c, resp)
       [] OTHER -> UNCHANGED <<tid, seen>>
  /\ UNCHANGED <<poolVars, daemonVars, taskVars, m_tracker, listenVars, calls>>

\* read() returns 0 and the call ERPCRECVFAILED.  With EINTR left in errno
\* recv_data reads again, for ever.
EndOfStream(c) ==
  /\ pc[c] = "waiting" /\ reply[c] = NoReply /\ conn[c] = "closed" /\ errno[c] # "EINTR"
  /\ Return(c)
  /\ UNCHANGED <<poolVars, daemonVars, taskVars, m_tracker, listenVars, calls, tid, seen>>

Proceed(c) == send_message(c) \/ recv_message(c) \/ EndOfStream(c)

\* efsng_init runs initialize(), efsng_destroy teardown().
Start == CreateBackends \/ Import \/ WaitImport \/ Unwind \/ Rethrow \/ StartListener
Teardown == StopListener \/ RemoveSocket \/ StopPool \/ Destroy

\* Nothing is left to do.
Rest ==
  /\ daemon \in {"gone", "failed", "terminated"}
  /\ \A c \in Clients : \/ pc[c] = "dead" \/ (pc[c] = "idle" /\ calls[c] = Len(Program[c]))
                        \/ (pc[c] = "waiting" /\ errno[c] = "EINTR")
  /\ UNCHANGED allVars

ApiNext ==
  \/ Start \/ Unload \/ UnloadThrows \/ Teardown \/ Listener \/ Rest
  \/ TakeTask \/ \E x \in 1 .. MaxTasks : Work(x) \/ RequestThrows(x)
  \/ \E c \in Clients :
       \/ efs_load(c) \/ efs_status(c) \/ efs_unload(c) \/ OtherProgram(c)
       \/ Proceed(c) \/ Killed(c) \/ Interrupt(c)

\* The main thread, the listener's thread, the workers and the calls of the
\* clients go on; nobody has to call, to be killed or to unmount.
ApiFairness ==
  /\ WF_allVars(Start) /\ WF_allVars(Teardown) /\ WF_allVars(Listener)
  /\ WF_allVars(stopping = "no" /\ TakeTask) /\ \A x \in 1 .. MaxTasks : WF_allVars(Work(x))
  /\ \A c \in Clients : WF_allVars(Proceed(c))

ApiSpec == ApiInit /\ [][ApiNext]_allVars /\ ApiFairness

-----------------------------------------------------------------------------
\* The daemon listens only when every import has succeeded, and gives up only
\* when none of them runs any more.
ReadyWhenImported ==
  LET imports == {n \in DOMAIN job : job[n].kind = "import"} IN
  /\ daemon \in {"serving", "unloaded"} =>
       \A n \in imports : Returned(n) /\ result[n] = "success"
  /\ daemon = "failed" => \A n \in imports : Returned(n)

\* The identifier that efs_load stored is the client's alone and the daemon
\* knows it: efs_status never answers that there is no such task.
TidsKnown ==
  \A c \in Clients : tid[c] # NoTid =>
    /\ tid[c] \in DOMAIN m_tracker /\ \A d \in Clients \ {c} : tid[d] # tid[c]
    /\ seen[c] # "no_such_task"

Rank(status) ==
  CASE status \in {None, "no_such_task"} -> 0 [] status = "task_pending" -> 1
    [] status = "task_in_progress" -> 2 [] OTHER -> 3

\* What a client is told of its task never goes back, and the outcome it was
\* told once is final, although the status is read after the tracker's lock is
\* let go while a worker may write it.
StatusForward ==
  [][\A c \in Clients : tid'[c] = tid[c] =>
       /\ Rank(seen'[c]) >= Rank(seen[c])
       /\ Rank(seen[c]) = 3 => seen'[c] = seen[c]]_allVars

\* When the context is deleted no task and no session can use it.
QuietWhenGone ==
  daemon = "gone" => running = {} /\ ios = "idle"
                     /\ \A c \in Clients : conn[c] = "closed"

\* The load that a client was given an identifier for ends with an outcome that
\* efs_status can tell, if it names a backend that is there.  Only the end of the
\* daemon comes before it: a teardown, or an exception of this load or of another.
RequestsEnd ==
  \A c \in Clients :
    (\E n \in DOMAIN job : job[n].tid = tid[c] /\ job[n].kind = "load_path" /\ Known(n))
      ~> (stopping # "no" \/ ~ Alive \/ (tid[c] # NoTid /\ m_tracker[tid[c]] \in Results))

\* A call of the library returns, also when the daemon goes away while it waits,
\* in order or with an exception of any of its tasks.  The exception is the call
\* whose read() had been interrupted by a signal before.
CallsReturn ==
  \A c \in Clients :
    (pc[c] \in {"sending", "waiting"})
      ~> (pc[c] \in {"idle", "dead"} \/ (errno[c] = "EINTR" /\ daemon \in {"gone", "terminated"}))
=============================================================================
