------------------------------ MODULE AsyncLog ------------------------------
(***************************************************************************)
(* The logger of the daemon (src/src/logger.h) over the two loggers of the  *)
(* bundled spdlog: the asynchronous one of a foreground mount ("console     *)
(* color": every call puts a message on the queue of LogQueue, one worker   *)
(* thread formats and writes) and the synchronous ones ("file", "syslog":   *)
(* the caller formats and writes under the sink's mutex).                   *)
(*                                                                         *)
(* The life of the logger is the daemon's: context::initialize creates it,  *)
(* in a tracing build prints a header with a pattern of its own, then the   *)
(* threads of the daemon log, and when they are gone the static             *)
(* shared_ptr is destroyed.                                                *)
(***************************************************************************)
EXTENDS LogQueue

CONSTANTS Loggers,    \* threads that log
          Main,       \* the thread that creates and destroys the logger
          Worker,     \* the thread of the async_log_helper
          MaxLogs     \* bound: messages of one thread

VARIABLES phase,      \* of the daemon
          mode,       \* the logger behind global_logger(): none, async, sync, null
          _level,     \* of the logger
          doing,      \* the operation of the logger a thread is in
          first_pos,  \* what approx_size loaded first
          sent,       \* messages each thread has logged
          _formatter, _flush_requested, _terminate_requested,
          written,    \* what reached the sink: message and pattern, in order
          failed,     \* messages a sink or the formatter threw on
          processed   \* history: messages the worker has dealt with

logVars == <<phase, mode, _level, doing, first_pos, sent, _formatter,
             _flush_requested, _terminate_requested, written, failed, processed>>
vars == <<queueVars, logVars>>

LogMsg(t, n) == [kind |-> "log", from |-> t, n |-> n]
Flush == [kind |-> "flush"]
Terminate == [kind |-> "terminate"]
AllMsgs == {LogMsg(t, n) : t \in Loggers \cup {Main}, n \in 1..MaxLogs}
             \cup {Flush, Terminate}

ASSUME LogAssumption ==
    /\ Threads = Loggers \cup {Main, Worker} /\ Main # Worker
    /\ Main \notin Loggers /\ Worker \notin Loggers
    /\ MaxLogs \in Nat \ {0}
    /\ Msgs = AllMsgs

Init ==
    /\ QueueInit
    /\ phase = "start" /\ mode = "none" /\ _level = 1   \* level::info
    /\ doing = [t \in Threads |-> "idle"]
    /\ first_pos = 0
    /\ sent = [t \in Threads |-> 0]
    /\ _formatter = "default"
    /\ _flush_requested = FALSE /\ _terminate_requested = FALSE
    /\ written = <<>> /\ failed = {} /\ processed = 0

-----------------------------------------------------------------------------
(* logger::logger by type, through registry::create: the "console color"    *)
(* logger switches the registry to asynchronous mode and starts the worker; *)
(* a file that five tries cannot open throws, and create_global_logger      *)
(* leaves a null logger behind.  Levels: debug 0, info 1, off 2.            *)
create_global_logger(made) ==
    /\ phase = "start" /\ doing[Worker] = "idle"
    /\ mode' = made
    /\ \E debug \in {0, 1} : _level' = IF made = "null" THEN 2 ELSE debug
    /\ doing' = [doing EXCEPT ![Worker] = IF made = "async" THEN "loop" ELSE "idle"]
    /\ phase' = IF made = "null" THEN "exit" ELSE "created"
    /\ _formatter' = "full"
    /\ UNCHANGED <<queueVars, first_pos, sent, _flush_requested, _terminate_requested,
                   written, failed, processed>>

(* What a sink does with one message, and the caller when it throws.        *)
SinkIt(m) ==
    \/ written' = Append(written, [msg |-> m, pattern |-> _formatter]) /\ UNCHANGED failed
    \/ failed' = failed \cup {m} /\ UNCHANGED written

(* logger::log: below the level nothing happens; the asynchronous logger    *)
(* copies the message and pushes it, the synchronous one writes it.         *)
should_log(lvl) == lvl >= _level

log(t, lvl) ==
    LET m == LogMsg(t, sent[t] + 1) IN
    /\ doing[t] = "idle" /\ sent[t] < MaxLogs
    /\ should_log(lvl)
    /\ sent' = [sent EXCEPT ![t] = @ + 1]
    /\ \/ /\ mode = "async"
          /\ enqueue(t, m)
          /\ doing' = [doing EXCEPT ![t] = "log"]
          /\ UNCHANGED <<written, failed>>
       \/ /\ mode = "sync"
          /\ SinkIt(m)
          /\ UNCHANGED <<queueVars, doing>>
    /\ UNCHANGED <<mode, _level, first_pos, _formatter,
                   _flush_requested, _terminate_requested, processed>>

Pushing == {"log", "flush", "terminate"}

Pushed(t) == CASE doing[t] = "log" -> "idle"
               [] doing[t] = "flush" -> "wait"
               [] doing[t] = "terminate" -> "join"

(* Mutated form: a full queue drops the message, whatever the policy.       *)
SlipDiscard(t) ==
    /\ doing[t] \in Pushing
    /\ at[t] \in {"stored", "full"}
    /\ doing' = [doing EXCEPT ![t] = Pushed(t)]
    /\ UNCHANGED <<queueVars, phase, mode, _level, first_pos, sent, _formatter,
                   _flush_requested, _terminate_requested, written, failed, processed>>

(* push_msg: the policy set_async_mode leaves is block_retry.               *)
push_msg(t) ==
    /\ doing[t] \in Pushing
    /\ \/ /\ at[t] = "full"
          /\ enqueue(t, item[t])
          /\ UNCHANGED doing
       \/ /\ at[t] = "stored"
          /\ doing' = [doing EXCEPT ![t] = Pushed(t)]
          /\ UNCHANGED queueVars
    /\ UNCHANGED <<phase, mode, _level, first_pos, sent, _formatter,
                   _flush_requested, _terminate_requested, written, failed, processed>>

(* wait_empty_q: approx_size loads dequeue_pos_, then enqueue_pos_.         *)
wait_empty_q(t) ==
    /\ \/ doing[t] = "wait" /\ first_pos' = dequeue_pos_
          /\ doing' = [doing EXCEPT ![t] = "measure"]
       \/ doing[t] = "measure" /\ UNCHANGED first_pos
          /\ doing' = [doing EXCEPT ![t] = IF enqueue_pos_ <= first_pos THEN "idle" ELSE "wait"]
    /\ UNCHANGED <<queueVars, phase, mode, _level, sent, _formatter,
                   _flush_requested, _terminate_requested, written, failed, processed>>

-----------------------------------------------------------------------------
(* context::initialize.  A tracing build sets the pattern of the header,    *)
(* logs it, flushes, and sets the pattern of the records; the other build   *)
(* goes on at once.                                                         *)
SetPattern(pattern, now, next) ==
    /\ phase = now /\ doing[Main] = "idle"
    /\ _formatter' = pattern
    /\ phase' = next
    /\ UNCHANGED <<queueVars, mode, _level, doing, first_pos, sent,
                   _flush_requested, _terminate_requested, written, failed, processed>>

Header == phase = "header" /\ log(Main, 1) /\ phase' = "flush"

(* logger::flush: the synchronous logger flushes its sink, which keeps what *)
(* was written.                                                             *)
flush ==
    /\ phase = "flush" /\ doing[Main] = "idle"
    /\ phase' = "flushed"
    /\ IF mode = "async"
         THEN enqueue(Main, Flush) /\ doing' = [doing EXCEPT ![Main] = "flush"]
         ELSE UNCHANGED <<queueVars, doing>>
    /\ UNCHANGED <<mode, _level, first_pos, sent, _formatter,
                   _flush_requested, _terminate_requested, written, failed, processed>>

debug(t) == log(t, 0)
info(t) == log(t, 1)
Log(t) == phase = "running" /\ (debug(t) \/ info(t)) /\ UNCHANGED phase

(* The threads that log have been joined; exit destroys global_logger, and  *)
(* ~async_log_helper pushes the last message and joins the worker.          *)
Exit ==
    /\ phase \in {"running", "exit"}
    /\ \A t \in Threads \ {Worker} : doing[t] = "idle"
    /\ IF mode = "async"
         THEN /\ phase' = "stop"
              /\ enqueue(Main, Terminate)
              /\ doing' = [doing EXCEPT ![Main] = "terminate"]
         ELSE phase' = "gone" /\ UNCHANGED <<queueVars, doing>>
    /\ UNCHANGED <<mode, _level, first_pos, sent, _formatter,
                   _flush_requested, _terminate_requested, written, failed, processed>>

Join ==
    /\ doing[Main] = "join" /\ doing[Worker] = "gone"
    /\ phase' = "gone"
    /\ doing' = [doing EXCEPT ![Main] = "idle"]
    /\ UNCHANGED <<queueVars, mode, _level, first_pos, sent, _formatter,
                   _flush_requested, _terminate_requested, written, failed, processed>>

-----------------------------------------------------------------------------
(* worker_loop: process_next_msg, until it returns false.                   *)
Dequeue ==
    /\ doing[Worker] = "loop"
    /\ dequeue(Worker)
    /\ doing' = [doing EXCEPT ![Worker] = "next"]
    /\ UNCHANGED <<phase, mode, _level, first_pos, sent, _formatter,
                   _flush_requested, _terminate_requested, written, failed, processed>>

(* An exception of the formatter or of a sink ends the message, not the     *)
(* loop.                                                                    *)
ProcessMsg ==
    LET m == item[Worker] IN
    /\ doing[Worker] = "next" /\ at[Worker] = "taken"
    /\ doing' = [doing EXCEPT ![Worker] = "loop"]
    /\ processed' = processed + 1
    /\ _flush_requested' = (_flush_requested \/ m \in {Flush, Terminate})
    /\ _terminate_requested' = (_terminate_requested \/ m = Terminate)
    /\ IF m \in {Flush, Terminate} THEN UNCHANGED <<written, failed>> ELSE SinkIt(m)
    /\ UNCHANGED <<queueVars, phase, mode, _level, first_pos, sent, _formatter>>

(* Mutated form: the worker leaves as soon as it has nothing to do.         *)
SlipLeaves ==
    /\ doing[Worker] = "next" /\ at[Worker] = "empty"
    /\ _flush_requested' = FALSE
    /\ doing' = [doing EXCEPT ![Worker] =
                    IF _terminate_requested \/ processed > 0 THEN "gone" ELSE "loop"]
    /\ UNCHANGED <<queueVars, phase, mode, _level, first_pos, sent, _formatter,
                   _terminate_requested, written, failed, processed>>

(* Only an empty queue lets the worker flush the sinks and leave.           *)
HandleEmpty ==
    /\ doing[Worker] = "next" /\ at[Worker] = "empty"
    /\ _flush_requested' = FALSE
    /\ doing' = [doing EXCEPT ![Worker] = IF _terminate_requested THEN "gone" ELSE "loop"]
    /\ UNCHANGED <<queueVars, phase, mode, _level, first_pos, sent, _formatter,
                   _terminate_requested, written, failed, processed>>

Call(t) == push_msg(t) \/ wait_empty_q(t) \/ (QueueStep(t) /\ UNCHANGED logVars)

Start ==
    \/ \E made \in {"async", "sync", "null"} : create_global_logger(made)
    \/ SetPattern("header", "created", "header")
    \/ SetPattern("full", "created", "running")
    \/ Header
    \/ flush
    \/ SetPattern("trace", "flushed", "running")

Work == Dequeue \/ ProcessMsg \/ HandleEmpty

Gone == phase = "gone" /\ UNCHANGED vars

Next ==
    \/ Start \/ Exit \/ Join \/ Work \/ Gone
    \/ \E t \in Loggers : Log(t)
    \/ \E t \in Threads : Call(t)

(* Every thread is a thread of the process and keeps running.               *)
Fairness ==
    /\ WF_vars(Start) /\ WF_vars(Exit) /\ WF_vars(Join)
    /\ WF_vars(Work \/ Call(Worker))
    /\ \A t \in Loggers \cup {Main} : WF_vars(Call(t))

Spec == Init /\ [][Next]_vars /\ Fairness

-----------------------------------------------------------------------------
(* The messages of one thread reach the sink in the order of its calls,     *)
(* each at most once, however the threads' calls and the worker interleave  *)
(* and however often the ring went round.                                   *)
WrittenInOrder ==
    \A i, j \in 1..Len(written) :
        i < j /\ written[i].msg.from = written[j].msg.from
            => written[i].msg.n < written[j].msg.n

(* When the logger is gone, every message of every thread was written, or   *)
(* its sink threw: neither a full queue nor the end of the worker drops     *)
(* one.                                                                     *)
NothingDropped ==
    phase = "gone" =>
        \A t \in Threads : \A n \in 1..sent[t] :
            LogMsg(t, n) \in {written[i].msg : i \in 1..Len(written)} \cup failed

(* The daemon's exit is not held up: the logger's destructor returns.       *)
ExitEnds == <>(phase = "gone")

(* What the comment at the end of async_log_helper::flush says of its wait: *)
(* it returns only after its flush message was processed.                   *)
FlushProcessed ==
    [][\A t \in Threads : doing[t] = "measure" /\ doing'[t] = "idle"
          => processed > pos[t]]_vars
=============================================================================
