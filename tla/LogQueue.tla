------------------------------ MODULE LogQueue ------------------------------
(***************************************************************************)
(* The bounded queue of the asynchronous logger                            *)
(* (src/src/spdlog/details/mpmc_bounded_q.h): a ring of cells, each with a  *)
(* sequence number that says for which position the cell is free (its       *)
(* number is the position) or full (one more than the position).  Any       *)
(* number of threads put and take; they meet only at the two positions,     *)
(* which they advance by compare-exchange, and at the sequence numbers.     *)
(*                                                                         *)
(* One action per atomic operation.  `at` is where a thread is in enqueue   *)
(* or dequeue ("idle" outside, or the result of the call that just ended),  *)
(* `pos` its local position, `item` the message it puts or has taken.       *)
(* Sequence numbers and positions are size_t: they wrap after 2^64 messages *)
(* and are natural numbers here.  A weak compare-exchange that fails        *)
(* without cause only repeats its iteration and is left out.                *)
(***************************************************************************)
EXTENDS Integers, Sequences

CONSTANTS Threads,      \* the threads that log, and the worker
          Msgs,         \* what an async_msg can be
          NoMsg,        \* the contents of a cell that was never filled
          buffer_size   \* the number of cells

(* The constructor throws "async logger queue size must be power of two".  *)
ASSUME QueueAssumption ==
    /\ buffer_size \in Nat /\ buffer_size >= 2
    /\ \E k \in 1..buffer_size : buffer_size = 2^k

VARIABLES sequence_, data_,           \* cell_t, by index in buffer_
          enqueue_pos_, dequeue_pos_,
          at, pos, item,              \* the calls in progress
          claimed                     \* history: the message of each position

queueVars == <<sequence_, data_, enqueue_pos_, dequeue_pos_, at, pos, item, claimed>>

Cells == 0..(buffer_size - 1)

(* pos & buffer_mask_ *)
cell(p) == p % buffer_size

QueueInit ==
    /\ sequence_ = [c \in Cells |-> c]
    /\ data_ = [c \in Cells |-> NoMsg]
    /\ enqueue_pos_ = 0 /\ dequeue_pos_ = 0
    /\ at = [t \in Threads |-> "idle"]
    /\ pos = [t \in Threads |-> 0]
    /\ item = [t \in Threads |-> NoMsg]
    /\ claimed = <<>>

Goes(t, there) == at' = [at EXCEPT ![t] = there]

-----------------------------------------------------------------------------
(* enqueue: loads enqueue_pos_, then looks at the cell of that position.   *)
enqueue(t, m) ==
    /\ item' = [item EXCEPT ![t] = m]
    /\ pos' = [pos EXCEPT ![t] = enqueue_pos_]
    /\ Goes(t, "e_look")
    /\ UNCHANGED <<sequence_, data_, enqueue_pos_, dequeue_pos_, claimed>>

(* The cell is free for this position, or still holds the message of the   *)
(* round before (the queue is full), or the position is out of date.       *)
LookEnqueue(t) ==
    LET dif == sequence_[cell(pos[t])] - pos[t] IN
    /\ at[t] = "e_look"
    /\ \/ dif = 0 /\ Goes(t, "e_claim") /\ UNCHANGED pos
       \/ dif < 0 /\ Goes(t, "full") /\ UNCHANGED pos
       \/ dif > 0 /\ pos' = [pos EXCEPT ![t] = enqueue_pos_] /\ UNCHANGED at
    /\ UNCHANGED <<sequence_, data_, enqueue_pos_, dequeue_pos_, item, claimed>>

(* Mutated form: the position is stored, not compared and exchanged.       *)
SlipStore(t) ==
    /\ at[t] = "e_claim"
    /\ enqueue_pos_' = pos[t] + 1
    /\ claimed' = Append(claimed, item[t])
    /\ Goes(t, "e_move")
    /\ UNCHANGED <<sequence_, data_, dequeue_pos_, pos, item>>

(* Mutated form: the cell is published when it is claimed.                 *)
SlipEarly(t) ==
    /\ at[t] = "e_claim"
    /\ IF enqueue_pos_ = pos[t]
         THEN /\ enqueue_pos_' = pos[t] + 1
              /\ claimed' = Append(claimed, item[t])
              /\ sequence_' = [sequence_ EXCEPT ![cell(pos[t])] = pos[t] + 1]
              /\ Goes(t, "e_move")
              /\ UNCHANGED pos
         ELSE /\ pos' = [pos EXCEPT ![t] = enqueue_pos_]
              /\ Goes(t, "e_look")
              /\ UNCHANGED <<enqueue_pos_, claimed, sequence_>>
    /\ UNCHANGED <<data_, dequeue_pos_, item>>

ClaimEnqueue(t) ==
    /\ at[t] = "e_claim"
    /\ IF enqueue_pos_ = pos[t]
         THEN /\ enqueue_pos_' = pos[t] + 1
              /\ claimed' = Append(claimed, item[t])
              /\ Goes(t, "e_move")
              /\ UNCHANGED pos
         ELSE /\ pos' = [pos EXCEPT ![t] = enqueue_pos_]
              /\ Goes(t, "e_look")
              /\ UNCHANGED <<enqueue_pos_, claimed>>
    /\ UNCHANGED <<sequence_, data_, dequeue_pos_, item>>

FillCell(t) ==
    /\ at[t] = "e_move"
    /\ data_' = [data_ EXCEPT ![cell(pos[t])] = item[t]]
    /\ Goes(t, "e_store")
    /\ UNCHANGED <<sequence_, enqueue_pos_, dequeue_pos_, pos, item, claimed>>

PublishCell(t) ==
    /\ at[t] = "e_store"
    /\ sequence_' = [sequence_ EXCEPT ![cell(pos[t])] = pos[t] + 1]
    /\ Goes(t, "stored")
    /\ UNCHANGED <<data_, enqueue_pos_, dequeue_pos_, pos, item, claimed>>

-----------------------------------------------------------------------------
(* dequeue *)
dequeue(t) ==
    /\ pos' = [pos EXCEPT ![t] = dequeue_pos_]
    /\ Goes(t, "d_look")
    /\ UNCHANGED <<sequence_, data_, enqueue_pos_, dequeue_pos_, item, claimed>>

LookDequeue(t) ==
    LET dif == sequence_[cell(pos[t])] - (pos[t] + 1) IN
    /\ at[t] = "d_look"
    /\ \/ dif = 0 /\ Goes(t, "d_claim") /\ UNCHANGED pos
       \/ dif < 0 /\ Goes(t, "empty") /\ UNCHANGED pos
       \/ dif > 0 /\ pos' = [pos EXCEPT ![t] = dequeue_pos_] /\ UNCHANGED at
    /\ UNCHANGED <<sequence_, data_, enqueue_pos_, dequeue_pos_, item, claimed>>

ClaimDequeue(t) ==
    /\ at[t] = "d_claim"
    /\ IF dequeue_pos_ = pos[t]
         THEN dequeue_pos_' = pos[t] + 1 /\ Goes(t, "d_move") /\ UNCHANGED pos
         ELSE /\ pos' = [pos EXCEPT ![t] = dequeue_pos_]
              /\ Goes(t, "d_look")
              /\ UNCHANGED dequeue_pos_
    /\ UNCHANGED <<sequence_, data_, enqueue_pos_, item, claimed>>

EmptyCell(t) ==
    /\ at[t] = "d_move"
    /\ item' = [item EXCEPT ![t] = data_[cell(pos[t])]]
    /\ Goes(t, "d_store")
    /\ UNCHANGED <<sequence_, data_, enqueue_pos_, dequeue_pos_, pos, claimed>>

ReleaseCell(t) ==
    /\ at[t] = "d_store"
    /\ sequence_' = [sequence_ EXCEPT ![cell(pos[t])] = pos[t] + buffer_size]
    /\ Goes(t, "taken")
    /\ UNCHANGED <<data_, enqueue_pos_, dequeue_pos_, pos, item, claimed>>

(* One step of a call in progress.                                         *)
QueueStep(t) ==
    \/ LookEnqueue(t) \/ ClaimEnqueue(t) \/ FillCell(t) \/ PublishCell(t)
    \/ LookDequeue(t) \/ ClaimDequeue(t) \/ EmptyCell(t) \/ ReleaseCell(t)

Between == {"idle", "stored", "full", "taken", "empty"}

QueueNext ==
    \E t \in Threads :
        \/ at[t] \in Between /\ (dequeue(t) \/ \E m \in Msgs : enqueue(t, m))
        \/ QueueStep(t)

QueueSpec == QueueInit /\ [][QueueNext]_queueVars

-----------------------------------------------------------------------------
Filling == {"e_move", "e_store"}
Emptying == {"d_move", "d_store"}

(* The data of a cell is not atomic: from the moment a thread has moved a   *)
(* position until it has stored the cell's new number, no other thread that *)
(* is moving a message works on the same cell.                              *)
CellsApart ==
    \A t, u \in Threads :
        ( /\ at[t] \in Filling \cup Emptying
          /\ at[u] \in Filling \cup Emptying
          /\ t # u )
        => cell(pos[t]) # cell(pos[u])

(* A thread that took position p has the message that enqueue put there:    *)
(* messages leave in the order in which their positions were claimed, none  *)
(* overwritten, none twice.                                                 *)
TakenAsClaimed ==
    \A t \in Threads :
        at[t] \in {"d_store", "taken"} =>
            /\ pos[t] + 1 \in 1..Len(claimed)
            /\ item[t] = claimed[pos[t] + 1]

(* Never more messages than cells.                                         *)
Bounded ==
    /\ dequeue_pos_ <= enqueue_pos_
    /\ enqueue_pos_ <= dequeue_pos_ + buffer_size
=============================================================================
