--------------------------- MODULE AsyncLogProofs ---------------------------
(***************************************************************************)
(* The sequence numbers of mpmc_bounded_q.h keep its threads apart, for    *)
(* any number of them and any number of cells the constructor accepts.     *)
(* The inductive invariant QueueInv says for every cell which position its *)
(* sequence_ stands for, and for every thread inside enqueue or dequeue    *)
(* that the position it claimed is its own.                                *)
(*                                                                         *)
(* The logger uses its queue as the queue expects: every step of AsyncLog  *)
(* is a step of LogQueue or leaves the queue alone, so that what the first *)
(* part proves of any use of the queue holds of the logger.                *)
(***************************************************************************)
EXTENDS AsyncLog, TLAPS

(* The constructor's test: a power of two that is at least two.             *)
LEMMA SizePositive == buffer_size \in Nat /\ buffer_size >= 2
BY QueueAssumption, Zenon

(* Position p is in round p \div n, at cell p % n.                          *)
LEMMA DivMod ==
    ASSUME NEW n \in Nat, n > 0, NEW p \in Nat
    PROVE  /\ p \div n \in Nat
           /\ p % n \in 0..(n - 1)
           /\ p = n * (p \div n) + (p % n)
OBVIOUS

(* Positions that differ by a positive multiple of n differ by n at least.  *)
LEMMA Multiple ==
    ASSUME NEW n \in Nat, n > 0, NEW d \in Int, 0 < n * d
    PROVE  n * d >= n
OBVIOUS

(* buffer_mask_ leaves an index into buffer_.                               *)
LEMMA CellIn ==
    ASSUME NEW p \in Nat
    PROVE  cell(p) \in Cells
BY QueueAssumption DEF cell, Cells

(* In the first round a position is its cell.                               *)
LEMMA CellSmall ==
    ASSUME NEW p \in Cells
    PROVE  p \in Nat /\ cell(p) = p
BY SizePositive DEF cell, Cells

(* The same cell comes again after buffer_mask_ + 1 positions ...           *)
LEMMA CellPeriod ==
    ASSUME NEW p \in Nat
    PROVE  cell(p + buffer_size) = cell(p)
<1> DEFINE n == buffer_size
<1>1. n \in Nat /\ n > 0 BY SizePositive
<1>2. p = n * (p \div n) + (p % n) /\ p % n \in 0..(n - 1) /\ p \div n \in Int BY <1>1, DivMod
<1>3. p + n = n * ((p + n) \div n) + ((p + n) % n) /\ (p + n) % n \in 0..(n - 1) /\ (p + n) \div n \in Int
  BY <1>1, DivMod
<1> DEFINE d == ((p + n) \div n) - (p \div n) - 1
<1>4. d \in Int /\ -d \in Int BY <1>2, <1>3
<1>5. n * d = (p % n) - ((p + n) % n) BY <1>1, <1>2, <1>3
<1>6. n * (-d) = ((p + n) % n) - (p % n) BY <1>1, <1>2, <1>3
<1> HIDE DEF d
<1>7. ~(0 < n * d) BY <1>1, <1>2, <1>3, <1>4, <1>5, Multiple
<1>8. ~(0 < n * (-d)) BY <1>1, <1>2, <1>3, <1>4, <1>6, Multiple
<1>9. p % n = (p + n) % n BY <1>1, <1>2, <1>3, <1>5, <1>6, <1>7, <1>8
<1> QED BY <1>9, Zenon DEF cell

(* ... and not before ...                                                   *)
LEMMA CellsDiffer ==
    ASSUME NEW p \in Nat, NEW q \in Nat, p < q, q < p + buffer_size
    PROVE  cell(p) # cell(q)
<1> DEFINE n == buffer_size
<1>1. n \in Nat /\ n > 0 BY SizePositive
<1> SUFFICES ASSUME p % n = q % n PROVE FALSE BY Zenon DEF cell
<1>2. p = n * (p \div n) + (p % n) /\ p % n \in Int /\ p \div n \in Int BY <1>1, DivMod
<1>3. q = n * (q \div n) + (q % n) /\ q % n \in Int /\ q \div n \in Int BY <1>1, DivMod
<1>4. q - p = n * ((q \div n) - (p \div n)) BY <1>1, <1>2, <1>3
<1>5. n * ((q \div n) - (p \div n)) >= n BY <1>1, <1>2, <1>3, <1>4, Multiple
<1> QED BY <1>1, <1>4, <1>5

(* ... so that two positions of one window never share a cell.              *)
LEMMA CellsApartInWindow ==
    ASSUME NEW p \in Nat, NEW q \in Nat, p # q, p < q + buffer_size, q < p + buffer_size
    PROVE  cell(p) # cell(q)
<1>1. CASE p < q BY <1>1, CellsDiffer, Zenon
<1>2. CASE q < p BY <1>2, CellsDiffer, Zenon
<1> QED BY <1>1, <1>2

-----------------------------------------------------------------------------
Contents == Msgs \cup {NoMsg}
Places == Between \cup Filling \cup Emptying \cup {"e_look", "e_claim", "d_look", "d_claim"}

TypeOK ==
    /\ sequence_ \in [Cells -> Nat]
    /\ data_ \in [Cells -> Contents]
    /\ enqueue_pos_ \in Nat /\ dequeue_pos_ \in Nat
    /\ at \in [Threads -> Places]
    /\ pos \in [Threads -> Nat]
    /\ item \in [Threads -> Contents]
    /\ claimed \in Seq(Contents)
    /\ Len(claimed) = enqueue_pos_

(* The cells of the positions from dequeue_pos_ to enqueue_pos_: claimed by *)
(* a thread that fills it, or filled with the message of its position.      *)
FullCells ==
    \A p \in dequeue_pos_..(enqueue_pos_ - 1) :
        \/ sequence_[cell(p)] = p
        \/ sequence_[cell(p)] = p + 1 /\ data_[cell(p)] = claimed[p + 1]

(* The cells of the next round: free, or still being emptied.               *)
FreeCells ==
    \A p \in enqueue_pos_..(dequeue_pos_ + buffer_size - 1) :
        \/ sequence_[cell(p)] = p
        \/ sequence_[cell(p)] + buffer_size = p + 1

(* A thread between its claim of a position and the release of the cell.    *)
Filler(t) ==
    /\ dequeue_pos_ <= pos[t] /\ pos[t] < enqueue_pos_
    /\ sequence_[cell(pos[t])] = pos[t]
    /\ item[t] = claimed[pos[t] + 1]
    /\ at[t] = "e_store" => data_[cell(pos[t])] = item[t]

(* A thread that takes: the same for dequeue.                               *)
Emptier(t) ==
    /\ enqueue_pos_ <= pos[t] + buffer_size /\ pos[t] < dequeue_pos_
    /\ sequence_[cell(pos[t])] = pos[t] + 1
    /\ at[t] = "d_move" => data_[cell(pos[t])] = claimed[pos[t] + 1]

(* A position is claimed once on each side.                                 *)
Apart(t, u) ==
    t # u => /\ at[t] \in Filling /\ at[u] \in Filling => pos[t] # pos[u]
             /\ at[t] \in Emptying /\ at[u] \in Emptying => pos[t] # pos[u]

ThreadInv(t) ==
    /\ at[t] \in Filling => Filler(t)
    /\ at[t] \in Emptying => Emptier(t)
    /\ at[t] \in {"d_store", "taken"} =>
          pos[t] < enqueue_pos_ /\ item[t] = claimed[pos[t] + 1]
    /\ at[t] = "e_claim" => sequence_[cell(pos[t])] >= pos[t]
    /\ at[t] = "d_claim" => sequence_[cell(pos[t])] >= pos[t] + 1

QueueInv ==
    /\ TypeOK /\ Bounded /\ FullCells /\ FreeCells
    /\ \A t \in Threads : ThreadInv(t)
    /\ \A t, u \in Threads : Apart(t, u)

(* The constructor's sequence numbers make every cell free for its index.   *)
LEMMA InitInv == QueueInit => QueueInv
<1> SUFFICES ASSUME QueueInit PROVE QueueInv BY Zenon
<1> USE DEF QueueInit
<1>1. TypeOK BY SizePositive DEF TypeOK, Cells, Contents, Places, Between
<1>2. Bounded BY SizePositive DEF Bounded
<1>3. FullCells BY DEF FullCells
<1>4. FreeCells BY SizePositive, CellSmall DEF FreeCells, Cells
<1>5. \A t \in Threads : ThreadInv(t) BY Zenon DEF ThreadInv, Filling, Emptying
<1>6. \A t, u \in Threads : Apart(t, u) BY Zenon DEF Apart, Filling, Emptying
<1> QED BY <1>1, <1>2, <1>3, <1>4, <1>5, <1>6, Zenon DEF QueueInv

(* The invariant keeps the threads inside enqueue and dequeue apart.        *)
LEMMA InvCellsApart == QueueInv => CellsApart
<1> SUFFICES ASSUME QueueInv, NEW t \in Threads, NEW u \in Threads, t # u,
                    at[t] \in Filling \cup Emptying, at[u] \in Filling \cup Emptying
             PROVE  cell(pos[t]) # cell(pos[u])
  BY Zenon DEF CellsApart
<1>1. ThreadInv(t) /\ ThreadInv(u) /\ Apart(t, u) /\ Bounded BY Zenon DEF QueueInv
<1>2. /\ pos[t] \in Nat /\ pos[u] \in Nat
      /\ enqueue_pos_ \in Nat /\ dequeue_pos_ \in Nat
  BY Zenon DEF QueueInv, TypeOK
<1>3. /\ cell(pos[t] + buffer_size) = cell(pos[t])
      /\ cell(pos[u] + buffer_size) = cell(pos[u])
      /\ pos[t] + buffer_size \in Nat /\ pos[u] + buffer_size \in Nat
  BY <1>2, CellPeriod, SizePositive
<1>4. CASE at[t] \in Filling /\ at[u] \in Filling
  BY <1>1, <1>2, <1>4, CellsApartInWindow, SizePositive, Zenon DEF ThreadInv, Filler, Apart, Bounded
<1>5. CASE at[t] \in Emptying /\ at[u] \in Emptying
  BY <1>1, <1>2, <1>5, CellsApartInWindow, SizePositive DEF ThreadInv, Emptier, Apart, Bounded
<1>6. CASE at[t] \in Filling /\ at[u] \in Emptying
  BY <1>1, <1>2, <1>3, <1>6, CellsApartInWindow, SizePositive DEF ThreadInv, Filler, Emptier, Bounded
<1>7. CASE at[t] \in Emptying /\ at[u] \in Filling
  BY <1>1, <1>2, <1>3, <1>7, CellsApartInWindow, SizePositive DEF ThreadInv, Filler, Emptier, Bounded
<1> QED BY <1>4, <1>5, <1>6, <1>7, Zenon

-----------------------------------------------------------------------------
(* What a step of one thread leaves of the other threads' facts.            *)
LEMMA StepInv ==
    ASSUME QueueInv, NEW t \in Threads,
           QueueStep(t) \/ (at[t] \in Between /\ (dequeue(t) \/ \E m \in Msgs : enqueue(t, m)))
    PROVE  QueueInv'
<1> USE DEF Goes
<1>0. /\ TypeOK /\ Bounded /\ FullCells /\ FreeCells
      /\ \A u \in Threads : ThreadInv(u)
      /\ \A u, v \in Threads : Apart(u, v)
  BY Zenon DEF QueueInv
<1>1. ASSUME NEW m \in Msgs, enqueue(t, m), at[t] \in Between PROVE QueueInv'
  <2> USE <1>1 DEF enqueue
  <2>1. TypeOK' BY <1>0, Zenon DEF TypeOK, Contents, Places
  <2>2. Bounded' /\ FullCells' /\ FreeCells' BY <1>0, Zenon DEF Bounded, FullCells, FreeCells
  <2>3. \A u \in Threads : ThreadInv(u)'
    BY <1>0 DEF ThreadInv, TypeOK, Filler, Emptier, Filling, Emptying
  <2>4. \A u, v \in Threads : Apart(u, v)'
    BY <1>0, Zenon DEF Apart, TypeOK, Filling, Emptying
  <2> QED BY <2>1, <2>2, <2>3, <2>4, Zenon DEF QueueInv
<1>2. ASSUME dequeue(t), at[t] \in Between PROVE QueueInv'
  <2> USE <1>2 DEF dequeue
  <2>1. TypeOK' BY <1>0, Zenon DEF TypeOK, Contents, Places
  <2>2. Bounded' /\ FullCells' /\ FreeCells' BY <1>0, Zenon DEF Bounded, FullCells, FreeCells
  <2>3. \A u \in Threads : ThreadInv(u)'
    BY <1>0 DEF ThreadInv, TypeOK, Filler, Emptier, Filling, Emptying
  <2>4. \A u, v \in Threads : Apart(u, v)'
    BY <1>0, Zenon DEF Apart, TypeOK, Filling, Emptying
  <2> QED BY <2>1, <2>2, <2>3, <2>4, Zenon DEF QueueInv
<1>3. ASSUME LookEnqueue(t) PROVE QueueInv'
  <2> USE <1>3 DEF LookEnqueue
  <2>0. pos[t] \in Nat /\ cell(pos[t]) \in Cells /\ sequence_[cell(pos[t])] \in Nat
    BY <1>0, CellIn, Zenon DEF TypeOK
  <2>1. TypeOK' BY <1>0, Zenon DEF TypeOK, Contents, Places, Between
  <2>2. Bounded' /\ FullCells' /\ FreeCells' BY <1>0, Zenon DEF Bounded, FullCells, FreeCells
  <2>3. \A u \in Threads : ThreadInv(u)'
    BY <1>0, <2>0, SMTT(30) DEF ThreadInv, TypeOK, Filler, Emptier, Filling, Emptying
  <2>4. \A u, v \in Threads : Apart(u, v)'
    BY <1>0 DEF Apart, TypeOK, Filling, Emptying
  <2> QED BY <2>1, <2>2, <2>3, <2>4, Zenon DEF QueueInv
<1>4. ASSUME LookDequeue(t) PROVE QueueInv'
  <2> USE <1>4 DEF LookDequeue
  <2>0. pos[t] \in Nat /\ cell(pos[t]) \in Cells /\ sequence_[cell(pos[t])] \in Nat
    BY <1>0, CellIn, Zenon DEF TypeOK
  <2>1. TypeOK' BY <1>0, Zenon DEF TypeOK, Contents, Places, Between
  <2>2. Bounded' /\ FullCells' /\ FreeCells' BY <1>0, Zenon DEF Bounded, FullCells, FreeCells
  <2>3. \A u \in Threads : ThreadInv(u)'
    BY <1>0, <2>0, SMTT(30) DEF ThreadInv, TypeOK, Filler, Emptier, Filling, Emptying
  <2>4. \A u, v \in Threads : Apart(u, v)'
    BY <1>0 DEF Apart, TypeOK, Filling, Emptying
  <2> QED BY <2>1, <2>2, <2>3, <2>4, Zenon DEF QueueInv
<1>5. ASSUME ClaimEnqueue(t), enqueue_pos_ # pos[t] PROVE QueueInv'
  <2>a. /\ at[t] = "e_claim"
        /\ pos' = [pos EXCEPT ![t] = enqueue_pos_]
        /\ at' = [at EXCEPT ![t] = "e_look"]
        /\ UNCHANGED <<sequence_, data_, enqueue_pos_, dequeue_pos_, item, claimed>>
    BY <1>5, Zenon DEF ClaimEnqueue
  <2> USE <2>a
  <2>1. TypeOK' BY <1>0, Zenon DEF TypeOK, Contents, Places
  <2>2. Bounded' /\ FullCells' /\ FreeCells' BY <1>0, Zenon DEF Bounded, FullCells, FreeCells
  <2>3. \A u \in Threads : ThreadInv(u)'
    BY <1>0 DEF ThreadInv, TypeOK, Filler, Emptier, Filling, Emptying
  <2>4. \A u, v \in Threads : Apart(u, v)'
    BY <1>0, Zenon DEF Apart, TypeOK, Filling, Emptying
  <2> QED BY <2>1, <2>2, <2>3, <2>4, Zenon DEF QueueInv
<1>6. ASSUME ClaimDequeue(t), dequeue_pos_ # pos[t] PROVE QueueInv'
  <2> USE <1>6 DEF ClaimDequeue
  <2>1. TypeOK' BY <1>0, Zenon DEF TypeOK, Contents, Places
  <2>2. Bounded' /\ FullCells' /\ FreeCells' BY <1>0, Zenon DEF Bounded, FullCells, FreeCells
  <2>3. \A u \in Threads : ThreadInv(u)'
    BY <1>0 DEF ThreadInv, TypeOK, Filler, Emptier, Filling, Emptying
  <2>4. \A u, v \in Threads : Apart(u, v)'
    BY <1>0, SMTT(30) DEF Apart, TypeOK, Filling, Emptying
  <2> QED BY <2>1, <2>2, <2>3, <2>4, Zenon DEF QueueInv
<1>7. ASSUME ClaimEnqueue(t), enqueue_pos_ = pos[t] PROVE QueueInv'
  <2>a. /\ at[t] = "e_claim"
        /\ enqueue_pos_' = enqueue_pos_ + 1
        /\ claimed' = Append(claimed, item[t])
        /\ at' = [at EXCEPT ![t] = "e_move"]
        /\ UNCHANGED <<sequence_, data_, dequeue_pos_, pos, item>>
        /\ pos[t] = enqueue_pos_
    BY <1>7, Zenon DEF ClaimEnqueue
  <2>0. /\ enqueue_pos_ \in Nat /\ dequeue_pos_ \in Nat
        /\ pos \in [Threads -> Nat] /\ at \in [Threads -> Places]
        /\ item \in [Threads -> Contents] /\ claimed \in Seq(Contents)
        /\ Len(claimed) = enqueue_pos_
        /\ buffer_size \in Nat /\ buffer_size >= 2
        /\ dequeue_pos_ <= enqueue_pos_ /\ enqueue_pos_ <= dequeue_pos_ + buffer_size
    BY <1>0, SizePositive, Zenon DEF TypeOK, Bounded
  <2>1. sequence_[cell(enqueue_pos_)] >= enqueue_pos_
    BY <1>0, <2>a, Zenon DEF ThreadInv
  <2>2. enqueue_pos_ < dequeue_pos_ + buffer_size
    <3> SUFFICES ASSUME enqueue_pos_ = dequeue_pos_ + buffer_size PROVE FALSE BY <2>0
    <3>1. cell(enqueue_pos_) = cell(dequeue_pos_) BY <2>0, CellPeriod, Zenon
    <3>2. dequeue_pos_ \in dequeue_pos_..(enqueue_pos_ - 1) BY <2>0
    <3>3. sequence_[cell(dequeue_pos_)] \in {dequeue_pos_, dequeue_pos_ + 1}
      BY <1>0, <3>2, Zenon DEF FullCells
    <3> QED BY <2>0, <2>1, <3>1, <3>3
  <2>3. sequence_[cell(enqueue_pos_)] = enqueue_pos_
    <3>1. enqueue_pos_ \in enqueue_pos_..(dequeue_pos_ + buffer_size - 1) BY <2>0, <2>2
    <3>2. \/ sequence_[cell(enqueue_pos_)] = enqueue_pos_
          \/ sequence_[cell(enqueue_pos_)] + buffer_size = enqueue_pos_ + 1
      BY <1>0, <3>1, Zenon DEF FreeCells
    <3>3. sequence_[cell(enqueue_pos_)] \in Nat BY <1>0, <2>0, CellIn, Zenon DEF TypeOK
    <3> QED BY <2>0, <2>1, <3>2, <3>3
  <2>4. /\ Len(claimed') = enqueue_pos_ + 1
        /\ claimed' \in Seq(Contents)
        /\ claimed'[enqueue_pos_ + 1] = item[t]
        /\ \A p \in 0..(enqueue_pos_ - 1) : claimed'[p + 1] = claimed[p + 1]
    <3>1. item[t] \in Contents BY <2>0, Zenon
    <3> QED BY <2>a, <2>0, <3>1
  <2>5. TypeOK'
    <3>1. at' \in [Threads -> Places] BY <2>a, <2>0, Zenon DEF Places, Filling
    <3> QED BY <1>0, <2>a, <2>0, <2>4, <3>1 DEF TypeOK
  <2>6. Bounded' BY <2>a, <2>0, <2>2 DEF Bounded
  <2>7. FullCells'
    <3> SUFFICES ASSUME NEW p \in dequeue_pos_..enqueue_pos_
                 PROVE  \/ sequence_[cell(p)] = p
                        \/ sequence_[cell(p)] = p + 1 /\ data_[cell(p)] = claimed'[p + 1]
      <4>1. (enqueue_pos_' - 1) = enqueue_pos_ BY <2>a, <2>0
      <4> QED BY <2>a, <4>1, Zenon DEF FullCells
    <3>1. CASE p = enqueue_pos_ BY <3>1, <2>3, Zenon
    <3>2. CASE p # enqueue_pos_
      <4>1. p \in dequeue_pos_..(enqueue_pos_ - 1) /\ p \in 0..(enqueue_pos_ - 1) BY <2>0, <3>2
      <4> QED BY <1>0, <2>4, <4>1, Zenon DEF FullCells
    <3> QED BY <3>1, <3>2, Zenon
  <2>8. FreeCells' BY <1>0, <2>a, <2>0 DEF FreeCells
  <2>9. ASSUME NEW u \in Threads PROVE ThreadInv(u)'
    <3>0. ThreadInv(u) /\ pos[u] \in Nat BY <1>0, <2>0, Zenon
    <3>1. CASE u = t
      <4>1. at'[u] = "e_move" BY <3>1, <2>a, <2>0, ZenonT(60)
      <4> QED BY <3>1, <4>1, <2>a, <2>0, <2>3, <2>4 DEF ThreadInv, Filler, Filling, Emptying
    <3>2. CASE u # t
      <4>1. at'[u] = at[u] /\ pos'[u] = pos[u] /\ item'[u] = item[u] BY <2>a, <2>0, <3>2, Zenon
      <4>2. pos[u] < enqueue_pos_ => claimed'[pos[u] + 1] = claimed[pos[u] + 1]
        <5>1. pos[u] < enqueue_pos_ => pos[u] \in 0..(enqueue_pos_ - 1) BY <2>0, <3>0
        <5> QED BY <2>4, <5>1, Zenon
      <4>3. ASSUME Emptier(u) PROVE enqueue_pos_ + 1 <= pos[u] + buffer_size
        <5>1. enqueue_pos_ <= pos[u] + buffer_size BY <4>3, Zenon DEF Emptier
        <5>2. ASSUME enqueue_pos_ = pos[u] + buffer_size PROVE FALSE
          <6>1. cell(enqueue_pos_) = cell(pos[u]) BY <3>0, <5>2, CellPeriod, Zenon
          <6> QED BY <2>0, <2>3, <3>0, <4>3, <5>2, <6>1 DEF Emptier
        <5> QED BY <2>0, <3>0, <5>1, <5>2
      <4>4. pos[u] < dequeue_pos_ => pos[u] < enqueue_pos_ BY <2>0, <3>0
      <4> QED BY <2>a, <2>0, <3>0, <4>1, <4>2, <4>3, <4>4 DEF ThreadInv, Filler, Emptier
    <3> QED BY <3>1, <3>2, Zenon
  <2>10. ASSUME NEW u \in Threads, NEW v \in Threads PROVE Apart(u, v)'
    <3>1. Apart(u, v) /\ ThreadInv(u) /\ ThreadInv(v) /\ pos[u] \in Nat /\ pos[v] \in Nat
      BY <1>0, <2>0, Zenon
    <3> QED BY <2>a, <2>0, <3>1 DEF Apart, Filling, Emptying, ThreadInv, Filler
  <2> QED BY <2>5, <2>6, <2>7, <2>8, <2>9, <2>10, Zenon DEF QueueInv
<1>8. ASSUME ClaimDequeue(t), dequeue_pos_ = pos[t] PROVE QueueInv'
  <2>a. /\ at[t] = "d_claim"
        /\ dequeue_pos_' = dequeue_pos_ + 1
        /\ at' = [at EXCEPT ![t] = "d_move"]
        /\ UNCHANGED <<sequence_, data_, enqueue_pos_, pos, item, claimed>>
        /\ pos[t] = dequeue_pos_
    BY <1>8, Zenon DEF ClaimDequeue
  <2>0. /\ enqueue_pos_ \in Nat /\ dequeue_pos_ \in Nat
        /\ pos \in [Threads -> Nat] /\ at \in [Threads -> Places]
        /\ buffer_size \in Nat /\ buffer_size >= 2
        /\ dequeue_pos_ <= enqueue_pos_ /\ enqueue_pos_ <= dequeue_pos_ + buffer_size
    BY <1>0, SizePositive, Zenon DEF TypeOK, Bounded
  <2>1. sequence_[cell(dequeue_pos_)] >= dequeue_pos_ + 1
    BY <1>0, <2>a, Zenon DEF ThreadInv
  <2>2. dequeue_pos_ < enqueue_pos_
    <3>1. ASSUME enqueue_pos_ = dequeue_pos_ PROVE FALSE
      <4>1. dequeue_pos_ \in enqueue_pos_..(dequeue_pos_ + buffer_size - 1) BY <2>0, <3>1
      <4>2. \/ sequence_[cell(dequeue_pos_)] = dequeue_pos_
            \/ sequence_[cell(dequeue_pos_)] + buffer_size = dequeue_pos_ + 1
        BY <1>0, <4>1, Zenon DEF FreeCells
      <4>3. sequence_[cell(dequeue_pos_)] \in Nat BY <1>0, <2>0, CellIn, Zenon DEF TypeOK
      <4> QED BY <2>0, <2>1, <4>2, <4>3
    <3> QED BY <2>0, <3>1
  <2>3. /\ sequence_[cell(dequeue_pos_)] = dequeue_pos_ + 1
        /\ data_[cell(dequeue_pos_)] = claimed[dequeue_pos_ + 1]
    <3>1. dequeue_pos_ \in dequeue_pos_..(enqueue_pos_ - 1) BY <2>0, <2>2
    <3>2. \/ sequence_[cell(dequeue_pos_)] = dequeue_pos_
          \/ /\ sequence_[cell(dequeue_pos_)] = dequeue_pos_ + 1
             /\ data_[cell(dequeue_pos_)] = claimed[dequeue_pos_ + 1]
      BY <1>0, <3>1, Zenon DEF FullCells
    <3> QED BY <2>0, <2>1, <3>2
  <2>5. TypeOK'
    <3>1. at' \in [Threads -> Places] BY <2>a, <2>0, Zenon DEF Places, Emptying
    <3> QED BY <1>0, <2>a, <2>0, <3>1 DEF TypeOK
  <2>6. Bounded' BY <2>a, <2>0, <2>2, SMTT(30) DEF Bounded
  <2>7. FullCells' BY <1>0, <2>a, <2>0 DEF FullCells
  <2>8. FreeCells'
    <3> SUFFICES ASSUME NEW p \in enqueue_pos_..(dequeue_pos_ + buffer_size)
                 PROVE  \/ sequence_[cell(p)] = p
                        \/ sequence_[cell(p)] + buffer_size = p + 1
      <4>1. (dequeue_pos_' + buffer_size - 1) = dequeue_pos_ + buffer_size BY <2>a, <2>0
      <4> QED BY <2>a, <4>1, Zenon DEF FreeCells
    <3>1. CASE p = dequeue_pos_ + buffer_size
      <4>1. cell(p) = cell(dequeue_pos_) BY <2>0, <3>1, CellPeriod, Zenon
      <4> QED BY <2>0, <2>3, <3>1, <4>1
    <3>2. CASE p # dequeue_pos_ + buffer_size
      <4>1. p \in enqueue_pos_..(dequeue_pos_ + buffer_size - 1) BY <2>0, <3>2
      <4> QED BY <1>0, <4>1, Zenon DEF FreeCells
    <3> QED BY <3>1, <3>2, Zenon
  <2>9. ASSUME NEW u \in Threads PROVE ThreadInv(u)'
    <3>0. ThreadInv(u) /\ pos[u] \in Nat BY <1>0, <2>0, Zenon
    <3>1. CASE u = t
      <4>1. at'[u] = "d_move" BY <3>1, <2>a, <2>0, Zenon
      <4> QED BY <3>1, <4>1, <2>a, <2>0, <2>2, <2>3 DEF ThreadInv, Emptier, Filling, Emptying
    <3>2. CASE u # t
      <4>1. at'[u] = at[u] /\ pos'[u] = pos[u] /\ item'[u] = item[u] BY <2>a, <2>0, <3>2, Zenon
      <4>2. ASSUME Filler(u) PROVE dequeue_pos_ + 1 <= pos[u]
        BY <2>0, <2>3, <3>0, <4>2 DEF Filler
      <4>3. pos[u] < dequeue_pos_ => pos[u] < dequeue_pos_ + 1 BY <2>0, <3>0
      <4> QED BY <2>a, <2>0, <3>0, <4>1, <4>2, <4>3, Zenon DEF ThreadInv, Filler, Emptier
    <3> QED BY <3>1, <3>2
  <2>10. ASSUME NEW u \in Threads, NEW v \in Threads PROVE Apart(u, v)'
    <3>1. Apart(u, v) /\ ThreadInv(u) /\ ThreadInv(v) /\ pos[u] \in Nat /\ pos[v] \in Nat
      BY <1>0, <2>0, Zenon
    <3> QED BY <2>a, <2>0, <3>1 DEF Apart, Filling, Emptying, ThreadInv, Emptier
  <2> QED BY <2>5, <2>6, <2>7, <2>8, <2>9, <2>10 DEF QueueInv
<1>9. ASSUME FillCell(t) PROVE QueueInv'
  <2>a. /\ at[t] = "e_move"
        /\ data_' = [data_ EXCEPT ![cell(pos[t])] = item[t]]
        /\ at' = [at EXCEPT ![t] = "e_store"]
        /\ UNCHANGED <<sequence_, enqueue_pos_, dequeue_pos_, pos, item, claimed>>
    BY <1>9, Zenon DEF FillCell
  <2>0. /\ enqueue_pos_ \in Nat /\ dequeue_pos_ \in Nat
        /\ pos \in [Threads -> Nat] /\ at \in [Threads -> Places]
        /\ item \in [Threads -> Contents]
        /\ sequence_ \in [Cells -> Nat] /\ data_ \in [Cells -> Contents]
        /\ buffer_size \in Nat /\ buffer_size >= 2
        /\ dequeue_pos_ <= enqueue_pos_ /\ enqueue_pos_ <= dequeue_pos_ + buffer_size
        /\ pos[t] \in Nat /\ cell(pos[t]) \in Cells
    BY <1>0, SizePositive, CellIn, Zenon DEF TypeOK, Bounded
  <2>1. Filler(t) BY <1>0, <2>a, Zenon DEF ThreadInv, Filling
  <2>2. ASSUME NEW u \in Threads, u # t, at[u] \in Filling \cup Emptying
        PROVE  cell(pos[u]) # cell(pos[t])
    BY <2>a, <2>2, InvCellsApart, Zenon DEF CellsApart, Filling, Emptying
  <2>3. TypeOK'
    <3>1. at' \in [Threads -> Places] BY <2>a, <2>0, Zenon DEF Places, Filling
    <3>2. data_' \in [Cells -> Contents] BY <2>a, <2>0, Zenon
    <3> QED BY <1>0, <2>a, <3>1, <3>2, Zenon DEF TypeOK
  <2>4. Bounded' /\ FreeCells' BY <1>0, <2>a, Zenon DEF Bounded, FreeCells
  <2>5. FullCells'
    <3> SUFFICES ASSUME NEW p \in dequeue_pos_..(enqueue_pos_ - 1)
                 PROVE  \/ sequence_[cell(p)] = p
                        \/ sequence_[cell(p)] = p + 1 /\ data_'[cell(p)] = claimed[p + 1]
      BY <2>a, Zenon DEF FullCells
    <3>1. CASE p = pos[t] BY <2>1, <3>1, Zenon DEF Filler
    <3>2. CASE p # pos[t]
      <4>1. cell(p) # cell(pos[t])
        BY <2>0, <2>1, <3>2, CellsApartInWindow DEF Filler
      <4>2. data_'[cell(p)] = data_[cell(p)] BY <2>a, <2>0, <4>1, CellIn
      <4> QED BY <1>0, <4>2, Zenon DEF FullCells
    <3> QED BY <3>1, <3>2, Zenon
  <2>6. ASSUME NEW u \in Threads PROVE ThreadInv(u)'
    <3>0. ThreadInv(u) /\ cell(pos[u]) \in Cells BY <1>0, <2>0, CellIn, Zenon
    <3>1. CASE u = t
      <4>1. at'[t] = "e_store" /\ data_'[cell(pos[t])] = item[t] BY <2>a, <2>0, Zenon
      <4> QED BY <3>1, <4>1, <2>a, <2>1, Zenon DEF ThreadInv, Filler, Filling, Emptying
    <3>2. CASE u # t
      <4>1. at'[u] = at[u] BY <2>a, <2>0, <3>2, Zenon
      <4>2. at[u] \in Filling \cup Emptying => data_'[cell(pos[u])] = data_[cell(pos[u])]
        BY <2>a, <2>0, <2>2, <3>0, <3>2, Zenon
      <4> QED BY <2>a, <3>0, <4>1, <4>2, Zenon DEF ThreadInv, Filler, Emptier
    <3> QED BY <3>1, <3>2
  <2>7. ASSUME NEW u \in Threads, NEW v \in Threads PROVE Apart(u, v)'
    <3>1. Apart(u, v) BY <1>0, Zenon
    <3> QED BY <2>a, <2>0, <3>1, Zenon DEF Apart, Filling, Emptying
  <2> QED BY <2>3, <2>4, <2>5, <2>6, <2>7, Zenon DEF QueueInv
<1>10. ASSUME PublishCell(t) PROVE QueueInv'
  <2>a. /\ at[t] = "e_store"
        /\ sequence_' = [sequence_ EXCEPT ![cell(pos[t])] = pos[t] + 1]
        /\ at' = [at EXCEPT ![t] = "stored"]
        /\ UNCHANGED <<data_, enqueue_pos_, dequeue_pos_, pos, item, claimed>>
    BY <1>10, Zenon DEF PublishCell
  <2>0. /\ enqueue_pos_ \in Nat /\ dequeue_pos_ \in Nat
        /\ pos \in [Threads -> Nat] /\ at \in [Threads -> Places]
        /\ item \in [Threads -> Contents]
        /\ sequence_ \in [Cells -> Nat] /\ data_ \in [Cells -> Contents]
        /\ buffer_size \in Nat /\ buffer_size >= 2
        /\ dequeue_pos_ <= enqueue_pos_ /\ enqueue_pos_ <= dequeue_pos_ + buffer_size
        /\ pos[t] \in Nat /\ cell(pos[t]) \in Cells
    BY <1>0, SizePositive, CellIn, SMTT(30) DEF TypeOK, Bounded
  <2>1. Filler(t) BY <1>0, <2>a, Zenon DEF ThreadInv, Filling
  <2>2. ASSUME NEW u \in Threads, u # t, at[u] \in Filling \cup Emptying
        PROVE  cell(pos[u]) # cell(pos[t])
    BY <2>a, <2>2, InvCellsApart, Zenon DEF CellsApart, Filling, Emptying
  <2>3. TypeOK'
    <3>1. at' \in [Threads -> Places] BY <2>a, <2>0, Zenon DEF Places, Between
    <3>2. sequence_' \in [Cells -> Nat] BY <2>a, <2>0
    <3> QED BY <1>0, <2>a, <3>1, <3>2, Zenon DEF TypeOK
  <2>4. Bounded' BY <1>0, <2>a, Zenon DEF Bounded
  <2>5. ASSUME NEW p \in Nat, p # pos[t], p < pos[t] + buffer_size, pos[t] < p + buffer_size
        PROVE  sequence_'[cell(p)] = sequence_[cell(p)]
    <3>1. cell(p) # cell(pos[t]) BY <2>0, <2>5, CellsApartInWindow, Zenon
    <3> QED BY <2>a, <2>0, <3>1, CellIn, Zenon
  <2>6. FullCells'
    <3> SUFFICES ASSUME NEW p \in dequeue_pos_..(enqueue_pos_ - 1)
                 PROVE  \/ sequence_'[cell(p)] = p
                        \/ sequence_'[cell(p)] = p + 1 /\ data_[cell(p)] = claimed[p + 1]
      BY <2>a, Zenon DEF FullCells
    <3>1. CASE p = pos[t] BY <2>a, <2>0, <2>1, <3>1, Zenon DEF Filler
    <3>2. CASE p # pos[t]
      <4>1. sequence_'[cell(p)] = sequence_[cell(p)]
        BY <2>0, <2>1, <2>5, <3>2 DEF Filler
      <4> QED BY <1>0, <4>1, Zenon DEF FullCells
    <3> QED BY <3>1, <3>2, Zenon
  <2>7. FreeCells'
    <3> SUFFICES ASSUME NEW p \in enqueue_pos_..(dequeue_pos_ + buffer_size - 1)
                 PROVE  \/ sequence_'[cell(p)] = p
                        \/ sequence_'[cell(p)] + buffer_size = p + 1
      BY <2>a, Zenon DEF FreeCells
    <3>1. sequence_'[cell(p)] = sequence_[cell(p)] BY <2>0, <2>1, <2>5 DEF Filler
    <3> QED BY <1>0, <3>1, Zenon DEF FreeCells
  <2>8. ASSUME NEW u \in Threads PROVE ThreadInv(u)'
    <3>0. ThreadInv(u) /\ cell(pos[u]) \in Cells /\ pos[u] \in Nat BY <1>0, <2>0, CellIn, Zenon
    <3>1. CASE u = t
      <4>1. at'[t] = "stored" BY <2>a, <2>0, Zenon
      <4> QED BY <3>1, <4>1, Zenon DEF ThreadInv, Filling, Emptying
    <3>2. CASE u # t
      <4>1. at'[u] = at[u] BY <2>a, <2>0, <3>2, Zenon
      <4>2. at[u] \in Filling \cup Emptying => sequence_'[cell(pos[u])] = sequence_[cell(pos[u])]
        BY <2>a, <2>0, <2>2, <3>0, <3>2, Zenon
      <4>3. /\ sequence_'[cell(pos[u])] \in Nat /\ sequence_[cell(pos[u])] \in Nat
            /\ sequence_'[cell(pos[u])] >= sequence_[cell(pos[u])]
        BY <2>a, <2>0, <2>1, <3>0 DEF Filler
      <4>4. /\ at[u] = "e_claim" => sequence_'[cell(pos[u])] >= pos[u]
            /\ at[u] = "d_claim" => sequence_'[cell(pos[u])] >= pos[u] + 1
        BY <3>0, <4>3 DEF ThreadInv
      <4> QED BY <2>a, <3>0, <4>1, <4>2, <4>4, Zenon DEF ThreadInv, Filler, Emptier
    <3> QED BY <3>1, <3>2
  <2>9. ASSUME NEW u \in Threads, NEW v \in Threads PROVE Apart(u, v)'
    <3>1. Apart(u, v) BY <1>0
    <3> QED BY <2>a, <2>0, <3>1, Zenon DEF Apart, Filling, Emptying
  <2> QED BY <2>3, <2>4, <2>6, <2>7, <2>8, <2>9 DEF QueueInv
<1>11. ASSUME EmptyCell(t) PROVE QueueInv'
  <2>a. /\ at[t] = "d_move"
        /\ item' = [item EXCEPT ![t] = data_[cell(pos[t])]]
        /\ at' = [at EXCEPT ![t] = "d_store"]
        /\ UNCHANGED <<sequence_, data_, enqueue_pos_, dequeue_pos_, pos, claimed>>
    BY <1>11, Zenon DEF EmptyCell
  <2>0. /\ enqueue_pos_ \in Nat /\ dequeue_pos_ \in Nat
        /\ pos \in [Threads -> Nat] /\ at \in [Threads -> Places]
        /\ item \in [Threads -> Contents]
        /\ sequence_ \in [Cells -> Nat] /\ data_ \in [Cells -> Contents]
        /\ buffer_size \in Nat /\ buffer_size >= 2
        /\ dequeue_pos_ <= enqueue_pos_ /\ enqueue_pos_ <= dequeue_pos_ + buffer_size
        /\ pos[t] \in Nat /\ cell(pos[t]) \in Cells
    BY <1>0, SizePositive, CellIn DEF TypeOK, Bounded
  <2>1. Emptier(t) BY <1>0, <2>a, Zenon DEF ThreadInv, Emptying
  <2>3. TypeOK'
    <3>1. at' \in [Threads -> Places] BY <2>a, <2>0, Zenon DEF Places, Emptying
    <3>2. item' \in [Threads -> Contents] BY <2>a, <2>0, Zenon
    <3> QED BY <1>0, <2>a, <3>1, <3>2, Zenon DEF TypeOK
  <2>4. Bounded' /\ FullCells' /\ FreeCells' BY <1>0, <2>a, Zenon DEF Bounded, FullCells, FreeCells
  <2>6. ASSUME NEW u \in Threads PROVE ThreadInv(u)'
    <3>0. ThreadInv(u) BY <1>0, Zenon
    <3>1. CASE u = t
      <4>1. at'[t] = "d_store" /\ item'[t] = claimed[pos[t] + 1] BY <2>a, <2>0, <2>1, Zenon DEF Emptier
      <4>2. pos[t] < enqueue_pos_ BY <2>0, <2>1 DEF Emptier
      <4> QED BY <3>1, <4>1, <4>2, <2>a, <2>1, Zenon DEF ThreadInv, Emptier, Filling, Emptying
    <3>2. CASE u # t
      <4>1. at'[u] = at[u] /\ item'[u] = item[u] BY <2>a, <2>0, <3>2, Zenon
      <4> QED BY <2>a, <3>0, <4>1, Zenon DEF ThreadInv, Filler, Emptier
    <3> QED BY <3>1, <3>2
  <2>7. ASSUME NEW u \in Threads, NEW v \in Threads PROVE Apart(u, v)'
    <3>1. Apart(u, v) BY <1>0
    <3> QED BY <2>a, <2>0, <3>1, Zenon DEF Apart, Filling, Emptying
  <2> QED BY <2>3, <2>4, <2>6, <2>7, Zenon DEF QueueInv
<1>12. ASSUME ReleaseCell(t) PROVE QueueInv'
  <2>a. /\ at[t] = "d_store"
        /\ sequence_' = [sequence_ EXCEPT ![cell(pos[t])] = pos[t] + buffer_size]
        /\ at' = [at EXCEPT ![t] = "taken"]
        /\ UNCHANGED <<data_, enqueue_pos_, dequeue_pos_, pos, item, claimed>>
    BY <1>12, Zenon DEF ReleaseCell
  <2>0. /\ enqueue_pos_ \in Nat /\ dequeue_pos_ \in Nat
        /\ pos \in [Threads -> Nat] /\ at \in [Threads -> Places]
        /\ item \in [Threads -> Contents]
        /\ sequence_ \in [Cells -> Nat] /\ data_ \in [Cells -> Contents]
        /\ buffer_size \in Nat /\ buffer_size >= 2
        /\ dequeue_pos_ <= enqueue_pos_ /\ enqueue_pos_ <= dequeue_pos_ + buffer_size
        /\ pos[t] \in Nat /\ cell(pos[t]) \in Cells
    BY <1>0, SizePositive, CellIn DEF TypeOK, Bounded
  <2>1. Emptier(t) BY <1>0, <2>a, Zenon DEF ThreadInv, Emptying
  <2>2. ASSUME NEW u \in Threads, u # t, at[u] \in Filling \cup Emptying
        PROVE  cell(pos[u]) # cell(pos[t])
    BY <2>a, <2>2, InvCellsApart, Zenon DEF CellsApart, Filling, Emptying
  <2>3. TypeOK'
    <3>1. at' \in [Threads -> Places] BY <2>a, <2>0, Zenon DEF Places, Between
    <3>2. sequence_' \in [Cells -> Nat] BY <2>a, <2>0
    <3> QED BY <1>0, <2>a, <3>1, <3>2, Zenon DEF TypeOK
  <2>4. Bounded' BY <1>0, <2>a, Zenon DEF Bounded
  <2> DEFINE n == pos[t] + buffer_size
  <2>n. n \in Nat /\ cell(n) = cell(pos[t]) BY <2>0, CellPeriod
  <2>r. enqueue_pos_ <= n /\ n < dequeue_pos_ + buffer_size
    BY <2>0, <2>1 DEF Emptier
  <2> HIDE DEF n
  <2>5. ASSUME NEW p \in Nat, p # n, p < n + buffer_size, n < p + buffer_size
        PROVE  sequence_'[cell(p)] = sequence_[cell(p)]
    <3>1. cell(p) # cell(pos[t]) BY <2>0, <2>n, <2>5, CellsApartInWindow, Zenon
    <3> QED BY <2>a, <2>0, <3>1, CellIn, Zenon
  <2>6. FullCells'
    <3> SUFFICES ASSUME NEW p \in dequeue_pos_..(enqueue_pos_ - 1)
                 PROVE  \/ sequence_'[cell(p)] = p
                        \/ sequence_'[cell(p)] = p + 1 /\ data_[cell(p)] = claimed[p + 1]
      BY <2>a, Zenon DEF FullCells
    <3>1. sequence_'[cell(p)] = sequence_[cell(p)] BY <2>0, <2>n, <2>r, <2>5
    <3> QED BY <1>0, <3>1 DEF FullCells
  <2>7. FreeCells'
    <3> SUFFICES ASSUME NEW p \in enqueue_pos_..(dequeue_pos_ + buffer_size - 1)
                 PROVE  \/ sequence_'[cell(p)] = p
                        \/ sequence_'[cell(p)] + buffer_size = p + 1
      BY <2>a, Zenon DEF FreeCells
    <3>1. CASE p = n BY <2>a, <2>0, <2>n, <3>1, Zenon DEF n
    <3>2. CASE p # n
      <4>1. sequence_'[cell(p)] = sequence_[cell(p)] BY <2>0, <2>n, <2>r, <2>5, <3>2
      <4> QED BY <1>0, <4>1 DEF FreeCells
    <3> QED BY <3>1, <3>2, Zenon
  <2>8. ASSUME NEW u \in Threads PROVE ThreadInv(u)'
    <3>0. ThreadInv(u) /\ cell(pos[u]) \in Cells /\ pos[u] \in Nat BY <1>0, <2>0, CellIn
    <3>1. CASE u = t
      <4>1. at'[t] = "taken" BY <2>a, <2>0, Zenon
      <4>2. pos[t] < enqueue_pos_ /\ item[t] = claimed[pos[t] + 1] BY <1>0, <2>a, Zenon DEF ThreadInv
      <4> QED BY <3>1, <4>1, <4>2, <2>a, Zenon DEF ThreadInv, Filling, Emptying
    <3>2. CASE u # t
      <4>1. at'[u] = at[u] BY <2>a, <2>0, <3>2, Zenon
      <4>2. at[u] \in Filling \cup Emptying => sequence_'[cell(pos[u])] = sequence_[cell(pos[u])]
        BY <2>a, <2>0, <2>2, <3>0, <3>2, Zenon
      <4>3. /\ sequence_'[cell(pos[u])] \in Nat /\ sequence_[cell(pos[u])] \in Nat
            /\ sequence_'[cell(pos[u])] >= sequence_[cell(pos[u])]
        BY <2>a, <2>0, <2>1, <3>0 DEF Emptier
      <4>4. /\ at[u] = "e_claim" => sequence_'[cell(pos[u])] >= pos[u]
            /\ at[u] = "d_claim" => sequence_'[cell(pos[u])] >= pos[u] + 1
        BY <3>0, <4>3 DEF ThreadInv
      <4> QED BY <2>a, <3>0, <4>1, <4>2, <4>4, Zenon DEF ThreadInv, Filler, Emptier
    <3> QED BY <3>1, <3>2
  <2>9. ASSUME NEW u \in Threads, NEW v \in Threads PROVE Apart(u, v)'
    <3>1. Apart(u, v) BY <1>0
    <3> QED BY <2>a, <2>0, <3>1, Zenon DEF Apart, Filling, Emptying
  <2> QED BY <2>3, <2>4, <2>6, <2>7, <2>8, <2>9 DEF QueueInv
<1> QED
  BY <1>1, <1>2, <1>3, <1>4, <1>5, <1>6, <1>7, <1>8, <1>9, <1>10, <1>11, <1>12, Zenon DEF QueueStep

(* Every step of enqueue and dequeue, and every entry into them, keeps it.  *)
LEMMA QueueNextInv ==
    ASSUME QueueInv, [QueueNext]_queueVars
    PROVE  QueueInv'
<1>1. CASE QueueNext BY <1>1, StepInv, Zenon DEF QueueNext
<1>2. CASE UNCHANGED queueVars
  BY <1>2, ZenonT(60) DEF queueVars, QueueInv, TypeOK, Bounded, FullCells, FreeCells, ThreadInv, Filler,
              Emptier, Apart
<1> QED BY <1>1, <1>2, Zenon

(* The invariant of the queue, for any number of threads that put and take  *)
(* and any number of cells.                                                 *)
THEOREM QueueInvariance == QueueSpec => []QueueInv
BY InitInv, QueueNextInv, PTL DEF QueueSpec

(* No two threads of enqueue and dequeue ever work on one cell's data_.     *)
THEOREM QueueCellsApart == QueueSpec => []CellsApart
BY QueueInvariance, InvCellsApart, PTL

(* Every message taken is the one that was put at that position.            *)
THEOREM QueueTakenAsClaimed == QueueSpec => []TakenAsClaimed
<1>1. QueueInv => TakenAsClaimed
  <2> SUFFICES ASSUME QueueInv, NEW t \in Threads, at[t] \in {"d_store", "taken"}
               PROVE  pos[t] + 1 \in 1..Len(claimed) /\ item[t] = claimed[pos[t] + 1]
    BY Zenon DEF TakenAsClaimed
  <2>1. ThreadInv(t) /\ pos[t] \in Nat /\ enqueue_pos_ \in Nat /\ Len(claimed) = enqueue_pos_
    BY Zenon DEF QueueInv, TypeOK
  <2> QED BY <2>1 DEF ThreadInv
<1> QED BY <1>1, QueueInvariance, PTL

-----------------------------------------------------------------------------
(***************************************************************************)
(* The logger.                                                             *)
(***************************************************************************)
Putting == {"e_look", "e_claim", "e_move", "e_store", "stored", "full"}
Taking == {"d_look", "d_claim", "d_move", "d_store", "taken", "empty"}
Doings == Pushing \cup {"idle", "wait", "measure", "join", "loop", "next", "gone"}

(* A thread is inside the queue only while it pushes or the worker takes.   *)
CallInv ==
    /\ doing \in [Threads -> Doings]
    /\ sent \in [Threads -> Nat]
    /\ at \in [Threads -> Putting \cup Taking \cup {"idle"}]
    /\ item \in [Threads -> Msgs \cup {NoMsg}]
    /\ \A t \in Threads :
         /\ doing[t] \in Pushing => at[t] \in Putting /\ item[t] \in Msgs
         /\ doing[t] = "next" => at[t] \in Taking
         /\ doing[t] \notin Pushing \cup {"next"} => at[t] \in Between

(* Nobody is inside the queue at the start.                                 *)
LEMMA CallInit == Init => CallInv
BY DEF Init, QueueInit, CallInv, Doings, Between, Pushing

(* main and the worker are two of the queue's threads, and what they push   *)
(* are messages.                                                            *)
LEMMA MainAndWorker ==
    /\ Main \in Threads /\ Worker \in Threads /\ Main # Worker
    /\ Loggers \subseteq Threads
    /\ Flush \in Msgs /\ Terminate \in Msgs
BY LogAssumption DEF AllMsgs

(* A call into the queue: one of its entries, from outside.                 *)
LEMMA EnterInv ==
    ASSUME CallInv, NEW t \in Threads, NEW m \in Msgs, NEW d \in Pushing,
           at[t] \in Between, enqueue(t, m),
           doing' = [doing EXCEPT ![t] = d], sent' \in [Threads -> Nat]
    PROVE  CallInv' /\ QueueNext
<1>1. CallInv' BY Zenon DEF CallInv, enqueue, Goes, Pushing, Putting, Taking, Doings
<1>2. QueueNext BY Zenon DEF QueueNext
<1> QED BY <1>1, <1>2, Zenon

(* A step that stays out of the queue keeps everybody's side of it.         *)
LEMMA StayInv ==
    ASSUME CallInv, UNCHANGED <<queueVars, doing>>, sent' \in [Threads -> Nat]
    PROVE  CallInv'
BY Zenon DEF CallInv, queueVars

(* A step inside the queue keeps the thread on its side of it.              *)
LEMMA InsideInv ==
    ASSUME CallInv, QueueInv, NEW t \in Threads, QueueStep(t), UNCHANGED logVars
    PROVE  CallInv'
<1>1. UNCHANGED <<doing, sent>> BY Zenon DEF logVars
<1>2. cell(pos[t]) \in Cells /\ data_[cell(pos[t])] \in Msgs \cup {NoMsg}
  BY CellIn, Zenon DEF QueueInv, TypeOK, Contents
<1>3. ASSUME NEW to, at' = [at EXCEPT ![t] = to], UNCHANGED item,
             \/ at[t] \in Putting \ Between /\ to \in Putting
             \/ at[t] \in Taking \ Between /\ to \in Taking
      PROVE  CallInv'
  BY <1>1, <1>3 DEF CallInv, Putting, Taking, Between, Pushing
<1>4. CASE LookEnqueue(t)
  <2>1. CASE UNCHANGED at BY <1>1, <1>4, <2>1, Zenon DEF CallInv, LookEnqueue
  <2> QED BY <1>3, <1>4, <2>1, Zenon DEF LookEnqueue, Goes, Putting, Between
<1>5. CASE ClaimEnqueue(t) BY <1>3, <1>5, Zenon DEF ClaimEnqueue, Goes, Putting, Between
<1>6. CASE FillCell(t) BY <1>3, <1>6, Zenon DEF FillCell, Goes, Putting, Between
<1>7. CASE PublishCell(t) BY <1>3, <1>7, Zenon DEF PublishCell, Goes, Putting, Between
<1>8. CASE LookDequeue(t)
  <2>1. CASE UNCHANGED at BY <1>1, <1>8, <2>1, Zenon DEF CallInv, LookDequeue
  <2> QED BY <1>3, <1>8, <2>1, Zenon DEF LookDequeue, Goes, Taking, Between
<1>9. CASE ClaimDequeue(t) BY <1>3, <1>9, Zenon DEF ClaimDequeue, Goes, Taking, Between
<1>10. CASE EmptyCell(t)
  BY <1>1, <1>2, <1>10, Zenon DEF CallInv, EmptyCell, Goes, Putting, Taking, Between, Pushing
<1>11. CASE ReleaseCell(t) BY <1>3, <1>11, Zenon DEF ReleaseCell, Goes, Taking, Between
<1> QED BY <1>4, <1>5, <1>6, <1>7, <1>8, <1>9, <1>10, <1>11, Zenon DEF QueueStep

(* log(): an asynchronous logger enters enqueue, any other does not.        *)
LEMMA LogInv ==
    ASSUME CallInv, NEW t \in Loggers \cup {Main}, NEW lvl, log(t, lvl)
    PROVE  CallInv' /\ (QueueNext \/ UNCHANGED queueVars)
<1>1. t \in Threads /\ doing[t] = "idle" /\ at[t] \in Between
  BY MainAndWorker, Zenon DEF log, CallInv, Pushing
<1>2. sent' \in [Threads -> Nat] BY <1>1 DEF log, CallInv
<1>3. LogMsg(t, sent[t] + 1) \in Msgs
  <2>1. sent[t] + 1 \in 1..MaxLogs BY <1>1, LogAssumption DEF log, CallInv
  <2> QED BY <2>1, LogAssumption DEF AllMsgs
<1>4. CASE mode = "async"
  <2>1. enqueue(t, LogMsg(t, sent[t] + 1)) /\ doing' = [doing EXCEPT ![t] = "log"]
    BY <1>4, Zenon DEF log
  <2>2. "log" \in Pushing BY Zenon DEF Pushing
  <2> QED BY <1>1, <1>2, <1>3, <2>1, <2>2, EnterInv, Zenon
<1>5. CASE mode # "async"
  <2>1. UNCHANGED <<queueVars, doing>> BY <1>5, Zenon DEF log
  <2> QED BY <1>2, <2>1, StayInv, Zenon
<1> QED BY <1>4, <1>5, Zenon

(* Every step of the logger keeps CallInv and is a step of the queue.       *)
LEMMA CallStep ==
    ASSUME CallInv, QueueInv, Next
    PROVE  CallInv' /\ (QueueNext \/ UNCHANGED queueVars)
<1> USE MainAndWorker
<1>0. sent \in [Threads -> Nat] BY Zenon DEF CallInv
<1>1. ASSUME NEW made \in {"async", "sync", "null"}, create_global_logger(made)
      PROVE  CallInv' /\ UNCHANGED queueVars
  BY <1>1, Zenon DEF create_global_logger, CallInv, queueVars, Doings, Pushing
<1>2. ASSUME NEW p, NEW now, NEW next, SetPattern(p, now, next) PROVE CallInv' /\ UNCHANGED queueVars
  BY <1>0, <1>2, StayInv, Zenon DEF SetPattern
<1>3. CASE Header BY <1>3, LogInv, Zenon DEF Header
<1>4. CASE flush
  <2>1. CASE mode = "async"
    <3>1. enqueue(Main, Flush) /\ doing' = [doing EXCEPT ![Main] = "flush"] /\ sent' = sent
      BY <1>4, <2>1, Zenon DEF flush
    <3>2. at[Main] \in Between BY <1>4, Zenon DEF flush, CallInv, Pushing
    <3>3. "flush" \in Pushing BY Zenon DEF Pushing
    <3> QED BY <1>0, <3>1, <3>2, <3>3, EnterInv, Zenon
  <2>2. CASE mode # "async"
    <3>1. UNCHANGED <<queueVars, doing>> /\ sent' = sent BY <1>4, <2>2, Zenon DEF flush
    <3> QED BY <1>0, <3>1, StayInv, Zenon
  <2> QED BY <2>1, <2>2, Zenon
<1>5. CASE Exit
  <2>0. doing[Main] = "idle" BY <1>5, Zenon DEF Exit
  <2>1. CASE mode = "async"
    <3>1. enqueue(Main, Terminate) /\ doing' = [doing EXCEPT ![Main] = "terminate"] /\ sent' = sent
      BY <1>5, <2>1, Zenon DEF Exit
    <3>2. at[Main] \in Between BY <2>0, Zenon DEF CallInv, Pushing
    <3>3. "terminate" \in Pushing BY Zenon DEF Pushing
    <3> QED BY <1>0, <3>1, <3>2, <3>3, EnterInv, Zenon
  <2>2. CASE mode # "async"
    <3>1. UNCHANGED <<queueVars, doing>> /\ sent' = sent BY <1>5, <2>2, Zenon DEF Exit
    <3> QED BY <1>0, <3>1, StayInv
  <2> QED BY <2>1, <2>2
<1>6. CASE Join
  BY <1>6, Zenon DEF Join, CallInv, queueVars, Doings, Pushing
<1>7. CASE Dequeue
  <2>1. at[Worker] \in Between BY <1>7, Zenon DEF Dequeue, CallInv, Pushing
  <2>2. QueueNext BY <1>7, <2>1, Zenon DEF Dequeue, QueueNext
  <2>3. CallInv' BY <1>7, Zenon DEF Dequeue, dequeue, Goes, CallInv, Doings, Pushing, Taking
  <2> QED BY <2>2, <2>3, Zenon
<1>8. CASE ProcessMsg
  BY <1>8, Zenon DEF ProcessMsg, CallInv, queueVars, Doings, Pushing, Between
<1>9. CASE HandleEmpty
  BY <1>9, Zenon DEF HandleEmpty, CallInv, queueVars, Doings, Pushing, Between
<1>10. CASE Gone BY <1>0, <1>10, StayInv, Zenon DEF Gone, vars, logVars
<1>11. ASSUME NEW t \in Loggers, Log(t) PROVE CallInv' /\ (QueueNext \/ UNCHANGED queueVars)
  BY <1>11, LogInv, Zenon DEF Log, debug, info
<1>12. ASSUME NEW t \in Threads, push_msg(t) PROVE CallInv' /\ (QueueNext \/ UNCHANGED queueVars)
  <2>1. CASE at[t] = "full"
    <3>1. enqueue(t, item[t]) /\ UNCHANGED <<doing, sent>> /\ doing[t] \in Pushing
      BY <1>12, <2>1, Zenon DEF push_msg
    <3>2. item[t] \in Msgs /\ at[t] \in Between /\ doing' = [doing EXCEPT ![t] = doing[t]]
      BY <2>1, <3>1, Zenon DEF CallInv, Between
    <3> QED BY <1>0, <3>1, <3>2, EnterInv, Zenon
  <2>2. CASE at[t] # "full"
    <3>1. /\ UNCHANGED <<queueVars, sent>> /\ at[t] = "stored"
          /\ doing' = [doing EXCEPT ![t] = Pushed(t)]
          /\ doing[t] \in Pushing
      BY <1>12, <2>2, Zenon DEF push_msg
    <3>2. Pushed(t) \in {"idle", "wait", "join"} BY <3>1, Zenon DEF Pushed, Pushing
    <3> QED BY <3>1, <3>2, Zenon DEF CallInv, queueVars, Doings, Pushing, Between
  <2> QED BY <2>1, <2>2, Zenon
<1>13. ASSUME NEW t \in Threads, wait_empty_q(t) PROVE CallInv' /\ UNCHANGED queueVars
  BY <1>13 DEF wait_empty_q, CallInv, queueVars, Doings, Pushing, Between
<1>14. ASSUME NEW t \in Threads, QueueStep(t), UNCHANGED logVars PROVE CallInv' /\ QueueNext
  BY <1>14, InsideInv, Zenon DEF QueueNext
<1> QED
  BY <1>1, <1>2, <1>3, <1>4, <1>5, <1>6, <1>7, <1>8, <1>9, <1>10, <1>11, <1>12, <1>13, <1>14, Zenon
  DEF Next, Start, Work, Call

(* The queue's invariant holds of the logger's queue, step by step.         *)
LEMMA LogKeepsQueue ==
    ASSUME CallInv, QueueInv, [Next]_vars
    PROVE  CallInv' /\ QueueInv' /\ [QueueNext]_queueVars
<1>1. CallInv' /\ [QueueNext]_queueVars
  <2>1. CASE Next BY <2>1, CallStep, Zenon
  <2>2. CASE UNCHANGED vars BY <2>2, StayInv, Zenon DEF vars, logVars, CallInv
  <2> QED BY <2>1, <2>2, Zenon
<1>2. QueueInv' BY <1>1, QueueNextInv, Zenon
<1> QED BY <1>1, <1>2, Zenon

(* The logger implements the queue's specification: its threads and its     *)
(* worker enter enqueue and dequeue only from outside, with messages.       *)
THEOREM LogUsesQueue == Spec => QueueSpec
<1>1. Init => CallInv /\ QueueInv /\ QueueInit
  BY CallInit, InitInv, Zenon DEF Init
<1>2. CallInv /\ QueueInv /\ [Next]_vars => (CallInv /\ QueueInv)' /\ [QueueNext]_queueVars
  BY LogKeepsQueue, Zenon
<1> QED BY <1>1, <1>2, PTL DEF Spec, QueueSpec

(* Whatever the threads log, no two of them, nor one and the worker, ever   *)
(* move a message into or out of the same cell at once.                     *)
THEOREM LogCellsApart == Spec => []CellsApart
BY LogUsesQueue, QueueCellsApart, PTL

(* And the worker writes exactly the messages that were pushed, in the      *)
(* order in which their positions were claimed.                             *)
THEOREM LogTakenAsClaimed == Spec => []TakenAsClaimed
BY LogUsesQueue, QueueTakenAsClaimed, PTL

-----------------------------------------------------------------------------
(***************************************************************************)
(* What was logged reaches the sink in order and completely, for any number *)
(* of threads, messages and cells.  The inductive invariant OrderInv         *)
(* follows a message: in the hands of the thread that logs it (Holds), at a  *)
(* position of the queue (Claims, Logged), in the hands of the worker        *)
(* (Position), and settled (Outcome): written, or given up because its sink  *)
(* threw.                                                                    *)
(***************************************************************************)

LogMsgs == {LogMsg(t, n) : t \in Loggers \cup {Main}, n \in 1..MaxLogs}
Patterns == {"default", "header", "full", "trace"}
Records == [msg : LogMsgs, pattern : Patterns]
Phases == {"start", "created", "header", "flush", "flushed", "running", "exit", "stop", "gone"}

LogTypeOK ==
    /\ phase \in Phases /\ mode \in {"none", "async", "sync", "null"}
    /\ _formatter \in Patterns /\ _terminate_requested \in BOOLEAN
    /\ written \in Seq(Records)
    /\ processed \in Nat

(* Who does what, and in which phase of the daemon.                         *)
Roles ==
    /\ \A t \in Loggers : doing[t] \in {"idle", "log"}
    /\ doing[Main] \in Pushing \cup {"idle", "wait", "measure", "join"}
    /\ doing[Worker] \in {"idle", "loop", "next", "gone"}
    /\ mode # "async" => \A t \in Threads : doing[t] = "idle"
    /\ phase = "start" => mode = "none"
    /\ mode \in {"none", "null"} => \A t \in Threads : sent[t] = 0
    /\ sent[Worker] = 0
    /\ phase \in {"stop", "gone"} => \A t \in Loggers : doing[t] = "idle"
    /\ phase = "stop" <=> doing[Main] \in {"terminate", "join"}
    /\ phase = "gone" => doing[Main] = "idle" /\ (mode = "async" => doing[Worker] = "gone")
    /\ doing[Worker] = "gone" => _terminate_requested

(* What a thread that pushes has in its hands.                              *)
Holds ==
    \A t \in Threads :
        /\ doing[t] = "log" => item[t] = LogMsg(t, sent[t]) /\ sent[t] \in 1..MaxLogs
        /\ doing[t] = "flush" => item[t] = Flush
        /\ doing[t] = "terminate" => item[t] = Terminate

(* It has not claimed a position for it yet.                                *)
Unclaimed(t) == doing[t] \in Pushing /\ at[t] \in {"e_look", "e_claim", "full"}

(* Positions are claimed for the messages of one thread in the order of its *)
(* calls, and for the last message of all at the end.                       *)
Claims ==
    /\ claimed \in Seq(Msgs)
    /\ mode # "async" => claimed = <<>>
    /\ \A k \in 1..Len(claimed) : claimed[k] \in LogMsgs =>
          LET t == claimed[k].from IN
          claimed[k].n <= sent[t] /\ (doing[t] = "log" /\ Unclaimed(t) => claimed[k].n < sent[t])
    /\ \A j, k \in 1..Len(claimed) :
          j < k /\ claimed[j] \in LogMsgs /\ claimed[k] \in LogMsgs /\ claimed[j].from = claimed[k].from
            => claimed[j].n < claimed[k].n
    /\ \A k \in 1..Len(claimed) : claimed[k] = Terminate =>
          k = Len(claimed) /\ phase \in {"stop", "gone"} /\ ~Unclaimed(Main)

(* The worker has taken what it has dealt with, and the message in its hands. *)
Position ==
    /\ dequeue_pos_ = IF doing[Worker] = "next" /\ at[Worker] \in {"d_move", "d_store", "taken"}
                      THEN processed + 1 ELSE processed
    /\ doing[Worker] = "next" => pos[Worker] = processed

Settled == failed \cup {written[i].msg : i \in 1..Len(written)}

(* Every message logged has been claimed or is about to be.                 *)
Logged ==
    mode = "async" =>
        \A t \in Threads : \A n \in 1..sent[t] :
            \/ \E k \in 1..Len(claimed) : claimed[k] = LogMsg(t, n)
            \/ n = sent[t] /\ doing[t] = "log" /\ Unclaimed(t)

(* What the worker dealt with is written or failed, and nothing else is.    *)
Outcome ==
    /\ \A k \in 1..processed : claimed[k] \in LogMsgs => claimed[k] \in Settled
    /\ mode = "async" =>
          \A i \in 1..Len(written) : \E k \in 1..processed : written[i].msg = claimed[k]
    /\ _terminate_requested => \E k \in 1..processed : claimed[k] = Terminate

(* The same of a synchronous logger.                                        *)
SyncOutcome ==
    mode # "async" =>
        /\ \A t \in Threads : \A n \in 1..sent[t] : LogMsg(t, n) \in Settled
        /\ \A i \in 1..Len(written) : written[i].msg.n <= sent[written[i].msg.from]

OrderInv ==
    /\ LogTypeOK /\ Roles /\ Holds /\ Claims /\ Position
    /\ Logged /\ Outcome /\ SyncOutcome /\ WrittenInOrder

-----------------------------------------------------------------------------
(* A message is a logged one, which says whose it is, or one of the two     *)
(* others.                                                                  *)
LEMMA MsgFacts ==
    /\ Msgs = LogMsgs \cup {Flush, Terminate}
    /\ Flush \notin LogMsgs /\ Terminate \notin LogMsgs /\ Flush # Terminate
    /\ \A m \in LogMsgs : m.from \in Loggers \cup {Main} /\ m.n \in 1..MaxLogs
    /\ \A t \in Loggers \cup {Main} : \A n \in 1..MaxLogs :
          LogMsg(t, n) \in LogMsgs /\ LogMsg(t, n).from = t /\ LogMsg(t, n).n = n
<1>1. Msgs = LogMsgs \cup {Flush, Terminate} BY LogAssumption DEF AllMsgs, LogMsgs
<1>2. \A m \in LogMsgs : m.kind = "log" BY DEF LogMsgs, LogMsg
<1>3. Flush.kind = "flush" /\ Terminate.kind = "terminate" BY Zenon DEF Flush, Terminate
<1>4. Flush \notin LogMsgs /\ Terminate \notin LogMsgs /\ Flush # Terminate BY <1>2, <1>3, Zenon
<1>5. \A m \in LogMsgs : m.from \in Loggers \cup {Main} /\ m.n \in 1..MaxLogs
  BY DEF LogMsgs, LogMsg
<1>6. \A t \in Loggers \cup {Main} : \A n \in 1..MaxLogs :
         LogMsg(t, n) \in LogMsgs /\ LogMsg(t, n).from = t /\ LogMsg(t, n).n = n
  BY DEF LogMsgs, LogMsg
<1> QED BY <1>1, <1>4, <1>5, <1>6, Zenon

(* Nothing has been logged at the start.                                    *)
LEMMA OrderInit == Init => OrderInv
<1> SUFFICES ASSUME Init PROVE OrderInv BY Zenon
<1> USE MainAndWorker DEF Init, QueueInit
<1>1. LogTypeOK
  <2>1. <<>> \in Seq(Records) OBVIOUS
  <2> QED BY <2>1, Zenon DEF LogTypeOK, Phases, Patterns
<1>2. Roles BY Zenon DEF Roles
<1>3. Holds BY Zenon DEF Holds
<1>4. Claims /\ Logged BY DEF Claims, Logged
<1>5. Position BY Zenon DEF Position
<1>6. Outcome /\ SyncOutcome /\ WrittenInOrder BY DEF Outcome, SyncOutcome, WrittenInOrder
<1> QED BY <1>1, <1>2, <1>3, <1>4, <1>5, <1>6, Zenon DEF OrderInv

(* A step that neither claims a position nor touches the logger's state.    *)
LEMMA QuietInv ==
    ASSUME OrderInv, UNCHANGED <<logVars, claimed>>, Holds', Position',
           \A t \in Threads : Unclaimed(t)' <=> Unclaimed(t)
    PROVE  OrderInv'
<1> USE MainAndWorker DEF OrderInv, logVars
<1>1. LogTypeOK' BY Zenon DEF LogTypeOK
<1>2. Roles' BY Zenon DEF Roles
<1>3. Claims' 
  <2>1. \A k \in 1..Len(claimed) : claimed[k] \in LogMsgs => claimed[k].from \in Threads
    BY MsgFacts, Zenon
  <2> QED BY <2>1 DEF Claims
<1>4. Logged' BY ZenonT(60) DEF Logged
<1>5. Outcome' /\ SyncOutcome' /\ WrittenInOrder' BY DEF Outcome, SyncOutcome, WrittenInOrder, Settled
<1> QED BY <1>1, <1>2, <1>3, <1>4, <1>5, Zenon

(* Who is inside the queue, and on which side.                              *)
LEMMA Sides ==
    ASSUME CallInv, Roles, NEW t \in Threads
    PROVE  /\ at[t] \in Putting \ Between => doing[t] \in Pushing /\ t # Worker
           /\ at[t] \in Taking \ Between => t = Worker /\ doing[t] = "next"
<1>1. t \in Loggers \/ t = Main \/ t = Worker BY LogAssumption, Zenon
<1>2. doing[t] = "next" => t = Worker BY <1>1, Zenon DEF Roles, Pushing
<1>3. doing[t] \in Pushing => t # Worker BY MainAndWorker, Zenon DEF Roles, Pushing
<1> QED BY <1>2, <1>3, Zenon DEF CallInv, Putting, Taking, Between

(* enqueue on its way to the claim, and after it.                           *)
LEMMA LookOrder ==
    ASSUME OrderInv, CallInv, QueueInv, NEW t \in Threads, UNCHANGED logVars,
           LookEnqueue(t) \/ FillCell(t) \/ PublishCell(t)
    PROVE  OrderInv'
<1>1. at[t] \in Putting \ Between /\ at \in [Threads -> Putting \cup Taking \cup {"idle"}]
  BY Zenon DEF LookEnqueue, FillCell, PublishCell, Putting, Between, CallInv
<1>2. t # Worker /\ doing[t] \in Pushing BY <1>1, Sides, Zenon DEF OrderInv
<1>3. UNCHANGED <<claimed, item, dequeue_pos_, doing, sent, processed>>
  BY Zenon DEF LookEnqueue, FillCell, PublishCell, logVars
<1>4. \A u \in Threads : u # t => at'[u] = at[u] /\ pos'[u] = pos[u]
  BY <1>1, Zenon DEF LookEnqueue, FillCell, PublishCell, Goes, QueueInv, TypeOK
<1>5. Unclaimed(t)' <=> Unclaimed(t)
  BY <1>1, <1>2, <1>3, Zenon DEF LookEnqueue, FillCell, PublishCell, Goes, Unclaimed
<1>6. \A u \in Threads : Unclaimed(u)' <=> Unclaimed(u) BY <1>3, <1>4, <1>5, Zenon DEF Unclaimed
<1>7. Holds' BY <1>3, Zenon DEF Holds, OrderInv
<1>8. Position' BY <1>2, <1>3, <1>4, MainAndWorker, Zenon DEF Position, OrderInv
<1> QED BY <1>3, <1>6, <1>7, <1>8, QuietInv, Zenon

(* dequeue: only the worker is in it.                                       *)
LEMMA TakeOrder ==
    ASSUME OrderInv, CallInv, QueueInv, NEW t \in Threads, UNCHANGED logVars,
           LookDequeue(t) \/ ClaimDequeue(t) \/ EmptyCell(t) \/ ReleaseCell(t)
    PROVE  OrderInv'
<1> USE DEF LookDequeue, ClaimDequeue, EmptyCell, ReleaseCell
<1>1. at[t] \in Taking \ Between /\ at \in [Threads -> Putting \cup Taking \cup {"idle"}]
  BY Zenon DEF Taking, Between, CallInv
<1>2. t = Worker /\ doing[Worker] = "next" BY <1>1, Sides, Zenon DEF OrderInv
<1>3. UNCHANGED <<claimed, doing, sent, processed>> BY Zenon DEF logVars
<1>4. \A u \in Threads : u # t => at'[u] = at[u] /\ pos'[u] = pos[u] /\ item'[u] = item[u]
  BY <1>1, Zenon DEF Goes, QueueInv, TypeOK
<1>5. \A u \in Threads : Unclaimed(u)' <=> Unclaimed(u)
  BY <1>2, <1>3, <1>4, ZenonT(60) DEF Unclaimed, Pushing
<1>6. Holds' BY <1>2, <1>3, <1>4 DEF Holds, OrderInv
<1>7. Position'
  <2>1. Position /\ processed \in Nat BY Zenon DEF OrderInv, LogTypeOK
  <2>2. pos \in [Threads -> Nat] BY Zenon DEF QueueInv, TypeOK
  <2> QED BY <1>1, <1>2, <1>3, <2>1, <2>2, Zenon DEF Position, Goes
<1> QED BY <1>3, <1>5, <1>6, <1>7, QuietInv, Zenon

(* What a step does to the messages that have positions: nothing, unless it *)
(* claims one.                                                              *)
LEMMA ClaimsFrame ==
    ASSUME OrderInv, UNCHANGED <<claimed, mode>>,
           \A t \in Threads :
              \/ sent'[t] = sent[t] /\ (doing'[t] = "log" /\ Unclaimed(t)' => doing[t] = "log" /\ Unclaimed(t))
              \/ sent'[t] = sent[t] + 1 /\ sent[t] \in Nat,
           phase \in {"stop", "gone"} =>
              phase' \in {"stop", "gone"} /\ (Unclaimed(Main)' => Unclaimed(Main))
    PROVE  Claims'
<1>1. ASSUME NEW k \in 1..Len(claimed), claimed[k] \in LogMsgs
      PROVE  /\ claimed[k].n <= sent'[claimed[k].from]
             /\ doing'[claimed[k].from] = "log" /\ Unclaimed(claimed[k].from)'
                  => claimed[k].n < sent'[claimed[k].from]
  <2> DEFINE t == claimed[k].from
  <2>1. t \in Threads /\ claimed[k].n \in Nat BY <1>1, MsgFacts, MainAndWorker
  <2>2. claimed[k].n <= sent[t] /\ (doing[t] = "log" /\ Unclaimed(t) => claimed[k].n < sent[t])
    BY <1>1, Zenon DEF OrderInv, Claims
  <2> QED BY <2>1, <2>2
<1>2. ASSUME NEW k \in 1..Len(claimed), claimed[k] = Terminate
      PROVE  k = Len(claimed) /\ phase' \in {"stop", "gone"} /\ ~Unclaimed(Main)'
  BY <1>2, Zenon DEF OrderInv, Claims
<1> QED BY <1>1, <1>2 DEF OrderInv, Claims

(* The compare-exchange that claims a position puts the thread's message at *)
(* the end: it is younger than all the others of that thread, and nothing   *)
(* is behind the last message.                                              *)
LEMMA ClaimOrder ==
    ASSUME OrderInv, CallInv, QueueInv, NEW t \in Threads, UNCHANGED logVars, ClaimEnqueue(t)
    PROVE  OrderInv'
<1>1. at[t] = "e_claim" /\ at \in [Threads -> Putting \cup Taking \cup {"idle"}] /\ pos \in [Threads -> Nat]
  BY Zenon DEF ClaimEnqueue, CallInv, QueueInv, TypeOK
<1>2. t # Worker /\ doing[t] \in Pushing BY <1>1, Sides, Zenon DEF OrderInv, Putting, Between
<1>3. UNCHANGED <<item, dequeue_pos_, doing, sent, processed, phase, mode, written, failed, _terminate_requested, _formatter>>
  BY Zenon DEF ClaimEnqueue, logVars
<1>4. \A u \in Threads : u # t => at'[u] = at[u] /\ pos'[u] = pos[u]
  BY <1>1, Zenon DEF ClaimEnqueue, Goes
<1>5. \A u \in Threads : u # t => (Unclaimed(u)' <=> Unclaimed(u)) BY <1>3, <1>4, Zenon DEF Unclaimed
<1>6. Holds' BY <1>3, Zenon DEF Holds, OrderInv
<1>7. Position' BY <1>2, <1>3, <1>4, MainAndWorker, Zenon DEF Position, OrderInv
<1>8. Unclaimed(t) BY <1>1, <1>2, Zenon DEF Unclaimed
<1>9. CASE enqueue_pos_ # pos[t]
  <2>1. claimed' = claimed /\ Unclaimed(t)' BY <1>1, <1>2, <1>3, <1>9, Zenon DEF ClaimEnqueue, Goes, Unclaimed
  <2> QED BY <1>5, <1>6, <1>7, <1>8, <2>1, QuietInv, Zenon
<1>10. CASE enqueue_pos_ = pos[t]
  <2>1. claimed' = Append(claimed, item[t]) /\ ~Unclaimed(t)'
    BY <1>1, <1>10, Zenon DEF ClaimEnqueue, Goes, Unclaimed
  <2>2. item[t] \in Msgs /\ claimed \in Seq(Msgs) BY <1>2, Zenon DEF CallInv, OrderInv, Claims
  <2>3. /\ Len(claimed') = Len(claimed) + 1 /\ claimed' \in Seq(Msgs)
        /\ Len(claimed) \in Nat
        /\ \A k \in 1..Len(claimed) : claimed'[k] = claimed[k]
        /\ claimed'[Len(claimed) + 1] = item[t]
    BY <2>1, <2>2
  <2>4. \A k \in 1..Len(claimed) : claimed[k] # Terminate
    <3>1. SUFFICES ASSUME NEW k \in 1..Len(claimed), claimed[k] = Terminate PROVE FALSE BY Zenon
    <3>2. phase \in {"stop", "gone"} /\ ~Unclaimed(Main) BY <3>1, Zenon DEF OrderInv, Claims
    <3>3. \A u \in Loggers : doing[u] = "idle" BY <3>2, Zenon DEF OrderInv, Roles
    <3> QED BY <1>2, <1>8, <3>2, <3>3, LogAssumption, Zenon DEF Pushing
  <2>5. item[t] \in LogMsgs => /\ doing[t] = "log" /\ item[t].from = t /\ item[t].n = sent[t]
                               /\ sent[t] \in 1..MaxLogs
    <3>1. CASE doing[t] = "log"
      <4>1. item[t] = LogMsg(t, sent[t]) /\ sent[t] \in 1..MaxLogs BY <3>1, Zenon DEF OrderInv, Holds
      <4>2. t \in Loggers \cup {Main} BY <1>2, LogAssumption, Zenon
      <4> QED BY <3>1, <4>1, <4>2, MsgFacts
    <3>2. CASE doing[t] # "log"
      <4>1. item[t] \in {Flush, Terminate} BY <1>2, <3>2, Zenon DEF OrderInv, Holds, Pushing
      <4> QED BY <4>1, MsgFacts, Zenon
    <3> QED BY <3>1, <3>2, Zenon
  <2>6. item[t] = Terminate => t = Main /\ phase = "stop"
    <3>1. SUFFICES ASSUME item[t] = Terminate PROVE t = Main /\ phase = "stop" BY Zenon
    <3>2. doing[t] # "flush" BY <3>1, MsgFacts, Zenon DEF OrderInv, Holds
    <3>3. doing[t] # "log" 
      <4>1. t \in Loggers \cup {Main} BY <1>2, LogAssumption
      <4> QED BY <3>1, <4>1, MsgFacts DEF OrderInv, Holds
    <3>4. doing[t] = "terminate" BY <1>2, <3>2, <3>3, Zenon DEF Pushing
    <3> QED BY <1>2, <3>4, LogAssumption, Zenon DEF OrderInv, Roles
  <2>7. Claims'
    <3>1. mode = "async" BY <1>2, Zenon DEF OrderInv, Roles, Pushing
    <3>2. ASSUME NEW k \in 1..Len(claimed'), claimed'[k] \in LogMsgs
          PROVE  /\ claimed'[k].n <= sent'[claimed'[k].from]
                 /\ doing'[claimed'[k].from] = "log" /\ Unclaimed(claimed[k].from)'
                      => claimed'[k].n < sent'[claimed'[k].from]
      <4>1. CASE k \in 1..Len(claimed)
        <5>1. claimed'[k] = claimed[k] /\ claimed[k].from \in Threads
          BY <2>3, <3>2, <4>1, MsgFacts, MainAndWorker, Zenon
        <5>2. /\ claimed[k].n <= sent[claimed[k].from]
              /\ doing[claimed[k].from] = "log" /\ Unclaimed(claimed[k].from)
                   => claimed[k].n < sent[claimed[k].from]
          BY <3>2, <4>1, <5>1, Zenon DEF OrderInv, Claims
        <5>3. Unclaimed(claimed[k].from)' => Unclaimed(claimed[k].from)
          BY <1>3, <1>5, <1>8, <5>1, Zenon DEF Unclaimed
        <5> QED BY <1>3, <5>1, <5>2, <5>3, Zenon
      <4>2. CASE k = Len(claimed) + 1
        <5>1. claimed'[k].from = t /\ claimed'[k].n = sent[t] /\ sent[t] \in Nat
          BY <2>3, <2>5, <3>2, <4>2
        <5>2. ~Unclaimed(claimed[k].from)' BY <2>1, <5>1, Zenon DEF Unclaimed
        <5> QED BY <1>3, <5>1, <5>2
      <4> QED BY <2>3, <3>2, <4>1, <4>2
    <3>3. ASSUME NEW j \in 1..Len(claimed'), NEW k \in 1..Len(claimed'), j < k,
                 claimed'[j] \in LogMsgs, claimed'[k] \in LogMsgs, claimed'[j].from = claimed'[k].from
          PROVE  claimed'[j].n < claimed'[k].n
      <4>1. j \in 1..Len(claimed) /\ claimed'[j] = claimed[j] BY <2>3, <3>3
      <4>2. CASE k \in 1..Len(claimed) BY <2>3, <3>3, <4>1, <4>2, Zenon DEF OrderInv, Claims
      <4>3. CASE k = Len(claimed) + 1
        <5>1. /\ claimed'[k].from = t /\ claimed'[k].n = sent[t] /\ doing[t] = "log"
          BY <2>3, <2>5, <3>3, <4>3, Zenon
        <5>2. claimed[j] \in LogMsgs /\ claimed[j].from = t BY <3>3, <4>1, <5>1, Zenon
        <5>3. claimed[j].n < sent[t] BY <1>8, <4>1, <5>1, <5>2, Zenon DEF OrderInv, Claims
        <5> QED BY <4>1, <5>1, <5>3, Zenon
      <4> QED BY <2>3, <3>3, <4>2, <4>3
    <3>4. ASSUME NEW k \in 1..Len(claimed'), claimed'[k] = Terminate
          PROVE  k = Len(claimed') /\ phase' \in {"stop", "gone"} /\ ~Unclaimed(Main)'
      <4>1. k = Len(claimed) + 1 BY <2>3, <2>4, <3>4
      <4> QED BY <1>3, <2>1, <2>3, <2>6, <3>4, <4>1, Zenon
    <3> QED BY <1>3, <2>3, <3>1, <3>2, <3>3, <3>4, Zenon DEF Claims
  <2>8. Logged'
    <3> SUFFICES ASSUME mode = "async", NEW u \in Threads, NEW n \in 1..sent[u]
                 PROVE  \/ \E k \in 1..Len(claimed') : claimed'[k] = LogMsg(u, n)
                        \/ n = sent[u] /\ doing[u] = "log" /\ Unclaimed(u)'
      BY <1>3, Zenon DEF Logged
    <3>1. CASE \E k \in 1..Len(claimed) : claimed[k] = LogMsg(u, n) BY <2>3, <3>1
    <3>2. CASE n = sent[u] /\ doing[u] = "log" /\ Unclaimed(u)
      <4>1. CASE u = t
        <5>1. item[t] = LogMsg(u, n) BY <3>2, <4>1, Zenon DEF OrderInv, Holds
        <5> QED BY <2>3, <5>1
      <4>2. CASE u # t BY <1>5, <3>2, <4>2, Zenon
      <4> QED BY <4>1, <4>2, Zenon
    <3> QED BY <3>1, <3>2, Zenon DEF OrderInv, Logged
  <2>9. Outcome'
    <3>1. processed \in 0..Len(claimed)
      BY DEF OrderInv, LogTypeOK, Position, QueueInv, TypeOK, Bounded
    <3>2. \A k \in 1..processed : k \in 1..Len(claimed) /\ claimed'[k] = claimed[k] BY <2>3, <3>1, SMTT(30)
    <3> QED BY <1>3, <3>2 DEF OrderInv, Outcome, Settled
  <2>10. LogTypeOK' /\ Roles' /\ SyncOutcome' /\ WrittenInOrder'
    BY <1>3 DEF OrderInv, LogTypeOK, Roles, SyncOutcome, WrittenInOrder, Settled
  <2> QED BY <1>6, <1>7, <2>7, <2>8, <2>9, <2>10, Zenon DEF OrderInv
<1> QED BY <1>9, <1>10, Zenon

-----------------------------------------------------------------------------
(* log() of an asynchronous logger: the message is about to be claimed.     *)
LEMMA AsyncLogOrder ==
    ASSUME OrderInv, CallInv, QueueInv, NEW t \in Loggers \cup {Main}, NEW lvl,
           log(t, lvl), mode = "async",
           \/ phase = "running" /\ phase' = "running"
           \/ phase = "header" /\ phase' = "flush"
    PROVE  OrderInv'
<1>0. t \in Threads /\ t # Worker BY LogAssumption, Zenon
<1>1. /\ doing[t] = "idle" /\ sent[t] \in Nat /\ sent[t] < MaxLogs
      /\ sent \in [Threads -> Nat] /\ doing \in [Threads -> Doings]
      /\ at \in [Threads -> Putting \cup Taking \cup {"idle"}] /\ pos \in [Threads -> Nat]
      /\ item \in [Threads -> Contents]
  BY <1>0, Zenon DEF log, CallInv, QueueInv, TypeOK
<1>2. UNCHANGED <<mode, written, failed, processed, claimed, dequeue_pos_, _formatter, _terminate_requested>>
  BY Zenon DEF log, enqueue
<1>3. \A u \in Threads :
         /\ sent'[u] = IF u = t THEN sent[t] + 1 ELSE sent[u]
         /\ doing'[u] = IF u = t THEN "log" ELSE doing[u]
         /\ at'[u] = IF u = t THEN "e_look" ELSE at[u]
         /\ pos'[u] = IF u = t THEN enqueue_pos_ ELSE pos[u]
         /\ item'[u] = IF u = t THEN LogMsg(t, sent[t] + 1) ELSE item[u]
  BY <1>1 DEF log, enqueue, Goes
<1>4. Unclaimed(t)' /\ \A u \in Threads : u # t => (Unclaimed(u)' <=> Unclaimed(u))
  BY <1>0, <1>3, Zenon DEF Unclaimed, Pushing
<1>5. LogTypeOK' BY <1>2, ZenonT(60) DEF OrderInv, LogTypeOK, Phases
<1>6. Roles'
  BY <1>0, <1>1, <1>2, <1>3, MainAndWorker, LogAssumption, SMTT(30) DEF OrderInv, Roles, Pushing
<1>7. Holds' BY <1>1, <1>3, LogAssumption DEF OrderInv, Holds
<1>8. Claims' BY <1>1, <1>2, <1>3, <1>4, ClaimsFrame, Zenon
<1>9. Position' BY <1>0, <1>2, <1>3, MainAndWorker, Zenon DEF OrderInv, Position
<1>10. Logged'
  <2> SUFFICES ASSUME NEW u \in Threads, NEW n \in 1..sent'[u]
               PROVE  \/ \E k \in 1..Len(claimed) : claimed[k] = LogMsg(u, n)
                      \/ n = sent'[u] /\ doing'[u] = "log" /\ Unclaimed(u)'
    BY <1>2, Zenon DEF Logged
  <2>1. CASE u = t
    <3>1. n = sent[t] + 1 \/ n \in 1..sent[t] BY <1>1, <1>3, <2>1
    <3> QED BY <1>0, <1>1, <1>3, <1>4, <2>1, <3>1, ZenonT(60) DEF OrderInv, Logged
  <2>2. CASE u # t BY <1>3, <1>4, <2>2, Zenon DEF OrderInv, Logged
  <2> QED BY <2>1, <2>2, Zenon
<1>11. Outcome' /\ SyncOutcome' /\ WrittenInOrder'
  <2>1. Outcome' BY <1>2, ZenonT(60) DEF OrderInv, Outcome, Settled
  <2>2. SyncOutcome' BY <1>2, Zenon DEF OrderInv, SyncOutcome, Settled
  <2>3. WrittenInOrder' BY <1>2, Zenon DEF OrderInv, WrittenInOrder
  <2> QED BY <2>1, <2>2, <2>3, Zenon
<1> QED BY <1>5, <1>6, <1>7, <1>8, <1>9, <1>10, <1>11, Zenon DEF OrderInv

(* log() of a synchronous logger: the caller writes it itself.              *)
LEMMA SyncLogOrder ==
    ASSUME OrderInv, CallInv, QueueInv, NEW t \in Loggers \cup {Main}, NEW lvl,
           log(t, lvl), mode # "async",
           \/ phase = "running" /\ phase' = "running"
           \/ phase = "header" /\ phase' = "flush"
    PROVE  OrderInv'
<1>0. t \in Threads /\ t # Worker BY LogAssumption, Zenon
<1>1. sent[t] \in Nat /\ sent[t] < MaxLogs /\ sent \in [Threads -> Nat]
  BY <1>0, Zenon DEF log, CallInv
<1>2. UNCHANGED <<mode, processed, queueVars, doing, _formatter, _terminate_requested>> /\ mode = "sync"
  BY Zenon DEF log
<1>3. \A u \in Threads : sent'[u] = IF u = t THEN sent[t] + 1 ELSE sent[u] BY <1>1, Zenon DEF log
<1>4. UNCHANGED <<claimed, item, at, pos, dequeue_pos_>> BY <1>2, Zenon DEF queueVars
<1>5. \A u \in Threads : doing[u] = "idle" BY Zenon DEF OrderInv, Roles
<1> DEFINE m == LogMsg(t, sent[t] + 1)
<1>6. m \in LogMsgs /\ m.from = t /\ m.n = sent[t] + 1 BY <1>1, MsgFacts, LogAssumption
<1>7. SinkIt(m) BY <1>2, Zenon DEF log
<1> HIDE DEF m
<1>8. /\ written \in Seq(Records) /\ _formatter \in Patterns
      /\ \A i \in 1..Len(written) : written[i] \in Records /\ written[i].msg \in LogMsgs
  <2>1. written \in Seq(Records) /\ _formatter \in Patterns BY Zenon DEF OrderInv, LogTypeOK
  <2>2. \A i \in 1..Len(written) : written[i] \in Records BY <2>1
  <2> QED BY <2>1, <2>2, Zenon DEF Records
<1>9. [msg |-> m, pattern |-> _formatter] \in Records BY <1>6, <1>8, Zenon DEF Records
<1>10. LogTypeOK' BY <1>2, <1>7, <1>8, <1>9 DEF OrderInv, LogTypeOK, Phases, SinkIt
<1>11. Roles' BY <1>0, <1>2, <1>3, <1>5, MainAndWorker, Zenon DEF OrderInv, Roles
<1>12. Holds' /\ Logged' BY <1>2, <1>5, ZenonT(60) DEF Holds, Logged
<1>13. Claims' 
  <2>1. claimed = <<>> BY Zenon DEF OrderInv, Claims
  <2> QED BY <1>2, <1>4, <2>1 DEF OrderInv, Claims
<1>14. Position' BY <1>2, <1>4, ZenonT(60) DEF OrderInv, Position
<1>15. /\ Len(written) \in Nat
       /\ \A i \in 1..Len(written) :
             i \in 1..Len(written') /\ written'[i] = written[i]
             /\ written[i].msg.n <= sent[written[i].msg.from]
             /\ written[i].msg.from \in Threads /\ written[i].msg.n \in Nat
       /\ \A i \in 1..Len(written') : i \in 1..Len(written)
             \/ (i = Len(written) + 1 /\ written'[i].msg = m)
       /\ m \in failed' \/ (Len(written) + 1 \in 1..Len(written') /\ written'[Len(written) + 1].msg = m)
       /\ failed \subseteq failed'
  <2>1. \A i \in 1..Len(written) :
             /\ written[i].msg.n <= sent[written[i].msg.from]
             /\ written[i].msg.from \in Threads /\ written[i].msg.n \in Nat
    BY <1>8, MsgFacts, MainAndWorker DEF OrderInv, SyncOutcome
  <2> QED BY <1>7, <1>8, <1>9, <2>1, SMTT(30) DEF SinkIt
<1> HIDE DEF log
<1>16. Settled \subseteq Settled' BY <1>15, Zenon DEF Settled
<1>17. m \in Settled' BY <1>15, Zenon DEF Settled
<1>18. SyncOutcome'
  <2>1. ASSUME NEW u \in Threads, NEW n \in 1..sent'[u] PROVE LogMsg(u, n) \in Settled'
    <3>1. CASE u = t /\ n = sent[t] + 1 BY <1>17, <3>1, Zenon DEF m
    <3>2. CASE n \in 1..sent[u] BY <1>16, <3>2, Zenon DEF OrderInv, SyncOutcome
    <3> QED BY <1>1, <1>3, <2>1, <3>1, <3>2
  <2>2. ASSUME NEW i \in 1..Len(written')
        PROVE  written'[i].msg.n <= sent'[written'[i].msg.from]
    <3>1. CASE i \in 1..Len(written)
      <4>1. /\ written'[i] = written[i] /\ written[i].msg.from \in Threads /\ written[i].msg.n \in Nat
            /\ written[i].msg.n <= sent[written[i].msg.from]
        BY <1>15, <3>1, Zenon
      <4> QED BY <1>1, <1>3, <4>1
    <3>2. CASE i = Len(written) + 1 /\ written'[i].msg = m BY <1>0, <1>1, <1>3, <1>6, <3>2
    <3> QED BY <1>15, <3>1, <3>2, ZenonT(60)
  <2> QED BY <2>1, <2>2, Zenon DEF SyncOutcome
<1>19. WrittenInOrder'
  <2> SUFFICES ASSUME NEW i \in 1..Len(written'), NEW j \in 1..Len(written'), i < j,
                      written'[i].msg.from = written'[j].msg.from
               PROVE  written'[i].msg.n < written'[j].msg.n
    BY ZenonT(60) DEF WrittenInOrder
  <2>1. i \in 1..Len(written) BY <1>15
  <2>2. CASE j \in 1..Len(written) BY <1>15, <2>1, <2>2, ZenonT(60) DEF OrderInv, WrittenInOrder
  <2>3. CASE j = Len(written) + 1 /\ written'[j].msg = m
    <3>1. /\ written'[i] = written[i] /\ written[i].msg.n \in Nat
          /\ written[i].msg.n <= sent[written[i].msg.from]
      BY <1>15, <2>1, Zenon
    <3> QED BY <1>1, <1>6, <2>3, <3>1, SMTT(30)
  <2> QED BY <1>15, <2>2, <2>3, Zenon
<1>20. Outcome'
  <2>1. \A k \in 1..processed : claimed[k] \in LogMsgs => claimed[k] \in Settled' BY <1>16, Zenon DEF OrderInv, Outcome
  <2> QED BY <1>2, <1>4, <2>1, Zenon DEF OrderInv, Outcome
<1> QED BY <1>10, <1>11, <1>12, <1>13, <1>14, <1>18, <1>19, <1>20, Zenon DEF OrderInv

(* A step outside the queue that logs nothing.                              *)
LEMMA OutsideOrder ==
    ASSUME OrderInv,
           UNCHANGED <<queueVars, mode, sent, written, failed, processed, _terminate_requested>>,
           LogTypeOK', Roles',
           \A t \in Threads : doing'[t] = doing[t] \/ (doing'[t] \notin Pushing /\ ~Unclaimed(t)),
           doing'[Worker] = doing[Worker]
             \/ (doing[Worker] = "next" /\ at[Worker] = "empty" /\ doing'[Worker] # "next"),
           phase \in {"stop", "gone"} => phase' \in {"stop", "gone"}
    PROVE  OrderInv'
<1>1. UNCHANGED <<claimed, item, at, pos, dequeue_pos_>> BY Zenon DEF queueVars
<1>2. \A t \in Threads : Unclaimed(t)' <=> Unclaimed(t) BY <1>1, Zenon DEF Unclaimed
<1>3. \A t \in Threads : doing[t] = "log" /\ Unclaimed(t) => doing'[t] = "log" BY Zenon DEF Pushing
<1>4. \A t \in Threads : doing'[t] = "log" /\ Unclaimed(t)' => doing[t] = "log" /\ Unclaimed(t)
  BY <1>2, Zenon DEF Pushing
<1>5. Holds' BY <1>1, Zenon DEF OrderInv, Holds, Pushing
<1>6. Claims' BY <1>1, <1>2, <1>4, MainAndWorker, ClaimsFrame, Zenon
<1>7. Position' BY <1>1, Zenon DEF OrderInv, Position
<1>8. Logged' BY <1>1, <1>2, <1>3, Zenon DEF OrderInv, Logged
<1>9. Settled' = Settled BY Zenon DEF Settled
<1>10. Outcome' BY <1>1, <1>9, Zenon DEF OrderInv, Outcome
<1>11. SyncOutcome' BY <1>9, Zenon DEF OrderInv, SyncOutcome
<1>12. WrittenInOrder' BY Zenon DEF OrderInv, WrittenInOrder
<1> QED BY <1>5, <1>6, <1>7, <1>8, <1>10, <1>11, <1>12, Zenon DEF OrderInv

(* flush(), the destructor, and push_msg on a full queue: a message that is *)
(* not a new one, or was not claimed before, goes to the head of enqueue.   *)
LEMMA EnterOrder ==
    ASSUME OrderInv, CallInv, QueueInv, NEW t \in Threads, t # Worker, NEW m, enqueue(t, m), NEW d,
           UNCHANGED <<mode, sent, written, failed, processed, _terminate_requested>>,
           LogTypeOK', Roles', doing' = [doing EXCEPT ![t] = d],
           \/ d = "flush" /\ m = Flush /\ doing[t] # "log"
           \/ d = "terminate" /\ m = Terminate /\ doing[t] # "log"
           \/ d = doing[t] /\ m = item[t] /\ Unclaimed(t),
           phase \in {"stop", "gone"} => phase' \in {"stop", "gone"} /\ Unclaimed(t)
    PROVE  OrderInv'
<1>1. /\ doing \in [Threads -> Doings] /\ pos \in [Threads -> Nat] /\ item \in [Threads -> Contents]
      /\ at \in [Threads -> Putting \cup Taking \cup {"idle"}]
  BY Zenon DEF CallInv, QueueInv, TypeOK
<1>2. UNCHANGED <<claimed, dequeue_pos_>> BY Zenon DEF enqueue
<1>3. \A u \in Threads :
         /\ doing'[u] = IF u = t THEN d ELSE doing[u]
         /\ at'[u] = IF u = t THEN "e_look" ELSE at[u]
         /\ pos'[u] = IF u = t THEN enqueue_pos_ ELSE pos[u]
         /\ item'[u] = IF u = t THEN m ELSE item[u]
  BY <1>1, Zenon DEF enqueue, Goes
<1>4. d \in Pushing BY Zenon DEF Pushing, Unclaimed
<1>5. /\ Unclaimed(t)'
      /\ \A u \in Threads : u # t => (Unclaimed(u)' <=> Unclaimed(u))
  BY <1>3, <1>4, ZenonT(60) DEF Unclaimed
<1>6. \A u \in Threads : (doing'[u] = "log" /\ Unclaimed(u)') <=> (doing[u] = "log" /\ Unclaimed(u))
  BY <1>3, <1>5, SMTT(30)
<1>7. Holds' BY <1>3, MsgFacts DEF OrderInv, Holds
<1>8. Claims' BY <1>2, <1>5, <1>6, MainAndWorker, ClaimsFrame, Zenon
<1>9. Position' BY <1>2, <1>3, MainAndWorker, Zenon DEF OrderInv, Position
<1>10. Logged' BY <1>2, <1>6, ZenonT(60) DEF OrderInv, Logged
<1>11. Outcome' /\ SyncOutcome' /\ WrittenInOrder'
  BY <1>2 DEF OrderInv, Outcome, SyncOutcome, WrittenInOrder, Settled
<1> QED BY <1>7, <1>8, <1>9, <1>10, <1>11, Zenon DEF OrderInv

(* The worker deals with the next message in the order of the claims, which *)
(* is younger than what it has written of the same thread.                  *)
LEMMA ProcessOrder ==
    ASSUME OrderInv, CallInv, QueueInv, ProcessMsg
    PROVE  OrderInv'
<1> DEFINE w == item[Worker]
<1>0. Worker \in Threads /\ doing[Worker] = "next" /\ at[Worker] = "taken"
  BY MainAndWorker, Zenon DEF ProcessMsg
<1>1. /\ doing \in [Threads -> Doings] /\ processed \in Nat /\ pos[Worker] = processed
      /\ dequeue_pos_ = processed + 1
  BY <1>0, Zenon DEF CallInv, OrderInv, LogTypeOK, Position
<1>2. /\ UNCHANGED <<claimed, item, at, pos, dequeue_pos_, phase, mode, sent, _formatter>>
      /\ processed' = processed + 1
      /\ _terminate_requested' = (_terminate_requested \/ w = Terminate)
  BY Zenon DEF ProcessMsg, queueVars
<1>3. \A u \in Threads : doing'[u] = IF u = Worker THEN "loop" ELSE doing[u]
  BY <1>1, Zenon DEF ProcessMsg
<1>4. processed + 1 \in 1..Len(claimed) /\ w = claimed[processed + 1] /\ w \in Msgs
  <2>1. pos[Worker] < enqueue_pos_ /\ w = claimed[pos[Worker] + 1] /\ Len(claimed) = enqueue_pos_
    BY <1>0, Zenon DEF QueueInv, ThreadInv, TypeOK
  <2>2. claimed \in Seq(Msgs) BY Zenon DEF OrderInv, Claims
  <2> QED BY <1>1, <2>1, <2>2
<1>5. mode = "async" BY <1>0, Zenon DEF OrderInv, Roles
<1>6. \/ w \in {Flush, Terminate} /\ UNCHANGED <<written, failed>>
      \/ w \in LogMsgs /\ SinkIt(w)
  BY <1>4, MsgFacts, Zenon DEF ProcessMsg
<1> HIDE DEF w, ProcessMsg
<1>7. /\ written \in Seq(Records) /\ _formatter \in Patterns
      /\ \A i \in 1..Len(written) : written[i] \in Records /\ written[i].msg \in LogMsgs
  <2>1. written \in Seq(Records) /\ _formatter \in Patterns BY Zenon DEF OrderInv, LogTypeOK
  <2>2. \A i \in 1..Len(written) : written[i] \in Records BY <2>1
  <2> QED BY <2>1, <2>2, Zenon DEF Records
<1>8. w \in LogMsgs => [msg |-> w, pattern |-> _formatter] \in Records BY <1>7, ZenonT(60) DEF Records
<1>9. LogTypeOK' BY <1>1, <1>2, <1>6, <1>7, <1>8, SMTT(30) DEF OrderInv, LogTypeOK, SinkIt
<1>10. Roles'
  <2>1. \A u \in Threads : u # Worker => doing'[u] = doing[u] BY <1>3, Zenon
  <2>2. doing'[Worker] = "loop" BY <1>0, <1>3, Zenon
  <2> QED BY <1>0, <1>2, <1>5, <2>1, <2>2, LogAssumption, Zenon DEF OrderInv, Roles
<1>11. /\ \A u \in Threads : Unclaimed(u)' <=> Unclaimed(u)
       /\ \A u \in Threads : u # Worker => doing'[u] = doing[u]
       /\ doing'[Worker] \notin Pushing /\ doing[Worker] \notin Pushing
  BY <1>0, <1>2, <1>3, Zenon DEF Unclaimed, Pushing
<1>12. Holds'
  <2>1. \A u \in Threads : doing'[u] \in Pushing => doing'[u] = doing[u] BY <1>11, Zenon
  <2> QED BY <1>2, <2>1, Zenon DEF OrderInv, Holds, Pushing
<1>13. Claims'
  <2>1. \A u \in Threads : doing'[u] = "log" => doing[u] = "log" BY <1>11, Zenon DEF Pushing
  <2> QED BY <1>2, <1>11, <2>1, MainAndWorker, ClaimsFrame, Zenon
<1>14. Position' BY <1>0, <1>1, <1>2, <1>3, Zenon DEF Position
<1>15. Logged'
  <2>1. Logged /\ \A u \in Threads : doing[u] = "log" => doing'[u] = "log" BY <1>11, Zenon DEF OrderInv, Pushing
  <2> QED BY <1>2, <1>11, <2>1, ZenonT(60) DEF Logged
<1>16. /\ Len(written) \in Nat
       /\ \A i \in 1..Len(written) : i \in 1..Len(written') /\ written'[i] = written[i]
       /\ \A i \in 1..Len(written') : i \in 1..Len(written)
             \/ (i = Len(written) + 1 /\ written'[i].msg = w /\ w \in LogMsgs)
       /\ w \in LogMsgs => w \in failed'
             \/ (Len(written) + 1 \in 1..Len(written') /\ written'[Len(written) + 1].msg = w)
       /\ failed \subseteq failed'
  BY <1>6, <1>7, <1>8, MsgFacts DEF SinkIt
<1>17. Settled \subseteq Settled' BY <1>16, Zenon DEF Settled
<1>18. w \in LogMsgs => w \in Settled' BY <1>16, Zenon DEF Settled
<1>19. Outcome'
  <2>1. ASSUME NEW k \in 1..processed', claimed'[k] \in LogMsgs PROVE claimed'[k] \in Settled'
    <3>1. CASE k = processed + 1 BY <1>2, <1>4, <1>18, <2>1, <3>1, Zenon
    <3>2. CASE k \in 1..processed BY <1>2, <1>17, <2>1, <3>2, Zenon DEF OrderInv, Outcome
    <3> QED BY <1>1, <1>2, <2>1, <3>1, <3>2
  <2>2. ASSUME NEW i \in 1..Len(written') PROVE \E k \in 1..processed' : written'[i].msg = claimed'[k]
    <3>1. CASE i \in 1..Len(written)
      <4>1. PICK k \in 1..processed : written[i].msg = claimed[k] BY <1>5, <3>1, Zenon DEF OrderInv, Outcome
      <4>2. k \in 1..processed' BY <1>1, <1>2
      <4> QED BY <1>2, <1>16, <3>1, <4>1, <4>2, Zenon
    <3>2. CASE written'[i].msg = w
      <4>1. processed + 1 \in 1..processed' BY <1>1, <1>2
      <4> QED BY <1>2, <1>4, <3>2, <4>1, Zenon
    <3> QED BY <1>16, <2>2, <3>1, <3>2, Zenon
  <2>3. ASSUME _terminate_requested' PROVE \E k \in 1..processed' : claimed'[k] = Terminate
    <3>1. CASE w = Terminate
      <4>1. processed + 1 \in 1..processed' BY <1>1, <1>2
      <4> QED BY <1>2, <1>4, <3>1, <4>1, Zenon
    <3>2. CASE _terminate_requested
      <4>1. PICK k \in 1..processed : claimed[k] = Terminate BY <3>2, Zenon DEF OrderInv, Outcome
      <4>2. k \in 1..processed' BY <1>1, <1>2
      <4> QED BY <1>2, <4>1, <4>2, Zenon
    <3> QED BY <1>2, <2>3, <3>1, <3>2, Zenon
  <2> QED BY <2>1, <2>2, <2>3, Zenon DEF Outcome
<1>20. SyncOutcome' BY <1>2, <1>5, Zenon DEF SyncOutcome
<1>21. WrittenInOrder'
  <2> SUFFICES ASSUME NEW i \in 1..Len(written'), NEW j \in 1..Len(written'), i < j,
                      written'[i].msg.from = written'[j].msg.from
               PROVE  written'[i].msg.n < written'[j].msg.n
    BY Zenon DEF WrittenInOrder
  <2>1. i \in 1..Len(written) /\ written'[i] = written[i] BY <1>16
  <2>2. CASE j \in 1..Len(written) BY <1>16, <2>1, <2>2, Zenon DEF OrderInv, WrittenInOrder
  <2>3. CASE written'[j].msg = w /\ w \in LogMsgs
    <3>1. PICK k \in 1..processed : written[i].msg = claimed[k] BY <1>5, <2>1, Zenon DEF OrderInv, Outcome
    <3>2. k \in 1..Len(claimed) /\ k < processed + 1 BY <1>1, <1>4
    <3>3. claimed[k] \in LogMsgs /\ claimed[k].from = w.from BY <1>7, <2>1, <2>3, <3>1, Zenon
    <3>4. claimed[k].n < claimed[processed + 1].n
      BY <1>4, <2>3, <3>2, <3>3, Zenon DEF OrderInv, Claims
    <3> QED BY <1>4, <2>1, <2>3, <3>1, <3>4, Zenon
  <2> QED BY <1>16, <2>2, <2>3, Zenon
<1> QED BY <1>9, <1>10, <1>12, <1>13, <1>14, <1>15, <1>19, <1>20, <1>21, Zenon DEF OrderInv

(* Every step of the threads and of the worker keeps the invariant.         *)
LEMMA OrderStep ==
    ASSUME OrderInv, CallInv, QueueInv, [Next]_vars
    PROVE  OrderInv'
<1>0. Main \in Threads /\ Worker \in Threads /\ Main # Worker /\ Loggers \subseteq Threads
      /\ Main \notin Loggers /\ Worker \notin Loggers /\ Threads = Loggers \cup {Main, Worker}
  BY LogAssumption, Zenon
<1>1. doing \in [Threads -> Doings] BY Zenon DEF CallInv
<1>2. LogTypeOK /\ Roles BY Zenon DEF OrderInv
<1>3. ASSUME NEW made \in {"async", "sync", "null"}, create_global_logger(made) PROVE OrderInv'
  <2> USE <1>3 DEF create_global_logger
  <2>1. mode = "none" /\ (\A t \in Threads : doing[t] = "idle" /\ sent[t] = 0) /\ claimed = <<>>
    BY Zenon DEF OrderInv, Roles, Claims
  <2>2. UNCHANGED <<claimed, item, at, pos, dequeue_pos_>> BY Zenon DEF queueVars
  <2>3. \A u \in Threads : doing'[u] = IF u = Worker /\ made = "async" THEN "loop" ELSE "idle"
    BY <1>1, <2>1, Zenon
  <2>4. processed = 0 /\ written = <<>>
    <3>1. \A i \in 1..Len(written) : FALSE
      <4> SUFFICES ASSUME NEW i \in 1..Len(written) PROVE FALSE BY Zenon
      <4>1. written[i] \in Records BY <1>2 DEF LogTypeOK
      <4>2. written[i].msg \in LogMsgs BY <4>1, ZenonT(60) DEF Records
      <4>3. written[i].msg.from \in Threads /\ written[i].msg.n \in Nat /\ written[i].msg.n > 0
        BY <1>0, <4>2, MsgFacts, LogAssumption
      <4>4. written[i].msg.n <= sent[written[i].msg.from] BY <2>1, Zenon DEF OrderInv, SyncOutcome
      <4> QED BY <2>1, <4>3, <4>4
    <3>2. Len(written) = 0 BY <1>2, <3>1 DEF LogTypeOK
    <3>3. dequeue_pos_ <= 0 BY <2>1, Zenon DEF QueueInv, TypeOK, Bounded
    <3>4. dequeue_pos_ = processed BY <1>0, <2>1, Zenon DEF OrderInv, Position
    <3> QED BY <1>2, <3>2, <3>3, <3>4, SMTT(30) DEF LogTypeOK
  <2>5. LogTypeOK' BY <1>2, ZenonT(60) DEF LogTypeOK, Phases, Patterns
  <2>6. Roles'
    <3>1. /\ phase' \in {"exit", "created"} /\ mode' = made /\ UNCHANGED sent
          /\ UNCHANGED _terminate_requested
      BY ZenonT(60)
    <3> QED BY <1>0, <2>1, <2>3, <3>1 DEF Roles
  <2>7. Holds' BY <2>3, SMTT(30) DEF Holds
  <2>8. Claims' BY <2>1, <2>2, SMTT(30) DEF OrderInv, Claims
  <2>9. Position' BY <1>0, <2>1, <2>2, <2>3, SMTT(30) DEF OrderInv, Position
  <2>10. Logged' BY <2>1 DEF Logged
  <2>11. Outcome'
    <3>1. ~_terminate_requested BY <2>4 DEF OrderInv, Outcome
    <3> QED BY <2>4, <3>1 DEF Outcome
  <2>12. SyncOutcome' /\ WrittenInOrder' BY <2>1, <2>4 DEF SyncOutcome, WrittenInOrder
  <2> QED BY <2>5, <2>6, <2>7, <2>8, <2>9, <2>10, <2>11, <2>12, Zenon DEF OrderInv
<1>4. ASSUME NEW pattern \in Patterns, NEW now \in {"created", "flushed"},
             NEW next \in {"header", "running"}, SetPattern(pattern, now, next)
      PROVE  OrderInv'
  <2>1. LogTypeOK' BY <1>2, <1>4, Zenon DEF SetPattern, LogTypeOK, Phases
  <2>2. Roles' BY <1>2, <1>4, Zenon DEF SetPattern, Roles
  <2> QED BY <1>4, <2>1, <2>2, OutsideOrder, Zenon DEF SetPattern
<1>5. CASE Header
  <2>1. CASE mode = "async" BY <1>5, <2>1, AsyncLogOrder, Zenon DEF Header
  <2>2. CASE mode # "async" BY <1>5, <2>2, SyncLogOrder, Zenon DEF Header
  <2> QED BY <2>1, <2>2, Zenon
<1>6. ASSUME NEW t \in Loggers, Log(t) PROVE OrderInv'
  <2>1. PICK lvl \in {0, 1} : log(t, lvl) BY <1>6, Zenon DEF Log, debug, info
  <2>2. phase = "running" /\ phase' = "running" BY <1>6, Zenon DEF Log
  <2>3. CASE mode = "async" BY <2>1, <2>2, <2>3, AsyncLogOrder, Zenon
  <2>4. CASE mode # "async" BY <2>1, <2>2, <2>4, SyncLogOrder, Zenon
  <2> QED BY <2>3, <2>4, Zenon
<1>7. CASE flush
  <2>1. LogTypeOK' BY <1>2, <1>7, Zenon DEF flush, LogTypeOK, Phases
  <2>2. CASE mode = "async"
    <3>1. /\ enqueue(Main, Flush) /\ doing' = [doing EXCEPT ![Main] = "flush"] /\ doing[Main] = "idle"
          /\ UNCHANGED <<mode, sent, written, failed, processed, _terminate_requested>>
          /\ phase = "flush" /\ phase' = "flushed"
      BY <1>7, <2>2, Zenon DEF flush
    <3>2. \A u \in Threads : doing'[u] = IF u = Main THEN "flush" ELSE doing[u] BY <1>1, <3>1, ZenonT(60)
    <3>3. Roles' BY <1>0, <1>2, <2>2, <3>1, <3>2 DEF Roles, Pushing
    <3> QED BY <1>0, <2>1, <3>1, <3>3, EnterOrder, Zenon
  <2>3. CASE mode # "async"
    <3>1. Roles' BY <1>2, <1>7, <2>3, Zenon DEF flush, Roles
    <3> QED BY <1>7, <2>1, <2>3, <3>1, OutsideOrder, Zenon DEF flush
  <2> QED BY <2>2, <2>3
<1>8. CASE Exit
  <2>1. LogTypeOK' BY <1>2, <1>8, Zenon DEF Exit, LogTypeOK, Phases
  <2>2. CASE mode = "async"
    <3>1. /\ enqueue(Main, Terminate) /\ doing' = [doing EXCEPT ![Main] = "terminate"]
          /\ \A t \in Threads \ {Worker} : doing[t] = "idle"
          /\ UNCHANGED <<mode, sent, written, failed, processed, _terminate_requested>>
          /\ phase \in {"running", "exit"} /\ phase' = "stop"
      BY <1>8, <2>2, Zenon DEF Exit
    <3>2. \A u \in Threads : doing'[u] = IF u = Main THEN "terminate" ELSE doing[u] BY <1>1, <3>1, Zenon
    <3>3. doing[Main] = "idle" /\ \A t \in Loggers : doing'[t] = "idle" BY <1>0, <3>1, <3>2, ZenonT(60)
    <3>4. Roles' BY <1>0, <1>2, <2>2, <3>1, <3>2, <3>3 DEF Roles, Pushing
    <3> QED BY <1>0, <2>1, <3>1, <3>3, <3>4, EnterOrder, Zenon
  <2>3. CASE mode # "async"
    <3>1. Roles' BY <1>0, <1>2, <1>8, <2>3, Zenon DEF Exit, Roles
    <3> QED BY <1>8, <2>1, <2>3, <3>1, OutsideOrder, Zenon DEF Exit
  <2> QED BY <2>2, <2>3
<1>9. CASE Join
  <2>1. LogTypeOK' BY <1>2, <1>9, Zenon DEF Join, LogTypeOK, Phases
  <2>2. \A u \in Threads : doing'[u] = IF u = Main THEN "idle" ELSE doing[u] BY <1>1, <1>9, Zenon DEF Join
  <2>3. phase = "stop" /\ phase' = "gone" /\ doing[Worker] = "gone" /\ doing[Main] = "join"
    BY <1>2, <1>9, ZenonT(60) DEF Join, Roles
  <2>4. Roles' BY <1>0, <1>2, <1>9, <2>2, <2>3 DEF Join, Roles
  <2>5. \A t \in Threads : doing'[t] = doing[t] \/ (doing'[t] \notin Pushing /\ ~Unclaimed(t))
    BY <2>2, <2>3, Zenon DEF Unclaimed, Pushing
  <2> QED BY <1>0, <1>9, <2>1, <2>2, <2>3, <2>4, <2>5, OutsideOrder, Zenon DEF Join
<1>10. CASE Dequeue
  <2> USE <1>10 DEF Dequeue, dequeue
  <2>1. LogTypeOK' BY <1>2, Zenon DEF LogTypeOK
  <2>2. \A u \in Threads : doing'[u] = IF u = Worker THEN "next" ELSE doing[u] BY <1>1, Zenon
  <2>3. doing[Worker] = "loop" /\ UNCHANGED <<claimed, item, dequeue_pos_>> BY Zenon
  <2>4. Roles'
    <3>1. UNCHANGED <<phase, mode, sent, _terminate_requested>> BY Zenon
    <3> HIDE DEF Dequeue
    <3> QED BY <1>0, <1>2, <2>2, <2>3, <3>1, Zenon DEF Roles
  <2>5. \A u \in Threads : u # Worker => at'[u] = at[u]
    BY ZenonT(60) DEF Goes, CallInv
  <2>6. /\ \A u \in Threads : Unclaimed(u)' <=> Unclaimed(u)
        /\ \A u \in Threads : u # Worker => doing'[u] = doing[u]
        /\ doing'[Worker] \notin Pushing /\ doing[Worker] \notin Pushing
    BY <1>0, <2>2, <2>3, <2>5 DEF Unclaimed, Pushing
  <2>7. Holds'
    <3>1. \A u \in Threads : doing'[u] \in Pushing => doing'[u] = doing[u] BY <2>6, Zenon
    <3>2. UNCHANGED <<item, sent>> BY Zenon
    <3> HIDE DEF Dequeue
    <3> QED BY <3>1, <3>2, Zenon DEF OrderInv, Holds, Pushing
  <2>8. Claims'
    <3>1. \A u \in Threads : doing'[u] = "log" => doing[u] = "log" BY <2>6, Zenon DEF Pushing
    <3> QED BY <2>6, <3>1, MainAndWorker, ClaimsFrame, Zenon
  <2>9. Position'
    <3>1. dequeue_pos_ = processed BY <2>3, Zenon DEF OrderInv, Position
    <3>2. pos'[Worker] = dequeue_pos_ /\ at'[Worker] = "d_look" /\ UNCHANGED <<processed, dequeue_pos_>>
      BY <1>0, Zenon DEF Goes, CallInv, QueueInv, TypeOK
    <3> HIDE DEF Dequeue
    <3> QED BY <3>1, <3>2, Zenon DEF Position
  <2>10. Logged'
    <3>1. Logged /\ \A u \in Threads : doing[u] = "log" => doing'[u] = "log" BY <2>6, Zenon DEF OrderInv, Pushing
    <3>2. UNCHANGED <<mode, sent, claimed>> BY ZenonT(60)
    <3> HIDE DEF Dequeue
    <3> QED BY <2>6, <3>1, <3>2, Zenon DEF Logged
  <2>11. Outcome' /\ SyncOutcome' /\ WrittenInOrder'
    <3>1. UNCHANGED <<mode, sent, claimed, written, failed, processed, _terminate_requested>> BY Zenon
    <3> HIDE DEF Dequeue
    <3> QED BY <3>1 DEF OrderInv, Outcome, SyncOutcome, WrittenInOrder, Settled
  <2> QED BY <2>1, <2>4, <2>7, <2>8, <2>9, <2>10, <2>11, Zenon DEF OrderInv
<1>11. CASE HandleEmpty
  <2> USE <1>11 DEF HandleEmpty
  <2>1. LogTypeOK' BY <1>2, Zenon DEF LogTypeOK
  <2>2. \A u \in Threads : doing'[u] =
           IF u = Worker THEN IF _terminate_requested THEN "gone" ELSE "loop" ELSE doing[u]
    BY <1>1, Zenon
  <2>3. doing[Worker] = "next" /\ at[Worker] = "empty" BY Zenon
  <2>4. UNCHANGED <<queueVars, mode, phase, sent, written, failed, processed, _terminate_requested>> BY Zenon
  <2> HIDE <1>11 DEF HandleEmpty
  <2>5. Roles' BY <1>0, <1>2, <2>2, <2>3, <2>4, Zenon DEF Roles
  <2>6. \A t \in Threads : doing'[t] = doing[t] \/ (doing'[t] \notin Pushing /\ ~Unclaimed(t))
    BY <2>2, <2>3, Zenon DEF Unclaimed, Pushing
  <2> QED BY <1>0, <2>1, <2>2, <2>3, <2>4, <2>5, <2>6, OutsideOrder, Zenon
<1>12. ASSUME NEW t \in Threads, push_msg(t) PROVE OrderInv'
  <2>1. doing[t] \in Pushing /\ t # Worker BY <1>0, <1>2, <1>12, Zenon DEF push_msg, Roles, Pushing
  <2>2. UNCHANGED <<phase, mode, sent, written, failed, processed, _terminate_requested>> BY <1>12, Zenon DEF push_msg
  <2>3. LogTypeOK' BY <1>2, <1>12, Zenon DEF push_msg, LogTypeOK
  <2>4. CASE at[t] = "full"
    <3>1. enqueue(t, item[t]) /\ doing' = doing BY <1>12, <2>4, Zenon DEF push_msg
    <3>2. doing' = [doing EXCEPT ![t] = doing[t]] BY <1>1, <3>1, Zenon
    <3>3. Roles' BY <1>2, <2>2, <3>1, Zenon DEF Roles
    <3>4. Unclaimed(t) BY <2>1, <2>4, Zenon DEF Unclaimed
    <3> QED BY <2>1, <2>2, <2>3, <3>1, <3>2, <3>3, <3>4, EnterOrder, Zenon
  <2>5. CASE at[t] # "full"
    <3>1. at[t] = "stored" /\ doing' = [doing EXCEPT ![t] = Pushed(t)] /\ UNCHANGED queueVars
      BY <1>12, <2>5, Zenon DEF push_msg
    <3>2. \A u \in Threads : doing'[u] = IF u = t THEN Pushed(t) ELSE doing[u] BY <1>1, <3>1, Zenon
    <3>3. /\ doing[t] = "log" => Pushed(t) = "idle"
          /\ doing[t] = "flush" => Pushed(t) = "wait"
          /\ doing[t] = "terminate" => Pushed(t) = "join"
      BY Zenon DEF Pushed
    <3>4. Roles' BY <1>0, <1>2, <2>1, <2>2, <3>2, <3>3, Zenon DEF Roles, Pushing
    <3>5. \A u \in Threads : doing'[u] = doing[u] \/ (doing'[u] \notin Pushing /\ ~Unclaimed(u))
      BY <2>1, <3>1, <3>2, <3>3, Zenon DEF Unclaimed, Pushing
    <3> QED BY <1>0, <2>1, <2>2, <2>3, <3>1, <3>2, <3>4, <3>5, OutsideOrder, Zenon
  <2> QED BY <2>4, <2>5, Zenon
<1>13. ASSUME NEW t \in Threads, wait_empty_q(t) PROVE OrderInv'
  <2>1. /\ doing[t] \in {"wait", "measure"}
        /\ \E d \in {"wait", "measure", "idle"} : doing' = [doing EXCEPT ![t] = d]
        /\ UNCHANGED <<queueVars, phase, mode, sent, _formatter, written, failed, processed, _terminate_requested>>
    BY <1>13, Zenon DEF wait_empty_q
  <2>2. PICK d \in {"wait", "measure", "idle"} : doing' = [doing EXCEPT ![t] = d] BY <2>1, Zenon
  <2>3. t = Main BY <1>0, <1>2, <2>1, Zenon DEF Roles
  <2>4. \A u \in Threads : doing'[u] = IF u = Main THEN d ELSE doing[u] BY <1>1, <2>2, <2>3, Zenon
  <2>5. LogTypeOK' BY <1>2, <2>1, Zenon DEF LogTypeOK
  <2>6. Roles' BY <1>0, <1>2, <2>1, <2>3, <2>4, Zenon DEF Roles
  <2>7. \A u \in Threads : doing'[u] = doing[u] \/ (doing'[u] \notin Pushing /\ ~Unclaimed(u))
    BY <2>1, <2>3, <2>4, Zenon DEF Unclaimed, Pushing
  <2> QED BY <1>0, <2>1, <2>4, <2>5, <2>6, <2>7, OutsideOrder, Zenon
<1>14. ASSUME NEW t \in Threads, QueueStep(t), UNCHANGED logVars PROVE OrderInv'
  BY <1>14, LookOrder, TakeOrder, ClaimOrder, Zenon DEF QueueStep
<1>15. CASE UNCHANGED vars
  <2>1. UNCHANGED <<queueVars, logVars>> BY <1>15, Zenon DEF vars
  <2>2. Holds' /\ Position' BY <2>1, Zenon DEF OrderInv, Holds, Position, queueVars, logVars
  <2>3. \A t \in Threads : Unclaimed(t)' <=> Unclaimed(t) BY <2>1, Zenon DEF Unclaimed, queueVars, logVars
  <2> QED BY <2>1, <2>2, <2>3, QuietInv, Zenon DEF queueVars
<1>16. CASE Start BY <1>3, <1>4, <1>5, <1>7, <1>16, Zenon DEF Start, Patterns
<1> QED
  BY <1>6, <1>8, <1>9, <1>10, <1>11, <1>12, <1>13, <1>14, <1>15, <1>16, ProcessOrder, Zenon
  DEF Next, Work, Call, Gone

(* When the worker has left it has dealt with every message, because the    *)
(* one that told it to was the last.                                        *)
LEMMA AllSettled == OrderInv /\ QueueInv => NothingDropped
<1> SUFFICES ASSUME OrderInv, QueueInv, phase = "gone", NEW t \in Threads, NEW n \in 1..sent[t]
             PROVE  LogMsg(t, n) \in Settled
  BY Zenon DEF NothingDropped, Settled
<1>1. CASE mode # "async" BY <1>1, Zenon DEF OrderInv, SyncOutcome
<1>2. CASE mode = "async"
  <2>1. doing[Worker] = "gone" /\ doing[t] # "log"
    BY <1>2, LogAssumption, Zenon DEF OrderInv, Roles
  <2>2. PICK k \in 1..Len(claimed) : claimed[k] = LogMsg(t, n) BY <1>2, <2>1, ZenonT(60) DEF OrderInv, Logged
  <2>3. claimed[k] \in LogMsgs
    <3>1. claimed[k] \in LogMsgs \cup {Flush, Terminate} BY MsgFacts DEF OrderInv, Claims
    <3>2. claimed[k].kind = "log" BY <2>2 DEF LogMsg
    <3> QED BY <3>1, <3>2, SMTT(30) DEF Flush, Terminate
  <2>4. _terminate_requested BY <2>1, Zenon DEF OrderInv, Roles
  <2>5. PICK last \in 1..processed : claimed[last] = Terminate BY <2>4, ZenonT(60) DEF OrderInv, Outcome
  <2>6. processed \in 0..Len(claimed)
    BY SMTT(30) DEF OrderInv, LogTypeOK, Position, QueueInv, TypeOK, Bounded
  <2>7. last = Len(claimed) BY <2>5, <2>6 DEF OrderInv, Claims
  <2>8. k \in 1..processed BY <2>6, <2>7
  <2> QED BY <2>2, <2>3, <2>8, Zenon DEF OrderInv, Outcome
<1> QED BY <1>1, <1>2, Zenon

(* In every state of the logger its claims, its worker and its sink agree.  *)
LEMMA OrderInvariance == Spec => [](OrderInv /\ QueueInv)
<1>1. Init => OrderInv /\ CallInv /\ QueueInv BY OrderInit, CallInit, InitInv, Zenon DEF Init
<1>2. OrderInv /\ CallInv /\ QueueInv /\ [Next]_vars => (OrderInv /\ CallInv /\ QueueInv)'
  <2> SUFFICES ASSUME OrderInv, CallInv, QueueInv, [Next]_vars
               PROVE  (OrderInv /\ CallInv /\ QueueInv)'
    BY Zenon
  <2>1. OrderInv' BY OrderStep, Zenon
  <2>2. CallInv' /\ QueueInv' BY LogKeepsQueue, Zenon
  <2> QED BY <2>1, <2>2, Zenon
<1> QED BY <1>1, <1>2, PTL DEF Spec

(* The messages of a thread reach the sink in the order of its calls and at *)
(* most once, for any number of threads, messages and cells: a thread       *)
(* claims the positions of its messages in that order, and the worker deals *)
(* with the positions one after the other.                                  *)
THEOREM LogInOrder == Spec => []WrittenInOrder
BY OrderInvariance, PTL DEF OrderInv

(* When the destructor of the logger has returned, every message that was   *)
(* logged is written or its sink threw.                                     *)
THEOREM LogComplete == Spec => []NothingDropped
<1>1. OrderInv /\ QueueInv => NothingDropped BY AllSettled, Zenon
<1> QED BY <1>1, OrderInvariance, PTL
=============================================================================
