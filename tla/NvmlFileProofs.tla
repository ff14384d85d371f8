--------------------------- MODULE NvmlFileProofs ---------------------------
(***************************************************************************)
(* Proofs about NvmlFile, for any set of threads and any calls: the three  *)
(* locks of a file (m_dealloc_mutex, the ranges, m_alloc_mutex) keep apart *)
(* whom they are for, never does everyone wait for everyone, and the       *)
(* directory of the file is there when it is used.  What the lookups and   *)
(* the copies compute is left opaque: nothing here depends on it.          *)
(***************************************************************************)
EXTENDS NvmlFile, TLAPS

-----------------------------------------------------------------------------
(***************************************************************************)
(* Who holds what, by the place a thread is at.                            *)
(***************************************************************************)
Sharing == {"put_lock", "put_copy", "grow", "put_unlock", "resize", "allocate_unlock",
            "init_put", "remove_put", "mkdir_put"}
Cutting == {"truncate_range", "truncate_cut", "truncate_set", "truncate_unlock"}
Initing == {"remove_put", "mkdir_put"}
Holding == {"unload_lookup", "unload_release"}
Ranging == {"put_copy", "grow", "put_unlock", "get_lookup", "get_copy", "get_unlock",
            "truncate_cut", "truncate_set", "truncate_unlock",
            "unload_hold", "unload_lookup", "unload_release", "unload_copy"}

Mutex == [shared : SUBSET Threads, exclusive : BOOLEAN, waiting : BOOLEAN]
LockTypes ==
  /\ DOMAIN pc = Threads /\ DOMAIN call = Threads
  /\ \A t \in Threads : DOMAIN call[t] = {"op", "s", "e"}
  /\ dealloc \in Mutex /\ alloc \in Mutex

\* m_dealloc_mutex: put_data and allocate hold it shared, truncate has it alone;
\* who waits for it waits for somebody.
DeallocInv ==
  /\ \A t \in Threads : t \in dealloc.shared => pc[t] \in Sharing \cup FetchPlaces
  /\ \A t \in Threads : pc[t] \in Sharing => t \in dealloc.shared
  /\ \A t \in Threads : pc[t] \in Cutting => dealloc.exclusive
  /\ \A t, u \in Threads : pc[t] \in Cutting /\ pc[u] \in Cutting => t = u
  /\ dealloc.exclusive => dealloc.shared = {} /\ \E t \in Threads : pc[t] \in Cutting
  /\ dealloc.waiting => dealloc.shared # {} \/ dealloc.exclusive

\* m_alloc_mutex: held across steps by the put_data that makes the directory, and
\* shared by unload; who waits for it waits for somebody.
AllocInv ==
  /\ \A t \in Threads : pc[t] \in Initing => alloc.exclusive
  /\ \A t, u \in Threads : pc[t] \in Initing /\ pc[u] \in Initing => t = u
  /\ \A t \in Threads : t \in alloc.shared <=> pc[t] \in Holding
  /\ alloc.exclusive => alloc.shared = {} /\ \E t \in Threads : pc[t] \in Initing
  /\ alloc.waiting => alloc.shared # {} \/ alloc.exclusive

Asked(t, type) == <<t, [start |-> call[t].s, end |-> call[t].e, type |-> type]>>

\* The ranges: one for each thread that is between its lock_range and its unlock,
\* the one that it asked for, and no two in conflict.
RangeInv ==
  /\ \A g \in grants : g[1] \in Threads /\ pc[g[1]] \in Ranging
  /\ \A g, h \in grants : g # h => g[1] # h[1] /\ ~ LockManager!Conflict(g[2], h[2])
  /\ \A t \in Threads : pc[t] \in Ranging => \E g \in grants : g[1] = t
  /\ \A t \in Threads : pc[t] \in {"put_copy", "grow", "put_unlock"} =>
       Asked(t, "writer") \in grants
  /\ \A t \in Threads : pc[t] \in {"get_lookup", "get_copy"} => Asked(t, "reader") \in grants

LockInv == LockTypes /\ DeallocInv /\ AllocInv /\ RangeInv

-----------------------------------------------------------------------------
(***************************************************************************)
(* What a step of one thread leaves alone.                                 *)
(***************************************************************************)
\* A step that takes a thread to a place moves no other thread.
LEMMA Goes ==
  ASSUME LockTypes, NEW t \in Threads, NEW place, Go(t, place)
  PROVE  /\ DOMAIN pc' = Threads /\ pc'[t] = place
         /\ \A u \in Threads : u # t => pc'[u] = pc[u]
  BY Zenon DEF LockTypes, Go

\* A step between places that hold m_dealloc_mutex alike keeps its invariant.
LEMMA DeallocStays ==
  ASSUME LockInv, NEW t \in Threads, NEW place, Go(t, place), UNCHANGED dealloc,
         pc[t] \in Sharing <=> place \in Sharing,
         pc[t] \in FetchPlaces => place \in FetchPlaces \/ t \notin dealloc.shared,
         pc[t] \in Cutting <=> place \in Cutting
  PROVE  DeallocInv'
<1>1. /\ pc'[t] = place
      /\ \A u \in Threads : u # t => pc'[u] = pc[u]
  BY Goes, Zenon DEF LockInv
<1>2. \A u \in Threads : pc'[u] \in Cutting <=> pc[u] \in Cutting
  BY <1>1, Zenon
<1>3. \A u \in Threads : pc'[u] \in Sharing <=> pc[u] \in Sharing
  BY <1>1, Zenon
<1>4. DeallocInv
  BY Zenon DEF LockInv
<1>5. ASSUME NEW u \in Threads, u \in dealloc.shared PROVE pc'[u] \in Sharing \cup FetchPlaces
  BY <1>1, <1>3, <1>4, <1>5, Zenon DEF DeallocInv
<1> QED BY <1>2, <1>3, <1>4, <1>5, Zenon DEF DeallocInv

\* A step between places that hold m_alloc_mutex alike keeps its invariant.
LEMMA AllocStays ==
  ASSUME LockInv, NEW t \in Threads, NEW place, Go(t, place), UNCHANGED alloc,
         pc[t] \in Initing <=> place \in Initing,
         pc[t] \in Holding <=> place \in Holding
  PROVE  AllocInv'
<1>1. /\ pc'[t] = place
      /\ \A u \in Threads : u # t => pc'[u] = pc[u]
  BY Goes, Zenon DEF LockInv
<1>2. \A u \in Threads : pc'[u] \in Initing <=> pc[u] \in Initing
  BY <1>1, Zenon
<1>3. AllocInv
  BY Zenon DEF LockInv
<1>4. ASSUME NEW u \in Threads
      PROVE  u \in alloc.shared <=> pc'[u] \in Holding
  BY <1>1, <1>3, Zenon DEF AllocInv
<1> QED BY <1>2, <1>3, <1>4, Zenon DEF AllocInv

\* An action that takes m_alloc_mutex exclusively and gives it back leaves it as
\* it was: nobody waits for a mutex that nobody holds.
LEMMA AllocFree ==
  ASSUME LockInv, ExclusiveAlloc
  PROVE  UNCHANGED alloc /\ ~ AllocHeld
<1>1. alloc.waiting = FALSE /\ ~ AllocHeld
  BY Zenon DEF LockInv, LockTypes, Mutex, AllocInv, ExclusiveAlloc, AllocHeld
<1>2. alloc \in Mutex /\ alloc' = [alloc EXCEPT !.waiting = FALSE]
  BY Zenon DEF LockInv, LockTypes, ExclusiveAlloc
<1> QED BY <1>1, <1>2 DEF Mutex

\* A step between places that hold a range alike keeps the ranges.
LEMMA RangeStays ==
  ASSUME LockInv, NEW t \in Threads, NEW place, Go(t, place), UNCHANGED grants,
         \A u \in Threads : u # t => call'[u] = call[u],
         pc[t] \in Ranging <=> place \in Ranging,
         place \in {"put_copy", "grow", "put_unlock"} =>
           call'[t] = call[t] /\ pc[t] \in {"put_copy", "grow", "put_unlock"},
         place \in {"get_lookup", "get_copy"} =>
           call'[t] = call[t] /\ pc[t] \in {"get_lookup", "get_copy"}
  PROVE  RangeInv'
<1>1. /\ pc'[t] = place
      /\ \A u \in Threads : u # t => pc'[u] = pc[u]
  BY Goes, Zenon DEF LockInv
<1>2. \A u \in Threads : pc'[u] \in Ranging <=> pc[u] \in Ranging
  BY <1>1, Zenon
<1>3. RangeInv
  BY Zenon DEF LockInv
<1>4. ASSUME NEW u \in Threads, pc'[u] \in {"put_copy", "grow", "put_unlock"}
      PROVE  Asked(u, "writer")' \in grants
  <2>1. call'[u] = call[u] /\ pc[u] \in {"put_copy", "grow", "put_unlock"}
    BY <1>1, <1>4, Zenon
  <2> QED BY <1>3, <2>1, Zenon DEF RangeInv, Asked
<1>5. ASSUME NEW u \in Threads, pc'[u] \in {"get_lookup", "get_copy"}
      PROVE  Asked(u, "reader")' \in grants
  <2>1. call'[u] = call[u] /\ pc[u] \in {"get_lookup", "get_copy"}
    BY <1>1, <1>5, Zenon
  <2> QED BY <1>3, <2>1, Zenon DEF RangeInv, Asked
<1> QED BY <1>2, <1>3, <1>4, <1>5, Zenon DEF RangeInv

-----------------------------------------------------------------------------
(***************************************************************************)
(* Taking and giving back a lock.                                          *)
(***************************************************************************)
\* put_data, allocate and the put_data that makes the directory take
\* m_dealloc_mutex shared, or have it already.
LEMMA DeallocShared ==
  ASSUME LockInv, NEW t \in Threads, NEW place, Go(t, place), SharedDealloc(t),
         place \in Sharing, pc[t] \in FetchPlaces
  PROVE  DeallocInv' /\ dealloc' \in Mutex
<1>1. /\ pc'[t] = place
      /\ \A u \in Threads : u # t => pc'[u] = pc[u]
  BY Goes, Zenon DEF LockInv
<1>2. DeallocInv /\ dealloc \in Mutex
  BY Zenon DEF LockInv, LockTypes
<1>3. /\ dealloc' = [dealloc EXCEPT !.shared = @ \cup {t}]
      /\ t \in dealloc.shared \/ (~ dealloc.exclusive /\ ~ dealloc.waiting)
  BY Zenon DEF SharedDealloc
<1>4. /\ dealloc'.shared = dealloc.shared \cup {t} /\ dealloc'.exclusive = dealloc.exclusive
      /\ dealloc'.waiting = dealloc.waiting /\ dealloc' \in Mutex
  BY <1>2, <1>3 DEF Mutex
<1>5. ~ dealloc'.exclusive
  BY <1>2, <1>3, <1>4, Zenon DEF DeallocInv
<1>6. pc[t] \notin Cutting /\ place \notin Cutting
  BY Zenon DEF FetchPlaces, Cutting, Sharing
<1>7. \A u \in Threads : pc'[u] \notin Cutting
  BY <1>1, <1>2, <1>4, <1>5, <1>6, Zenon DEF DeallocInv
<1>8. ASSUME NEW u \in Threads
      PROVE  /\ u \in dealloc'.shared => pc'[u] \in Sharing \cup FetchPlaces
             /\ pc'[u] \in Sharing => u \in dealloc'.shared
  BY <1>1, <1>2, <1>4, Zenon DEF DeallocInv
<1> QED BY <1>4, <1>5, <1>7, <1>8, Zenon DEF DeallocInv

\* The last of those that hold it shared lets in who waits.
LEMMA DeallocUnshared ==
  ASSUME LockInv, NEW t \in Threads, Go(t, "idle"), UnsharedDealloc(t), pc[t] \in Sharing
  PROVE  DeallocInv' /\ dealloc' \in Mutex
<1>1. /\ pc'[t] = "idle"
      /\ \A u \in Threads : u # t => pc'[u] = pc[u]
  BY Goes, Zenon DEF LockInv
<1>2. DeallocInv /\ dealloc \in Mutex
  BY Zenon DEF LockInv, LockTypes
<1>3. /\ dealloc'.shared = dealloc.shared \ {t} /\ dealloc'.exclusive = dealloc.exclusive
      /\ dealloc'.waiting = (dealloc.waiting /\ dealloc.shared # {t}) /\ dealloc' \in Mutex
  <2>1. (dealloc.waiting /\ dealloc.shared # {t}) \in BOOLEAN
    BY Zenon
  <2> QED BY <1>2, <2>1, Zenon DEF Mutex, UnsharedDealloc
<1>4. t \in dealloc.shared /\ ~ dealloc.exclusive
  BY <1>2, Zenon DEF DeallocInv
<1>5. dealloc'.waiting => dealloc'.shared # {}
  BY <1>3, <1>4, Zenon
<1>6. ASSUME NEW u \in Threads PROVE pc'[u] \notin Cutting
  BY <1>1, <1>2, <1>4, Zenon DEF DeallocInv, Cutting
<1>7. ASSUME NEW u \in Threads
      PROVE  /\ u \in dealloc'.shared => pc'[u] \in Sharing \cup FetchPlaces
             /\ pc'[u] \in Sharing => u \in dealloc'.shared
  BY <1>1, <1>2, <1>3, Zenon DEF DeallocInv, Sharing
<1> QED BY <1>3, <1>4, <1>5, <1>6, <1>7, Zenon DEF DeallocInv

\* lock_range gives a thread one range, in conflict with none.
LEMMA RangeTaken ==
  ASSUME LockInv, NEW t \in Threads, NEW place, Go(t, place), UNCHANGED call,
         NEW s, NEW e, NEW type, lock_range(t, s, e, type),
         pc[t] \notin Ranging, place \in Ranging,
         place \in {"put_copy", "grow", "put_unlock"} =>
           s = call[t].s /\ e = call[t].e /\ type = "writer",
         place \in {"get_lookup", "get_copy"} =>
           s = call[t].s /\ e = call[t].e /\ type = "reader"
  PROVE  RangeInv'
<1> DEFINE q == [start |-> s, end |-> e, type |-> type]
<1>1. /\ pc'[t] = place
      /\ \A u \in Threads : u # t => pc'[u] = pc[u]
  BY Goes, Zenon DEF LockInv
<1>2. RangeInv
  BY Zenon DEF LockInv
<1>3. /\ grants' = grants \cup {<<t, q>>}
      /\ \A g \in grants : g[1] # t /\ ~ LockManager!Conflict(g[2], q)
  BY Zenon DEF lock_range, LockManager!Grant
<1>4. \A g \in grants : ~ LockManager!Conflict(q, g[2])
  BY <1>3 DEF LockManager!Conflict, LockManager!Overlap
<1>5. <<t, q>>[1] = t /\ <<t, q>>[2] = q
  BY Zenon
<1>6. Asked(t, type) = <<t, q>> \/ ~ (s = call[t].s /\ e = call[t].e)
  BY Zenon DEF Asked
<1> HIDE DEF q
<1>7. \A g \in grants' : g[1] \in Threads /\ pc'[g[1]] \in Ranging
  BY <1>1, <1>2, <1>3, <1>5, Zenon DEF RangeInv
<1>8. ASSUME NEW g \in grants', NEW h \in grants', g # h
      PROVE  g[1] # h[1] /\ ~ LockManager!Conflict(g[2], h[2])
  <2>1. CASE g \in grants /\ h \in grants
    BY <1>2, <1>8, <2>1, Zenon DEF RangeInv
  <2>2. CASE g = <<t, q>> /\ h \in grants
    BY <1>3, <1>4, <1>5, <2>2, Zenon
  <2>3. CASE g \in grants /\ h = <<t, q>>
    BY <1>3, <1>5, <2>3, Zenon
  <2> QED BY <1>3, <1>8, <2>1, <2>2, <2>3, Zenon
<1>9. \A u \in Threads : pc'[u] \in Ranging => \E g \in grants' : g[1] = u
  BY <1>1, <1>2, <1>3, <1>5, Zenon DEF RangeInv
<1>10. ASSUME NEW u \in Threads, pc'[u] \in {"put_copy", "grow", "put_unlock"}
       PROVE  Asked(u, "writer")' \in grants'
  <2>1. Asked(u, "writer")' = Asked(u, "writer")
    BY Zenon DEF Asked
  <2> QED BY <1>1, <1>2, <1>3, <1>6, <1>10, <2>1, Zenon DEF RangeInv
<1>11. ASSUME NEW u \in Threads, pc'[u] \in {"get_lookup", "get_copy"}
       PROVE  Asked(u, "reader")' \in grants'
  <2>1. Asked(u, "reader")' = Asked(u, "reader")
    BY Zenon DEF Asked
  <2> QED BY <1>1, <1>2, <1>3, <1>6, <1>11, <2>1, Zenon DEF RangeInv
<1> QED BY <1>7, <1>8, <1>9, <1>10, <1>11, Zenon DEF RangeInv

\* unlock_range gives it back: the thread had no other.
LEMMA RangeGiven ==
  ASSUME LockInv, NEW t \in Threads, Go(t, "idle"), unlock_range(t),
         \A u \in Threads : u # t => call'[u] = call[u]
  PROVE  RangeInv'
<1>1. /\ pc'[t] = "idle"
      /\ \A u \in Threads : u # t => pc'[u] = pc[u]
  BY Goes, Zenon DEF LockInv
<1>2. RangeInv
  BY Zenon DEF LockInv
<1>3. PICK g \in grants : g[1] = t /\ grants' = grants \ {g}
  BY Zenon DEF unlock_range, LockManager!Revoke
<1>4. \A h \in grants' : h \in grants /\ h[1] # t
  BY <1>2, <1>3, Zenon DEF RangeInv
<1>5. \A h \in grants : h[1] # t => h \in grants'
  BY <1>3, Zenon
<1>6. "idle" \notin Ranging /\ "idle" \notin {"put_copy", "grow", "put_unlock"}
      /\ "idle" \notin {"get_lookup", "get_copy"}
  BY Zenon DEF Ranging
<1>7. ASSUME NEW u \in Threads, pc'[u] \in Ranging PROVE \E h \in grants' : h[1] = u
  <2>1. u # t /\ pc[u] \in Ranging
    BY <1>1, <1>6, <1>7, Zenon
  <2>2. PICK h \in grants : h[1] = u
    BY <1>2, <2>1, Zenon DEF RangeInv
  <2> QED BY <1>5, <2>1, <2>2, Zenon
<1>8. ASSUME NEW u \in Threads, NEW type PROVE Asked(u, type)[1] = u
  BY Zenon DEF Asked
<1>9. ASSUME NEW u \in Threads, pc'[u] \in {"put_copy", "grow", "put_unlock"}
       PROVE  Asked(u, "writer")' \in grants'
  <2>1. u # t /\ pc[u] \in {"put_copy", "grow", "put_unlock"}
    BY <1>1, <1>6, <1>9, Zenon
  <2>2. Asked(u, "writer") \in grants
    BY <1>2, <2>1, Zenon DEF RangeInv
  <2>3. Asked(u, "writer")' = Asked(u, "writer")
    BY <2>1, Zenon DEF Asked
  <2> QED BY <1>5, <1>8, <2>1, <2>2, <2>3, Zenon
<1>10. ASSUME NEW u \in Threads, pc'[u] \in {"get_lookup", "get_copy"}
       PROVE  Asked(u, "reader")' \in grants'
  <2>1. u # t /\ pc[u] \in {"get_lookup", "get_copy"}
    BY <1>1, <1>6, <1>10, Zenon
  <2>2. Asked(u, "reader") \in grants
    BY <1>2, <2>1, Zenon DEF RangeInv
  <2>3. Asked(u, "reader")' = Asked(u, "reader")
    BY <2>1, Zenon DEF Asked
  <2> QED BY <1>5, <1>8, <2>1, <2>2, <2>3, Zenon
<1> QED BY <1>1, <1>2, <1>4, <1>7, <1>9, <1>10, Zenon DEF RangeInv

-----------------------------------------------------------------------------
(***************************************************************************)
(* The steps.                                                              *)
(***************************************************************************)
\* Two places at which a thread holds the same locks.
Alike(p, q) ==
  /\ p \in Sharing <=> q \in Sharing
  /\ p \in Cutting <=> q \in Cutting
  /\ p \in Initing <=> q \in Initing
  /\ p \in Ranging <=> q \in Ranging
  /\ p \in Holding <=> q \in Holding
  /\ q \in {"put_copy", "grow", "put_unlock"} => p \in {"put_copy", "grow", "put_unlock"}
  /\ q \in {"get_lookup", "get_copy"} => p \in {"get_lookup", "get_copy"}

\* A step that leaves a thread's call keeps the types.
LEMMA TypesStay ==
  ASSUME LockInv, NEW t \in Threads, NEW place, Go(t, place), UNCHANGED call,
         dealloc' \in Mutex, alloc' \in Mutex
  PROVE  LockTypes'
  BY Goes, Zenon DEF LockInv, LockTypes

\* A call that returns leaves the others.
LEMMA Returns ==
  ASSUME LockTypes, NEW t \in Threads, Return(t)
  PROVE  /\ Go(t, "idle") /\ DOMAIN pc' = Threads /\ DOMAIN call' = Threads
         /\ \A u \in Threads : u # t => call'[u] = call[u]
         /\ \A u \in Threads : DOMAIN call'[u] = {"op", "s", "e"}
<1>1. Go(t, "idle") /\ call' = [call EXCEPT ![t] = NoCall]
  BY Zenon DEF Return
<1>2. DOMAIN NoCall = {"op", "s", "e"}
  BY DEF NoCall
<1>3. DOMAIN call = Threads /\ \A u \in Threads : DOMAIN call[u] = {"op", "s", "e"}
  BY Zenon DEF LockTypes
<1>4. DOMAIN pc' = Threads
  BY <1>1, Goes, Zenon
<1> QED BY <1>1, <1>2, <1>3, <1>4, Zenon

\* A step that takes no lock and gives none back.
LEMMA PlainStep ==
  ASSUME LockInv, NEW t \in Threads, NEW place, Go(t, place), Alike(pc[t], place),
         pc[t] \in FetchPlaces => t \notin dealloc.shared, UNCHANGED <<call, dealloc, alloc, grants>>
  PROVE  LockInv'
<1>1. LockTypes'
  BY TypesStay, Zenon DEF LockInv, LockTypes
<1>2. DeallocInv'
  BY DeallocStays, Zenon DEF Alike
<1>3. AllocInv'
  BY AllocStays, Zenon DEF Alike
<1>5. RangeInv'
  BY RangeStays, Zenon DEF Alike
<1> QED BY <1>1, <1>2, <1>3, <1>5, Zenon DEF LockInv

\* fetch_storage, in put_data and in allocate.
LEMMA FetchStep ==
  ASSUME LockInv, NEW t \in Threads, pc[t] \in FetchPlaces, NEW place,
         place \in {"put_lock", "resize"}, NEW offset, NEW end, FetchFor(t, offset, end, place)
  PROVE  LockInv'
<1>1. /\ SharedDealloc(t) /\ ExclusiveAlloc /\ Go(t, place) /\ UNCHANGED <<grants, call>>
  BY Zenon DEF FetchFor
<1>2. UNCHANGED alloc
  BY <1>1, AllocFree, Zenon
<1>3. /\ place \in Sharing /\ place \notin Initing /\ place \notin Holding
      /\ place \notin Ranging /\ pc[t] # "idle" /\ pc[t] \notin Initing /\ pc[t] \notin Ranging
      /\ pc[t] \notin Holding
      /\ place \notin {"put_copy", "grow", "put_unlock"} /\ place \notin {"get_lookup", "get_copy"}
  BY Zenon DEF FetchPlaces, Sharing, Initing, Holding, Ranging
<1>4. DeallocInv' /\ dealloc' \in Mutex
  BY <1>1, <1>3, DeallocShared, Zenon
<1>5. LockTypes'
  BY <1>1, <1>2, <1>4, TypesStay, Zenon DEF LockInv, LockTypes
<1>6. AllocInv'
  BY <1>1, <1>2, <1>3, AllocStays, Zenon
<1>8. RangeInv'
  BY <1>1, <1>3, RangeStays, Zenon
<1> QED BY <1>4, <1>5, <1>6, <1>8, Zenon DEF LockInv

\* lock_range, in put_data, get_data and unload.
LEMMA LockStep ==
  ASSUME LockInv, NEW t \in Threads, NEW place, Go(t, place),
         NEW s, NEW e, NEW type, lock_range(t, s, e, type), UNCHANGED <<call, dealloc, alloc>>,
         \/ pc[t] = "put_lock" /\ place = "put_copy" /\ type = "writer" /\ s = call[t].s
                               /\ e = call[t].e
         \/ pc[t] = "get" /\ place = "get_lookup" /\ type = "reader" /\ s = call[t].s
                          /\ e = call[t].e
         \/ pc[t] = "truncate_range" /\ place = "truncate_cut"
         \/ pc[t] = "unload_range" /\ place = "unload_hold"
  PROVE  LockInv'
<1>1. /\ pc[t] \in Sharing <=> place \in Sharing
      /\ pc[t] \in Cutting <=> place \in Cutting
      /\ pc[t] \in Initing <=> place \in Initing
      /\ pc[t] \notin Ranging /\ place \in Ranging
      /\ pc[t] \notin FetchPlaces
      /\ pc[t] \in Holding <=> place \in Holding
  BY Zenon DEF Sharing, Cutting, Initing, Ranging, Holding, FetchPlaces
<1>2. /\ place \in {"put_copy", "grow", "put_unlock"} =>
           s = call[t].s /\ e = call[t].e /\ type = "writer"
      /\ place \in {"get_lookup", "get_copy"} =>
           s = call[t].s /\ e = call[t].e /\ type = "reader"
  BY Zenon
<1>3. LockTypes'
  BY TypesStay, Zenon DEF LockInv, LockTypes
<1>4. DeallocInv'
  BY <1>1, DeallocStays, Zenon
<1>5. AllocInv'
  BY <1>1, <1>2, AllocStays, Zenon
<1>7. RangeInv'
  BY <1>1, <1>2, RangeTaken, Zenon
<1> QED BY <1>3, <1>4, <1>5, <1>7, Zenon DEF LockInv

\* The end of get_data and unload, and of put_data, which gives m_dealloc_mutex
\* back as well.
LEMMA UnlockStep ==
  ASSUME LockInv, NEW t \in Threads, PutUnlock(t) \/ GetUnlock(t)
  PROVE  LockInv'
<1>1. /\ Return(t) /\ unlock_range(t) /\ UNCHANGED alloc
      /\ \/ pc[t] = "put_unlock" /\ UnsharedDealloc(t)
         \/ pc[t] = "get_unlock" /\ UNCHANGED dealloc
  BY Zenon DEF PutUnlock, GetUnlock
<1>2. /\ Go(t, "idle") /\ DOMAIN pc' = Threads /\ DOMAIN call' = Threads
      /\ \A u \in Threads : u # t => call'[u] = call[u]
      /\ \A u \in Threads : DOMAIN call'[u] = {"op", "s", "e"}
  BY <1>1, Returns, Zenon DEF LockInv
<1>3. /\ "idle" \notin Sharing \cup Cutting \cup Initing \cup Holding
      /\ "put_unlock" \in Sharing /\ "get_unlock" \notin Sharing /\ "get_unlock" \notin Cutting
      /\ pc[t] \notin Initing /\ pc[t] \notin Holding
      /\ pc[t] \notin FetchPlaces
  BY <1>1, Zenon DEF Sharing, Cutting, Initing, Holding, FetchPlaces
<1>4. DeallocInv' /\ dealloc' \in Mutex
  <2>1. CASE pc[t] = "put_unlock" /\ UnsharedDealloc(t)
    BY <1>2, <1>3, <2>1, DeallocUnshared, Zenon
  <2>2. CASE pc[t] = "get_unlock" /\ UNCHANGED dealloc
    <3>1. DeallocInv'
      BY <1>2, <1>3, <2>2, DeallocStays, Zenon
    <3> QED BY <2>2, <3>1, Zenon DEF LockInv, LockTypes
  <2> QED BY <1>1, <2>1, <2>2, Zenon
<1>5. AllocInv'
  BY <1>1, <1>2, <1>3, AllocStays, Zenon
<1>7. RangeInv'
  BY <1>1, <1>2, RangeGiven, Zenon
<1> QED BY <1>1, <1>2, <1>4, <1>5, <1>7, Zenon DEF LockInv, LockTypes

\* The end of allocate, and of save_attributes.
LEMMA ReturnStep ==
  ASSUME LockInv, NEW t \in Threads, AllocateUnlock(t) \/ save_attributes(t)
  PROVE  LockInv'
<1>1. /\ Return(t) /\ UNCHANGED grants /\ (UNCHANGED alloc \/ ExclusiveAlloc)
      /\ \/ pc[t] = "allocate_unlock" /\ UnsharedDealloc(t)
         \/ pc[t] = "save" /\ UNCHANGED dealloc
  BY Zenon DEF AllocateUnlock, save_attributes
<1>2. /\ Go(t, "idle") /\ DOMAIN pc' = Threads /\ DOMAIN call' = Threads
      /\ \A u \in Threads : u # t => call'[u] = call[u]
      /\ \A u \in Threads : DOMAIN call'[u] = {"op", "s", "e"}
  BY <1>1, Returns, Zenon DEF LockInv
<1>3. /\ "idle" \notin Sharing \cup Cutting \cup Initing \cup Holding
      /\ "allocate_unlock" \in Sharing /\ "save" \notin Sharing /\ "save" \notin Cutting
      /\ pc[t] \notin Initing /\ pc[t] \notin Holding
      /\ pc[t] \notin FetchPlaces /\ pc[t] \notin Ranging /\ "idle" \notin Ranging
  BY <1>1, Zenon DEF Sharing, Cutting, Initing, Holding, FetchPlaces, Ranging
<1>4. UNCHANGED alloc
  BY <1>1, AllocFree, Zenon
<1>5. DeallocInv' /\ dealloc' \in Mutex
  <2>1. CASE pc[t] = "allocate_unlock" /\ UnsharedDealloc(t)
    BY <1>2, <1>3, <2>1, DeallocUnshared, Zenon
  <2>2. CASE pc[t] = "save" /\ UNCHANGED dealloc
    <3>1. DeallocInv'
      BY <1>2, <1>3, <2>2, DeallocStays, Zenon
    <3> QED BY <2>2, <3>1, Zenon DEF LockInv, LockTypes
  <2> QED BY <1>1, <2>1, <2>2, Zenon
<1>6. AllocInv'
  BY <1>2, <1>3, <1>4, AllocStays, Zenon
<1>8. RangeInv'
  <2>1. /\ "idle" \notin {"put_copy", "grow", "put_unlock"}
        /\ "idle" \notin {"get_lookup", "get_copy"}
    BY Zenon
  <2> QED BY <1>1, <1>2, <1>3, <2>1, RangeStays, Zenon
<1> QED BY <1>2, <1>4, <1>5, <1>6, <1>8, Zenon DEF LockInv, LockTypes

\* truncate takes m_dealloc_mutex, or begins to wait for it.
LEMMA TruncateLockStep ==
  ASSUME LockInv, NEW t \in Threads, TruncateLock(t)
  PROVE  LockInv'
<1>1. LockTypes /\ DeallocInv /\ dealloc \in Mutex
  BY Zenon DEF LockInv, LockTypes
<1>2. CASE dealloc.shared = {} /\ ~ dealloc.exclusive
  <2>1. /\ dealloc' = [dealloc EXCEPT !.exclusive = TRUE] /\ Go(t, "truncate_range")
        /\ pc[t] = "truncate_lock" /\ UNCHANGED <<grants, alloc, call>>
    BY <1>2, Zenon DEF TruncateLock
  <2>2. /\ dealloc'.shared = {} /\ dealloc'.exclusive = TRUE
        /\ dealloc'.waiting = dealloc.waiting /\ dealloc' \in Mutex
    BY <1>1, <1>2, <2>1, Zenon DEF Mutex
  <2>3. /\ pc'[t] = "truncate_range"
        /\ \A u \in Threads : u # t => pc'[u] = pc[u]
    BY <1>1, <2>1, Goes, Zenon
  <2>4. /\ "truncate_range" \in Cutting /\ "truncate_range" \notin Sharing
        /\ pc[t] \notin Initing /\ "truncate_range" \notin Initing
        /\ pc[t] \notin Ranging /\ "truncate_range" \notin Ranging
        /\ "truncate_range" \notin Holding /\ pc[t] # "idle"
        /\ pc[t] \notin Holding
        /\ "truncate_range" \notin {"put_copy", "grow", "put_unlock"}
        /\ "truncate_range" \notin {"get_lookup", "get_copy"}
    BY <2>1, Zenon DEF Cutting, Sharing, Initing, Ranging, Holding, FetchPlaces
  <2>5. ASSUME NEW u \in Threads
        PROVE  pc'[u] \notin Sharing /\ (pc'[u] \in Cutting => u = t)
    BY <1>1, <1>2, <2>3, <2>4, Zenon DEF DeallocInv
  <2>6. DeallocInv'
    BY <2>2, <2>3, <2>4, <2>5, Zenon DEF DeallocInv
  <2>7. LockTypes'
    BY <2>1, <2>2, TypesStay, Zenon DEF LockInv, LockTypes
  <2>8. AllocInv'
    BY <2>1, <2>4, AllocStays, Zenon
    <2>10. RangeInv'
    BY <2>1, <2>4, RangeStays, Zenon
  <2> QED BY <2>6, <2>7, <2>8, <2>10, Zenon DEF LockInv
<1>3. CASE ~ (dealloc.shared = {} /\ ~ dealloc.exclusive)
  <2>1. /\ dealloc' = [dealloc EXCEPT !.waiting = TRUE] /\ UNCHANGED <<pc, grants, alloc, call>>
    BY <1>3, Zenon DEF TruncateLock
  <2>2. /\ dealloc'.shared = dealloc.shared /\ dealloc'.exclusive = dealloc.exclusive
        /\ dealloc' \in Mutex
    BY <1>1, <2>1, Zenon DEF Mutex
  <2>3. DeallocInv'
    BY <1>1, <1>3, <2>1, <2>2, Zenon DEF DeallocInv
  <2> QED BY <2>1, <2>2, <2>3, Zenon DEF LockInv, LockTypes, AllocInv, RangeInv, Asked
<1> QED BY <1>2, <1>3, Zenon

\* truncate gives it back.
LEMMA TruncateUnlockStep ==
  ASSUME LockInv, NEW t \in Threads, TruncateUnlock(t)
  PROVE  LockInv'
<1>1. /\ Return(t) /\ unlock_range(t) /\ UNCHANGED alloc /\ pc[t] = "truncate_unlock"
      /\ dealloc' = [dealloc EXCEPT !.exclusive = FALSE, !.waiting = FALSE]
  BY Zenon DEF TruncateUnlock
<1>2. /\ Go(t, "idle") /\ DOMAIN pc' = Threads /\ DOMAIN call' = Threads
      /\ \A u \in Threads : u # t => call'[u] = call[u]
      /\ \A u \in Threads : DOMAIN call'[u] = {"op", "s", "e"}
  BY <1>1, Returns, Zenon DEF LockInv
<1>3. /\ "idle" \notin Sharing \cup Cutting \cup Initing \cup Holding
      /\ pc[t] \in Cutting /\ pc[t] \notin Initing /\ pc[t] # "idle"
      /\ pc[t] \notin Holding
  BY <1>1, Zenon DEF Sharing, Cutting, Initing, Holding, FetchPlaces
<1>4. /\ dealloc'.shared = dealloc.shared /\ dealloc'.exclusive = FALSE
      /\ dealloc'.waiting = FALSE /\ dealloc' \in Mutex
  BY <1>1, Zenon DEF LockInv, LockTypes, Mutex
<1>5. /\ pc'[t] = "idle"
      /\ \A u \in Threads : u # t => pc'[u] = pc[u]
  BY <1>2, Goes, Zenon DEF LockInv
<1>6. DeallocInv
  BY Zenon DEF LockInv
<1>7. dealloc.shared = {}
  BY <1>3, <1>6, Zenon DEF DeallocInv
<1>8. ASSUME NEW u \in Threads PROVE pc'[u] \notin Cutting /\ pc'[u] \notin Sharing
  BY <1>3, <1>5, <1>6, <1>7, Zenon DEF DeallocInv
<1>9. DeallocInv'
  BY <1>4, <1>7, <1>8, Zenon DEF DeallocInv
<1>10. AllocInv'
  BY <1>1, <1>2, <1>3, AllocStays, Zenon
<1>12. RangeInv'
  BY <1>1, <1>2, RangeGiven, Zenon
<1> QED BY <1>1, <1>2, <1>4, <1>9, <1>10, <1>12, Zenon DEF LockInv, LockTypes

\* unload looks at the size, which becomes the end of the range it asks for.
LEMMA UnloadSizeStep ==
  ASSUME LockInv, NEW t \in Threads, UnloadSize(t)
  PROVE  LockInv'
<1>1. /\ pc[t] = "unload" /\ Go(t, "unload_range") /\ UNCHANGED <<grants, dealloc, alloc>>
      /\ call' = [call EXCEPT ![t].e = file.st_size]
  BY Zenon DEF UnloadSize, SharedAlloc
<1>2. DOMAIN call = Threads /\ \A u \in Threads : DOMAIN call[u] = {"op", "s", "e"}
  BY Zenon DEF LockInv, LockTypes
<1>3. call' = [call EXCEPT ![t] = [call[t] EXCEPT !.e = file.st_size]]
  BY <1>1, Zenon
<1>4. /\ DOMAIN call' = Threads /\ call'[t] = [call[t] EXCEPT !.e = file.st_size]
      /\ \A u \in Threads : u # t => call'[u] = call[u]
  BY <1>2, <1>3, Zenon
<1>5. call'[t].op = call[t].op /\ DOMAIN call'[t] = {"op", "s", "e"}
  BY <1>2, <1>4, Zenon
<1>6. /\ "unload_range" \notin Sharing \cup Cutting \cup Initing \cup Ranging
      /\ pc[t] \notin Sharing \cup Cutting \cup Initing \cup Ranging
      /\ pc[t] \notin FetchPlaces /\ "unload_range" \notin Holding
      /\ pc[t] \notin Holding
      /\ "unload_range" \notin {"put_copy", "grow", "put_unlock"}
      /\ "unload_range" \notin {"get_lookup", "get_copy"}
  BY <1>1, Zenon DEF Sharing, Cutting, Initing, Ranging, Holding, FetchPlaces
<1>7. DeallocInv'
  BY <1>1, <1>6, DeallocStays, Zenon
<1>8. AllocInv'
  BY <1>1, <1>6, AllocStays, Zenon
<1>10. RangeInv'
  BY <1>1, <1>4, <1>6, RangeStays, Zenon
<1>11. DOMAIN pc' = Threads
  BY <1>1, Goes, Zenon DEF LockInv
<1>12. \A u \in Threads : DOMAIN call'[u] = {"op", "s", "e"}
  BY <1>2, <1>4, <1>5, Zenon
<1> QED BY <1>1, <1>4, <1>7, <1>8, <1>10, <1>11, <1>12, Zenon DEF LockInv, LockTypes

\* unload takes m_alloc_mutex shared, and gives it back: the last one lets in who
\* waits.
LEMMA UnloadHoldStep ==
  ASSUME LockInv, NEW t \in Threads, UnloadHold(t) \/ UnloadRelease(t)
  PROVE  LockInv'
<1> DEFINE place == IF pc[t] = "unload_hold" THEN "unload_lookup" ELSE "unload_copy"
<1>1. /\ pc[t] \in {"unload_hold", "unload_release"} /\ Go(t, place)
      /\ UNCHANGED <<grants, dealloc, call>>
  BY Zenon DEF UnloadHold, UnloadRelease
<1>2. LockTypes /\ AllocInv /\ alloc \in Mutex
  BY Zenon DEF LockInv, LockTypes
<1>3. /\ pc'[t] = place
      /\ \A u \in Threads : u # t => pc'[u] = pc[u]
  BY <1>1, <1>2, Goes, Zenon
<1>4. /\ pc[t] \notin FetchPlaces /\ pc[t] \notin Initing /\ place \notin Initing
      /\ pc[t] \in Sharing <=> place \in Sharing
      /\ pc[t] \in Cutting <=> place \in Cutting
      /\ pc[t] \in Ranging /\ place \in Ranging
      /\ place \notin {"put_copy", "grow", "put_unlock"} /\ place \notin {"get_lookup", "get_copy"}
  BY <1>1, Zenon DEF Sharing, Cutting, Initing, Ranging, FetchPlaces
<1>5. \A u \in Threads : pc'[u] \in Initing <=> pc[u] \in Initing
  BY <1>3, <1>4, Zenon
<1>6. AllocInv' /\ alloc' \in Mutex
  <2>1. CASE UnloadHold(t)
    <3>1. /\ alloc' = [alloc EXCEPT !.shared = @ \cup {t}] /\ pc[t] = "unload_hold"
          /\ ~ alloc.exclusive /\ ~ alloc.waiting
      BY <2>1, Zenon DEF UnloadHold, AllocClosed
    <3>2. /\ alloc' \in Mutex /\ alloc'.shared = alloc.shared \cup {t} /\ ~ alloc'.exclusive
          /\ ~ alloc'.waiting
      BY <1>2, <3>1, Zenon DEF Mutex
    <3>3. ASSUME NEW u \in Threads PROVE u \in alloc'.shared <=> pc'[u] \in Holding
      BY <1>2, <1>3, <3>1, <3>2, Zenon DEF AllocInv, Holding
    <3> QED BY <1>2, <1>5, <3>1, <3>2, <3>3, Zenon DEF AllocInv
  <2>2. CASE UnloadRelease(t)
    <3>1. /\ (alloc.waiting /\ alloc.shared # {t}) \in BOOLEAN /\ pc[t] = "unload_release"
          /\ alloc' = [alloc EXCEPT !.shared = @ \ {t},
                                    !.waiting = alloc.waiting /\ alloc.shared # {t}]
      BY <2>2, Zenon DEF UnloadRelease
    <3>2. /\ alloc' \in Mutex /\ alloc'.shared = alloc.shared \ {t}
          /\ alloc'.exclusive = alloc.exclusive
          /\ alloc'.waiting = (alloc.waiting /\ alloc.shared # {t})
      BY <1>2, <3>1, Zenon DEF Mutex
    <3>3. t \in alloc.shared
      BY <1>2, <3>1, Zenon DEF AllocInv, Holding
    <3>4. alloc'.waiting => alloc'.shared # {}
      BY <3>2, <3>3, Zenon
    <3>5. ~ alloc.exclusive
      BY <1>2, <3>3, Zenon DEF AllocInv
    <3>6. ASSUME NEW u \in Threads PROVE u \in alloc'.shared <=> pc'[u] \in Holding
      BY <1>2, <1>3, <3>1, <3>2, Zenon DEF AllocInv, Holding
    <3> QED BY <1>2, <1>5, <3>2, <3>4, <3>5, <3>6, Zenon DEF AllocInv
  <2> QED BY <2>1, <2>2, Zenon
<1> HIDE DEF place
<1>7. DeallocInv'
  BY <1>1, <1>4, DeallocStays, Zenon
<1>8. RangeInv'
  BY <1>1, <1>4, RangeStays, Zenon
<1>9. LockTypes'
  BY <1>1, <1>2, <1>6, TypesStay, Zenon DEF LockTypes
<1> QED BY <1>6, <1>7, <1>8, <1>9, Zenon DEF LockInv

\* A call begins.
LEMMA CallStep ==
  ASSUME LockInv, NEW t \in Threads, Call(t)
  PROVE  LockInv'
<1>1. PICK c \in Calls :
        /\ pc[t] = "idle" /\ UNCHANGED <<grants, dealloc, alloc>>
        /\ call' = [call EXCEPT ![t] = c] /\ Go(t, c.op)
  BY Zenon DEF Call, Active
<1>2. DOMAIN c = {"op", "s", "e"} /\ c.op \in Operations
  BY CallsAssumption, Zenon
<1>3. DOMAIN call = Threads /\ \A u \in Threads : DOMAIN call[u] = {"op", "s", "e"}
  BY Zenon DEF LockInv, LockTypes
<1>4. /\ DOMAIN call' = Threads /\ call'[t] = c
      /\ \A u \in Threads : u # t => call'[u] = call[u]
  BY <1>1, <1>3, Zenon
<1>5. /\ DOMAIN pc' = Threads /\ pc'[t] = c.op
      /\ \A u \in Threads : u # t => pc'[u] = pc[u]
  BY <1>1, Goes, Zenon DEF LockInv
<1>6. /\ c.op \notin Sharing \cup Cutting \cup Initing \cup Ranging
      /\ "idle" \notin Sharing \cup Cutting \cup Initing \cup Ranging \cup Holding
      /\ c.op \notin Holding /\ "idle" \notin FetchPlaces
      /\ c.op \notin {"put_copy", "grow", "put_unlock"} /\ c.op \notin {"get_lookup", "get_copy"}
  BY <1>2, Zenon DEF Operations, Sharing, Cutting, Initing, Ranging, Holding, FetchPlaces
<1>7. DeallocInv'
  BY <1>1, <1>6, DeallocStays, Zenon
<1>8. AllocInv'
  BY <1>1, <1>6, AllocStays, Zenon
<1>9. RangeInv'
  <2>1. pc[t] \notin Ranging
    BY <1>1, <1>6, Zenon
  <2> QED BY <1>1, <1>4, <1>6, <2>1, RangeStays, Zenon
<1>11. \A u \in Threads : DOMAIN call'[u] = {"op", "s", "e"}
  BY <1>2, <1>3, <1>4, Zenon
<1> QED BY <1>1, <1>4, <1>5, <1>7, <1>8, <1>9, <1>11, Zenon DEF LockInv, LockTypes

\* A thread begins to wait for m_alloc_mutex, which somebody holds; a put_data or
\* allocate has m_dealloc_mutex meanwhile.
LEMMA AllocWaitStep ==
  ASSUME LockInv, NEW t \in Threads, AllocWait(t)
  PROVE  LockInv'
<1>1. /\ AllocHeld /\ alloc' = [alloc EXCEPT !.waiting = TRUE] /\ UNCHANGED <<grants, pc, call>>
      /\ (pc[t] \in FetchPlaces /\ SharedDealloc(t)) \/ UNCHANGED dealloc
  BY Zenon DEF AllocWait
<1>2. AllocInv /\ alloc \in Mutex /\ DeallocInv /\ dealloc \in Mutex
  BY Zenon DEF LockInv, LockTypes
<1>3. /\ alloc' \in Mutex /\ alloc'.shared = alloc.shared
      /\ alloc'.exclusive = alloc.exclusive
  BY <1>1, <1>2, Zenon DEF Mutex
<1>4. AllocInv'
  BY <1>1, <1>2, <1>3, Zenon DEF AllocInv, AllocHeld
<1>5. DeallocInv' /\ dealloc' \in Mutex
  <2>1. CASE pc[t] \in FetchPlaces /\ SharedDealloc(t)
    <3>1. /\ dealloc' = [dealloc EXCEPT !.shared = @ \cup {t}]
          /\ t \in dealloc.shared \/ (~ dealloc.exclusive /\ ~ dealloc.waiting)
      BY <2>1, Zenon DEF SharedDealloc
    <3>2. /\ dealloc'.shared = dealloc.shared \cup {t} /\ dealloc'.exclusive = dealloc.exclusive
          /\ dealloc'.waiting = dealloc.waiting /\ dealloc' \in Mutex
      BY <1>2, <3>1 DEF Mutex
    <3>3. ~ dealloc'.exclusive
      BY <1>2, <3>1, <3>2, Zenon DEF DeallocInv
    <3> QED BY <1>1, <1>2, <2>1, <3>2, <3>3, Zenon DEF DeallocInv
  <2>2. CASE UNCHANGED dealloc
    BY <1>1, <1>2, <2>2, Zenon DEF DeallocInv
  <2> QED BY <1>1, <2>1, <2>2, Zenon
<1>6. RangeInv'
  BY <1>1, Zenon DEF LockInv, RangeInv, Asked
<1> QED BY <1>1, <1>3, <1>4, <1>5, <1>6, Zenon DEF LockInv, LockTypes

\* put_data finds the file not initialized: it has m_dealloc_mutex from then on.
LEMMA FindPutStep ==
  ASSUME LockInv, NEW t \in Threads, NotInitialized(t, "put")
  PROVE  LockInv'
<1>1. /\ pc[t] = "put" /\ SharedDealloc(t) /\ Go(t, "init_put") /\ UNCHANGED <<alloc, grants, call>>
  BY Zenon DEF NotInitialized
<1>2. /\ pc[t] \in FetchPlaces /\ "init_put" \in Sharing /\ "init_put" \notin Initing
      /\ "init_put" \notin Ranging /\ pc[t] \notin Ranging /\ pc[t] \notin Initing
      /\ "init_put" \notin Holding /\ pc[t] \notin Holding
      /\ "init_put" \notin {"put_copy", "grow", "put_unlock"}
      /\ "init_put" \notin {"get_lookup", "get_copy"}
  BY <1>1, Zenon DEF FetchPlaces, Sharing, Initing, Ranging, Holding
<1>3. DeallocInv' /\ dealloc' \in Mutex
  BY <1>1, <1>2, DeallocShared, Zenon
<1>4. AllocInv'
  BY <1>1, <1>2, AllocStays, Zenon
<1>5. RangeInv'
  BY <1>1, <1>2, RangeStays, Zenon
<1>6. LockTypes'
  BY <1>1, <1>3, TypesStay, Zenon DEF LockInv, LockTypes
<1> QED BY <1>3, <1>4, <1>5, <1>6, Zenon DEF LockInv

\* It gets m_alloc_mutex, and keeps both mutexes while it makes the directory.
LEMMA InitPutStep ==
  ASSUME LockInv, NEW t \in Threads, InitLock(t)
  PROVE  LockInv'
<1>1. /\ pc[t] = "init_put" /\ ~ AllocHeld /\ Go(t, "remove_put")
      /\ alloc' = [alloc EXCEPT !.exclusive = TRUE] /\ UNCHANGED <<grants, call, dealloc>>
  BY Zenon DEF InitLock, Removing
<1>2. AllocInv /\ alloc \in Mutex
  BY Zenon DEF LockInv, LockTypes
<1>3. /\ pc'[t] = "remove_put"
      /\ \A u \in Threads : u # t => pc'[u] = pc[u]
  BY <1>1, Goes, Zenon DEF LockInv
<1>4. /\ pc[t] \in Sharing /\ "remove_put" \in Sharing /\ "remove_put" \in Initing
      /\ pc[t] \notin Cutting /\ "remove_put" \notin Cutting /\ pc[t] \notin FetchPlaces
      /\ "remove_put" \notin Ranging \cup Holding /\ pc[t] \notin Ranging \cup Holding
      /\ "remove_put" \notin {"put_copy", "grow", "put_unlock"}
      /\ "remove_put" \notin {"get_lookup", "get_copy"}
  BY <1>1, Zenon DEF FetchPlaces, Sharing, Initing, Ranging, Holding, Cutting
<1>5. DeallocInv'
  BY <1>1, <1>4, DeallocStays, Zenon
<1>6. ~ alloc.exclusive /\ alloc.shared = {} /\ ~ alloc.waiting
  BY <1>1, <1>2, Zenon DEF AllocHeld, AllocInv
<1>7. /\ alloc' \in Mutex /\ alloc'.exclusive = TRUE /\ alloc'.shared = {}
      /\ alloc'.waiting = alloc.waiting
  BY <1>1, <1>2, <1>6, Zenon DEF Mutex
<1>8. \A u \in Threads : pc'[u] \in Initing => u = t
  BY <1>2, <1>3, <1>6, Zenon DEF AllocInv
<1>9. \A u \in Threads : pc'[u] \notin Holding
  BY <1>2, <1>3, <1>4, <1>6, Zenon DEF AllocInv
<1>10. AllocInv'
  BY <1>3, <1>4, <1>6, <1>7, <1>8, <1>9, Zenon DEF AllocInv
<1>11. RangeInv'
  BY <1>1, <1>4, RangeStays, Zenon
<1>12. LockTypes'
  BY <1>1, <1>7, TypesStay, Zenon DEF LockInv, LockTypes
<1> QED BY <1>5, <1>10, <1>11, <1>12, Zenon DEF LockInv

\* It has made the directory, and gives m_alloc_mutex back for the moment.
LEMMA MakePutStep ==
  ASSUME LockInv, NEW t \in Threads, pc[t] = "mkdir_put", Go(t, "put"),
         alloc' = [alloc EXCEPT !.exclusive = FALSE, !.waiting = FALSE],
         UNCHANGED <<grants, call, dealloc>>
  PROVE  LockInv'
<1>1. LockTypes /\ AllocInv /\ alloc \in Mutex /\ DeallocInv /\ dealloc \in Mutex
  BY Zenon DEF LockInv, LockTypes
<1>2. /\ pc'[t] = "put"
      /\ \A u \in Threads : u # t => pc'[u] = pc[u]
  BY <1>1, Goes, Zenon
<1>3. /\ "put" \notin Ranging \cup Holding \cup Sharing \cup Cutting \cup Initing
      /\ pc[t] \notin Ranging \cup Cutting /\ pc[t] \in Initing
      /\ "put" \notin {"put_copy", "grow", "put_unlock"} /\ pc[t] # "idle"
      /\ "put" \notin {"get_lookup", "get_copy"} /\ pc[t] \in Sharing
      /\ "put" \in FetchPlaces
  BY Zenon DEF Sharing, Initing, Ranging, Holding, FetchPlaces, Cutting
<1>4. /\ alloc' \in Mutex /\ alloc'.exclusive = FALSE /\ alloc'.shared = alloc.shared
      /\ alloc'.waiting = FALSE
  BY <1>1, Zenon DEF Mutex
<1>5. alloc.shared = {}
  BY <1>1, <1>3, Zenon DEF AllocInv
<1>6. \A u \in Threads : pc'[u] \notin Initing
  BY <1>1, <1>2, <1>3, Zenon DEF AllocInv
<1>7. AllocInv'
  <2>1. \A u \in Threads : pc'[u] \notin Holding
    BY <1>1, <1>2, <1>3, <1>5, Zenon DEF AllocInv
  <2> QED BY <1>4, <1>5, <1>6, <2>1, Zenon DEF AllocInv
<1>8. t \in dealloc.shared
  BY <1>1, <1>3, Zenon DEF DeallocInv
<1>9. \A u \in Threads : pc'[u] \in Cutting <=> pc[u] \in Cutting
  BY <1>2, <1>3, Zenon
<1>10. ASSUME NEW u \in Threads
       PROVE  /\ u \in dealloc.shared => pc'[u] \in Sharing \cup FetchPlaces
              /\ pc'[u] \in Sharing => u \in dealloc.shared
  BY <1>1, <1>2, <1>3, Zenon DEF DeallocInv
<1>11. DeallocInv'
  BY <1>1, <1>9, <1>10, Zenon DEF DeallocInv
<1>13. RangeInv'
  BY <1>3, RangeStays, Zenon
<1>14. LockTypes'
  BY <1>1, <1>4, TypesStay, Zenon
<1> QED BY <1>7, <1>11, <1>13, <1>14, Zenon DEF LockInv

\* "if (!m_initialized)", in every operation.
LEMMA InitPoolStep ==
  ASSUME LockInv, NEW t \in Threads, NEW op \in DOMAIN Making, InitPool(t, op)
  PROVE  LockInv'
<1>1. op \in {"put", "get", "allocate", "extend"}
  BY DEF Making
<1>2. CASE NotInitialized(t, op)
  <2>1. CASE op = "put"
    BY <1>2, <2>1, FindPutStep, Zenon
  <2>2. CASE op # "put"
    <3>1. /\ pc[t] = op /\ Go(t, Removing[op]) /\ UNCHANGED <<call, dealloc, alloc, grants>>
          /\ t \notin dealloc.shared
      BY <1>2, <2>2, Zenon DEF NotInitialized
    <3>2. Alike(pc[t], Removing[op])
      BY <1>1, <2>2, <3>1 DEF Alike, Removing, Sharing, Cutting, Initing, Ranging, Holding
    <3> QED BY <3>1, <3>2, PlainStep, Zenon
  <2> QED BY <2>1, <2>2, Zenon
<1>3. CASE RemoveSubdir(t, op)
  <2>1. /\ pc[t] = Removing[op] /\ Go(t, Making[op]) /\ UNCHANGED <<call, dealloc, alloc, grants>>
    BY <1>3, Zenon DEF RemoveSubdir
  <2>2. Alike(pc[t], Making[op])
    BY <1>1, <2>1 DEF Alike, Removing, Making, Sharing, Cutting, Initing, Ranging, Holding
  <2>3. pc[t] \notin FetchPlaces
    BY <1>1, <2>1 DEF Removing, FetchPlaces
  <2> QED BY <2>1, <2>2, <2>3, PlainStep, Zenon
<1>4. CASE MakeSubdir(t, op)
  <2>1. pc[t] = Making[op] /\ UNCHANGED <<call, dealloc, grants>>
    BY <1>4, Zenon DEF MakeSubdir
  <2>2. CASE subdir
    <3>1. UNCHANGED <<pc, alloc>>
      BY <1>4, <2>2, Zenon DEF MakeSubdir
    <3> QED BY <2>1, <3>1, Zenon
            DEF LockInv, LockTypes, DeallocInv, AllocInv, RangeInv, Asked
  <2>3. CASE ~ subdir /\ op = "put"
    <3>1. /\ Go(t, "put") /\ alloc' = [alloc EXCEPT !.exclusive = FALSE, !.waiting = FALSE]
      BY <1>4, <2>3, Zenon DEF MakeSubdir
    <3>2. Making["put"] = "mkdir_put"
      BY DEF Making
    <3> QED BY <2>1, <2>3, <3>1, <3>2, MakePutStep, Zenon
  <2>4. CASE ~ subdir /\ op # "put"
    <3>1. Go(t, op) /\ UNCHANGED alloc
      BY <1>4, <2>4, Zenon DEF MakeSubdir
    <3>2. Alike(pc[t], op)
      BY <1>1, <2>1, <2>4 DEF Alike, Making, Sharing, Cutting, Initing, Ranging, Holding
    <3>3. pc[t] \notin FetchPlaces
      BY <1>1, <2>1 DEF Making, FetchPlaces
    <3> QED BY <2>1, <3>1, <3>2, <3>3, PlainStep, Zenon
  <2> QED BY <2>2, <2>3, <2>4, Zenon
<1> QED BY <1>2, <1>3, <1>4, Zenon DEF InitPool

\* A step of put_data, get_data, allocate, truncate, stat, save_attributes or
\* unload.
LEMMA WorkStep ==
  ASSUME LockInv, NEW t \in Threads, Work(t)
  PROVE  LockInv'
<1> USE DEF Alike, Sharing, Cutting, Initing, Ranging, Holding, FetchPlaces
<1>1. CASE PutFetch(t) \/ Allocate(t)
  <2> USE DEF FetchPlaces
  <2>1. CASE PutFetch(t)
    BY <2>1, FetchStep, Zenon DEF PutFetch
  <2>2. CASE Allocate(t)
    BY <2>2, FetchStep, Zenon DEF Allocate
  <2> QED BY <1>1, <2>1, <2>2, Zenon
<1>2. CASE PutLock(t) \/ GetLock(t) \/ TruncateRange(t) \/ UnloadRange(t)
  <2>1. CASE PutLock(t)
    BY <2>1, LockStep, Zenon DEF PutLock
  <2>2. CASE GetLock(t)
    BY <2>2, LockStep, Zenon DEF GetLock
  <2>3. CASE TruncateRange(t)
    BY <2>3, LockStep, Zenon DEF TruncateRange, SharedAlloc
  <2>4. CASE UnloadRange(t)
    BY <2>4, LockStep, Zenon DEF UnloadRange
  <2> QED BY <1>2, <2>1, <2>2, <2>3, <2>4, Zenon
<1>3. CASE PutCopy(t) \/ GetCopy(t) \/ TruncateCut(t) \/ UnloadCopy(t)
  <2>1. CASE PutCopy(t)
    BY <2>1, PlainStep, Zenon DEF PutCopy
  <2>2. CASE GetCopy(t)
    BY <2>2, PlainStep, Zenon DEF GetCopy
  <2>3. CASE TruncateCut(t)
    BY <2>3, PlainStep, Zenon DEF TruncateCut
  <2>4. CASE UnloadCopy(t)
    BY <2>4, PlainStep, Zenon DEF UnloadCopy
  <2> QED BY <1>3, <2>1, <2>2, <2>3, <2>4, Zenon
<1>4. CASE PutSize(t) \/ AllocateSize(t) \/ TruncateSet(t)
  <2>1. UNCHANGED alloc
    BY <1>4, AllocFree, Zenon DEF PutSize, AllocateSize, TruncateSet, update_size
  <2>2. CASE PutSize(t)
    BY <2>1, <2>2, PlainStep, Zenon DEF PutSize
  <2>3. CASE AllocateSize(t)
    BY <2>1, <2>3, PlainStep, Zenon DEF AllocateSize
  <2>4. CASE TruncateSet(t)
    BY <2>1, <2>4, PlainStep, Zenon DEF TruncateSet
  <2> QED BY <1>4, <2>2, <2>3, <2>4, Zenon
<1>5. CASE GetLookup(t) \/ UnloadLookup(t) \/ TruncateTest(t) \/ stat(t)
  <2> USE DEF SharedAlloc
  <2>1. CASE GetLookup(t)
    BY <2>1, PlainStep, Zenon DEF GetLookup, Lookup
  <2>2. CASE UnloadLookup(t)
    BY <2>2, PlainStep, Zenon DEF UnloadLookup, Lookup
  <2>3. CASE TruncateTest(t)
    <3>1. PICK place \in {"extend", "truncate_lock"} : Go(t, place)
      BY <2>3, Zenon DEF TruncateTest
    <3> QED BY <2>3, <3>1, PlainStep, Zenon DEF TruncateTest
  <2>4. CASE stat(t)
    BY <2>4, PlainStep, Zenon DEF stat
  <2> QED BY <1>5, <2>1, <2>2, <2>3, <2>4, Zenon
<1>6. CASE \/ PutUnlock(t) \/ GetUnlock(t) \/ AllocateUnlock(t) \/ save_attributes(t)
           \/ TruncateUnlock(t) \/ TruncateLock(t)
           \/ UnloadSize(t) \/ UnloadHold(t) \/ UnloadRelease(t)
  BY <1>6, UnlockStep, ReturnStep, TruncateUnlockStep, TruncateLockStep, UnloadSizeStep,
     UnloadHoldStep, Zenon
<1> QED
  BY <1>1, <1>2, <1>3, <1>4, <1>5, <1>6, Zenon
  DEF Work, put_data, get_data, allocate, truncate, setattr, unload

-----------------------------------------------------------------------------
(***************************************************************************)
(* What follows.                                                           *)
(***************************************************************************)
\* A file that is constructed: nobody holds anything.
LEMMA LockInit ==
  ASSUME NEW n, InitFile(n)
  PROVE  LockInv
<1>1. /\ grants = {} /\ pc = [t \in Threads |-> "idle"] /\ call = [t \in Threads |-> NoCall]
      /\ dealloc = [shared |-> {}, exclusive |-> FALSE, waiting |-> FALSE]
      /\ alloc = [shared |-> {}, exclusive |-> FALSE, waiting |-> FALSE]
  BY Zenon DEF InitFile
<1>2. \A t \in Threads : pc[t] = "idle" /\ call[t] = NoCall
  BY <1>1, Zenon
<1>3. DOMAIN NoCall = {"op", "s", "e"}
  BY DEF NoCall
<1>4. "idle" \notin Sharing \cup Cutting \cup Initing \cup Ranging \cup Holding
  BY Zenon DEF Sharing, Cutting, Initing, Ranging, Holding, FetchPlaces
<1>5. LockTypes
  BY <1>1, <1>2, <1>3, Zenon DEF LockTypes, Mutex
<1>6. DeallocInv /\ AllocInv
  BY <1>1, <1>2, <1>4, Zenon DEF DeallocInv, AllocInv
<1>7. RangeInv
  BY <1>1, <1>2, <1>4, Zenon DEF RangeInv
<1> QED BY <1>5, <1>6, <1>7, Zenon DEF LockInv

\* The three locks of a file keep their invariant, in every operation of the
\* devdax and of the nvml backend.
THEOREM FileLocks ==
  (Spec => []LockInv) /\ (NvmlSpec => []LockInv)
<1>1. ASSUME Init PROVE LockInv
  BY <1>1, LockInit, Zenon DEF Init
<1>2. ASSUME NvmlInit PROVE LockInv
  BY <1>2, LockInit, Zenon DEF NvmlInit
<1>3. ASSUME LockInv, UNCHANGED <<grants, dealloc, alloc, pc, call>> PROVE LockInv'
  BY <1>3, Zenon DEF LockInv, LockTypes, DeallocInv, AllocInv, RangeInv, Asked
<1>4. ASSUME LockInv, [Next]_fileVars PROVE LockInv'
  <2>1. CASE \E t \in Threads : Call(t) \/ AllocWait(t) \/ Work(t)
    BY <1>4, <2>1, CallStep, AllocWaitStep, WorkStep, Zenon
  <2>2. CASE UNCHANGED fileVars
    BY <1>3, <1>4, <2>2, Zenon DEF fileVars
  <2> QED BY <1>4, <2>1, <2>2, Zenon DEF Next
<1>5. ASSUME LockInv, [NvmlNext]_nvVars PROVE LockInv'
  <2>1. ASSUME NEW t \in Threads,
               \/ Running(Call(t) \/ ((pc[t] \in FetchPlaces => m_initialized) /\ AllocWait(t)))
               \/ nvml_put_data(t) \/ nvml_get_data(t) \/ nvml_allocate(t)
               \/ nvml_truncate(t) \/ nvml_setattr(t) \/ nvml_unload(t)
        PROVE  LockInv'
    <3>1. DOMAIN Making = {"put", "get", "allocate", "extend"}
      BY DEF Making
    <3>2. CASE Call(t) \/ AllocWait(t) \/ InitLock(t)
      BY <1>5, <3>2, CallStep, AllocWaitStep, InitPutStep, Zenon
    <3>3. CASE \E op \in DOMAIN Making : InitPool(t, op)
      BY <1>5, <3>3, InitPoolStep, Zenon
    <3>4. CASE Work(t)
      BY <1>5, <3>4, WorkStep, Zenon
    <3> QED
      BY <2>1, <3>1, <3>2, <3>3, <3>4, Zenon
      DEF Running, Fetching, nvml_put_data, nvml_get_data, nvml_allocate, nvml_truncate,
          nvml_setattr, nvml_unload, Work, put_data, get_data, allocate
  <2>2. CASE UNCHANGED nvVars
    BY <1>3, <1>5, <2>2, Zenon DEF nvVars, fileVars
  <2> QED BY <1>5, <2>1, <2>2, Zenon DEF NvmlNext
<1>6. Spec => []LockInv
  BY <1>1, <1>4, PTL DEF Spec
<1>7. NvmlSpec => []LockInv
  BY <1>2, <1>5, PTL DEF NvmlSpec
<1> QED BY <1>6, <1>7

\* Somebody can go on: a thread that waits for a range waits for one that does not
\* wait for a range or for m_dealloc_mutex, one that waits for m_dealloc_mutex waits
\* for one that has it, and m_alloc_mutex is the last to be taken, by all but an
\* unload that has it already.
LEMMA SomeoneGoes ==
  ASSUME LockInv
  PROVE  SomeoneRuns
<1>1. SUFFICES ASSUME NEW a \in Threads, pc[a] # "idle", ~ Stalled,
                      \A t \in Threads : pc[t] # "idle" => Blocked(t)
               PROVE  FALSE
  BY Zenon DEF SomeoneRuns, Active
<1>2. LockTypes /\ DeallocInv /\ AllocInv /\ RangeInv
  BY Zenon DEF LockInv
<1>3. ~ alloc.exclusive
  <2>1. \A t \in Threads : pc[t] \in Initing => ~ Blocked(t) /\ pc[t] # "idle"
    BY Zenon DEF Initing, Blocked, FetchPlaces, AllocPlaces
  <2> QED BY <1>1, <1>2, <2>1, Zenon DEF AllocInv
<1>4. alloc.shared = {}
  <2>1. SUFFICES ASSUME NEW t \in Threads, t \in alloc.shared PROVE FALSE
    BY <1>2, Zenon DEF LockTypes, Mutex
  <2>2. pc[t] \in Holding /\ pc[t] # "idle"
    BY <1>2, <2>1, Zenon DEF AllocInv, Holding
  <2>3. pc[t] = "unload_lookup" /\ AllocClosed
    BY <1>1, <2>2, Zenon DEF Holding, Blocked, FetchPlaces, AllocPlaces
  <2> QED BY <1>1, <1>3, <2>3, Zenon DEF Stalled, AllocClosed
<1>5. ~ AllocClosed /\ ~ AllocHeld
  BY <1>2, <1>3, <1>4, Zenon DEF AllocInv, AllocClosed, AllocHeld
<1>6. \A t \in Threads : pc[t] \in Ranging => ~ Blocked(t) /\ pc[t] # "idle"
  BY <1>5, Zenon DEF Blocked, FetchPlaces, AllocPlaces, Ranging
<1>7. grants = {}
  BY <1>1, <1>2, <1>6, Zenon DEF RangeInv
<1>8. \A t \in Threads : \A s, e, type : ~ RangeBusy(t, s, e, type)
  BY <1>7, Zenon DEF RangeBusy
<1>9. \A t \in Threads : Blocked(t) =>
        \/ pc[t] \in FetchPlaces /\ t \notin dealloc.shared /\ (dealloc.exclusive \/ dealloc.waiting)
        \/ pc[t] = "truncate_lock" /\ (dealloc.shared # {} \/ dealloc.exclusive)
  BY <1>5, <1>8, Zenon DEF Blocked
<1>10. ~ dealloc.exclusive
  <2>1. \A t \in Threads : pc[t] \in Cutting =>
          pc[t] \notin FetchPlaces /\ pc[t] # "truncate_lock" /\ pc[t] # "idle"
    BY Zenon DEF Cutting, FetchPlaces
  <2> QED BY <1>1, <1>2, <1>9, <2>1, Zenon DEF DeallocInv
<1>11. dealloc.shared = {}
  <2>1. SUFFICES ASSUME NEW t \in Threads, t \in dealloc.shared PROVE FALSE
    BY <1>2, Zenon DEF LockTypes, Mutex
  <2>2. pc[t] \in Sharing \cup FetchPlaces
    BY <1>2, <2>1, Zenon DEF DeallocInv
  <2>3. pc[t] # "truncate_lock" /\ pc[t] # "idle"
    BY <2>2, Zenon DEF Sharing, FetchPlaces
  <2> QED BY <1>1, <1>9, <2>1, <2>3, Zenon
<1>12. ~ dealloc.waiting
  BY <1>2, <1>10, <1>11, Zenon DEF DeallocInv
<1> QED BY <1>1, <1>9, <1>10, <1>11, <1>12, Zenon

\* Never does everyone wait for everyone, for any number of threads and any calls
\* of the devdax and the nvml backend, unload beside writers included, but for the
\* unload that waits between its two requests for m_alloc_mutex.
THEOREM LocksNeverRing ==
  (Spec => []SomeoneRuns) /\ (NvmlSpec => []SomeoneRuns)
<1>1. LockInv => SomeoneRuns
  BY SomeoneGoes
<1>2. (Spec => []LockInv) /\ (NvmlSpec => []LockInv)
  BY FileLocks
<1> QED BY <1>1, <1>2, PTL

\* What the locks are for: no truncate is between its lock and its unlock while a
\* put_data uses the addresses it looked up, and a thread that writes its range
\* shares no byte of it with a range that another one reads or writes.
CopiesApart ==
  \A t, u \in Threads : t # u =>
    /\ pc[t] \in {"put_lock", "put_copy"} => pc[u] \notin Cutting
    /\ pc[t] = "put_copy" /\ pc[u] \in {"put_copy", "get_copy"} =>
         ~ (call[t].s < call[u].e /\ call[u].s < call[t].e)

\* put_data has its addresses to itself, in both backends, for any number of
\* threads: the lock-level part of what NothingVanishes says.
THEOREM CopiesKeptApart ==
  (Spec => []CopiesApart) /\ (NvmlSpec => []CopiesApart)
<1>1. ASSUME LockInv PROVE CopiesApart
  <2>1. DeallocInv /\ RangeInv
    BY <1>1, Zenon DEF LockInv
  <2>2. ASSUME NEW t \in Threads, NEW u \in Threads, pc[t] \in {"put_lock", "put_copy"}
        PROVE  pc[u] \notin Cutting
    BY <2>1, <2>2, Zenon DEF DeallocInv, Sharing
  <2>3. ASSUME NEW t \in Threads, NEW u \in Threads, t # u, pc[t] = "put_copy",
               pc[u] \in {"put_copy", "get_copy"}
        PROVE  ~ (call[t].s < call[u].e /\ call[u].s < call[t].e)
    <3>1. PICK type \in {"reader", "writer"} : Asked(u, type) \in grants
      BY <2>1, <2>3, Zenon DEF RangeInv
    <3>2. Asked(t, "writer") \in grants
      BY <2>1, <2>3, Zenon DEF RangeInv
    <3>3. Asked(t, "writer") # Asked(u, type)
      BY <2>3, Zenon DEF Asked
    <3>4. ~ LockManager!Conflict(Asked(t, "writer")[2], Asked(u, type)[2])
      BY <2>1, <3>1, <3>2, <3>3, Zenon DEF RangeInv
    <3> QED BY <3>4, Zenon DEF Asked, LockManager!Conflict, LockManager!Overlap
  <2> QED BY <2>2, <2>3, Zenon DEF CopiesApart
<1>2. (Spec => []LockInv) /\ (NvmlSpec => []LockInv)
  BY FileLocks
<1> QED BY <1>1, <1>2, PTL

-----------------------------------------------------------------------------
(***************************************************************************)
(* The directory of a file of the nvml backend.                            *)
(***************************************************************************)
Mkdirs == {"mkdir_put", "mkdir_get", "mkdir_allocate", "mkdir_extend"}

PoolInv ==
  /\ DOMAIN pc = Threads
  /\ m_initialized /\ status = "running" => subdir \/ \E t \in Threads : pc[t] \in Mkdirs

\* A thread that is about to make the directory does nothing else first, and no
\* step moves another thread.
LEMMA MakersStay ==
  ASSUME DOMAIN pc = Threads, NEW t \in Threads, Call(t) \/ AllocWait(t) \/ Work(t)
  PROVE  /\ DOMAIN pc' = Threads
         /\ \A u \in Threads : pc[u] \in Mkdirs => pc'[u] = pc[u]
<1>1. SUFFICES /\ pc' = pc \/ \E place : pc' = [pc EXCEPT ![t] = place]
               /\ pc' = pc \/ pc[t] \notin Mkdirs
  BY Zenon
<1> USE DEF Go, Mkdirs
<1>2. CASE Call(t)
  BY <1>2, Zenon DEF Call, Active
<1>3. CASE AllocWait(t)
  BY <1>3, Zenon DEF AllocWait
<1>4. CASE put_data(t)
  BY <1>4, Zenon
  DEF put_data, PutFetch, FetchFor, PutLock, PutCopy, PutSize, PutUnlock, Return
<1>5. CASE get_data(t)
  BY <1>5, Zenon DEF get_data, GetLock, GetLookup, Lookup, GetCopy, GetUnlock, Return
<1>6. CASE allocate(t)
  BY <1>6, Zenon DEF allocate, Allocate, FetchFor, AllocateSize, AllocateUnlock, Return
<1>7. CASE truncate(t)
  BY <1>7, Zenon DEF truncate, TruncateTest, TruncateLock, TruncateRange, TruncateCut,
                     TruncateSet, TruncateUnlock, Return
<1>8. CASE setattr(t)
  BY <1>8, Zenon DEF setattr, stat, save_attributes, Return
<1>9. CASE unload(t)
  BY <1>9, Zenon DEF unload, UnloadSize, UnloadRange, UnloadHold, UnloadLookup, Lookup,
                     UnloadRelease, UnloadCopy
<1> QED BY <1>2, <1>3, <1>4, <1>5, <1>6, <1>7, <1>8, <1>9, Zenon DEF Work

\* A step of "if (!m_initialized)": whoever sets the flag has made the directory,
\* and whoever removes it is going to make it.
LEMMA InitPoolReady ==
  ASSUME PoolInv, NEW t \in Threads, NEW op \in DOMAIN Making, InitPool(t, op)
  PROVE  PoolInv'
<1>1. DOMAIN pc = Threads
  BY Zenon DEF PoolInv
<1>2. /\ op \notin Mkdirs /\ Removing[op] \notin Mkdirs /\ Making[op] \in Mkdirs
  BY DEF Making, Removing, Mkdirs
<1>3. CASE NotInitialized(t, op)
  BY <1>1, <1>3, Zenon DEF PoolInv, NotInitialized, Go, poolVars
<1>4. CASE RemoveSubdir(t, op)
  <2>1. pc' = [pc EXCEPT ![t] = Making[op]]
    BY <1>4, Zenon DEF RemoveSubdir, Go
  <2>2. DOMAIN pc' = Threads /\ pc'[t] \in Mkdirs
    BY <1>1, <1>2, <2>1, Zenon
  <2> QED BY <2>2, Zenon DEF PoolInv
<1>5. CASE MakeSubdir(t, op)
  <2>1. CASE ~ subdir
    BY <1>1, <1>5, <2>1, Zenon DEF PoolInv, MakeSubdir, Go
  <2>2. CASE subdir
    BY <1>1, <1>5, <2>2, Zenon DEF PoolInv, MakeSubdir, Throw
  <2> QED BY <2>1, <2>2, Zenon
<1> QED BY <1>3, <1>4, <1>5, Zenon DEF InitPool

\* Once the file is initialized and nobody is remaking its directory, it is there,
\* for any number of threads that find the file not initialized at once.
THEOREM DirectoryReady ==
  NvmlSpec => []PoolReady
<1>1. ASSUME NvmlInit PROVE PoolInv
  <2>1. PICK n \in Populated : InitFile(n) /\ m_initialized = (n > 0)
    BY <1>1, Zenon DEF NvmlInit
  <2>2. DOMAIN pc = Threads
    BY <2>1, Zenon DEF InitFile
  <2>3. m_initialized => subdir
    BY <1>1, Zenon DEF NvmlInit
  <2> QED BY <2>2, <2>3, Zenon DEF PoolInv
<1>2. ASSUME PoolInv, [NvmlNext]_nvVars PROVE PoolInv'
  <2>1. ASSUME NEW t \in Threads, Call(t) \/ AllocWait(t) \/ Work(t),
               UNCHANGED poolVars \/ Throw
        PROVE  PoolInv'
    <3>1. /\ DOMAIN pc' = Threads
          /\ \A u \in Threads : pc[u] \in Mkdirs => pc'[u] = pc[u]
      BY <1>2, <2>1, MakersStay, Zenon DEF PoolInv
    <3>2. CASE UNCHANGED poolVars
      BY <1>2, <3>1, <3>2, Zenon DEF PoolInv, poolVars
    <3>3. CASE Throw
      BY <3>1, <3>3, Zenon DEF PoolInv, Throw
    <3> QED BY <2>1, <3>2, <3>3, Zenon
  <2>2. ASSUME NEW t \in Threads,
               \/ Running(Call(t) \/ ((pc[t] \in FetchPlaces => m_initialized) /\ AllocWait(t)))
               \/ nvml_put_data(t) \/ nvml_get_data(t) \/ nvml_allocate(t)
               \/ nvml_truncate(t) \/ nvml_setattr(t) \/ nvml_unload(t)
        PROVE  PoolInv'
    <3>1. DOMAIN Making = {"put", "get", "allocate", "extend"}
      BY DEF Making
    <3>2. CASE \E op \in DOMAIN Making : InitPool(t, op)
      BY <1>2, <3>2, InitPoolReady, Zenon
    <3>3. CASE InitLock(t)
      <4>1. pc' = [pc EXCEPT ![t] = "remove_put"] /\ pc[t] = "init_put" /\ UNCHANGED poolVars
        BY <3>3, Zenon DEF InitLock, Go, Removing
      <4>2. DOMAIN pc' = Threads /\ \A u \in Threads : pc[u] \in Mkdirs => pc'[u] = pc[u]
        BY <1>2, <4>1, Zenon DEF PoolInv, Mkdirs
      <4> QED BY <1>2, <4>1, <4>2, Zenon DEF PoolInv, poolVars
    <3>4. CASE ~ InitLock(t) /\ ~ \E op \in DOMAIN Making : InitPool(t, op)
      <4>1. (Call(t) \/ AllocWait(t) \/ Work(t)) /\ (UNCHANGED poolVars \/ Throw)
        BY <2>2, <3>1, <3>4, Zenon
        DEF Running, Fetching, nvml_put_data, nvml_get_data, nvml_allocate, nvml_truncate,
            nvml_setattr, nvml_unload, Work, put_data, get_data, allocate
      <4> QED BY <2>1, <4>1, Zenon
    <3> QED BY <3>2, <3>3, <3>4, Zenon
  <2>3. CASE UNCHANGED nvVars
    BY <1>2, <2>3, Zenon DEF PoolInv, nvVars, fileVars, poolVars
  <2> QED BY <1>2, <2>2, <2>3, Zenon DEF NvmlNext
<1>3. ASSUME PoolInv PROVE PoolReady
  <2>1. \A p \in Mkdirs : \E op \in DOMAIN Making : p = Making[op]
    BY DEF Mkdirs, Making
  <2> QED BY <1>3, <2>1, Zenon DEF PoolInv, PoolReady
<1> QED BY <1>1, <1>2, <1>3, PTL DEF NvmlSpec
=============================================================================
