------------------------------ MODULE FileData ------------------------------
(***************************************************************************)
(* A file's data (src/src/backends/nvram-devdax/file.cpp, segment.cpp):    *)
(* the segments that hold it, how they grow, are cut and refilled, and the *)
(* three locks under which FUSE workers read, write, allocate and truncate *)
(* it at the same time.                                                    *)
(*                                                                         *)
(* Offsets count cells, a fraction of a page.  tree is the map from cells  *)
(* to segments that m_segments stands for (module SegmentTree); a leaf is  *)
(* a maximal run of cells of one segment, known by its first cell.  The    *)
(* range lock is used through what it promises (module RangeExclusion).    *)
(***************************************************************************)
EXTENDS Integers, Sequences, FiniteSets

CONSTANTS
  Threads,
  Calls,       \* the calls a thread may make: [op, s, e]
  MaxCalls,    \* bound: calls per thread
  Alone,       \* the operations that run while no other call does
  FirstSeg,    \* the m_segment_size a file starts with
  MaxSeg,      \* segment::s_segment_size
  Top,         \* bound: cells of a file, more than is ever allocated
  Populated,   \* the sizes of files the constructor may load
  UIntRange    \* an unsigned holds 0 .. UIntRange - 1

\* A call is one of the operations of a file.
Operations == {"put", "get", "allocate", "truncate", "setattr", "unload"}
ASSUME CallsAssumption == \A c \in Calls : DOMAIN c = {"op", "s", "e"} /\ c.op \in Operations

VARIABLES
  file,        \* segments, their tree, and the sizes
  grants,      \* the ranges locked
  dealloc,     \* m_dealloc_mutex
  alloc,       \* m_alloc_mutex, where it is held across steps
  pc, call, left, regions, got,
  content,     \* what each cell may rightly hold
  failed       \* an assertion of the lookup did not hold

fileVars == <<file, grants, dealloc, alloc, pc, call, left, regions, got, content, failed>>

Range == [start : 0 .. Top, end : 0 .. Top, type : {"reader", "writer"}]
LockManager == INSTANCE RangeExclusion WITH Requests <- Range

Min2(x, y) == IF x < y THEN x ELSE y
Cells == 0 .. (Top - 1)
None == 0                      \* a null segment_ptr
Zero == <<"zero", 0, 0>>
Old == <<"old", 0, 0>>         \* what storage held before it was this file's
Gone == <<"gone", 0, 0>>       \* what an address yields whose storage was given back
Datum(t, k, c) == <<t, k, c>>  \* what the k-th call of t writes to cell c

align(n, block) == (n \div block) * block
xalign(n, block) == align(n + block, block)

-----------------------------------------------------------------------------
(***************************************************************************)
(* Segments and their tree.                                                *)
(***************************************************************************)
\* create_segment does not clear what it gets (the zero_fill is commented out).
Fresh(size) == [i \in 0 .. (size - 1) |-> Old]
NoStorage == [i \in {} |-> Zero]

segment(offset, size, is_gap) ==
  [offset |-> offset, size |-> size, is_gap |-> is_gap, bytes |-> 0,
   data |-> IF is_gap THEN NoStorage ELSE Fresh(size)]

\* insert_back and insert_front: from here to there the map is this segment.  A
\* range that is empty or the wrong way round changes nothing.
Put(tree, from, to, s) == [c \in Cells |-> IF from <= c /\ c < to THEN s ELSE tree[c]]

\* create_segment, then append_segments or insert_segments.
Create(F, offset, size, is_gap) ==
  IF size <= 0 THEN F
  ELSE [F EXCEPT !.seg = Append(F.seg, segment(offset, size, is_gap)),
                 !.tree = Put(F.tree, offset, offset + size, Len(F.seg) + 1)]

\* The leaf a cell is in, and the one after a leaf.
LeafOf(tree, c) ==
  CHOOSE k \in 0 .. c : /\ \A d \in k .. c : tree[d] = tree[c]
                        /\ k > 0 => tree[k - 1] # tree[c]
NextLeaf(tree, k) ==
  CHOOSE n \in (k + 1) .. (Top - 1) : tree[n] # tree[k] /\ \A d \in k .. (n - 1) : tree[d] = tree[k]

\* The one element of S.
The(S) == CHOOSE x \in S : TRUE

Region(s, from, len) == [seg |-> s, from |-> from, len |-> len]

\* The gap segment s gets storage from the segment boundary at or before start
\* on; what is left of the gap in front and behind becomes gaps of their own.

FillGap(F, s, start, req) ==
  LET S == F.seg[s]
      s_end == S.offset + S.size
      seg_offset == align(start, MaxSeg)
      seg_end == IF start + req < s_end THEN xalign(start + req, MaxSeg) ELSE s_end
      filled == [F EXCEPT !.seg[s] = [segment(seg_offset, seg_end - seg_offset, FALSE)
                                        EXCEPT !.bytes = S.bytes]]
      front == Create(filled, S.offset, seg_offset - S.offset, TRUE)
  IN  Create(front, seg_end, s_end - seg_end, TRUE)

\* lookup_helper: the regions of storage behind [start, end), one leaf at a time
\* from the leaf it on.  ok is the assertion that start is not the segment's end.
NextRegion(R, end, fill) ==
  LET F == R.F
      s == F.tree[R.it]
      S == F.seg[s]
      s_end == S.offset + S.size
      op_size == Min2(R.req, S.size - (R.start - S.offset))
      G == IF fill /\ S.is_gap THEN FillGap(F, s, R.start, R.req) ELSE F
      here == IF G.seg[s].is_gap THEN Region(None, 0, op_size)
              ELSE Region(s, R.start - G.seg[s].offset, op_size)
      Q == [R EXCEPT !.F = G, !.regions = Append(@, here),
                     !.ok = @ /\ R.start - S.offset # S.size]
  IN  IF R.done THEN R
      ELSE IF s = None \/ s_end >= end THEN [(IF s = None THEN R ELSE Q) EXCEPT !.done = TRUE]
      ELSE [Q EXCEPT !.it = NextLeaf(G.tree, R.it), !.start = s_end, !.req = @ - op_size]

NoRegions(F) == [F |-> F, regions |-> <<>>, ok |-> TRUE]

lookup_helper(F, start, end, fill) ==
  LET walk[k \in 0 .. Top] ==
        IF k = 0 THEN [F |-> F, regions |-> <<>>, ok |-> TRUE, it |-> LeafOf(F.tree, start),
                       start |-> start, req |-> end - start, done |-> FALSE]
        ELSE The({NextRegion(R, end, fill) : R \in {walk[k - 1]}})
  IN  IF start = end THEN NoRegions(F) ELSE walk[Top]

lookup_segments(F, start, end) == lookup_helper(F, start, end, TRUE)
lookup_data(F, start, end) == lookup_helper(F, start, Min2(end, F.used), FALSE)

\* fetch_storage: storage for [offset, offset + size), with new segments behind
\* the allocated part, and a gap before them if it starts far behind.

fetch_storage(F, offset, size) ==
  IF offset + size <= F.alloc THEN lookup_segments(F, offset, offset + size)
  ELSE
  LET R == IF offset < F.alloc THEN lookup_segments(F, offset, F.alloc)
           ELSE NoRegions(F)
      msize == Min2(F.segment_size * 2, MaxSeg)
      nso == IF offset <= F.alloc THEN F.alloc ELSE align(offset, msize)
      nss == xalign(offset + size, msize) - nso
      last == LeafOf(R.F.tree, Top - 1)
      C == Create(Create(R.F, F.alloc, nso - F.alloc, TRUE), nso, nss, FALSE)
      delta == IF offset <= F.alloc THEN 0 ELSE offset - nso
  IN  [F |-> [C EXCEPT !.alloc = nso + nss, !.segment_size = msize],
       regions |-> Append(R.regions, Region(Len(C.seg), delta, offset + size - nso)),
       ok |-> R.ok /\ last = F.alloc /\ R.F.tree[last] = None]

\* The cells of storage that n cells of data go to, one after the other, or come
\* from: a region takes no more than is left of the data.
Places(rs, n) ==
  LET upto[k \in 0 .. Len(rs)] ==
        IF k = 0 THEN <<>>
        ELSE LET before == upto[k - 1]
                 more == n - Len(before)
                 m == IF rs[k].len < 0 THEN more ELSE Min2(rs[k].len, more)
             IN  before \o [i \in 1 .. m |-> <<rs[k].seg, rs[k].from + i - 1>>]
  IN  upto[Len(rs)]

Total(rs) ==
  LET upto[k \in 0 .. Len(rs)] == IF k = 0 THEN 0 ELSE upto[k - 1] + rs[k].len
  IN  upto[Len(rs)]

Storage(F, p) == IF p[1] = None THEN Zero
                 ELSE IF p[2] \in DOMAIN F.seg[p[1]].data THEN F.seg[p[1]].data[p[2]] ELSE Gone
PlaceOf(F, c) ==
  LET s == F.tree[c] IN
  IF s = None \/ F.seg[s].is_gap THEN <<None, 0>> ELSE <<s, c - F.seg[s].offset>>

\* The data goes to its places in order: the last to come to a cell stays.
Store(F, places, data) ==
  LET To(s, i) == {k \in DOMAIN places : places[k] = <<s, i>>}
      Last(K) == CHOOSE k \in K : \A j \in K : j <= k
  IN  [F EXCEPT !.seg = [s \in DOMAIN @ |-> [@[s] EXCEPT !.data =
         [i \in DOMAIN @ |-> IF To(s, i) = {} THEN @[i] ELSE data[Last(To(s, i))]]]]]

\* The walk of truncate: the first segment in which the bytes counted so far
\* exceed the end is cut, the ones after it lose their storage.
\* (Slip: the segment that holds the end is dropped with the others.)
CutNext(R, end) ==
  LET F == R.F
      s == F.tree[R.it]
      S == F.seg[s]
      sum == R.size + (IF S.bytes # 0 THEN S.bytes ELSE S.size)
      G == IF sum <= end THEN F
           ELSE IF ~ R.cut THEN [F EXCEPT !.seg[s].bytes = sum - end]
           ELSE [F EXCEPT !.seg[s].is_gap = TRUE, !.seg[s].data = NoStorage]
  IN  IF s = None THEN R
      ELSE [F |-> G, it |-> NextLeaf(F.tree, R.it), size |-> sum, cut |-> R.cut \/ sum > end]
Drop(F, end, cut) ==
  LET walk[k \in 0 .. Top] ==
        IF k = 0 THEN [F |-> F, it |-> 0, size |-> 0, cut |-> cut]
        ELSE The({CutNext(R, end) : R \in {walk[k - 1]}})
  IN  walk[Top].F
SlipDropFirst(F, end) == Drop(F, end, TRUE)
CutAt(F, end) == Drop(F, end, FALSE)

-----------------------------------------------------------------------------
(***************************************************************************)
(* Calls.  An action takes a thread from one of the places below to the    *)
(* next; it runs under one lock at most, taken and released within it,     *)
(* unless the lock is a variable.                                          *)
(***************************************************************************)
NoCall == [op |-> "none", s |-> 0, e |-> 0]
NoResult == [vals |-> <<>>, want |-> 0]

\* A file as the constructor leaves it: empty, or with n cells loaded into one
\* segment, which fill_from pads with zeros.
Empty == [seg |-> <<>>, tree |-> [c \in Cells |-> None], alloc |-> 0, used |-> 0,
          st_size |-> 0, segment_size |-> FirstSeg]
Loaded(n) ==
  LET size == xalign(n, FirstSeg)
      S == [segment(0, size, FALSE) EXCEPT
              !.bytes = n,
              !.data = [i \in 0 .. (size - 1) |-> IF i < n THEN Datum("load", 0, i) ELSE Zero]]
  IN  [Empty EXCEPT !.seg = <<S>>, !.tree = Put(Empty.tree, 0, size, 1), !.alloc = size,
                    !.used = n, !.st_size = n]

InitFile(n) ==
  /\ file = IF n = 0 THEN Empty ELSE Loaded(n)
  /\ content = [c \in Cells |-> IF c < n THEN {Datum("load", 0, c)} ELSE {Zero, Old}]
  /\ grants = {}
  /\ dealloc = [shared |-> {}, exclusive |-> FALSE, waiting |-> FALSE]
  /\ alloc = [shared |-> {}, exclusive |-> FALSE, waiting |-> FALSE]
  /\ pc = [t \in Threads |-> "idle"]
  /\ call = [t \in Threads |-> NoCall]
  /\ left = [t \in Threads |-> MaxCalls]
  /\ regions = [t \in Threads |-> <<>>]
  /\ got = [t \in Threads |-> NoResult]
  /\ failed = FALSE

Go(t, place) == pc' = [pc EXCEPT ![t] = place]

Active(t) == pc[t] # "idle"
Call(t) ==
  /\ ~ Active(t) /\ left[t] > 0
  /\ \E c \in Calls :
       /\ \A u \in Threads : Active(u) => call[u].op \notin Alone
       /\ c.op \in Alone => \A u \in Threads : ~ Active(u)
       /\ call' = [call EXCEPT ![t] = c]
       /\ Go(t, c.op)
  /\ left' = [left EXCEPT ![t] = @ - 1]
  /\ UNCHANGED <<file, grants, dealloc, alloc, regions, got, content, failed>>

Return(t) ==
  /\ Go(t, "idle")
  /\ call' = [call EXCEPT ![t] = NoCall]
  /\ regions' = [regions EXCEPT ![t] = <<>>]
  /\ got' = [got EXCEPT ![t] = NoResult]

-----------------------------------------------------------------------------
(***************************************************************************)
(* The locks.  boost::shared_mutex keeps new shared holders out while an   *)
(* exclusive one waits.                                                    *)
(***************************************************************************)
\* (Slip: an exclusive holder does not keep shared ones out.)
SlipSharedAnyway(t) == dealloc' = [dealloc EXCEPT !.shared = @ \cup {t}]
SharedDealloc(t) ==
  /\ t \in dealloc.shared \/ (~ dealloc.exclusive /\ ~ dealloc.waiting)
  /\ dealloc' = [dealloc EXCEPT !.shared = @ \cup {t}]

UnsharedDealloc(t) ==
  dealloc' = [dealloc EXCEPT !.shared = @ \ {t},
                             !.waiting = @ /\ dealloc.shared # {t}]

\* m_alloc_mutex, when it is held for the length of an action.
AllocHeld == alloc.shared # {} \/ alloc.exclusive
AllocClosed == alloc.exclusive \/ alloc.waiting
ExclusiveAlloc == ~ AllocHeld /\ alloc' = [alloc EXCEPT !.waiting = FALSE]
SharedAlloc == ~ AllocClosed /\ UNCHANGED alloc
FetchPlaces == {"put", "allocate", "extend"}
AllocPlaces == FetchPlaces \cup {"init_put", "grow", "resize", "truncate_set", "save"}
\* Who waits for it to fetch storage has m_dealloc_mutex by then.
AllocWait(t) ==
  /\ pc[t] \in AllocPlaces
  /\ AllocHeld
  /\ ~ alloc.waiting \/ (pc[t] \in FetchPlaces /\ t \notin dealloc.shared)
  /\ IF pc[t] \in FetchPlaces THEN SharedDealloc(t) ELSE UNCHANGED dealloc
  /\ alloc' = [alloc EXCEPT !.waiting = TRUE]
  /\ UNCHANGED <<file, grants, pc, call, left, regions, got, content, failed>>

lock_range(t, start, end, type) ==
  LockManager!Grant(t, [start |-> start, end |-> end, type |-> type])
unlock_range(t) == \E g \in grants : g[1] = t /\ LockManager!Revoke(g)

update_size(size) ==
  /\ ExclusiveAlloc
  /\ file' = IF file.st_size < size THEN [file EXCEPT !.used = size, !.st_size = size]
             ELSE file

-----------------------------------------------------------------------------
(***************************************************************************)
(* put_data.  Storage first, under m_alloc_mutex, then the range, then the *)
(* copy to the addresses found before.                                     *)
(***************************************************************************)
FetchFor(t, offset, end, next) ==
  /\ SharedDealloc(t)
  /\ ExclusiveAlloc
  /\ LET R == fetch_storage(file, offset, end - offset) IN
       /\ file' = R.F
       /\ regions' = [regions EXCEPT ![t] = R.regions]
       /\ failed' = (failed \/ ~ R.ok)
  /\ Go(t, next)
  /\ UNCHANGED <<grants, call, left, got, content>>

PutFetch(t) == pc[t] = "put" /\ FetchFor(t, call[t].s, call[t].e, "put_lock")

\* (Slip: the range is locked for reading.)
SlipReadLock(t) ==
  /\ pc[t] = "put_lock"
  /\ lock_range(t, call[t].s, call[t].e, "reader")
  /\ Go(t, "put_copy")
  /\ UNCHANGED <<file, dealloc, alloc, call, left, regions, got, content, failed>>
PutLock(t) ==
  /\ pc[t] = "put_lock"
  /\ lock_range(t, call[t].s, call[t].e, "writer")
  /\ Go(t, "put_copy")
  /\ UNCHANGED <<file, dealloc, alloc, call, left, regions, got, content, failed>>

PutCopy(t) ==
  LET n == call[t].e - call[t].s
      data == [i \in 1 .. n |-> Datum(t, left[t], call[t].s + i - 1)]
  IN  /\ pc[t] = "put_copy"
      /\ file' = Store(file, Places(regions[t], n), data)
      /\ content' = [c \in Cells |-> IF call[t].s <= c /\ c < call[t].e
                                      THEN {Datum(t, left[t], c)} ELSE content[c]]
      /\ Go(t, "grow")
      /\ UNCHANGED <<grants, dealloc, alloc, call, left, regions, got, failed>>

PutSize(t) ==
  /\ pc[t] = "grow"
  /\ update_size(call[t].e)
  /\ Go(t, "put_unlock")
  /\ UNCHANGED <<grants, dealloc, call, left, regions, got, content, failed>>

PutUnlock(t) ==
  /\ pc[t] = "put_unlock"
  /\ unlock_range(t) /\ UnsharedDealloc(t)
  /\ Return(t)
  /\ UNCHANGED <<file, alloc, left, content, failed>>

-----------------------------------------------------------------------------
(***************************************************************************)
(* get_data.                                                               *)
(***************************************************************************)
GetLock(t) ==
  /\ pc[t] = "get"
  /\ lock_range(t, call[t].s, call[t].e, "reader")
  /\ Go(t, "get_lookup")
  /\ UNCHANGED <<file, dealloc, alloc, call, left, regions, got, content, failed>>

\* want is what the file has of the range.
Lookup(t, start, end, next) ==
  /\ SharedAlloc
  /\ LET R == lookup_data(file, start, end) IN
       /\ regions' = [regions EXCEPT ![t] = R.regions]
       /\ failed' = (failed \/ ~ R.ok)
  /\ got' = [got EXCEPT ![t].want = IF start < file.used THEN Min2(end, file.used) - start ELSE 0]
  /\ Go(t, next)
GetLookup(t) ==
  /\ pc[t] = "get_lookup"
  /\ Lookup(t, call[t].s, call[t].e, "get_copy")
  /\ UNCHANGED <<file, grants, dealloc, call, left, content>>

\* What is copied out.  A read that starts behind the end of a file with storage
\* there asks for a negative amount of memory and fails with ENOMEM.
Copied(t) == LET ps == Places(regions[t], Total(regions[t])) IN
             [i \in 1 .. Len(ps) |-> Storage(file, ps[i])]
GetCopy(t) ==
  /\ pc[t] = "get_copy"
  /\ got' = [got EXCEPT ![t].vals = Copied(t)]
  /\ Go(t, "get_unlock")
  /\ UNCHANGED <<file, grants, dealloc, alloc, call, left, regions, content, failed>>

\* (Slip: the range stays locked.)
SlipRangeStays(t) ==
  /\ pc[t] = "get_unlock"
  /\ Return(t)
  /\ UNCHANGED <<file, grants, dealloc, alloc, left, content, failed>>

GetUnlock(t) ==
  /\ pc[t] = "get_unlock"
  /\ unlock_range(t)
  /\ Return(t)
  /\ UNCHANGED <<file, dealloc, alloc, left, content, failed>>

-----------------------------------------------------------------------------
(***************************************************************************)
(* allocate, and truncate, which allocates from 0 when the file grows.     *)
(***************************************************************************)
Allocate(t) ==
  \/ pc[t] = "allocate" /\ FetchFor(t, call[t].s, call[t].e, "resize")
  \/ pc[t] = "extend" /\ FetchFor(t, 0, call[t].e, "resize")

AllocateSize(t) ==
  /\ pc[t] = "resize"
  /\ update_size(call[t].e)
  /\ Go(t, "allocate_unlock")
  /\ UNCHANGED <<grants, dealloc, call, left, regions, got, content, failed>>

AllocateUnlock(t) ==
  /\ pc[t] = "allocate_unlock"
  /\ UnsharedDealloc(t)
  /\ Return(t)
  /\ UNCHANGED <<file, grants, alloc, left, content, failed>>

TruncateTest(t) ==
  /\ pc[t] = "truncate"
  /\ SharedAlloc
  /\ Go(t, IF call[t].e % UIntRange > file.st_size % UIntRange THEN "extend" ELSE "truncate_lock")
  /\ UNCHANGED <<file, grants, dealloc, call, left, regions, got, content, failed>>

TruncateLock(t) ==
  /\ pc[t] = "truncate_lock"
  /\ IF dealloc.shared = {} /\ ~ dealloc.exclusive
       THEN /\ dealloc' = [dealloc EXCEPT !.exclusive = TRUE]
            /\ Go(t, "truncate_range")
       ELSE /\ ~ dealloc.waiting
            /\ dealloc' = [dealloc EXCEPT !.waiting = TRUE]
            /\ UNCHANGED pc
  /\ UNCHANGED <<file, grants, alloc, call, left, regions, got, content, failed>>

TruncateRange(t) ==
  /\ pc[t] = "truncate_range"
  /\ SharedAlloc
  /\ lock_range(t, call[t].e, file.st_size, "writer")
  /\ Go(t, "truncate_cut")
  /\ UNCHANGED <<file, dealloc, call, left, regions, got, content, failed>>

TruncateCut(t) ==
  /\ pc[t] = "truncate_cut"
  /\ file' = CutAt(file, call[t].e)
  /\ Go(t, "truncate_set")
  /\ UNCHANGED <<grants, dealloc, alloc, call, left, regions, got, content, failed>>

\* The bytes beyond the end are gone, or turn up again when the file grows.
TruncateSet(t) ==
  /\ pc[t] = "truncate_set"
  /\ ExclusiveAlloc
  /\ file' = [file EXCEPT !.used = call[t].e, !.st_size = call[t].e]
  /\ content' = [c \in Cells |-> IF c < call[t].e THEN content[c] ELSE content[c] \cup {Zero, Old}]
  /\ Go(t, "truncate_unlock")
  /\ UNCHANGED <<grants, dealloc, call, left, regions, got, failed>>

TruncateUnlock(t) ==
  /\ pc[t] = "truncate_unlock"
  /\ unlock_range(t)
  /\ dealloc' = [dealloc EXCEPT !.exclusive = FALSE, !.waiting = FALSE]
  /\ Return(t)
  /\ UNCHANGED <<file, alloc, left, content, failed>>

-----------------------------------------------------------------------------
(***************************************************************************)
(* Attributes are changed by copying them out (stat), editing the copy and *)
(* copying it back, st_size included (save_attributes).                    *)
(***************************************************************************)
stat(t) ==
  /\ pc[t] = "setattr"
  /\ SharedAlloc
  /\ got' = [got EXCEPT ![t].want = file.st_size]
  /\ Go(t, "save")
  /\ UNCHANGED <<file, grants, dealloc, call, left, regions, content, failed>>

save_attributes(t) ==
  /\ pc[t] = "save"
  /\ ExclusiveAlloc
  /\ file' = [file EXCEPT !.st_size = got[t].want]
  /\ Return(t)
  /\ UNCHANGED <<grants, dealloc, left, content, failed>>

-----------------------------------------------------------------------------
(***************************************************************************)
(* unload, which copies the file out.  It holds m_alloc_mutex shared while *)
(* size() takes it shared once more.                                       *)
(***************************************************************************)
UnloadSize(t) ==
  /\ pc[t] = "unload"
  /\ SharedAlloc
  /\ call' = [call EXCEPT ![t].e = file.st_size]
  /\ Go(t, "unload_range")
  /\ UNCHANGED <<file, grants, dealloc, left, regions, got, content, failed>>

UnloadRange(t) ==
  /\ pc[t] = "unload_range"
  /\ lock_range(t, 0, call[t].e, "reader")
  /\ Go(t, "unload_hold")
  /\ UNCHANGED <<file, dealloc, alloc, call, left, regions, got, content, failed>>

UnloadHold(t) ==
  /\ pc[t] = "unload_hold"
  /\ ~ AllocClosed
  /\ alloc' = [alloc EXCEPT !.shared = @ \cup {t}]
  /\ Go(t, "unload_lookup")
  /\ UNCHANGED <<file, grants, dealloc, call, left, regions, got, content, failed>>

UnloadLookup(t) ==
  /\ pc[t] = "unload_lookup"
  /\ Lookup(t, 0, file.st_size, "unload_release")
  /\ UNCHANGED <<file, grants, dealloc, call, left, content>>

UnloadRelease(t) ==
  /\ pc[t] = "unload_release"
  /\ alloc' = [alloc EXCEPT !.shared = @ \ {t}, !.waiting = @ /\ alloc.shared # {t}]
  /\ Go(t, "unload_copy")
  /\ UNCHANGED <<file, grants, dealloc, call, left, regions, got, content, failed>>

\* A gap is written out from address 0: the stream breaks there (or the process
\* does), and nothing after it is written.
UnloadCopy(t) ==
  LET gaps == {i \in DOMAIN regions[t] : regions[t][i].seg = None}
      whole == SubSeq(regions[t], 1, (CHOOSE i \in 1 .. (Len(regions[t]) + 1) :
                  /\ i \notin DOMAIN regions[t] \ gaps
                  /\ \A j \in 1 .. (i - 1) : j \in DOMAIN regions[t] \ gaps) - 1)
      ps == Places(whole, Total(whole))
  IN  /\ pc[t] = "unload_copy"
      /\ got' = [got EXCEPT ![t].vals = [i \in 1 .. Len(ps) |-> Storage(file, ps[i])],
                            ![t].want = IF gaps = {} THEN @ ELSE Len(ps)]
      /\ Go(t, "get_unlock")
      /\ UNCHANGED <<file, grants, dealloc, alloc, call, left, regions, content, failed>>

-----------------------------------------------------------------------------
put_data(t) == PutFetch(t) \/ PutLock(t) \/ PutCopy(t) \/ PutSize(t) \/ PutUnlock(t)
get_data(t) == GetLock(t) \/ GetLookup(t) \/ GetCopy(t) \/ GetUnlock(t)
allocate(t) == Allocate(t) \/ AllocateSize(t) \/ AllocateUnlock(t)
truncate(t) == \/ TruncateTest(t) \/ TruncateLock(t) \/ TruncateRange(t) \/ TruncateCut(t)
               \/ TruncateSet(t) \/ TruncateUnlock(t)
setattr(t) == stat(t) \/ save_attributes(t)
unload(t) == \/ UnloadSize(t) \/ UnloadRange(t) \/ UnloadHold(t) \/ UnloadLookup(t)
             \/ UnloadRelease(t) \/ UnloadCopy(t)

Work(t) ==
  put_data(t) \/ get_data(t) \/ allocate(t) \/ truncate(t) \/ setattr(t) \/ unload(t)

Quiet == \A t \in Threads : ~ Active(t) /\ left[t] = 0
\* An unload that has m_alloc_mutex shared asks for it once more, and a writer has
\* asked in between: each waits for the other, for ever.
Stalled == \E t \in Threads : pc[t] = "unload_lookup" /\ alloc.waiting

Init == \E n \in Populated : InitFile(n)
Next == \/ \E t \in Threads : Call(t) \/ AllocWait(t) \/ Work(t)
        \/ (Quiet \/ Stalled) /\ UNCHANGED fileVars
Spec == Init /\ [][Next]_fileVars

-----------------------------------------------------------------------------
(***************************************************************************)
(* Properties.                                                             *)
(***************************************************************************)
Copying(t) == pc[t] \in {"put_copy", "get_copy", "unload_copy"}
\* The places behind the range that t has locked.
Touches(t) ==
  LET n == IF pc[t] = "get_copy" THEN Total(regions[t])
           ELSE IF pc[t] = "put_copy" THEN call[t].e - call[t].s
           ELSE Min2(call[t].e, Total(regions[t]))
      ps == Places(regions[t], n)
  IN  {ps[i] : i \in DOMAIN ps}

\* A thread that is about to copy has addresses of storage that is still there
\* and still the file's storage for the range it locked, and no other thread is
\* about to copy to the same bytes: put_data looks its addresses up before it
\* has the range, and relies on m_dealloc_mutex against truncate in between.
\* (unload locks what it saw of the size and copies what it sees later: of the
\* bytes behind its range this says nothing.)
NothingVanishes ==
  \A t \in Threads : Copying(t) =>
    /\ \A p \in Touches(t) : p[1] # None => p[2] \in DOMAIN file.seg[p[1]].data
    /\ pc[t] = "put_copy" =>
         LET ps == Places(regions[t], call[t].e - call[t].s) IN
         /\ Len(ps) = call[t].e - call[t].s
         /\ \A i \in DOMAIN ps : ps[i] = PlaceOf(file, call[t].s + i - 1) /\ ps[i][1] # None
    /\ \A u \in Threads \ {t} :
         pc[t] = "put_copy" /\ Copying(u) => Touches(t) \cap (Touches(u) \ {<<None, 0>>}) = {}

\* The segments tile the allocated part of the file: every leaf of the tree is
\* exactly the range of its segment, which has storage for all of it or is a
\* gap; the file ends within it, and its two notions of its size agree.
Tiled ==
  /\ file.used <= file.alloc /\ file.used = file.st_size
  /\ \A c \in Cells :
       /\ (file.tree[c] = None) <=> (c >= file.alloc)
       /\ file.tree[c] # None =>
            LET S == file.seg[file.tree[c]]
                leaf == {d \in Cells : file.tree[d] = file.tree[c]}
            IN  /\ leaf = S.offset .. (S.offset + S.size - 1)
                /\ DOMAIN S.data = IF S.is_gap THEN {} ELSE 0 .. (S.size - 1)

\* In a file with one segment size (a segment-size of 4 KiB), the storage of every
\* byte that is not locked for writing holds what was last written there (or,
\* where the file was cut and has grown again, what was there before), whatever
\* gaps, cuts and refills its segments went through; and the segments are Tiled.
\* With sizes that double from call to call it does not hold (file.cpp:280).
WriteLocked(c) == \E g \in grants : g[2].type = "writer" /\ g[2].start <= c /\ c < g[2].end
Stored ==
  FirstSeg = MaxSeg =>
    Tiled /\ \A c \in Cells :
      c < file.used /\ ~ WriteLocked(c) => Storage(file, PlaceOf(file, c)) \in content[c]

\* What get_data and unload hand out is all the file had of the range when they
\* looked, and in the range they have locked byte for byte what was last written.
ReadsLatest ==
  \A t \in Threads : pc[t] = "get_unlock" =>
    /\ Len(got[t].vals) = got[t].want
    /\ \A i \in DOMAIN got[t].vals :
         call[t].s + i <= call[t].e => got[t].vals[i] \in content[call[t].s + i - 1]

\* The walk over the segments never comes back to a segment it is done with:
\* "this should be guaranteed by search_tree", says the assertion.
LookupAsserts == ~ failed

\* What a thread waits for.
RangeBusy(t, start, end, type) ==
  \E g \in grants : LockManager!Conflict(g[2], [start |-> start, end |-> end, type |-> type])
Blocked(t) ==
  LET at == pc[t] IN
  \/ at \in FetchPlaces /\ t \notin dealloc.shared /\ (dealloc.exclusive \/ dealloc.waiting)
  \/ at \in AllocPlaces /\ AllocHeld
  \/ at \in {"get_lookup", "truncate", "truncate_range", "setattr", "unload", "unload_hold",
            "unload_lookup"} /\ AllocClosed
  \/ at = "truncate_lock" /\ (dealloc.shared # {} \/ dealloc.exclusive)
  \/ at = "put_lock" /\ RangeBusy(t, call[t].s, call[t].e, "writer")
  \/ at = "get" /\ RangeBusy(t, call[t].s, call[t].e, "reader")
  \/ at = "truncate_range" /\ RangeBusy(t, call[t].e, file.st_size, "writer")
  \/ at = "unload_range" /\ RangeBusy(t, 0, call[t].e, "reader")

\* Never does everyone wait for everyone, writers for a waiting truncate, it for
\* the writers before it, and all of them for ranges, but in one way: an unload
\* that is Stalled between its two requests for m_alloc_mutex.
SomeoneRuns ==
  (\E t \in Threads : Active(t)) => Stalled \/ \E t \in Threads : Active(t) /\ ~ Blocked(t)
=============================================================================
