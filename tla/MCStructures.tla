---------------------------- MODULE MCStructures ----------------------------
(***************************************************************************)
(* The sequential parts of the program in one model, each started by       *)
(* itself: the AVL tree and the loops of the range-lock manager over it,   *)
(* the segment tree of a file, the copy between buffers, the allocator of  *)
(* the device, the filling of a segment, and the settings.  `part` says    *)
(* which of them runs.                                                     *)
(*                                                                         *)
(* Twelve keys reach an AVL tree of height five, where a removal rebalances*)
(* more than once.  Three handles on four bytes reach a walk that meets a  *)
(* cut range, a gap, a whole range and a rest, and proxies that three      *)
(* readers share.  Six keys of the segment tree have room for a range that *)
(* swallows a segment and cuts two.  Vectors of two buffers with           *)
(* descriptors that fall short have every order of running out.            *)
(***************************************************************************)
EXTENDS MCSettings

CONSTANTS Parts,                      \* the parts to start
          N,                          \* keys of the AVL tree
          Slots, MaxOffset,           \* handles, and the bytes they range over
          MaxKey, Values, InitVal,    \* of the segment tree
          MaxBuffer, Chunk,           \* of the copy
          Segments, Sizes, m_length, m_size_of_segment, NVML_MAPPINGS,
          SourceSizes, SegmentSize, NVML_TRANSFER_SIZE

VARIABLES part,
          t, members,
          tree, held, live, loc, slot, prev, next, len, expected,
          segments, map,
          srcv, dstv, copied, at, size, done, res, via, tmp, lost, out, short,
          m_init, m_address, m_offset, m_bitset, making, m_data, terminated,
          source, is_pmem, memory, total, filling, undrained

avlVars == <<t, members>>
walkVars == <<tree, held, live, loc, slot, prev, next, len, expected>>
treeVars == <<segments, map>>
copyVars == <<srcv, dstv, copied, at, size, done, res, via, tmp, lost, out, short>>
poolVars == <<m_init, m_address, m_offset, m_bitset, making, m_data, terminated>>
fillVars == <<source, is_pmem, memory, total, filling, undrained>>

ASSUME BoundsArePositive ==
  /\ N \in Nat \ {0} /\ Chunk \in Nat \ {0} /\ m_size_of_segment \in Nat \ {0}
  /\ Sizes \subseteq Nat /\ m_length \in Nat /\ NVML_MAPPINGS \in Nat
  /\ SegmentSize \in Nat /\ NVML_TRANSFER_SIZE \in Nat \ {0}
  /\ SourceSizes \subseteq 0 .. SegmentSize  \* the file does not grow after fstat

\* Any reader, and two writers that overlap: a writer's call has no loop.
MCRequests ==
  {q \in [start : 0 .. MaxOffset, end : 0 .. MaxOffset, type : {"reader"}] : q.start < q.end}
    \cup [start : {1, 2}, end : {3}, type : {"writer"}]

Memory(n) == [size |-> n, fd |-> FALSE, retry |-> FALSE]
Descriptor(n, retry) == [size |-> n, fd |-> TRUE, retry |-> retry]
Buffers == {Memory(n) : n \in {0, 2, MaxBuffer}}
             \cup {Descriptor(n, retry) : n \in {0, MaxBuffer}, retry \in BOOLEAN}
Vectors == {<<>>} \cup {<<a>> : a \in Buffers} \cup {<<a, b>> : a \in Buffers, b \in Buffers}

\* Segments differ in nothing but their names.
Alike == Permutations(Segments)

A == INSTANCE Avl
W == INSTANCE RangeWalk WITH Requests <- MCRequests
T == INSTANCE SegmentTree WITH tree <- segments
C == INSTANCE BufCopy WITH Sources <- Vectors, Dests <- Vectors, len <- size, part <- done
P == INSTANCE BigPool
F == INSTANCE SegmentFill

\* A part that does not run is off.
Begin ==
  /\ part \in Parts
  /\ IF part = "avl" THEN A!Init ELSE t = "off" /\ members = "off"
  /\ IF part = "walk" THEN W!Init
     ELSE /\ tree = "off" /\ held = "off" /\ live = "off" /\ loc = "off" /\ slot = "off"
          /\ prev = "off" /\ next = "off" /\ len = "off" /\ expected = "off"
  /\ IF part = "tree" THEN T!Init ELSE segments = "off" /\ map = "off"
  /\ IF part = "copy" THEN C!Init
     ELSE /\ srcv = "off" /\ dstv = "off" /\ copied = "off" /\ at = "off" /\ size = "off"
          /\ done = "off" /\ res = "off" /\ via = "off" /\ tmp = "off" /\ out = "off"
          /\ lost = "off" /\ short = "off"
  /\ IF part = "pool" THEN P!Init
     ELSE /\ m_init = "off" /\ m_address = "off" /\ m_offset = "off" /\ m_bitset = "off"
          /\ making = "off" /\ m_data = "off" /\ terminated = "off"
  /\ IF part = "fill" THEN F!Init
     ELSE /\ source = "off" /\ is_pmem = "off" /\ memory = "off" /\ total = "off"
          /\ filling = "off" /\ undrained = "off"
  /\ IF part = "settings" THEN Init
     ELSE m = "off" /\ phase = "off" /\ given = "off" /\ options = "off" /\ created = "off"

Step ==
  /\ UNCHANGED part
  /\ \/ /\ part = "avl" /\ A!Next
        /\ UNCHANGED <<walkVars, treeVars, copyVars, poolVars, fillVars, settingsVars>>
     \/ /\ part = "walk" /\ W!Next
        /\ UNCHANGED <<avlVars, treeVars, copyVars, poolVars, fillVars, settingsVars>>
     \/ /\ part = "tree" /\ T!Next
        /\ UNCHANGED <<avlVars, walkVars, copyVars, poolVars, fillVars, settingsVars>>
     \/ /\ part = "copy" /\ C!Next
        /\ UNCHANGED <<avlVars, walkVars, treeVars, poolVars, fillVars, settingsVars>>
     \/ /\ part = "pool" /\ P!Next
        /\ UNCHANGED <<avlVars, walkVars, treeVars, copyVars, fillVars, settingsVars>>
     \/ /\ part = "fill" /\ F!Next
        /\ UNCHANGED <<avlVars, walkVars, treeVars, copyVars, poolVars, settingsVars>>
     \/ /\ part = "settings" /\ Next
        /\ UNCHANGED <<avlVars, walkVars, treeVars, copyVars, poolVars, fillVars>>

StructuresSpec ==
  Begin /\ [][Step]_<<part, avlVars, walkVars, treeVars, copyVars, poolVars, fillVars, settingsVars>>

-----------------------------------------------------------------------------
\* The AVL tree of avl.hpp is ordered, balanced and linked both ways, and holds
\* what was added and not removed.
WellFormed ==
  part = "avl" => A!TypeOK /\ A!HoldsMembers /\ A!Balanced /\ A!Linked

\* find, next, prev and nearest of avl.hpp see a sorted set.
LooksLikeASet == part = "avl" => A!LooksLikeASet

\* The destructor of avl.hpp deletes every node once, after its children.
DestroysAll == part = "avl" => A!DestroysAll

\* The loops of range_lock.cpp leave the nodes that RangeTree defines, which is
\* what RangeLock takes a call for.
WalksAgree == part = "walk" => W!WalksAgree

\* The assertions inside those loops, and the one of insert_at, hold.
WalkAsserts == part = "walk" => W!WalkAsserts /\ W!InsertsAtLeaf

\* The leaves of flat_segment_tree stand for the map that the insertions and
\* shifts define key by key, and the iterators visit each of them once.
Denotes == part = "tree" => T!Denotes /\ T!IteratorsVisitAll

\* Its searches, by list, from a hint and down the tree, agree, and build_tree
\* reserves exactly the nodes it takes for that tree.
SearchesAgree == part = "tree" => T!SearchesAgree /\ T!PoolSuffices

\* fuse_buf_copy_pmem returns the length of the prefix that it copied, and fill_from
\* leaves the file followed by zeroes, however the system calls fall short.
CopyExact == (part = "copy" => C!CopyExact) /\ (part = "fill" => F!FillExact)

\* No two segments of the device have a slot in common, and those of whole slots no
\* byte.
NoOverlap == part = "pool" => P!NoOverlap

\* big_pool::allocate: "We reserve all of them": the slots of a segment in use
\* are marked.
Reserved == part = "pool" => P!Reserved

\* A read error while a segment is filled writes nothing outside of it.
StaysInside == part = "fill" => F!StaysInside
=============================================================================
