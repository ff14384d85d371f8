------------------------------- MODULE BigPool -------------------------------
(***************************************************************************)
(* The allocator of the devdax backend: a mapping of the device, cut in    *)
(* slots of s_segment_size bytes, and a bitset of the slots in use         *)
(* (big_pool, pool and segment in src/src/backends/nvram-devdax/).         *)
(*                                                                         *)
(* The constructor of a segment's pool tests m_init without the mutex, so  *)
(* several first segments may each map the device, while others allocate.  *)
(* init() resets m_offset in front of m_allocate_mutex; the rest of it,    *)
(* allocate and deallocate run under the mutex and are one step each.      *)
(*                                                                         *)
(* A mapping is named by the segment that made it, and an address is a     *)
(* mapping and an offset into it: all mappings show the same device.       *)
(***************************************************************************)
EXTENDS Integers

CONSTANTS
  Segments,           \* the segments that files make
  Sizes,              \* the sizes they ask for
  m_length,           \* of the device
  m_size_of_segment,  \* s_segment_size
  NVML_MAPPINGS       \* the bits of m_bitset

VARIABLES
  m_init, m_address,
  m_offset, m_bitset,
  making,             \* where the constructor of every segment is
  m_data,             \* where every segment is, and its length
  terminated          \* an exception left a destructor

vars == <<m_init, m_address, m_offset, m_bitset, making, m_data, terminated>>

NULL == -1
OUT_OF_RANGE == -2    \* std::bitset throws
MAP_FAILED == -1
NoAddress == [map |-> NULL, at |-> NULL, length |-> 0]

\* big_pool(): the bits are clear, and the device is not mapped yet.
Init ==
  /\ m_init = FALSE /\ m_address = NULL /\ m_offset = 0 /\ m_bitset = {}
  /\ making = [s \in Segments |-> "none"]
  /\ m_data = [s \in Segments |-> NoAddress] /\ terminated = FALSE

-----------------------------------------------------------------------------
\* pool::pool looks whether the device is mapped.
pool(s) ==
  /\ making[s] = "none"
  /\ making' = [making EXCEPT ![s] = IF m_init THEN "made" ELSE "init"]
  /\ UNCHANGED <<m_init, m_address, m_offset, m_bitset, m_data, terminated>>

\* init() in front of its mutex.
init(s) ==
  /\ making[s] = "init" /\ making' = [making EXCEPT ![s] = "map"] /\ m_offset' = 0
  /\ UNCHANGED <<m_init, m_address, m_bitset, m_data, terminated>>

\* init() under it: what open and mmap return is not looked at, an earlier mapping
\* stays, and so do the bits.
map(s) ==
  /\ making[s] = "map" /\ making' = [making EXCEPT ![s] = "made"]
  /\ m_address' \in {s, MAP_FAILED} /\ m_init' = TRUE
  /\ UNCHANGED <<m_offset, m_bitset, m_data, terminated>>

-----------------------------------------------------------------------------
m_NVML_MAPPINGS == m_length \div m_size_of_segment
SlotsFrom(start, n) == start .. start + n - 1
Fits(start, n) == n + start < m_NVML_MAPPINGS
Free(start, n) == SlotsFrom(start, n) \cap m_bitset = {}
FirstTaken(start, n) == CHOOSE i \in SlotsFrom(start, n) \cap m_bitset :
                          \A k \in SlotsFrom(start, n) \cap m_bitset : i <= k

\* The bits of free slots are tested one by one, and one behind the last bit throws.
Tested(start, n) ==
  IF SlotsFrom(start, n) \subseteq 0 .. NVML_MAPPINGS - 1 THEN start ELSE OUT_OF_RANGE

\* The search from the first slot, from slot j on: a slot in use at i sends it to
\* i + 2, because the loop steps on from i + 1.
scan(n) ==
  LET from[j \in 0 .. m_NVML_MAPPINGS + 1] ==
        IF j >= m_NVML_MAPPINGS \/ ~ Fits(j, n) THEN NULL
        ELSE IF Free(j, n) THEN Tested(j, n) ELSE from[FirstTaken(j, n) + 2]
  IN  from[0]

\* Slip: a place is taken when its first slot is free.
SlipFirstFree(n) ==
  IF Fits(m_offset, n) /\ m_offset \notin m_bitset THEN Tested(m_offset, n) ELSE scan(n)

\* Where a segment of n slots goes: where the last one ended, or the search.
place(n) == IF Fits(m_offset, n) /\ Free(m_offset, n) THEN Tested(m_offset, n) ELSE scan(n)

\* Where the next search begins: one slot is left out behind the segment.
next_offset(start, n) ==
  LET behind == IF start = NULL THEN m_offset ELSE n + start + 1
  IN  IF behind # 0 /\ (behind - 1) * m_size_of_segment >= m_length THEN 0 ELSE behind

slots(size) == size \div m_size_of_segment

\* pool::allocate of a new segment or of one whose gap is filled.
allocate(s, size) ==
  /\ making[s] = "made" /\ m_data[s] = NoAddress
  /\ LET n == slots(size)
         start == place(n)
     IN /\ start # OUT_OF_RANGE
        /\ m_data' = [m_data EXCEPT ![s] =
             IF start = NULL THEN NoAddress
             ELSE [map |-> m_address, at |-> start * m_size_of_segment, length |-> size]]
        /\ m_bitset' = IF start = NULL THEN m_bitset ELSE m_bitset \cup SlotsFrom(start, n)
        /\ m_offset' = next_offset(start, n)
  /\ UNCHANGED <<m_init, m_address, making, terminated>>

\* The bitset throws: a constructor takes the segment down, a gap stays one.
out_of_range(s, size) ==
  /\ making[s] = "made" /\ m_data[s] = NoAddress /\ place(slots(size)) = OUT_OF_RANGE
  /\ \E then \in {"none", "made"} : making' = [making EXCEPT ![s] = then]
  /\ UNCHANGED <<m_init, m_address, m_offset, m_bitset, m_data, terminated>>

\* ~pool.  The distance from m_address to a segment of an earlier mapping is more
\* than the device: bits that no slot has are reset, or the bitset throws, which ends
\* the program because a destructor does.
deallocate(s) ==
  /\ making[s] = "made"
  /\ \/ /\ m_data[s] = NoAddress /\ UNCHANGED <<m_bitset, terminated>>
     \/ /\ m_data[s] # NoAddress /\ m_data[s].map = m_address
        /\ m_bitset' = m_bitset \ {(m_data[s].at + i * m_size_of_segment) \div m_size_of_segment :
                                    i \in 0 .. slots(m_data[s].length) - 1}
        /\ UNCHANGED terminated
     \/ /\ m_data[s] # NoAddress /\ m_data[s].map # m_address
        /\ terminated' \in {FALSE, slots(m_data[s].length) # 0} /\ UNCHANGED m_bitset
  /\ making' = [making EXCEPT ![s] = "none"] /\ m_data' = [m_data EXCEPT ![s] = NoAddress]
  /\ UNCHANGED <<m_init, m_address, m_offset>>

\* truncate() forgets the address of the segments it drops, and their slots stay.
forget(s) ==
  /\ m_data[s] # NoAddress /\ m_data' = [m_data EXCEPT ![s] = NoAddress]
  /\ UNCHANGED <<m_init, m_address, m_offset, m_bitset, making, terminated>>

Next ==
  \/ /\ ~ terminated
     /\ \E s \in Segments :
          \/ pool(s) \/ init(s) \/ map(s) \/ deallocate(s) \/ forget(s)
          \/ \E size \in Sizes : allocate(s, size) \/ out_of_range(s, size)
  \/ terminated /\ UNCHANGED vars

Spec == Init /\ [][Next]_vars

-----------------------------------------------------------------------------
Live == {s \in Segments : m_data[s] # NoAddress}
Extent(s) == m_data[s].at .. m_data[s].at + m_data[s].length - 1
Whole(s) == m_data[s].length % m_size_of_segment = 0

\* The slots of s.
SlotsOf(s) == SlotsFrom(m_data[s].at \div m_size_of_segment, slots(m_data[s].length))

\* The whole slots of a segment in use are marked, inside of the device, and no other
\* segment has them; and no two segments that are whole slots share a byte.  It holds
\* through searches that wrap around, a device that is mapped several times, bits that
\* are not there, slots that are never given back, and next to segments of any size.
\* The rest of a segment behind its last whole slot, and all of one below a slot,
\* is nobody's: allocate rounds down.
NoOverlap ==
  /\ \A s \in Live : SlotsOf(s) \subseteq m_bitset \cap 0 .. m_NVML_MAPPINGS - 1
  /\ \A s, t \in Live : s # t => SlotsOf(s) \cap SlotsOf(t) = {}
  /\ \A s \in Live : Whole(s) => Extent(s) \subseteq 0 .. m_length - 1
  /\ \A s, t \in Live : s # t /\ Whole(s) /\ Whole(t) => Extent(s) \cap Extent(t) = {}

\* Every slot that a segment reaches into is marked as in use.
Reserved == \A s \in Live : \A i \in Extent(s) : (i \div m_size_of_segment) \in m_bitset
=============================================================================
