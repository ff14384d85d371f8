# A TLA+ model of the Echo Filesystem (echofs, efs-ng)

echofs keeps the files of a job in node-local storage and shows them through FUSE. This directory
holds a model of it: TLA+ modules translated from `src/`, TLC configurations that check them on small
instances, and TLAPS proofs, for any number of threads, names, messages or clients, about the parts in
which threads meet (the byte-range locks, the name space behind FUSE, the locks of a file, the thread
pool, the daemon with its API, the asynchronous logger) and about sequential parts that compute
something: the device's allocator, the filling of a segment and the copies between buffers.

## 1. The system

| Part | Code | State | What is hard about it |
|---|---|---|---|
| Range locks | `src/src/range_lock.{h,cpp}` | tree of ranges with type, `m_refs`, proxy and wanted flags; one handle per caller | readers that overlap in part cut each other's ranges into counted proxies; waits on ranges that may be gone; retries |
| AVL tree | `src/src/avl.hpp` | nodes with parent, side and balance | removal with two children, rotations on several levels, freeing while walking |
| Name space | `backends/nvram-devdax/nvram-devdax.cpp`, `dir.cpp`, and `nvram-nvml` | `m_files`, `m_dirs`, each directory's names and `st_nlink`, two mutexes | two maps that must agree, lock order, a pool worker that loads and unloads while FUSE threads work, names the kernel still has |
| FUSE front end | `efs-ng.cpp`, `metadata/` | `fastlink`, open-file records | every callback; iterators and link targets used without a lock |
| File data | `backends/nvram-devdax/file.cpp`, `nvram-nvml/file.cpp` | segments, sizes, `m_alloc_mutex`, `m_dealloc_mutex`, a range lock, the pool's directory | three locks, sizes read before they are locked, gaps filled on demand, cuts and refills, a first call that makes the storage |
| Segments, device pool | `segment.cpp` of both | mapping, bitmap, cursor; the copy into a segment | full, wrapped, mapped twice, fractions of a slot; short and failing reads |
| Segment tree | `src/src/mdds/` | list of leaves, a search tree over them | ranges that swallow, touch or equal others; a search tree that is out of date |
| Buffer copies | `fuse_buf_copy_pmem.cpp` of both | two cursors | short transfers in the middle of a vector |
| Thread pool | `thread-pool.h`, `thread-pool-queue.h` | queue, `m_done`, `m_valid`, workers | `notify_one`, two flags set one after the other, tasks in the queue at the end |
| Daemon and API | `context.cpp`, `api/`, `src/lib/` | backends, tracker, sessions, clients | asynchronous status, failing tasks, connections that end early, start and stop beside running tasks |
| Settings | `settings/`, `command-line.cpp`, `backend-base.cpp` | one settings object, `fuse_argv` | two sources with precedence, a file that is bad half way, bounded argument vector, 32-bit sizes |
| Logger | `logger.h`, `spdlog/` | bounded queue, worker, formatter | lock-free cells used again in the next round, a full queue, flush and exit |

How they meet: `main` reads the settings and `initialize()` makes the logger and the backends, imports
files on the thread pool and starts the listener. FUSE threads enter through the front end, find a file
in the name space, and read or write its segments under a range lock of that file, which keeps its
ranges in an AVL tree. Requests of API clients become tasks of the pool that call `load` of a backend
while the FUSE threads go on. `teardown()` unloads the first backend, stops the listener and then the
pool. All of them log.

What each part has to guarantee:

* Range locks: a writer is alone on its bytes; counts, proxies and handles agree; every wait ends when
  holders unlock; no reader overtakes a waiting writer.
* Name space and front end: calls that overlap answer as if each had acted on one tree at one moment; a
  file has one path and disappears only by `unlink` or by a rename over it; a handle stays with its file.
* File data: a read returns what was last written; storage does not vanish under a copy; calls do not
  wait for one another in a ring of the three locks.
* Thread pool and daemon: tasks start in order and once; statuses only move forward; the daemon listens
  only after its imports and is deleted only when nothing runs; every call of a client returns.
* Logger: no message is dropped or overtaken by one of the same thread, and the exit ends.
* Sequential parts: they compute what a simple reference definition says.

## 2. The modules

Range locks and their tree
* `Intervals`, half-open ranges. `RangeExclusion`, what the lock manager promises: the set of granted
  requests, where two that overlap are both readers.
* `RangeTree`, the nodes of the lock tree and what a grant (`Grown`) or a release (`Shrunk`) makes of
  them. `RangeLock`, the lock manager: the tree as a set of nodes, and per thread a program counter,
  the request, the handle's `m_ptr` and the range waited for. One action is a stretch of code with
  `m_mutex` held; a condition variable may also wake without cause.
* `RangeWalk`, the same functions one loop iteration per step, with the pointers and indices of the
  code. It carries the tree that `RangeTree` predicts along and checks that they agree.
* `Avl`, the tree under it, as nodes with links and balances: the reason why `RangeLock` may treat the
  tree as an ordered set.

Name space and front end
* `Namespace`, the two maps, the directories' names and link counts, and the two mutexes. A call is cut
  where it acquires a mutex and where it gives one back before it returns; everything in between is a
  step. So `load` has its file in `m_files` (`Unlisted`) before it has the directories' mutex, and
  `do_create` has entered a name (`Unmade`) before it makes the file. `unload`
  and `find` take no mutex: beside a thread that changes `m_files` they may miss the file or end the
  process (`status = "segv"`), the outcomes of that data race. An assertion that fails ends it too.
* `NvmlBackend`, the same operations of the nvml backend.
* `FrontEnd`, one definition per FUSE callback: which backend calls it makes, the table `fastlink`, the
  records behind handles. Which calls arrive is the environment's choice: the kernel looks a path up
  (by the rule of `do_stat`) and makes the calls that fit, it keeps changes of one directory apart from
  one another and from its listing, libfuse keeps calls away from a path that is being removed or renamed, and for a while the kernel
  keeps the names below a directory it has renamed (`dcache`). The loader is bound by none of this.
  The variable `mount` never changes; it says which backend is mounted and what its users do with it
  (`MountRecord`). A mount is `Steady` when directories are not renamed and no links are made.
* `FileTree`, what a name space promises: one tree on which a call acts in one step.

File data
* `FileData`, a file of the devdax backend: segments, their place in the file, sizes and attributes, the
  three locks, and the operations cut where they take or release one. The range lock is
  `RangeExclusion`; the segment tree is the map that `SegmentTree` shows it to be. `content` keeps what
  each byte may rightly hold, which the properties compare with the storage.
* `NvmlFile`, the nvml backend's file: `FileData` and the directory that its first call removes and makes.
* `SegmentTree`, `mdds::flat_segment_tree` with its leaves, non-leaf nodes and iterators, beside a map
  from keys to values that each operation also changes. A range that only touches an end of the tree
  runs off its list (`Broken`, `flat_segment_tree_def.inl:231`); the trees of echofs go from 0 to the
  largest `off_t` (`file.cpp:76`), and nobody asks them for one.
* `BigPool`, the device's bitmap allocator. The constructor of a segment's pool tests `m_init` without
  the mutex, so that several first segments may map the device; what `mmap` returns is not looked at; a
  bit behind the last one throws. `SegmentFill`, `segment::fill_from`: reads that fall short,
  are interrupted or fail, and the zeroes behind. `BufCopy`, `fuse_buf_copy_pmem`; `lost` counts what was
  read from a descriptor and could not be written.

The daemon
* `ThreadPool`, queue, workers and `destroy()`; every section under the queue's mutex is a step.
  `TaskPool`, what it promises.
* `ApiDaemon`, on top of `TaskPool`: `initialize`, imports, the listener's thread, the tracker, tasks,
  `teardown`, and the client library with its connection. A status is found under the tracker's mutex
  and read after it. An exception that nobody catches (of a request's task, of the `unload` at the end,
  of a second import while the first one's unwinds) ends the process, daemon state "terminated". Clients named in `Faulty` are killed, interrupted or out of memory.
* `Settings`, from the command line and the configuration file to the argument vector and the backends.
* `LogQueue`, spdlog's queue one atomic operation per step. `AsyncLog`, the loggers over it.

`MC...` modules give the instances. `MCStructures` and `MCProgress` hold several parts that do not
interact, one of which is started by each initial state. The `...Proofs` modules hold the theorems:
`RangeLockProofs`, `RangeWalkProofs`, `AsyncLogProofs` (with those of `LogQueue`), `ApiDaemonProofs`,
`FrontEndProofs`, `FrontTreeProofs`, `NvmlFileProofs` (with those of `FileData`) and `StructureProofs` (the pool
of threads, the allocator, the filling of a segment, the copies). Definitions named `Slip...` are no
part of a specification: each is a definition with a plausible mistake in it, kept to show which property
notices it.

What is abstracted: times, modes, owners; names and threads are model values; inode numbers stand for
the file objects; bytes of a file are cells that know who wrote them; messages, requests and texts are
records of what the code tells apart. `st_nlink` is an integer (the code's is unsigned, and only
compared with 1). The recursive `load` of a directory is the sequence of the loads of its files.

## 3. The runs

Runs that pass:

| Run | Instance | Shows |
|---|---|---|
| `range_lock` | 3 threads, every range of 3 bytes, both types | the inductive invariant `Inv` of the proofs (a disjoint tree whose nodes tile the granted ranges, counts and handles that match, waiters that are flagged where they wait), exclusion, the code's asserts, no reader overtaking a waiting writer, and that it implements `RangeExclusion` |
| `progress` | pool: 3 workers, 4 tasks; locks: 3 threads, 2 bytes | a worker is awake for every task that waits, the pool implements `TaskPool` with its fairness (every task runs unless the pool stops, `stop()` returns), and every wait for a range ends |
| `structures` | see below | AVL tree (`WellFormed`, `LooksLikeASet`, `DestroysAll`), loops of the range locks (`WalksAgree`, `WalkAsserts`), segment tree (`Denotes`, `SearchesAgree`), copies (`CopyExact`), allocator (`NoOverlap`), settings (`CommandLineWins`, `ArgvFitsSettings`) |
| `namespace` | 2 FUSE threads, 2 names, depth 2, 3 inodes, 1 handle | `ImplementsTree`: the front end over the devdax backend implements `FileTree` |
| `import` | five profiles, see below | listings and counts exact on steady mounts, also while files are imported (`LoadEntries`), one path per file, no file lost, both mutexes given back unless `chmod` or `chown` has closed its ring (`MutexFreed`) |
| `log` | 2 threads with 2 messages, 2 cells, a flush, an exit | one user per cell, order per thread, nothing dropped, the exit ends |
| `api` | 2 clients, 2 workers, 4 tasks, 3 imports | `ReadyWhenImported`, `TidsKnown`, `StatusForward`, `QuietWhenGone`, `RequestsEnd`, `CallsReturn` |
| `file` | 2 threads with 2 calls each, nvml backend, files of 0 and 3 cells | storage does not vanish under a copy, holds what was last written and is tiled by segments (`Stored`), reads see it, no ring of locks but that of `unload` with a writer (`SomeoneRuns`), the pool's directory is there (`PoolReady`) |

The bounds are where the cases stop being new.

* `range_lock`: three bytes and three threads give ranges that overlap in part, a reader that bridges a
  gap between two others, a node cut on both sides and waiters of both kinds on one node.
* `structures`: twelve keys give AVL removals that rotate on two levels; three handles on four bytes give
  a walk over a cut node, a gap, a whole node and a rest; six keys of the segment tree have room for a
  range that swallows a segment and cuts two; two buffers per vector, with descriptors that fall short,
  run out in every order; the allocator has three segments of half a slot, one or two slots on a device
  of five slots and a rest, with a bitset of three; a segment of six bytes is filled by reads of at most three, from files that fill it, do
  not, or are empty; three options and a configuration file with every kind of mistake in every section
  overfill an argument vector of six.
* `namespace`: two names at depth two give moves within and between directories and over an existing
  file, beside a call that is half way. Symmetry of names and threads is used; only safety is checked.
* `import`: "load" has a thread and a loader on the nvml backend, files below directories; files and
  directories are kept at different depths, because `load` and `mkdir` do not look at each other's map
  (with one name for both, one entry is counted twice). "dirs" has one thread that renames directories,
  whose link counts are bounded from above by `MaxLinks` where renames start. "calls" has one thread
  with all the other callbacks. "links" has two threads and the loader that open, change and remove files
  through links. "changes" has two threads that create, remove and look at files and change their
  attributes, with both mutexes in either order.
* `api`: one client follows its load with two status calls; the other makes one call, for a backend that
  is not there or an unload, and may die or be interrupted in it. One import names a missing backend.
* `file`: calls of cells 0 to 7 with segments of two cells overlap, extend, leave a gap and fill it; cuts
  fall on and between segment boundaries, and `unload` comes at any time. New storage holds what was
  there before it was the file's, which a read of bytes that nobody wrote may return. `save_attributes`
  runs `Alone` (see below), and segments do not grow (`FirstSeg = MaxSeg`, which is what a `segment-size` of
  4 KiB gives). The threads are alike (symmetry).
* `log`: two cells are the smallest queue the constructor accepts; up to seven messages go round it three times.

Runs that end in a violation, each with the line of the repository that says otherwise:

| Run | What happens |
|---|---|
| `reader_resumes` | A reader that waited for a writer retries after the tree became empty: the retry skips the test for that, and the scan follows a null pointer. |
| `namespace_ring` | `chmod`/`chown` against any call that takes the files' mutex first: a deadlock. |
| `namespace_rmdir` | A directory moved into another does not count there; `rmdir` removes the other. |
| `thread_pool_pending` | `stop()` drops waiting tasks, where `efsng_destroy` says it waits for them. |

More properties are stated in the modules and do not hold, or do not hold outside of the bounds above.
They have no run of their own; a configuration that names one shows how it fails.

| Property | What happens |
|---|---|
| `RangeLock!HandleAlive` | `unlock_range_reader` frees a detached descriptor (`range_lock.cpp:392`) and leaves the handle pointing to it, when all its proxies are still shared; the handle's destructor reads through it. |
| `RangeWalk!InsertsAtLeaf` with empty ranges | An empty range (truncate to the present size, unload of an empty file) at the start of another is inserted without a place (`range_lock.cpp:181`). |
| `FileData!LookupAsserts` | A lookup that has refilled a gap goes on with the leaf it had found before; the assertion "this should be guaranteed by search_tree" fails (`nvram-devdax/file.cpp:364`). |
| `FileData!Stored` with `Alone = {}` | `chmod`, `chown` and `utimens` copy all attributes out, change some and write all back (`file.cpp:133`): a write in between loses its size. |
| `FileData!Stored` without its condition `FirstSeg = MaxSeg`, with `FirstSeg = 1`, `MaxSeg = 4`, `Top = 13` | Segment sizes double from call to call, and a new segment may begin below the end of the last one (`file.cpp:280`): what is stored there is hidden. |
| `~ FileData!Stalled` | `unload` takes `m_alloc_mutex` shared twice; a writer that asks in between stops both (`file.cpp:189`). It is the one exception of `SomeoneRuns`. |
| `BigPool!Reserved` | `size / m_size_of_segment` is rounded down: what is behind the last whole slot of a segment, and all of a segment below a slot, is not reserved, and another segment gets the same bytes (`nvram-devdax/segment.cpp:97`; line 136 says "We reserve all of them"). `NoOverlap` speaks of whole slots. |
| `SegmentFill!StaysInside` | After a read error `m_bytes` is -1 and `zero_fill` starts one byte before the segment (`segment.cpp:267`). |
| `AsyncLog!FlushProcessed` (`MCAsyncLogFlush.cfg`) | `flush` returns when the position has moved on, before the worker has dealt with the message (`async_log_helper.h:256`: "return only make after the above flush message was processed"). |
| `Settings!CapacityKept` (`MCSettingsCapacity.cfg`) | `size_parser` returns 32 bits: the "12 GiB" of `examples/preload_ramon.conf:22` wraps (`settings/parsers.cpp:122`). |

What the runs reach and no property is about. `load` may import a path between the kernel's lookup and
`do_create`, and `efsng_create` follows a null pointer (`efs-ng.cpp:816`, status "segv"). `mkdir` below a
remembered subdirectory of a renamed directory fails the assertion on the parent (`nvram-devdax.cpp:535`,
status "abort"). When the device is mapped a second time, segments of the first mapping are given back to
bits of nobody, or the bitset throws in their destructor, which ends the process (`BigPool!deallocate`). A
device with more slots than bits refuses every segment once `m_offset` has passed the last bit
(`BigPool!out_of_range`). With `-D` FUSE gets `-d` and stays in the foreground, while `m_daemonize` stays
true and the log goes where a daemon's goes (`settings/settings.cpp:297`). What `fuse_buf_fd_to_fd` has read
of a descriptor and cannot write is gone, if the descriptor cannot seek (`BufCopy!lost`). A client whose
`read()` was interrupted once reads for ever when the connection ends (`lib/communication.c:294`), which
`CallsReturn` names as its exception, and a load for a backend that is not there stays pending, which
`RequestsEnd` leaves out. A load that throws ends the daemon with all its tasks; `RequestsEnd` ends there
too, and `CallsReturn` says that the clients' calls still return.

Fairness. `progress`: a holder of a range unlocks (the operations under a range lock copy memory and end), a
woken thread gets the mutex, workers are scheduled, tasks end, and `destroy()` once called goes on; nobody
has to lock, submit or stop. `import`: a thread that has one of the two mutexes is scheduled. Who waits for
the second one then gets it, because its owner goes on too, unless the two wait for each other, which is the
exception `MutexFreed` names. `api`: the main thread, the listener's thread, the workers and a client inside
a call go on, all weak; nobody has to call, to be killed or to unmount. `log`: the worker and a thread
inside a call are scheduled, and main starts, exits and joins; a thread that finds the queue full looks
again. All of it is weak fairness of threads, which the operating system's scheduler gives; no run needs
strong fairness.

## 4. The proofs

`RangeLockProofs` proves for any finite set of threads and any set of non-empty ranges:

* `Invariance`: `Spec => []Inv`. `Inv` is the conjunction of the type invariant, `TreeDisjoint`,
  `NodesAligned`, `GrantsCovered`, `RefsCountHolders`, `HandlesMatchNodes`, `ReadWantedBehindWriter`
  and `WaitersFlagged`.
* from it `Exclusion` (`WriterExclusion`), `TypeCorrect`, `RefCounts`, `NoLostWakeup`,
  `AddReaderSafe` and `UnlockSafe` (the asserts of the code), the action property
  `NoOvertakingHolds`, and `Refinement`: the lock manager implements `RangeExclusion`.

Exclusion alone is not inductive: a grant looks only at the tree, so one must know that every byte of
a granted range is under a node (`GrantsCovered`) of the right type (`HandlesMatchNodes`). That the
node stays until the last holder leaves needs the counts, the counts need nodes that do not straddle
the end of a granted range (`NodesAligned`) and do not overlap (`TreeDisjoint`). Waiters enter
because a cut makes new nodes: `ReadWantedBehindWriter` shows that a node that is cut carries no flag.
The longest lemma, `ShareNodesInv`, is the grant that cuts; it rests on `PieceFacts`, `PiecesDisjoint`,
`PiecesCover`, `GapFacts`, `GapsDisjoint` and `GapsCover`, which say that the pieces of the nodes and
the gaps between them tile the new range. `DropReferencesInv` is the unlock that counts down. The
assumptions are `ThreadsAssumption` (finitely many threads) and `RequestsAssumption` (ranges are not
empty: for empty ones see `InsertsAtLeaf` in section 3).

`AsyncLogProofs` begins with the queue, for any set of threads that put and take and any number of cells that the
constructor accepts (`QueueAssumption`: a power of two, at least two): `QueueInvariance`, and from it
`QueueCellsApart` (no two threads work on one cell's data) and `QueueTakenAsClaimed` (a message taken at
a position is the one put there). That cells are apart is not inductive: whether a thread may claim
depends on the sequence number alone. `QueueInv` therefore says what each number means: between the two
positions a cell is being filled or is full with the message of its position (`FullCells`), beyond them
it is free or still being emptied (`FreeCells`), a thread inside has a position nobody else has, and a
number read before a claim can only have grown (`ThreadInv`). The window of `buffer_size` positions
(`Bounded`) turns different positions into different cells, by the lemmas on remainders.

It then shows that the logger is a user the queue expects (`LogUsesQueue`: `Spec => QueueSpec`,
from the invariant `CallInv`, which says on which side of the queue each operation of the logger is) and
so inherits both results: `LogCellsApart`, `LogTakenAsClaimed`. The last part follows a message to the
sink: `LogInOrder` (`WrittenInOrder`) and `LogComplete` (`NothingDropped`). The inductive invariant
`OrderInv` says where a message can be: in the hands of the thread that logs it, which has not claimed
a position for it (`Holds`); at a claimed position, after all earlier messages of its thread (`Claims`,
`Logged`); with the worker, which deals with the positions one after the other (`Position`); or settled,
written or given up because its sink threw (`Outcome`). That nothing is behind the terminate message is
part of `Claims`, and needs to know who may log in which phase of the daemon (`Roles`). `LogAssumption`
names the threads, and says that there is at least one message to log.

`StructureProofs` proves of the pool of threads, for any finite set of workers and any number of tasks
(`PoolAssumption`):
`PoolInvariance`; `NoWakeupLost` (`AwakeForEach`), because every `notify_one` moves a sleeper and a worker
sleeps only when it has seen an empty queue; and `PoolImplements`: `Spec => Pool!PoolSafety`, the steps of
`TaskPool` on which `ApiDaemon` is built. `PoolInv` ties the two flags to the stage of `destroy()`, the queue
to the number of tasks taken, and gives each task one worker.

`ApiDaemonProofs` proves for any clients, backends, configured imports and programs of calls:
`ApiInvariance`, and from it `ServesImported` (`ReadyWhenImported`), `TidsStayKnown` (`TidsKnown`),
`GoneIsQuiet` (`QuietWhenGone`) and the action property `NeverGoesBack` (`StatusForward`). What a client was
told says nothing of what it will be told next unless one knows what is on its way: `ApiInv` orders four
things by `Follows`, the status the client has seen, the one in the response, the one found under the
tracker's mutex and read after it, and the tracker's (`ClientInv`), and ties the tracker to the steps of
the tasks (`TrackInv`). `TaskInv`, `ListenInv` and `ImportInv` say what the daemon's phases imply for tasks,
listener and imports. `RoundTrip` is the lemma that a response survives its encoding. `ApiAssumption`
types the constants and says that a client is not a state of the listener's thread.

`FrontEndProofs` proves for any threads, names and mounts, with renamed directories, links and imports:
`NameInvariance`, `NamesDiffer` (`OneNameEach`) and the action property `FilesStay` (`NoFileLost`). `NameInv`
rests on `m_files_mutex` alone: the thread that has it searched for a path and did not find it, and
nobody has put it there since (`HoldInv`); inode numbers only grow (`NumberInv`). It also has the lemmas
about what adding or removing one entry makes of listings and counts (`AddEntry`, `RemoveEntry`, `AddDir`,
`RemoveDir`, `LoadTidy`).

`FrontTreeProofs` proves for every steady mount, with any number of threads and the worker that
imports: `SteadyInvariance` and `TreeStaysTidy` (`LoadEntries`: listings and link counts are exact, nothing is
without its directory). The tree alone is not inductive: `do_create`, `do_mkdir` and `do_rename` take their
parent directory as given, several steps after the kernel saw it. `SteadyInv` therefore says what every
call that runs can still rely on (`Wants`), and `ApartInv` that no two threads are in calls that the kernel
and libfuse keep apart, which is why nobody takes it back (`RunApart`, `WantsKept`). The loader is kept
away by nothing; it makes the directories it needs in the step that enters its file, and never removes one.
Until then the file is in `m_files` alone, behind the mutex that whoever looks for it has to have (`HiddenInv`).

It goes on to `FrontImplementsTree`: on these mounts `FrontEnd` implements `FileTree`
(`ImplementsTree`). The tree is the union of the two maps (`TreeOf`), without
the file that is still hidden. A call acts in the step that returns;
a lemma for each kind of step (`CreateAnswers` ... `RmdirAnswers`, `ReadAnswers`, `RecordAnswers`) shows that
its answer is the one the tree gives at that moment, or, for a search in two maps, that what the first
search found cannot have changed. `PathsAssumption` and `FrontAssumption` type the constants and keep the
loader and "nobody" apart from the threads. The theorems stop at steady mounts because they must: on the others
`RmdirOnlyEmpty` fails (section 3), and `find` follows link targets that may be gone.

`NvmlFileProofs` proves for any threads and any calls, of the devdax and of the nvml backend: `FileLocks`
(the invariant `LockInv`), `LocksNeverRing` (`SomeoneRuns`), `CopiesKeptApart` and, for nvml,
`DirectoryReady` (`PoolReady`). `LockInv` says for every place in a call which of the three locks its
thread holds there. The order in which a file takes them (`m_dealloc_mutex`, a range, `m_alloc_mutex`) is
not the reason why nobody else waits in a ring, because a shared mutex with a writer that waits keeps new
readers out: one must know for each waiting writer that somebody holds what it waits for (`DeallocInv`,
`AllocInv`) and that this somebody is further on. So a holder of a range waits at most for
`m_alloc_mutex`, whose holder waits for nothing, and a thread that waits for `m_dealloc_mutex` waits for one
with a range or on its way to it. `CopiesKeptApart` is the part of `NothingVanishes` that the locks give:
while `put_data` uses the addresses it looked up nobody cuts the file, and nobody copies over its bytes.
`unload` is among the calls: it is why `SomeoneRuns` has an exception, and the proof shows that there is no
other. `CallsAssumption` says that calls
are records of an operation and a range, which TLC checks on the run. What lookups and copies compute is
left opaque.

`RangeWalkProofs` proves `LoopsAgree` (`RangeWalk!WalksAgree`) and `LoopsAssert` (`RangeWalk!WalkAsserts`),
for any finite number of handles and any ranges that are not empty (`WalkConstants`): the loops of `lock_range` and `unlock_range`, which go from node to node by the
tree's pointers, split, count, fill gaps and detach handles on the way, end with the very tree that the set
operators of `RangeTree` give, which `RangeLock` uses as one step, and no assertion on the way fails.
`WalkInvariance` is the invariant `LoopInv` behind them. In the middle of a walk
the tree is neither the old nor the new one, so `LoopInv` speaks of it as if the handle that runs had a
shorter range, the one up to where the walk has come (`UpTo`), or from there on when it unlocks (`Ahead`):
for these ranges the tree is consistent (`Base`: no two nodes overlap, the nodes tile the range of every
handle, and `m_refs` counts the handles), and what is still to be done to the tree at the rest of the range
gives the tree that is expected. The operators `Grown` and `Shrunk`, defined over all nodes at once, are
taken apart from the left for this (`GrownGap`, `GrownCut`, `GrownCount`, `GrownLast`, `GrownEnd`,
`ShrunkLeave`, `ShrunkLast`). Empty ranges are outside of the theorem, as of the run: see `InsertsAtLeaf`
in section 3.

The rest of `StructureProofs` is about parts that run under somebody else's lock.

* `AllocatorInvariance` and `SegmentsApart` (`NoOverlap`), for every device, slot size, number of bits and set of
  segments of any sizes (`DeviceConstants`): no two segments share a whole slot, and no two of whole slots a
  byte, and all of these lie inside of the device. `DeviceInv` says that the whole slots of a segment in use are
  marked and nobody else's; `place`, which returns the first stretch that is free from the cursor on and then
  from the beginning, is shown to return unmarked slots only (`ScanFinds`, `PlaceFree`). What it says does not depend
  on the mapping: a device that is mapped again keeps its bits, and a segment of an earlier mapping gives back
  none that another has.
* `FillsExactly` (`FillExact`, one half of `CopyExact`): whatever `read()` returns, a filled segment is the file
  and then zeroes. The file must not grow after `fstat` (`FillConstants`).
* `CopiesExactly` (the other half of `CopyExact`), for vectors of any number of buffers of any size
  (`CopyConstants`). `CopyInv` relates the cursors of both vectors to the number of bytes that arrived, and
  says where a chunk is that was read and not yet written; `LossInv` adds that nothing of a chunk is lost
  before the copy stops.

The library's induction theorems are of no use to the provers, but a non-empty set of natural numbers has
a least element (`LeastNat`), which is induction enough for recursive functions over numbers: that they
exist at all, and what they compute, follows from the least index at which it would fail.

Only model-checked, and why:
* liveness, which needs fairness: `WaitEnds`, `MutexFreed`, `ExitEnds`, `RequestsEnd`, `CallsReturn` and the
  fairness of `TaskPool`;
* what recursive operators over trees compute, where the provers lose arithmetic: the AVL tree and the
  segment tree;
* what the operations of `FileData` store and read (`NothingVanishes` beyond the locks, `Stored`, `ReadsLatest`):
  they fold over lists of segments, and an invariant about them needs what the segment tree computes;
* `Settings`: sequential code that folds over its arguments, checked over all inputs within the bounds of
  section 3 and without a proof.

## 5. Not modelled

* The DRAM backend: its operations are stubs or not called by the front end. Nobody makes the
  snapshots of the nvml backend.
* `do_change_type`, which has no caller; the API request of that name is modelled, with the
  uninitialized `m_type` as a choice.
* Texts: the formatting library under `spdlog/fmt`, patterns and sinks, error messages, help texts, the
  lexical side of YAML. They are most of the lines that no definition stands for, and they hold no state
  that a property could be about.
* Byte order and packing of API messages, reduced to which body follows which header.
* The mount helper, credentials and posix files: system calls passed on.
* A crash of the daemon and a restart on what is left in the device: the code rebuilds nothing from it
  (the nvml backend removes what it finds, which `NvmlFile` models).
* Wrap-around of 64-bit positions in the log queue, and of the 32-bit task numbers.
* Data races inside `fastlink`, a `std::map` without a mutex: each callback's use of it is one step.
* The kernel, libfuse, boost and the standard library appear only as the environment described above.
