------------------------------ MODULE NvmlFile ------------------------------
(***************************************************************************)
(* A file of the NVML backend (src/src/backends/nvram-nvml/file.cpp,       *)
(* segment.cpp).  Its data is kept as in module FileData; its segments are *)
(* files of their own in a directory that the first call on the file       *)
(* makes.  An exception leaves the FUSE callback and ends the process.     *)
(***************************************************************************)
EXTENDS FileData

VARIABLES
  m_initialized,   \* the directory was made
  subdir,          \* m_pool_subdir is there
  status           \* "running" or "terminated"

poolVars == <<m_initialized, subdir, status>>
nvVars == <<fileVars, poolVars>>

\* The constructor makes the directory itself for a file it loads.  What is
\* left of an earlier mount may be there.
NvmlInit ==
  /\ status = "running"
  /\ \E n \in Populated : InitFile(n) /\ m_initialized = (n > 0)
  /\ subdir \in IF m_initialized THEN {TRUE} ELSE BOOLEAN

Running(A) == status = "running" /\ A /\ UNCHANGED poolVars
Throw == status' = "terminated" /\ UNCHANGED <<m_initialized, subdir>>

-----------------------------------------------------------------------------
(***************************************************************************)
(* "if (!m_initialized)": remove what is there, make the directory, set    *)
(* the flag.  put_data does so under both mutexes, the others under none;  *)
(* nobody looks at the flag again.                                         *)
(***************************************************************************)
Removing == [put |-> "remove_put", get |-> "remove_get", allocate |-> "remove_allocate",
             extend |-> "remove_extend"]
Making == [put |-> "mkdir_put", get |-> "mkdir_get", allocate |-> "mkdir_allocate",
           extend |-> "mkdir_extend"]

\* put_data looks at the flag when it has m_dealloc_mutex, and then waits for
\* m_alloc_mutex: another one may have made the directory by then.
NotInitialized(t, op) ==
  /\ status = "running" /\ pc[t] = op /\ ~ m_initialized /\ t \notin dealloc.shared
  /\ IF op = "put" THEN SharedDealloc(t) /\ Go(t, "init_put")
     ELSE Go(t, Removing[op]) /\ UNCHANGED dealloc
  /\ UNCHANGED <<file, grants, alloc, call, left, regions, got, content, failed, poolVars>>

InitLock(t) ==
  /\ status = "running" /\ pc[t] = "init_put"
  /\ ~ AllocHeld /\ alloc' = [alloc EXCEPT !.exclusive = TRUE]
  /\ Go(t, Removing.put)
  /\ UNCHANGED <<file, grants, dealloc, call, left, regions, got, content, failed, poolVars>>

RemoveSubdir(t, op) ==
  /\ status = "running" /\ pc[t] = Removing[op]
  /\ subdir' = FALSE
  /\ Go(t, Making[op])
  /\ UNCHANGED <<file, grants, dealloc, alloc, call, left, regions, got, content, failed,
                 m_initialized, status>>

\* mkdir fails if another thread was faster.  (Slip: the flag is set, but the
\* directory is not made.)
SlipNoMkdir(t, op) ==
  /\ status = "running" /\ pc[t] = Making[op]
  /\ Go(t, op) /\ m_initialized' = TRUE /\ UNCHANGED <<subdir, status>>
  /\ UNCHANGED <<file, grants, dealloc, alloc, call, left, regions, got, content, failed>>
MakeSubdir(t, op) ==
  /\ status = "running" /\ pc[t] = Making[op]
  /\ \/ /\ ~ subdir
        /\ subdir' = TRUE /\ m_initialized' = TRUE
        /\ Go(t, op)
        /\ alloc' = IF op = "put" THEN [alloc EXCEPT !.exclusive = FALSE, !.waiting = FALSE]
                    ELSE alloc
        /\ UNCHANGED status
     \/ subdir /\ Throw /\ UNCHANGED <<pc, alloc>>
  /\ UNCHANGED <<file, grants, dealloc, call, left, regions, got, content, failed>>

InitPool(t, op) == NotInitialized(t, op) \/ RemoveSubdir(t, op) \/ MakeSubdir(t, op)

-----------------------------------------------------------------------------
(***************************************************************************)
(* The operations.                                                         *)
(***************************************************************************)
\* pool::allocate creates a file: it throws if the directory is away.
HasStorage(F) == {s \in DOMAIN F.seg : ~ F.seg[s].is_gap}
Fetching(t, A) ==
  /\ status = "running" /\ m_initialized /\ A
  /\ IF ~ subdir /\ HasStorage(file') # HasStorage(file) THEN Throw ELSE UNCHANGED poolVars

nvml_put_data(t) ==
  \/ InitPool(t, "put") \/ InitLock(t) \/ Fetching(t, PutFetch(t))
  \/ Running(PutLock(t) \/ PutCopy(t) \/ PutSize(t) \/ PutUnlock(t))

nvml_get_data(t) ==
  \/ InitPool(t, "get") \/ Running(m_initialized /\ GetLock(t))
  \/ Running(GetLookup(t) \/ GetCopy(t) \/ GetUnlock(t))

nvml_allocate(t) ==
  \/ InitPool(t, "allocate") \/ InitPool(t, "extend") \/ Fetching(t, Allocate(t))
  \/ Running(AllocateSize(t) \/ AllocateUnlock(t))

nvml_truncate(t) == Running(truncate(t))
nvml_setattr(t) == Running(setattr(t))
nvml_unload(t) == Running(unload(t))

NvmlNext ==
  \/ \E t \in Threads :
       \/ Running(Call(t) \/ ((pc[t] \in FetchPlaces => m_initialized) /\ AllocWait(t)))
       \/ nvml_put_data(t) \/ nvml_get_data(t) \/ nvml_allocate(t)
       \/ nvml_truncate(t) \/ nvml_setattr(t) \/ nvml_unload(t)
  \/ (Quiet \/ Stalled \/ status = "terminated") /\ UNCHANGED nvVars

NvmlSpec == NvmlInit /\ [][NvmlNext]_nvVars

-----------------------------------------------------------------------------
\* Once a call has found the file initialized and nobody is remaking its
\* directory, the directory is there: initializing twice, in any order of the
\* steps of the two, leaves one, or has ended the process.
PoolReady ==
  m_initialized /\ status = "running" =>
    \/ subdir
    \/ \E t \in Threads : \E op \in DOMAIN Making : pc[t] = Making[op]
=============================================================================
