------------------------------ MODULE FrontEnd ------------------------------
(***************************************************************************)
(* The file system callbacks of src/src/efs-ng.cpp: what the kernel and    *)
(* libfuse call, the table of links (fastlink), the records of open files  *)
(* (efsng::File) and the calls these make of the first backend.            *)
(***************************************************************************)
EXTENDS NvmlBackend

CONSTANTS
  Mounts,       \* the mounts that are looked at, see below
  Handles,      \* records of open files
  MaxLinks      \* bound on the link counts from which rename is called

VARIABLES
  mount,        \* what is mounted, and what is called on it
  asked,        \* the call of each thread, as libfuse made it
  fastlink,     \* path -> path
  records,      \* handle -> inode of the file its record points to, or 0
  it,           \* thread -> the inode of the entry its find() returned, or 0
  dcache        \* names the kernel still has below a renamed directory

frontVars == <<mount, asked, fastlink, records, it, dcache>>
vars == <<backendVars, frontVars>>

\* A mount has a backend, and its users: who calls what, for which paths.
MountRecord ==
  [backend : {"devdax", "nvml"},
   callers : SUBSET All,          \* the threads that make calls, and which
   ops : SUBSET STRING,
   files : SUBSET Paths,          \* where files may be created, moved or loaded
   dirs : SUBSET Paths,           \* where directories may be made or moved
   renames : BOOLEAN,             \* whether rename is called for directories
   inodes : 0 .. MaxInodes,       \* bound on the inode numbers given out
   links : Nat]                   \* bound on the entries of fastlink

ASSUME FrontAssumption == Mounts \subseteq MountRecord /\ MaxLinks \in Nat

FilePaths == mount.files
DirPaths == mount.dirs

Init ==
  /\ mount \in Mounts
  /\ BackendInit /\ asked = [t \in All |-> Idle] /\ fastlink = <<>>
  /\ records = [h \in Handles |-> 0] /\ it = [t \in All |-> 0] /\ dcache = <<>>

\* The path the callbacks look up for the one they are given.
Linked(p) == IF p \in DOMAIN fastlink THEN fastlink[p] ELSE p

-----------------------------------------------------------------------------
(***************************************************************************)
(* Calls.  The kernel looks names up through efsng_getattr, which waits    *)
(* for m_files_mutex and prefers a file, and makes only the calls that fit *)
(* what it saw.  When it renames a directory the names below go with it    *)
(* and stay valid until they time out (entry_timeout), whatever            *)
(* efsng_getattr would now say.                                            *)
(***************************************************************************)
Look(p) ==
  IF p \in DOMAIN dcache THEN dcache[p]
  ELSE IF Linked(p) \in DOMAIN files \ Unlisted THEN "file"
  ELSE IF IsDir(Linked(p)) THEN "dir" ELSE "none"

Forget ==
  /\ status = "running"
  /\ \E p \in DOMAIN dcache : dcache' = Without(dcache, p)
  /\ UNCHANGED <<backendVars, mount, asked, fastlink, records, it>>

Moved(x, p, q) == q \o SubSeq(x, Len(p) + 1, Len(x))
KernelRename(p, q) ==
  LET below == {x \in Paths : Under(x, p) /\ x # p /\ Look(x) # "none"}
      kept == {x \in DOMAIN dcache : ~ Under(x, p) /\ ~ Under(x, q)}
      arrived == {Moved(x, p, q) : x \in below} \cap Paths
  IN  [y \in kept \cup arrived |->
         IF y \in arrived THEN Look(Moved(y, q, p)) ELSE dcache[y]]

\* What the kernel makes of a call that succeeded.
KernelLearns(t) ==
  dcache' =
    IF call'[t].op # "reply" \/ call'[t].ret.err # "0" THEN dcache
    ELSE CASE asked[t].op \in {"unlink", "rmdir"} -> Without(dcache, asked[t].p)
           [] asked[t].op = "rename" /\ IsDir(asked[t].p) -> KernelRename(asked[t].p, asked[t].q)
           [] asked[t].op = "rename" /\ ~ IsDir(asked[t].p) ->
                Without(Without(dcache, asked[t].p), asked[t].q)
           [] OTHER -> dcache

Refused == {"readlink", "mknod", "link", "setxattr", "getxattr", "listxattr", "lock", "bmap",
            "ioctl", "poll", "flock"}
Accepted == {"removexattr", "flush", "fsync", "opendir", "releasedir", "fsyncdir"}
Reaching == {"fgetattr", "ftruncate", "write_buf", "read_buf", "fallocate"}
Plain == Refused \cup Accepted \cup {"statfs"}
OnHandle == Reaching \cup {"release"}
Setattr == {"chmod", "chown"}
Opens == {"create", "open"}
ByWorker == {"load", "unload"}
OfTwo == {"rename", "symlink"} \cup OnHandle
Always == {"getattr", "access", "readdir", "unload"} \cup Setattr \cup OnHandle \cup Plain
Fits(c) ==
  /\ c.op \notin {"load", "symlink"} /\ c.p # Root => Look(Parent(c.p)) = "dir"
  /\ c.op \notin OfTwo => c.q = Root
  /\ c.op \in OnHandle => c.p = Root /\ \E h \in Handles : c.q = <<h>> /\ records[h] # 0
  /\ c.op \in Plain \cup {"unload"} => c.p = Root
  /\ c.op \notin Always => c.p # Root
  /\ c.op = "readdir" => Look(c.p) = "dir"
  /\ c.op \in Setattr => Look(c.p) # "none"
  /\ c.op \in {"create", "mkdir"} => Look(c.p) = "none"
  /\ c.op = "create" => c.p \in FilePaths
  /\ c.op = "mkdir" => c.p \in DirPaths
  /\ c.op \in {"unlink", "open", "utimens", "truncate"} => Look(c.p) = "file"
  /\ c.op = "rmdir" => Look(c.p) = "dir"
  /\ c.op = "symlink" => c.q \in FilePaths /\ Look(c.q) = "none" /\ Look(Parent(c.q)) = "dir"
  /\ c.op = "load" =>
       /\ c.p \in FilePaths /\ \E p \in Paths, inside \in BOOLEAN : c.p = remove_root(p, inside)
       /\ Ancestors(c.p) \subseteq DirPaths
  /\ c.op = "rename" =>
       /\ c.q \in Paths /\ ~ Under(c.q, c.p) /\ ~ Under(c.p, c.q)
       /\ Look(Parent(c.q)) = "dir"
       /\ \/ Look(c.p) = "file" /\ c.q \in FilePaths /\ Look(c.q) # "dir"
          \/ /\ mount.renames /\ Look(c.p) = "dir"
             /\ c.q \in DirPaths /\ Look(c.q) # "file"

\* The bounds: the inode numbers and the records the calls may take, and the link
\* counts, which moves between directories can drive up and down for ever.
Takes(c) ==
  CASE c.op \in {"create", "mkdir"} -> 1 [] c.op = "load" -> Len(c.p) [] OTHER -> 0
InodesLeft(c) ==
  i_inode + Takes(c) + FoldFunction(+, 0, [u \in All |-> Takes(call[u])]) <= mount.inodes
Room(c) ==
  /\ c.op = "rename" => \A d \in DOMAIN dirs : dirs[d].nlink \in 0 .. MaxLinks
  /\ InodesLeft(c)
  /\ c.op = "symlink" => Cardinality(DOMAIN fastlink) < mount.links
  /\ c.op \in Opens => Cardinality({u \in All : call[u].op \in Opens})
                         < Cardinality({h \in Handles : records[h] = 0})

(***************************************************************************)
(* The kernel keeps two changes of one directory apart, and a listing from *)
(* a change.  libfuse keeps a call away from a path that is being removed  *)
(* or renamed.  The last call through a handle is its release.             *)
(***************************************************************************)
Changes(c) ==
  CASE c.op \in {"create", "unlink", "mkdir", "rmdir"} -> {Parent(c.p)}
    [] c.op = "rename" -> {Parent(c.p), Parent(c.q)}
    [] c.op = "symlink" -> {Parent(c.q)}
    [] OTHER -> {}
Lists(c) == IF c.op = "readdir" THEN {c.p} ELSE {}
Removes(c) ==
  CASE c.op \in {"unlink", "rmdir"} -> {c.p}
    [] c.op = "rename" -> {c.p, c.q}
    [] OTHER -> {}

Apart(c, d) ==
  /\ Changes(c) \cap (Changes(d) \cup Lists(d)) = {} /\ Changes(d) \cap Lists(c) = {}
  /\ \A r \in Removes(c) : ~ Under(d.p, r) /\ ~ Under(d.q, r)
  /\ \A r \in Removes(d) : ~ Under(c.p, r) /\ ~ Under(c.q, r)
  /\ "release" \in {c.op, d.op} => c.q # d.q

\* The callbacks that go by fastlink.  efsng_unlink erases the link and then uses
\* the name it stood for, whose memory is free: it may still be there, or not.
Follows == {"getattr", "access", "unlink", "rmdir", "open", "readdir", "utimens"}
Reached(c) ==
  IF c.op \notin Follows \/ c.p \notin DOMAIN fastlink THEN {c.p}
  ELSE IF c.op = "unlink" THEN {fastlink[c.p], Root} ELSE {fastlink[c.p]}

\* The operation of the backend that a callback makes.
Backends(op) ==
  IF op \in {"getattr", "access"} THEN "stat" ELSE IF op \in Setattr THEN "setattr" ELSE op

\* The paths that can be there, and the places of the handles.
Known == FilePaths \cup DirPaths \cup {Root}
Operands == Known \cup {<<h>> : h \in Handles}

Call(t) ==
  /\ status = "running" /\ call[t] = Idle /\ t \in mount.callers
  /\ \E c \in [op : mount.ops, p : Known, q : Operands, ret : {NoReply}] :
       /\ c.op \in ByWorker <=> t = Loader
       /\ Fits(c) /\ Room(c)
       /\ t \in Threads => \A u \in Threads : Apart(c, asked[u])
       /\ asked' = [asked EXCEPT ![t] = c]
       /\ \E p \in Reached(c) : call' = [call EXCEPT ![t] = [c EXCEPT !.op = Backends(c.op), !.p = p]]
       /\ fastlink' = IF c.op = "unlink" THEN Without(fastlink, c.p) ELSE fastlink
  /\ UNCHANGED <<files, dirs, i_inode, m_files_mutex, m_dirs_mutex, entered, status, mount, records, it,
                 dcache>>

Rest(t) ==
  /\ status = "running" /\ call[t].op = "reply"
  /\ call' = [call EXCEPT ![t] = Idle] /\ asked' = [asked EXCEPT ![t] = Idle]
  /\ UNCHANGED <<files, dirs, i_inode, m_files_mutex, m_dirs_mutex, entered, status,
                 mount, fastlink, records, it, dcache>>

-----------------------------------------------------------------------------
(***************************************************************************)
(* efsng_open, efsng_utimens and efsng_truncate call find(), which takes   *)
(* no mutex.  Against a thread that is changing m_files the search may     *)
(* miss the file or run into a node that is gone.                          *)
(***************************************************************************)
Finds == {"open", "utimens", "truncate"}
Stays(t) == UNCHANGED <<files, dirs, i_inode, mount, asked, fastlink, dcache>>

find(t) ==
  LET p == call[t].p IN
  /\ Runs(t, Finds) /\ it[t] = 0 /\ Stays(t) /\ UNCHANGED records
  /\ \/ IsFile(p) /\ it' = [it EXCEPT ![t] = files[p]]
        /\ GoesOn /\ UNCHANGED status
     \/ (~ IsFile(p) \/ Races(t)) /\ Return(t, Err("ENOENT")) /\ UNCHANGED <<it, status>>
     \/ Races(t) /\ status' = "segv" /\ GoesOn /\ UNCHANGED it

\* The entry is read a second time, through the iterator.
Valid(t) == IsFile(call[t].p) /\ files[call[t].p] = it[t]

Unused == {h \in Handles : records[h] = 0}

\* The rest of efsng_open: a record with its own pointer to the file.
efsng_open(t) ==
  /\ Runs(t, {"open"}) /\ it[t] # 0 /\ Stays(t)
  /\ \/ /\ Valid(t)
        /\ \E h \in Unused : records' = [records EXCEPT ![h] = it[t]] /\ Return(t, Ok({h}))
        /\ it' = [it EXCEPT ![t] = 0] /\ UNCHANGED status
     \/ ~ Valid(t) /\ status' = "segv" /\ GoesOn /\ UNCHANGED <<records, it>>

\* The rest of efsng_utimens and efsng_truncate, which change the file.
Touch(t, op) ==
  /\ Runs(t, {op}) /\ it[t] # 0 /\ Stays(t) /\ UNCHANGED records
  /\ \/ Valid(t) /\ Return(t, Ok({})) /\ it' = [it EXCEPT ![t] = 0] /\ UNCHANGED status
     \/ ~ Valid(t) /\ status' = "segv" /\ GoesOn /\ UNCHANGED it
efsng_utimens(t) == Touch(t, "utimens")
efsng_truncate(t) == Touch(t, "truncate")

-----------------------------------------------------------------------------
\* The calls through a handle: those of Reaching get to the file of the record,
\* whatever its name has become.
HandleOf(t) == call[t].q[1]
Answers(t, op, r) ==
  Runs(t, {op}) /\ Stays(t) /\ UNCHANGED <<records, it, status>> /\ Return(t, r)
Reach(t, op) == call[t].q # Root /\ Answers(t, op, Ok({records[HandleOf(t)]}))

efsng_fgetattr(t) == Reach(t, "fgetattr")
efsng_ftruncate(t) == Reach(t, "ftruncate")
efsng_write_buf(t) == Reach(t, "write_buf")
efsng_read_buf(t) == Reach(t, "read_buf") \/ Answers(t, "read_buf", Err("ENOMEM"))
efsng_fallocate(t) == Reach(t, "fallocate") \/ Answers(t, "fallocate", Err("EOPNOTSUPP"))

efsng_release(t) ==
  /\ Runs(t, {"release"}) /\ Stays(t) /\ UNCHANGED <<it, status>>
  /\ records' = [records EXCEPT ![HandleOf(t)] = 0] /\ Return(t, Ok({}))

\* efsng_symlink enters the link's name under its target.
efsng_symlink(t) ==
  /\ Runs(t, {"symlink"}) /\ Return(t, Ok({}))
  /\ fastlink' = Put(fastlink, call[t].p, call[t].q)
  /\ UNCHANGED <<files, dirs, i_inode, status, mount, asked, records, it, dcache>>

\* The calls that only answer: not supported, done, or what the host's statvfs says.
Refuse(t, op) == Answers(t, op, Err("EOPNOTSUPP"))
Accept(t, op) == Answers(t, op, Ok({}))

efsng_readlink(t) == Refuse(t, "readlink")
efsng_mknod(t) == Refuse(t, "mknod")
efsng_link(t) == Refuse(t, "link")
efsng_setxattr(t) == Refuse(t, "setxattr")
efsng_getxattr(t) == Refuse(t, "getxattr")
efsng_listxattr(t) == Refuse(t, "listxattr")
efsng_removexattr(t) == Accept(t, "removexattr")
efsng_lock(t) == Refuse(t, "lock")
efsng_flock(t) == Refuse(t, "flock")
efsng_bmap(t) == Refuse(t, "bmap")
efsng_ioctl(t) == Refuse(t, "ioctl")
efsng_poll(t) == Refuse(t, "poll")
efsng_flush(t) == Accept(t, "flush")
efsng_fsync(t) == Accept(t, "fsync")
efsng_opendir(t) == Accept(t, "opendir")
efsng_releasedir(t) == Accept(t, "releasedir")
efsng_fsyncdir(t) == Accept(t, "fsyncdir")
efsng_statfs(t) == \E r \in {Ok({}), Err("ENOENT")} : Answers(t, "statfs", r)

Answering(t) ==
  \/ efsng_readlink(t) \/ efsng_mknod(t) \/ efsng_link(t) \/ efsng_setxattr(t) \/ efsng_getxattr(t)
  \/ efsng_listxattr(t) \/ efsng_removexattr(t) \/ efsng_lock(t) \/ efsng_flock(t) \/ efsng_bmap(t)
  \/ efsng_ioctl(t) \/ efsng_poll(t) \/ efsng_flush(t) \/ efsng_fsync(t) \/ efsng_opendir(t)
  \/ efsng_releasedir(t) \/ efsng_fsyncdir(t) \/ efsng_statfs(t)

-----------------------------------------------------------------------------
\* The calls of the first backend, with what efsng_create adds to do_create.  The
\* one error of do_stat is the one efsng_access reports.
Asked(t, op) == asked[t].op = op
Nvml == mount.backend = "nvml"

efsng_getattr(t) == Asked(t, "getattr") /\ IF Nvml THEN nvml_do_stat(t) ELSE do_stat(t)
efsng_access(t) == Asked(t, "access") /\ IF Nvml THEN nvml_do_stat(t) ELSE do_stat(t)
efsng_mkdir(t) == Asked(t, "mkdir") /\ IF Nvml THEN nvml_do_mkdir(t) ELSE Mkdir(t)
efsng_unlink(t) == Asked(t, "unlink") /\ IF Nvml THEN nvml_do_unlink(t) ELSE do_unlink(t)
efsng_rmdir(t) == Asked(t, "rmdir") /\ IF Nvml THEN nvml_do_rmdir(t) ELSE Rmdir(t)
efsng_rename(t) == Asked(t, "rename") /\ IF Nvml THEN nvml_do_rename(t) ELSE do_rename(t)
efsng_chmod(t) == Asked(t, "chmod") /\ IF Nvml THEN nvml_do_chmod(t) ELSE do_chmod(t)
efsng_chown(t) == Asked(t, "chown") /\ IF Nvml THEN nvml_do_chown(t) ELSE do_chown(t)
efsng_readdir(t) == Asked(t, "readdir") /\ IF Nvml THEN nvml_do_readdir(t) ELSE Readdir(t)
efsng_create(t) ==
  \E h \in Unused :
    /\ Asked(t, "create") /\ IF Nvml THEN nvml_do_create(t, {h}) ELSE do_create(t, {h})
    /\ records' = IF call'[t].op = "reply" THEN [records EXCEPT ![h] = i_inode'] ELSE records

\* What a worker of the pool calls for a request of the API.
Worker(t) ==
  \/ Asked(t, "load") /\ IF Nvml THEN nvml_load(t) ELSE load(t)
  \/ Asked(t, "unload") /\ IF Nvml THEN nvml_unload(t) ELSE unload(t)

Operation(t) ==
  /\ \/ efsng_create(t)
     \/ /\ \/ efsng_getattr(t) \/ efsng_access(t) \/ efsng_mkdir(t) \/ efsng_unlink(t)
           \/ efsng_rmdir(t) \/ efsng_rename(t) \/ efsng_chmod(t) \/ efsng_chown(t)
           \/ efsng_readdir(t) \/ Worker(t)
        /\ UNCHANGED records
  /\ KernelLearns(t) /\ UNCHANGED <<mount, asked, fastlink, it>>

Step(t) ==
  \/ Operation(t) \/ find(t) \/ efsng_open(t) \/ efsng_utimens(t) \/ efsng_truncate(t)
  \/ efsng_fgetattr(t) \/ efsng_ftruncate(t) \/ efsng_write_buf(t) \/ efsng_read_buf(t)
  \/ efsng_fallocate(t) \/ efsng_release(t) \/ efsng_symlink(t) \/ Answering(t) \/ Rest(t)

\* Nobody waits in a ring: not one thread with m_files_mutex waiting for
\* m_dirs_mutex while its owner waits for m_files_mutex.
NoRing ==
  \A t, u \in All : ~ (t # u /\ HasFiles(t) /\ t \notin entered /\ HasDirs(u))

\* A process that has died stays dead, and threads in a ring stay there.
Dead == (status # "running" \/ ~ NoRing) /\ UNCHANGED vars

Next == (\E t \in All : Call(t) \/ Step(t)) \/ Forget \/ Dead

\* A thread that has a mutex is scheduled.
Holds(t) == HasFiles(t) \/ HasDirs(t)
Fairness == \A t \in All : WF_vars(Holds(t) /\ Step(t))

Spec == Init /\ [][Next]_vars
FairSpec == Spec /\ Fairness

-----------------------------------------------------------------------------
\* The calls act on one tree of files and directories: whatever they overlap with,
\* each finds its answer, and has its effect, at one moment between the request
\* and the reply, and a handle stays with the file it was opened on through every
\* rename and unlink.
TreeOf ==
  LET there == DOMAIN files \ Unlisted IN
  [p \in there \cup DOMAIN dirs |-> IF p \in there THEN files[p] ELSE 0]
Tree == INSTANCE FileTree WITH
  Users <- All, pending <- call, opened <- records, tree <- TreeOf
ImplementsTree == Tree!TreeSpec

\* The mounts of which this is meant: directories are not renamed and no links are
\* made, and where files are imported no path is used for both a file and a directory.
Steady ==
  /\ ~ mount.renames /\ mount.links = 0
  /\ Loader \in mount.callers => mount.files \cap mount.dirs = {}

\* On such a mount every directory lists exactly what is below it, and is counted
\* right, also while files are imported under a live file system.
LoadEntries == Steady => EntriesExact /\ LinksCounted /\ ParentsThere

\* A file disappears only by its own do_unlink, or when do_rename puts another
\* file in its place.
NoFileLost ==
  [][\A p \in DOMAIN files :
       files[p] \in {files'[x] : x \in DOMAIN files'} \/
       \E t \in All : /\ call[t].ret = NoReply /\ call'[t].op = "reply"
                      /\ \/ call[t].op = "unlink" /\ call[t].p = p
                         \/ call[t].op = "rename" /\ call[t].q = p]_vars

\* do_rmdir never removes a directory that has something in it, whatever the
\* link count it goes by says.
RmdirOnlyEmpty ==
  [][\A t \in Threads :
       LET d == call[t].p IN
       call[t].op = "rmdir" /\ d \in DOMAIN dirs \ DOMAIN dirs' =>
         \A p \in Present : Parent(p) # d]_vars

\* Whoever has m_files_mutex or m_dirs_mutex gives both back, and the threads that
\* wait behind it go on: the ring of do_chmod and do_chown is the only way in which
\* a mutex is kept for ever.
MutexFreed ==
  \A t \in All : Holds(t) ~> (~ Holds(t) \/ ~ NoRing \/ status # "running")
=============================================================================
