-------------------------- MODULE FrontTreeProofs --------------------------
(***************************************************************************)
(* A mount on which directories are not renamed and no links are made      *)
(* keeps its tree in order: every directory lists exactly what is below it *)
(* and counts it right, for any number of threads and with a worker that   *)
(* imports files.  The inductive invariant SteadyInv says, beside the      *)
(* state of the tree, what each call that runs may rely on (Wants): the    *)
(* kernel saw it when it made the call, and keeps the calls away that      *)
(* would take it back (ApartInv).  A file that load has entered in m_files *)
(* and not yet in a directory does not count (Unlisted), and nobody can    *)
(* have it open (HiddenInv).                                               *)
(*                                                                         *)
(* On such a mount the callbacks and the backend implement FileTree.  A    *)
(* step that returns is the answer of the call, the steps before it change *)
(* nothing of the abstract tree.                                           *)
(***************************************************************************)
EXTENDS FrontEndProofs

\* The files that can be found, once load has entered them in their directories.
Shown == DOMAIN files \ Unlisted

\* The tree of a steady mount.
TreeInv ==
  /\ DOMAIN files \subseteq FilePaths /\ DOMAIN dirs \subseteq DirPaths \cup {Root}
  /\ DOMAIN files \cap DOMAIN dirs = {}
  /\ Tidy(Present, dirs)
  /\ DOMAIN records = Handles /\ \A h \in Handles : records[h] \in 0 .. i_inode
  /\ DOMAIN fastlink = {} /\ DOMAIN dcache = {}

\* Who has m_dirs_mutex for longer than a step: do_chmod and do_chown, once the
\* path is not a directory.
DirsInv ==
  /\ m_dirs_mutex \in All \cup {Nobody}
  /\ \A t \in All : HasDirs(t) => call[t].op = "setattr" /\ ~ IsDir(call[t].p)

\* What a call that has not returned can still rely on.
Wants(t) ==
  LET c == call[t] IN
  /\ c.op \in {"create", "mkdir", "unlink", "rmdir", "rename"} => c.p \in Paths
  /\ c.op \in {"create", "mkdir"} => IsDir(Parent(c.p))
  /\ c.op = "create" => c.p \in FilePaths /\ ~ IsDir(c.p)
  /\ c.op = "mkdir" => c.p \in DirPaths /\ ~ IsFile(c.p)
  /\ c.op = "rename" => /\ c.q \in Paths /\ {c.p, c.q} \subseteq FilePaths /\ c.p # c.q
                        /\ IsDir(Parent(c.q)) /\ ~ IsDir(c.p) /\ ~ IsDir(c.q)
  /\ c.op \in Finds => c.p \in Shown
  /\ c.op \in OnHandle => \E h \in Handles : c.q = <<h>> /\ records[h] # 0
  /\ c.op = "load" => /\ c.p \in FilePaths /\ Ancestors(c.p) \subseteq DirPaths
                      /\ mount.files \cap mount.dirs = {}
  /\ c.op # "symlink"

\* The call that libfuse made is the one that runs.
AskInv(t) ==
  /\ call[t].op \notin ByWorker \cup {"none", "reply"} => t \in Threads
  /\ call[t] = Idle => asked[t] = Idle
  /\ call[t].op \notin {"none", "reply"} =>
       /\ call[t].op = Backends(asked[t].op)
       /\ call[t].p = asked[t].p /\ call[t].q = asked[t].q

\* No two threads are in calls that the kernel and libfuse keep apart.
ApartInv ==
  /\ DOMAIN asked = All
  /\ \A t \in Threads : Apart(asked[t], Idle) /\ Apart(Idle, asked[t])
  /\ \A t, u \in Threads : t # u => Apart(asked[t], asked[u])

SteadyInv == TreeInv /\ DirsInv /\ ApartInv /\ \A t \in All : Wants(t) /\ AskInv(t)

-----------------------------------------------------------------------------
\* The steps of the backend that leave the records of open files alone.
Backend(t) ==
  \/ LockFiles(t) \/ StatDirs(t) \/ EnterName(t) \/ Load(t) \/ Unlink(t) \/ Rename(t) \/ Mkdir(t) \/ Rmdir(t)
  \/ Readdir(t) \/ SetattrDirs(t) \/ SetattrFiles(t) \/ unload(t)

\* The last step of a call of efsng_create, with the record it fills in.
Made(t, h) ==
  /\ Create(t, {h}) /\ records[h] = 0
  /\ records' = IF call'[t].op = "reply" THEN [records EXCEPT ![h] = i_inode'] ELSE records

\* The calls that answer without a look at the tree.
Tells(t, op, r) ==
  op \in Reaching \cup Plain /\ (op \in Reaching => r.err # "0") /\ r.val = {} /\ Answers(t, op, r)

(* What a call of the front end is doing when it steps: a step of the        *)
(* backend, or its own work on the records and the table of links.           *)
LEMMA StepCases ==
  ASSUME NEW t \in All, AskInv(t), Step(t), ~ Rest(t)
  PROVE  \/ Backend(t) /\ UNCHANGED <<records, fastlink>> /\ KernelLearns(t)
         \/ (\E h \in Handles : Made(t, h)) /\ UNCHANGED fastlink /\ KernelLearns(t)
         \/ find(t) \/ efsng_open(t) \/ Touch(t, "utimens") \/ Touch(t, "truncate")
         \/ (\E op \in Reaching : Reach(t, op)) \/ efsng_release(t) \/ efsng_symlink(t)
         \/ \E op, r : Tells(t, op, r)
<1>1. CASE Operation(t)
  <2>0. UNCHANGED fastlink /\ KernelLearns(t) BY <1>1, Zenon DEF Operation
  <2>1. CASE efsng_create(t)
    <3>1. PICK h \in Unused :
            /\ Asked(t, "create") /\ IF Nvml THEN nvml_do_create(t, {h}) ELSE do_create(t, {h})
            /\ records' = IF call'[t].op = "reply" THEN [records EXCEPT ![h] = i_inode'] ELSE records
      BY <2>1, Zenon DEF efsng_create
    <3>2. h \in Handles /\ records[h] = 0 BY Zenon DEF Unused
    <3>3. CASE LockFiles(t)
      <4>1. call[t].op = "create"
        BY <3>1, <3>3, Zenon DEF Asked, AskInv, LockFiles, Runs, Backends, Setattr
      <4>2. UNCHANGED call BY <3>3, <4>1, Zenon DEF LockFiles, Runs, GoesOn
      <4>3. UNCHANGED records BY <3>1, <4>1, <4>2, Zenon
      <4> QED BY <2>0, <3>3, <4>3, Zenon DEF Backend
    <3>4. CASE Create(t, {h}) BY <2>0, <3>1, <3>2, <3>4, ZenonT(30) DEF Made
    <3>5. CASE EnterName(t)
      <4>1. UNCHANGED call /\ call[t].op = "create" BY <3>5, Zenon DEF EnterName, Second, Runs, GoesOn
      <4>2. UNCHANGED records BY <3>1, <4>1, ZenonT(60)
      <4> QED BY <2>0, <3>5, <4>2, Zenon DEF Backend
    <3> QED BY <3>1, <3>3, <3>4, <3>5, Zenon DEF nvml_do_create, do_create, Locking
  <2>2. CASE UNCHANGED records /\ ~ efsng_create(t)
    <3>1. CASE efsng_getattr(t) \/ efsng_access(t)
      BY <2>0, <2>2, <3>1, Zenon DEF efsng_getattr, efsng_access, nvml_do_stat, do_stat, Locking, Backend
    <3>2. CASE efsng_mkdir(t) BY <2>0, <2>2, <3>2, Zenon DEF efsng_mkdir, nvml_do_mkdir, Backend
    <3>3. CASE efsng_unlink(t)
      BY <2>0, <2>2, <3>3, Zenon DEF efsng_unlink, nvml_do_unlink, do_unlink, Locking, Backend
    <3>4. CASE efsng_rmdir(t) BY <2>0, <2>2, <3>4, Zenon DEF efsng_rmdir, nvml_do_rmdir, Backend
    <3>5. CASE efsng_rename(t)
      BY <2>0, <2>2, <3>5, Zenon DEF efsng_rename, nvml_do_rename, do_rename, Locking, Backend
    <3>6. CASE efsng_chmod(t) \/ efsng_chown(t)
      BY <2>0, <2>2, <3>6, Zenon
      DEF efsng_chmod, efsng_chown, nvml_do_chmod, do_chmod, nvml_do_chown, do_chown, Backend
    <3>7. CASE efsng_readdir(t)
      <4>1. Readdir(t) BY <3>7, Zenon DEF efsng_readdir, nvml_do_readdir, Readdir, nvml_find_s, find_s
      <4> QED BY <2>0, <2>2, <4>1, Zenon DEF Backend
    <3>8. CASE Worker(t)
      BY <2>0, <2>2, <3>8, Zenon DEF Worker, nvml_load, load, nvml_unload, Locking, Backend
    <3> QED BY <1>1, <2>2, <3>1, <3>2, <3>3, <3>4, <3>5, <3>6, <3>7, <3>8, SMTT(30) DEF Operation
  <2> QED BY <1>1, <2>1, <2>2, Zenon DEF Operation
<1>2. CASE find(t) \/ efsng_open(t) \/ efsng_release(t) \/ efsng_symlink(t) BY <1>2, Zenon
<1>3. CASE efsng_utimens(t) \/ efsng_truncate(t) BY <1>3, Zenon DEF efsng_utimens, efsng_truncate
<1>4. CASE efsng_fgetattr(t) \/ efsng_ftruncate(t) \/ efsng_write_buf(t) \/ efsng_read_buf(t)
           \/ efsng_fallocate(t)
  <2>1. Err("ENOMEM").err # "0" /\ Err("ENOMEM").val = {} BY Zenon DEF Err
  <2>2. Err("EOPNOTSUPP").err # "0" /\ Err("EOPNOTSUPP").val = {} BY Zenon DEF Err
  <2>3. \A op \in Reaching : Answers(t, op, Err("ENOMEM")) => Tells(t, op, Err("ENOMEM"))
    BY <2>1, Zenon DEF Tells
  <2>4. \A op \in Reaching : Answers(t, op, Err("EOPNOTSUPP")) => Tells(t, op, Err("EOPNOTSUPP"))
    BY <2>2, Zenon DEF Tells
  <2>5. {"fgetattr", "ftruncate", "write_buf", "read_buf", "fallocate"} \subseteq Reaching BY Zenon DEF Reaching
  <2> QED BY <1>4, <2>3, <2>4, <2>5, Zenon
    DEF efsng_fgetattr, efsng_ftruncate, efsng_write_buf, efsng_read_buf, efsng_fallocate
<1>5. CASE Answering(t)
  <2>1. /\ Err("EOPNOTSUPP").val = {} /\ Ok({}).val = {} /\ Err("ENOENT").val = {} BY Zenon DEF Err, Ok
  <2>2. Plain \cap Reaching = {}
    BY Zenon DEF Plain, Reaching, Refused, Accepted
  <2>3. ASSUME NEW op \in Plain, NEW r \in {Err("EOPNOTSUPP"), Ok({}), Err("ENOENT")}, Answers(t, op, r)
        PROVE  Tells(t, op, r)
    BY <2>1, <2>2, <2>3, Zenon DEF Tells
  <2>4. ASSUME NEW op \in Plain, Refuse(t, op) \/ Accept(t, op) PROVE \E r : Tells(t, op, r)
    BY <2>3, <2>4, Zenon DEF Refuse, Accept
  <2>5. CASE efsng_statfs(t)
    <3>1. "statfs" \in Plain BY Zenon DEF Plain
    <3> QED BY <2>3, <2>5, <3>1, Zenon DEF efsng_statfs
  <2>6. CASE ~ efsng_statfs(t)
    <3>1. \E op \in Plain : Refuse(t, op) \/ Accept(t, op)
      BY <1>5, <2>6, Zenon
      DEF Answering, efsng_readlink, efsng_mknod, efsng_link, efsng_setxattr, efsng_getxattr,
          efsng_listxattr, efsng_removexattr, efsng_lock, efsng_flock, efsng_bmap, efsng_ioctl,
          efsng_poll, efsng_flush, efsng_fsync, efsng_opendir, efsng_releasedir, efsng_fsyncdir,
          Plain, Refused, Accepted
    <3> QED BY <2>4, <3>1, Zenon
  <2> QED BY <2>5, <2>6, Zenon
<1> QED BY <1>1, <1>2, <1>3, <1>4, <1>5, Zenon DEF Step

-----------------------------------------------------------------------------
\* The paths that a step of a call can add and take away.
Moves(t) ==
  LET c == call[t] IN
  /\ \A x \in DOMAIN files' :
       x \in DOMAIN files \/ (c.op \in {"create", "load"} /\ x = c.p) \/ (c.op = "rename" /\ x = c.q)
  /\ \A x \in Shown : x \in Shown' \/ (c.op \in {"unlink", "rename"} /\ x = c.p)
  /\ \A x \in DOMAIN dirs' :
       x \in DOMAIN dirs \/ (c.op = "mkdir" /\ x = c.p) \/ (c.op = "load" /\ x \in Ancestors(c.p))
  /\ \A x \in DOMAIN dirs : x \in DOMAIN dirs' \/ (c.op = "rmdir" /\ x = c.p)

\* The calls that Apart speaks of.
Parted == {"create", "unlink", "mkdir", "rmdir", "rename", "readdir"} \cup Finds \cup OnHandle

(* What is kept apart are the calls that run.                                *)
LEMMA RunApart ==
  ASSUME SteadyInv, NEW t \in All, NEW u \in All, t # u,
         call[t].op \in Parted, call[u].op \in Parted
  PROVE  Apart(call[t], call[u])
<1>1. ASSUME NEW v \in All, call[v].op \in Parted
      PROVE  /\ v \in Threads /\ asked[v].op = call[v].op
             /\ asked[v].p = call[v].p /\ asked[v].q = call[v].q
  <2>1. AskInv(v) BY Zenon DEF SteadyInv
  <2>2. call[v].op \notin ByWorker \cup {"none", "reply", "stat", "setattr"}
    BY <1>1, Zenon DEF Parted, OnHandle, Reaching, ByWorker, Finds
  <2>3. call[v].op = Backends(asked[v].op) BY <2>1, <2>2, Zenon DEF AskInv
  <2> QED BY <2>1, <2>2, <2>3, Zenon DEF AskInv, Backends
<1>2. ASSUME NEW v \in All, call[v].op \in Parted
      PROVE  /\ Changes(asked[v]) = Changes(call[v]) /\ Removes(asked[v]) = Removes(call[v])
             /\ Lists(asked[v]) = Lists(call[v])
  BY <1>1, <1>2, Zenon DEF Changes, Removes, Lists
<1>3. Apart(asked[t], asked[u]) BY <1>1, Zenon DEF SteadyInv, ApartInv
<1> QED BY <1>1, <1>2, <1>3, Zenon DEF Apart

(* A directory that is made, removed or listed gets no file meanwhile.       *)
LEMMA NoneUnmade ==
  ASSUME HoldInv, SteadyInv, NEW t \in All
  PROVE  /\ call[t].op = "mkdir" => call[t].p \notin Unmade
         /\ call[t].op \in {"rmdir", "readdir"} => \A x \in Unmade : Parent(x) # call[t].p
<1>1. ASSUME NEW u \in entered, u # t, call[t].op \in {"mkdir", "rmdir", "readdir"}
      PROVE  /\ u \in All /\ call[u].p \in Paths /\ Apart(call[t], call[u])
             /\ Changes(call[u]) = {Parent(call[u].p)}
  <2>1. u \in All /\ call[u].op = "create" BY Zenon DEF HoldInv
  <2>2. Wants(u) BY <2>1, Zenon DEF SteadyInv
  <2>3. Apart(call[t], call[u]) BY <1>1, <2>1, RunApart, Zenon DEF Parted
  <2> QED BY <2>1, <2>2, <2>3, Zenon DEF Wants, Changes
<1>2. t \in entered => call[t].op = "create" BY Zenon DEF HoldInv
<1>3. CASE call[t].op = "mkdir"
  <2>1. ASSUME NEW u \in entered, call[u].p = call[t].p PROVE FALSE
    <3>1. Changes(call[t]) = {Parent(call[t].p)} BY <1>3, Zenon DEF Changes
    <3> QED BY <1>1, <1>2, <1>3, <2>1, <3>1, Zenon DEF Apart
  <2> QED BY <1>3, <2>1, Zenon DEF Unmade
<1>4. CASE call[t].op = "rmdir"
  <2>1. ASSUME NEW u \in entered, Parent(call[u].p) = call[t].p PROVE FALSE
    <3>1. Removes(call[t]) = {call[t].p} BY <1>4, Zenon DEF Removes
    <3>2. call[u].p \in Paths /\ Apart(call[t], call[u]) BY <1>1, <1>2, <1>4, Zenon
    <3>3. Under(call[u].p, Parent(call[u].p)) BY <3>2, UnderPath, Zenon
    <3> QED BY <2>1, <3>1, <3>2, <3>3, Zenon DEF Apart
  <2> QED BY <1>4, <2>1, Zenon DEF Unmade
<1>5. CASE call[t].op = "readdir"
  <2>1. ASSUME NEW u \in entered, Parent(call[u].p) = call[t].p PROVE FALSE
    <3>1. Lists(call[t]) = {call[t].p} BY <1>5, Zenon DEF Lists
    <3> QED BY <1>1, <1>2, <1>5, <2>1, <3>1, Zenon DEF Apart
  <2> QED BY <1>5, <2>1, Zenon DEF Unmade
<1> QED BY <1>3, <1>4, <1>5, Zenon

(* The file between its two steps is that of the thread with m_files_mutex.  *)
LEMMA HeldBy ==
  ASSUME HoldInv, NEW t \in All, HasFiles(t)
  PROVE  /\ Unlisted = IF call[t].op = "load" THEN {call[t].p} ELSE {}
         /\ Unmade = IF t \in entered THEN {call[t].p} ELSE {}
<1>1. \A u \in All : HasFiles(u) <=> u = t BY Zenon DEF HasFiles
<1>2. \A u \in entered : u = t BY <1>1, Zenon DEF HoldInv
<1>3. Unlisted = IF call[t].op = "load" THEN {call[t].p} ELSE {} BY <1>1, Zenon DEF Unlisted
<1>4. Unmade = IF t \in entered THEN {call[t].p} ELSE {} BY <1>2, Zenon DEF Unmade
<1> QED BY <1>3, <1>4, Zenon

(* While nobody has the mutex there is none.                                 *)
LEMMA HeldByNone ==
  ASSUME HoldInv, m_files_mutex = Nobody
  PROVE  Unlisted = {} /\ Unmade = {} /\ entered = {} /\ \A t \in All : ~ HasFiles(t)
<1>1. \A u \in All : ~ HasFiles(u) BY PathsAssumption, Zenon DEF HasFiles
<1>2. entered = {} BY <1>1, Zenon DEF HoldInv
<1> QED BY <1>1, <1>2, Zenon DEF Unlisted, Unmade

(* Nor is there when the call that had it returns.                           *)
LEMMA HeldNoMore ==
  ASSUME HoldInv, NEW t \in All, HasFiles(t), NEW r, Return(t, r)
  PROVE  Unlisted' = {} /\ Unmade' = {}
<1>1. \A u \in All : ~ HasFiles(u)'
  <2>1. m_files_mutex' = Nobody BY Zenon DEF Return
  <2> QED BY <2>1, PathsAssumption, Zenon DEF HasFiles
<1>2. \A u : u \notin entered'
  <2>1. \A u : u \in entered' <=> u \in entered /\ u # t BY Returning, Zenon
  <2>2. \A u \in entered : u = t BY Zenon DEF HoldInv, HasFiles
  <2> QED BY <2>1, <2>2, Zenon
<1> QED BY <1>1, <1>2, Zenon DEF Unlisted, Unmade

(* A step of a call without the mutex leaves it.                             *)
LEMMA HeldKept ==
  ASSUME HoldInv, NEW t \in All, ~ HasFiles(t), ~ HasFiles(t)',
         \A u \in All \ {t} : call'[u] = call[u] /\ (HasFiles(u)' <=> HasFiles(u)),
         \A u : u \in entered' <=> u \in entered /\ u # t
  PROVE  Unlisted' = Unlisted /\ Unmade' = Unmade
<1>1. t \notin entered /\ entered \subseteq All BY Zenon DEF HoldInv
<1>2. \A u \in All : (HasFiles(u) /\ call[u].op = "load")' <=> (HasFiles(u) /\ call[u].op = "load")
  BY Zenon
<1>3. \A u \in All : HasFiles(u) => call'[u] = call[u] BY Zenon
<1>4. Unlisted' = Unlisted BY <1>2, <1>3, ZenonT(30) DEF Unlisted
<1>5. \A u : u \in entered' <=> u \in entered BY <1>1, Zenon
<1>6. \A u \in entered : call'[u] = call[u] BY <1>1, Zenon
<1>7. Unmade' = Unmade BY <1>5, <1>6, ZenonT(30) DEF Unmade
<1> QED BY <1>4, <1>7, Zenon

(* So does its return,                                                       *)
LEMMA HeldReturn ==
  ASSUME HoldInv, NEW t \in All, ~ HasFiles(t), NEW r, Return(t, r)
  PROVE  Unlisted' = Unlisted /\ Unmade' = Unmade
BY Returning, HeldKept, Zenon

(* and every step with which the calls go on.                                *)
LEMMA HeldSame ==
  ASSUME UNCHANGED <<call, m_files_mutex, entered>>
  PROVE  Unlisted' = Unlisted /\ Unmade' = Unmade
BY Zenon DEF Unlisted, Unmade, HasFiles

(* Where nothing changes the tree is as tidy as before.                      *)
LEMMA NothingMoves ==
  ASSUME TreeInv, NEW t \in All, UNCHANGED <<files, dirs>>, Unlisted' = Unlisted, Unmade' = Unmade
  PROVE  Tidy(Present', dirs') /\ Moves(t)
<1>1. Present' = Present /\ Shown' = Shown BY Zenon DEF Present, Shown
<1> QED BY <1>1, Zenon DEF Moves, TreeInv

(* The first step: load puts its file in, and keeps it to itself.            *)
LEMMA LockTree ==
  ASSUME HoldInv, TreeInv, NEW t \in All, LockFiles(t)
  PROVE  /\ Tidy(Present', dirs') /\ Moves(t) /\ Shown' = Shown /\ \A x \in Shown : files'[x] = files[x]
         /\ UNCHANGED dirs /\ (call[t].op = "load" \/ (UNCHANGED files /\ Unlisted' = Unlisted))
<1> DEFINE p == call[t].p
<1>0. m_files_mutex = Nobody /\ UNCHANGED dirs BY Zenon DEF LockFiles
<1>1. Unlisted = {} /\ Unmade = {} /\ entered = {} /\ \A u \in All : ~ HasFiles(u) BY <1>0, HeldByNone, Zenon
<1>2. ASSUME UNCHANGED files, Unlisted' = Unlisted, Unmade' = Unmade
      PROVE  /\ Tidy(Present', dirs') /\ Moves(t) /\ Shown' = Shown /\ \A x \in Shown : files'[x] = files[x]
             /\ UNCHANGED files /\ Unlisted' = Unlisted
  <2>1. Tidy(Present', dirs') /\ Moves(t) BY <1>0, <1>2, NothingMoves, Zenon
  <2> QED BY <1>2, <2>1, Zenon DEF Shown
<1>3. CASE UNCHANGED files /\ \E r : Return(t, r)
  <2>1. Unlisted' = Unlisted /\ Unmade' = Unmade BY <1>1, <1>3, HeldReturn, Zenon
  <2> QED BY <1>0, <1>2, <1>3, <2>1, Zenon
<1>4. CASE UNCHANGED files /\ GoesOn
  <2>1. Unlisted' = Unlisted /\ Unmade' = Unmade BY <1>4, HeldSame, Zenon DEF GoesOn
  <2> QED BY <1>0, <1>2, <1>4, <2>1, Zenon
<1>5. CASE /\ Runs(t, {"unlink", "rename", "stat", "create"}) /\ m_files_mutex' = t
           /\ UNCHANGED <<files, call, entered>>
  <2>1. \A u \in All : HasFiles(u)' => u = t BY <1>5, Zenon DEF HasFiles
  <2>2. call'[t].op # "load" BY <1>5, Zenon DEF Runs
  <2>3. Unlisted' = {} BY <2>1, <2>2, Zenon DEF Unlisted
  <2>4. Unmade' = Unmade BY <1>5, Zenon DEF Unmade
  <2> QED BY <1>0, <1>1, <1>2, <1>5, <2>3, <2>4, Zenon
<1>6. CASE /\ Runs(t, {"load"}) /\ ~ IsFile(p) /\ m_files_mutex' = t /\ UNCHANGED <<call, entered>>
           /\ files' = Put(files, p, i_inode + 1)
  <2>0. call[t].op = "load" /\ p = call[t].p /\ p \notin DOMAIN files BY <1>6, Zenon DEF Runs, IsFile
  <2>1. \A u \in All : HasFiles(u)' <=> u = t BY <1>6, Zenon DEF HasFiles
  <2>2. Unlisted' = {p} BY <1>6, <2>0, <2>1, Zenon DEF Unlisted
  <2>3. Unmade' = Unmade BY <1>6, Zenon DEF Unmade
  <2>4. files' = Put(files, p, i_inode + 1) BY <1>6, Zenon
  <2> HIDE DEF p
  <2>5. DOMAIN files' = DOMAIN files \cup {p} /\ \A x \in DOMAIN files : x # p => files'[x] = files[x]
    BY <2>4, Zenon DEF Put
  <2>6. Shown' = Shown /\ Shown = DOMAIN files BY <1>1, <2>0, <2>2, <2>5, Zenon DEF Shown
  <2>7. Present' = Present BY <1>0, <2>3, <2>6, Zenon DEF Present, Shown
  <2>8. Moves(t) BY <1>0, <2>0, <2>5, <2>6, Zenon DEF Moves
  <2>9. \A x \in Shown : files'[x] = files[x] BY <2>0, <2>5, <2>6, Zenon
  <2> QED BY <1>0, <2>0, <2>6, <2>7, <2>8, <2>9, Zenon DEF TreeInv
<1> QED BY <1>0, <1>3, <1>4, <1>5, <1>6, Zenon DEF LockFiles, Runs

(* do_create enters the name in a directory that is there.                   *)
LEMMA EnterTree ==
  ASSUME HoldInv, TreeInv, NEW t \in All, Wants(t), EnterName(t)
  PROVE  /\ Tidy(Present', dirs') /\ Moves(t) /\ DOMAIN dirs' = DOMAIN dirs
         /\ Shown' = Shown /\ UNCHANGED <<files, call, m_dirs_mutex>>
<1> DEFINE p == call[t].p
<1>1. HasFiles(t) /\ call[t].op = "create" /\ t \notin entered BY Zenon DEF EnterName, Second, Runs
<1>2. ~ IsFile(p) /\ p \in Paths /\ IsDir(Parent(p)) /\ ~ IsDir(p) BY <1>1, Zenon DEF HoldInv, Wants
<1>3. /\ dirs' = add_file(dirs, p) /\ entered' = entered \cup {t} /\ p = call[t].p
      /\ UNCHANGED <<files, call, m_files_mutex, m_dirs_mutex>>
  BY <1>2, Zenon DEF EnterName
<1>4. Unlisted = {} /\ Unmade = {} BY <1>1, HeldBy, Zenon
<1>5. Unlisted' = Unlisted BY <1>3, Zenon DEF Unlisted, HasFiles
<1>6. Unmade' = Unmade \cup {p} BY <1>3, Zenon DEF Unmade
<1> HIDE DEF p
<1>7. p \notin Present /\ Parent(p) \in DOMAIN dirs /\ Tidy(Present, dirs)
  BY <1>2, <1>4, Zenon DEF Present, IsFile, IsDir, TreeInv
<1>8. Tidy(Present \cup {p}, dirs') /\ DOMAIN dirs' = DOMAIN dirs BY <1>2, <1>3, <1>7, AddEntry, Zenon
<1>9. Present' = Present \cup {p} BY <1>3, <1>5, <1>6, <1>8, Zenon DEF Present
<1>10. Shown' = Shown BY <1>3, <1>5, Zenon DEF Shown
<1>11. Moves(t) BY <1>3, <1>8, <1>10, Zenon DEF Moves
<1> QED BY <1>3, <1>8, <1>9, <1>10, <1>11, Zenon

(* Then it makes the file.                                                   *)
LEMMA CreateTree ==
  ASSUME HoldInv, TreeInv, NEW t \in All, Wants(t), NEW v, Create(t, v)
  PROVE  Tidy(Present', dirs') /\ Moves(t) /\ UNCHANGED dirs /\ Unlisted = {} /\ Unlisted' = {}
<1> DEFINE p == call[t].p
<1>1. t \in entered /\ call[t].op = "create" BY Zenon DEF Create, Runs
<1>2. HasFiles(t) BY <1>1, Zenon DEF HoldInv
<1>3. UNCHANGED dirs /\ files' = Put(files, p, i_inode + 1) /\ p = call[t].p BY Zenon DEF Create
<1>4. Unlisted = {} /\ Unmade = {p} BY <1>1, <1>2, HeldBy, Zenon
<1>5. Unlisted' = {} /\ Unmade' = {} BY <1>2, HeldNoMore, Zenon DEF Create
<1> HIDE DEF p
<1>6. DOMAIN files' = DOMAIN files \cup {p} BY <1>3, Zenon DEF Put
<1>7. Present' = Present BY <1>3, <1>4, <1>5, <1>6, Zenon DEF Present
<1>8. Moves(t) BY <1>1, <1>3, <1>4, <1>5, <1>6, Zenon DEF Moves, Shown
<1> QED BY <1>3, <1>4, <1>5, <1>7, <1>8, Zenon DEF TreeInv

(* load enters the file, and every directory that it makes.                  *)
LEMMA LoadTree ==
  ASSUME HoldInv, TreeInv, NEW t \in All, Wants(t), Load(t)
  PROVE  /\ Tidy(Present', dirs') /\ Moves(t) /\ call[t].p \in DOMAIN files
         /\ DOMAIN dirs' = DOMAIN dirs \cup Ancestors(call[t].p)
         /\ Unlisted = {call[t].p} /\ Unlisted' = {} /\ UNCHANGED files
<1> DEFINE p == call[t].p
           missing == Ancestors(p) \ DOMAIN dirs
<1>1. HasFiles(t) /\ call[t].op = "load" BY Zenon DEF Load, Second, Runs
<1>2. /\ IsFile(p) /\ p \in Paths /\ p \in FilePaths /\ Ancestors(p) \subseteq DirPaths
      /\ FilePaths \cap DirPaths = {} /\ t \notin entered
  BY <1>1, Zenon DEF HoldInv, Wants, FilePaths, DirPaths
<1>3. UNCHANGED files BY Zenon DEF Load
<1>4. /\ DOMAIN dirs' = DOMAIN dirs \cup missing
      /\ \A d \in DOMAIN dirs' :
           LET entries == {e \in missing \cup {p} : Parent(e) = d}
               old == IF d \in DOMAIN dirs THEN dirs[d] ELSE NewDir
           IN  /\ dirs'[d].names = old.names \cup {Last(e) : e \in entries}
               /\ dirs'[d].nlink = old.nlink + Cardinality(entries)
  BY Zenon DEF Load, IsDir
<1>5. missing \cap DOMAIN files = {} /\ Tidy(Present, dirs) BY <1>2, Zenon DEF TreeInv
<1>6. p \in DOMAIN files /\ p \notin DOMAIN dirs /\ p # Root
  <2>1. p # Root BY <1>2, PathParts, Zenon
  <2> QED BY <1>2, <2>1, Zenon DEF IsFile, TreeInv
<1>7. Root \notin missing
  <2>1. \A e \in Ancestors(p) : e \in Paths BY <1>2, AncestorParts, Zenon
  <2> QED BY <2>1, PathParts, Zenon
<1>8. Unlisted = {p} /\ Unmade = {} BY <1>1, <1>2, HeldBy, Zenon
<1>9. Unlisted' = {} /\ Unmade' = {} BY <1>1, HeldNoMore, Zenon DEF Load
<1>10. missing \cap Present = {} /\ p \notin Present BY <1>5, <1>6, <1>8, Zenon DEF Present
<1>11. missing = Ancestors(p) \ DOMAIN dirs BY Zenon
<1>12. call[t].op = "load" /\ p = call[t].p BY <1>1, Zenon
<1> HIDE DEF missing, p
<1>13. Tidy(Present \cup (missing \cup {p}), dirs')
  BY <1>2, <1>4, <1>5, <1>6, <1>10, <1>11, LoadTidy, Zenon
<1>14. Present' = Present \cup (missing \cup {p})
  BY <1>3, <1>4, <1>6, <1>7, <1>8, <1>9, Zenon DEF Present
<1>15. DOMAIN dirs' = DOMAIN dirs \cup Ancestors(p) BY <1>4, <1>11, Zenon
<1>16. Moves(t) BY <1>3, <1>4, <1>9, <1>11, <1>12, Zenon DEF Moves, Shown
<1> QED BY <1>3, <1>6, <1>8, <1>9, <1>12, <1>13, <1>14, <1>15, <1>16, Zenon

(* do_unlink takes the entry of the file out.                                *)
LEMMA UnlinkTree ==
  ASSUME HoldInv, TreeInv, NEW t \in All, Wants(t), Unlink(t)
  PROVE  Tidy(Present', dirs') /\ Moves(t) /\ Unlisted = {} /\ Unlisted' = {}
<1> DEFINE p == call[t].p
<1>0. Tidy(Present, dirs) /\ DOMAIN files \cap DOMAIN dirs = {} BY Zenon DEF TreeInv
<1>1. /\ HasFiles(t) /\ call[t].op = "unlink" /\ \E r : Return(t, r) BY Zenon DEF Unlink, Second, Runs
<1>2. t \notin entered BY <1>1, Zenon DEF HoldInv
<1>3. /\ Unlisted = {} /\ Unmade = {} /\ Unlisted' = {} /\ Unmade' = {} /\ p = call[t].p
  BY <1>1, <1>2, HeldBy, HeldNoMore, Zenon
<1>4. CASE IsFile(p)
  <2>1. files' = Without(files, p) /\ dirs' = remove_file(dirs, p) BY <1>4, Zenon DEF Unlink
  <2> HIDE DEF p
  <2>2. p \in Present /\ p \in DOMAIN files BY <1>3, <1>4, Zenon DEF Present, IsFile
  <2>3. Tidy(Present \ {p}, dirs') /\ DOMAIN dirs' = DOMAIN dirs BY <1>0, <2>1, <2>2, RemoveEntry, Zenon
  <2>4. DOMAIN files' = DOMAIN files \ {p} BY <2>1, Zenon DEF Without
  <2>5. Present' = Present \ {p} BY <1>0, <1>3, <2>2, <2>3, <2>4, Zenon DEF Present
  <2>6. Moves(t) BY <1>1, <1>3, <2>3, <2>4, Zenon DEF Moves, Shown
  <2> QED BY <1>3, <2>3, <2>5, <2>6, Zenon
<1>5. CASE ~ IsFile(p)
  <2>1. UNCHANGED <<files, dirs>> BY <1>5, Zenon DEF Unlink
  <2> QED BY <1>3, <2>1, NothingMoves, Zenon
<1> QED BY <1>4, <1>5, Zenon

(* do_rename of a file takes the entries of both names out and enters the    *)
(* new one.                                                                  *)
LEMMA RenameTree ==
  ASSUME HoldInv, TreeInv, NEW t \in All, Wants(t), Rename(t)
  PROVE  Tidy(Present', dirs') /\ Moves(t) /\ Unlisted = {} /\ Unlisted' = {}
<1> DEFINE p == call[t].p
           q == call[t].q
<1>1. Tidy(Present, dirs) /\ DOMAIN files \cap DOMAIN dirs = {} BY Zenon DEF TreeInv
<1>2. /\ HasFiles(t) /\ call[t].op = "rename" /\ \E r : Return(t, r) BY Zenon DEF Rename, Second, Runs
<1>3. p # q /\ q \in Paths /\ IsDir(Parent(q)) /\ ~ IsDir(p) /\ ~ IsDir(q) BY <1>2, Zenon DEF Wants
<1>0. t \notin entered BY <1>2, Zenon DEF HoldInv
<1>6. /\ Unlisted = {} /\ Unmade = {} /\ Unlisted' = {} /\ Unmade' = {} /\ p = call[t].p
  BY <1>0, <1>2, HeldBy, HeldNoMore, Zenon
<1>4. CASE IsFile(p)
  <2> DEFINE D == IF IsFile(q) THEN remove_file(dirs, q) ELSE dirs
  <2>1. files' = Put(Without(files, p), q, files[p]) /\ dirs' = add_file(remove_file(D, p), q)
    BY <1>3, <1>4, Zenon DEF Rename, RenameFile
  <2>2. call[t].q = q BY Zenon
  <2> HIDE DEF p, q
  <2>3. p \in Present /\ p \in DOMAIN files BY <1>4, <1>6, Zenon DEF Present, IsFile
  <2>4. Tidy(Present \ {q}, D) /\ DOMAIN D = DOMAIN dirs
    <3>1. CASE IsFile(q)
      <4>1. q \in Present BY <1>6, <3>1, Zenon DEF Present, IsFile
      <4> QED BY <1>1, <3>1, <4>1, RemoveEntry, Zenon
    <3>2. CASE ~ IsFile(q)
      <4>1. Present \ {q} = Present BY <1>3, <1>6, <3>2, Zenon DEF Present, IsFile, IsDir
      <4> QED BY <1>1, <3>2, <4>1, Zenon
    <3> QED BY <3>1, <3>2, Zenon
  <2> HIDE DEF D
  <2>5. p \in Present \ {q} BY <1>3, <2>3, Zenon
  <2>6. Tidy((Present \ {q}) \ {p}, remove_file(D, p)) /\ DOMAIN remove_file(D, p) = DOMAIN dirs
    BY <2>4, <2>5, RemoveEntry
  <2>7. Parent(q) \in DOMAIN dirs BY <1>3, Zenon DEF IsDir
  <2>8. Tidy(((Present \ {q}) \ {p}) \cup {q}, dirs') /\ DOMAIN dirs' = DOMAIN dirs
    <3>1. q \notin (Present \ {q}) \ {p} BY Zenon
    <3> QED BY <1>3, <2>1, <2>6, <2>7, <3>1, AddEntry, SMTT(30)
  <2>9. DOMAIN files' = (DOMAIN files \ {p}) \cup {q} BY <2>1, Zenon DEF Put, Without
  <2>10. Present' = ((Present \ {q}) \ {p}) \cup {q} BY <1>3, <1>6, <2>8, <2>9, Zenon DEF Present, IsDir
  <2>11. Moves(t) BY <1>2, <1>6, <2>2, <2>8, <2>9, ZenonT(60) DEF Moves, Shown
  <2> QED BY <1>6, <2>8, <2>10, <2>11, Zenon
<1>5. CASE ~ IsFile(p)
  <2>1. UNCHANGED <<files, dirs>> BY <1>3, <1>5, Zenon DEF Rename
  <2> QED BY <1>6, <2>1, NothingMoves, Zenon
<1> QED BY <1>4, <1>5

(* do_mkdir puts an empty directory in and enters it.                        *)
LEMMA MkdirTree ==
  ASSUME HoldInv, SteadyInv, NEW t \in All, Mkdir(t)
  PROVE  Tidy(Present', dirs') /\ Moves(t) /\ Unlisted' = Unlisted
<1> DEFINE p == call[t].p
<1>0. TreeInv /\ Wants(t) /\ Tidy(Present, dirs) BY Zenon DEF SteadyInv, TreeInv
<1>1. call[t].op = "mkdir" /\ UNCHANGED files /\ \E r : Return(t, r) BY Zenon DEF Mkdir, Runs
<1>2. ~ HasFiles(t) BY <1>1, Zenon DEF HoldInv, FilesFirst
<1>3. p \in Paths /\ IsDir(Parent(p)) /\ ~ IsFile(p) /\ p = call[t].p BY <1>0, <1>1, Zenon DEF Wants
<1>4. Unlisted' = Unlisted /\ Unmade' = Unmade /\ p \notin Unmade
  BY <1>1, <1>2, HeldReturn, NoneUnmade, Zenon
<1>5. CASE ~ IsDir(p)
  <2>1. dirs' = add_file(Put(dirs, p, NewDir), p) BY <1>5, Zenon DEF Mkdir
  <2> HIDE DEF p
  <2> DEFINE D == Put(dirs, p, NewDir)
  <2>3. p \notin DOMAIN dirs /\ p \notin Present /\ p # Root
    BY <1>3, <1>4, <1>5, PathParts, Zenon DEF IsDir, IsFile, Present
  <2>4. Tidy(Present, D) BY <1>0, <2>3, AddDir, Zenon
  <2>5. DOMAIN D = DOMAIN dirs \cup {p} BY Zenon DEF Put
  <2>6. Parent(p) \in DOMAIN D BY <1>3, <2>5, Zenon DEF IsDir
  <2> HIDE DEF D
  <2>7. dirs' = add_file(D, p) BY <2>1, Zenon DEF D
  <2>8. Tidy(Present \cup {p}, dirs') /\ DOMAIN dirs' = DOMAIN dirs \cup {p}
    BY <1>3, <2>3, <2>4, <2>5, <2>6, <2>7, AddEntry, ZenonT(60)
  <2>9. Present' = Present \cup {p} BY <1>1, <1>4, <2>3, <2>8, Zenon DEF Present
  <2>10. Moves(t) BY <1>1, <1>3, <1>4, <2>8, Zenon DEF Moves, Shown
  <2> QED BY <1>4, <2>8, <2>9, <2>10, Zenon
<1>6. CASE IsDir(p)
  <2>1. UNCHANGED dirs BY <1>6, Zenon DEF Mkdir
  <2> QED BY <1>0, <1>1, <1>4, <2>1, NothingMoves, Zenon
<1> QED BY <1>5, <1>6, Zenon

(* do_rmdir removes a directory by its count, and that is empty.             *)
LEMMA RmdirTree ==
  ASSUME HoldInv, SteadyInv, NEW t \in All, Rmdir(t)
  PROVE  Tidy(Present', dirs') /\ Moves(t) /\ Unlisted' = Unlisted
<1> DEFINE p == call[t].p
<1>0. TreeInv /\ Wants(t) /\ Tidy(Present, dirs) /\ DOMAIN files \cap DOMAIN dirs = {}
  BY Zenon DEF SteadyInv, TreeInv
<1>1. call[t].op = "rmdir" /\ UNCHANGED files /\ \E r : Return(t, r) BY Zenon DEF Rmdir, Runs
<1>2. ~ HasFiles(t) BY <1>1, Zenon DEF HoldInv, FilesFirst
<1>3. p \in Paths /\ p = call[t].p BY <1>0, <1>1, Zenon DEF Wants
<1>4. Unlisted' = Unlisted /\ Unmade' = Unmade BY <1>1, <1>2, HeldReturn, Zenon
<1>5. Unmade \cap DOMAIN dirs = {}
  <2>1. \A u \in entered : ~ IsDir(call[u].p) BY Zenon DEF HoldInv, SteadyInv, Wants
  <2> QED BY <2>1, Zenon DEF Unmade, IsDir
<1>6. CASE IsDir(p) /\ Empty(p)
  <2>1. dirs' = remove_file(Without(dirs, p), p) BY <1>6, Zenon DEF Rmdir
  <2> HIDE DEF p
  <2> DEFINE D == Without(dirs, p)
  <2>3. p \in DOMAIN dirs /\ dirs[p].nlink = 1 /\ p # Root
    BY <1>3, <1>6, PathParts, Zenon DEF IsDir, Empty
  <2>4. p \in Present /\ p \notin DOMAIN files BY <1>0, <2>3, Zenon DEF Present
  <2>5. Tidy(Present, D) BY <1>0, <2>3, RemoveDir, Zenon
  <2>6. DOMAIN D = DOMAIN dirs \ {p} BY Zenon DEF Without
  <2> HIDE DEF D
  <2>7. dirs' = remove_file(D, p) BY <2>1, Zenon DEF D
  <2>8. Tidy(Present \ {p}, dirs') /\ DOMAIN dirs' = DOMAIN dirs \ {p}
    BY <2>4, <2>5, <2>6, <2>7, RemoveEntry, Zenon
  <2>9. Present' = Present \ {p} BY <1>1, <1>4, <1>5, <2>3, <2>4, <2>8, Zenon DEF Present
  <2>10. Moves(t) BY <1>1, <1>3, <1>4, <2>8, Zenon DEF Moves, Shown
  <2> QED BY <1>4, <2>8, <2>9, <2>10, Zenon
<1>7. CASE ~ (IsDir(p) /\ Empty(p))
  <2>1. UNCHANGED dirs BY <1>7, Zenon DEF Rmdir
  <2> QED BY <1>0, <1>1, <1>4, <2>1, NothingMoves, Zenon
<1> QED BY <1>6, <1>7, Zenon

-----------------------------------------------------------------------------
\* What a step can do to the records of open files: only release empties one.
Recorded(t) ==
  /\ DOMAIN records' = Handles /\ \A h \in Handles : records'[h] \in 0 .. i_inode'
  /\ \A h \in Handles :
       records[h] # 0 => records'[h] # 0 \/ (call[t].op = "release" /\ call[t].q = <<h>>)
  /\ UNCHANGED records \/ \E r : Return(t, r)

\* How a step leaves the call of its thread and the mutex of the directories.
Settles(t) ==
  /\ UNCHANGED dirs \/ m_dirs_mutex = Nobody
  /\ \/ \E r : Return(t, r)
     \/ /\ UNCHANGED <<call, m_dirs_mutex>> /\ DOMAIN dirs' = DOMAIN dirs
        /\ call[t].op = "load" \/ (UNCHANGED files /\ Unlisted' = Unlisted)
     \/ /\ m_dirs_mutex = Nobody /\ m_dirs_mutex' = t /\ UNCHANGED <<call, files, dirs>>
        /\ call[t].op = "setattr" /\ ~ IsDir(call[t].p)

(* The numbers only grow.                                                    *)
LEMMA NumbersGrow ==
  ASSUME NameInv, [Next]_vars
  PROVE  i_inode \in Nat /\ i_inode' \in Nat /\ i_inode' >= i_inode
<1>1. i_inode \in Nat BY Zenon DEF NameInv, NumberInv
<1>2. CASE UNCHANGED i_inode BY <1>1, <1>2, SMTT(30)
<1>3. ASSUME NEW t \in All, FilesStep(t) PROVE i_inode' \in Nat /\ i_inode' >= i_inode
  BY <1>1, <1>3 DEF FilesStep
<1> QED BY <1>1, <1>2, <1>3, FilesSteps, Zenon DEF NameInv

(* The kernel keeps no names below a directory, for none is renamed.         *)
LEMMA Learnt ==
  ASSUME NEW t \in All, DOMAIN dcache = {}, Wants(t), AskInv(t),
         call[t].op \notin {"none", "reply"}, KernelLearns(t)
  PROVE  DOMAIN dcache' = {}
<1>1. \A x : DOMAIN Without(dcache, x) = {} BY Zenon DEF Without
<1>2. \A x, y : DOMAIN Without(Without(dcache, x), y) = {} BY Zenon DEF Without
<1>3. asked[t].op = "rename" => ~ IsDir(asked[t].p)
  <2>1. SUFFICES ASSUME asked[t].op = "rename" PROVE ~ IsDir(asked[t].p) BY Zenon
  <2>2. call[t].op = "rename" /\ call[t].p = asked[t].p BY <2>1, Zenon DEF AskInv, Backends, Setattr
  <2> QED BY <2>2, Zenon DEF Wants
<1>4. \/ dcache' = dcache
      \/ dcache' = Without(dcache, asked[t].p)
      \/ dcache' = Without(Without(dcache, asked[t].p), asked[t].q)
  BY <1>3, Zenon DEF KernelLearns
<1> QED BY <1>1, <1>2, <1>4, Zenon

(* A step of the backend keeps the tree tidy.                                *)
LEMMA BackendStep ==
  ASSUME HoldInv, SteadyInv, NEW t \in All, Backend(t)
  PROVE  Moves(t) /\ Tidy(Present', dirs') /\ Settles(t) /\ call[t].op \notin {"none", "reply"}
<1>0. TreeInv /\ Wants(t) BY Zenon DEF SteadyInv
<1>1. ASSUME UNCHANGED <<files, dirs>>, (\E r : Return(t, r)) \/ UNCHANGED <<call, m_files_mutex, entered>>,
             ~ HasFiles(t) \/ call[t].op = "stat"
      PROVE  Moves(t) /\ Tidy(Present', dirs') /\ Unlisted' = Unlisted
  <2>1. CASE ~ HasFiles(t)
    <3>1. Unlisted' = Unlisted /\ Unmade' = Unmade BY <1>1, <2>1, HeldReturn, HeldSame, Zenon
    <3> QED BY <1>0, <1>1, <3>1, NothingMoves, Zenon
  <2>2. CASE HasFiles(t) /\ call[t].op = "stat"
    <3>1. t \notin entered BY <2>2, Zenon DEF HoldInv
    <3>2. Unlisted = {} /\ Unmade = {} BY <2>2, <3>1, HeldBy, Zenon
    <3>3. Unlisted' = {} /\ Unmade' = {} BY <1>1, <2>2, <3>2, HeldNoMore, HeldSame, Zenon
    <3> QED BY <1>0, <1>1, <3>2, <3>3, NothingMoves, Zenon
  <2> QED BY <1>1, <2>1, <2>2, Zenon
<1>2. CASE LockFiles(t)
  <2>1. /\ Tidy(Present', dirs') /\ Moves(t) /\ UNCHANGED dirs
        /\ call[t].op = "load" \/ (UNCHANGED files /\ Unlisted' = Unlisted)
    BY <1>0, <1>2, LockTree, Zenon
  <2>2. (\E r : Return(t, r)) \/ UNCHANGED <<call, m_dirs_mutex>> BY <1>2, Zenon DEF LockFiles, GoesOn
  <2>3. call[t].op \notin {"none", "reply"} BY <1>2, Zenon DEF LockFiles, Runs
  <2> QED BY <2>1, <2>2, <2>3, Zenon DEF Settles
<1>3. CASE StatDirs(t)
  <2>1. /\ call[t].op = "stat" /\ UNCHANGED <<files, dirs>> /\ \E r : Return(t, r)
    BY <1>3, Zenon DEF StatDirs, Second, Runs
  <2> QED BY <1>1, <2>1, Zenon DEF Settles
<1>4. CASE Load(t)
  <2>1. Settles(t) /\ call[t].op \notin {"none", "reply"} BY <1>4, Zenon DEF Load, Second, Runs, Settles
  <2> QED BY <1>0, <1>4, <2>1, LoadTree, Zenon
<1>5. CASE Unlink(t)
  <2>1. Settles(t) /\ call[t].op \notin {"none", "reply"} BY <1>5, Zenon DEF Unlink, Second, Runs, Settles
  <2> QED BY <1>0, <1>5, <2>1, UnlinkTree, Zenon
<1>6. CASE Rename(t)
  <2>1. Settles(t) /\ call[t].op \notin {"none", "reply"} BY <1>6, Zenon DEF Rename, Second, Runs, Settles
  <2> QED BY <1>0, <1>6, <2>1, RenameTree, SMTT(30)
<1>7. CASE Mkdir(t)
  <2>1. Settles(t) /\ call[t].op \notin {"none", "reply"} BY <1>7, Zenon DEF Mkdir, Runs, Settles
  <2> QED BY <1>7, <2>1, MkdirTree, Zenon
<1>8. CASE Rmdir(t)
  <2>1. Settles(t) /\ call[t].op \notin {"none", "reply"} BY <1>8, Zenon DEF Rmdir, Runs, Settles
  <2> QED BY <1>8, <2>1, RmdirTree, Zenon
<1>9. ASSUME call[t].op \in {"readdir", "setattr", "unload"} PROVE ~ HasFiles(t)
  BY <1>9, Zenon DEF HoldInv, FilesFirst
<1>10. CASE Readdir(t)
  <2>1. /\ call[t].op = "readdir" /\ UNCHANGED <<files, dirs>> /\ \E r : Return(t, r)
    BY <1>10, Zenon DEF Readdir, Runs
  <2> QED BY <1>1, <1>9, <2>1, Zenon DEF Settles
<1>11. CASE SetattrDirs(t)
  <2>1. /\ call[t].op = "setattr" /\ UNCHANGED <<files, dirs>> /\ m_dirs_mutex = Nobody
        /\ \/ \E r : Return(t, r)
           \/ ~ IsDir(call[t].p) /\ m_dirs_mutex' = t /\ UNCHANGED <<m_files_mutex, call, entered>>
    BY <1>11, Zenon DEF SetattrDirs, Runs
  <2> QED BY <1>1, <1>9, <2>1, Zenon DEF Settles
<1>12. CASE SetattrFiles(t)
  <2>1. /\ call[t].op = "setattr" /\ UNCHANGED <<files, dirs>> /\ \E r : Return(t, r)
    BY <1>12, Zenon DEF SetattrFiles, Runs
  <2> QED BY <1>1, <1>9, <2>1, Zenon DEF Settles
<1>13. CASE unload(t)
  <2>1. /\ call[t].op = "unload" /\ UNCHANGED <<files, dirs>>
        /\ (\E r : Return(t, r)) \/ UNCHANGED <<m_files_mutex, m_dirs_mutex, call, entered>>
    BY <1>13, ZenonT(60) DEF unload, Runs, GoesOn
  <2> QED BY <1>1, <1>9, <2>1, Zenon DEF Settles
<1>14. CASE EnterName(t)
  <2>1. /\ Tidy(Present', dirs') /\ Moves(t) /\ DOMAIN dirs' = DOMAIN dirs
        /\ Shown' = Shown /\ UNCHANGED <<files, call, m_dirs_mutex>>
    BY <1>0, <1>14, EnterTree, Zenon
  <2>2. /\ call[t].op = "create" /\ m_dirs_mutex = Nobody /\ UNCHANGED m_files_mutex
    BY <1>14, Zenon DEF EnterName, Second, Runs, GoesOn
  <2>3. Unlisted' = Unlisted BY <2>1, <2>2, Zenon DEF Unlisted, HasFiles
  <2> QED BY <2>1, <2>2, <2>3, Zenon DEF Settles
<1> QED BY <1>2, <1>3, <1>4, <1>5, <1>6, <1>7, <1>8, <1>10, <1>11, <1>12, <1>13, <1>14, ZenonT(30) DEF Backend

(* So does every step of a call.                                             *)
LEMMA StepEffect ==
  ASSUME NameInv, SteadyInv, NEW t \in All, Step(t), ~ Rest(t)
  PROVE  /\ Moves(t) /\ Tidy(Present', dirs') /\ Settles(t) /\ Recorded(t)
         /\ DOMAIN fastlink' = {} /\ DOMAIN dcache' = {}
<1>0. /\ HoldInv /\ TreeInv /\ Wants(t) /\ AskInv(t)
      /\ DOMAIN fastlink = {} /\ DOMAIN dcache = {} /\ DOMAIN records = Handles
  BY Zenon DEF NameInv, SteadyInv, TreeInv
<1>1. i_inode \in Nat /\ i_inode' \in Nat /\ i_inode' >= i_inode
  <2>1. [Next]_vars BY Zenon DEF Next
  <2> QED BY <2>1, NumbersGrow, Zenon
<1>2. ASSUME UNCHANGED records PROVE Recorded(t)
  BY <1>0, <1>1, <1>2, SMTT(30) DEF Recorded, TreeInv
<1>3. ASSUME NEW h \in Handles, NEW i \in 1 .. i_inode', records[h] = 0, \E r : Return(t, r),
             records' = [records EXCEPT ![h] = i]
      PROVE  Recorded(t)
  <2>1. DOMAIN records' = Handles /\ \A k \in Handles : records'[k] = IF k = h THEN i ELSE records[k]
    BY <1>0, <1>3, Zenon
  <2> QED BY <1>0, <1>1, <1>3, <2>1, SMTT(30) DEF Recorded, TreeInv
<1>4. ASSUME UNCHANGED <<files, dirs>>, (\E r : Return(t, r)) \/ GoesOn, call[t].op \notin FilesFirst
      PROVE  Moves(t) /\ Tidy(Present', dirs') /\ Settles(t)
  <2>1. ~ HasFiles(t) BY <1>0, <1>4, Zenon DEF HoldInv
  <2>2. Unlisted' = Unlisted /\ Unmade' = Unmade
    BY <1>0, <1>4, <2>1, HeldReturn, HeldSame, Zenon DEF GoesOn
  <2>3. Moves(t) /\ Tidy(Present', dirs') BY <1>0, <1>4, <2>2, NothingMoves, ZenonT(60)
  <2> QED BY <1>4, <2>2, <2>3, Zenon DEF Settles, GoesOn
<1>5. CASE Backend(t) /\ UNCHANGED <<records, fastlink>> /\ KernelLearns(t)
  <2>1. Moves(t) /\ Tidy(Present', dirs') /\ Settles(t) /\ call[t].op \notin {"none", "reply"}
    BY <1>0, <1>5, BackendStep, Zenon
  <2> QED BY <1>0, <1>2, <1>5, <2>1, Learnt, Zenon
<1>6. ASSUME NEW h \in Handles, Made(t, h), UNCHANGED fastlink, KernelLearns(t)
      PROVE  /\ Moves(t) /\ Tidy(Present', dirs') /\ Settles(t) /\ Recorded(t)
             /\ DOMAIN fastlink' = {} /\ DOMAIN dcache' = {}
  <2>1. Create(t, {h}) /\ call[t].op = "create" BY <1>6, Zenon DEF Made, Create, Runs
  <2>2. Moves(t) /\ Tidy(Present', dirs') /\ UNCHANGED dirs BY <1>0, <2>1, CreateTree, Zenon
  <2>4. Return(t, Ok({h})) /\ i_inode' = i_inode + 1 BY <2>1, Zenon DEF Create
  <2>5. Settles(t) BY <2>2, <2>4, Zenon DEF Settles
  <2>6. call'[t].op = "reply" BY <1>0, <2>4, Returning, Zenon
  <2>7. i_inode' \in 1 .. i_inode' BY <1>1, <2>4
  <2>8. Recorded(t) BY <1>3, <1>6, <2>4, <2>6, <2>7, Zenon DEF Made
  <2>9. DOMAIN dcache' = {} BY <1>0, <1>6, <2>1, Learnt, Zenon
  <2> QED BY <1>0, <1>6, <2>2, <2>5, <2>8, <2>9, Zenon
<1>7. CASE find(t)
  <2>1. /\ ((\E r : Return(t, r)) \/ GoesOn) /\ UNCHANGED <<files, dirs, records, fastlink, dcache>>
        /\ call[t].op \notin FilesFirst
    BY <1>7, Zenon DEF find, Stays, Runs, Finds, FilesFirst
  <2> QED BY <1>0, <1>2, <1>4, <2>1, Zenon
<1>8. CASE efsng_open(t)
  <2>0. call[t].op \notin FilesFirst BY <1>8, Zenon DEF efsng_open, Runs, FilesFirst
  <2>1. ((\E r : Return(t, r)) \/ GoesOn) /\ UNCHANGED <<files, dirs, i_inode, fastlink, dcache>>
    BY <1>8, Zenon DEF efsng_open, Stays
  <2>2. CASE UNCHANGED records BY <1>0, <1>2, <1>4, <2>0, <2>1, <2>2, Zenon
  <2>3. CASE Valid(t) /\ \E h \in Unused : records' = [records EXCEPT ![h] = it[t]] /\ Return(t, Ok({h}))
    <3>1. PICK h \in Unused : records' = [records EXCEPT ![h] = it[t]] /\ Return(t, Ok({h})) BY <2>3, Zenon
    <3>2. h \in Handles /\ records[h] = 0 BY Zenon DEF Unused
    <3>3. it[t] \in 1 .. i_inode' BY <2>1, <2>3, Zenon DEF Valid, IsFile, NameInv, NumberInv
    <3>4. Recorded(t) BY <1>3, <3>1, <3>2, <3>3, Zenon
    <3> QED BY <1>0, <1>4, <2>0, <2>1, <3>4, Zenon
  <2> QED BY <1>8, <2>2, <2>3, Zenon DEF efsng_open
<1>9. CASE Touch(t, "utimens") \/ Touch(t, "truncate")
  <2>1. /\ (\E r : Return(t, r)) \/ GoesOn
        /\ UNCHANGED <<files, dirs, records, fastlink, dcache>> /\ call[t].op \notin FilesFirst
    BY <1>9, Zenon DEF Touch, Stays, Runs, FilesFirst
  <2> QED BY <1>0, <1>2, <1>4, <2>1, SMTT(30)
<1>10. ASSUME NEW op \in Reaching \cup Plain, NEW r, Answers(t, op, r)
       PROVE  /\ Return(t, r) /\ UNCHANGED <<files, dirs, records, fastlink, dcache>>
              /\ call[t].op \notin FilesFirst
  BY <1>10, Zenon DEF Answers, Stays, Runs, Reaching, Plain, Refused, Accepted, FilesFirst
<1>11. CASE (\E op \in Reaching : Reach(t, op)) \/ \E op, r : Tells(t, op, r)
  <2>1. /\ \E r : Return(t, r)
        /\ UNCHANGED <<files, dirs, records, fastlink, dcache>> /\ call[t].op \notin FilesFirst
    BY <1>10, <1>11, Zenon DEF Reach, Tells
  <2> QED BY <1>0, <1>2, <1>4, <2>1, SMTT(30)
<1>12. CASE efsng_release(t)
  <2>0. call[t].op \notin FilesFirst BY <1>12, Zenon DEF efsng_release, Runs, FilesFirst
  <2>1. UNCHANGED <<files, dirs, i_inode, fastlink, dcache>>
    BY <1>12, Zenon DEF efsng_release, Stays
  <2>2. call[t].op = "release" /\ records' = [records EXCEPT ![HandleOf(t)] = 0]
    BY <1>12, Zenon DEF efsng_release, Runs
  <2>3. PICK h \in Handles : call[t].q = <<h>> BY <1>0, <2>2, Zenon DEF Wants, OnHandle
  <2>4. HandleOf(t) = h BY <2>3 DEF HandleOf
  <2>5. DOMAIN records' = Handles /\ \A k \in Handles : records'[k] = IF k = h THEN 0 ELSE records[k]
    BY <1>0, <2>2, <2>4, Zenon
  <2>6. \E r : Return(t, r) BY <1>12, Zenon DEF efsng_release
  <2>7. Recorded(t) BY <1>0, <1>1, <2>1, <2>2, <2>3, <2>5, <2>6, SMTT(30) DEF Recorded, TreeInv
  <2> QED BY <1>0, <1>4, <2>0, <2>1, <2>6, <2>7, ZenonT(60)
<1>13. ~ efsng_symlink(t) BY <1>0, Zenon DEF efsng_symlink, Runs, Wants
<1> QED BY <1>0, <1>5, <1>6, <1>7, <1>8, <1>9, <1>11, <1>12, <1>13, StepCases, SMTT(30)

-----------------------------------------------------------------------------
(* Nobody takes away what another call relies on: the directory it works in, *)
(* the place that is free, the record of its handle.                         *)
LEMMA WantsKept ==
  ASSUME HoldInv, SteadyInv, NEW t \in All, NEW u \in All, t # u, Moves(t), Recorded(t),
         UNCHANGED mount, call'[u] = call[u]
  PROVE  Wants(u)'
<1> DEFINE a == call[t]
           c == call[u]
<1>1. Wants(t) /\ Wants(u) /\ TreeInv BY Zenon DEF SteadyInv
<1>2. FilePaths' = FilePaths /\ DirPaths' = DirPaths BY Zenon DEF FilePaths, DirPaths
<1>3. a.op \in Parted /\ c.op \in Parted => Apart(a, c) BY RunApart, Zenon
<1>4. ASSUME NEW x \in Paths, c.op \in {"create", "mkdir", "rename"}, x \in {c.p, c.q}, IsDir(Parent(x))
      PROVE  IsDir(Parent(x))'
  <2>1. SUFFICES ASSUME a.op = "rmdir", Parent(x) = a.p PROVE FALSE BY <1>4, Zenon DEF Moves, IsDir
  <2>2. Apart(a, c) /\ a.p \in Removes(a) BY <1>3, <1>4, <2>1, Zenon DEF Parted, Removes
  <2>3. ~ Under(x, a.p) BY <1>4, <2>2, Zenon DEF Apart
  <2> QED BY <2>1, <2>3, UnderPath, Zenon
<1>5. ASSUME NEW x, c.op \in {"create", "rename"}, Parent(x) \in Changes(c), x \in FilePaths,
             ~ IsDir(x)
      PROVE  ~ IsDir(x)'
  <2>1. SUFFICES ASSUME (a.op = "mkdir" /\ x = a.p) \/ (a.op = "load" /\ x \in Ancestors(a.p)) PROVE FALSE
    BY <1>5, Zenon DEF Moves, IsDir
  <2>2. CASE a.op = "mkdir" /\ x = a.p
    <3>1. Apart(a, c) /\ Parent(x) \in Changes(a) BY <1>3, <1>5, <2>2, Zenon DEF Parted, Changes
    <3> QED BY <1>5, <3>1, Zenon DEF Apart
  <2>3. CASE a.op = "load" /\ x \in Ancestors(a.p)
    BY <1>1, <1>5, <2>3, Zenon DEF Wants, FilePaths, DirPaths
  <2> QED BY <2>1, <2>2, <2>3, Zenon
<1>6. ASSUME c.op = "mkdir", c.p \in DirPaths, ~ IsFile(c.p) PROVE ~ IsFile(c.p)'
  <2>0. UNCHANGED c BY Zenon
  <2>1. SUFFICES ASSUME (a.op \in {"create", "load"} /\ c.p = a.p) \/ (a.op = "rename" /\ c.p = a.q) PROVE FALSE
    BY <1>6, <2>0, Zenon DEF Moves, IsFile
  <2>2. CASE a.op \in {"create", "rename"}
    <3>1. Apart(a, c) BY <1>3, <1>6, <2>2, Zenon DEF Parted
    <3>2. Parent(c.p) \in Changes(a) BY <2>1, <2>2, Zenon DEF Changes
    <3>3. Parent(c.p) \in Changes(c) BY <1>6, Zenon DEF Changes
    <3> QED BY <3>1, <3>2, <3>3, Zenon DEF Apart
  <2>3. CASE a.op = "load" BY <1>1, <1>6, <2>1, <2>3, Zenon DEF Wants, FilePaths, DirPaths
  <2> QED BY <2>1, <2>2, <2>3, Zenon
<1>7. ASSUME c.op \in OnHandle PROVE \E h \in Handles : c.q = <<h>> /\ records'[h] # 0
  <2>1. PICK h \in Handles : c.q = <<h>> /\ records[h] # 0 BY <1>1, <1>7, Zenon DEF Wants
  <2>2. SUFFICES ASSUME a.op = "release", a.q = <<h>> PROVE FALSE BY <2>1, Zenon DEF Recorded
  <2>3. Apart(a, c) BY <1>3, <1>7, <2>2, Zenon DEF Parted, OnHandle
  <2> QED BY <2>1, <2>2, <2>3, Zenon DEF Apart
<1>14. ASSUME c.op \in Finds, c.p \in Shown PROVE c.p \in Shown'
  <2>1. SUFFICES ASSUME a.op \in {"unlink", "rename"}, c.p = a.p PROVE FALSE BY <1>14, Zenon DEF Moves
  <2>2. Apart(a, c) /\ a.p \in Removes(a) BY <1>3, <1>14, <2>1, Zenon DEF Parted, Removes
  <2>3. a.p \in Paths BY <1>1, <2>1, Zenon DEF Wants
  <2> QED BY <2>1, <2>2, <2>3, UnderPath, Zenon DEF Apart
<1>8. /\ c.op = "create" => Parent(c.p) \in Changes(c)
      /\ c.op = "rename" => Parent(c.p) \in Changes(c) /\ Parent(c.q) \in Changes(c)
  BY Zenon DEF Changes
<1>9. CASE c.op = "create"
  <2>1. c.p \in Paths /\ IsDir(Parent(c.p)) /\ c.p \in FilePaths /\ ~ IsDir(c.p) BY <1>1, <1>9, Zenon DEF Wants
  <2>2. IsDir(Parent(c.p))' BY <1>4, <1>9, <2>1, Zenon
  <2>3. ~ IsDir(c.p)' BY <1>5, <1>8, <1>9, <2>1, SMTT(30)
  <2> QED BY <1>2, <1>9, <2>1, <2>2, <2>3, Zenon DEF Wants, OnHandle, Reaching, Finds
<1>10. CASE c.op = "mkdir"
  <2>1. c.p \in Paths /\ IsDir(Parent(c.p)) /\ c.p \in DirPaths /\ ~ IsFile(c.p) BY <1>1, <1>10, Zenon DEF Wants
  <2>2. IsDir(Parent(c.p))' BY <1>4, <1>10, <2>1, Zenon
  <2> QED BY <1>2, <1>6, <1>10, <2>1, <2>2, Zenon DEF Wants, OnHandle, Reaching, Finds
<1>11. CASE c.op = "rename"
  <2>1. /\ c.p \in Paths /\ c.q \in Paths /\ c.p \in FilePaths /\ c.q \in FilePaths /\ c.p # c.q
        /\ IsDir(Parent(c.q)) /\ ~ IsDir(c.p) /\ ~ IsDir(c.q)
    BY <1>1, <1>11, Zenon DEF Wants
  <2>2. IsDir(Parent(c.q))' BY <1>4, <1>11, <2>1, Zenon
  <2>3. ~ IsDir(c.q)' BY <1>5, <1>8, <1>11, <2>1, SMTT(30)
  <2>4. ~ IsDir(c.p)' BY <1>5, <1>8, <1>11, <2>1, SMTT(30)
  <2> QED BY <1>2, <1>11, <2>1, <2>2, <2>3, <2>4, ZenonT(60) DEF Wants, OnHandle, Reaching, Finds
<1>12. CASE c.op \in OnHandle BY <1>1, <1>7, <1>12, Zenon DEF Wants, OnHandle, Reaching, Finds
<1>15. CASE c.op \in Finds
  <2>1. c.p \in Shown' BY <1>1, <1>14, <1>15, Zenon DEF Wants
  <2> QED BY <1>1, <1>15, <2>1, Zenon DEF Wants, OnHandle, Reaching, Finds
<1>13. CASE c.op \notin {"create", "mkdir", "rename"} \cup Finds \cup OnHandle
  BY <1>1, <1>2, <1>13, Zenon DEF Wants
<1> QED BY <1>9, <1>10, <1>11, <1>12, <1>13, <1>15, Zenon

-----------------------------------------------------------------------------
(* Apart is symmetric.                                                       *)
LEMMA ApartBoth == ASSUME NEW c, NEW d, Apart(c, d) PROVE Apart(d, c)
BY Zenon DEF Apart

(* What the state of another thread's call depends on.                       *)
LEMMA SameWants ==
  ASSUME NEW u \in All, Wants(u), AskInv(u), UNCHANGED mount,
         call'[u] = call[u], asked'[u] = asked[u],
         call[u].op \in Finds => Unlisted' = Unlisted,
         \/ call[u].op = "load"
         \/ DOMAIN files' = DOMAIN files /\ DOMAIN dirs' = DOMAIN dirs /\ UNCHANGED records
  PROVE  Wants(u)' /\ AskInv(u)'
<1>1. Wants(u)'
  <2>1. CASE call[u].op = "load"
    BY <2>1, Zenon DEF Wants, FilePaths, DirPaths, Finds, OnHandle, Reaching
  <2>2. CASE DOMAIN files' = DOMAIN files /\ DOMAIN dirs' = DOMAIN dirs /\ UNCHANGED records
    <3>1. call[u].op \in Finds => Shown' = Shown BY <2>2, Zenon DEF Shown
    <3> QED BY <2>2, <3>1, Zenon DEF Wants, IsFile, IsDir, FilePaths, DirPaths
  <2> QED BY <2>1, <2>2, Zenon
<1>2. AskInv(u)' BY Zenon DEF AskInv
<1> QED BY <1>1, <1>2, Zenon

(* The kernel calls on what it saw, and so with what the call relies on.     *)
LEMMA CallWants ==
  ASSUME HoldInv, TreeInv, Steady, NEW t \in All, t \in mount.callers,
         NEW c, c.p \in Known, c.op \in ByWorker <=> t = Loader, Fits(c), Room(c),
         call'[t].op = Backends(c.op), call'[t].p = c.p, call'[t].q = c.q,
         UNCHANGED <<files, dirs, mount, records>>, Unlisted' = Unlisted, Unlisted \cap DirPaths = {}
  PROVE  Wants(t)'
<1> DEFINE op == Backends(c.op)
<1>1. op \notin {"stat", "setattr"} => c.op = op BY Zenon DEF Backends
<1>2. ASSUME NEW x PROVE Look(x) = IF x \in Shown THEN "file" ELSE IF IsDir(x) THEN "dir" ELSE "none"
  BY Zenon DEF TreeInv, Look, Linked, Shown
<1>3. DOMAIN files \cap DOMAIN dirs = {} /\ DOMAIN files \subseteq FilePaths BY Zenon DEF TreeInv
<1>4. c.p # Root => c.p \in Paths
  <2>1. mount \in MountRecord BY Zenon DEF HoldInv
  <2> QED BY <2>1, Zenon DEF Known, FilePaths, DirPaths, MountRecord
<1>5. FilePaths' = FilePaths /\ DirPaths' = DirPaths BY Zenon DEF FilePaths, DirPaths
<1>6. \A x : (IsFile(x)' <=> IsFile(x)) /\ (IsDir(x)' <=> IsDir(x)) BY Zenon DEF IsFile, IsDir
<1> HIDE DEF op
<1>7. op \in {"create", "mkdir", "unlink", "rmdir", "rename"} => c.p \in Paths /\ IsDir(Parent(c.p))
  <2>1. SUFFICES ASSUME op \in {"create", "mkdir", "unlink", "rmdir", "rename"}
                 PROVE  c.p \in Paths /\ IsDir(Parent(c.p))
    BY Zenon
  <2>2. c.op = op BY <1>1, <2>1, Zenon
  <2>3. c.op \notin Always BY <2>1, <2>2, Zenon
    DEF Always, Setattr, OnHandle, Reaching, Plain, Refused, Accepted
  <2>4. c.p # Root /\ Look(Parent(c.p)) = "dir" BY <2>1, <2>2, <2>3, Zenon DEF Fits
  <2> QED BY <1>2, <1>4, <2>4, Zenon
<1>8. op = "create" => c.p \in FilePaths /\ ~ IsDir(c.p) BY <1>1, <1>2, Zenon DEF Fits
<1>9. op = "mkdir" => c.p \in DirPaths /\ ~ IsFile(c.p)
  <2>1. op = "mkdir" => c.p \in DirPaths /\ c.p \notin Shown BY <1>1, <1>2, Zenon DEF Fits
  <2> QED BY <2>1, Zenon DEF Shown, IsFile
<1>10. op = "rename" => /\ c.q \in Paths /\ {c.p, c.q} \subseteq FilePaths /\ c.p # c.q
                        /\ IsDir(Parent(c.q)) /\ ~ IsDir(c.p) /\ ~ IsDir(c.q)
  <2>1. SUFFICES ASSUME op = "rename", c.op = "rename"
                 PROVE  /\ c.q \in Paths /\ {c.p, c.q} \subseteq FilePaths /\ c.p # c.q
                        /\ IsDir(Parent(c.q)) /\ ~ IsDir(c.p) /\ ~ IsDir(c.q)
    BY <1>1, Zenon
  <2>2. /\ c.q \in Paths /\ ~ Under(c.q, c.p) /\ Look(Parent(c.q)) = "dir"
        /\ Look(c.p) = "file" /\ c.q \in FilePaths /\ Look(c.q) # "dir"
    BY <2>1, Zenon DEF Fits, Steady
  <2>3. c.p # c.q BY <2>2, UnderPath, Zenon
  <2>4. IsFile(c.p) /\ ~ IsDir(c.p) /\ ~ IsDir(c.q) /\ IsDir(Parent(c.q))
    BY <1>2, <1>3, <2>2, Zenon DEF IsFile, IsDir, Shown
  <2> QED BY <1>3, <2>2, <2>3, <2>4, Zenon DEF IsFile
<1>11. op \in OnHandle => \E h \in Handles : c.q = <<h>> /\ records[h] # 0
  BY <1>1, Zenon DEF Fits, OnHandle, Reaching
<1>12. op = "load" => /\ c.p \in FilePaths /\ Ancestors(c.p) \subseteq DirPaths
                      /\ mount.files \cap mount.dirs = {}
  BY <1>1, Zenon DEF Fits, ByWorker, Steady
<1>13. op # "symlink"
  <2>1. SUFFICES ASSUME c.op = "symlink" PROVE FALSE BY <1>1, Zenon
  <2>2. Cardinality(DOMAIN fastlink) < mount.links BY <2>1, Zenon DEF Room
  <2>3. Cardinality(DOMAIN fastlink) = 0 BY FS_EmptySet, Zenon DEF TreeInv
  <2> QED BY <2>2, <2>3 DEF Steady
<1>14. call'[t].op = op BY Zenon DEF op
<1>15. op \in Finds => c.p \in Shown'
  <2>1. SUFFICES ASSUME op \in Finds PROVE c.p \in Shown' BY Zenon
  <2>2. Look(c.p) = "file" BY <1>1, <2>1, Zenon DEF Fits, Finds
  <2>3. c.p \in Shown BY <1>2, <2>2, Zenon
  <2> QED BY <2>3, Zenon DEF Shown
<1> QED BY <1>15, <1>5, <1>6, <1>7, <1>8, <1>9, <1>10, <1>11, <1>12, <1>13, <1>14, ZenonT(30) DEF Wants

(* A call that starts keeps the invariant.                                   *)
LEMMA CallSteady ==
  ASSUME NameInv, SteadyInv, Steady, NEW t \in All, Call(t)
  PROVE  SteadyInv'
<1>0. HoldInv /\ TreeInv /\ DirsInv /\ ApartInv /\ \A u \in All : Wants(u) /\ AskInv(u)
  BY Zenon DEF NameInv, SteadyInv
<1>1. PICK c \in [op : mount.ops, p : Known, q : Operands, ret : {NoReply}] :
        /\ c.op \in ByWorker <=> t = Loader
        /\ Fits(c) /\ Room(c)
        /\ t \in Threads => \A u \in Threads : Apart(c, asked[u])
        /\ asked' = [asked EXCEPT ![t] = c]
        /\ \E p \in Reached(c) : call' = [call EXCEPT ![t] = [c EXCEPT !.op = Backends(c.op), !.p = p]]
        /\ fastlink' = IF c.op = "unlink" THEN Without(fastlink, c.p) ELSE fastlink
  BY Zenon DEF Call
<1>2. /\ call[t] = Idle /\ t \in mount.callers
      /\ UNCHANGED <<files, dirs, i_inode, m_files_mutex, m_dirs_mutex, entered, mount, records, dcache>>
  BY Zenon DEF Call
<1>3. Reached(c) = {c.p} BY <1>0, Zenon DEF TreeInv, Reached
<1>4. call' = [call EXCEPT ![t] = [c EXCEPT !.op = Backends(c.op), !.p = c.p]] BY <1>1, <1>3, Zenon
<1>5. /\ call'[t] = [c EXCEPT !.op = Backends(c.op), !.p = c.p] /\ asked'[t] = c
      /\ \A u \in All \ {t} : call'[u] = call[u] /\ asked'[u] = asked[u]
      /\ DOMAIN asked' = All
  BY <1>0, <1>1, <1>4, Zenon DEF HoldInv, ApartInv
<1>6. call'[t].op = Backends(c.op) /\ call'[t].p = c.p /\ call'[t].q = c.q /\ call'[t].ret = NoReply
  BY <1>5, Zenon
<1>13. Unlisted' = Unlisted /\ Unmade' = Unmade
  <2>0. call[t] = Idle BY <1>2, Zenon
  <2>1. call[t].op = "none" BY <2>0, Fresh, Zenon
  <2>2. ~ HasFiles(t) /\ t \notin entered BY <1>0, <2>1, Zenon DEF HoldInv, FilesFirst
  <2>3. \A u \in All : HasFiles(u)' <=> HasFiles(u) BY <1>2, Zenon DEF HasFiles
  <2>4. \A u : u \in entered' <=> u \in entered /\ u # t BY <1>2, <2>2, Zenon
  <2> QED BY <1>0, <1>5, <2>2, <2>3, <2>4, HeldKept, Zenon
<1>14. Unlisted \cap DirPaths = {}
  <2>1. \A u \in All : call[u].op = "load" => call[u].p \notin DirPaths
    BY <1>0, Zenon DEF Wants, FilePaths, DirPaths
  <2> QED BY <2>1, Zenon DEF Unlisted
<1>7. TreeInv'
  <2>1. DOMAIN fastlink' = {} BY <1>0, <1>1, Zenon DEF TreeInv, Without
  <2>2. Present' = Present /\ FilePaths' = FilePaths /\ DirPaths' = DirPaths
    BY <1>2, <1>13, Zenon DEF Present, FilePaths, DirPaths
  <2> QED BY <1>0, <1>2, <2>1, <2>2, Zenon DEF TreeInv
<1>8. DirsInv'
  <2>0. call[t] = Idle BY <1>2, Zenon
  <2>1. call[t].op = "none" BY <2>0, Fresh, Zenon
  <2>2. ~ HasDirs(t) BY <1>0, <2>1, Zenon DEF DirsInv
  <2>3. \A u \in All : HasDirs(u)' => u # t /\ HasDirs(u) BY <1>2, <2>2, Zenon DEF HasDirs
  <2> QED BY <1>0, <1>2, <1>5, <2>3, ZenonT(60) DEF DirsInv, IsDir
<1>9. ApartInv'
  <2>1. t \in Threads => Apart(c, Idle) /\ Apart(Idle, c)
    <3>1. asked[t] = Idle BY <1>0, <1>2, Zenon DEF AskInv
    <3> QED BY <1>1, <3>1, ApartBoth, Zenon
  <2>2. t \in Threads => \A u \in Threads : Apart(c, asked[u]) /\ Apart(asked[u], c)
    BY <1>1, ApartBoth, Zenon
  <2>3. Threads \subseteq All BY Zenon DEF All
  <2> QED BY <1>0, <1>5, <2>1, <2>2, <2>3, Zenon DEF ApartInv
<1>10. Wants(t)'
  <2>1. c.p \in Known BY Zenon
  <2> QED BY <1>0, <1>1, <1>2, <1>6, <1>13, <1>14, <2>1, CallWants, ZenonT(60)
<1>11. AskInv(t)'
  <2>1. call'[t].op \notin ByWorker \cup {"none", "reply"} => t \in Threads
    <3>1. SUFFICES ASSUME t = Loader, Backends(c.op) \notin ByWorker PROVE FALSE BY <1>6, Zenon DEF All
    <3>2. c.op \in ByWorker BY <1>1, <3>1, Zenon
    <3> QED BY <3>1, <3>2, Zenon DEF Backends, ByWorker, Setattr
  <2>2. call'[t] = Idle => asked'[t] = Idle
    <3>1. SUFFICES ASSUME call'[t] = Idle PROVE c = Idle BY <1>5, Zenon
    <3>2. /\ Backends(c.op) = "none" /\ c.p = Root /\ c.q = Root /\ c.ret = NoReply
      BY <1>6, <3>1 DEF Idle
    <3>3. c.op = "none" BY <3>2, Zenon DEF Backends
    <3> QED BY <3>2, <3>3, Zenon DEF Idle
  <2> QED BY <1>5, <1>6, <2>1, <2>2, Zenon DEF AskInv
<1>12. ASSUME NEW u \in All, u # t PROVE Wants(u)' /\ AskInv(u)'
  BY <1>0, <1>2, <1>5, <1>12, <1>13, SameWants, Zenon
<1> QED BY <1>7, <1>8, <1>9, <1>10, <1>11, <1>12, Zenon DEF SteadyInv

(* So does a thread that comes back for the next call.                       *)
LEMMA RestSteady ==
  ASSUME NameInv, SteadyInv, NEW t \in All, Rest(t)
  PROVE  SteadyInv'
<1>0. HoldInv /\ TreeInv /\ DirsInv /\ ApartInv /\ \A u \in All : Wants(u) /\ AskInv(u)
  BY Zenon DEF NameInv, SteadyInv
<1>1. /\ call[t].op = "reply" /\ call' = [call EXCEPT ![t] = Idle] /\ asked' = [asked EXCEPT ![t] = Idle]
      /\ UNCHANGED <<files, dirs, i_inode, m_files_mutex, m_dirs_mutex, entered,
                     mount, fastlink, records, dcache>>
  BY Zenon DEF Rest
<1>2. /\ call'[t] = Idle /\ asked'[t] = Idle /\ DOMAIN asked' = All
      /\ \A u \in All \ {t} : call'[u] = call[u] /\ asked'[u] = asked[u]
  BY <1>0, <1>1, Zenon DEF HoldInv, ApartInv
<1>8. Unlisted' = Unlisted /\ Unmade' = Unmade
  <2>2. ~ HasFiles(t) /\ t \notin entered BY <1>0, <1>1, Zenon DEF HoldInv, FilesFirst
  <2>3. \A u \in All : HasFiles(u)' <=> HasFiles(u) BY <1>1, Zenon DEF HasFiles
  <2>4. \A u : u \in entered' <=> u \in entered /\ u # t BY <1>1, <2>2, Zenon
  <2> QED BY <1>0, <1>2, <2>2, <2>3, <2>4, HeldKept, Zenon
<1>3. TreeInv'
  <2>1. Present' = Present /\ FilePaths' = FilePaths /\ DirPaths' = DirPaths
    BY <1>1, <1>8, Zenon DEF Present, FilePaths, DirPaths
  <2> QED BY <1>0, <1>1, <2>1, Zenon DEF TreeInv
<1>4. DirsInv'
  <2>1. ~ HasDirs(t) BY <1>0, <1>1, Zenon DEF DirsInv
  <2>2. \A u \in All : HasDirs(u)' => u # t /\ HasDirs(u) BY <1>1, <2>1, Zenon DEF HasDirs
  <2> QED BY <1>0, <1>1, <1>2, <2>2, SMTT(30) DEF DirsInv, IsDir
<1>5. ApartInv'
  <2>1. Apart(Idle, Idle) BY Zenon DEF Apart, Changes, Lists, Removes, Idle
  <2>2. Threads \subseteq All BY Zenon DEF All
  <2> QED BY <1>0, <1>2, <2>1, <2>2, Zenon DEF ApartInv
<1>6. Wants(t)' /\ AskInv(t)'
  <2>0. call'[t] = Idle BY <1>2, Zenon
  <2>1. call'[t].op = "none" BY <2>0, Fresh, Zenon
  <2> QED BY <1>2, <2>1, Zenon DEF Wants, AskInv, OnHandle, Reaching, Finds
<1>7. ASSUME NEW u \in All, u # t PROVE Wants(u)' /\ AskInv(u)'
  BY <1>0, <1>1, <1>2, <1>7, <1>8, SameWants, Zenon
<1> QED BY <1>3, <1>4, <1>5, <1>6, <1>7, Zenon DEF SteadyInv

(* And every step of a call.                                                 *)
LEMMA StepSteady ==
  ASSUME NameInv, SteadyInv, NEW t \in All, Step(t), ~ Rest(t)
  PROVE  SteadyInv'
<1>0. HoldInv /\ TreeInv /\ DirsInv /\ ApartInv /\ \A u \in All : Wants(u) /\ AskInv(u)
  BY Zenon DEF NameInv, SteadyInv
<1>1. /\ Moves(t) /\ Tidy(Present', dirs') /\ Settles(t) /\ Recorded(t)
      /\ DOMAIN fastlink' = {} /\ DOMAIN dcache' = {}
  BY StepEffect, Zenon
<1>2. UNCHANGED <<mount, asked>> BY StepKinds, Zenon
<1>3. \/ /\ call'[t].op = "reply" /\ \A u \in All \ {t} : call'[u] = call[u]
         /\ \E r : Return(t, r)
      \/ UNCHANGED call
  BY <1>0, <1>1, Returning, Zenon DEF Settles
<1>4. TreeInv'
  <2>1. FilePaths' = FilePaths /\ DirPaths' = DirPaths BY <1>2, Zenon DEF FilePaths, DirPaths
  <2>2. DOMAIN files' \subseteq FilePaths
    <3>1. ASSUME NEW x \in DOMAIN files' PROVE x \in FilePaths
      BY <1>0, <1>1, Zenon DEF Moves, Wants, TreeInv
    <3> QED BY <3>1, Zenon
  <2>3. DOMAIN dirs' \subseteq DirPaths \cup {Root}
    <3>1. ASSUME NEW x \in DOMAIN dirs' PROVE x \in DirPaths \cup {Root}
      BY <1>0, <1>1, ZenonT(30) DEF Moves, Wants, TreeInv
    <3> QED BY <3>1, Zenon
  <2>4. DOMAIN files' \cap DOMAIN dirs' = {}
    <3>1. ASSUME NEW x \in DOMAIN files', x \in DOMAIN dirs' PROVE FALSE
      <4>1. x \in Paths
        <5>1. x \in FilePaths /\ mount \in MountRecord BY <1>0, <2>2, Zenon DEF HoldInv
        <5> QED BY <5>1, Zenon DEF FilePaths, MountRecord
      <4>2. x # Root BY <4>1, PathParts, Zenon
      <4>3. call[t].op = "load" => FALSE
        <5>1. SUFFICES ASSUME call[t].op = "load" PROVE FALSE BY Zenon
        <5>2. FilePaths \cap DirPaths = {} BY <1>0, <5>1, Zenon DEF Wants, FilePaths, DirPaths
        <5> QED BY <2>2, <2>3, <3>1, <4>2, <5>2, Zenon
      <4>4. x \in DOMAIN files => x \notin DOMAIN dirs BY <1>0, Zenon DEF TreeInv
      <4>5. Wants(t) BY <1>0, Zenon
      <4> QED BY <1>1, <3>1, <4>3, <4>4, <4>5, ZenonT(60) DEF Moves, Wants, IsFile, IsDir
    <3> QED BY <3>1, Zenon
  <2> QED BY <1>1, <2>1, <2>2, <2>3, <2>4, Zenon DEF TreeInv, Recorded
<1>5. DirsInv'
  <2>0. Nobody \notin All BY PathsAssumption, Zenon
  <2>1. ASSUME NEW u \in All, HasDirs(u) PROVE DOMAIN dirs' = DOMAIN dirs
    BY <1>1, <2>0, <2>1, Zenon DEF Settles, HasDirs
  <2>2. CASE \E r : Return(t, r)
    <3>1. m_dirs_mutex' = IF HasDirs(t) THEN Nobody ELSE m_dirs_mutex BY <2>2, Zenon DEF Return
    <3>2. \A u \in All \ {t} : call'[u] = call[u] BY <1>0, <2>2, Returning, Zenon
    <3>3. \A u \in All : HasDirs(u)' => u # t /\ HasDirs(u) BY <2>0, <3>1, Zenon DEF HasDirs
    <3>4. ASSUME NEW u \in All, HasDirs(u)' PROVE call'[u].op = "setattr" /\ ~ IsDir(call[u].p)'
      <4>1. HasDirs(u) /\ call'[u] = call[u] BY <3>2, <3>3, <3>4, Zenon
      <4>2. call[u].op = "setattr" /\ ~ IsDir(call[u].p) BY <1>0, <4>1, Zenon DEF DirsInv
      <4>3. DOMAIN dirs' = DOMAIN dirs BY <2>1, <4>1, Zenon
      <4> QED BY <4>1, <4>2, <4>3, Zenon DEF IsDir
    <3> QED BY <1>0, <3>1, <3>4, Zenon DEF DirsInv
  <2>3. CASE UNCHANGED <<call, m_dirs_mutex>>
    <3>1. ASSUME NEW u \in All, HasDirs(u)' PROVE call'[u].op = "setattr" /\ ~ IsDir(call[u].p)'
      <4>1. HasDirs(u) BY <2>3, <3>1, Zenon DEF HasDirs
      <4> QED BY <1>0, <2>1, <2>3, <4>1, Zenon DEF DirsInv, IsDir
    <3> QED BY <1>0, <2>3, <3>1, Zenon DEF DirsInv
  <2>4. CASE /\ m_dirs_mutex = Nobody /\ m_dirs_mutex' = t /\ UNCHANGED <<call, files, dirs>>
             /\ call[t].op = "setattr" /\ ~ IsDir(call[t].p)
    BY <2>4, Zenon DEF DirsInv, HasDirs, IsDir
  <2> QED BY <1>1, <2>2, <2>3, <2>4, Zenon DEF Settles
<1>6. ApartInv' BY <1>0, <1>2, Zenon DEF ApartInv
<1>7. ASSUME NEW u \in All, u # t PROVE Wants(u)' /\ AskInv(u)'
  <2>1. call'[u] = call[u] BY <1>3, <1>7, Zenon
  <2>2. Wants(u)' BY <1>0, <1>1, <1>2, <1>7, <2>1, WantsKept, Zenon
  <2>3. AskInv(u)' BY <1>0, <1>2, <2>1, Zenon DEF AskInv
  <2> QED BY <2>2, <2>3, Zenon
<1>8. CASE call'[t].op = "reply"
  <2>1. call'[t] # Idle BY <1>8, Fresh, Zenon
  <2>2. Wants(t)' /\ AskInv(t)' BY <1>8, <2>1, Zenon DEF Wants, AskInv, OnHandle, Reaching, Finds
  <2> QED BY <1>4, <1>5, <1>6, <1>7, <2>2, Zenon DEF SteadyInv
<1>9. CASE UNCHANGED call /\ call[t].op # "reply"
  <2>1. \A r : ~ Return(t, r) BY <1>0, <1>9, Returning, Zenon
  <2>2. UNCHANGED records BY <1>1, <2>1, Zenon DEF Recorded
  <2>4. \/ call[t].op \in {"load", "setattr"} \/ Unlisted' = Unlisted
    BY <1>1, <2>1, Zenon DEF Settles
  <2>5. call[t].op = "load" \/ (DOMAIN files' = DOMAIN files /\ DOMAIN dirs' = DOMAIN dirs)
    BY <1>1, <2>1, Zenon DEF Settles
  <2>6. call[t].op \in Finds => Unlisted' = Unlisted BY <2>4, Zenon DEF Finds
  <2>3. Wants(t)' /\ AskInv(t)' BY <1>0, <1>2, <1>9, <2>2, <2>5, <2>6, SameWants, ZenonT(60)
  <2> QED BY <1>4, <1>5, <1>6, <1>7, <2>3, SMTT(30) DEF SteadyInv
<1> QED BY <1>3, <1>8, <1>9, Zenon

(* A steady mount stays one.                                                 *)
LEMMA SteadyStays == ASSUME [Next]_vars PROVE Steady' <=> Steady
<1>1. UNCHANGED mount
  <2>1. ASSUME NEW t \in All, Step(t), ~ Rest(t) PROVE UNCHANGED mount BY <2>1, StepKinds, Zenon
  <2> QED BY <2>1, ZenonT(60) DEF Next, Call, Rest, Forget, Dead, vars, frontVars
<1> QED BY <1>1, Zenon DEF Steady

(* On a steady mount the invariant holds throughout.                         *)
THEOREM SteadyInvariance == Spec => [](Steady => SteadyInv)
<1>1. Init => (Steady => SteadyInv)
  <2>1. SUFFICES ASSUME Init PROVE SteadyInv BY Zenon
  <2>2. /\ DOMAIN files = {} /\ DOMAIN dirs = {Root} /\ dirs[Root] = NewDir /\ i_inode = 0
        /\ m_dirs_mutex = Nobody /\ \A t \in All : call[t] = Idle /\ asked[t] = Idle
        /\ DOMAIN asked = All /\ m_files_mutex = Nobody /\ entered = {}
    BY <2>1 DEF Init, BackendInit
  <2>3. DOMAIN fastlink = {} /\ DOMAIN dcache = {} BY <2>1 DEF Init
  <2>4. DOMAIN records = Handles /\ \A h \in Handles : records[h] = 0 BY <2>1, Zenon DEF Init
  <2>5. Tidy(Present, dirs)
    <3>1. Present = {} BY <2>2, Zenon DEF Present, Unmade
    <3>0. dirs[Root] = NewDir BY <2>2, Zenon
    <3>2. dirs[Root].names = {} /\ dirs[Root].nlink = 1 BY <3>0, Fresh, Zenon
    <3>3. IsFiniteSet({}) /\ Cardinality({}) = 0 BY FS_EmptySet, Zenon
    <3>4. Listed({}, Root) = {} BY Zenon DEF Listed
    <3>5. ASSUME NEW d \in DOMAIN dirs
          PROVE  /\ dirs[d].names = Listed({}, d)
                 /\ IsFiniteSet(dirs[d].names) /\ dirs[d].nlink = 1 + Cardinality(dirs[d].names)
      <4>1. d = Root BY <2>2, Zenon
      <4>2. Cardinality(dirs[d].names) = 0 /\ IsFiniteSet(dirs[d].names) BY <3>2, <3>3, <4>1, Zenon
      <4> QED BY <3>2, <3>4, <4>1, <4>2, SMTT(30)
    <3>6. Root \in DOMAIN dirs BY <2>2, Zenon
    <3> QED BY <3>1, <3>5, <3>6, Zenon DEF Tidy
  <2>6. TreeInv BY <2>2, <2>3, <2>4, <2>5, SMTT(30) DEF TreeInv
  <2>7. DirsInv BY <2>2, PathsAssumption, Zenon DEF DirsInv, HasDirs
  <2>8. ApartInv
    <3>1. Apart(Idle, Idle) BY Zenon DEF Apart, Changes, Lists, Removes, Idle
    <3>2. Threads \subseteq All BY Zenon DEF All
    <3> QED BY <2>2, <3>1, <3>2, Zenon DEF ApartInv
  <2>9. ASSUME NEW t \in All PROVE Wants(t) /\ AskInv(t)
    <3>0. call[t] = Idle /\ asked[t] = Idle BY <2>2, Zenon
    <3>1. call[t].op = "none" BY <3>0, Fresh, Zenon
    <3> QED BY <3>0, <3>1, Zenon DEF Wants, AskInv, OnHandle, Reaching, Finds
  <2> QED BY <2>6, <2>7, <2>8, <2>9, Zenon DEF SteadyInv
<1>2. NameInv /\ (Steady => SteadyInv) /\ [Next]_vars => (Steady => SteadyInv)'
  <2>1. SUFFICES ASSUME NameInv, Steady => SteadyInv, [Next]_vars, Steady' PROVE SteadyInv' BY Zenon
  <2>3. Steady BY <2>1, SteadyStays, Zenon
  <2>4. SteadyInv BY <2>1, <2>3, Zenon
  <2>5. ASSUME UNCHANGED <<backendVars, mount, asked, fastlink, records>>, DOMAIN dcache' = {}
        PROVE  SteadyInv'
    <3>1. UNCHANGED <<files, dirs, i_inode, m_files_mutex, m_dirs_mutex, call, entered>>
      BY <2>5, Zenon DEF backendVars
    <3>7. Unlisted' = Unlisted /\ Unmade' = Unmade BY <3>1, HeldSame, Zenon
    <3>2. Present' = Present /\ FilePaths' = FilePaths /\ DirPaths' = DirPaths
      BY <2>5, <3>1, <3>7, Zenon DEF Present, FilePaths, DirPaths
    <3>3. TreeInv' BY <2>4, <2>5, <3>1, <3>2, ZenonT(60) DEF SteadyInv, TreeInv
    <3>4. DirsInv' BY <2>4, <3>1, Zenon DEF SteadyInv, DirsInv, HasDirs, IsDir
    <3>5. ApartInv' BY <2>4, <2>5, Zenon DEF SteadyInv, ApartInv
    <3>6. \A u \in All : Wants(u)' /\ AskInv(u)' BY <2>4, <2>5, <3>1, <3>7, SameWants, Zenon DEF SteadyInv
    <3> QED BY <3>3, <3>4, <3>5, <3>6, Zenon DEF SteadyInv
  <2>6. CASE Forget BY <2>4, <2>6, Zenon DEF Forget, SteadyInv, TreeInv
  <2>7. CASE UNCHANGED vars
    <3>1. UNCHANGED <<backendVars, mount, asked, fastlink, records, dcache>>
      BY <2>7, Zenon DEF vars, frontVars
    <3>2. DOMAIN dcache = {} BY <2>4, Zenon DEF SteadyInv, TreeInv
    <3> QED BY <2>5, <3>1, <3>2, Zenon
  <2>8. ASSUME NEW t \in All, Call(t) \/ Step(t) PROVE SteadyInv'
    BY <2>1, <2>3, <2>4, <2>8, CallSteady, RestSteady, StepSteady, ZenonT(30)
  <2> QED BY <2>1, <2>6, <2>7, <2>8, Zenon DEF Next, Dead
<1> QED BY <1>1, <1>2, NameInvariance, PTL DEF Spec

(* On a mount where no directory is renamed and nothing is linked, every     *)
(* directory lists exactly what is below it, its link count agrees, and      *)
(* nothing is without a directory, however the calls of any number of        *)
(* threads and the imports of the worker interleave.                         *)
THEOREM TreeStaysTidy == Spec => []LoadEntries
<1>1. ASSUME Steady => SteadyInv PROVE LoadEntries
  <2>1. SUFFICES ASSUME SteadyInv PROVE EntriesExact /\ LinksCounted /\ ParentsThere
    BY <1>1, Zenon DEF LoadEntries
  <2>2. Tidy(Present, dirs) BY <2>1, Zenon DEF SteadyInv, TreeInv
  <2>3. EntriesExact BY <2>2, Zenon DEF EntriesExact, Tidy, Listed, Present
  <2>4. LinksCounted BY <2>2, Zenon DEF LinksCounted, Tidy
  <2>5. ParentsThere BY <2>2, Zenon DEF ParentsThere, Tidy, Present, IsDir
  <2> QED BY <2>3, <2>4, <2>5, Zenon
<1>2. (Steady => SteadyInv) => LoadEntries BY <1>1, Zenon
<1> QED BY <1>2, SteadyInvariance, PTL

-----------------------------------------------------------------------------
\* No open file has the number of a file that load has not entered yet.
HiddenInv == \A x \in Unlisted, h \in Handles : x \in DOMAIN files /\ records[h] # files[x]

(* Such a file cannot be opened, and its number was new when load took it.   *)
LEMMA HiddenKept ==
  ASSUME NameInv, SteadyInv, HiddenInv, NEW t \in All, Step(t), ~ Rest(t)
  PROVE  HiddenInv'
<1>0. HoldInv /\ TreeInv /\ Wants(t) /\ AskInv(t) BY Zenon DEF NameInv, SteadyInv
<1>1. ASSUME UNCHANGED <<files, records>>, Unlisted' = Unlisted PROVE HiddenInv'
  BY <1>1, Zenon DEF HiddenInv
<1>2. ASSUME Unlisted' = {} PROVE HiddenInv' BY <1>2, Zenon DEF HiddenInv
<1>3. ASSUME UNCHANGED <<files, records>>, (\E r : Return(t, r)) \/ UNCHANGED <<call, m_files_mutex, entered>>
      PROVE  HiddenInv'
  <2>1. CASE HasFiles(t) BY <1>0, <1>1, <1>2, <1>3, <2>1, HeldNoMore, HeldSame, Zenon
  <2>2. CASE ~ HasFiles(t) BY <1>0, <1>1, <1>3, <2>2, HeldReturn, HeldSame, Zenon
  <2> QED BY <2>1, <2>2, Zenon
<1>4. CASE LockFiles(t) /\ UNCHANGED records
  <2>1. CASE UNCHANGED files /\ Unlisted' = Unlisted BY <1>1, <1>4, <2>1, Zenon
  <2>2. CASE call[t].op = "load" /\ \E r : Return(t, r)
    <3>1. UNCHANGED files
      <4>1. call'[t].op = "reply" BY <1>0, <2>2, Returning, Zenon
      <4> QED BY <1>4, <2>2, <4>1, Zenon DEF LockFiles, Runs
    <3> QED BY <1>3, <1>4, <2>2, <3>1, Zenon
  <2>3. CASE /\ call[t].op = "load" /\ m_files_mutex' = t /\ UNCHANGED call
             /\ files' = Put(files, call[t].p, i_inode + 1)
    <3>1. Unlisted' = {call[t].p}
      <4>1. \A u \in All : HasFiles(u)' <=> u = t BY <2>3, Zenon DEF HasFiles
      <4> QED BY <2>3, <4>1, Zenon DEF Unlisted
    <3>2. call[t].p \in DOMAIN files' /\ files'[call[t].p] = i_inode + 1 BY <2>3, Zenon DEF Put
    <3>3. \A h \in Handles : records'[h] # i_inode + 1
      BY <1>0, <1>4, SMTT(30) DEF TreeInv, NameInv, NumberInv
    <3> QED BY <3>1, <3>2, <3>3, Zenon DEF HiddenInv
  <2> QED BY <1>0, <1>4, <2>1, <2>2, <2>3, LockTree, Zenon DEF LockFiles, Runs, GoesOn
<1>5. CASE Backend(t) /\ ~ LockFiles(t) /\ UNCHANGED records
  <2>1. CASE Load(t) BY <1>0, <1>2, <2>1, LoadTree, Zenon
  <2>2. CASE Unlink(t) BY <1>0, <1>2, <2>2, UnlinkTree, Zenon
  <2>3. CASE Rename(t) BY <1>0, <1>2, <2>3, RenameTree, Zenon
  <2>4. CASE Mkdir(t) \/ Rmdir(t) BY <1>3, <1>5, <2>4, Zenon DEF Mkdir, Rmdir
  <2>5. CASE EnterName(t)
    <3>1. UNCHANGED <<files, call, m_files_mutex>> BY <2>5, Zenon DEF EnterName, GoesOn
    <3>2. Unlisted' = Unlisted BY <3>1, Zenon DEF Unlisted, HasFiles
    <3> QED BY <1>1, <1>5, <3>1, <3>2, Zenon
  <2>6. CASE StatDirs(t) \/ Readdir(t) \/ SetattrDirs(t) \/ SetattrFiles(t) \/ unload(t)
    BY <1>3, <1>5, <2>6, ZenonT(60) DEF StatDirs, Readdir, SetattrDirs, SetattrFiles, unload, GoesOn
  <2> QED BY <1>5, <2>1, <2>2, <2>3, <2>4, <2>5, <2>6, Zenon DEF Backend
<1>6. ASSUME NEW h \in Handles, Made(t, h) PROVE HiddenInv'
  BY <1>0, <1>2, <1>6, CreateTree, Zenon DEF Made
<1>7. CASE find(t) \/ Touch(t, "utimens") \/ Touch(t, "truncate")
  BY <1>3, <1>7, ZenonT(60) DEF find, Touch, Stays, GoesOn
<1>8. CASE efsng_open(t)
  <2>1. call[t].op \in Finds /\ UNCHANGED files /\ ((\E r : Return(t, r)) \/ GoesOn)
    BY <1>8, Zenon DEF efsng_open, Runs, Finds, Stays
  <2>2. ~ HasFiles(t) BY <1>0, <2>1, Zenon DEF HoldInv, FilesFirst, Finds
  <2>3. Unlisted' = Unlisted BY <1>0, <2>1, <2>2, HeldReturn, HeldSame, Zenon DEF GoesOn
  <2>4. ASSUME NEW x \in Unlisted, NEW h \in Handles PROVE x \in DOMAIN files /\ records'[h] # files[x]
    <3>1. x \in DOMAIN files /\ records[h] # files[x] BY Zenon DEF HiddenInv
    <3>2. call[t].p \in DOMAIN files /\ call[t].p # x BY <1>0, <2>1, Zenon DEF Wants, Shown
    <3>3. files[call[t].p] # files[x] BY <3>1, <3>2, Zenon DEF NameInv, OneNameEach
    <3>4. records'[h] = records[h] \/ records'[h] = files[call[t].p]
      BY <1>0, <1>8, ZenonT(60) DEF efsng_open, Valid, TreeInv
    <3> QED BY <3>1, <3>3, <3>4, Zenon
  <2> QED BY <2>1, <2>3, <2>4, Zenon DEF HiddenInv
<1>9. CASE (\E op \in Reaching : Reach(t, op)) \/ \E op, r : Tells(t, op, r)
  BY <1>3, <1>9, Zenon DEF Reach, Tells, Answers, Stays
<1>10. CASE efsng_release(t)
  <2>1. call[t].op = "release" /\ UNCHANGED files /\ \E r : Return(t, r)
    BY <1>10, Zenon DEF efsng_release, Runs, Stays
  <2>2. ~ HasFiles(t) BY <1>0, <2>1, Zenon DEF HoldInv, FilesFirst
  <2>3. Unlisted' = Unlisted BY <1>0, <2>1, <2>2, HeldReturn, Zenon
  <2>4. \A h \in Handles : records'[h] = records[h] \/ records'[h] = 0
    BY <1>0, <1>10, Zenon DEF efsng_release, TreeInv
  <2>5. \A x \in DOMAIN files : files[x] # 0 BY SMTT(30) DEF NameInv, NumberInv
  <2> QED BY <2>1, <2>3, <2>4, <2>5, Zenon DEF HiddenInv
<1>11. ~ efsng_symlink(t) BY <1>0, Zenon DEF efsng_symlink, Runs, Wants
<1> QED BY <1>0, <1>4, <1>5, <1>6, <1>7, <1>8, <1>9, <1>10, <1>11, StepCases, ZenonT(60)

(* The calls that start and the threads that come back leave it.             *)
LEMMA BetweenCalls ==
  ASSUME HoldInv, NEW t \in All, Call(t) \/ Rest(t)
  PROVE  Unlisted' = Unlisted /\ UNCHANGED <<files, dirs, records>>
<1>1. /\ call[t].op \in {"none", "reply"} /\ \A u \in All \ {t} : call'[u] = call[u]
      /\ UNCHANGED <<files, dirs, records, m_files_mutex, entered>>
  <2>1. CASE Call(t)
    <3>1. call[t] = Idle /\ UNCHANGED <<files, dirs, records, m_files_mutex, entered>>
      BY <2>1, Zenon DEF Call
    <3>2. \E c : call' = [call EXCEPT ![t] = c] BY <2>1, Zenon DEF Call
    <3> QED BY <3>1, <3>2, Fresh, Zenon DEF HoldInv
  <2>2. CASE Rest(t) BY <2>2, Zenon DEF Rest, HoldInv
  <2> QED BY <2>1, <2>2, Zenon
<1>2. ~ HasFiles(t) /\ t \notin entered BY <1>1, Zenon DEF HoldInv, FilesFirst
<1>3. \A u \in All : HasFiles(u)' <=> HasFiles(u) BY <1>1, Zenon DEF HasFiles
<1>4. \A u : u \in entered' <=> u \in entered /\ u # t BY <1>1, <1>2, Zenon
<1> QED BY <1>1, <1>2, <1>3, <1>4, HeldKept, Zenon

(* So it holds throughout.                                                   *)
LEMMA HiddenInvariance == Spec => [](Steady => HiddenInv)
<1>1. Init => (Steady => HiddenInv)
  <2>1. SUFFICES ASSUME Init PROVE Unlisted = {} BY Zenon DEF HiddenInv
  <2>2. m_files_mutex = Nobody BY <2>1, Zenon DEF Init, BackendInit
  <2> QED BY <2>2, PathsAssumption, Zenon DEF Unlisted, HasFiles
<1>2. NameInv /\ (Steady => SteadyInv) /\ (Steady => HiddenInv) /\ [Next]_vars => (Steady => HiddenInv)'
  <2>1. SUFFICES ASSUME NameInv, Steady => SteadyInv /\ HiddenInv, [Next]_vars, Steady' PROVE HiddenInv'
    BY Zenon
  <2>2. Steady BY <2>1, SteadyStays, Zenon
  <2>3. CASE Forget \/ UNCHANGED vars
    <3>1. UNCHANGED <<files, call, m_files_mutex, entered, records>>
      BY <2>3, Zenon DEF Forget, vars, backendVars, frontVars
    <3>2. Unlisted' = Unlisted BY <3>1, HeldSame, Zenon
    <3> QED BY <2>1, <2>2, <3>1, <3>2, Zenon DEF HiddenInv
  <2>4. ASSUME NEW t \in All, Call(t) \/ Rest(t) PROVE HiddenInv'
    BY <2>1, <2>2, <2>4, BetweenCalls, Zenon DEF NameInv, HiddenInv
  <2>5. ASSUME NEW t \in All, Step(t), ~ Rest(t) PROVE HiddenInv'
    BY <2>1, <2>2, <2>5, HiddenKept, Zenon
  <2> QED BY <2>1, <2>3, <2>4, <2>5, Zenon DEF Next, Dead
<1> QED BY <1>1, <1>2, NameInvariance, SteadyInvariance, PTL DEF Spec

-----------------------------------------------------------------------------
(* The tree of the abstract specification, in terms of m_files and m_dirs.   *)
LEMMA TreeFacts ==
  ASSUME NameInv, TreeInv
  PROVE  /\ DOMAIN TreeOf = Shown \cup DOMAIN dirs
         /\ \A x \in Shown : TreeOf[x] = files[x] /\ TreeOf[x] \in 1 .. i_inode
         /\ \A x \in DOMAIN dirs : TreeOf[x] = 0
         /\ \A x : (Tree!HasFile(x) <=> x \in Shown) /\ (Tree!HasDir(x) <=> IsDir(x))
         /\ \A d : Tree!Children(d) = {x \in Shown \cup (DOMAIN dirs \ {Root}) : Parent(x) = d}
<1>1. DOMAIN TreeOf = Shown \cup DOMAIN dirs
      /\ \A x \in DOMAIN TreeOf : TreeOf[x] = IF x \in Shown THEN files[x] ELSE 0
  BY Zenon DEF TreeOf, Shown
<1>2. \A x \in Shown : files[x] \in 1 .. i_inode BY Zenon DEF NameInv, NumberInv, Shown
<1>3. Shown \cap DOMAIN dirs = {} BY Zenon DEF TreeInv, Shown
<1>4. \A x \in Shown : TreeOf[x] = files[x] /\ TreeOf[x] \in 1 .. i_inode /\ TreeOf[x] # 0
  BY <1>1, <1>2 DEF NameInv, NumberInv
<1>5. \A x \in DOMAIN dirs : TreeOf[x] = 0 BY <1>1, <1>3, Zenon
<1>6. \A x : (Tree!HasFile(x) <=> x \in Shown) /\ (Tree!HasDir(x) <=> IsDir(x))
  BY <1>1, <1>4, <1>5, Zenon DEF Tree!HasFile, Tree!HasDir, IsDir
<1>7. ASSUME NEW d PROVE Tree!Children(d) = {x \in Shown \cup (DOMAIN dirs \ {Root}) : Parent(x) = d}
  <2>1. Root \notin Shown
    <3>1. Shown \subseteq Paths BY Zenon DEF TreeInv, Tidy, Present, Shown
    <3> QED BY <3>1, PathParts, Zenon
  <2>2. Shown \cup (DOMAIN dirs \ {Root}) = {x \in DOMAIN TreeOf : x # <<>>} BY <1>1, <2>1, Zenon DEF Root
  <2> QED BY <2>2, Zenon DEF Tree!Children, Tree!Up, Parent
<1> QED BY <1>1, <1>4, <1>5, <1>6, <1>7, Zenon

(* While load has no file to enter, every file of m_files is in the tree.    *)
LEMMA TreePlain ==
  /\ Unlisted = {} => /\ Shown = DOMAIN files
                      /\ TreeOf = [x \in DOMAIN files \cup DOMAIN dirs |-> IF x \in DOMAIN files THEN files[x] ELSE 0]
  /\ Unlisted' = {} => /\ Shown' = DOMAIN files'
                       /\ TreeOf' = [x \in DOMAIN files' \cup DOMAIN dirs' |->
                                       IF x \in DOMAIN files' THEN files'[x] ELSE 0]
<1>1. ASSUME Unlisted = {}
      PROVE  /\ Shown = DOMAIN files
             /\ TreeOf = [x \in DOMAIN files \cup DOMAIN dirs |-> IF x \in DOMAIN files THEN files[x] ELSE 0]
  <2>1. Shown = DOMAIN files BY <1>1, Zenon DEF Shown
  <2>2. TreeOf = [x \in Shown \cup DOMAIN dirs |-> IF x \in Shown THEN files[x] ELSE 0]
    BY Zenon DEF TreeOf, Shown
  <2> QED BY <2>1, <2>2, Zenon
<1>2. ASSUME Unlisted' = {}
      PROVE  /\ Shown' = DOMAIN files'
             /\ TreeOf' = [x \in DOMAIN files' \cup DOMAIN dirs' |-> IF x \in DOMAIN files' THEN files'[x] ELSE 0]
  <2>1. Shown' = DOMAIN files' BY <1>2, Zenon DEF Shown
  <2>2. TreeOf' = [x \in Shown' \cup DOMAIN dirs' |-> IF x \in Shown' THEN files'[x] ELSE 0]
    BY Zenon DEF TreeOf, Shown
  <2> QED BY <2>1, <2>2, Zenon
<1> QED BY <1>1, <1>2, Zenon

(* Answers read the same in both specifications.                             *)
LEMMA SameAnswers ==
  /\ \A v : Tree!Ok(v) = Ok(v) /\ Ok(v).err = "0" /\ Ok(v).val = v
  /\ \A e : Tree!Err(e) = Err(e) /\ Err(e).err = e /\ Err(e).val = {}
  /\ Tree!NoReply = NoReply /\ Tree!Resting = Idle
BY Zenon DEF Tree!Ok, Tree!Err, Ok, Err, Tree!NoReply, NoReply, Tree!Resting, Idle, Root

(* A call that returns what the abstract operation allows is its answer.     *)
LEMMA Answered ==
  ASSUME HoldInv, NEW t \in All, NEW r, Return(t, r), call[t].op \notin {"none", "reply"},
         Tree!Act(t, r)
  PROVE  Tree!TreeNext
<1>1. /\ call'[t] = [Idle EXCEPT !.op = "reply", !.ret = r]
      /\ \A u \in All \ {t} : call'[u] = call[u]
  BY Zenon DEF HoldInv, Return
<1>2. call[t].ret = NoReply BY Zenon DEF HoldInv
<1>3. call[t] # Idle BY Fresh, Zenon
<1>4. call'[t].ret = r BY <1>1, Zenon DEF Idle
<1>5. call'[t] = [Tree!Resting EXCEPT !.op = "reply", !.ret = call'[t].ret]
  BY <1>1, <1>4, SameAnswers, Zenon
<1>6. Tree!Act(t, call'[t].ret) BY <1>4, Zenon
<1>7. Tree!Answer(t) BY <1>2, <1>3, <1>5, <1>6, SameAnswers, Zenon DEF Tree!Answer
<1> QED BY <1>1, <1>7, Zenon DEF Tree!TreeNext

(* Which abstract operation a call is.                                       *)
LEMMA Acts ==
  ASSUME NEW t \in All, NEW r
  PROVE  LET c == call[t] IN
         /\ c.op = "stat" /\ Tree!stat(c.p, r) => Tree!Act(t, r)
         /\ c.op = "readdir" /\ Tree!readdir(c.p, r) => Tree!Act(t, r)
         /\ c.op = "setattr" /\ Tree!setattr(c.p, r) => Tree!Act(t, r)
         /\ c.op = "create" /\ Tree!create(c.p, r) => Tree!Act(t, r)
         /\ c.op = "load" /\ Tree!load(c.p, r) => Tree!Act(t, r)
         /\ c.op = "unlink" /\ Tree!unlink(c.p, r) => Tree!Act(t, r)
         /\ c.op = "rename" /\ Tree!rename(c.p, c.q, r) => Tree!Act(t, r)
         /\ c.op = "mkdir" /\ Tree!mkdir(c.p, r) => Tree!Act(t, r)
         /\ c.op = "rmdir" /\ Tree!rmdir(c.p, r) => Tree!Act(t, r)
         /\ c.op = "open" /\ Tree!open(t, c.p, r) => Tree!Act(t, r)
         /\ c.op \in {"utimens", "truncate"} /\ Tree!touch(t, c.p, r) => Tree!Act(t, r)
         /\ c.op \in Reaching /\ (\E h \in Handles : c.q = <<h>> /\ Tree!reach(h, r)) => Tree!Act(t, r)
         /\ c.op = "release" /\ (\E h \in Handles : c.q = <<h>> /\ Tree!release(h, r)) => Tree!Act(t, r)
         /\ c.op \in Plain \cup {"unload"} /\ Tree!tell(r) => Tree!Act(t, r)
BY Zenon DEF Tree!Act, Tree!Reaching, Reaching, Plain, Refused, Accepted

(* What is not changed is the same tree.                                     *)
LEMMA SameTree ==
  ASSUME Shown' = Shown, \A x \in Shown : files'[x] = files[x], DOMAIN dirs' = DOMAIN dirs
  PROVE  TreeOf' = TreeOf
<1>1. /\ TreeOf = [x \in Shown \cup DOMAIN dirs |-> IF x \in Shown THEN files[x] ELSE 0]
      /\ TreeOf' = [x \in Shown' \cup DOMAIN dirs' |-> IF x \in Shown' THEN files'[x] ELSE 0]
  BY Zenon DEF TreeOf, Shown
<1> QED BY <1>1, Zenon

(* So is a tree that a call leaves alone when it returns, or goes on.        *)
LEMMA LeftAlone ==
  ASSUME HoldInv, NEW t \in All, UNCHANGED <<files, dirs>>, ~ HasFiles(t) \/ Unlisted = {},
         (\E r : Return(t, r)) \/ UNCHANGED <<call, m_files_mutex, entered>>
  PROVE  TreeOf' = TreeOf
<1>1. Unlisted' = Unlisted BY HeldReturn, HeldNoMore, HeldSame, Zenon
<1>2. Shown' = Shown BY <1>1, Zenon DEF Shown
<1> QED BY <1>2, SameTree, Zenon

(* The first step of a call that takes m_files_mutex: efsng_getattr may have *)
(* found the file, load that it is imported.                                 *)
LEMMA LockAnswers ==
  ASSUME NameInv, TreeInv, NEW t \in All, LockFiles(t), UNCHANGED records
  PROVE  Tree!TreeNext \/ UNCHANGED Tree!treeVars
<1> DEFINE p == call[t].p
<1>0. HoldInv /\ m_files_mutex = Nobody BY Zenon DEF NameInv, LockFiles
<1>1. TreeOf' = TreeOf /\ call[t].op \notin {"none", "reply"}
  <2>1. /\ Shown' = Shown /\ (\A x \in Shown : files'[x] = files[x]) /\ UNCHANGED dirs
    BY <1>0, LockTree, Zenon
  <2>2. call[t].op \notin {"none", "reply"} BY Zenon DEF LockFiles, Runs
  <2> QED BY <2>1, <2>2, SameTree, Zenon
<1>4. Shown = DOMAIN files BY <1>0, HeldByNone, TreePlain, Zenon
<1>2. CASE UNCHANGED call BY <1>1, <1>2, Zenon DEF Tree!treeVars
<1>3. CASE /\ Runs(t, {"stat", "load"}) /\ IsFile(p)
           /\ Return(t, IF call[t].op = "stat" THEN Ok({files[p]}) ELSE Err("path_already_imported"))
  <2>1. p \in DOMAIN TreeOf /\ TreeOf[p] = files[p] /\ Tree!HasFile(p) BY <1>3, <1>4, TreeFacts, Zenon DEF IsFile
  <2>2. CASE call[t].op = "stat"
    <3>1. Tree!stat(p, Ok({files[p]})) BY <1>1, <2>1, SameAnswers, Zenon DEF Tree!stat
    <3>2. Tree!Act(t, Ok({files[p]})) BY <2>2, <3>1, Acts, Zenon
    <3> QED BY <1>1, <1>3, <2>2, <3>2, Answered, Zenon DEF NameInv
  <2>3. CASE call[t].op = "load"
    <3>1. Tree!load(p, Err("path_already_imported")) BY <1>1, <2>1, SameAnswers, Zenon DEF Tree!load
    <3>2. Tree!Act(t, Err("path_already_imported")) BY <2>3, <3>1, Acts, Zenon
    <3> QED BY <1>1, <1>3, <2>3, <3>2, Answered, Zenon DEF NameInv
  <2> QED BY <1>3, <2>2, <2>3, Zenon DEF Runs
<1> QED BY <1>2, <1>3, Zenon DEF LockFiles, GoesOn

(* The calls that only read m_dirs.                                          *)
LEMMA ReadAnswers ==
  ASSUME NameInv, SteadyInv, NEW t \in All, UNCHANGED records,
         StatDirs(t) \/ Readdir(t) \/ SetattrDirs(t) \/ SetattrFiles(t) \/ unload(t)
  PROVE  Tree!TreeNext \/ UNCHANGED Tree!treeVars
<1> DEFINE p == call[t].p
<1>0. HoldInv /\ TreeInv /\ DirsInv BY Zenon DEF NameInv, SteadyInv
<1>1. TreeOf' = TreeOf
  <2>1. UNCHANGED <<files, dirs>> /\ call[t].op \in {"stat", "readdir", "setattr", "unload"}
    BY Zenon DEF StatDirs, Readdir, SetattrDirs, SetattrFiles, unload, Second, Runs
  <2>2. (\E r : Return(t, r)) \/ UNCHANGED <<call, m_files_mutex, entered>>
    BY ZenonT(60) DEF StatDirs, Readdir, SetattrDirs, SetattrFiles, unload, GoesOn
  <2>3. ~ HasFiles(t) \/ Unlisted = {} BY <1>0, <2>1, HeldBy, Zenon
  <2> QED BY <1>0, <2>1, <2>2, <2>3, LeftAlone, Zenon
<1>2. Unlisted = {} => (p \in DOMAIN TreeOf <=> IsFile(p) \/ IsDir(p))
  BY <1>0, TreeFacts, TreePlain, Zenon DEF IsFile, IsDir
<1>3. CASE StatDirs(t)
  <2>1. call[t].op = "stat" /\ HasFiles(t) BY <1>3, Zenon DEF StatDirs, Second, Runs
  <2>2. ~ IsFile(p) BY <1>0, <2>1, Zenon DEF HoldInv
  <2>3. IsDir(p) => TreeOf[p] = 0 BY <1>0, TreeFacts, Zenon DEF IsDir
  <2>4. PICK r : r = (IF IsDir(p) THEN Ok({0}) ELSE Err("ENOENT")) /\ Return(t, r) BY <1>3, Zenon DEF StatDirs
  <2>0. Unlisted = {} BY <1>0, <2>1, HeldBy, Zenon
  <2>5. Tree!stat(p, r) BY <1>1, <1>2, <2>0, <2>2, <2>3, <2>4, SameAnswers, ZenonT(60) DEF Tree!stat
  <2>6. Tree!Act(t, r) BY <2>1, <2>5, Acts, Zenon
  <2> QED BY <1>0, <2>1, <2>4, <2>6, Answered, Zenon
<1>4. CASE Readdir(t)
  <2>1. call[t].op = "readdir" /\ Return(t, Ok(find_s(p))) BY <1>4, Zenon DEF Readdir, Runs
  <2>2. find_s(p) = {x[Len(x)] : x \in Tree!Children(p)}
    <3>1. Tree!Children(p) = {x \in Present : Parent(x) = p}
      <4>1. Tree!Children(p) = {x \in Shown \cup (DOMAIN dirs \ {Root}) : Parent(x) = p}
        BY <1>0, TreeFacts, Zenon
      <4>2. \A x \in Unmade : Parent(x) # p BY <1>0, <2>1, NoneUnmade, Zenon
      <4> QED BY <4>1, <4>2, Zenon DEF Present, Shown
    <3>2. {x[Len(x)] : x \in Tree!Children(p)} = Listed(Present, p) BY <3>1, Zenon DEF Listed, Last
    <3>3. Tidy(Present, dirs) BY <1>0, Zenon DEF TreeInv
    <3>4. CASE IsDir(p) BY <3>2, <3>3, <3>4, Zenon DEF Tidy, find_s, IsDir
    <3>5. CASE ~ IsDir(p)
      <4>1. Listed(Present, p) = {} BY <3>3, <3>5, Zenon DEF Tidy, Listed, IsDir
      <4> QED BY <3>2, <3>5, <4>1, Zenon DEF find_s
    <3> QED BY <3>4, <3>5, Zenon
  <2>3. Tree!readdir(p, Ok(find_s(p))) BY <1>1, <2>2, SameAnswers, Zenon DEF Tree!readdir
  <2>4. Tree!Act(t, Ok(find_s(p))) BY <2>1, <2>3, Acts, Zenon
  <2> QED BY <1>0, <2>1, <2>4, Answered, Zenon
<1>5. CASE SetattrDirs(t)
  <2>1. call[t].op = "setattr" BY <1>5, Zenon DEF SetattrDirs, Runs
  <2>2. CASE IsDir(p) /\ Return(t, Ok({}))
    <3>0. p \in DOMAIN TreeOf BY <1>0, <2>2, TreeFacts, Zenon DEF IsDir
    <3>1. Tree!setattr(p, Ok({})) BY <1>1, <2>2, <3>0, SameAnswers, Zenon DEF Tree!setattr
    <3>2. Tree!Act(t, Ok({})) BY <2>1, <3>1, Acts, Zenon
    <3> QED BY <1>0, <2>1, <2>2, <3>2, Answered, Zenon
  <2>3. CASE UNCHANGED call BY <1>1, <2>3, Zenon DEF Tree!treeVars
  <2> QED BY <1>5, <2>2, <2>3, Zenon DEF SetattrDirs
<1>6. CASE SetattrFiles(t)
  <2>1. call[t].op = "setattr" /\ HasDirs(t) BY <1>6, Zenon DEF SetattrFiles, Runs
  <2>2. ~ IsDir(p) BY <1>0, <2>1, Zenon DEF DirsInv
  <2>3. PICK r : r = (IF IsFile(p) THEN Ok({}) ELSE Err("ENOENT")) /\ Return(t, r) BY <1>6, Zenon DEF SetattrFiles
  <2>0. Unlisted = {} BY <1>0, <1>6, HeldByNone, Zenon DEF SetattrFiles
  <2>4. Tree!setattr(p, r) BY <1>1, <1>2, <2>0, <2>2, <2>3, SameAnswers, ZenonT(60) DEF Tree!setattr
  <2>5. Tree!Act(t, r) BY <2>1, <2>4, Acts, Zenon
  <2> QED BY <1>0, <2>1, <2>3, <2>5, Answered, Zenon
<1>7. CASE unload(t)
  <2>1. call[t].op = "unload" BY <1>7, Zenon DEF unload, Runs
  <2>2. CASE \E r \in {Ok({}), Err("internal_error")} : Return(t, r)
    <3>1. PICK r \in {Ok({}), Err("internal_error")} : Return(t, r) BY <2>2, Zenon
    <3>2. Tree!tell(r) BY <1>1, SameAnswers, Zenon DEF Tree!tell
    <3>3. Tree!Act(t, r) BY <2>1, <3>2, Acts, Zenon
    <3> QED BY <1>0, <2>1, <3>1, <3>3, Answered, Zenon
  <2>3. CASE UNCHANGED call BY <1>1, <2>3 DEF Tree!treeVars
  <2> QED BY <1>7, <2>2, <2>3, Zenon DEF unload, GoesOn
<1> QED BY <1>3, <1>4, <1>5, <1>6, <1>7, Zenon

(* The calls that find a file by its name, and those through a handle.       *)
LEMMA RecordAnswers ==
  ASSUME NameInv, SteadyInv, NEW t \in All,
         \/ find(t) \/ efsng_open(t) \/ Touch(t, "utimens") \/ Touch(t, "truncate")
         \/ (\E op \in Reaching : Reach(t, op)) \/ efsng_release(t) \/ \E op, r : Tells(t, op, r)
  PROVE  Tree!TreeNext \/ UNCHANGED Tree!treeVars
<1> DEFINE p == call[t].p
<1>0. HoldInv /\ TreeInv /\ Wants(t) BY Zenon DEF NameInv, SteadyInv
<1>1. TreeOf' = TreeOf
  <2>1. UNCHANGED <<files, dirs>> /\ ((\E r : Return(t, r)) \/ GoesOn)
    BY ZenonT(60) DEF find, efsng_open, Touch, Reach, efsng_release, Tells, Answers, Stays
  <2>2. call[t].op \in Finds \cup OnHandle \cup Plain
    BY ZenonT(60) DEF find, efsng_open, Touch, Reach, efsng_release, Tells, Answers, Runs, Finds, OnHandle
  <2>3. ~ HasFiles(t)
    BY <1>0, <2>2, Zenon DEF HoldInv, FilesFirst, Finds, OnHandle, Reaching, Plain, Refused, Accepted
  <2> QED BY <1>0, <2>1, <2>3, LeftAlone, Zenon DEF GoesOn
<1>2. call[t].op \in Finds => (Tree!HasFile(p) <=> IsFile(p)) BY <1>0, TreeFacts, Zenon DEF Wants, Shown, IsFile
<1>3. call[t].op \in Finds => TreeOf[p] = files[p] BY <1>0, TreeFacts, Zenon DEF Wants
<1>4. CASE find(t)
  <2>1. call[t].op \in {"open", "utimens", "truncate"} /\ UNCHANGED records
    BY <1>4, Zenon DEF find, Runs, Finds
  <2>0. call[t].op \in Finds BY <2>1, Zenon DEF Finds
  <2>2. CASE UNCHANGED call BY <1>1, <2>1, <2>2, Zenon DEF Tree!treeVars
  <2>3. CASE (~ IsFile(p) \/ Races(t)) /\ Return(t, Err("ENOENT"))
    <3>1. Races(t) => \E d \in All : d # t /\ call[d].op \in Tree!Changing
      BY Zenon DEF Races, Tree!Changing
    <3>2. Tree!Missed(t, p, Err("ENOENT"))
      BY <1>1, <1>2, <2>0, <2>1, <2>3, <3>1, SameAnswers, ZenonT(60) DEF Tree!Missed
    <3>3. Tree!open(t, p, Err("ENOENT")) BY <3>2, Zenon DEF Tree!open
    <3>4. Tree!touch(t, p, Err("ENOENT")) BY <3>2, Zenon DEF Tree!touch
    <3>5. Tree!Act(t, Err("ENOENT")) BY <2>1, <3>3, <3>4, Acts, Zenon
    <3> QED BY <1>0, <2>1, <2>3, <3>5, Answered, Zenon
  <2> QED BY <1>4, <2>2, <2>3, Zenon DEF find, GoesOn
<1>5. CASE efsng_open(t)
  <2>1. call[t].op = "open" BY <1>5, Zenon DEF efsng_open, Runs
  <2>0. call[t].op \in Finds BY <2>1, Zenon DEF Finds
  <2>2. CASE UNCHANGED <<call, records>> BY <1>1, <2>2, Zenon DEF Tree!treeVars
  <2>3. CASE Valid(t) /\ \E h \in Unused : records' = [records EXCEPT ![h] = it[t]] /\ Return(t, Ok({h}))
    <3>1. PICK h \in Unused : records' = [records EXCEPT ![h] = it[t]] /\ Return(t, Ok({h})) BY <2>3, Zenon
    <3>2. IsFile(p) /\ TreeOf[p] = it[t] BY <1>3, <2>0, <2>3, Zenon DEF Valid
    <3>3. records[h] = 0 BY Zenon DEF Unused
    <3>4. Tree!open(t, p, Ok({h}))
      <4>1. Ok({h}).err = "0" /\ Ok({h}).val = {h} BY SameAnswers, Zenon
      <4> QED BY <1>1, <1>2, <2>0, <3>1, <3>2, <3>3, <4>1, ZenonT(60) DEF Tree!open
    <3>5. Tree!Act(t, Ok({h})) BY <2>1, <3>4, Acts, Zenon
    <3> QED BY <1>0, <2>1, <3>1, <3>5, Answered, Zenon
  <2> QED BY <1>5, <2>2, <2>3, Zenon DEF efsng_open, GoesOn
<1>6. CASE Touch(t, "utimens") \/ Touch(t, "truncate")
  <2>1. call[t].op \in {"utimens", "truncate"} /\ UNCHANGED records BY <1>6, Zenon DEF Touch, Runs
  <2>0. call[t].op \in Finds BY <2>1, Zenon DEF Finds
  <2>2. CASE UNCHANGED call BY <1>1, <2>1, <2>2, Zenon DEF Tree!treeVars
  <2>3. CASE Valid(t) /\ Return(t, Ok({}))
    <3>1. Tree!touch(t, p, Ok({})) BY <1>1, <1>2, <2>0, <2>1, <2>3, SameAnswers, ZenonT(60) DEF Tree!touch, Valid
    <3>2. Tree!Act(t, Ok({})) BY <2>1, <3>1, Acts, Zenon
    <3> QED BY <1>0, <2>1, <2>3, <3>2, Answered, Zenon
  <2> QED BY <1>6, <2>2, <2>3, Zenon DEF Touch, GoesOn
<1>7. ASSUME call[t].op \in OnHandle
      PROVE  \E h \in Handles : call[t].q = <<h>> /\ HandleOf(t) = h /\ records[h] # 0
  <2>1. PICK h \in Handles : call[t].q = <<h>> /\ records[h] # 0 BY <1>0, <1>7, Zenon DEF Wants
  <2>2. HandleOf(t) = h BY <2>1 DEF HandleOf
  <2> QED BY <2>1, <2>2, Zenon
<1>8. CASE \E op \in Reaching : Reach(t, op)
  <2>1. /\ call[t].op \in Reaching /\ UNCHANGED records
        /\ Return(t, Ok({records[HandleOf(t)]}))
    BY <1>8, Zenon DEF Reach, Answers, Runs
  <2>2. PICK h \in Handles : call[t].q = <<h>> /\ HandleOf(t) = h /\ records[h] # 0
    BY <1>7, <2>1, Zenon DEF OnHandle
  <2>3. Tree!reach(h, Ok({records[h]})) BY <1>1, <2>1, <2>2, SameAnswers, Zenon DEF Tree!reach
  <2>4. Tree!Act(t, Ok({records[h]})) BY <2>1, <2>2, <2>3, Acts, ZenonT(60)
  <2>5. call[t].op \notin {"none", "reply"} BY <2>1, ZenonT(60) DEF Reaching
  <2> QED BY <1>0, <2>1, <2>2, <2>4, <2>5, Answered, ZenonT(60)
<1>9. CASE efsng_release(t)
  <2>1. /\ call[t].op = "release" /\ records' = [records EXCEPT ![HandleOf(t)] = 0] /\ Return(t, Ok({}))
    BY <1>9, Zenon DEF efsng_release, Runs
  <2>2. PICK h \in Handles : call[t].q = <<h>> /\ HandleOf(t) = h /\ records[h] # 0
    BY <1>7, <2>1, ZenonT(60) DEF OnHandle
  <2>3. Tree!release(h, Ok({})) BY <1>1, <2>1, <2>2, SameAnswers, ZenonT(60) DEF Tree!release
  <2>4. Tree!Act(t, Ok({})) BY <2>1, <2>2, <2>3, Acts, ZenonT(60)
  <2> QED BY <1>0, <2>1, <2>4, Answered, ZenonT(60)
<1>10. CASE \E op, r : Tells(t, op, r)
  <2>1. PICK op, r : Tells(t, op, r) BY <1>10, Zenon
  <2>2. /\ call[t].op \in Reaching \cup Plain /\ (call[t].op \in Reaching => r.err # "0")
        /\ r.val = {} /\ UNCHANGED records /\ Return(t, r)
    BY <2>1, Zenon DEF Tells, Answers, Runs
  <2>3. CASE call[t].op \in Reaching
    <3>1. PICK h \in Handles : call[t].q = <<h>> /\ HandleOf(t) = h /\ records[h] # 0
      BY <1>7, <2>3, Zenon DEF OnHandle
    <3>2. Tree!reach(h, r) BY <1>1, <2>2, <2>3, <3>1, Zenon DEF Tree!reach
    <3>3. Tree!Act(t, r) BY <2>3, <3>1, <3>2, Acts, Zenon
    <3>4. call[t].op \notin {"none", "reply"} BY <2>3, Zenon DEF Reaching
    <3> QED BY <1>0, <2>2, <3>3, <3>4, Answered, ZenonT(60)
  <2>4. CASE call[t].op \in Plain
    <3>1. Tree!tell(r) BY <1>1, <2>2, Zenon DEF Tree!tell
    <3>2. Tree!Act(t, r) BY <2>4, <3>1, Acts, Zenon
    <3>3. call[t].op \notin {"none", "reply"} BY <2>4, Zenon DEF Plain, Refused, Accepted
    <3> QED BY <1>0, <2>2, <3>2, <3>3, Answered, ZenonT(60)
  <2> QED BY <2>2, <2>3, <2>4, ZenonT(60)
<1> QED BY <1>4, <1>5, <1>6, <1>8, <1>9, <1>10, ZenonT(60)

(* A number that was not given out yet is no file's, and no open file's.     *)
LEMMA NewNumber ==
  ASSUME NameInv, TreeInv
  PROVE  Tree!Unused(i_inode + 1)
<1>1. i_inode \in Nat BY Zenon DEF NameInv, NumberInv
<1>2. \A x \in DOMAIN TreeOf : TreeOf[x] # i_inode + 1 BY <1>1, TreeFacts, SMTT(30)
<1>3. DOMAIN records = Handles /\ \A h \in Handles : records[h] # i_inode + 1
  BY <1>1 DEF TreeInv
<1> QED BY <1>2, <1>3, Zenon DEF Tree!Unused, Tree!Values

(* do_create and efsng_create: a new file, open.                             *)
LEMMA CreateAnswers ==
  ASSUME NameInv, SteadyInv, NEW t \in All, NEW h \in Handles, Made(t, h)
  PROVE  Tree!TreeNext
<1> DEFINE p == call[t].p
           i == i_inode + 1
<1>0. HoldInv /\ TreeInv /\ Wants(t) BY Zenon DEF NameInv, SteadyInv
<1>1. Create(t, {h}) /\ call[t].op = "create" /\ HasFiles(t)
  BY <1>0, Zenon DEF Made, Create, Runs, HoldInv
<1>2. ~ IsFile(p) /\ ~ IsDir(p) /\ IsDir(Parent(p)) BY <1>0, <1>1, Zenon DEF HoldInv, Wants
<1>3. Return(t, Ok({h})) /\ files' = Put(files, p, i) /\ i_inode' = i BY <1>1, <1>2, Zenon DEF Create
<1>4. call'[t].op = "reply" BY <1>0, <1>3, Returning, Zenon
<1>5. records[h] = 0 /\ records' = [records EXCEPT ![h] = i] BY <1>3, <1>4, Zenon DEF Made
<1>6. UNCHANGED dirs /\ Unlisted = {} /\ Unlisted' = {} BY <1>0, <1>1, CreateTree, ZenonT(60)
<1>16. /\ TreeOf = [x \in DOMAIN files \cup DOMAIN dirs |-> IF x \in DOMAIN files THEN files[x] ELSE 0]
       /\ Shown = DOMAIN files
  BY <1>6, TreePlain, Zenon
<1> HIDE DEF p, i
<1>7. DOMAIN files' = DOMAIN files \cup {p} /\ \A x \in DOMAIN files' : files'[x] = IF x = p THEN i ELSE files[x]
  BY <1>3, Zenon DEF Put
<1>8. TreeOf' = [x \in DOMAIN TreeOf \cup {p} |-> IF x \in {p} THEN i ELSE TreeOf[x]]
  <2>1. DOMAIN TreeOf \cup {p} = DOMAIN files' \cup DOMAIN dirs' BY <1>6, <1>7, <1>16, Zenon
  <2>2. \A x \in DOMAIN files' \cup DOMAIN dirs' :
          (IF x \in DOMAIN files' THEN files'[x] ELSE 0) = (IF x \in {p} THEN i ELSE TreeOf[x])
    BY <1>2, <1>6, <1>7, <1>16, ZenonT(60) DEF IsFile
  <2>3. TreeOf' = [x \in DOMAIN files' \cup DOMAIN dirs' |-> IF x \in DOMAIN files' THEN files'[x] ELSE 0]
    BY <1>6, TreePlain, Zenon
  <2> QED BY <2>1, <2>2, <2>3, Zenon
<1>9. i \in Tree!Values(TreeOf')
  <2>1. p \in DOMAIN TreeOf' /\ TreeOf'[p] = i BY <1>8, Zenon
  <2> QED BY <2>1, Zenon DEF Tree!Values
<1>10. i # 0 /\ Tree!Unused(i) BY <1>0, NewNumber, SMTT(30) DEF i, NameInv, NumberInv
<1>11. p \notin DOMAIN TreeOf /\ Tree!HasDir(Tree!Up(p))
  <2>1. Tree!Up(p) = Parent(p) BY Zenon DEF Tree!Up, Parent
  <2> QED BY <1>0, <1>2, <1>16, <2>1, TreeFacts, ZenonT(60) DEF IsFile, IsDir
<1>12. Tree!Plant({p}, i) BY <1>8, Zenon DEF Tree!Plant
<1>13. Ok({h}).err = "0" /\ Ok({h}).val = {h} BY SameAnswers, Zenon
<1>14. Tree!create(p, Ok({h})) BY <1>5, <1>9, <1>10, <1>11, <1>12, <1>13, ZenonT(60) DEF Tree!create
<1>15. Tree!Act(t, Ok({h})) BY <1>1, <1>14, Acts, Zenon DEF p
<1> QED BY <1>0, <1>1, <1>3, <1>15, Answered, ZenonT(60)

(* load: a new file, with the directories above it that were missing.        *)
LEMMA LoadAnswers ==
  ASSUME NameInv, SteadyInv, HiddenInv, NEW t \in All, Load(t), UNCHANGED records
  PROVE  Tree!TreeNext
<1> DEFINE p == call[t].p
           i == files[p]
<1>0. HoldInv /\ TreeInv /\ Wants(t) BY Zenon DEF NameInv, SteadyInv
<1>1. call[t].op = "load" /\ HasFiles(t) BY Zenon DEF Load, Second, Runs
<1>2. Return(t, Ok({})) BY Zenon DEF Load
<1>3. /\ DOMAIN dirs' = DOMAIN dirs \cup Ancestors(p) /\ UNCHANGED files /\ p \in DOMAIN files
      /\ Unlisted = {p} /\ Unlisted' = {}
  BY <1>0, LoadTree, Zenon
<1>4. p \notin DOMAIN dirs BY <1>0, <1>3, Zenon DEF TreeInv
<1>5. FilePaths \cap DirPaths = {} /\ Ancestors(p) \subseteq DirPaths BY <1>0, <1>1, Zenon DEF Wants, FilePaths, DirPaths
<1>15. i = files[p] BY Zenon
<1> HIDE DEF p, i
<1>6. Ancestors(p) \cap DOMAIN files = {} BY <1>0, <1>5, Zenon DEF TreeInv
<1>7. /\ DOMAIN TreeOf = Shown \cup DOMAIN dirs /\ Shown = DOMAIN files \ {p}
      /\ \A x \in Shown : TreeOf[x] = files[x]
      /\ \A x \in DOMAIN dirs : TreeOf[x] = 0
  BY <1>0, <1>3, TreeFacts, Zenon DEF Shown
<1>8. Tree!Above(p) = Ancestors(p) BY Zenon DEF Tree!Above, Ancestors
<1>9. TreeOf' = [x \in DOMAIN TreeOf \cup Tree!Above(p) \cup {p} |->
                   IF x = p THEN i ELSE IF x \in DOMAIN TreeOf THEN TreeOf[x] ELSE 0]
  <2>1. DOMAIN TreeOf \cup Tree!Above(p) \cup {p} = DOMAIN files' \cup DOMAIN dirs'
    BY <1>3, <1>7, <1>8, Zenon
  <2>2. \A x \in DOMAIN files' \cup DOMAIN dirs' :
          (IF x \in DOMAIN files' THEN files'[x] ELSE 0)
            = (IF x = p THEN i ELSE IF x \in DOMAIN TreeOf THEN TreeOf[x] ELSE 0)
    <3>1. DOMAIN files \cap DOMAIN dirs = {} BY <1>0, Zenon DEF TreeInv
    <3> QED BY <1>3, <1>4, <1>7, <1>15, <3>1, ZenonT(60)
  <2>3. TreeOf' = [x \in DOMAIN files' \cup DOMAIN dirs' |-> IF x \in DOMAIN files' THEN files'[x] ELSE 0]
    BY <1>3, TreePlain, Zenon
  <2> QED BY <2>1, <2>2, <2>3, Zenon
<1>10. i \in Tree!Values(TreeOf')
  <2>1. p \in DOMAIN TreeOf' /\ TreeOf'[p] = i BY <1>9, Zenon
  <2> QED BY <2>1, Zenon DEF Tree!Values
<1>11. i # 0 /\ Tree!Unused(i)
  <2>1. i # 0 BY <1>3, <1>15, SMTT(30) DEF NameInv, NumberInv
  <2>2. \A x \in Shown : files[x] # i BY <1>3, <1>7, <1>15, Zenon DEF NameInv, OneNameEach
  <2>3. \A x \in DOMAIN TreeOf : TreeOf[x] # i BY <1>7, <2>1, <2>2, Zenon
  <2>4. DOMAIN records = Handles /\ \A h \in Handles : records[h] # i
    BY <1>0, <1>3, <1>15, Zenon DEF HiddenInv, TreeInv
  <2> QED BY <2>1, <2>3, <2>4, Zenon DEF Tree!Unused, Tree!Values
<1>12. ~ Tree!HasFile(p) BY <1>0, <1>7, TreeFacts, Zenon
<1>13. Tree!load(p, Ok({})) BY <1>9, <1>10, <1>11, <1>12, SameAnswers, ZenonT(60) DEF Tree!load
<1>14. Tree!Act(t, Ok({})) BY <1>1, <1>13, Acts, Zenon DEF p
<1> QED BY <1>0, <1>1, <1>2, <1>14, Answered, ZenonT(60)

(* do_unlink.                                                                *)
LEMMA UnlinkAnswers ==
  ASSUME NameInv, SteadyInv, NEW t \in All, Unlink(t), UNCHANGED records
  PROVE  Tree!TreeNext
<1> DEFINE p == call[t].p
<1>0. HoldInv /\ TreeInv /\ Wants(t) BY DEF NameInv, SteadyInv
<1>1. call[t].op = "unlink" BY Zenon DEF Unlink, Second, Runs
<1>2. PICK r : r = (IF IsFile(p) THEN Ok({}) ELSE Err("ENOENT")) /\ Return(t, r) BY Zenon DEF Unlink
<1>6. Unlisted = {} /\ Unlisted' = {} /\ Moves(t) BY <1>0, UnlinkTree, Zenon
<1>7. /\ TreeOf = [x \in DOMAIN files \cup DOMAIN dirs |-> IF x \in DOMAIN files THEN files[x] ELSE 0]
      /\ Shown = DOMAIN files
  BY <1>6, TreePlain, Zenon
<1>3. Tree!HasFile(p) <=> IsFile(p) BY <1>0, <1>7, TreeFacts, Zenon DEF IsFile
<1>4. Tree!unlink(p, r)
  <2>1. CASE IsFile(p)
    <3>1. files' = Without(files, p) BY <2>1, Zenon DEF Unlink
    <3>2. DOMAIN dirs' = DOMAIN dirs BY <1>1, <1>6, Zenon DEF Moves
    <3> HIDE DEF p
    <3>3. DOMAIN files' = DOMAIN files \ {p} /\ \A x \in DOMAIN files' : files'[x] = files[x]
      BY <3>1, Zenon DEF Without
    <3>4. p \in DOMAIN files /\ DOMAIN files \cap DOMAIN dirs = {} BY <1>0, <2>1, Zenon DEF IsFile, TreeInv
    <3>5. TreeOf' = [x \in DOMAIN TreeOf \ {p} |-> TreeOf[x]]
      <4>1. DOMAIN TreeOf \ {p} = DOMAIN files' \cup DOMAIN dirs' BY <1>7, <3>2, <3>3, <3>4, ZenonT(60)
      <4>2. \A x \in DOMAIN files' \cup DOMAIN dirs' :
              (IF x \in DOMAIN files' THEN files'[x] ELSE 0) = TreeOf[x]
        BY <1>7, <3>2, <3>3, <3>4, ZenonT(60)
      <4>3. TreeOf' = [x \in DOMAIN files' \cup DOMAIN dirs' |-> IF x \in DOMAIN files' THEN files'[x] ELSE 0]
        BY <1>6, TreePlain, Zenon
      <4> QED BY <4>1, <4>2, <4>3, ZenonT(60)
    <3> QED BY <1>2, <1>3, <2>1, <3>5, SameAnswers, ZenonT(60) DEF Tree!unlink, Tree!Prune
  <2>2. CASE ~ IsFile(p)
    <3>1. TreeOf' = TreeOf BY <1>0, <1>2, <1>6, <2>2, LeftAlone, ZenonT(60) DEF Unlink
    <3> QED BY <1>2, <1>3, <2>2, <3>1, SameAnswers, ZenonT(60) DEF Tree!unlink
  <2> QED BY <2>1, <2>2, Zenon
<1>5. Tree!Act(t, r) BY <1>1, <1>4, Acts, Zenon
<1> QED BY <1>0, <1>1, <1>2, <1>5, Answered, ZenonT(60)

(* do_rename of a file.                                                      *)
LEMMA RenameAnswers ==
  ASSUME NameInv, SteadyInv, NEW t \in All, Rename(t), UNCHANGED records
  PROVE  Tree!TreeNext
<1> DEFINE p == call[t].p
           q == call[t].q
<1>0. HoldInv /\ TreeInv /\ Wants(t) BY DEF NameInv, SteadyInv
<1>1. call[t].op = "rename" BY Zenon DEF Rename, Second, Runs
<1>2. ~ IsDir(p) /\ ~ IsDir(q) BY <1>0, <1>1, Zenon DEF Wants
<1>6. Unlisted = {} /\ Unlisted' = {} /\ Moves(t) BY <1>0, RenameTree, SMTT(30)
<1>7. /\ TreeOf = [x \in DOMAIN files \cup DOMAIN dirs |-> IF x \in DOMAIN files THEN files[x] ELSE 0]
      /\ Shown = DOMAIN files
  BY <1>6, TreePlain, Zenon
<1>3. PICK r : r = (IF IsFile(p) THEN Ok({}) ELSE Err("ENOENT")) /\ Return(t, r) BY <1>2, Zenon DEF Rename
<1>4. Tree!rename(p, q, r)
  <2>1. CASE IsFile(p)
    <3>1. files' = Put(Without(files, p), q, files[p]) BY <1>2, <2>1, Zenon DEF Rename, RenameFile
    <3>2. DOMAIN dirs' = DOMAIN dirs BY <1>1, <1>6, Zenon DEF Moves
    <3> HIDE DEF p, q
    <3>3. DOMAIN files' = (DOMAIN files \ {p}) \cup {q}
          /\ \A x \in DOMAIN files' : files'[x] = IF x = q THEN files[p] ELSE files[x]
      BY <3>1, Zenon DEF Put, Without
    <3>4. p \in DOMAIN files /\ p \notin DOMAIN dirs /\ q \notin DOMAIN dirs BY <1>2, <2>1, Zenon DEF IsFile, IsDir
    <3>5. DOMAIN files \cap DOMAIN dirs = {} BY <1>0, Zenon DEF TreeInv
    <3>6. TreeOf' = [x \in (DOMAIN TreeOf \ {p}) \cup {q} |-> IF x = q THEN TreeOf[p] ELSE TreeOf[x]]
      <4>1. (DOMAIN TreeOf \ {p}) \cup {q} = DOMAIN files' \cup DOMAIN dirs' BY <1>7, <3>2, <3>3, <3>4, ZenonT(60)
      <4>2. \A x \in DOMAIN files' \cup DOMAIN dirs' :
              (IF x \in DOMAIN files' THEN files'[x] ELSE 0) = (IF x = q THEN TreeOf[p] ELSE TreeOf[x])
        BY <1>7, <3>2, <3>3, <3>4, <3>5, ZenonT(60)
      <4>3. TreeOf' = [x \in DOMAIN files' \cup DOMAIN dirs' |-> IF x \in DOMAIN files' THEN files'[x] ELSE 0]
        BY <1>6, TreePlain, Zenon
      <4> QED BY <4>1, <4>2, <4>3, Zenon
    <3>7. Tree!HasFile(p) /\ ~ Tree!HasDir(q) BY <1>0, <1>2, <1>7, <2>1, TreeFacts, ZenonT(60) DEF IsFile
    <3> QED BY <1>3, <2>1, <3>6, <3>7, SameAnswers, ZenonT(60) DEF Tree!rename
  <2>2. CASE ~ IsFile(p)
    <3>1. TreeOf' = TreeOf BY <1>0, <1>2, <1>3, <1>6, <2>2, LeftAlone, ZenonT(60) DEF Rename
    <3>2. p \notin DOMAIN TreeOf BY <1>0, <1>2, <1>7, <2>2, TreeFacts, ZenonT(60) DEF IsFile, IsDir
    <3> QED BY <1>3, <2>2, <3>1, <3>2, SameAnswers, ZenonT(60) DEF Tree!rename
  <2> QED BY <2>1, <2>2, Zenon
<1>5. Tree!Act(t, r) BY <1>1, <1>4, Acts, Zenon
<1> QED BY <1>0, <1>1, <1>3, <1>5, Answered, ZenonT(60)

(* do_mkdir.                                                                 *)
LEMMA MkdirAnswers ==
  ASSUME NameInv, SteadyInv, NEW t \in All, Mkdir(t), UNCHANGED records
  PROVE  Tree!TreeNext
<1> DEFINE p == call[t].p
<1>0. HoldInv /\ TreeInv /\ Wants(t) BY DEF NameInv, SteadyInv
<1>1. call[t].op = "mkdir" /\ UNCHANGED files BY Zenon DEF Mkdir, Runs
<1>2. ~ IsFile(p) /\ IsDir(Parent(p)) BY <1>0, <1>1, Zenon DEF Wants
<1>3. PICK r : r = (IF IsDir(p) THEN Err("EPERM") ELSE Ok({})) /\ Return(t, r) BY Zenon DEF Mkdir
<1>6. ~ HasFiles(t) /\ Unlisted' = Unlisted BY <1>0, <1>1, MkdirTree, Zenon DEF HoldInv, FilesFirst
<1>7. /\ TreeOf = [x \in Shown \cup DOMAIN dirs |-> IF x \in Shown THEN files[x] ELSE 0]
      /\ TreeOf' = [x \in Shown \cup DOMAIN dirs' |-> IF x \in Shown THEN files[x] ELSE 0]
  BY <1>1, <1>6, Zenon DEF TreeOf, Shown
<1>4. Tree!mkdir(p, r)
  <2>1. CASE ~ IsDir(p)
    <3>1. dirs' = add_file(Put(dirs, p, NewDir), p) BY <2>1, Zenon DEF Mkdir
    <3> HIDE DEF p
    <3>2. DOMAIN Put(dirs, p, NewDir) = DOMAIN dirs \cup {p} BY Zenon DEF Put
    <3>3. DOMAIN dirs' = DOMAIN dirs \cup {p} BY <3>1, <3>2, Zenon DEF add_file
    <3>4. p \notin Shown BY <1>2, Zenon DEF IsFile, Shown
    <3>5. TreeOf' = [x \in DOMAIN TreeOf \cup {p} |-> IF x \in {p} THEN 0 ELSE TreeOf[x]]
      <4>1. DOMAIN TreeOf \cup {p} = Shown \cup DOMAIN dirs' BY <1>7, <3>3, Zenon
      <4>2. \A x \in Shown \cup DOMAIN dirs' :
              (IF x \in Shown THEN files[x] ELSE 0) = (IF x \in {p} THEN 0 ELSE TreeOf[x])
        BY <1>7, <3>3, <3>4, Zenon
      <4> QED BY <1>7, <4>1, <4>2, ZenonT(60)
    <3>6. p \notin DOMAIN TreeOf /\ Tree!HasDir(Tree!Up(p))
      <4>1. Tree!Up(p) = Parent(p) BY Zenon DEF Tree!Up, Parent
      <4> QED BY <1>0, <1>2, <2>1, <3>4, <4>1, TreeFacts, ZenonT(60) DEF IsFile, IsDir
    <3>7. r = Ok({}) BY <1>3, <2>1, Zenon
    <3> QED BY <3>5, <3>6, <3>7, SameAnswers, ZenonT(60) DEF Tree!mkdir, Tree!Plant
  <2>2. CASE IsDir(p)
    <3>1. TreeOf' = TreeOf BY <1>0, <1>1, <1>3, <1>6, <2>2, LeftAlone, ZenonT(60) DEF Mkdir
    <3>2. Tree!HasDir(p) BY <1>0, <2>2, TreeFacts, Zenon
    <3> QED BY <1>3, <2>2, <3>1, <3>2, SameAnswers, ZenonT(60) DEF Tree!mkdir
  <2> QED BY <2>1, <2>2, Zenon
<1>5. Tree!Act(t, r) BY <1>1, <1>4, Acts, Zenon
<1> QED BY <1>0, <1>1, <1>3, <1>5, Answered, ZenonT(60)

(* do_rmdir: the count it goes by is right, so that it removes a directory   *)
(* exactly when nothing is below it.                                         *)
LEMMA RmdirAnswers ==
  ASSUME NameInv, SteadyInv, NEW t \in All, Rmdir(t), UNCHANGED records
  PROVE  Tree!TreeNext
<1> DEFINE p == call[t].p
<1>0. HoldInv /\ TreeInv /\ Wants(t) BY DEF NameInv, SteadyInv
<1>1. call[t].op = "rmdir" /\ UNCHANGED files BY Zenon DEF Rmdir, Runs
<1>2. PICK r : /\ r = (IF ~ IsDir(p) THEN Err("ENOENT") ELSE IF Empty(p) THEN Ok({}) ELSE Err("ENOTEMPTY"))
               /\ Return(t, r)
  BY Zenon DEF Rmdir
<1>7. ~ HasFiles(t) /\ Unlisted' = Unlisted BY <1>0, <1>1, RmdirTree, ZenonT(60) DEF HoldInv, FilesFirst
<1>8. /\ TreeOf = [x \in Shown \cup DOMAIN dirs |-> IF x \in Shown THEN files[x] ELSE 0]
      /\ TreeOf' = [x \in Shown \cup DOMAIN dirs' |-> IF x \in Shown THEN files[x] ELSE 0]
  BY <1>1, <1>7, Zenon DEF TreeOf, Shown
<1>3. Tree!HasDir(p) <=> IsDir(p) BY <1>0, TreeFacts, Zenon
<1>4. IsDir(p) => (Empty(p) <=> Tree!Children(p) = {})
  <2>1. SUFFICES ASSUME IsDir(p) PROVE Empty(p) <=> Tree!Children(p) = {} BY Zenon
  <2>2. Tidy(Present, dirs) /\ p \in DOMAIN dirs BY <1>0, <2>1, Zenon DEF TreeInv, IsDir
  <2>3. /\ dirs[p].names = Listed(Present, p) /\ IsFiniteSet(dirs[p].names)
        /\ dirs[p].nlink = 1 + Cardinality(dirs[p].names)
    BY <2>2, Zenon DEF Tidy
  <2>4. Cardinality(dirs[p].names) \in Nat /\ (Cardinality(dirs[p].names) = 0 <=> dirs[p].names = {})
    BY <2>3, FS_CardinalityType, FS_EmptySet, ZenonT(60)
  <2>5. Empty(p) <=> dirs[p].names = {} BY <2>3, <2>4, SMTT(30) DEF Empty
  <2>6. Tree!Children(p) = {x \in Present : Parent(x) = p}
    <3>1. Tree!Children(p) = {x \in Shown \cup (DOMAIN dirs \ {Root}) : Parent(x) = p}
      BY <1>0, TreeFacts, Zenon
    <3>2. \A x \in Unmade : Parent(x) # p BY <1>0, <1>1, NoneUnmade, Zenon
    <3> QED BY <3>1, <3>2, Zenon DEF Present, Shown
  <2>7. Listed(Present, p) = {} <=> Tree!Children(p) = {} BY <2>6, Zenon DEF Listed
  <2> QED BY <2>3, <2>5, <2>7, Zenon
<1>5. Tree!rmdir(p, r)
  <2>1. CASE IsDir(p) /\ Empty(p)
    <3>1. dirs' = remove_file(Without(dirs, p), p) BY <2>1, Zenon DEF Rmdir
    <3> HIDE DEF p
    <3>2. DOMAIN Without(dirs, p) = DOMAIN dirs \ {p} BY Zenon DEF Without
    <3>3. DOMAIN dirs' = DOMAIN dirs \ {p} BY <3>1, <3>2, Zenon DEF remove_file
    <3>4. p \in DOMAIN dirs /\ Shown \cap DOMAIN dirs = {} BY <1>0, <2>1, Zenon DEF IsDir, TreeInv, Shown
    <3>5. TreeOf' = [x \in DOMAIN TreeOf \ {p} |-> TreeOf[x]]
      <4>1. DOMAIN TreeOf \ {p} = Shown \cup DOMAIN dirs' BY <1>8, <3>3, <3>4, Zenon
      <4>2. \A x \in Shown \cup DOMAIN dirs' : (IF x \in Shown THEN files[x] ELSE 0) = TreeOf[x]
        BY <1>8, <3>3, <3>4, Zenon
      <4> QED BY <1>8, <4>1, <4>2, Zenon
    <3>6. r = Ok({}) BY <1>2, <2>1, Zenon
    <3> QED BY <1>3, <1>4, <2>1, <3>5, <3>6, SameAnswers, ZenonT(60) DEF Tree!rmdir, Tree!Prune
  <2>2. CASE ~ (IsDir(p) /\ Empty(p))
    <3>1. TreeOf' = TreeOf BY <1>0, <1>1, <1>2, <1>7, <2>2, LeftAlone, ZenonT(60) DEF Rmdir
    <3>2. CASE IsDir(p)
      <4>1. r = Err("ENOTEMPTY") BY <1>2, <2>2, <3>2, Zenon
      <4> QED BY <1>3, <1>4, <2>2, <3>1, <3>2, <4>1, SameAnswers, ZenonT(60) DEF Tree!rmdir
    <3>3. CASE ~ IsDir(p)
      <4>1. r = Err("ENOENT") BY <1>2, <3>3, Zenon
      <4> QED BY <1>3, <3>1, <3>3, <4>1, SameAnswers, ZenonT(60) DEF Tree!rmdir
    <3> QED BY <3>2, <3>3, SMTT(30)
  <2> QED BY <2>1, <2>2, Zenon
<1>6. Tree!Act(t, r) BY <1>1, <1>5, Acts, Zenon
<1> QED BY <1>0, <1>1, <1>2, <1>6, Answered, ZenonT(60)

-----------------------------------------------------------------------------
(* On such a mount the callbacks and the backend implement the tree of files *)
(* and directories: every call acts, and finds its answer, at one moment     *)
(* between request and reply, and a handle stays with the file it was opened *)
(* on.                                                                       *)
THEOREM FrontImplementsTree == Spec /\ Steady => ImplementsTree
<1>1. Init => Tree!TreeInit
  <2>1. SUFFICES ASSUME Init PROVE Tree!TreeInit BY Zenon
  <2>2. DOMAIN files = {} /\ DOMAIN dirs = {Root} /\ call = [t \in All |-> Idle]
        /\ records = [h \in Handles |-> 0]
    BY <2>1 DEF Init, BackendInit
  <2>3. TreeOf = [d \in {<<>>} |-> 0]
    <3>1. Shown = {} BY <2>2, Zenon DEF Shown
    <3>2. TreeOf = [x \in Shown \cup DOMAIN dirs |-> IF x \in Shown THEN files[x] ELSE 0]
      BY Zenon DEF TreeOf, Shown
    <3> QED BY <2>2, <3>1, <3>2, Zenon DEF Root
  <2> QED BY <2>2, <2>3, SameAnswers, Zenon DEF Tree!TreeInit
<1>3. ASSUME NameInv, SteadyInv, HiddenInv, Steady, [Next]_vars PROVE [Tree!TreeNext]_(Tree!treeVars)
  <2>0. HoldInv /\ TreeInv /\ \A t \in All : Wants(t) /\ AskInv(t) BY <1>3, Zenon DEF NameInv, SteadyInv
  <2>1. ASSUME NEW t \in All, Call(t) PROVE Tree!TreeNext
    <3>1. call[t] = Idle /\ UNCHANGED <<files, dirs, records>> BY <2>1, Zenon DEF Call
    <3>2. PICK c \in [op : mount.ops, p : Known, q : Operands, ret : {NoReply}] :
            \E p \in Reached(c) : call' = [call EXCEPT ![t] = [c EXCEPT !.op = Backends(c.op), !.p = p]]
      BY <2>1, Zenon DEF Call
    <3>3. PICK p \in Reached(c) : call' = [call EXCEPT ![t] = [c EXCEPT !.op = Backends(c.op), !.p = p]]
      BY <3>2, Zenon
    <3>4. call'[t].ret = NoReply /\ \A u \in All \ {t} : call'[u] = call[u] BY <2>0, <3>3, Zenon DEF HoldInv
    <3>5. TreeOf' = TreeOf
      <4>1. Unlisted' = Unlisted BY <2>0, <2>1, BetweenCalls, ZenonT(60)
      <4> QED BY <3>1, <4>1, SameTree, ZenonT(60) DEF Shown
    <3>6. Tree!Request(t) BY <3>1, <3>4, <3>5, SameAnswers, ZenonT(60) DEF Tree!Request
    <3> QED BY <3>4, <3>6, Zenon DEF Tree!TreeNext
  <2>2. ASSUME NEW t \in All, Rest(t) PROVE Tree!TreeNext
    <3>1. call[t].op = "reply" /\ call' = [call EXCEPT ![t] = Idle] /\ UNCHANGED <<files, dirs, records>>
      BY <2>2, Zenon DEF Rest
    <3>2. call'[t] = Idle /\ \A u \in All \ {t} : call'[u] = call[u] BY <2>0, <3>1, Zenon DEF HoldInv
    <3>3. TreeOf' = TreeOf
      <4>1. Unlisted' = Unlisted BY <2>0, <2>2, BetweenCalls, Zenon
      <4> QED BY <3>1, <4>1, SameTree, Zenon DEF Shown
    <3>4. Tree!Rest(t) BY <3>1, <3>2, <3>3, SameAnswers, ZenonT(60) DEF Tree!Rest
    <3> QED BY <3>2, <3>4, Zenon DEF Tree!TreeNext
  <2>3. ASSUME NEW t \in All, Step(t), ~ Rest(t) PROVE Tree!TreeNext \/ UNCHANGED Tree!treeVars
    <3>4. CASE EnterName(t) /\ UNCHANGED records
      <4>1. /\ DOMAIN dirs' = DOMAIN dirs /\ Shown' = Shown /\ UNCHANGED <<files, call>>
        BY <2>0, <3>4, EnterTree, Zenon
      <4> QED BY <3>4, <4>1, SameTree, Zenon DEF Tree!treeVars
    <3>1. CASE Backend(t) /\ UNCHANGED records
      BY <3>4, <1>3, <2>0, <3>1, LockAnswers, ReadAnswers, LoadAnswers, UnlinkAnswers, RenameAnswers,
         MkdirAnswers, RmdirAnswers, SMTT(30)
      DEF Backend
    <3>2. CASE \E h \in Handles : Made(t, h) BY <1>3, <3>2, CreateAnswers, Zenon
    <3>3. ~ efsng_symlink(t) BY <2>0, Zenon DEF efsng_symlink, Runs, Wants
    <3> QED BY <1>3, <2>0, <2>3, <3>1, <3>2, <3>3, RecordAnswers, StepCases, ZenonT(60)
  <2>4. CASE Forget \/ UNCHANGED vars
    <3>1. UNCHANGED <<files, dirs, call, m_files_mutex, entered, records>>
      BY <2>4, Zenon DEF Forget, vars, backendVars, frontVars
    <3>2. Shown' = Shown BY <3>1, HeldSame, Zenon DEF Shown
    <3> QED BY <3>1, <3>2, SameTree, Zenon DEF Tree!treeVars
  <2> QED BY <1>3, <2>1, <2>2, <2>3, <2>4, ZenonT(60) DEF Next, Dead
<1>4. NameInv /\ (Steady => SteadyInv) /\ (Steady => HiddenInv) /\ Steady /\ [Next]_vars
        => Steady' /\ [Tree!TreeNext]_(Tree!treeVars)
  BY <1>3, SteadyStays, Zenon
<1> QED BY <1>1, <1>4, NameInvariance, SteadyInvariance, HiddenInvariance, PTL DEF Spec, ImplementsTree, Tree!TreeSpec
=============================================================================
