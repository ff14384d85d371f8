-------------------------- MODULE FrontEndProofs --------------------------
(***************************************************************************)
(* What the name space promises to any number of threads on any mount: no  *)
(* file object has two names, and none disappears but by its own unlink or *)
(* under a rename.  The inductive invariant NameInv rests on m_files_mutex *)
(* alone: between the search of do_create or load and the insertion that   *)
(* follows, nobody else changes m_files.  The second half states what the *)
(* changes of one file or directory make of listings and link counts.      *)
(***************************************************************************)
EXTENDS FrontEnd, FiniteSetTheorems, TLAPS

\* The calls that take m_files_mutex first.
FilesFirst == {"stat", "create", "unlink", "rename", "load"}

\* Who has m_files_mutex, and what it found.
HoldInv ==
  /\ DOMAIN call = All /\ m_files_mutex \in All \cup {Nobody}
  /\ mount \in MountRecord
  /\ \A t \in All :
       /\ call[t].op # "reply" => call[t].ret = NoReply
       /\ call[t].op = "load" => call[t].p \in Paths
       /\ HasFiles(t) => /\ call[t].op \in FilesFirst
                         /\ call[t].op \in {"create", "stat"} => ~ IsFile(call[t].p)
                         /\ call[t].op = "load" => IsFile(call[t].p)
       /\ t \in entered => HasFiles(t) /\ call[t].op = "create"
  /\ entered \subseteq All

\* The numbers that were given out, and the files that have them.
NumberInv ==
  i_inode \in Nat /\ \A p \in DOMAIN files : files[p] \in 1 .. i_inode

NameInv == HoldInv /\ NumberInv /\ OneNameEach

\* A step that leaves the names alone: the call returns, or goes on.
Quiet(t) ==
  /\ UNCHANGED <<files, dirs, i_inode>>
  /\ (\E r : Return(t, r)) \/ GoesOn

-----------------------------------------------------------------------------
(* A thread that rests has no call and no answer, and a new directory is     *)
(* empty.                                                                    *)
LEMMA Fresh ==
  /\ Idle.op = "none" /\ Idle.ret = NoReply
  /\ NewDir.names = {} /\ NewDir.nlink = 1
BY Zenon DEF Idle, NewDir

(* What the step of a thread can be, as the backend sees it.                 *)
LEMMA StepKinds ==
  ASSUME NEW t \in All, Step(t), ~ Rest(t)
  PROVE  /\ UNCHANGED <<mount, asked>>
         /\ \/ LockFiles(t) \/ StatDirs(t) \/ EnterName(t) \/ (\E h \in Handles : Create(t, {h}))
            \/ Load(t) \/ Unlink(t) \/ Rename(t) \/ Mkdir(t) \/ Rmdir(t) \/ Readdir(t)
            \/ SetattrDirs(t) \/ SetattrFiles(t) \/ unload(t) \/ Quiet(t)
<1>1. CASE Operation(t)
  <2>1. CASE efsng_create(t)
    <3>1. PICK h \in Unused : IF Nvml THEN nvml_do_create(t, {h}) ELSE do_create(t, {h})
      BY <2>1, Zenon DEF efsng_create
    <3>2. LockFiles(t) \/ EnterName(t) \/ Create(t, {h}) BY <3>1, Zenon DEF nvml_do_create, do_create, Locking
    <3> QED BY <1>1, <3>2, Zenon DEF Operation, Unused
  <2>2. CASE efsng_getattr(t) \/ efsng_access(t)
    BY <1>1, <2>2, Zenon DEF Operation, efsng_getattr, efsng_access, nvml_do_stat, do_stat, Locking
  <2>3. CASE efsng_mkdir(t) BY <1>1, <2>3, Zenon DEF Operation, efsng_mkdir, nvml_do_mkdir
  <2>4. CASE efsng_unlink(t)
    BY <1>1, <2>4, Zenon DEF Operation, efsng_unlink, nvml_do_unlink, do_unlink, Locking
  <2>5. CASE efsng_rmdir(t) BY <1>1, <2>5, Zenon DEF Operation, efsng_rmdir, nvml_do_rmdir
  <2>6. CASE efsng_rename(t)
    BY <1>1, <2>6, Zenon DEF Operation, efsng_rename, nvml_do_rename, do_rename, Locking
  <2>7. CASE efsng_chmod(t) \/ efsng_chown(t)
    BY <1>1, <2>7, Zenon
    DEF Operation, efsng_chmod, efsng_chown, nvml_do_chmod, do_chmod, nvml_do_chown, do_chown
  <2>8. CASE efsng_readdir(t)
    <3>1. Readdir(t) BY <2>8, Zenon DEF efsng_readdir, nvml_do_readdir, Readdir, nvml_find_s, find_s
    <3> QED BY <1>1, <3>1, Zenon DEF Operation
  <2>9. CASE Worker(t)
    BY <1>1, <2>9, Zenon DEF Operation, Worker, nvml_load, load, nvml_unload, Locking
  <2> QED BY <1>1, <2>1, <2>2, <2>3, <2>4, <2>5, <2>6, <2>7, <2>8, <2>9, Zenon DEF Operation
<1>2. CASE find(t) BY <1>2, Zenon DEF find, Stays, Quiet, GoesOn
<1>3. CASE efsng_open(t) BY <1>3, Zenon DEF efsng_open, Stays, Quiet, GoesOn
<1>4. CASE efsng_utimens(t) \/ efsng_truncate(t)
  BY <1>4, Zenon DEF efsng_utimens, efsng_truncate, Touch, Stays, Quiet, GoesOn
<1>5. ASSUME NEW op, NEW r, Answers(t, op, r) PROVE Quiet(t) /\ UNCHANGED <<mount, asked>>
  BY <1>5, Zenon DEF Answers, Stays, Quiet
<1>6. CASE efsng_fgetattr(t) \/ efsng_ftruncate(t) \/ efsng_write_buf(t) \/ efsng_read_buf(t)
           \/ efsng_fallocate(t)
  BY <1>5, <1>6, Zenon
  DEF efsng_fgetattr, efsng_ftruncate, efsng_write_buf, efsng_read_buf, efsng_fallocate, Reach
<1>7. CASE efsng_release(t) BY <1>7, Zenon DEF efsng_release, Stays, Quiet
<1>8. CASE efsng_symlink(t) BY <1>8, Zenon DEF efsng_symlink, Quiet
<1>9. CASE Answering(t)
  <2>1. ASSUME NEW op, Refuse(t, op) \/ Accept(t, op) PROVE Quiet(t) /\ UNCHANGED <<mount, asked>>
    BY <1>5, <2>1, Zenon DEF Refuse, Accept
  <2>2. CASE efsng_statfs(t) BY <1>5, <2>2, Zenon DEF efsng_statfs
  <2> QED BY <1>9, <2>1, <2>2, Zenon
    DEF Answering, efsng_readlink, efsng_mknod, efsng_link, efsng_setxattr, efsng_getxattr,
        efsng_listxattr, efsng_removexattr, efsng_lock, efsng_flock, efsng_bmap, efsng_ioctl,
        efsng_poll, efsng_flush, efsng_fsync, efsng_opendir, efsng_releasedir, efsng_fsyncdir
<1> QED BY <1>1, <1>2, <1>3, <1>4, <1>6, <1>7, <1>8, <1>9, Zenon DEF Step

(* A call that returns gives m_files_mutex back, and leaves those of others. *)
LEMMA Returning ==
  ASSUME HoldInv, NEW t \in All, NEW r, Return(t, r)
  PROVE  /\ DOMAIN call' = All /\ call'[t].op = "reply" /\ call'[t].ret = r
         /\ \A u \in All \ {t} : call'[u] = call[u]
         /\ m_files_mutex' \in All \cup {Nobody} /\ ~ HasFiles(t)'
         /\ (\A u : u \in entered' <=> u \in entered /\ u # t)
         /\ \A u \in All \ {t} : HasFiles(u)' <=> HasFiles(u)
<1>1. DOMAIN call = All /\ m_files_mutex \in All \cup {Nobody} BY Zenon DEF HoldInv
<1>2. call' = [call EXCEPT ![t] = [Idle EXCEPT !.op = "reply", !.ret = r]]
      /\ m_files_mutex' = IF HasFiles(t) THEN Nobody ELSE m_files_mutex
  BY Zenon DEF Return
<1>5. \A u : u \in entered' <=> u \in entered /\ u # t BY SMT DEF Return
<1>3. [Idle EXCEPT !.op = "reply", !.ret = r].op = "reply" /\ [Idle EXCEPT !.op = "reply", !.ret = r].ret = r
  BY Zenon DEF Idle
<1>4. Nobody \notin All BY PathsAssumption, Zenon
<1>6. /\ DOMAIN call' = All /\ call'[t].op = "reply" /\ call'[t].ret = r
      /\ \A u \in All \ {t} : call'[u] = call[u]
      /\ m_files_mutex' \in All \cup {Nobody} /\ ~ HasFiles(t)'
      /\ \A u \in All \ {t} : HasFiles(u)' <=> HasFiles(u)
  BY <1>1, <1>2, <1>3, <1>4, Zenon DEF HasFiles
<1> QED BY <1>5, <1>6, Zenon

(* What keeps HoldInv: a call that returns, whatever it did to the files     *)
(* with the mutex.                                                           *)
LEMMA HoldReturn ==
  ASSUME HoldInv, NEW t \in All, NEW r, Return(t, r), UNCHANGED mount,
         UNCHANGED files \/ HasFiles(t)
  PROVE  HoldInv'
<1>1. /\ DOMAIN call' = All /\ call'[t].op = "reply" /\ call'[t].ret = r
      /\ \A u \in All \ {t} : call'[u] = call[u]
      /\ m_files_mutex' \in All \cup {Nobody} /\ ~ HasFiles(t)'
      /\ (\A u : u \in entered' <=> u \in entered /\ u # t)
      /\ \A u \in All \ {t} : HasFiles(u)' <=> HasFiles(u)
  BY Returning, Zenon
<1>2. ASSUME NEW u \in All
      PROVE  /\ call'[u].op # "reply" => call'[u].ret = NoReply
             /\ call'[u].op = "load" => call'[u].p \in Paths
             /\ HasFiles(u)' => /\ call'[u].op \in FilesFirst
                                /\ call'[u].op \in {"create", "stat"} => ~ IsFile(call[u].p)'
                                /\ call'[u].op = "load" => IsFile(call[u].p)'
             /\ u \in entered' => HasFiles(u)' /\ call'[u].op = "create"
  <2>1. CASE u = t BY <1>1, <2>1, Zenon
  <2>2. CASE u # t
    <3>1. HasFiles(u) => UNCHANGED files BY <2>2, Zenon DEF HasFiles
    <3>2. call'[u] = call[u] /\ (HasFiles(u)' <=> HasFiles(u)) BY <1>1, <2>2, Zenon
    <3> QED BY <1>1, <2>2, <3>1, <3>2, Zenon DEF HoldInv, IsFile
  <2> QED BY <2>1, <2>2, Zenon
<1> QED BY <1>1, <1>2, Zenon DEF HoldInv

(* The mutex is taken by a call that starts, and kept until it returns.      *)
LEMMA HoldStep == ASSUME HoldInv, [Next]_vars PROVE HoldInv'
<1>1. ASSUME UNCHANGED <<files, call, m_files_mutex, entered, mount>> PROVE HoldInv'
  BY <1>1, Zenon DEF HoldInv, IsFile, HasFiles
<1>2. ASSUME NEW t \in All, Call(t) PROVE HoldInv'
  <2>1. PICK c \in [op : mount.ops, p : Known, q : Operands, ret : {NoReply}] :
          /\ c.op \in ByWorker <=> t = Loader
          /\ Fits(c) /\ Room(c)
          /\ \E p \in Reached(c) : call' = [call EXCEPT ![t] = [c EXCEPT !.op = Backends(c.op), !.p = p]]
    BY <1>2, Zenon DEF Call
  <2>2. PICK p \in Reached(c) : call' = [call EXCEPT ![t] = [c EXCEPT !.op = Backends(c.op), !.p = p]]
    BY <2>1, Zenon
  <2>3. /\ call[t] = Idle /\ UNCHANGED <<files, m_files_mutex, entered, mount>> BY <1>2, Zenon DEF Call
  <2>4. call[t].op = "none" BY <2>3, Fresh, Zenon
  <2>5. ~ HasFiles(t) /\ t \notin entered BY <2>4, Zenon DEF HoldInv, FilesFirst
  <2>6. DOMAIN call' = All /\ (\A u \in All \ {t} : call'[u] = call[u])
        /\ call'[t] = [c EXCEPT !.op = Backends(c.op), !.p = p]
    BY <2>2, Zenon DEF HoldInv
  <2>7. call'[t].ret = NoReply /\ call'[t].op = Backends(c.op) /\ call'[t].p = p BY <2>6, Zenon
  <2>8. call'[t].op = "load" => call'[t].p \in Paths
    <3>1. SUFFICES ASSUME Backends(c.op) = "load" PROVE p \in Paths BY <2>7, Zenon
    <3>2. c.op = "load" BY <3>1, Zenon DEF Backends
    <3>3. p = c.p BY <2>2, <3>2, Zenon DEF Reached, Follows
    <3>4. c.p \in FilePaths BY <2>1, <3>2, Zenon DEF Fits
    <3> QED BY <3>3, <3>4, Zenon DEF FilePaths, HoldInv, MountRecord
  <2> HIDE DEF HoldInv
  <2>9. ASSUME NEW u \in All
        PROVE  /\ call'[u].op # "reply" => call'[u].ret = NoReply
               /\ call'[u].op = "load" => call'[u].p \in Paths
               /\ HasFiles(u)' => /\ call'[u].op \in FilesFirst
                                  /\ call'[u].op \in {"create", "stat"} => ~ IsFile(call[u].p)'
                                  /\ call'[u].op = "load" => IsFile(call[u].p)'
               /\ u \in entered' => HasFiles(u)' /\ call'[u].op = "create"
    <3>1. CASE u = t BY <2>3, <2>5, <2>7, <2>8, <3>1, Zenon DEF HasFiles
    <3>2. CASE u # t BY <2>3, <2>6, <3>2, ZenonT(60) DEF HoldInv, HasFiles, IsFile
    <3> QED BY <3>1, <3>2, Zenon
  <2> QED BY <2>3, <2>6, <2>9, Zenon DEF HoldInv
<1>3. ASSUME NEW t \in All, Rest(t) PROVE HoldInv'
  <2>1. /\ call[t].op = "reply" /\ call' = [call EXCEPT ![t] = Idle]
        /\ UNCHANGED <<files, m_files_mutex, entered, mount>>
    BY <1>3, Zenon DEF Rest
  <2>2. ~ HasFiles(t) /\ t \notin entered BY <2>1, Zenon DEF HoldInv, FilesFirst
  <2>3. /\ DOMAIN call' = All /\ call'[t] = Idle /\ \A u \in All \ {t} : call'[u] = call[u]
    BY <2>1, Zenon DEF HoldInv
  <2>4. Idle.op = "none" /\ Idle.ret = NoReply BY Fresh, Zenon
  <2>5. ASSUME NEW u \in All
        PROVE  /\ call'[u].op # "reply" => call'[u].ret = NoReply
               /\ call'[u].op = "load" => call'[u].p \in Paths
               /\ HasFiles(u)' => /\ call'[u].op \in FilesFirst
                                  /\ call'[u].op \in {"create", "stat"} => ~ IsFile(call[u].p)'
                                  /\ call'[u].op = "load" => IsFile(call[u].p)'
               /\ u \in entered' => HasFiles(u)' /\ call'[u].op = "create"
    <3>1. CASE u = t BY <2>1, <2>2, <2>3, <2>4, <3>1, Zenon DEF HasFiles
    <3>2. CASE u # t BY <2>1, <2>3, <3>2, Zenon DEF HoldInv, HasFiles, IsFile
    <3> QED BY <3>1, <3>2, Zenon
  <2> QED BY <2>1, <2>3, <2>5, Zenon DEF HoldInv
<1>4. ASSUME NEW t \in All, Step(t), ~ Rest(t) PROVE HoldInv'
  <2>0. UNCHANGED mount BY <1>4, StepKinds, Zenon
  <2>1. CASE LockFiles(t)
    <3>1. call[t].op \in FilesFirst /\ m_files_mutex = Nobody
      BY <2>1, Zenon DEF LockFiles, Runs, FilesFirst
    <3>2. \A u \in All : ~ HasFiles(u) /\ u \notin entered
      BY <3>1, PathsAssumption, Zenon DEF HoldInv, HasFiles
    <3>3. CASE UNCHANGED files /\ \E r : Return(t, r) BY <2>0, <3>3, HoldReturn, Zenon
    <3>4. CASE UNCHANGED files /\ GoesOn BY <1>1, <2>0, <3>4, Zenon DEF GoesOn
    <3>5. CASE /\ Runs(t, {"unlink", "rename"}) \/ (Runs(t, {"stat", "create"}) /\ ~ IsFile(call[t].p))
               /\ m_files_mutex' = t /\ UNCHANGED <<files, call, entered>>
      <4>1. /\ call[t].op \in {"create", "stat"} => ~ IsFile(call[t].p)
            /\ call[t].op # "load"
        BY <3>5, Zenon DEF Runs
      <4>2. \A u \in All : HasFiles(u)' <=> u = t BY <3>5, Zenon DEF HasFiles
      <4>3. \A u \in All : IsFile(call[u].p)' <=> IsFile(call[u].p) BY <3>5, Zenon DEF IsFile
      <4> QED BY <2>0, <3>1, <3>2, <3>5, <4>1, <4>2, <4>3, Zenon DEF HoldInv
    <3>6. CASE /\ Runs(t, {"load"}) /\ m_files_mutex' = t /\ UNCHANGED <<call, entered>>
               /\ files' = Put(files, call[t].p, i_inode + 1)
      <4>1. call[t].op = "load" BY <3>6, Zenon DEF Runs
      <4>2. \A u \in All : HasFiles(u)' <=> u = t BY <3>6, Zenon DEF HasFiles
      <4>3. IsFile(call[t].p)' BY <3>6, Zenon DEF IsFile, Put
      <4> QED BY <2>0, <3>1, <3>2, <3>6, <4>1, <4>2, <4>3, Zenon DEF HoldInv
    <3> QED BY <2>1, <3>3, <3>4, <3>5, <3>6, Zenon DEF LockFiles
  <2>2. CASE StatDirs(t) \/ Readdir(t) \/ SetattrFiles(t)
    BY <2>0, <2>2, HoldReturn, Zenon DEF StatDirs, Readdir, SetattrFiles
  <2>3. ASSUME NEW h \in Handles, Create(t, {h}) PROVE HoldInv'
    <3>1. Return(t, Ok({h})) /\ t \in entered BY <2>3, Zenon DEF Create
    <3>2. HasFiles(t) BY <3>1, Zenon DEF HoldInv
    <3> QED BY <2>0, <3>1, <3>2, HoldReturn, Zenon
  <2>11. CASE EnterName(t)
    <3>1. HasFiles(t) /\ call[t].op = "create" /\ UNCHANGED <<files, m_files_mutex, call>>
      BY <2>11, Zenon DEF EnterName, Second, Runs, GoesOn
    <3>2. entered' = entered \/ entered' = entered \cup {t} BY <2>11, Zenon DEF EnterName, GoesOn
    <3> QED BY <2>0, <3>1, <3>2, Zenon DEF HoldInv, HasFiles, IsFile
  <2>4. CASE Load(t) BY <2>0, <2>4, HoldReturn, Zenon DEF Load
  <2>5. CASE Unlink(t) BY <2>0, <2>5, HoldReturn, Zenon DEF Unlink, Second
  <2>6. CASE Rename(t) BY <2>0, <2>6, HoldReturn, Zenon DEF Rename, Second
  <2>7. CASE Mkdir(t) \/ Rmdir(t) BY <2>0, <2>7, HoldReturn, Zenon DEF Mkdir, Rmdir
  <2>8. CASE SetattrDirs(t)
    <3>1. UNCHANGED files BY <2>8, Zenon DEF SetattrDirs
    <3>2. CASE Return(t, Ok({})) BY <2>0, <3>1, <3>2, HoldReturn, Zenon
    <3>3. CASE UNCHANGED <<m_files_mutex, call, entered>> BY <1>1, <2>0, <3>1, <3>3, Zenon
    <3> QED BY <2>8, <3>2, <3>3, Zenon DEF SetattrDirs
  <2>9. CASE unload(t)
    <3>1. UNCHANGED files BY <2>9, Zenon DEF unload
    <3>2. CASE \E r : Return(t, r) BY <2>0, <3>1, <3>2, HoldReturn, Zenon
    <3>3. CASE UNCHANGED <<m_files_mutex, call, entered>> BY <1>1, <2>0, <3>1, <3>3, Zenon
    <3> QED BY <2>9, <3>2, <3>3, Zenon DEF unload, GoesOn
  <2>10. CASE Quiet(t)
    <3>1. CASE \E r : Return(t, r) BY <2>0, <2>10, <3>1, HoldReturn, Zenon DEF Quiet
    <3> QED BY <1>1, <2>0, <2>10, <3>1, Zenon DEF Quiet, GoesOn
  <2> QED BY <1>4, <2>1, <2>2, <2>3, <2>4, <2>5, <2>6, <2>7, <2>8, <2>9, <2>10, <2>11, StepKinds, Zenon
<1>5. CASE Forget BY <1>1, <1>5, Zenon DEF Forget, backendVars
<1>6. CASE UNCHANGED vars BY <1>1, <1>6, Zenon DEF vars, backendVars, frontVars
<1> QED BY <1>2, <1>3, <1>4, <1>5, <1>6, Zenon DEF Next, Dead

-----------------------------------------------------------------------------
(* The directories above a path are finitely many.                           *)
LEMMA FewAncestors == ASSUME NEW p \in Paths PROVE IsFiniteSet(Ancestors(p))
<1>1. PICK n \in 1 .. MaxDepth : p \in [1 .. n -> Names] BY Zenon DEF Paths
<1>2. n \in Nat BY PathsAssumption
<1>3. Len(p) = n BY <1>1, <1>2
<1>4. IsFiniteSet(1 .. (Len(p) - 1)) BY <1>2, <1>3, FS_Interval
<1> DEFINE f == [i \in 1 .. (Len(p) - 1) |-> SubSeq(p, 1, i)]
<1>5. f \in Surjection(1 .. (Len(p) - 1), Ancestors(p)) BY Zenon DEF Ancestors, Surjection
<1> QED BY <1>4, <1>5, FS_Surjection, Zenon

(* What a step of a thread can do to the files and the numbers.              *)
FilesStep(t) ==
  \/ UNCHANGED files /\ i_inode' \in Nat /\ i_inode' >= i_inode
  \/ /\ call[t].op \in {"create", "load"} /\ ~ IsFile(call[t].p)
     /\ files' = Put(files, call[t].p, i_inode + 1) /\ i_inode' = i_inode + 1
  \/ /\ call[t].op = "unlink" /\ call'[t].op = "reply"
     /\ files' = Without(files, call[t].p) /\ UNCHANGED i_inode
  \/ /\ call[t].op = "rename" /\ call'[t].op = "reply" /\ IsFile(call[t].p)
     /\ files' = Put(Without(files, call[t].p), call[t].q, files[call[t].p]) /\ UNCHANGED i_inode

\* Every step of the specification leaves m_files and the inode counter alone or
\* is one of these.
LEMMA FilesSteps ==
  ASSUME HoldInv, NumberInv, [Next]_vars
  PROVE  UNCHANGED <<files, i_inode>> \/ \E t \in All : FilesStep(t)
<1>1. ASSUME NEW t \in All, Step(t), ~ Rest(t) PROVE FilesStep(t)
  <2>0. i_inode \in Nat /\ i_inode >= i_inode /\ i_inode + 1 \in Nat /\ i_inode + 1 >= i_inode
    BY DEF NumberInv
  <2>1. CASE StatDirs(t) \/ Readdir(t) \/ SetattrDirs(t) \/ SetattrFiles(t) \/ EnterName(t)
             \/ unload(t) \/ Quiet(t)
    BY <2>0, <2>1, Zenon DEF FilesStep, StatDirs, Readdir, SetattrDirs, SetattrFiles, EnterName, unload, Quiet
  <2>7. CASE LockFiles(t)
    <3>1. CASE UNCHANGED <<files, i_inode>> BY <2>0, <3>1, Zenon DEF FilesStep
    <3>2. CASE ~ UNCHANGED <<files, i_inode>>
      BY <2>7, <3>2, Zenon DEF LockFiles, Runs, FilesStep
    <3> QED BY <3>1, <3>2, Zenon
  <2>2. ASSUME NEW h \in Handles, Create(t, {h}) PROVE FilesStep(t)
    <3>1. t \in entered /\ call[t].op = "create" BY <2>2, Zenon DEF Create, Runs
    <3>2. ~ IsFile(call[t].p) BY <3>1, Zenon DEF HoldInv
    <3> QED BY <2>2, <3>1, <3>2, Zenon DEF Create, FilesStep
  <2>3. CASE Load(t)
    <3>1. /\ HasFiles(t) /\ call[t].op = "load" BY <2>3, Zenon DEF Load, Second, Runs
    <3>2. call[t].p \in Paths BY <3>1, Zenon DEF HoldInv
    <3> DEFINE missing == Ancestors(call[t].p) \ DOMAIN dirs
    <3>3. IsFiniteSet(missing) BY <3>2, FewAncestors, FS_Difference, Zenon
    <3>4. Cardinality(missing) \in Nat BY <3>3, FS_CardinalityType, Zenon
    <3>5. UNCHANGED files /\ i_inode' = i_inode + Cardinality(missing)
      BY <2>3, Zenon DEF Load
    <3> HIDE DEF missing
    <3>6. i_inode' \in Nat /\ i_inode' >= i_inode BY <2>0, <3>4, <3>5
    <3> QED BY <3>5, <3>6, Zenon DEF FilesStep
  <2>4. CASE Unlink(t)
    <3>1. call[t].op = "unlink" /\ UNCHANGED i_inode /\ \E r : Return(t, r)
      BY <2>4, Zenon DEF Unlink, Second, Runs
    <3>2. call'[t].op = "reply" BY <3>1, Returning, Zenon
    <3> QED BY <2>0, <2>4, <3>1, <3>2, Zenon DEF Unlink, FilesStep
  <2>5. CASE Rename(t)
    <3>1. call[t].op = "rename" /\ UNCHANGED i_inode /\ \E r : Return(t, r)
      BY <2>5, Zenon DEF Rename, Second, Runs
    <3>2. call'[t].op = "reply" BY <3>1, Returning, Zenon
    <3> QED BY <2>0, <2>5, <3>1, <3>2, Zenon DEF Rename, RenameDir, RenameFile, FilesStep
  <2>6. CASE Mkdir(t) \/ Rmdir(t) BY <2>0, <2>6, Zenon DEF Mkdir, Rmdir, FilesStep
  <2> QED BY <1>1, <2>1, <2>2, <2>3, <2>4, <2>5, <2>6, <2>7, StepKinds, Zenon
<1>2. ASSUME NEW t \in All, Call(t) \/ Rest(t) PROVE UNCHANGED <<files, i_inode>>
  BY <1>2, Zenon DEF Call, Rest
<1>3. CASE Forget BY <1>3, Zenon DEF Forget, backendVars
<1>4. CASE UNCHANGED vars BY <1>4, Zenon DEF vars, backendVars
<1> QED BY <1>1, <1>2, <1>3, <1>4, Zenon DEF Next, Dead

(* An object that is put in gets a new number, and a rename takes the old    *)
(* name away.                                                                *)
LEMMA NameStep ==
  ASSUME NumberInv, OneNameEach, NEW t \in All, FilesStep(t)
  PROVE  NumberInv' /\ OneNameEach'
<1> DEFINE p == call[t].p
           q == call[t].q
<1> HIDE DEF p, q
<1>1. CASE UNCHANGED files /\ i_inode' \in Nat /\ i_inode' >= i_inode
  BY <1>1 DEF NumberInv, OneNameEach
<1>2. CASE files' = Put(files, p, i_inode + 1) /\ i_inode' = i_inode + 1
  <2>1. /\ DOMAIN files' = DOMAIN files \cup {p}
        /\ \A x \in DOMAIN files' : files'[x] = IF x = p THEN i_inode + 1 ELSE files[x]
    BY <1>2, Zenon DEF Put
  <2>2. \A x \in DOMAIN files' : files'[x] \in 1 .. i_inode' BY <1>2, <2>1 DEF NumberInv
  <2>3. \A x, y \in DOMAIN files' : files'[x] = files'[y] => x = y
    BY <2>1 DEF NumberInv, OneNameEach
  <2>4. i_inode' \in Nat BY <1>2 DEF NumberInv
  <2> QED BY <2>2, <2>3, <2>4, Zenon DEF NumberInv, OneNameEach
<1>3. CASE files' = Without(files, p) /\ UNCHANGED i_inode
  <2>1. DOMAIN files' = DOMAIN files \ {p} /\ \A x \in DOMAIN files' : files'[x] = files[x]
    BY <1>3, Zenon DEF Without
  <2> QED BY <1>3, <2>1, Zenon DEF NumberInv, OneNameEach
<1>4. CASE files' = Put(Without(files, p), q, files[p]) /\ UNCHANGED i_inode /\ IsFile(p)
  <2>1. /\ DOMAIN files' = (DOMAIN files \ {p}) \cup {q}
        /\ \A x \in DOMAIN files' : files'[x] = IF x = q THEN files[p] ELSE files[x]
    BY <1>4, Zenon DEF Put, Without
  <2>2. p \in DOMAIN files BY <1>4, Zenon DEF IsFile
  <2> QED BY <1>4, <2>1, <2>2 DEF NumberInv, OneNameEach
<1> QED BY <1>1, <1>2, <1>3, <1>4, Zenon DEF FilesStep, p, q

(* The inductive invariant holds throughout, on every mount.                 *)
THEOREM NameInvariance == Spec => []NameInv
<1>1. Init => NameInv
  <2>1. SUFFICES ASSUME Init PROVE NameInv BY Zenon
  <2>2. /\ mount \in MountRecord BY <2>1, FrontAssumption, Zenon DEF Init
  <2>3. /\ \A t \in All : call[t].op = "none" /\ call[t].ret = NoReply
        /\ DOMAIN call = All /\ m_files_mutex = Nobody /\ DOMAIN files = {} /\ i_inode = 0
        /\ entered = {}
    BY <2>1 DEF Init, BackendInit, Idle
  <2>4. HoldInv BY <2>2, <2>3, PathsAssumption, Zenon DEF HoldInv, HasFiles
  <2> QED BY <2>3, <2>4, Zenon DEF NameInv, NumberInv, OneNameEach
<1>2. NameInv /\ [Next]_vars => NameInv'
  <2>1. SUFFICES ASSUME NameInv, [Next]_vars PROVE NameInv' BY Zenon
  <2>2. HoldInv' BY <2>1, HoldStep, Zenon DEF NameInv
  <2>3. CASE UNCHANGED <<files, i_inode>>
    BY <2>1, <2>2, <2>3, Zenon DEF NameInv, NumberInv, OneNameEach
  <2>4. CASE \E t \in All : FilesStep(t) BY <2>1, <2>2, <2>4, NameStep, Zenon DEF NameInv
  <2> QED BY <2>1, <2>3, <2>4, FilesSteps, Zenon DEF NameInv
<1> QED BY <1>1, <1>2, PTL DEF Spec

(* do_rename leaves no second name, and no number is given out twice: a file *)
(* object is found under one path.                                           *)
THEOREM NamesDiffer == Spec => []OneNameEach
<1>1. NameInv => OneNameEach BY Zenon DEF NameInv
<1> QED BY <1>1, NameInvariance, PTL

(* What is in m_files stays there until its own do_unlink, or a do_rename    *)
(* onto its path: no do_create or load of another thread writes over it.     *)
THEOREM FilesStay == Spec => NoFileLost
<1> DEFINE Kept == \A p \in DOMAIN files :
             files[p] \in {files'[x] : x \in DOMAIN files'} \/
             \E t \in All : /\ call[t].ret = NoReply /\ call'[t].op = "reply"
                            /\ \/ call[t].op = "unlink" /\ call[t].p = p
                               \/ call[t].op = "rename" /\ call[t].q = p
<1>1. ASSUME NameInv, [Next]_vars PROVE Kept
  <2>1. CASE UNCHANGED <<files, i_inode>> BY <2>1, Zenon
  <2>2. ASSUME NEW t \in All, FilesStep(t), NEW p \in DOMAIN files
        PROVE  files[p] \in {files'[x] : x \in DOMAIN files'} \/
               (/\ call[t].ret = NoReply /\ call'[t].op = "reply"
                /\ \/ call[t].op = "unlink" /\ call[t].p = p
                   \/ call[t].op = "rename" /\ call[t].q = p)
    <3>1. call[t].op # "reply" => call[t].ret = NoReply BY <1>1, Zenon DEF NameInv, HoldInv
    <3>2. CASE UNCHANGED files BY <3>2, Zenon
    <3>3. CASE files' = Put(files, call[t].p, i_inode + 1) /\ ~ IsFile(call[t].p)
      <4>1. p \in DOMAIN files' /\ files'[p] = files[p] BY <3>3, Zenon DEF Put, IsFile
      <4> QED BY <4>1, Zenon
    <3>4. CASE /\ call[t].op = "unlink" /\ call'[t].op = "reply" /\ files' = Without(files, call[t].p)
      <4>1. p # call[t].p => p \in DOMAIN files' /\ files'[p] = files[p] BY <3>4, Zenon DEF Without
      <4> QED BY <3>1, <3>4, <4>1, Zenon
    <3>5. CASE /\ call[t].op = "rename" /\ call'[t].op = "reply"
               /\ files' = Put(Without(files, call[t].p), call[t].q, files[call[t].p])
      <4>1. p = call[t].p => call[t].q \in DOMAIN files' /\ files'[call[t].q] = files[p]
        BY <3>5, Zenon DEF Put
      <4>2. p # call[t].p /\ p # call[t].q => p \in DOMAIN files' /\ files'[p] = files[p]
        BY <3>5, Zenon DEF Put, Without
      <4> QED BY <3>1, <3>5, <4>1, <4>2, Zenon
    <3> QED BY <2>2, <3>2, <3>3, <3>4, <3>5, Zenon DEF FilesStep
  <2>3. CASE \E t \in All : FilesStep(t) BY <2>2, <2>3, Zenon
  <2> QED BY <1>1, <2>1, <2>3, FilesSteps, Zenon DEF NameInv
<1>2. NameInv /\ [Next]_vars => [Kept]_vars BY <1>1, Zenon
<1> QED BY <1>2, NameInvariance, PTL DEF Spec, NoFileLost

-----------------------------------------------------------------------------
(* Sequences are the same when their elements are.                           *)
LEMMA SameSeq ==
  ASSUME NEW S, NEW s \in Seq(S), NEW u \in Seq(S), Len(s) = Len(u),
         \A i \in 1 .. Len(s) : s[i] = u[i]
  PROVE  s = u
OBVIOUS

(* The start of a sequence has its first elements.                           *)
LEMMA StartOfSeq ==
  ASSUME NEW S, NEW s \in Seq(S), NEW n \in 0 .. Len(s)
  PROVE  /\ SubSeq(s, 1, n) \in Seq(S) /\ Len(SubSeq(s, 1, n)) = n
         /\ \A i \in 1 .. n : SubSeq(s, 1, n)[i] = s[i]
OBVIOUS

(* The whole of a sequence is the sequence.                                  *)
LEMMA WholeSeq == ASSUME NEW S, NEW s \in Seq(S) PROVE SubSeq(s, 1, Len(s)) = s
<1>1. Len(s) \in 0 .. Len(s) OBVIOUS
<1> QED BY <1>1, SameSeq, StartOfSeq

(* A path is a sequence of names that is not empty; its parent is shorter by *)
(* the last one.                                                             *)
LEMMA PathParts ==
  ASSUME NEW p \in Paths
  PROVE  /\ Len(p) \in 1 .. MaxDepth /\ p \in Seq(Names) /\ p # Root
         /\ Parent(p) \in Seq(Names) /\ Len(Parent(p)) = Len(p) - 1
         /\ \A i \in 1 .. Len(p) - 1 : Parent(p)[i] = p[i]
         /\ Parent(p) # p
<1>1. PICK n \in 1 .. MaxDepth : p \in [1 .. n -> Names] BY DEF Paths
<1>2. n \in Nat /\ n >= 1 BY PathsAssumption
<1>3. Len(p) = n /\ p \in Seq(Names) BY <1>1, <1>2
<1>4. /\ Parent(p) \in Seq(Names) /\ Len(Parent(p)) = Len(p) - 1
      /\ \A i \in 1 .. Len(p) - 1 : Parent(p)[i] = p[i]
  <2>1. Len(p) - 1 \in 0 .. Len(p) BY <1>2, <1>3, SMTT(30)
  <2> QED BY <1>3, <2>1, StartOfSeq, Zenon DEF Parent
<1>5. p # Root BY <1>2, <1>3, SMTT(30) DEF Root
<1>6. Parent(p) # p BY <1>2, <1>3, <1>4, SMTT(30)
<1> QED BY <1>1, <1>3, <1>4, <1>5, <1>6, Zenon

(* The parent and the last name determine a path.                            *)
LEMMA PathSplit ==
  ASSUME NEW x \in Paths, NEW y \in Paths, Parent(x) = Parent(y), Last(x) = Last(y)
  PROVE  x = y
<1>1. /\ Len(x) \in Nat /\ Len(x) >= 1 /\ x \in Seq(Names) /\ Len(Parent(x)) = Len(x) - 1
      /\ \A i \in 1 .. Len(x) - 1 : Parent(x)[i] = x[i]
  BY PathParts
<1>2. /\ Len(y) \in Nat /\ Len(y) >= 1 /\ y \in Seq(Names) /\ Len(Parent(y)) = Len(y) - 1
      /\ \A i \in 1 .. Len(y) - 1 : Parent(y)[i] = y[i]
  BY PathParts
<1>3. Len(x) = Len(y) BY <1>1, <1>2
<1>4. \A i \in 1 .. Len(x) : x[i] = y[i]
  <2>1. SUFFICES ASSUME NEW i \in 1 .. Len(x) PROVE x[i] = y[i] BY Zenon
  <2>2. CASE i = Len(x) BY <1>3, <2>2, Zenon DEF Last
  <2>3. CASE i # Len(x)
    <3>1. i \in 1 .. Len(x) - 1 BY <1>1, <2>3
    <3> QED BY <1>1, <1>2, <1>3, <3>1, Zenon
  <2> QED BY <2>2, <2>3, Zenon
<1> QED BY <1>1, <1>2, <1>3, <1>4, SameSeq, Zenon

(* A path lies under its parent and under itself, the root under no path.    *)
LEMMA UnderPath ==
  ASSUME NEW p \in Paths
  PROVE  Under(p, p) /\ Under(p, Parent(p)) /\ ~ Under(Root, p)
<1>1. Len(p) \in Nat /\ Len(p) >= 1 /\ p \in Seq(Names) /\ Len(Parent(p)) = Len(p) - 1
  BY PathParts
<1>2. SubSeq(p, 1, Len(p)) = p BY <1>1, WholeSeq, Zenon
<1>3. Under(p, p) BY <1>1, <1>2 DEF Under
<1>4. Under(p, Parent(p))
  <2>1. SubSeq(p, 1, Len(Parent(p))) = Parent(p) BY <1>1, Zenon DEF Parent
  <2> QED BY <1>1, <2>1 DEF Under
<1>5. ~ Under(Root, p) BY <1>1 DEF Under, Root
<1> QED BY <1>3, <1>4, <1>5, Zenon

-----------------------------------------------------------------------------
\* The names of what X has in a directory.
Listed(X, d) == {Last(x) : x \in {y \in X : Parent(y) = d}}

\* X is what is in the directories D: each has its directory, which lists it and
\* counts it.
Tidy(X, D) ==
  /\ X \subseteq Paths /\ Root \in DOMAIN D
  /\ \A x \in X : Parent(x) \in DOMAIN D
  /\ \A d \in DOMAIN D :
       /\ D[d].names = Listed(X, d)
       /\ IsFiniteSet(D[d].names) /\ D[d].nlink = 1 + Cardinality(D[d].names)

(* dir::add_file enters a path that was not there, and counts it.            *)
LEMMA AddEntry ==
  ASSUME NEW X, NEW D, Tidy(X, D), NEW p \in Paths, p \notin X, Parent(p) \in DOMAIN D
  PROVE  Tidy(X \cup {p}, add_file(D, p)) /\ DOMAIN add_file(D, p) = DOMAIN D
<1> DEFINE pa == Parent(p)
           E == add_file(D, p)
<1>1. /\ DOMAIN E = DOMAIN D
      /\ E[pa] = [names |-> D[pa].names \cup {Last(p)}, nlink |-> D[pa].nlink + 1]
      /\ \A d \in DOMAIN D : d # pa => E[d] = D[d]
  BY Zenon DEF add_file
<1> HIDE DEF pa, E
<1>2. E[pa].names = D[pa].names \cup {Last(p)} /\ E[pa].nlink = D[pa].nlink + 1 BY <1>1
<1>3. Last(p) \notin D[pa].names
  <2>1. SUFFICES ASSUME NEW x \in X, Parent(x) = pa, Last(x) = Last(p) PROVE FALSE
    BY DEF Tidy, Listed, pa
  <2> QED BY <2>1, PathSplit, Zenon DEF pa, Tidy
<1>4. pa \in DOMAIN D BY Zenon DEF pa
<1>5. IsFiniteSet(E[pa].names) /\ E[pa].nlink = 1 + Cardinality(E[pa].names)
  <2>1. IsFiniteSet(D[pa].names) /\ D[pa].nlink = 1 + Cardinality(D[pa].names) BY <1>4, Zenon DEF Tidy
  <2>2. Cardinality(D[pa].names) \in Nat BY <2>1, FS_CardinalityType, Zenon
  <2>3. /\ IsFiniteSet(D[pa].names \cup {Last(p)})
        /\ Cardinality(D[pa].names \cup {Last(p)}) = Cardinality(D[pa].names) + 1
    BY <1>3, <2>1, FS_AddElement, Zenon
  <2> QED BY <1>2, <2>1, <2>2, <2>3, SMTT(30)
<1>6. ASSUME NEW d \in DOMAIN D
      PROVE  /\ E[d].names = Listed(X \cup {p}, d)
             /\ IsFiniteSet(E[d].names) /\ E[d].nlink = 1 + Cardinality(E[d].names)
  <2>1. CASE d = pa
    <3>1. D[d].names = Listed(X, d) BY Zenon DEF Tidy
    <3>2. Parent(p) = d BY <2>1, Zenon DEF pa
    <3>3. Listed(X \cup {p}, d) = Listed(X, d) \cup {Last(p)} BY <3>2, Zenon DEF Listed
    <3>4. E[d].names = Listed(X \cup {p}, d) BY <1>2, <2>1, <3>1, <3>3, Zenon
    <3> QED BY <1>5, <2>1, <3>4, Zenon
  <2>2. CASE d # pa
    <3>1. Listed(X \cup {p}, d) = Listed(X, d) BY <2>2, Zenon DEF pa, Listed
    <3>2. E[d] = D[d] BY <1>1, <2>2, Zenon
    <3> QED BY <3>1, <3>2, Zenon DEF Tidy
  <2> QED BY <2>1, <2>2, Zenon
<1>7. Tidy(X \cup {p}, E) BY <1>1, <1>6, Zenon DEF Tidy
<1> QED BY <1>1, <1>7, Zenon DEF E

(* dir::remove_file takes the entry of a path that was there out.            *)
LEMMA RemoveEntry ==
  ASSUME NEW X, NEW D, Tidy(X, D), NEW p \in X
  PROVE  Tidy(X \ {p}, remove_file(D, p)) /\ DOMAIN remove_file(D, p) = DOMAIN D
<1> DEFINE pa == Parent(p)
           E == remove_file(D, p)
<1>0. p \in Paths /\ pa \in DOMAIN D BY Zenon DEF Tidy
<1>1. /\ DOMAIN E = DOMAIN D
      /\ E[pa] = [names |-> D[pa].names \ {Last(p)}, nlink |-> D[pa].nlink - 1]
      /\ \A d \in DOMAIN D : d # pa => E[d] = D[d]
  BY <1>0, Zenon DEF remove_file
<1> HIDE DEF E
<1>2. E[pa].names = D[pa].names \ {Last(p)} /\ E[pa].nlink = D[pa].nlink - 1 BY <1>1
<1>3. D[pa].names = Listed(X, pa) BY <1>0, Zenon DEF Tidy
<1>4. Last(p) \in D[pa].names BY <1>3, Zenon DEF Listed
<1>5. IsFiniteSet(E[pa].names) /\ E[pa].nlink = 1 + Cardinality(E[pa].names)
  <2>1. IsFiniteSet(D[pa].names) /\ D[pa].nlink = 1 + Cardinality(D[pa].names) BY <1>0, Zenon DEF Tidy
  <2>2. Cardinality(D[pa].names) \in Nat BY <2>1, FS_CardinalityType, Zenon
  <2>3. /\ IsFiniteSet(D[pa].names \ {Last(p)})
        /\ Cardinality(D[pa].names \ {Last(p)}) = Cardinality(D[pa].names) - 1
    BY <1>4, <2>1, FS_RemoveElement, Zenon
  <2> QED BY <1>2, <2>1, <2>2, <2>3
<1>6. \A x \in X : Parent(x) = pa /\ Last(x) = Last(p) => x = p BY <1>0, PathSplit, Zenon DEF Tidy
<1>7. Listed(X \ {p}, pa) = D[pa].names \ {Last(p)}
  BY <1>3, <1>6, Zenon DEF Listed
<1>9. ASSUME NEW d \in DOMAIN D
      PROVE  /\ E[d].names = Listed(X \ {p}, d)
             /\ IsFiniteSet(E[d].names) /\ E[d].nlink = 1 + Cardinality(E[d].names)
  <2>1. CASE d = pa BY <1>2, <1>5, <1>7, <2>1, Zenon
  <2>2. CASE d # pa
    <3>1. Listed(X \ {p}, d) = Listed(X, d) BY <2>2, Zenon DEF Listed
    <3>2. E[d] = D[d] BY <1>1, <2>2, Zenon
    <3> QED BY <3>1, <3>2, Zenon DEF Tidy
  <2> QED BY <2>1, <2>2, Zenon
<1>10. Tidy(X \ {p}, E) BY <1>1, <1>9, Zenon DEF Tidy
<1> QED BY <1>1, <1>10, Zenon DEF E

(* A new directory is empty.                                                 *)
LEMMA AddDir ==
  ASSUME NEW X, NEW D, Tidy(X, D), NEW p, p \notin DOMAIN D
  PROVE  Tidy(X, Put(D, p, NewDir))
<1> DEFINE E == Put(D, p, NewDir)
<1>1. DOMAIN E = DOMAIN D \cup {p} /\ E[p] = NewDir /\ \A d \in DOMAIN D : E[d] = D[d] BY Zenon DEF Put
<1> HIDE DEF E
<1>2. NewDir.names = {} /\ NewDir.nlink = 1 BY Fresh, Zenon
<1>3. IsFiniteSet({}) /\ Cardinality({}) = 0 BY FS_EmptySet, Zenon
<1>4. Listed(X, p) = {} BY DEF Tidy, Listed
<1>5. ASSUME NEW d \in DOMAIN E
      PROVE  /\ E[d].names = Listed(X, d)
             /\ IsFiniteSet(E[d].names) /\ E[d].nlink = 1 + Cardinality(E[d].names)
  <2>1. CASE d = p BY <1>1, <1>2, <1>3, <1>4, <2>1, SMTT(30)
  <2>2. CASE d # p
    <3>1. d \in DOMAIN D /\ E[d] = D[d] BY <1>1, <2>2, Zenon
    <3> QED BY <3>1, Zenon DEF Tidy
  <2> QED BY <2>1, <2>2, Zenon
<1>6. Tidy(X, E) BY <1>1, <1>5, Zenon DEF Tidy
<1> QED BY <1>6, Zenon DEF E

(* A directory that is counted empty has nothing below it.                   *)
LEMMA RemoveDir ==
  ASSUME NEW X, NEW D, Tidy(X, D), NEW p \in DOMAIN D, p # Root, D[p].nlink = 1
  PROVE  Tidy(X, Without(D, p)) /\ \A y \in X : Parent(y) # p
<1>1. IsFiniteSet(D[p].names) /\ D[p].nlink = 1 + Cardinality(D[p].names) BY Zenon DEF Tidy
<1>2. Cardinality(D[p].names) \in Nat BY <1>1, FS_CardinalityType, Zenon
<1>3. Cardinality(D[p].names) = 0 BY <1>1, <1>2
<1>4. D[p].names = {} BY <1>1, <1>3, FS_EmptySet, Zenon
<1>5. \A y \in X : Parent(y) # p BY <1>4 DEF Tidy, Listed
<1> DEFINE E == Without(D, p)
<1>6. DOMAIN E = DOMAIN D \ {p} /\ \A d \in DOMAIN E : E[d] = D[d] BY Zenon DEF Without
<1> HIDE DEF E
<1>7. Tidy(X, E) BY <1>5, <1>6, Zenon DEF Tidy
<1> QED BY <1>5, <1>7, Zenon DEF E

(* The directories above a path form a chain that ends at the root.          *)
LEMMA AncestorParts ==
  ASSUME NEW p \in Paths, NEW e \in Ancestors(p) \cup {p}
  PROVE  /\ e \in Paths /\ e = SubSeq(p, 1, Len(e))
         /\ Parent(e) \in Ancestors(p) \cup {Root}
<1>1. Len(p) \in 1 .. MaxDepth /\ p \in Seq(Names) BY PathParts, Zenon
<1>2. Len(p) \in Nat /\ MaxDepth \in Nat BY <1>1, PathsAssumption
<1>3. PICK i \in 1 .. Len(p) : e = SubSeq(p, 1, i)
  <2>1. CASE e = p
    <3>1. Len(p) \in 1 .. Len(p) /\ p = SubSeq(p, 1, Len(p)) BY <1>1, <1>2, WholeSeq
    <3> QED BY <2>1, <3>1, Zenon
  <2>2. CASE e \in Ancestors(p) BY <1>2, <2>2 DEF Ancestors
  <2> QED BY <2>1, <2>2, Zenon
<1>4. /\ e \in Seq(Names) /\ Len(e) = i /\ \A k \in 1 .. i : e[k] = p[k]
  <2>1. i \in 0 .. Len(p) BY <1>2
  <2> QED BY <1>1, <1>3, <2>1, StartOfSeq, Zenon
<1>5. e \in Paths
  <2>1. e \in [1 .. i -> Names] BY <1>4
  <2>2. i \in 1 .. MaxDepth BY <1>1, <1>2
  <2> QED BY <2>1, <2>2, Zenon DEF Paths
<1>6. Parent(e) = SubSeq(p, 1, i - 1)
  <2>1. /\ Parent(e) \in Seq(Names) /\ Len(Parent(e)) = i - 1
        /\ \A k \in 1 .. i - 1 : Parent(e)[k] = e[k]
    BY <1>4, <1>5, PathParts, Zenon
  <2>2. /\ SubSeq(p, 1, i - 1) \in Seq(Names) /\ Len(SubSeq(p, 1, i - 1)) = i - 1
        /\ \A k \in 1 .. i - 1 : SubSeq(p, 1, i - 1)[k] = p[k]
    <3>1. i - 1 \in 0 .. Len(p) BY <1>2
    <3> QED BY <1>1, <3>1, StartOfSeq, Zenon
  <2>3. \A k \in 1 .. i - 1 : Parent(e)[k] = SubSeq(p, 1, i - 1)[k] BY <1>2, <1>4, <2>1, <2>2, SMTT(30)
  <2> QED BY <2>1, <2>2, <2>3, SameSeq, Zenon
<1>7. CASE i = 1
  <2>1. Parent(e) \in Seq(Names) /\ Len(Parent(e)) = 0 BY <1>4, <1>5, <1>7, PathParts, SMTT(30)
  <2>2. Parent(e) = Root BY <2>1 DEF Root
  <2> QED BY <1>3, <1>4, <1>5, <2>2, Zenon
<1>8. CASE i # 1
  <2>1. i - 1 \in 1 .. (Len(p) - 1) BY <1>2, <1>8
  <2>2. Parent(e) \in Ancestors(p) BY <1>6, <2>1, Zenon DEF Ancestors
  <2> QED BY <1>3, <1>4, <1>5, <2>2, Zenon
<1> QED BY <1>7, <1>8, Zenon

(* load enters a file and the directories above it that are missing, each in *)
(* the one above.                                                            *)
LEMMA LoadTidy ==
  ASSUME NEW X, NEW D, Tidy(X, D), NEW p \in Paths, p \notin X, p \notin DOMAIN D,
         NEW missing, missing = Ancestors(p) \ DOMAIN D, missing \cap X = {},
         NEW E, DOMAIN E = DOMAIN D \cup missing,
         \A d \in DOMAIN E :
           LET entries == {e \in missing \cup {p} : Parent(e) = d}
               old == IF d \in DOMAIN D THEN D[d] ELSE NewDir
           IN  /\ E[d].names = old.names \cup {Last(e) : e \in entries}
               /\ E[d].nlink = old.nlink + Cardinality(entries)
  PROVE  Tidy(X \cup (missing \cup {p}), E)
<1> DEFINE new == missing \cup {p}
           old(d) == IF d \in DOMAIN D THEN D[d] ELSE NewDir
           entries(d) == {e \in new : Parent(e) = d}
           lasts(d) == {Last(e) : e \in entries(d)}
<1>1. \A e \in new : /\ e \in Paths /\ e \notin X /\ e = SubSeq(p, 1, Len(e))
                      /\ Parent(e) \in DOMAIN E
  <2>1. SUFFICES ASSUME NEW e \in new
                 PROVE  /\ e \in Paths /\ e \notin X /\ e = SubSeq(p, 1, Len(e)) /\ Parent(e) \in DOMAIN E
    BY Zenon
  <2>2. e \in Ancestors(p) \cup {p} BY Zenon
  <2>3. e \in Paths /\ e = SubSeq(p, 1, Len(e)) /\ Parent(e) \in Ancestors(p) \cup {Root}
    BY <2>2, AncestorParts, Zenon
  <2>4. Root \in DOMAIN D BY Zenon DEF Tidy
  <2> QED BY <2>3, <2>4, Zenon
<1>2. \A e, g \in new : Parent(e) = Parent(g) => e = g
  <2>1. SUFFICES ASSUME NEW e \in new, NEW g \in new, Parent(e) = Parent(g) PROVE e = g BY Zenon
  <2>2. /\ Len(Parent(e)) = Len(e) - 1 /\ Len(e) \in Nat
        /\ Len(Parent(g)) = Len(g) - 1 /\ Len(g) \in Nat
    BY <1>1, PathParts
  <2>3. Len(e) = Len(g) BY <2>1, <2>2
  <2>4. e = SubSeq(p, 1, Len(e)) /\ g = SubSeq(p, 1, Len(g)) BY <1>1, Zenon
  <2> QED BY <2>3, <2>4, Zenon
<1>3. ASSUME NEW d \in DOMAIN E
      PROVE  /\ old(d).names = Listed(X, d) /\ IsFiniteSet(old(d).names)
             /\ old(d).nlink = 1 + Cardinality(old(d).names)
  <2>1. CASE d \in DOMAIN D BY <2>1, Zenon DEF Tidy
  <2>2. CASE d \notin DOMAIN D
    <3>1. Listed(X, d) = {} BY <2>2 DEF Tidy, Listed
    <3>2. NewDir.names = {} /\ NewDir.nlink = 1 BY Fresh, Zenon
    <3>3. IsFiniteSet({}) /\ Cardinality({}) = 0 BY FS_EmptySet, Zenon
    <3>4. old(d) = NewDir BY <2>2, Zenon
    <3> HIDE DEF old
    <3>5. old(d).names = {} /\ old(d).nlink = 1 BY <3>2, <3>4, Zenon
    <3>6. IsFiniteSet(old(d).names) /\ Cardinality(old(d).names) = 0 BY <3>3, <3>5, Zenon
    <3> QED BY <3>1, <3>5, <3>6, SMTT(30)
  <2> QED BY <2>1, <2>2, Zenon
<1>4. \A d \in DOMAIN E : /\ E[d].names = old(d).names \cup lasts(d)
                          /\ E[d].nlink = old(d).nlink + Cardinality(entries(d))
  BY Zenon
<1> HIDE DEF new, old
<1>5. ASSUME NEW d \in DOMAIN E
      PROVE  /\ E[d].names = Listed(X \cup new, d)
             /\ IsFiniteSet(E[d].names) /\ E[d].nlink = 1 + Cardinality(E[d].names)
  <2>1. Listed(X \cup new, d) = Listed(X, d) \cup lasts(d) BY DEF Listed
  <2>2. CASE entries(d) = {}
    <3>1. Cardinality({}) = 0 BY FS_EmptySet, Zenon
    <3>2. lasts(d) = {} BY <2>2, Zenon
    <3>3. Cardinality(entries(d)) = 0 BY <2>2, <3>1, Zenon
    <3>4. /\ old(d).names = Listed(X, d) /\ IsFiniteSet(old(d).names)
          /\ old(d).nlink = 1 + Cardinality(old(d).names)
      BY <1>3, Zenon
    <3>5. Cardinality(old(d).names) \in Nat BY <3>4, FS_CardinalityType, Zenon
    <3> HIDE DEF entries, lasts
    <3>6. E[d].names = old(d).names BY <1>4, <3>2, Zenon
    <3>7. E[d].nlink = old(d).nlink + 0 BY <1>4, <3>3, Zenon
    <3> QED BY <2>1, <3>2, <3>4, <3>5, <3>6, <3>7, SMTT(30)
  <2>3. ASSUME NEW e \in entries(d)
        PROVE  /\ E[d].names = Listed(X \cup new, d)
               /\ IsFiniteSet(E[d].names) /\ E[d].nlink = 1 + Cardinality(E[d].names)
    <3>1. entries(d) = {e} BY <1>2, Zenon
    <3>2. Cardinality({e}) = 1 BY FS_Singleton, Zenon
    <3>3. E[d].names = old(d).names \cup {Last(e)} /\ E[d].nlink = old(d).nlink + 1
      <4>1. lasts(d) = {Last(e)} BY <3>1, Zenon
      <4>2. Cardinality(entries(d)) = 1 BY <3>1, <3>2, Zenon
      <4> HIDE DEF entries, lasts
      <4> QED BY <1>4, <4>1, <4>2, Zenon
    <3>4. Last(e) \notin old(d).names
      <4>1. SUFFICES ASSUME NEW x \in X, Parent(x) = d, Last(x) = Last(e) PROVE FALSE
        BY <1>3 DEF Listed
      <4>2. x \in Paths /\ e \in Paths /\ e \notin X /\ Parent(e) = d BY <1>1, <2>3, Zenon DEF Tidy
      <4> QED BY <4>1, <4>2, PathSplit, Zenon
    <3>5. /\ IsFiniteSet(old(d).names \cup {Last(e)})
          /\ Cardinality(old(d).names \cup {Last(e)}) = Cardinality(old(d).names) + 1
      BY <1>3, <3>4, FS_AddElement, Zenon
    <3>6. Cardinality(old(d).names) \in Nat BY <1>3, FS_CardinalityType, Zenon
    <3>7. /\ old(d).names = Listed(X, d)
          /\ old(d).nlink = 1 + Cardinality(old(d).names)
      BY <1>3, Zenon
    <3>8. lasts(d) = {Last(e)} BY <3>1
    <3> HIDE DEF entries, lasts
    <3>9. E[d].names = Listed(X \cup new, d) BY <2>1, <3>3, <3>7, <3>8, ZenonT(30)
    <3>10. E[d].nlink = 1 + Cardinality(E[d].names) BY <3>3, <3>5, <3>6, <3>7, SMTT(30)
    <3> QED BY <3>3, <3>5, <3>9, <3>10, Zenon
  <2> QED BY <2>2, <2>3, Zenon
<1>6. X \cup new \subseteq Paths /\ Root \in DOMAIN E /\ \A x \in X \cup new : Parent(x) \in DOMAIN E
  BY <1>1, Zenon DEF Tidy
<1>7. Tidy(X \cup new, E) BY <1>5, <1>6, Zenon DEF Tidy
<1> QED BY <1>7, Zenon DEF new
=============================================================================
