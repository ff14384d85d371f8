----------------------------- MODULE Namespace -----------------------------
(***************************************************************************)
(* The name space of a storage backend: m_files, m_dirs and their mutexes  *)
(* (src/src/backends/nvram-devdax/nvram-devdax.cpp and dir.cpp).  FUSE     *)
(* threads call the do_* operations, a pool worker calls load(), which for *)
(* a directory calls itself for each file below, one after the other.      *)
(* The module has the steps of these operations; FrontEnd puts them under  *)
(* the calls of the file system.                                           *)
(*                                                                         *)
(* A call is taken apart where it acquires a mutex, and where it releases  *)
(* one before it returns: what it does up to the next such place, or to    *)
(* its return, is one step.  The mutexes are lock_guards, so the last step *)
(* of a call releases those it has.                                        *)
(*                                                                         *)
(* A path is the sequence of its names, the root is <<>>.                  *)
(***************************************************************************)
EXTENDS Integers, Sequences, FiniteSets, Functions

CONSTANTS
  Threads,      \* FUSE worker threads
  Loader,       \* the pool worker that runs load()
  Names, MaxDepth,
  MaxInodes     \* bound on the inode numbers given out

Paths == UNION {[1 .. n -> Names] : n \in 1 .. MaxDepth}
Root == <<>>
Parent(p) == SubSeq(p, 1, Len(p) - 1)
Last(p) == p[Len(p)]
Ancestors(p) == {SubSeq(p, 1, i) : i \in 1 .. (Len(p) - 1)}

\* The name of a file from the configuration or a request: what lies outside of the
\* root directory goes to the top by its last part.
remove_root(p, inside) == IF inside THEN p ELSE <<Last(p)>>
Under(p, q) == Len(q) <= Len(p) /\ SubSeq(p, 1, Len(q)) = q

All == Threads \cup {Loader}
Nobody == "nobody"

ASSUME PathsAssumption ==
  MaxDepth \in Nat /\ MaxInodes \in Nat /\ Loader \notin Threads /\ Nobody \notin All

\* What an operation returns: 0 or an error, and what it fills in (inodes or names).
Ok(v) == [err |-> "0", val |-> v]
Err(e) == [err |-> e, val |-> {}]
NoReply == Err("none")
Idle == [op |-> "none", p |-> Root, q |-> Root, ret |-> NoReply]

VARIABLES
  files,           \* m_files: path -> file object, named by its inode
  dirs,            \* m_dirs: path -> names (dir::m_files) and st_nlink
  i_inode,         \* the last inode number given out
  m_files_mutex,   \* the thread that has it, or Nobody
  m_dirs_mutex,
  call,            \* what each thread is calling, or the reply it got
  entered,         \* who, in do_create, has entered the name in its directory
  status           \* "running", "segv" or "abort"

backendVars == <<files, dirs, i_inode, m_files_mutex, m_dirs_mutex, call, entered, status>>

NewDir == [names |-> {}, nlink |-> 1]

BackendInit ==
  /\ files = <<>> /\ dirs = [d \in {Root} |-> NewDir] /\ i_inode = 0
  /\ m_files_mutex = Nobody /\ m_dirs_mutex = Nobody
  /\ call = [t \in All |-> Idle] /\ entered = {} /\ status = "running"

IsFile(p) == p \in DOMAIN files
IsDir(p) == p \in DOMAIN dirs

Put(f, k, v) == [x \in DOMAIN f \cup {k} |-> IF x = k THEN v ELSE f[x]]
Without(f, k) == [x \in DOMAIN f \ {k} |-> f[x]]

\* dir::add_file and dir::remove_file: the count changes whether or not the
\* name was there.  A parent that is not in m_dirs is skipped.
add_file(D, p) ==
  IF Parent(p) \notin DOMAIN D THEN D
  ELSE [D EXCEPT ![Parent(p)] =
          [names |-> @.names \cup {Last(p)}, nlink |-> @.nlink + 1]]
remove_file(D, p) ==
  IF Parent(p) \notin DOMAIN D THEN D
  ELSE [D EXCEPT ![Parent(p)] =
          [names |-> @.names \ {Last(p)}, nlink |-> @.nlink - 1]]

Runs(t, ops) == status = "running" /\ call[t].op \in ops

HasFiles(t) == m_files_mutex = t
HasDirs(t) == m_dirs_mutex = t

\* The call returns r, and the mutexes it has.
Return(t, r) ==
  /\ call' = [call EXCEPT ![t] = [Idle EXCEPT !.op = "reply", !.ret = r]]
  /\ m_files_mutex' = IF HasFiles(t) THEN Nobody ELSE m_files_mutex
  /\ m_dirs_mutex' = IF HasDirs(t) THEN Nobody ELSE m_dirs_mutex
  /\ entered' = entered \ {t}

\* The call goes on, with the mutexes it has.
GoesOn == UNCHANGED <<m_files_mutex, m_dirs_mutex, call, entered>>

(***************************************************************************)
(* do_stat, do_create, do_unlink, do_rename and load take m_files_mutex    *)
(* first.  do_stat is done if the path is a file, load if it is imported   *)
(* already; otherwise load puts the file in before it asks for the other   *)
(* mutex.  If do_create finds the path it returns no file, and             *)
(* efsng_create follows the null pointer.                                  *)
(***************************************************************************)
LockFiles(t) ==
  LET p == call[t].p IN
  /\ Runs(t, {"stat", "create", "unlink", "rename", "load"})
  /\ m_files_mutex = Nobody
  /\ \/ /\ Runs(t, {"stat", "load"}) /\ IsFile(p) /\ UNCHANGED <<files, i_inode, status>>
        /\ Return(t, IF call[t].op = "stat" THEN Ok({files[p]}) ELSE Err("path_already_imported"))
     \/ /\ Runs(t, {"create"}) /\ IsFile(p) /\ status' = "segv"
        /\ GoesOn /\ UNCHANGED <<files, i_inode>>
     \/ /\ Runs(t, {"unlink", "rename"}) \/ (Runs(t, {"stat", "create"}) /\ ~ IsFile(p))
        /\ m_files_mutex' = t
        /\ UNCHANGED <<files, i_inode, m_dirs_mutex, call, entered, status>>
     \/ /\ Runs(t, {"load"}) /\ ~ IsFile(p)
        /\ m_files_mutex' = t
        /\ files' = Put(files, p, i_inode + 1) /\ i_inode' = i_inode + 1
        /\ UNCHANGED <<m_dirs_mutex, call, entered, status>>
  /\ UNCHANGED dirs

Second(t, op) == Runs(t, {op}) /\ HasFiles(t) /\ m_dirs_mutex = Nobody

\* Slip: a path that is not found is reported without unlocking.
SlipKeepsMutex(t) ==
  /\ Second(t, "stat")
  /\ call' = [call EXCEPT ![t] = [Idle EXCEPT !.op = "reply", !.ret = Err("ENOENT")]]
  /\ m_files_mutex' = IF IsDir(call[t].p) THEN Nobody ELSE t
  /\ UNCHANGED <<files, dirs, i_inode, m_dirs_mutex, entered, status>>

\* The rest of do_stat reads m_dirs.
StatDirs(t) ==
  /\ Second(t, "stat") /\ Return(t, IF IsDir(call[t].p) THEN Ok({0}) ELSE Err("ENOENT"))
  /\ UNCHANGED <<files, dirs, i_inode, status>>

\* do_create enters the name and gives m_dirs_mutex back.
EnterName(t) ==
  LET p == call[t].p IN
  /\ Second(t, "create") /\ t \notin entered
  /\ \/ /\ IsDir(Parent(p)) /\ dirs' = add_file(dirs, p) /\ entered' = entered \cup {t}
        /\ UNCHANGED <<m_files_mutex, m_dirs_mutex, call, status>>
     \/ ~ IsDir(Parent(p)) /\ status' = "segv" /\ GoesOn /\ UNCHANGED dirs
  /\ UNCHANGED <<files, i_inode>>

\* Slip: a file that was unlinked or renamed has its number given out again.
SlipInodeReused(t, v) ==
  LET p == call[t].p
      i == CHOOSE n \in 1 .. i_inode + 1 : \A x \in DOMAIN files : files[x] # n
  IN
  /\ Runs(t, {"create"}) /\ t \in entered /\ Return(t, Ok(v))
  /\ files' = Put(files, p, i) /\ i_inode' = i_inode + 1
  /\ UNCHANGED <<dirs, status>>

\* Then it makes the file; v is what efsng_create makes of it.
Create(t, v) ==
  /\ Runs(t, {"create"}) /\ t \in entered /\ Return(t, Ok(v))
  /\ files' = Put(files, call[t].p, i_inode + 1) /\ i_inode' = i_inode + 1
  /\ UNCHANGED <<dirs, status>>

\* Slip: a directory made for the file is not entered in the one above.
SlipNoEntry(t) ==
  LET p == call[t].p
      missing == Ancestors(p) \ DOMAIN dirs
      made == [d \in DOMAIN dirs \cup missing |-> IF IsDir(d) THEN dirs[d] ELSE NewDir]
  IN
  /\ Second(t, "load") /\ Return(t, Ok({}))
  /\ i_inode' = i_inode + Cardinality(missing)
  /\ dirs' = add_file(made, p)
  /\ UNCHANGED <<files, status>>

\* The rest of load: the directories above the file that are missing, the entries.
Load(t) ==
  LET p == call[t].p
      missing == Ancestors(p) \ DOMAIN dirs
      entries(d) == {e \in missing \cup {p} : Parent(e) = d}
      old(d) == IF IsDir(d) THEN dirs[d] ELSE NewDir
  IN
  /\ Second(t, "load") /\ Return(t, Ok({}))
  /\ i_inode' = i_inode + Cardinality(missing)
  /\ dirs' = [d \in DOMAIN dirs \cup missing |->
               [names |-> old(d).names \cup {Last(e) : e \in entries(d)},
                nlink |-> old(d).nlink + Cardinality(entries(d))]]
  /\ UNCHANGED <<files, status>>

Unlink(t) ==
  LET p == call[t].p IN
  /\ Second(t, "unlink") /\ Return(t, IF IsFile(p) THEN Ok({}) ELSE Err("ENOENT"))
  /\ \/ /\ IsFile(p)
        /\ files' = Without(files, p) /\ dirs' = remove_file(dirs, p)
     \/ ~ IsFile(p) /\ UNCHANGED <<files, dirs>>
  /\ UNCHANGED <<i_inode, status>>

\* Slip in do_rename: the old path stays.
SlipOldPath(p, q) ==
  /\ files' = Put(files, q, files[p])
  /\ dirs' = add_file(dirs, q)

\* do_rename of a file: an existing target goes first, with its entry.
RenameFile(p, q) ==
  LET D == IF IsFile(q) THEN remove_file(dirs, q) ELSE dirs IN
  /\ files' = Put(Without(files, p), q, files[p])
  /\ dirs' = add_file(remove_file(D, p), q)

\* Slip: the files below the directory go with its old key.
SlipFilesBelow(p, q) ==
  \/ IsDir(q) /\ UNCHANGED <<dirs, files>>
  \/ /\ ~ IsDir(q)
     /\ dirs' = Put(Without(dirs, p), q, dirs[p])
     /\ files' = [x \in {y \in DOMAIN files : ~ Under(y, p)} |-> files[x]]

\* do_renamedir moves the key and nothing else.
RenameDir(p, q) ==
  /\ \/ IsDir(q) /\ UNCHANGED dirs
     \/ ~ IsDir(q) /\ dirs' = Put(Without(dirs, p), q, dirs[p])
  /\ UNCHANGED files

Rename(t) ==
  LET p == call[t].p
      q == call[t].q
  IN
  /\ Second(t, "rename")
  /\ \/ IsDir(p) /\ RenameDir(p, q) /\ Return(t, IF IsDir(q) THEN Err("EEXIST") ELSE Ok({}))
     \/ ~ IsDir(p) /\ IsFile(p) /\ RenameFile(p, q) /\ Return(t, Ok({}))
     \/ ~ IsDir(p) /\ ~ IsFile(p) /\ Return(t, Err("ENOENT")) /\ UNCHANGED <<files, dirs>>
  /\ UNCHANGED <<i_inode, status>>

-----------------------------------------------------------------------------
(***************************************************************************)
(* do_mkdir, do_rmdir and find_s (do_readdir) take m_dirs_mutex only.      *)
(* do_mkdir and do_rmdir assert, once the directory is in or out of        *)
(* m_dirs, that its parent is there.                                       *)
(***************************************************************************)
AssertParent(p) == status' = IF IsDir(Parent(p)) THEN status ELSE "abort"

Mkdir(t) ==
  LET p == call[t].p IN
  /\ Runs(t, {"mkdir"}) /\ m_dirs_mutex = Nobody
  /\ Return(t, IF IsDir(p) THEN Err("EPERM") ELSE Ok({}))
  /\ \/ /\ ~ IsDir(p) /\ AssertParent(p)
        /\ dirs' = add_file(Put(dirs, p, NewDir), p) /\ i_inode' = i_inode + 1
     \/ IsDir(p) /\ UNCHANGED <<dirs, i_inode, status>>
  /\ UNCHANGED files

\* Whether do_rmdir takes p for an empty directory.
Empty(p) == dirs[p].nlink = 1

Rmdir(t) ==
  LET p == call[t].p IN
  /\ Runs(t, {"rmdir"}) /\ m_dirs_mutex = Nobody
  /\ Return(t, IF ~ IsDir(p) THEN Err("ENOENT") ELSE IF Empty(p) THEN Ok({}) ELSE Err("ENOTEMPTY"))
  /\ \/ /\ IsDir(p) /\ Empty(p) /\ AssertParent(p)
        /\ dirs' = remove_file(Without(dirs, p), p)
     \/ ~ (IsDir(p) /\ Empty(p)) /\ UNCHANGED <<dirs, status>>
  /\ UNCHANGED <<files, i_inode>>

find_s(p) == IF IsDir(p) THEN dirs[p].names ELSE {}

Readdir(t) ==
  /\ Runs(t, {"readdir"}) /\ m_dirs_mutex = Nobody /\ Return(t, Ok(find_s(call[t].p)))
  /\ UNCHANGED <<files, dirs, i_inode, status>>

\* do_chmod and do_chown take m_dirs_mutex first, m_files_mutex if the path is
\* not a directory.
SetattrDirs(t) ==
  LET p == call[t].p IN
  /\ Runs(t, {"setattr"}) /\ m_dirs_mutex = Nobody
  /\ \/ IsDir(p) /\ Return(t, Ok({}))
     \/ ~ IsDir(p) /\ m_dirs_mutex' = t /\ UNCHANGED <<m_files_mutex, call, entered>>
  /\ UNCHANGED <<files, dirs, i_inode, status>>

SetattrFiles(t) ==
  /\ Runs(t, {"setattr"}) /\ HasDirs(t) /\ m_files_mutex = Nobody
  /\ Return(t, IF IsFile(call[t].p) THEN Ok({}) ELSE Err("ENOENT"))
  /\ UNCHANGED <<files, dirs, i_inode, status>>

(***************************************************************************)
(* unload() walks over m_files with no mutex and copies each file out.  It *)
(* stops when mkdir_p fails.  Against a thread that changes m_files it may *)
(* run into a node that is gone.                                           *)
(***************************************************************************)
Races(t) == \E u \in All \ {t} : HasFiles(u) /\ call[u].op \in {"create", "unlink", "rename", "load"}
unload(t) ==
  /\ Runs(t, {"unload"})
  /\ \/ Return(t, Ok({})) /\ UNCHANGED status
     \/ DOMAIN files # {} /\ Return(t, Err("internal_error")) /\ UNCHANGED status
     \/ Races(t) /\ status' = "segv" /\ GoesOn
  /\ UNCHANGED <<files, dirs, i_inode>>

\* The operations that take several steps.
load(t) == LockFiles(t) \/ Load(t)
do_stat(t) == LockFiles(t) \/ StatDirs(t)
do_create(t, v) == LockFiles(t) \/ EnterName(t) \/ Create(t, v)
do_unlink(t) == LockFiles(t) \/ Unlink(t)
do_rename(t) == LockFiles(t) \/ Rename(t)
do_chmod(t) == SetattrDirs(t) \/ SetattrFiles(t)
do_chown(t) == SetattrDirs(t) \/ SetattrFiles(t)

-----------------------------------------------------------------------------
\* The file that load has put in and not yet entered in its directory, the file
\* that do_create has entered and not yet made, and what there is to list.
Unlisted == {call[t].p : t \in {u \in All : HasFiles(u) /\ call[u].op = "load"}}
Unmade == {call[t].p : t \in entered}
Present == (DOMAIN files \ Unlisted) \cup Unmade \cup (DOMAIN dirs \ {Root})

\* A directory lists exactly what is below it, whichever calls were going on
\* together: do_readdir shows every file and directory, and no other name.
EntriesExact ==
  \A d \in DOMAIN dirs : dirs[d].names = {Last(p) : p \in {x \in Present : Parent(x) = d}}

\* st_nlink, which do_rmdir takes for the test of emptiness and which add_file
\* and remove_file count apart from the set of names, agrees with that set.
LinksCounted == \A d \in DOMAIN dirs : dirs[d].nlink = 1 + Cardinality(dirs[d].names)

\* Nothing hangs in the air: what is in m_files or m_dirs has its directory.
ParentsThere == \A p \in Present : IsDir(Parent(p))

\* One file object is found under one path: do_rename leaves no second name.
OneNameEach == \A p, q \in DOMAIN files : files[p] = files[q] => p = q
=============================================================================
