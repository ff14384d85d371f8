---------------------------- MODULE NvmlBackend ----------------------------
(***************************************************************************)
(* The name space of the nvml backend (src/src/backends/nvram-nvml/        *)
(* nvram-nvml.cpp): operation by operation the steps of the devdax backend.*)
(***************************************************************************)
EXTENDS Namespace

Locking(t, op) == Runs(t, {op}) /\ LockFiles(t)

nvml_load(t) == Locking(t, "load") \/ Load(t)
nvml_find_s(p) == IF IsDir(p) THEN dirs[p].names ELSE {}
nvml_do_readdir(t) ==
  /\ Runs(t, {"readdir"}) /\ m_dirs_mutex = Nobody /\ Return(t, Ok(nvml_find_s(call[t].p)))
  /\ UNCHANGED <<files, dirs, i_inode, status>>
nvml_do_stat(t) == Locking(t, "stat") \/ StatDirs(t)
nvml_do_create(t, v) == Locking(t, "create") \/ EnterName(t) \/ Create(t, v)
nvml_do_unlink(t) == Locking(t, "unlink") \/ Unlink(t)
nvml_do_rename(t) == Locking(t, "rename") \/ Rename(t)
nvml_do_mkdir(t) == Mkdir(t)
nvml_do_rmdir(t) == Rmdir(t)
nvml_do_chmod(t) == SetattrDirs(t) \/ SetattrFiles(t)
nvml_do_chown(t) == SetattrDirs(t) \/ SetattrFiles(t)
nvml_unload(t) == unload(t)
=============================================================================
