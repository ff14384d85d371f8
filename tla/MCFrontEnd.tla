---------------------------- MODULE MCFrontEnd ----------------------------
(* Instances of FrontEnd for TLC: mounts of the devdax backend. *)
EXTENDS FrontEnd, TLC

Devdax(ops, renames) ==
  {[backend |-> "devdax", callers |-> Threads, ops |-> ops, files |-> Paths, dirs |-> Paths,
    renames |-> renames, inodes |-> MaxInodes, links |-> 0]}

NameCalls == {"getattr", "create", "unlink", "rename", "mkdir", "rmdir", "release"}
TreeMounts == Devdax(NameCalls \cup {"readdir", "open", "utimens", "write_buf", "truncate", "mknod",
                                  "opendir"}, FALSE)
RingMounts == Devdax(NameCalls \cup {"chmod", "chown"}, FALSE)
RmdirMounts == Devdax(NameCalls, TRUE)

NamesAndThreads == Permutations(Names) \cup Permutations(Threads)
=============================================================================
