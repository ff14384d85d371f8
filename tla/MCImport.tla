------------------------------ MODULE MCImport ------------------------------
(***************************************************************************)
(* FrontEnd for TLC, with five mounts.  Importing: a thread of the file    *)
(* system while a pool worker imports files into an nvml backend and       *)
(* unloads it.  Moving: one thread that renames directories, changes       *)
(* attributes and makes links on a devdax backend.  Calling: one thread    *)
(* that makes every other call.  Linking: two threads that open, change    *)
(* and remove files through links while a worker loads and unloads.        *)
(* Changing: two threads that create, remove and look at files and change  *)
(* their attributes, with both mutexes of the backend in either order.     *)
(***************************************************************************)
EXTENDS FrontEnd

CONSTANTS t1, Below

Shallow == {p \in Paths : Len(p) < MaxDepth}
Leaves == {p \in Paths : Len(p) = MaxDepth}
Narrow == {p \in Leaves : p[MaxDepth] = Below}

Importing ==
  [backend |-> "nvml", callers |-> {t1, Loader},
   ops |-> {"getattr", "create", "release", "unlink", "rename", "mkdir", "rmdir", "readdir",
            "load", "unload"},
   files |-> Leaves, dirs |-> Shallow, renames |-> FALSE, inodes |-> 4, links |-> 0]
Moving ==
  [backend |-> "devdax", callers |-> {t1},
   ops |-> {"create", "release", "unlink", "rename", "mkdir", "rmdir", "chmod", "symlink"},
   files |-> Narrow, dirs |-> Shallow, renames |-> TRUE, inodes |-> 3, links |-> 1]
Calling ==
  [backend |-> "nvml", callers |-> {t1},
   ops |-> Plain \cup OnHandle \cup Setattr \cup {"access", "open", "utimens", "truncate",
                                                 "create", "mkdir"},
   files |-> Narrow, dirs |-> Shallow, renames |-> FALSE, inodes |-> 2, links |-> 0]
Linking ==
  [backend |-> "devdax", callers |-> All,
   ops |-> {"release", "unlink", "open", "utimens", "symlink", "load", "unload"},
   files |-> Shallow, dirs |-> {}, renames |-> FALSE, inodes |-> 1, links |-> 1]

Changing ==
  [backend |-> "devdax", callers |-> Threads,
   ops |-> {"getattr", "create", "release", "unlink", "chmod"},
   files |-> Shallow, dirs |-> {}, renames |-> FALSE, inodes |-> 2, links |-> 0]

Five == {Importing, Moving, Calling, Linking, Changing}
=============================================================================
