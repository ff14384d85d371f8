------------------------------ MODULE FileTree ------------------------------
(***************************************************************************)
(* What a name space promises: a tree of files and directories on which    *)
(* every call acts, and finds its answer, in one step between the request  *)
(* and the reply.  A path is the sequence of its names.                    *)
(***************************************************************************)
EXTENDS Integers, Sequences

CONSTANTS
  Users,
  Handles             \* of open files

VARIABLES
  tree,               \* path -> inode of a file, or 0 for a directory
  pending,            \* request or reply of each user
  opened              \* handle -> inode of the file, or 0

treeVars == <<tree, pending, opened>>

Up(p) == SubSeq(p, 1, Len(p) - 1)
Above(p) == {SubSeq(p, 1, i) : i \in 1 .. Len(p) - 1}
Children(d) == {x \in DOMAIN tree : x # <<>> /\ Up(x) = d}

HasFile(p) == p \in DOMAIN tree /\ tree[p] # 0
HasDir(p) == p \in DOMAIN tree /\ tree[p] = 0
Values(f) == {f[x] : x \in DOMAIN f}
Unused(i) == i \notin Values(tree) \cup Values(opened)

Ok(v) == [err |-> "0", val |-> v]
Err(e) == [err |-> e, val |-> {}]
NoReply == Err("none")
Resting == [op |-> "none", p |-> <<>>, q |-> <<>>, ret |-> NoReply]

Plant(ps, i) == tree' = [x \in DOMAIN tree \cup ps |-> IF x \in ps THEN i ELSE tree[x]]
Prune(p) == tree' = [x \in DOMAIN tree \ {p} |-> tree[x]]

stat(p, r) ==
  /\ r = IF p \in DOMAIN tree THEN Ok({tree[p]}) ELSE Err("ENOENT")
  /\ UNCHANGED <<tree, opened>>
readdir(p, r) == r = Ok({x[Len(x)] : x \in Children(p)}) /\ UNCHANGED <<tree, opened>>
setattr(p, r) == (r = IF p \in DOMAIN tree THEN Ok({}) ELSE Err("ENOENT")) /\ UNCHANGED <<tree, opened>>

\* A file that is created is a new one, with a number that no other has, and is open.
create(p, r) ==
  /\ p \notin DOMAIN tree /\ HasDir(Up(p)) /\ r.err = "0"
  /\ \E i \in Values(tree'), h \in r.val :
       /\ i # 0 /\ Unused(i) /\ Plant({p}, i)
       /\ opened[h] = 0 /\ opened' = [opened EXCEPT ![h] = i]
load(p, r) ==
  \/ HasFile(p) /\ r = Err("path_already_imported") /\ UNCHANGED <<tree, opened>>
  \/ /\ ~ HasFile(p) /\ r = Ok({}) /\ UNCHANGED opened
     /\ \E i \in Values(tree') :
          /\ i # 0 /\ Unused(i)
          /\ tree' = [x \in DOMAIN tree \cup Above(p) \cup {p} |->
                        IF x = p THEN i ELSE IF x \in DOMAIN tree THEN tree[x] ELSE 0]
unlink(p, r) ==
  \/ HasFile(p) /\ r = Ok({}) /\ Prune(p) /\ UNCHANGED opened
  \/ ~ HasFile(p) /\ r = Err("ENOENT") /\ UNCHANGED <<tree, opened>>

\* A file replaces the file that has the new name.
rename(p, q, r) ==
  \/ /\ HasFile(p) /\ ~ HasDir(q) /\ r = Ok({}) /\ UNCHANGED opened
     /\ tree' = [x \in (DOMAIN tree \ {p}) \cup {q} |-> IF x = q THEN tree[p] ELSE tree[x]]
  \/ p \notin DOMAIN tree /\ r = Err("ENOENT") /\ UNCHANGED <<tree, opened>>
mkdir(p, r) ==
  \/ p \notin DOMAIN tree /\ HasDir(Up(p)) /\ r = Ok({}) /\ Plant({p}, 0) /\ UNCHANGED opened
  \/ HasDir(p) /\ r = Err("EPERM") /\ UNCHANGED <<tree, opened>>
rmdir(p, r) ==
  \/ HasDir(p) /\ Children(p) = {} /\ r = Ok({}) /\ Prune(p) /\ UNCHANGED opened
  \/ HasDir(p) /\ Children(p) # {} /\ r = Err("ENOTEMPTY") /\ UNCHANGED <<tree, opened>>
  \/ ~ HasDir(p) /\ r = Err("ENOENT") /\ UNCHANGED <<tree, opened>>

(***************************************************************************)
(* Files are opened, and found for utimens and truncate, by name.  While   *)
(* another user changes the tree a file that is there may be missed.     *)
(***************************************************************************)
Changing == {"create", "unlink", "rename", "load"}
Missed(c, p, r) ==
  /\ r = Err("ENOENT") /\ UNCHANGED <<tree, opened>>
  /\ HasFile(p) => \E d \in Users : d # c /\ pending[d].op \in Changing
open(c, p, r) ==
  \/ /\ HasFile(p) /\ r.err = "0" /\ UNCHANGED tree
     /\ \E h \in r.val : opened[h] = 0 /\ opened' = [opened EXCEPT ![h] = tree[p]]
  \/ Missed(c, p, r)
touch(c, p, r) ==
  \/ HasFile(p) /\ r = Ok({}) /\ UNCHANGED <<tree, opened>>
  \/ Missed(c, p, r)

\* What is done through a handle is done to the file it was opened on, or refused.
Reaching == {"fgetattr", "ftruncate", "write_buf", "read_buf", "fallocate"}
reach(h, r) ==
  opened[h] # 0 /\ (r = Ok({opened[h]}) \/ r.err # "0") /\ UNCHANGED <<tree, opened>>
release(h, r) ==
  opened[h] # 0 /\ r = Ok({}) /\ opened' = [opened EXCEPT ![h] = 0] /\ UNCHANGED tree


\* The other calls answer without a look at the tree.
tell(r) == r.val = {} /\ UNCHANGED <<tree, opened>>

Act(c, r) ==
  LET p == pending[c].p
      q == pending[c].q
  IN CASE pending[c].op = "stat" -> stat(p, r)
       [] pending[c].op = "readdir" -> readdir(p, r)
       [] pending[c].op = "setattr" -> setattr(p, r)
       [] pending[c].op = "create" -> create(p, r)
       [] pending[c].op = "load" -> load(p, r)
       [] pending[c].op = "unlink" -> unlink(p, r)
       [] pending[c].op = "rename" -> rename(p, q, r)
       [] pending[c].op = "mkdir" -> mkdir(p, r)
       [] pending[c].op = "rmdir" -> rmdir(p, r)
       [] pending[c].op = "open" -> open(c, p, r)
       [] pending[c].op = "utimens" -> touch(c, p, r)
       [] pending[c].op = "truncate" -> touch(c, p, r)
       [] pending[c].op \in Reaching -> \E h \in Handles : q = <<h>> /\ reach(h, r)
       [] pending[c].op = "release" -> \E h \in Handles : q = <<h>> /\ release(h, r)
       [] OTHER -> tell(r)

Request(c) == pending[c] = Resting /\ pending'[c].ret = NoReply /\ UNCHANGED <<tree, opened>>
Answer(c) ==
  /\ pending[c] # Resting /\ pending[c].ret = NoReply
  /\ pending'[c] = [Resting EXCEPT !.op = "reply", !.ret = pending'[c].ret]
  /\ Act(c, pending'[c].ret)
Rest(c) == pending[c].op = "reply" /\ pending'[c] = Resting /\ UNCHANGED <<tree, opened>>

TreeInit ==
  /\ tree = [d \in {<<>>} |-> 0] /\ pending = [c \in Users |-> Resting]
  /\ opened = [h \in Handles |-> 0]
TreeNext ==
  \E c \in Users :
    /\ Request(c) \/ Answer(c) \/ Rest(c)
    /\ \A d \in Users \ {c} : pending'[d] = pending[d]
TreeSpec == TreeInit /\ [][TreeNext]_treeVars
=============================================================================
