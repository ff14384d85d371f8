-------------------------------- MODULE Avl --------------------------------
(***************************************************************************)
(* avl::avltree (src/src/avl.hpp), the tree under the range-lock manager:  *)
(* nodes linked by child and parent pointers, each with the side it hangs  *)
(* on and its balance.  A key stands for the data and for the address of   *)
(* the node that holds it.  add and remove are one step each; their loops  *)
(* are recursive operators on the heap t.                                  *)
(***************************************************************************)
EXTENDS Integers, Sequences, FiniteSets

CONSTANT N          \* keys are 1 .. N

Keys == 1 .. N
Null == 0
Tmp == N + 1        \* the local variable tmp of remove_node

Left == 0
Right == 1
None == -1

VARIABLES t,        \* m_root, m_num_nodes and the nodes
          members   \* history: the keys added and not removed

vars == <<t, members>>

child2balance == [c \in {Left, Right} |-> IF c = Left THEN -1 ELSE 1]
balance2child == [b \in -1 .. 1 |-> IF b = 1 THEN Right ELSE Left]

\* The node constructor.
NewNode(parent, which) ==
  [child |-> [c \in {Left, Right} |-> Null], parent |-> parent,
   which |-> which, bal |-> 0]

Init ==
  /\ t = [root |-> Null, num |-> 0,
          node |-> [k \in 1 .. Tmp |-> NewNode(Null, None)]]
  /\ members = {}

Child(h, n, c) == h.node[n].child[c]
SetChild(h, n, c, m) == [h EXCEPT !.node[n].child[c] = m]
SetBal(h, n, b) == [h EXCEPT !.node[n].bal = b]

\* n hangs on side c of p, as n sees it; nothing to do for a null n.
SetParent(h, n, p, c) ==
  IF n = Null THEN h ELSE [h EXCEPT !.node[n].parent = p, !.node[n].which = c]

\* What p, or the root pointer, has below it on side c.
Attach(h, p, c, n) == IF p = Null THEN [h EXCEPT !.root = n] ELSE SetChild(h, p, c, n)

-----------------------------------------------------------------------------
(***************************************************************************)
(* find_node, and find with the insertion point it sets; walk and nearest. *)
(***************************************************************************)
RECURSIVE FindFrom(_, _, _, _, _)
FindFrom(h, k, n, prev, c) ==
  IF n = Null THEN [node |-> Null, parent |-> prev, which |-> c]
  ELSE IF n = k THEN [node |-> n, parent |-> n, which |-> None]
  ELSE LET d == IF k < n THEN Left ELSE Right IN FindFrom(h, k, Child(h, n, d), n, d)

FindNode(h, k) == FindFrom(h, k, h.root, Null, Left)

\* All the way down on side c.
RECURSIVE Down(_, _, _)
Down(h, n, c) == IF Child(h, n, c) = Null THEN n ELSE Down(h, Child(h, n, c), c)

first_node(h) == IF h.root = Null THEN Null ELSE Down(h, h.root, Left)
last_node(h) == IF h.root = Null THEN Null ELSE Down(h, h.root, Right)

\* Up to the first ancestor that n is on side c of.
RECURSIVE Up(_, _, _)
Up(h, n, c) ==
  LET p == h.node[n].parent IN
  IF p = Null THEN Null ELSE IF h.node[n].which = c THEN p ELSE Up(h, p, c)

\* walk(node, left): the neighbour in key order on side dir.  (Slip: the step
\* all the way down the other side is missing.)
SlipOneDown(h, n, dir) ==
  IF n = Null THEN Null
  ELSE IF Child(h, n, dir) # Null THEN Child(h, n, dir)
  ELSE Up(h, n, 1 - dir)
Walk(h, n, dir) ==
  IF n = Null THEN Null
  ELSE IF Child(h, n, dir) # Null THEN Down(h, Child(h, n, dir), 1 - dir)
  ELSE Up(h, n, 1 - dir)

\* nearest(where, dir) for an insertion point of a tree that is not empty.
Nearest(h, where, dir) ==
  IF where.which # dir THEN where.parent ELSE Walk(h, where.parent, dir)

-----------------------------------------------------------------------------
(***************************************************************************)
(* rotation(node, balance): the new heap, and whether the subtree is now   *)
(* shorter.                                                                *)
(***************************************************************************)
SingleRotation(h, n, left, child, bal) ==
  LET right == 1 - left
      cright == Child(h, child, right)
      p == h.node[n].parent
      w == h.node[n].which
      h1 == SetParent(SetChild(h, n, left, cright), cright, n, left)
      h2 == SetBal(SetParent(SetChild(h1, child, right, n), n, child, right), n, - bal)
      h3 == SetBal(SetParent(h2, child, p, w), child, bal)
  IN [heap |-> Attach(h3, p, w, child), shorter |-> bal = 0]

DoubleRotation(h, n, left, child, leftHeavy) ==
  LET right == 1 - left
      rightHeavy == - leftHeavy
      g == Child(h, child, right)
      b == h.node[g].bal
      p == h.node[n].parent
      w == h.node[n].which
      h1 == SetParent(SetChild(h, n, left, Child(h, g, right)), Child(h, g, right), n, left)
      h2 == SetParent(SetChild(h1, child, right, Child(h, g, left)), Child(h, g, left),
                      child, right)
      h3 == SetParent(SetChild(h2, g, left, child), child, g, left)
      h4 == SetBal(h3, child, IF b = rightHeavy THEN leftHeavy ELSE 0)
      h5 == SetParent(SetChild(h4, g, right, n), n, g, right)
      h6 == SetBal(h5, n, IF b = leftHeavy THEN rightHeavy ELSE 0)
      h7 == SetParent(SetBal(h6, g, 0), g, p, w)
  IN [heap |-> Attach(h7, p, w, g), shorter |-> TRUE]

\* Slip: the case of a child that leans the other way is missing.
SlipSingleOnly(h, n, balance) ==
  LET left == IF balance < 0 THEN Left ELSE Right
      child == Child(h, n, left)
  IN SingleRotation(h, n, left, child, h.node[child].bal - balance \div 2)

rotation(h, n, balance) ==
  LET left == IF balance < 0 THEN Left ELSE Right
      leftHeavy == balance \div 2
      child == Child(h, n, left)
      cb == h.node[child].bal
  IN IF cb # - leftHeavy THEN SingleRotation(h, n, left, child, cb - leftHeavy)
     ELSE DoubleRotation(h, n, left, child, leftHeavy)

-----------------------------------------------------------------------------
\* The balance loop of insert_at: n gained height on side c.
RECURSIVE Grow(_, _, _)
Grow(h, n, c) ==
  IF n = Null THEN h
  ELSE LET old == h.node[n].bal
           new == old + child2balance[c]
       IN IF new = 0 THEN SetBal(h, n, 0)
          ELSE IF old # 0 THEN rotation(h, n, new).heap
          ELSE Grow(SetBal(h, n, new), h.node[n].parent, h.node[n].which)

\* add: find, then insert_at.
Insert(h, k) ==
  LET where == FindNode(h, k)
      h1 == [h EXCEPT !.num = @ + 1,
                      !.node[k] = NewNode(where.parent, where.which)]
  IN Grow(Attach(h1, where.parent, where.which, k), where.parent, where.which)

\* insert_here: k goes next to the node here on side dir, which find would not
\* have to be asked for.
InsertHere(h, k, here, dir) ==
  LET down == Child(h, here, dir)
      n == IF down = Null THEN here ELSE Down(h, down, 1 - dir)
      c == IF down = Null THEN dir ELSE 1 - dir
      h1 == [h EXCEPT !.num = @ + 1, !.node[k] = NewNode(n, c)]
  IN Grow(Attach(h1, n, c, k), n, c)

-----------------------------------------------------------------------------
\* The do-while of remove_node: n lost height on side c.
RECURSIVE Shrink(_, _, _)
Shrink(h, n, c) ==
  IF n = Null THEN h
  ELSE LET old == h.node[n].bal
           new == old - child2balance[c]
           p == h.node[n].parent
           w == h.node[n].which
           r == rotation(h, n, new)
       IN IF old = 0 THEN SetBal(h, n, new)
          ELSE IF new = 0 THEN Shrink(SetBal(h, n, new), p, w)
          ELSE IF r.shorter THEN Shrink(r.heap, p, w)
          ELSE r.heap

\* remove_node for a node with two children: its neighbour on the taller side
\* takes its place, and tmp that of the neighbour.
SwapOut(h, rm) ==
  LET left == balance2child[h.node[rm].bal]
      right == 1 - left
      n == Down(h, Child(h, rm, left), right)
      h1 == [h EXCEPT !.node[Tmp] = h.node[n], !.node[n] = h.node[rm]]
      h2 == IF Child(h1, n, left) = n THEN SetChild(h1, n, left, Tmp) ELSE h1
      h3 == Attach(h2, h2.node[n].parent, h2.node[n].which, n)
      h4 == [h3 EXCEPT !.node[Child(h3, n, left)].parent = n]
      h5 == [h4 EXCEPT !.node[Child(h4, n, right)].parent = n]
      tmp == h5.node[Tmp]
      h6 == SetChild(h5, tmp.parent, tmp.which, Tmp)
      only == Child(h6, Tmp, IF Child(h6, Tmp, Right) # Null THEN Right ELSE Left)
  IN IF only = Null THEN h6 ELSE [h6 EXCEPT !.node[only].parent = Tmp]

\* remove_node from the point where rm has at most one child.
Unlink(h, rm) ==
  LET p == h.node[rm].parent
      w == h.node[rm].which
      n == IF Child(h, rm, Left) # Null THEN Child(h, rm, Left) ELSE Child(h, rm, Right)
      h1 == Attach(SetParent([h EXCEPT !.num = @ - 1], n, p, w), p, w, n)
  IN Shrink(h1, p, w)

RemoveNode(h, rm) ==
  IF Child(h, rm, Left) # Null /\ Child(h, rm, Right) # Null
    THEN Unlink(SwapOut(h, rm), Tmp) ELSE Unlink(h, rm)

\* The storage of the removed node, and the frame of remove_node, are gone.
Freed(h, k) ==
  [h EXCEPT !.node[k] = NewNode(Null, None), !.node[Tmp] = NewNode(Null, None)]

-----------------------------------------------------------------------------
(***************************************************************************)
(* destroy_nodes, as ~avltree calls it until it returns null.  The index   *)
(* is the insertion point it leaves for the next call; visited are the     *)
(* nodes it returned (and the destructor deleted) so far.                  *)
(***************************************************************************)
CheckRightSide(h, n, p) ==
  IF Child(h, n, Right) # Null THEN <<Child(h, n, Right), n>> ELSE <<n, p>>

\* <<the node to return, its parent>> when the last one was side c of p.
\* (Slip: no descent to the leftmost node.)
SlipNotDown(h, p, c) ==
  IF c = Right \/ Child(h, p, Right) = Null THEN <<p, h.node[p].parent>>
  ELSE <<Child(h, p, Right), p>>
AfterVisit(h, p, c) ==
  IF c = Right \/ Child(h, p, Right) = Null THEN <<p, h.node[p].parent>>
  ELSE LET n == Down(h, Child(h, p, Right), Left)
       IN CheckRightSide(h, n, h.node[n].parent)

RECURSIVE DestroyFrom(_, _, _, _)
DestroyFrom(h, p, c, visited) ==
  IF p = Null THEN visited
  ELSE LET h1 == SetChild(h, p, c, Null)
           step == AfterVisit(h1, p, c)
       IN DestroyFrom(h1, step[2], h.node[step[1]].which, Append(visited, step[1]))

DestroyNodes(h) ==
  IF h.root = Null THEN <<>>
  ELSE LET n == Down(h, h.root, Left)
           step == CheckRightSide(h, n, h.node[n].parent)
       IN DestroyFrom(h, step[2], h.node[step[1]].which, <<step[1]>>)

-----------------------------------------------------------------------------
\* add(k); the caller never adds a key that is present (add asserts it).
Add(k) ==
  /\ FindNode(t, k).node = Null
  /\ t' = Insert(t, k)
  /\ members' = members \cup {k}

\* insert_here(k, here, dir) as range_split uses it: k belongs there in order.
AddHere(k, here, dir) ==
  /\ here \in members /\ k \notin members
  /\ IF dir = Right THEN here < k ELSE k < here
  /\ \A m \in members : ~ (here < m /\ m < k) /\ ~ (k < m /\ m < here)
  /\ t' = InsertHere(t, k, here, dir)
  /\ members' = members \cup {k}

\* remove(k): nothing happens when k is not there.
Remove(k) ==
  LET found == FindNode(t, k).node IN
  /\ members' = members \ {k}
  /\ \/ found = Null /\ UNCHANGED t
     \/ found # Null /\ t' = Freed(RemoveNode(t, found), found)

Next ==
  \E k \in Keys : \/ Add(k) \/ Remove(k)
                  \/ \E here \in Keys, dir \in {Left, Right} : AddHere(k, here, dir)

Spec == Init /\ [][Next]_vars

-----------------------------------------------------------------------------
RECURSIVE Height(_, _)
Height(h, n) ==
  IF n = Null THEN 0
  ELSE LET l == Height(h, Child(h, n, Left))
           r == Height(h, Child(h, n, Right))
       IN 1 + (IF l < r THEN r ELSE l)

RECURSIVE InOrder(_, _)
InOrder(h, n) ==
  IF n = Null THEN <<>>
  ELSE InOrder(h, Child(h, n, Left)) \o <<n>> \o InOrder(h, Child(h, n, Right))

\* Types: links are keys or null (tmp is never left in the tree), sides and
\* balances are in range.
TypeOK ==
  /\ members \subseteq Keys
  /\ t.root \in Keys \cup {Null} /\ t.num \in 0 .. N
  /\ \A k \in 1 .. Tmp : LET n == t.node[k] IN
       /\ \A c \in {Left, Right} : n.child[c] \in Keys \cup {Null}
       /\ n.parent \in Keys \cup {Null} /\ n.which \in {Left, Right, None}
       /\ n.bal \in -1 .. 1

\* The tree holds what was added and not removed, in key order, whatever
\* rotations and swaps happened; size() counts it.
HoldsMembers ==
  LET s == InOrder(t, t.root) IN
  /\ Len(s) = t.num /\ {s[i] : i \in DOMAIN s} = members
  /\ \A i, j \in DOMAIN s : i < j => s[i] < s[j]

\* AVL balance: m_balance is the difference of the heights, at most one.
Balanced ==
  \A k \in members :
    t.node[k].bal = Height(t, Child(t, k, Right)) - Height(t, Child(t, k, Left))

\* Parent pointers and m_which_child mirror the child pointers, which walk()
\* relies on to climb.
Linked ==
  /\ t.root # Null => t.node[t.root].parent = Null
  /\ \A k \in members, c \in {Left, Right} :
       LET n == Child(t, k, c) IN
       n # Null => t.node[n].parent = k /\ t.node[n].which = c

\* find, next, prev, nearest, first and last see the keys in order: the set of starts
\* that RangeTree takes the tree for.
LooksLikeASet ==
  /\ members = {} => first_node(t) = Null /\ last_node(t) = Null
  /\ \A k \in members : first_node(t) <= k /\ k <= last_node(t)
  /\ members # {} => {first_node(t), last_node(t)} \subseteq members
  /\ \A k \in Keys :
     LET f == FindNode(t, k)
         above == {m \in members : k < m}
         below == {m \in members : m < k}
         after == IF above = {} THEN Null ELSE CHOOSE m \in above : \A x \in above : m <= x
         before == IF below = {} THEN Null ELSE CHOOSE m \in below : \A x \in below : x <= m
     IN /\ f.node = IF k \in members THEN k ELSE Null
        /\ k \in members => Walk(t, k, Right) = after /\ Walk(t, k, Left) = before
        /\ k \notin members /\ members # {} =>
             Nearest(t, f, Right) = after /\ Nearest(t, f, Left) = before

\* The destructor deletes every node once, and only after its children: it
\* never follows a link into a node it has deleted.
DestroysAll ==
  LET v == DestroyNodes(t)
      place == [k \in members |-> CHOOSE i \in DOMAIN v : v[i] = k]
  IN /\ Len(v) = Cardinality(members) /\ {v[i] : i \in DOMAIN v} = members
     /\ \A k \in members, c \in {Left, Right} :
          Child(t, k, c) # Null => place[Child(t, k, c)] < place[k]
=============================================================================
