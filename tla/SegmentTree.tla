---------------------------- MODULE SegmentTree ----------------------------
(***************************************************************************)
(* mdds::flat_segment_tree (src/src/mdds), the map from file offsets to    *)
(* segments: a list of leaf nodes, each the start of a segment, and a tree *)
(* of non-leaf nodes over it that search_tree descends.                    *)
(*                                                                         *)
(* A tree is a record: leaf is the list m_left_leaf .. m_right_leaf, a     *)
(* node is known by its place in it; init is m_init_val, valid is          *)
(* m_valid_tree and root what m_root_node points to.  map is what the tree *)
(* stands for, kept by the reference definition of each operation, and     *)
(* nothing once an insertion has run off the list.                         *)
(***************************************************************************)
EXTENDS Integers, Sequences, FiniteSets

CONSTANTS MaxKey, Values, InitVal

VARIABLES tree, map

vars == <<tree, map>>

Null == 0                 \* no place in the list
NoRoot == [none |-> TRUE]
Broken == [leaf |-> <<>>, init |-> InitVal, valid |-> FALSE, root |-> NoRoot]

Leaf(k, v) == [key |-> k, value |-> v]
Places(T) == 1 .. Len(T.leaf)
Key(T, i) == T.leaf[i].key
Value(T, i) == T.leaf[i].value
min_key(T) == Key(T, 1)
max_key(T) == Key(T, Len(T.leaf))

Least(S) == IF S = {} THEN Null ELSE CHOOSE i \in S : \A j \in S : i <= j
Greatest(S) == IF S = {} THEN Null ELSE CHOOSE i \in S : \A j \in S : j <= i

\* The constructor: two end nodes.
New(min, max, init) ==
  [leaf |-> <<Leaf(min, init), Leaf(max, init)>>, init |-> init, valid |-> FALSE,
   root |-> NoRoot]

clear(T) == New(min_key(T), max_key(T), T.init)

\* The copy constructor: node by node, and only the leaves.
Copy(T) ==
  [leaf |-> [i \in Places(T) |-> Leaf(Key(T, i), Value(T, i))],
   init |-> T.init, valid |-> FALSE, root |-> NoRoot]

\* The list changed: the tree above it is stale.  m_root_node still points to
\* it, which nothing reads before build_tree replaces it.  (Slip: m_valid_tree
\* stays.)
SlipStaysValid(T, leaves) == [T EXCEPT !.leaf = leaves]
Changed(T, leaves) == [T EXCEPT !.leaf = leaves, !.valid = FALSE, !.root = NoRoot]

-----------------------------------------------------------------------------
(***************************************************************************)
(* Insertion.                                                              *)
(***************************************************************************)
get_insertion_pos_leaf(T, key, from) ==
  Least({i \in Places(T) : from <= i /\ key <= Key(T, i)})
get_insertion_pos_leaf_reverse(T, key) ==
  Greatest({i \in Places(T) : key > Key(T, i)})

\* Whether [s, e) is a segment of the tree, and what is left of it there.
adjustable(T, s, e) == s < e /\ min_key(T) <= e /\ s <= max_key(T)
adjust_start(T, s) == IF s < min_key(T) THEN min_key(T) ELSE s
adjust_end(T, e) == IF e > max_key(T) THEN max_key(T) ELSE e

\* insert_to_pos: the nodes up to the new start node, the value that goes on
\* behind the new segment, and the nodes from end_pos on.  The slip forgets
\* the value of the last node that is taken out.  The loop that takes nodes out
\* begins behind the start node: when that is the end node, it goes on over the
\* end of the list, through a null pointer.
SlipOldValue(T, start_pos, s, e, val) ==
  LET end_pos == get_insertion_pos_leaf(T, e, start_pos)
      before == SubSeq(T.leaf, 1, start_pos - 1)
      old == IF Key(T, start_pos) = s THEN Value(T, start_pos) ELSE Value(T, start_pos - 1)
      last == IF Key(T, end_pos) = e \/ old = val THEN <<>> ELSE <<Leaf(e, old)>>
  IN  Changed(T, before \o <<Leaf(s, val)>> \o last \o SubSeq(T.leaf, end_pos, Len(T.leaf)))

insert_to_pos(T, start_pos, s, e, val) ==
  LET found == get_insertion_pos_leaf(T, e, start_pos)
      end_pos == IF found = Null THEN Len(T.leaf) ELSE found
      at == Key(T, start_pos) = s
      extend == start_pos > 1 /\ Value(T, start_pos - 1) = val
      \* the node that starts the segment is an old one, changed or not, or new
      reuse == at /\ ~ extend
      fresh == ~ at /\ ~ extend
      before == SubSeq(T.leaf, 1, start_pos - 1)
      front == IF extend THEN before ELSE Append(before, Leaf(s, val))
      first == IF reuse THEN start_pos + 1 ELSE start_pos
      out == first .. (end_pos - 1)
      old == IF out # {} THEN Value(T, end_pos - 1)
             ELSE IF at THEN Value(T, start_pos) ELSE Value(T, start_pos - 1)
      exact == Key(T, end_pos) = e
      merge == exact /\ end_pos < Len(T.leaf) /\ Value(T, end_pos) = val
      rest == SubSeq(T.leaf, IF merge THEN end_pos + 1 ELSE end_pos, Len(T.leaf))
      split == ~ exact /\ old # val
      changed == \/ fresh \/ out # {} \/ merge \/ split
                 \/ reuse /\ Value(T, start_pos) # val
      leaves == front \o (IF split THEN <<Leaf(e, old)>> ELSE <<>>) \o rest
  IN  IF reuse /\ end_pos = start_pos THEN Broken
      ELSE IF changed THEN Changed(T, leaves) ELSE T

insert_segment_impl(T, s, e, val, forward) ==
  IF ~ adjustable(T, s, e) THEN T
  ELSE LET a == adjust_start(T, s)
           b == adjust_end(T, e)
           pos == IF forward THEN get_insertion_pos_leaf(T, a, 1)
                  ELSE get_insertion_pos_leaf_reverse(T, a) + 1
       IN  insert_to_pos(T, pos, a, b, val)

insert_front(T, s, e, val) == insert_segment_impl(T, s, e, val, TRUE)
insert_back(T, s, e, val) == insert_segment_impl(T, s, e, val, FALSE)

\* insert at or after the node pos.
insert(T, pos, s, e, val) ==
  IF s < Key(T, pos) THEN insert_front(T, s, e, val)
  ELSE IF ~ adjustable(T, s, e) THEN T
  ELSE LET a == adjust_start(T, s) IN
       insert_to_pos(T, get_insertion_pos_leaf(T, a, pos), a, adjust_end(T, e), val)

-----------------------------------------------------------------------------
(***************************************************************************)
(* Shifting.                                                               *)
(***************************************************************************)
append_new_segment(T, s) ==
  LET n == Len(T.leaf) IN
  IF Key(T, n - 1) = s THEN [T EXCEPT !.leaf[n - 1].value = T.init]
  ELSE IF Value(T, n - 1) = T.init THEN T
  ELSE Changed(T, SubSeq(T.leaf, 1, n - 1) \o <<Leaf(s, T.init), T.leaf[n]>>)

\* The nodes from place i up to the right-most one, moved to the left.
shift_leaf_key_left(T, i, by) ==
  [j \in 1 .. (Len(T.leaf) - i) |-> Leaf(Key(T, i + j - 1) - by, Value(T, i + j - 1))]
    \o <<T.leaf[Len(T.leaf)]>>

\* [s, e) is taken out, and what comes after it moves to the left.
shift_left(T, s, e) ==
  IF s >= e \/ s < min_key(T) \/ e > max_key(T) THEN T
  ELSE
  LET n == Len(T.leaf)
      right == max_key(T)
      by == e - s
      pos == get_insertion_pos_leaf(T, s, IF min_key(T) = s THEN 1 ELSE 2)
      \* the first node that stays, and the value in front of it
      next == Least({i \in (pos + 1) .. n : i = n \/ Key(T, i) > e})
      last == Value(T, next - 1)
      same == pos > 1 /\ Value(T, pos - 1) = last
      head == SubSeq(T.leaf, 1, pos - 1) \o (IF same THEN <<>> ELSE <<Leaf(s, last)>>)
  IN  IF pos = n
        THEN append_new_segment(T, IF right <= e THEN s ELSE right - by)
      ELSE IF e < Key(T, pos)
        THEN append_new_segment(
               Changed(T, SubSeq(T.leaf, 1, pos - 1) \o shift_leaf_key_left(T, pos, by)),
               right - by)
      ELSE append_new_segment(
             Changed(T, head \o shift_leaf_key_left(T, next, by)), right - by)

\* The nodes from place i on, moved to the right; those pushed beyond the
\* right-most node are dropped.
shift_leaf_key_right(T, i, by) ==
  LET n == Len(T.leaf)
      stay == {j \in i .. (n - 1) : Key(T, j) + by < max_key(T)}
  IN  [j \in 1 .. Cardinality(stay) |-> Leaf(Key(T, i + j - 1) + by, Value(T, i + j - 1))]
        \o <<T.leaf[n]>>

shift_right(T, p, size, skip) ==
  IF size <= 0 \/ p < min_key(T) \/ max_key(T) <= p THEN T
  ELSE IF min_key(T) = p
    THEN LET moved == shift_leaf_key_right(T, 2, size)
             carry == Value(T, 1) # T.init /\ ~ skip
             fits == size < max_key(T) - min_key(T)
         IN  Changed(T,
               <<Leaf(p, IF carry THEN T.init ELSE Value(T, 1))>>
               \o (IF carry /\ fits THEN <<Leaf(p + size, Value(T, 1))>> ELSE <<>>)
               \o moved)
  ELSE LET found == get_insertion_pos_leaf(T, p, 2)
           cur == IF skip /\ Key(T, found) = p THEN found + 1 ELSE found
       IN  Changed(T, SubSeq(T.leaf, 1, cur - 1) \o shift_leaf_key_right(T, cur, size))

-----------------------------------------------------------------------------
(***************************************************************************)
(* Search along the leaf nodes.  The result is the place of the segment's  *)
(* node, or Null.                                                          *)
(***************************************************************************)
search_impl(T, pos, key) ==
  IF Key(T, pos) = key THEN pos
  ELSE IF pos > 1 /\ Key(T, pos - 1) < key THEN pos - 1 ELSE Null

OutOfBound(T, key) == key < min_key(T) \/ max_key(T) <= key

search(T, key) ==
  IF OutOfBound(T, key) THEN Null
  ELSE search_impl(T, get_insertion_pos_leaf(T, key, 1), key)

\* search from the node pos, or from the left if that is beyond the key.
search_from(T, pos, key) ==
  IF OutOfBound(T, key) THEN Null
  ELSE IF key < Key(T, pos) THEN search(T, key)
  ELSE search_impl(T, get_insertion_pos_leaf(T, key, pos), key)

-----------------------------------------------------------------------------
(***************************************************************************)
(* The tree of non-leaf nodes.  A leaf of it is a place in the list.       *)
(***************************************************************************)
LeafNode(i) == [is_leaf |-> TRUE, place |-> i]
NoNode == [none |-> TRUE]

\* make_parent_node with fill_nonleaf_value: the range the node is for.  Above
\* leaf nodes the upper bound is the key behind the right one.
make_parent_node(T, l, r) ==
  LET low == IF l.is_leaf THEN Key(T, l.place) ELSE l.low
      high == IF r = NoNode THEN (IF l.is_leaf THEN Key(T, l.place) ELSE l.high)
              ELSE IF ~ r.is_leaf THEN r.high
              ELSE IF r.place < Len(T.leaf) THEN Key(T, r.place + 1) ELSE Key(T, r.place)
  IN  [is_leaf |-> FALSE, low |-> low, high |-> high, left |-> l, right |-> r]

\* One layer of parents: nodes two by two, the last one alone if it has to be.
Parents(T, nodes) ==
  LET n == Len(nodes) IN
  [i \in 1 .. ((n + 1) \div 2) |->
     make_parent_node(T, nodes[2 * i - 1], IF 2 * i <= n THEN nodes[2 * i] ELSE NoNode)]


RECURSIVE build_tree_non_leaf(_, _)
build_tree_non_leaf(T, nodes) ==
  IF Len(nodes) = 1 THEN nodes[1] ELSE build_tree_non_leaf(T, Parents(T, nodes))

\* Non-leaf nodes below and with x, and the number build_tree makes room for.
RECURSIVE NonLeafs(_)
NonLeafs(x) ==
  IF x.is_leaf THEN 0
  ELSE 1 + NonLeafs(x.left) + (IF x.right = NoNode THEN 0 ELSE NonLeafs(x.right))

RECURSIVE count_needed_nonleaf_nodes(_)
count_needed_nonleaf_nodes(leaf_count) ==
  IF leaf_count = 1 THEN 0
  ELSE LET half == (leaf_count + 1) \div 2 IN half + count_needed_nonleaf_nodes(half)

build_tree(T) ==
  [T EXCEPT !.valid = TRUE,
            !.root = build_tree_non_leaf(T, Parents(T, [i \in Places(T) |-> LeafNode(i)]))]

\* search_tree below the node x: down to the last non-leaf layer.
RECURSIVE Descend(_, _)
Descend(x, key) ==
  IF x.left.is_leaf THEN x
  ELSE IF x.left.low <= key /\ key < x.left.high THEN Descend(x.left, key)
  ELSE IF x.right # NoNode /\ x.right.low <= key /\ key < x.right.high
    THEN Descend(x.right, key)
  ELSE NoNode

search_tree(T, key) ==
  IF T.root = NoRoot \/ ~ T.valid \/ OutOfBound(T, key) THEN Null
  ELSE LET x == Descend(T.root, key) IN
       IF x = NoNode THEN Null
       ELSE LET l == x.left.place
                r == x.right.place
            IN  IF Key(T, l) <= key /\ key < Key(T, r) THEN l
                ELSE IF Key(T, r) <= key /\ key < x.high THEN r
                ELSE Null

-----------------------------------------------------------------------------
(***************************************************************************)
(* Iterators: a place, and whether the end was passed.  end() is at the    *)
(* last node of its direction, which ++ leaves only by setting the flag.   *)
(***************************************************************************)
begin(T) == [pos |-> 1, end |-> FALSE]
end(T) == [pos |-> Len(T.leaf), end |-> TRUE]
inc(T, it) ==
  IF it.pos = Len(T.leaf) THEN [it EXCEPT !.end = TRUE] ELSE [it EXCEPT !.pos = @ + 1]
dec(T, it) == IF it.end THEN [it EXCEPT !.end = FALSE] ELSE [it EXCEPT !.pos = @ - 1]

rbegin(T) == [pos |-> Len(T.leaf), end |-> FALSE]
rend(T) == [pos |-> 1, end |-> TRUE]
rinc(T, it) ==
  IF it.pos = 1 THEN [it EXCEPT !.end = TRUE] ELSE [it EXCEPT !.pos = @ - 1]

RECURSIVE Visits(_, _)
Visits(T, it) == IF it = end(T) THEN <<>> ELSE <<it.pos>> \o Visits(T, inc(T, it))
RECURSIVE RVisits(_, _)
RVisits(T, it) == IF it = rend(T) THEN <<>> ELSE <<it.pos>> \o RVisits(T, rinc(T, it))

-----------------------------------------------------------------------------
(***************************************************************************)
(* What the operations mean for the map from keys to values.               *)
(***************************************************************************)
Keys == 0 .. (MaxKey - 1)

Assigned(f, s, e, v) == [k \in Keys |-> IF s <= k /\ k < e THEN v ELSE f[k]]
Cut(f, s, e) ==
  [k \in Keys |-> IF k < s THEN f[k]
                  ELSE IF k + (e - s) \in Keys THEN f[k + (e - s)] ELSE InitVal]
\* What is pushed in at p is more of what is there: of the segment before p if
\* a node at p moves, of the segment of p if it stays, of nothing in front of
\* the left-most node.
Pushed(f, p, size, moves) ==
  [k \in Keys |-> IF k < p THEN f[k]
                  ELSE IF k >= p + size THEN f[k - size]
                  ELSE IF ~ moves THEN f[p]
                  ELSE IF p = 0 THEN InitVal ELSE f[p - 1]]

Init == tree = New(0, MaxKey, InitVal) /\ map = [k \in Keys |-> InitVal]

\* A range reaches beyond the keys on one side at most, and has some of them.
Ranges == {r \in (0 .. MaxKey) \X (0 .. MaxKey) : r[1] < r[2]}
            \cup {<<-1, e>> : e \in 1 .. MaxKey} \cup {<<s, MaxKey + 1>> : s \in Keys}

Inserted(s, e, v) ==
  {insert_front(tree, s, e, v), insert_back(tree, s, e, v)}
    \cup {insert(tree, pos, s, e, v) : pos \in Places(tree)}

Insert ==
  \E r \in Ranges, v \in Values :
    tree' \in Inserted(r[1], r[2], v) /\ map' = Assigned(map, r[1], r[2], v)

\* A range outside of the keys that touches them is let through.
InsertBeside ==
  \E r \in {<<-1, 0>>, <<MaxKey, MaxKey + 1>>}, v \in Values :
    tree' \in Inserted(r[1], r[2], v) /\ map' = IF tree' = Broken THEN <<>> ELSE map

ShiftLeft ==
  \E r \in {q \in Ranges : q[1] >= 0 /\ q[2] <= MaxKey} :
    tree' = shift_left(tree, r[1], r[2]) /\ map' = Cut(map, r[1], r[2])

ShiftRight ==
  \E p \in Keys, size \in 1 .. MaxKey, skip \in BOOLEAN :
    LET node_there == \E i \in Places(tree) : Key(tree, i) = p IN
    /\ tree' = shift_right(tree, p, size, skip)
    /\ map' = Pushed(map, p, size, node_there /\ ~ skip)

BuildTree == tree' = build_tree(tree) /\ UNCHANGED map
Clear == tree' = clear(tree) /\ map' = [k \in Keys |-> InitVal]
Assign == tree' = Copy(tree) /\ UNCHANGED map

Next ==
  \/ /\ tree # Broken
     /\ Insert \/ InsertBeside \/ ShiftLeft \/ ShiftRight \/ BuildTree \/ Clear \/ Assign
  \/ tree = Broken /\ UNCHANGED vars

Spec == Init /\ [][Next]_vars

-----------------------------------------------------------------------------
\* The leaf list is in the order of its keys, its ends stay, and it stands for
\* the map: every insertion, from the left, from the right or from a node given
\* as a hint, and every shift does to the segments what it should do to the
\* keys one by one.  No range that has a key runs an insertion off the list.
Denotes ==
  IF map = <<>> THEN tree = Broken ELSE
  /\ tree # Broken
  /\ min_key(tree) = 0 /\ max_key(tree) = MaxKey
  /\ \A i \in Places(tree) : i > 1 => Key(tree, i - 1) < Key(tree, i)
  /\ \A k \in Keys :
       \E i \in Places(tree) : /\ Key(tree, i) <= k /\ k < Key(tree, i + 1)
                              /\ Value(tree, i) = map[k]

\* All searches find the segment of the key: the one from the left, the one from
\* any node, and, whenever the tree says it is valid, the one down the tree,
\* which never meets the missing child it asserts not to meet.
SearchesAgree ==
  tree # Broken => \A k \in (-1) .. (MaxKey + 1) :
    LET i == search(tree, k) IN
    /\ i = Null <=> k \notin Keys
    /\ i # Null => Key(tree, i) <= k /\ k < Key(tree, i + 1)
    /\ \A pos \in Places(tree) : search_from(tree, pos, k) = i
    /\ search_tree(tree, k) = IF tree.valid THEN i ELSE Null
    /\ tree.valid /\ k \in Keys =>
         LET x == Descend(tree.root, k) IN
         x # NoNode /\ x.left.is_leaf /\ x.right # NoNode /\ x.right.is_leaf

\* build_tree makes room for exactly the non-leaf nodes the builder takes.
PoolSuffices ==
  tree.valid => NonLeafs(tree.root) = count_needed_nonleaf_nodes(Len(tree.leaf))

\* The iterators visit every leaf once, the right-most one included, in both
\* directions, and stepping back undoes a step.
IteratorsVisitAll ==
  tree # Broken =>
  /\ Visits(tree, begin(tree)) = [i \in Places(tree) |-> i]
  /\ RVisits(tree, rbegin(tree)) = [i \in Places(tree) |-> Len(tree.leaf) + 1 - i]
  /\ \A i \in Places(tree) : dec(tree, inc(tree, [pos |-> i, end |-> FALSE]))
                                = [pos |-> i, end |-> FALSE]
=============================================================================
