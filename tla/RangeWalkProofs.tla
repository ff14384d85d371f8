-------------------------- MODULE RangeWalkProofs --------------------------
(***************************************************************************)
(* The loops of lock_range and unlock_range, which go from node to node by *)
(* the pointers of the tree, compute what RangeTree says the calls do.     *)
(***************************************************************************)
EXTENDS RangeWalk, FiniteSetTheorems, WellFoundedInduction, TLAPS

\* A non-empty set of naturals has a least element.
LEMMA LeastNat ==
  ASSUME NEW S, S \subseteq Nat, S # {}
  PROVE  \E m \in S : \A y \in S : m <= y
<1> DEFINE R == {ss \in Nat \X Nat : ss[1] < ss[2]}
<1>1. IsWellFoundedOn(R, Nat)
  BY NatLessThanWellFounded, Zenon DEF OpToRel
<1>2. \A x, y \in Nat : <<y, x>> \in R <=> y < x
  BY Zenon
<1> HIDE DEF R
<1>3. PICK x \in S : \A y \in S : ~ (<<y, x>> \in R)
  BY <1>1, WFMin, Zenon
<1>4. ASSUME NEW y \in S PROVE x <= y
  <2>1. x \in Nat /\ y \in Nat
    BY Zenon
  <2>2. ~ (y < x)
    BY <1>2, <1>3, <2>1, Zenon
  <2> QED BY <2>1, <2>2
<1> QED BY <1>4, Zenon

-----------------------------------------------------------------------------
(***************************************************************************)
(* The loops of the range locks.                                           *)
(***************************************************************************)
\* Finitely many handles, and ranges that are not empty.
WalkConstants ==
  /\ IsFiniteSet(Slots)
  /\ Requests \subseteq [start : Nat, end : Nat, type : {"reader", "writer"}]
  /\ \A q \in Requests : q.start < q.end

Sound(n) ==
  /\ n.read_wanted => Blocks(n)
  /\ n.is_proxy => n.type = "reader"
  /\ ~ n.is_proxy => n.refs = 1

\* The nodes of a tree do not overlap; only those that keep readers out have
\* readers that wait; only proxies are shared.
TreeOK(T) ==
  /\ T \subseteq Nodes
  /\ \A n \in T : n.start < n.end /\ Sound(n)
  /\ \A m, n \in T : m # n => ~ Overlap(m, n)

\* A range, or none: one that ends at 0.
RangeOK(r) == r.start \in Nat /\ r.end \in Nat /\ (r.start < r.end \/ r.end = 0)

Holders(n, H) == {j \in Slots : Overlap(n, H[j])}

\* The nodes of T tile the ranges H of the handles, those that are no proxies have
\* the range of their handle, and m_refs counts the handles.
HandlesOK(T, H) ==
  /\ \A j \in Slots : RangeOK(H[j])
  /\ \A j \in Slots, n \in T : Overlap(n, H[j]) => Within(n, H[j])
  /\ \A j \in Slots, x \in Nat : Contains(H[j], x) => \E n \in T : Contains(n, x)
  /\ \A j \in Slots, n \in T : Overlap(n, H[j]) /\ ~ n.is_proxy =>
       n.start = H[j].start /\ n.end = H[j].end
  /\ \A n \in T : n.refs = Cardinality(Holders(n, H)) /\ n.refs # 0

Base(T, H) == TreeOK(T) /\ HandlesOK(T, H)

\* The handles whose node is no proxy.
Live(T, H) == {j \in Slots : \E n \in T : ~ n.is_proxy /\ Overlap(n, H[j])}

\* No node of T under the range r is that of a handle.
AllShared(T, r) == \A n \in T : Overlap(n, r) => n.is_proxy

\* k is r and a, one behind the other.
Joins(r, a, k) ==
  /\ k.start \in Nat /\ k.end \in Nat
  /\ \/ r.end = 0 /\ k.start = a.start /\ k.end = a.end
     \/ r.start < r.end /\ r.end = a.start /\ k.start = r.start /\ k.end = a.end
     \/ r.start < r.end /\ a.end = r.start /\ k.start = a.start /\ k.end = r.end

\* A node of a tree is a range of naturals that is not empty.
LEMMA NodeTypes ==
  ASSUME NEW T, TreeOK(T), NEW n \in T
  PROVE  /\ n \in Nodes /\ n.start \in Nat /\ n.end \in Nat /\ n.start < n.end
         /\ n.refs \in Nat /\ Sound(n)
<1>1. n \in Nodes /\ n.start < n.end /\ Sound(n)
  BY Zenon DEF TreeOK
<1>2. n.start \in Nat /\ n.end \in Nat /\ n.refs \in Nat
  BY <1>1 DEF Nodes
<1> QED BY <1>1, <1>2, Zenon

\* What it means for a range to be joined of two.
LEMMA JoinFacts ==
  ASSUME NEW r, NEW a, NEW k, RangeOK(r), a.start \in Nat, a.end \in Nat, a.start < a.end,
         Joins(r, a, k)
  PROVE  /\ RangeOK(k) /\ k.start < k.end
         /\ Within(a, k) /\ Overlap(a, k) /\ ~ Overlap(a, r)
         /\ \A x \in Nat : Contains(k, x) <=> Contains(r, x) \/ Contains(a, x)
  BY SMT DEF RangeOK, Joins, Within, Overlap, Contains

\* A node beside a is on a joined range as it was before.
LEMMA JoinBeside ==
  ASSUME NEW r, NEW a, NEW k, RangeOK(r), a.start \in Nat, a.end \in Nat, a.start < a.end,
         Joins(r, a, k),
         NEW m, m.start \in Nat, m.end \in Nat, m.start < m.end, ~ Overlap(m, a)
  PROVE  /\ Overlap(m, k) <=> Overlap(m, r)
         /\ Overlap(m, r) => (Within(m, k) <=> Within(m, r))
  BY SMT DEF RangeOK, Joins, Within, Overlap

\* Ranges overlap where they have a number in common.
LEMMA CommonPoint ==
  ASSUME NEW a, NEW b, a.start \in Nat, a.end \in Nat, b.start \in Nat, b.end \in Nat
  PROVE  Overlap(a, b) /\ a.start < a.end /\ b.start < b.end =>
           \E x \in Nat : Contains(a, x) /\ Contains(b, x)
<1> SUFFICES ASSUME Overlap(a, b), a.start < a.end, b.start < b.end
             PROVE  \E x \in Nat : Contains(a, x) /\ Contains(b, x)
  OBVIOUS
<1>1. CASE a.start <= b.start
  <2>1. Contains(a, b.start) /\ Contains(b, b.start)
    BY <1>1 DEF Contains, Overlap
  <2> QED BY <2>1, Zenon
<1>2. CASE b.start < a.start
  <2>1. Contains(a, a.start) /\ Contains(b, a.start)
    BY <1>2 DEF Contains, Overlap
  <2> QED BY <2>1, Zenon
<1> QED BY <1>1, <1>2

\* Ranges that have a number in common overlap.
LEMMA PointOverlaps ==
  ASSUME NEW a, NEW b, a.start \in Nat, a.end \in Nat, b.start \in Nat, b.end \in Nat,
         NEW x \in Nat, Contains(a, x), Contains(b, x)
  PROVE  Overlap(a, b)
  BY DEF Contains, Overlap

\* A range that overlaps something is not empty, if it is one.
LEMMA OverlapNonempty ==
  ASSUME NEW a, NEW r, a.start \in Nat, RangeOK(r), Overlap(a, r)
  PROVE  r.start < r.end
  BY DEF RangeOK, Overlap

\* Nodes that take the place of others in a tree without overlaps.
LEMMA TreeReplace ==
  ASSUME NEW T, TreeOK(T), NEW R, NEW A, A \subseteq Nodes,
         \A a \in A : a.start < a.end /\ Sound(a),
         \A a, b \in A : a # b => ~ Overlap(a, b),
         \A a \in A, m \in T \ R : ~ Overlap(a, m)
  PROVE  TreeOK((T \ R) \cup A)
  BY Zenon DEF TreeOK, Overlap

\* Parts of a node that make it up and have its holders.
MakeUp(A, n) ==
  /\ \A a \in A : /\ a.start < a.end /\ Within(a, n) /\ a.refs = n.refs
                  /\ ~ a.is_proxy => ~ n.is_proxy /\ a.start = n.start /\ a.end = n.end
  /\ \A x \in Nat : Contains(n, x) => \E a \in A : Contains(a, x)

\* A node is replaced by parts of it that have its holders: the ranges of the
\* handles are tiled as before.
LEMMA HandlesReplace ==
  ASSUME NEW T, NEW H, Base(T, H), NEW n \in T, NEW A, A \subseteq Nodes, MakeUp(A, n)
  PROVE  HandlesOK((T \ {n}) \cup A, H)
<1> \A a \in A : /\ a.start < a.end /\ Within(a, n) /\ a.refs = n.refs
                 /\ ~ a.is_proxy => ~ n.is_proxy /\ a.start = n.start /\ a.end = n.end
  BY Zenon DEF MakeUp
<1> \A x \in Nat : Contains(n, x) => \E a \in A : Contains(a, x)
  BY Zenon DEF MakeUp
<1> DEFINE U == (T \ {n}) \cup A
<1>1. TreeOK(T) /\ HandlesOK(T, H)
  BY Zenon DEF Base
<1>2. n.start \in Nat /\ n.end \in Nat /\ n.start < n.end
  BY <1>1, NodeTypes, Zenon
<1>3. ASSUME NEW a \in A, NEW j \in Slots
      PROVE  /\ Overlap(a, H[j]) <=> Overlap(n, H[j])
             /\ Overlap(a, H[j]) => Within(a, H[j])
  <2>1. a.start \in Nat /\ a.end \in Nat
    BY DEF Nodes
  <2>2. a.start < a.end /\ Within(a, n)
    BY Zenon
  <2>3. RangeOK(H[j]) /\ (Overlap(n, H[j]) => Within(n, H[j]))
    BY <1>1, Zenon DEF HandlesOK
  <2> QED BY <1>2, <2>1, <2>2, <2>3 DEF Overlap, Within, RangeOK
<1>4. \A a \in A : Holders(a, H) = Holders(n, H)
  BY <1>3, Zenon DEF Holders
<1>5. \A j \in Slots : RangeOK(H[j])
  BY <1>1, Zenon DEF HandlesOK
<1>6. \A j \in Slots, m \in U : Overlap(m, H[j]) => Within(m, H[j])
  BY <1>1, <1>3, Zenon DEF HandlesOK
<1>7. \A j \in Slots, x \in Nat : Contains(H[j], x) => \E m \in U : Contains(m, x)
  BY <1>1, Zenon DEF HandlesOK
<1>8. \A j \in Slots, m \in U : Overlap(m, H[j]) /\ ~ m.is_proxy =>
        m.start = H[j].start /\ m.end = H[j].end
  BY <1>1, <1>3, Zenon DEF HandlesOK
<1>9. \A m \in U : m.refs = Cardinality(Holders(m, H)) /\ m.refs # 0
  BY <1>1, <1>4, Zenon DEF HandlesOK
<1> QED BY <1>5, <1>6, <1>7, <1>8, <1>9, Zenon DEF HandlesOK

\* wait_for_range sets a flag of a node: nothing else changes.
LEMMA FlagKeeps ==
  ASSUME NEW T, NEW H, Base(T, H), NEW n \in T, NEW f \in {"read_wanted", "write_wanted"},
         f = "read_wanted" => Blocks(n)
  PROVE  LET U == (T \ {n}) \cup {[n EXCEPT ![f] = TRUE]}
         IN  Base(U, H) /\ Live(U, H) = Live(T, H)
<1> DEFINE a == [n EXCEPT ![f] = TRUE]
           U == (T \ {n}) \cup {a}
<1>1. TreeOK(T) /\ n \in Nodes /\ n.start \in Nat /\ n.end \in Nat /\ n.start < n.end /\ Sound(n)
  BY NodeTypes, Zenon DEF Base
<1>2. /\ a \in Nodes /\ a.start = n.start /\ a.end = n.end /\ a.type = n.type
      /\ a.refs = n.refs /\ a.is_proxy = n.is_proxy
      /\ f = "read_wanted" => a.write_wanted = n.write_wanted
      /\ f = "write_wanted" => a.write_wanted
  <2>1. CASE f = "read_wanted"
    BY <1>1, <2>1, Zenon DEF Nodes
  <2>2. CASE f = "write_wanted"
    BY <1>1, <2>2, Zenon DEF Nodes
  <2> QED BY <2>1, <2>2, Zenon
<1> HIDE DEF a
<1>3. Sound(a)
  BY <1>1, <1>2, Zenon DEF Sound, Blocks
<1>4. \A m \in T \ {n} : ~ Overlap(a, m)
  BY <1>1, <1>2, Zenon DEF TreeOK, Overlap
<1>5. TreeOK(U)
  <2>1. a.start < a.end
    BY <1>1, <1>2, Zenon
  <2> QED BY <1>1, <1>2, <1>3, <1>4, <2>1, TreeReplace, ZenonT(60)
<1>6. HandlesOK(U, H)
  <2>1. Within(a, n)
    BY <1>1, <1>2 DEF Within
  <2>2. a.start < a.end /\ \A x \in Nat : Contains(n, x) => Contains(a, x)
    BY <1>1, <1>2, Zenon DEF Contains
  <2>3. \A c \in {a} : /\ c.start < c.end /\ Within(c, n) /\ c.refs = n.refs
                       /\ ~ c.is_proxy => ~ n.is_proxy /\ c.start = n.start /\ c.end = n.end
    BY <1>2, <2>1, <2>2, Zenon
  <2>4. \A x \in Nat : Contains(n, x) => \E c \in {a} : Contains(c, x)
    BY <2>2, Zenon
  <2>5. {a} \subseteq Nodes
    BY <1>2, Zenon
  <2>6. MakeUp({a}, n)
    BY <2>3, <2>4, Zenon DEF MakeUp
  <2> QED BY <2>5, <2>6, HandlesReplace, Zenon
<1>7. Live(U, H) = Live(T, H)
  <2>1. \A j \in Slots : Overlap(a, H[j]) <=> Overlap(n, H[j])
    BY <1>2, Zenon DEF Overlap
  <2> QED BY <1>2, <2>1, Zenon DEF Live
<1> QED BY <1>5, <1>6, <1>7, Zenon DEF a, Base

-----------------------------------------------------------------------------
\* A node with the given fields.
Node(s, e, t, k, p, r, w) ==
  [start |-> s, end |-> e, type |-> t, refs |-> k, is_proxy |-> p,
   read_wanted |-> r, write_wanted |-> w]

\* A node whose end or whose count of references has changed.
SetEnd(n, o) == [n EXCEPT !.end = o]
SetRefs(n, k) == [n EXCEPT !.refs = k]

\* A node has the given fields.
HasFields(a, s, e, t, k, p, r, w) == a = Node(s, e, t, k, p, r, w)

\* The other fields of a node that has changed are as they were.
LEMMA NodeSet ==
  ASSUME NEW s, NEW e, NEW t, NEW k, NEW p, NEW r, NEW w, NEW o
  PROVE  /\ HasFields(SetEnd(Node(s, e, t, k, p, r, w), o), s, o, t, k, p, r, w)
         /\ HasFields(SetRefs(Node(s, e, t, k, p, r, w), o), s, e, t, o, p, r, w)
         /\ HasFields(Bumped(Node(s, e, t, k, p, r, w)), s, e, t, k + 1, p, r, w)
<1>1. SetEnd(Node(s, e, t, k, p, r, w), o) = Node(s, o, t, k, p, r, w)
  BY DEF Node, SetEnd
<1>2. SetRefs(Node(s, e, t, k, p, r, w), o) = Node(s, e, t, o, p, r, w)
  BY DEF Node, SetRefs
<1>3. Bumped(Node(s, e, t, k, p, r, w)) = Node(s, e, t, k + 1, p, r, w)
  BY DEF Node, Bumped
<1> QED BY <1>1, <1>2, <1>3, Zenon DEF HasFields

\* A proxy for a reader's range, and one with other readers.
Share(s, e, k) == Node(s, e, "reader", k, TRUE, FALSE, FALSE)

\* What is in a proxy.
IsShare(a, s, e, k) ==
  /\ a \in Nodes /\ a.start = s /\ a.end = e /\ a.refs = k /\ a.is_proxy
  /\ Sound(a) /\ ~ Blocks(a)

\* The fields of a proxy, and that it keeps no reader out.
LEMMA ShareFields ==
  ASSUME NEW s \in Nat, NEW e \in Nat, NEW k \in Nat
  PROVE  IsShare(Share(s, e, k), s, e, k)
<1>1. Share(s, e, k) \in Nodes
  BY Zenon DEF Share, Node, Nodes
<1>2. /\ Share(s, e, k).start = s /\ Share(s, e, k).end = e /\ Share(s, e, k).refs = k
      /\ Share(s, e, k).is_proxy /\ Share(s, e, k).type = "reader"
      /\ ~ Share(s, e, k).read_wanted /\ ~ Share(s, e, k).write_wanted
  BY Zenon DEF Share, Node
<1> QED BY <1>1, <1>2, Zenon DEF Sound, Blocks, IsShare

\* A node that keeps no reader out is a reader's and has no flag.
LEMMA Open ==
  ASSUME NEW n \in Nodes, Sound(n), ~ Blocks(n)
  PROVE  n.type = "reader" /\ n.read_wanted = FALSE /\ n.write_wanted = FALSE
<1>1. n.type \in {"reader", "writer"} /\ n.read_wanted \in BOOLEAN /\ n.write_wanted \in BOOLEAN
  BY Zenon DEF Nodes
<1> QED BY <1>1, Zenon DEF Sound, Blocks

\* range_proxify, range_split and the count of add_reader make such proxies, and so
\* does RangeTree.
LEMMA PartsAreShares ==
  ASSUME NEW n \in Nodes, Sound(n), ~ Blocks(n), NEW o \in Nat
  PROVE  /\ FrontOf(n, o) = Share(n.start, o, n.refs)
         /\ RearOf(n, o) = Share(o, n.end, n.refs)
         /\ Bumped(Proxified(n)) = Share(n.start, n.end, n.refs + 1)
         /\ Bumped(FrontOf(n, o)) = Share(n.start, o, n.refs + 1)
         /\ \A s, e, k : Part(n, s, e, k) = Share(s, e, k)
<1>1. n.type = "reader" /\ n.read_wanted = FALSE /\ n.write_wanted = FALSE
  BY Open, Zenon
<1>2. n = [start |-> n.start, end |-> n.end, type |-> n.type, refs |-> n.refs,
           is_proxy |-> n.is_proxy, read_wanted |-> n.read_wanted,
           write_wanted |-> n.write_wanted]
  BY DEF Nodes
<1>3. Proxified(n) = Share(n.start, n.end, n.refs)
  <2>1. CASE n.is_proxy
    <3>1. n.is_proxy = TRUE
      BY <2>1, Zenon DEF Nodes
    <3> QED BY <1>1, <1>2, <2>1, <3>1, Zenon DEF Proxified, Share, Node
  <2>2. CASE ~ n.is_proxy
    BY <2>2, Zenon DEF Sound, Proxified, NewRange, Share, Node
  <2> QED BY <2>1, <2>2
<1>4. FrontOf(n, o) = Share(n.start, o, n.refs)
  <2>1. FrontOf(n, o) = SetEnd(Proxified(n), o)
    BY Zenon DEF FrontOf, SetEnd
  <2>2. HasFields(SetEnd(Share(n.start, n.end, n.refs), o),
                  n.start, o, "reader", n.refs, TRUE, FALSE, FALSE)
    BY NodeSet, Zenon DEF Share
  <2> QED BY <1>3, <2>1, <2>2, Zenon DEF Share, HasFields
<1>5. RearOf(n, o) = Share(o, n.end, n.refs)
  <2>1. NewRange(o, n.end, "reader", TRUE) = Share(o, n.end, 1)
    BY Zenon DEF NewRange, Share, Node
  <2>2. RearOf(n, o) = SetRefs(NewRange(o, n.end, "reader", TRUE), n.refs)
    BY Zenon DEF RearOf, SetRefs
  <2>3. HasFields(SetRefs(Share(o, n.end, 1), n.refs),
                  o, n.end, "reader", n.refs, TRUE, FALSE, FALSE)
    BY NodeSet, Zenon DEF Share
  <2> QED BY <2>1, <2>2, <2>3, Zenon DEF Share, HasFields
<1>6. Bumped(Proxified(n)) = Share(n.start, n.end, n.refs + 1)
  <2>1. HasFields(Bumped(Share(n.start, n.end, n.refs)),
                  n.start, n.end, "reader", n.refs + 1, TRUE, FALSE, FALSE)
    BY NodeSet, Zenon DEF Share
  <2> QED BY <1>3, <2>1, Zenon DEF Share, HasFields
<1>7. Bumped(FrontOf(n, o)) = Share(n.start, o, n.refs + 1)
  <2>1. HasFields(Bumped(Share(n.start, o, n.refs)),
                  n.start, o, "reader", n.refs + 1, TRUE, FALSE, FALSE)
    BY NodeSet, Zenon DEF Share
  <2> QED BY <1>4, <2>1, Zenon DEF Share, HasFields
<1>8. \A s, e, k : Part(n, s, e, k) = Share(s, e, k)
  BY <1>1, Zenon DEF Part, Share, Node
<1> QED BY <1>4, <1>5, <1>6, <1>7, <1>8, Zenon

\* The live handles without the one of n, which range_proxify detaches.
Kept(T, H, n) == IF n.is_proxy THEN Live(T, H) ELSE {j \in Live(T, H) : H[j].start # n.start}

\* Who is live besides the handle of n.
LEMMA KeptIs ==
  ASSUME NEW T, NEW H, Base(T, H), NEW n \in T
  PROVE  \A j : j \in Kept(T, H, n) <=>
                 j \in Slots /\ \E m \in T \ {n} : ~ m.is_proxy /\ Overlap(m, H[j])
<1>1. TreeOK(T) /\ HandlesOK(T, H)
  BY Zenon DEF Base
<1>2. CASE n.is_proxy
  BY <1>2, Zenon DEF Kept, Live
<1>3. CASE ~ n.is_proxy
  <2>1. ASSUME NEW j \in Slots, NEW m \in T, ~ m.is_proxy, Overlap(m, H[j])
        PROVE  m = n <=> H[j].start = n.start
    <3>1. m.start = H[j].start
      BY <1>1, <2>1, Zenon DEF HandlesOK
    <3>2. m # n => m.start # n.start
      <4>1. /\ m.start \in Nat /\ m.end \in Nat /\ m.start < m.end
            /\ n.start \in Nat /\ n.end \in Nat /\ n.start < n.end
        BY <1>1, NodeTypes, Zenon
      <4>2. m # n => ~ Overlap(m, n)
        BY <1>1, Zenon DEF TreeOK
      <4> QED BY <4>1, <4>2 DEF Overlap
    <3> QED BY <3>1, <3>2, Zenon
  <2> QED BY <1>3, <2>1, Zenon DEF Kept, Live
<1> QED BY <1>2, <1>3

\* range_split: the parts of a node have its holders.
LEMMA SplitKeeps ==
  ASSUME NEW T, NEW H, Base(T, H), NEW n \in T, ~ Blocks(n), NEW o \in Nat, n.start < o, o < n.end
  PROVE  LET U == (T \ {n}) \cup {Share(n.start, o, n.refs), Share(o, n.end, n.refs)}
         IN  Base(U, H) /\ Live(U, H) = Kept(T, H, n)
<1> DEFINE a == Share(n.start, o, n.refs)
           b == Share(o, n.end, n.refs)
           U == (T \ {n}) \cup {a, b}
<1>1. /\ TreeOK(T) /\ n.start \in Nat /\ n.end \in Nat /\ n.start < n.end /\ n.refs \in Nat
  BY NodeTypes, Zenon DEF Base
<1>2. /\ a \in Nodes /\ a.start = n.start /\ a.end = o /\ a.refs = n.refs /\ a.is_proxy /\ Sound(a)
      /\ b \in Nodes /\ b.start = o /\ b.end = n.end /\ b.refs = n.refs /\ b.is_proxy /\ Sound(b)
  <2>1. IsShare(a, n.start, o, n.refs) /\ IsShare(b, o, n.end, n.refs)
    BY <1>1, ShareFields, Zenon
  <2> HIDE DEF a, b
  <2> QED BY <2>1, Zenon DEF IsShare
<1> HIDE DEF a, b
<1>3. \A m \in T \ {n} : ~ Overlap(a, m) /\ ~ Overlap(b, m)
  <2> SUFFICES ASSUME NEW m \in T \ {n} PROVE ~ Overlap(a, m) /\ ~ Overlap(b, m)
    OBVIOUS
  <2>1. ~ Overlap(n, m) /\ m.start \in Nat /\ m.end \in Nat /\ m.start < m.end
    BY <1>1, NodeTypes, Zenon DEF TreeOK
  <2> QED BY <1>1, <1>2, <2>1 DEF Overlap
<1>4. ~ Overlap(a, b) /\ ~ Overlap(b, a) /\ a.start < a.end /\ b.start < b.end
  BY <1>1, <1>2 DEF Overlap
<1>5. TreeOK(U)
  <2>1. \A c \in {a, b} : c \in Nodes /\ c.start < c.end /\ Sound(c)
    BY <1>2, <1>4, Zenon
  <2>2. \A c, d \in {a, b} : c # d => ~ Overlap(c, d)
    BY <1>4, Zenon
  <2>3. \A c \in {a, b}, m \in T \ {n} : ~ Overlap(c, m)
    BY <1>3, Zenon
  <2> QED BY <1>1, <2>1, <2>2, <2>3, TreeReplace, Zenon
<1>6. HandlesOK(U, H)
  <2>1. Within(a, n) /\ Within(b, n)
    BY <1>1, <1>2 DEF Within
  <2>2. \A x \in Nat : Contains(n, x) => Contains(a, x) \/ Contains(b, x)
    BY <1>1, <1>2 DEF Contains
  <2>3. \A c \in {a, b} : /\ c.start < c.end /\ Within(c, n) /\ c.refs = n.refs
                          /\ ~ c.is_proxy => ~ n.is_proxy /\ c.start = n.start /\ c.end = n.end
    BY <1>2, <1>4, <2>1, Zenon
  <2>5. {a, b} \subseteq Nodes
    BY <1>2, Zenon
  <2>4. \A x \in Nat : Contains(n, x) => \E c \in {a, b} : Contains(c, x)
    BY <2>2, Zenon
  <2>6. MakeUp({a, b}, n)
    BY <2>3, <2>4, Zenon DEF MakeUp
  <2> QED BY <2>5, <2>6, HandlesReplace, Zenon
<1>7. Live(U, H) = Kept(T, H, n)
  <2>1. \A j : j \in Kept(T, H, n) <=> j \in Slots /\ \E m \in T \ {n} : ~ m.is_proxy /\ Overlap(m, H[j])
    BY KeptIs, Zenon
  <2> QED BY <1>2, <2>1, Zenon DEF Live
<1> QED BY <1>5, <1>6, <1>7, Zenon DEF a, b, Base

\* Handle i changes from H to K.
Only(i, H, K) == i \in Slots /\ \A j \in Slots \ {i} : K[j] = H[j]

\* The handles of a consistent tree that are live.
Fits(T, H, L) == Base(T, H) /\ Live(T, H) = L

\* insert_at and range_new_proxy: a node where none was, for one handle.
LEMMA AddKeeps ==
  ASSUME NEW T, NEW H, NEW K, NEW i, NEW g \in Nodes, WalkConstants, Base(T, H), Only(i, H, K),
         g.start < g.end, Sound(g), g.refs = 1, Joins(H[i], g, K[i]), AllShared(T, H[i]),
         \A m \in T : ~ Overlap(m, g),
         ~ g.is_proxy => g.start = K[i].start /\ g.end = K[i].end
  PROVE  Fits(T \cup {g}, K, IF g.is_proxy THEN Live(T, H) ELSE Live(T, H) \cup {i})
<1> DEFINE U == T \cup {g}
<1>1. TreeOK(T) /\ HandlesOK(T, H) /\ i \in Slots /\ \A j \in Slots : j # i => K[j] = H[j]
  BY Zenon DEF Base, Only
<1>2. g.start \in Nat /\ g.end \in Nat
  BY DEF Nodes
<1>3. RangeOK(H[i])
  BY <1>1, Zenon DEF HandlesOK
<1>4. /\ RangeOK(K[i]) /\ Within(g, K[i]) /\ Overlap(g, K[i])
      /\ \A x \in Nat : Contains(K[i], x) => Contains(H[i], x) \/ Contains(g, x)
  BY <1>2, <1>3, JoinFacts, Zenon
<1>5. \A m \in T : /\ Overlap(m, K[i]) <=> Overlap(m, H[i])
                   /\ Overlap(m, H[i]) => (Within(m, K[i]) <=> Within(m, H[i]))
  <2> SUFFICES ASSUME NEW m \in T
               PROVE  /\ Overlap(m, K[i]) <=> Overlap(m, H[i])
                      /\ Overlap(m, H[i]) => (Within(m, K[i]) <=> Within(m, H[i]))
    BY Zenon
  <2>1. m.start \in Nat /\ m.end \in Nat /\ m.start < m.end /\ ~ Overlap(m, g)
    BY <1>1, NodeTypes, Zenon
  <2> QED BY <1>2, <1>3, <2>1, JoinBeside, Zenon
<1>6. \A j \in Slots : j # i => ~ Overlap(g, K[j])
  <2> SUFFICES ASSUME NEW j \in Slots, j # i, Overlap(g, H[j]) PROVE FALSE
    BY <1>1, Zenon
  <2>1. RangeOK(H[j])
    BY <1>1, Zenon DEF HandlesOK
  <2>2. H[j].start < H[j].end /\ H[j].start \in Nat /\ H[j].end \in Nat
    BY <1>2, <2>1, OverlapNonempty, Zenon DEF RangeOK
  <2>3. PICK x \in Nat : Contains(g, x) /\ Contains(H[j], x)
    BY <1>2, <2>2, CommonPoint, Zenon
  <2>4. PICK m \in T : Contains(m, x)
    BY <1>1, <2>3, Zenon DEF HandlesOK
  <2>5. m.start \in Nat /\ m.end \in Nat
    BY <1>1, NodeTypes, Zenon
  <2>6. Overlap(m, g)
    BY <1>2, <2>3, <2>4, <2>5, PointOverlaps, Zenon
  <2> QED BY <2>6, Zenon
<1>7. TreeOK(U)
  <2>1. \A m \in T : ~ Overlap(g, m)
    BY Zenon DEF Overlap
  <2>2. U = (T \ {}) \cup {g}
    BY Zenon
  <2>3. TreeOK((T \ {}) \cup {g})
    BY <1>1, <2>1, TreeReplace, ZenonT(60)
  <2> QED BY <2>2, <2>3, Zenon
<1>8. \A m \in T : Holders(m, K) = Holders(m, H)
  BY <1>1, <1>5, Zenon DEF Holders
<1>9. Holders(g, K) = {i}
  BY <1>1, <1>4, <1>6, Zenon DEF Holders
<1>10. HandlesOK(U, K)
  <2>1. \A j \in Slots : RangeOK(K[j])
    BY <1>1, <1>4, Zenon DEF HandlesOK
  <2>2. \A j \in Slots, m \in U : Overlap(m, K[j]) => Within(m, K[j])
    BY <1>1, <1>4, <1>5, <1>6, Zenon DEF HandlesOK
  <2>3. \A j \in Slots, x \in Nat : Contains(K[j], x) => \E m \in U : Contains(m, x)
    BY <1>1, <1>4, Zenon DEF HandlesOK
  <2>4. \A j \in Slots, m \in U : Overlap(m, K[j]) /\ ~ m.is_proxy =>
          m.start = K[j].start /\ m.end = K[j].end
    BY <1>1, <1>5, <1>6, ZenonT(60) DEF HandlesOK, AllShared
  <2>5. Cardinality({i}) = 1
    BY FS_Singleton, Zenon
  <2>6. g.refs # 0
    OBVIOUS
  <2>7. \A m \in U : m.refs = Cardinality(Holders(m, K)) /\ m.refs # 0
    BY <1>1, <1>8, <1>9, <2>5, <2>6, Zenon DEF HandlesOK
  <2> QED BY <2>1, <2>2, <2>3, <2>4, <2>7, Zenon DEF HandlesOK
<1>11. Live(U, K) = IF g.is_proxy THEN Live(T, H) ELSE Live(T, H) \cup {i}
  <2>1. CASE g.is_proxy
    BY <1>1, <1>5, <2>1, Zenon DEF Live
  <2>2. CASE ~ g.is_proxy
    BY <1>1, <1>4, <1>5, <1>6, <2>2, Zenon DEF Live
  <2> QED BY <2>1, <2>2, Zenon
<1> QED BY <1>7, <1>10, <1>11, Zenon DEF Base, Fits

\* add_reader counts a handle on a node behind its range so far.
LEMMA CountKeeps ==
  ASSUME NEW T, NEW H, NEW K, NEW i, NEW n \in T, WalkConstants, Base(T, H), Only(i, H, K),
         Joins(H[i], n, K[i]), AllShared(T, H[i])
  PROVE  LET U == (T \ {n}) \cup {Share(n.start, n.end, n.refs + 1)}
         IN  Fits(U, K, Kept(T, H, n)) /\ AllShared(U, K[i])
<1> DEFINE b == Share(n.start, n.end, n.refs + 1)
           U == (T \ {n}) \cup {b}
<1>1. TreeOK(T) /\ HandlesOK(T, H) /\ i \in Slots /\ \A j \in Slots : j # i => K[j] = H[j]
  BY Zenon DEF Base, Only
<1>2. n.start \in Nat /\ n.end \in Nat /\ n.start < n.end /\ n.refs \in Nat /\ RangeOK(H[i])
  BY <1>1, NodeTypes, Zenon DEF HandlesOK
<1>3. n.refs + 1 \in Nat /\ n.refs + 1 # 0
  BY <1>2
<1>4. /\ b \in Nodes /\ b.start = n.start /\ b.end = n.end /\ b.refs = n.refs + 1
      /\ b.is_proxy /\ Sound(b)
  <2>1. IsShare(b, n.start, n.end, n.refs + 1)
    BY <1>2, <1>3, ShareFields, Zenon
  <2> HIDE DEF b
  <2> QED BY <2>1, Zenon DEF IsShare
<1> HIDE DEF b
<1>5. /\ RangeOK(K[i]) /\ Within(n, K[i]) /\ Overlap(n, K[i]) /\ ~ Overlap(n, H[i])
      /\ \A x \in Nat : Contains(K[i], x) => Contains(H[i], x) \/ Contains(n, x)
  BY <1>2, JoinFacts, Zenon
<1>6. \A m \in T \ {n} : /\ Overlap(m, K[i]) <=> Overlap(m, H[i])
                         /\ Overlap(m, H[i]) => (Within(m, K[i]) <=> Within(m, H[i]))
  <2> SUFFICES ASSUME NEW m \in T \ {n}
               PROVE  /\ Overlap(m, K[i]) <=> Overlap(m, H[i])
                      /\ Overlap(m, H[i]) => (Within(m, K[i]) <=> Within(m, H[i]))
    BY Zenon
  <2>1. m.start \in Nat /\ m.end \in Nat /\ m.start < m.end /\ ~ Overlap(m, n)
    BY <1>1, NodeTypes, Zenon DEF TreeOK
  <2> QED BY <1>2, <2>1, JoinBeside, Zenon
<1>7. \A r : (Overlap(b, r) <=> Overlap(n, r)) /\ (Within(b, r) <=> Within(n, r))
  BY <1>4, Zenon DEF Overlap, Within
<1>8. TreeOK(U)
  <2>1. \A m \in T \ {n} : ~ Overlap(b, m)
    BY <1>1, <1>7, Zenon DEF TreeOK
  <2>2. b.start < b.end
    BY <1>2, <1>4, Zenon
  <2> QED BY <1>1, <1>4, <2>1, <2>2, TreeReplace, Zenon
<1>9. \A m \in T \ {n} : Holders(m, K) = Holders(m, H)
  BY <1>1, <1>6, Zenon DEF Holders
<1>10. Holders(b, K) = Holders(n, H) \cup {i} /\ i \notin Holders(n, H)
  BY <1>1, <1>5, <1>7, Zenon DEF Holders
<1>11. Cardinality(Holders(b, K)) = n.refs + 1
  <2>1. Holders(n, H) \subseteq Slots /\ IsFiniteSet(Slots)
    BY Zenon DEF Holders, WalkConstants
  <2>2. IsFiniteSet(Holders(n, H))
    BY <2>1, FS_Subset, Zenon
  <2>3. Cardinality(Holders(n, H)) = n.refs
    BY <1>1, Zenon DEF HandlesOK
  <2> QED BY <1>10, <2>2, <2>3, FS_AddElement, Zenon
<1>12. HandlesOK(U, K)
  <2>1. \A j \in Slots : RangeOK(K[j])
    BY <1>1, <1>5, Zenon DEF HandlesOK
  <2>2. \A j \in Slots, m \in U : Overlap(m, K[j]) => Within(m, K[j])
    BY <1>1, <1>5, <1>6, <1>7, Zenon DEF HandlesOK
  <2>3. \A j \in Slots, x \in Nat : Contains(K[j], x) => \E m \in U : Contains(m, x)
    <3>1. \A j \in Slots, x \in Nat : Contains(K[j], x) => \E m \in T : Contains(m, x)
      BY <1>1, <1>5, Zenon DEF HandlesOK
    <3>2. \A x : Contains(n, x) => Contains(b, x)
      BY <1>4, Zenon DEF Contains
    <3> QED BY <3>1, <3>2, Zenon
  <2>4. \A j \in Slots, m \in U : Overlap(m, K[j]) /\ ~ m.is_proxy =>
          m.start = K[j].start /\ m.end = K[j].end
    BY <1>1, <1>4, <1>6, ZenonT(60) DEF HandlesOK, AllShared
  <2>5. \A m \in U : m.refs = Cardinality(Holders(m, K)) /\ m.refs # 0
    BY <1>1, <1>3, <1>4, <1>9, <1>11, Zenon DEF HandlesOK
  <2> QED BY <2>1, <2>2, <2>3, <2>4, <2>5, Zenon DEF HandlesOK
<1>13. AllShared(U, K[i])
  BY <1>4, <1>6, Zenon DEF AllShared
<1>14. Live(U, K) = Kept(T, H, n)
  <2>1. \A j \in Slots, m \in T \ {n} : ~ m.is_proxy => (Overlap(m, K[j]) <=> Overlap(m, H[j]))
    BY <1>1, <1>6, Zenon
  <2>2. \A j : j \in Kept(T, H, n) <=> j \in Slots /\ \E m \in T \ {n} : ~ m.is_proxy /\ Overlap(m, H[j])
    BY KeptIs, Zenon
  <2> QED BY <1>4, <2>1, <2>2, Zenon DEF Live
<1> QED BY <1>8, <1>12, <1>13, <1>14, Zenon DEF b, Base, Fits

\* What is left of a node that a handle leaves.
Left(T, n) == IF n.refs = 1 THEN T \ {n} ELSE (T \ {n}) \cup {[n EXCEPT !.refs = @ - 1]}

\* unlock_range_writer, and unlock_range_reader for one node: a handle leaves the
\* first node of its range.
LEMMA LeaveKeeps ==
  ASSUME NEW T, NEW H, NEW K, NEW i, NEW n \in T, WalkConstants, Base(T, H), Only(i, H, K),
         RangeOK(K[i]), Joins(K[i], n, H[i])
  PROVE  Fits(Left(T, n), K, IF n.is_proxy THEN Live(T, H) ELSE Live(T, H) \ {i})
<1> DEFINE b == [n EXCEPT !.refs = @ - 1]
           U == Left(T, n)
<1>1. TreeOK(T) /\ HandlesOK(T, H) /\ i \in Slots /\ \A j \in Slots : j # i => K[j] = H[j]
  BY Zenon DEF Base, Only
<1>2. /\ n \in Nodes /\ n.start \in Nat /\ n.end \in Nat /\ n.start < n.end /\ n.refs \in Nat
      /\ n.refs # 0 /\ Sound(n)
  BY <1>1, NodeTypes, Zenon DEF HandlesOK
<1>3. /\ b.start = n.start /\ b.end = n.end /\ b.refs = n.refs - 1 /\ b.is_proxy = n.is_proxy
      /\ b.type = n.type /\ b.read_wanted = n.read_wanted /\ b.write_wanted = n.write_wanted
      /\ b \in Nodes
  <2>1. n.refs - 1 \in Nat
    BY <1>2
  <2> QED BY <1>2, <2>1 DEF Nodes
<1> HIDE DEF b
<1>4. n.refs # 1 => n.is_proxy
  BY <1>2, Zenon DEF Sound
<1>5. U = (T \ {n}) \cup (IF n.refs = 1 THEN {} ELSE {b})
  BY Zenon DEF Left, b
<1>6. /\ Within(n, H[i]) /\ Overlap(n, H[i]) /\ ~ Overlap(n, K[i])
      /\ \A x \in Nat : Contains(K[i], x) => Contains(H[i], x)
      /\ \A x \in Nat : Contains(K[i], x) => ~ Contains(n, x)
  <2>1. /\ Within(n, H[i]) /\ Overlap(n, H[i]) /\ ~ Overlap(n, K[i])
        /\ \A x \in Nat : Contains(K[i], x) => Contains(H[i], x)
    BY <1>2, JoinFacts, Zenon
  <2>2. \A x \in Nat : Contains(K[i], x) => ~ Contains(n, x)
    BY <1>2, <2>1, PointOverlaps, Zenon DEF RangeOK
  <2> QED BY <2>1, <2>2, Zenon
<1>7. \A m \in T \ {n} : /\ Overlap(m, K[i]) <=> Overlap(m, H[i])
                         /\ Overlap(m, K[i]) => (Within(m, H[i]) <=> Within(m, K[i]))
                         /\ ~ Overlap(m, n)
  <2> SUFFICES ASSUME NEW m \in T \ {n}
               PROVE  /\ Overlap(m, K[i]) <=> Overlap(m, H[i])
                      /\ Overlap(m, K[i]) => (Within(m, H[i]) <=> Within(m, K[i]))
                      /\ ~ Overlap(m, n)
    BY Zenon
  <2>1. m.start \in Nat /\ m.end \in Nat /\ m.start < m.end /\ ~ Overlap(m, n)
    BY <1>1, NodeTypes, Zenon DEF TreeOK
  <2> QED BY <1>2, <2>1, JoinBeside, Zenon
<1>8. \A r : (Overlap(b, r) <=> Overlap(n, r)) /\ (Within(b, r) <=> Within(n, r))
  BY <1>3, Zenon DEF Overlap, Within
<1>9. TreeOK(U)
  <2>1. \A m \in T \ {n} : ~ Overlap(b, m)
    BY <1>1, <1>8, Zenon DEF TreeOK
  <2>2. b.start < b.end
    BY <1>2, <1>3, Zenon
  <2>3. n.refs # 1 => Sound(b)
    BY <1>2, <1>3, <1>4, Zenon DEF Sound, Blocks
  <2>4. CASE n.refs = 1
    <3>1. U \subseteq T
      BY <1>5, <2>4, Zenon
    <3> QED BY <1>1, <3>1, Zenon DEF TreeOK
  <2>5. CASE n.refs # 1
    <3>1. TreeOK((T \ {n}) \cup {b})
      BY <1>1, <1>3, <2>1, <2>2, <2>3, <2>5, TreeReplace, ZenonT(60)
    <3> QED BY <1>5, <2>5, <3>1, Zenon
  <2> QED BY <2>4, <2>5
<1>10. \A m \in T \ {n} : Holders(m, K) = Holders(m, H)
  BY <1>1, <1>7, Zenon DEF Holders
<1>11. Holders(b, K) = Holders(n, H) \ {i} /\ i \in Holders(n, H)
  BY <1>1, <1>6, <1>8, Zenon DEF Holders
<1>12. IsFiniteSet(Holders(n, H)) /\ Cardinality(Holders(n, H)) = n.refs
  <2>1. Holders(n, H) \subseteq Slots /\ IsFiniteSet(Slots)
    BY Zenon DEF Holders, WalkConstants
  <2>2. IsFiniteSet(Holders(n, H))
    BY <2>1, FS_Subset, Zenon
  <2> QED BY <1>1, <2>2, Zenon DEF HandlesOK
<1>13. Cardinality(Holders(b, K)) = n.refs - 1
  BY <1>11, <1>12, FS_RemoveElement, Zenon
<1>14. n.refs = 1 => Holders(n, H) = {i}
  <2> SUFFICES ASSUME n.refs = 1 PROVE Holders(n, H) \ {i} = {}
    BY <1>11, Zenon
  <2>1. IsFiniteSet(Holders(n, H) \ {i}) /\ Cardinality(Holders(n, H) \ {i}) = n.refs - 1
    BY <1>11, <1>12, FS_RemoveElement, Zenon
  <2>2. Cardinality(Holders(n, H) \ {i}) = 0
    BY <2>1
  <2> QED BY <2>1, <2>2, FS_EmptySet, Zenon
<1>15. HandlesOK(U, K)
  <2>1. \A j \in Slots : RangeOK(K[j])
    BY <1>1, Zenon DEF HandlesOK
  <2>2. \A j \in Slots, m \in U : Overlap(m, K[j]) => Within(m, K[j])
    BY <1>1, <1>5, <1>6, <1>7, <1>8, Zenon DEF HandlesOK
  <2>3. \A j \in Slots, x \in Nat : Contains(K[j], x) => \E m \in U : Contains(m, x)
    <3> SUFFICES ASSUME NEW j \in Slots, NEW x \in Nat, Contains(K[j], x)
                 PROVE  \E m \in U : Contains(m, x)
      BY Zenon
    <3>1. Contains(H[j], x)
      BY <1>1, <1>6, Zenon
    <3>2. PICK m \in T : Contains(m, x)
      BY <1>1, <3>1, Zenon DEF HandlesOK
    <3>3. CASE m # n
      BY <1>5, <3>2, <3>3, Zenon
    <3>4. CASE m = n /\ n.refs # 1
      <4>1. Contains(b, x)
        BY <1>3, <3>2, <3>4, Zenon DEF Contains
      <4> QED BY <1>5, <3>4, <4>1, Zenon
    <3>5. CASE m = n /\ n.refs = 1
      <4>1. j # i
        BY <1>6, <3>2, <3>5, Zenon
      <4>2. H[j].start \in Nat /\ H[j].end \in Nat
        BY <1>1, Zenon DEF HandlesOK, RangeOK
      <4>3. Overlap(n, H[j])
        BY <1>2, <3>1, <3>2, <3>5, <4>2, PointOverlaps, Zenon
      <4> QED BY <1>14, <3>5, <4>1, <4>3, Zenon DEF Holders
    <3> QED BY <3>3, <3>4, <3>5, Zenon
  <2>4. \A j \in Slots, m \in U : Overlap(m, K[j]) /\ ~ m.is_proxy =>
          m.start = K[j].start /\ m.end = K[j].end
    <3> SUFFICES ASSUME NEW j \in Slots, NEW m \in U, Overlap(m, K[j]), ~ m.is_proxy
                 PROVE  m.start = K[j].start /\ m.end = K[j].end
      BY Zenon
    <3>1. m \in T \ {n}
      BY <1>3, <1>4, <1>5, Zenon
    <3>2. CASE j # i
      BY <1>1, <3>1, <3>2, ZenonT(60) DEF HandlesOK
    <3>3. CASE j = i
      <4>1. m.start = H[i].start /\ m.end = H[i].end
        BY <1>1, <1>7, <3>1, <3>3, Zenon DEF HandlesOK
      <4>2. ~ Overlap(m, n)
        BY <1>7, <3>1, Zenon
      <4> QED BY <1>2, <1>6, <4>1, <4>2 DEF Overlap, Within
    <3> QED BY <3>2, <3>3
  <2>5. n.refs # 1 => n.refs - 1 # 0
    BY <1>2
  <2>6. \A m \in U : m.refs = Cardinality(Holders(m, K)) /\ m.refs # 0
    BY <1>1, <1>3, <1>5, <1>10, <1>13, <2>5, Zenon DEF HandlesOK
  <2> QED BY <2>1, <2>2, <2>3, <2>4, <2>6, Zenon DEF HandlesOK
<1>16. Live(U, K) = IF n.is_proxy THEN Live(T, H) ELSE Live(T, H) \ {i}
  <2>1. \A j \in Slots, m \in T \ {n} : Overlap(m, K[j]) <=> Overlap(m, H[j])
    BY <1>1, <1>7, Zenon
  <2>2. CASE n.is_proxy
    BY <1>3, <1>5, <2>1, <2>2, Zenon DEF Live
  <2>3. CASE ~ n.is_proxy
    <3>1. n.refs = 1 /\ U = T \ {n}
      BY <1>4, <1>5, <2>3, Zenon
    <3>2. \A j \in Slots : Overlap(n, H[j]) <=> j = i
      BY <1>14, <3>1, Zenon DEF Holders
    <3>3. \A m \in T \ {n} : ~ m.is_proxy => ~ Overlap(m, H[i])
      <4> SUFFICES ASSUME NEW m \in T \ {n}, ~ m.is_proxy, Overlap(m, H[i]) PROVE FALSE
        BY Zenon
      <4>1. m.start = H[i].start /\ m.end = H[i].end /\ ~ Overlap(m, n)
        BY <1>1, <1>7, Zenon DEF HandlesOK
      <4> QED BY <1>2, <1>6, <4>1 DEF Overlap, Within
    <3> QED BY <2>1, <2>3, <3>1, <3>2, <3>3, Zenon DEF Live
  <2> QED BY <2>2, <2>3, Zenon
<1> QED BY <1>9, <1>15, <1>16, Zenon DEF Base, Fits

-----------------------------------------------------------------------------
(***************************************************************************)
(* What RangeTree says a granted reader makes of the tree, taken apart     *)
(* from the left: the range r of the reader begins where the walk is.      *)
(***************************************************************************)
MeetIn(T, r) == {n \in T : Overlap(n, r)}
GrownBy(T, r) == Grown(T, r, MeetIn(T, r))

\* s is the end of the range r.
RestOf(r, s) ==
  /\ r.start \in Nat /\ r.end \in Nat /\ s.start \in Nat
  /\ s.end = r.end /\ r.start <= s.start

\* The pieces of a node that begins behind the walk do not depend on where it is.
LEMMA PiecesLater ==
  ASSUME NEW r, NEW s, RestOf(r, s), NEW n, n.start \in Nat, s.start <= n.start
  PROVE  Pieces(n, r) = Pieces(n, s)
<1>1. /\ ~ (n.start < r.start) /\ ~ (n.start < s.start) /\ r.end = s.end
      /\ Larger(n.start, r.start) = n.start /\ Larger(n.start, s.start) = n.start
  BY DEF RestOf, Larger
<1>2. Front(n, r) = {} /\ Front(n, s) = {}
  BY <1>1, Zenon DEF Front
<1>3. Shared(n, r) = Shared(n, s)
  BY <1>1, Zenon DEF Shared
<1>4. Rear(n, r) = Rear(n, s)
  BY <1>1, Zenon DEF Rear
<1> QED BY <1>2, <1>3, <1>4, Zenon DEF Pieces

\* Membership in a product of two sets.
LEMMA PairIn ==
  ASSUME NEW A, NEW B, NEW p
  PROVE  p \in A \X B <=> p = <<p[1], p[2]>> /\ p[1] \in A /\ p[2] \in B
  OBVIOUS

\* When a gap is one of r, in the terms of its two ends.
LEMMA GapIs ==
  ASSUME NEW r, NEW O, NEW p
  PROVE  p \in GapBounds(r, O) <=>
           /\ p = <<p[1], p[2]>>
           /\ p[1] = r.start \/ \E n \in O : p[1] = n.end
           /\ p[2] = r.end \/ \E n \in O : p[2] = n.start
           /\ r.start <= p[1] /\ p[1] < p[2] /\ p[2] <= r.end
           /\ \A n \in O : n.end <= p[1] \/ p[2] <= n.start
<1> DEFINE A == {r.start} \cup {n.end : n \in O}
           B == {r.end} \cup {n.start : n \in O}
<1>1. p \in A \X B <=> p = <<p[1], p[2]>> /\ p[1] \in A /\ p[2] \in B
  BY PairIn
<1>2. p[1] \in A <=> p[1] = r.start \/ \E n \in O : p[1] = n.end
  BY Zenon
<1>3. p[2] \in B <=> p[2] = r.end \/ \E n \in O : p[2] = n.start
  BY Zenon
<1>4. p \in GapBounds(r, O) <=>
        /\ p \in A \X B
        /\ r.start <= p[1] /\ p[1] < p[2] /\ p[2] <= r.end
        /\ \A n \in O : n.end <= p[1] \/ p[2] <= n.start
  BY Zenon DEF GapBounds
<1> HIDE DEF A, B
<1> QED BY <1>1, <1>2, <1>3, <1>4, Zenon

\* The pieces of the nodes in O.
Cuts(r, O) == UNION {Pieces(n, r) : n \in O}

\* A tree grown is its other nodes, the pieces and the gaps.
LEMMA GrownIs ==
  ASSUME NEW T, NEW r
  PROVE  GrownBy(T, r) = ((T \ MeetIn(T, r)) \cup Cuts(r, MeetIn(T, r))) \cup Gaps(r, MeetIn(T, r))
  BY Zenon DEF GrownBy, Grown, Cuts

\* The walk has come to a node: counting the handle there is the first step of
\* growing the tree by r, and growing it by the rest s the others.
LEMMA GrownCount ==
  ASSUME NEW T, TreeOK(T), NEW n \in T, ~ Blocks(n), NEW r, NEW s, RestOf(r, s),
         n.start = r.start, n.end = s.start, s.start < r.end
  PROVE  LET U == (T \ {n}) \cup {Share(n.start, n.end, n.refs + 1)}
         IN  GrownBy(U, s) = GrownBy(T, r)
<1> DEFINE b == Share(n.start, n.end, n.refs + 1)
           U == (T \ {n}) \cup {b}
           O == MeetIn(T, r)
           P == MeetIn(U, s)
<1>1. /\ n \in Nodes /\ n.start \in Nat /\ n.end \in Nat /\ n.start < n.end /\ n.refs \in Nat
      /\ Sound(n)
  BY NodeTypes, Zenon
<1>2. r.start \in Nat /\ r.end \in Nat /\ s.start \in Nat /\ s.end = r.end /\ n.refs + 1 \in Nat
  BY <1>1 DEF RestOf
<1>3. b.start = n.start /\ b.end = n.end /\ b.refs = n.refs + 1
  <2>1. IsShare(b, n.start, n.end, n.refs + 1)
    BY <1>1, <1>2, ShareFields, Zenon
  <2> HIDE DEF b
  <2> QED BY <2>1, Zenon DEF IsShare
<1>4. n.refs + 1 # n.refs
  BY <1>1
<1>5. b # n /\ b \notin T
  <2>1. b # n
    BY <1>3, <1>4, Zenon
  <2>2. Overlap(b, n)
    BY <1>1, <1>3 DEF Overlap
  <2> QED BY <2>1, <2>2, Zenon DEF TreeOK
<1>6. Pieces(n, r) = {b}
  <2>1. /\ ~ (n.start < r.start) /\ ~ (r.end < n.end)
        /\ Larger(n.start, r.start) = n.start /\ Smaller(n.end, r.end) = n.end
    BY <1>1, <1>2 DEF Larger, Smaller
  <2>2. \A x, e, k : Part(n, x, e, k) = Share(x, e, k)
    BY <1>1, PartsAreShares, Zenon
  <2> QED BY <2>1, <2>2, Zenon DEF Pieces, Front, Shared, Rear
<1>7. ~ Overlap(b, s) /\ Overlap(n, r)
  BY <1>1, <1>2, <1>3 DEF Overlap
<1> HIDE DEF b
<1>8. ASSUME NEW m \in T, m # n
      PROVE  /\ m.start \in Nat /\ m.end \in Nat
             /\ Overlap(m, r) <=> Overlap(m, s)
             /\ Overlap(m, s) => s.start <= m.start
  <2>1. m.start \in Nat /\ m.end \in Nat /\ m.start < m.end
    BY NodeTypes, Zenon
  <2>2. ~ Overlap(m, n)
    BY <1>8, Zenon DEF TreeOK
  <2> QED BY <1>1, <1>2, <2>1, <2>2 DEF Overlap
<1>9. P = {m \in T : m # n /\ Overlap(m, s)}
  BY <1>5, <1>7, Zenon DEF MeetIn
<1>10. O = P \cup {n} /\ n \notin P
  BY <1>7, <1>8, <1>9, Zenon DEF MeetIn
<1>11. (T \ O) \cup {b} = U \ P
  BY <1>5, <1>9, <1>10, Zenon
<1>12. \A m \in P : Pieces(m, r) = Pieces(m, s)
  BY <1>8, <1>9, PiecesLater, Zenon
<1>13. Cuts(r, O) = {b} \cup Cuts(s, P)
  BY <1>6, <1>10, <1>12, Zenon DEF Cuts
<1>14. \A m \in P : m.start \in Nat /\ m.end \in Nat /\ s.start <= m.start /\ m.start < m.end
  BY <1>8, <1>9, NodeTypes, Zenon
<1> HIDE DEF U, O, P
<1>15. ASSUME NEW p \in GapBounds(r, O) PROVE p \in GapBounds(s, P)
  <2>1. /\ p = <<p[1], p[2]>>
        /\ p[1] = r.start \/ \E m \in O : p[1] = m.end
        /\ p[2] = r.end \/ \E m \in O : p[2] = m.start
        /\ r.start <= p[1] /\ p[1] < p[2] /\ p[2] <= r.end
        /\ \A m \in O : m.end <= p[1] \/ p[2] <= m.start
    BY GapIs, Zenon
  <2>2. p[1] \in Nat /\ p[2] \in Nat
    BY <1>1, <1>2, <1>10, <1>14, <2>1, Zenon
  <2>3. n.end <= p[1] \/ p[2] <= n.start
    BY <1>10, <2>1, Zenon
  <2>4. s.start <= p[1] /\ p[1] # r.start /\ p[2] # n.start
    BY <1>1, <1>2, <2>1, <2>2, <2>3
  <2>5. p[1] = s.start \/ \E m \in P : p[1] = m.end
    BY <1>10, <2>1, <2>4, Zenon
  <2>6. p[2] = s.end \/ \E m \in P : p[2] = m.start
    BY <1>2, <1>10, <2>1, <2>4, Zenon
  <2> QED BY <1>2, <1>10, <2>1, <2>4, <2>5, <2>6, GapIs, Zenon
<1>16. ASSUME NEW p \in GapBounds(s, P) PROVE p \in GapBounds(r, O)
  <2>1. /\ p = <<p[1], p[2]>>
        /\ p[1] = s.start \/ \E m \in P : p[1] = m.end
        /\ p[2] = s.end \/ \E m \in P : p[2] = m.start
        /\ s.start <= p[1] /\ p[1] < p[2] /\ p[2] <= s.end
        /\ \A m \in P : m.end <= p[1] \/ p[2] <= m.start
    BY GapIs, Zenon
  <2>2. p[1] \in Nat
    BY <1>2, <1>14, <2>1, Zenon
  <2>3. r.start <= p[1] /\ n.end <= p[1]
    BY <1>1, <1>2, <2>1, <2>2
  <2>4. p[1] = r.start \/ \E m \in O : p[1] = m.end
    BY <1>10, <2>1, Zenon
  <2>5. p[2] = r.end \/ \E m \in O : p[2] = m.start
    BY <1>2, <1>10, <2>1, Zenon
  <2>6. \A m \in O : m.end <= p[1] \/ p[2] <= m.start
    BY <1>10, <2>1, <2>3, Zenon
  <2> QED BY <1>2, <2>1, <2>3, <2>4, <2>5, <2>6, GapIs, Zenon
<1>17. Gaps(r, O) = Gaps(s, P)
  BY <1>15, <1>16, Zenon DEF Gaps
<1>18. GrownBy(U, s) = ((U \ P) \cup Cuts(s, P)) \cup Gaps(s, P)
  BY GrownIs, Zenon DEF P
<1>19. GrownBy(T, r) = ((T \ O) \cup Cuts(r, O)) \cup Gaps(r, O)
  BY GrownIs, Zenon DEF O
<1>20. GrownBy(U, s) = GrownBy(T, r)
  BY <1>11, <1>13, <1>17, <1>18, <1>19, Zenon
<1> QED BY <1>20, Zenon DEF U, b

\* The walk is in front of a gap: filling it is the first step.
LEMMA GrownGap ==
  ASSUME NEW T, TreeOK(T), NEW n \in T, NEW r, NEW s, RestOf(r, s),
         n.start = s.start, r.start < s.start, s.start < r.end,
         \A m \in T : m.start < s.start => m.end <= r.start
  PROVE  LET U == T \cup {Proxy(r.start, s.start)}
         IN  GrownBy(U, s) = GrownBy(T, r)
<1> DEFINE g == Proxy(r.start, s.start)
           U == T \cup {g}
           O == MeetIn(T, r)
           P == MeetIn(U, s)
<1>1. n.start \in Nat /\ n.end \in Nat /\ n.start < n.end
  BY NodeTypes, Zenon
<1>2. r.start \in Nat /\ r.end \in Nat /\ s.start \in Nat /\ s.end = r.end
  BY Zenon DEF RestOf
<1>3. g.start = r.start /\ g.end = s.start
  BY Zenon DEF Proxy, NewRange
<1>4. ~ Overlap(g, s) /\ Overlap(n, s)
  BY <1>1, <1>2, <1>3 DEF Overlap
<1>5. ASSUME NEW m \in T
      PROVE  /\ m.start \in Nat /\ m.end \in Nat /\ m.start < m.end
             /\ Overlap(m, r) <=> Overlap(m, s)
             /\ Overlap(m, s) => s.start <= m.start
  <2>1. m.start \in Nat /\ m.end \in Nat /\ m.start < m.end
    BY NodeTypes, Zenon
  <2> QED BY <1>2, <2>1 DEF Overlap
<1>6. P = O
  BY <1>4, <1>5, Zenon DEF MeetIn
<1>7. g \notin O /\ n \in O
  BY <1>4, <1>5, <1>6, Zenon DEF MeetIn
<1>8. \A m \in O : Pieces(m, r) = Pieces(m, s)
  BY <1>5, PiecesLater, Zenon DEF MeetIn
<1>9. Cuts(r, O) = Cuts(s, O)
  BY <1>8, Zenon DEF Cuts
<1>10. \A m \in O : m.start \in Nat /\ m.end \in Nat /\ s.start <= m.start /\ m.start < m.end
  BY <1>5, Zenon DEF MeetIn
<1> DEFINE first == <<r.start, s.start>>
<1> HIDE DEF U, O, P, g
<1>11. ASSUME NEW p \in GapBounds(r, O), p # first PROVE p \in GapBounds(s, O)
  <2>1. /\ p = <<p[1], p[2]>>
        /\ p[1] = r.start \/ \E m \in O : p[1] = m.end
        /\ p[2] = r.end \/ \E m \in O : p[2] = m.start
        /\ r.start <= p[1] /\ p[1] < p[2] /\ p[2] <= r.end
        /\ \A m \in O : m.end <= p[1] \/ p[2] <= m.start
    BY GapIs, Zenon
  <2>2. p[1] \in Nat /\ p[2] \in Nat
    BY <1>2, <1>10, <2>1, Zenon
  <2>3. s.start <= p[2]
    <3>1. CASE p[2] = r.end
      BY <1>2, <3>1
    <3>2. CASE \E m \in O : p[2] = m.start
      BY <1>10, <3>2, Zenon
    <3> QED BY <2>1, <3>1, <3>2, Zenon
  <2>4. p[1] # r.start
    <3> SUFFICES ASSUME p[1] = r.start PROVE FALSE
      OBVIOUS
    <3>1. n.end <= p[1] \/ p[2] <= n.start
      BY <1>7, <2>1, Zenon
    <3>2. p[2] = s.start
      BY <1>1, <1>2, <2>2, <2>3, <3>1
    <3> QED BY <1>11, <2>1, <3>2, Zenon
  <2>5. PICK m \in O : p[1] = m.end
    BY <2>1, <2>4, Zenon
  <2>6. s.start <= p[1]
    BY <1>2, <1>10, <2>5
  <2> QED BY <1>2, <2>1, <2>5, <2>6, GapIs, Zenon
<1>12. ASSUME NEW p \in GapBounds(s, O) PROVE p \in GapBounds(r, O)
  <2>1. /\ p = <<p[1], p[2]>>
        /\ p[1] = s.start \/ \E m \in O : p[1] = m.end
        /\ p[2] = s.end \/ \E m \in O : p[2] = m.start
        /\ s.start <= p[1] /\ p[1] < p[2] /\ p[2] <= s.end
        /\ \A m \in O : m.end <= p[1] \/ p[2] <= m.start
    BY GapIs, Zenon
  <2>2. p[1] \in Nat /\ p[2] \in Nat
    BY <1>2, <1>10, <2>1, Zenon
  <2>3. n.end <= p[1] \/ p[2] <= n.start
    BY <1>7, <2>1, Zenon
  <2>4. p[1] # s.start /\ r.start <= p[1]
    BY <1>1, <1>2, <2>1, <2>2, <2>3
  <2> QED BY <1>2, <2>1, <2>4, GapIs, Zenon
<1>13. first \in GapBounds(r, O)
  <2>1. first = <<first[1], first[2]>> /\ first[1] = r.start /\ first[2] = s.start
    BY Zenon
  <2>2. /\ r.start <= r.start /\ s.start <= r.end
        /\ \A m \in O : s.start <= m.start
    BY <1>2, <1>10
  <2> QED BY <1>7, <2>1, <2>2, GapIs, Zenon
<1>14. Gaps(r, O) = Gaps(s, O) \cup {g}
  <2>1. NewRange(first[1], first[2], "reader", TRUE) = g
    BY Zenon DEF g, Proxy
  <2> HIDE DEF first
  <2> QED BY <1>11, <1>12, <1>13, <2>1, Zenon DEF Gaps
<1>15. GrownBy(U, s) = ((U \ P) \cup Cuts(s, P)) \cup Gaps(s, P)
  BY GrownIs, Zenon DEF P
<1>16. GrownBy(T, r) = ((T \ O) \cup Cuts(r, O)) \cup Gaps(r, O)
  BY GrownIs, Zenon DEF O
<1>17. U \ P = (T \ O) \cup {g}
  BY <1>6, <1>7, Zenon DEF U
<1>18. GrownBy(U, s) = GrownBy(T, r)
  BY <1>6, <1>9, <1>14, <1>15, <1>16, <1>17, Zenon
<1> QED BY <1>18, Zenon DEF U, g

\* The walk has no node in front of it: what is left is one gap.
LEMMA GrownEnd ==
  ASSUME NEW T, NEW r, r.start \in Nat, r.end \in Nat, r.start < r.end,
         \A m \in T : ~ Overlap(m, r)
  PROVE  GrownBy(T, r) = T \cup {Proxy(r.start, r.end)}
<1>1. MeetIn(T, r) = {}
  BY Zenon DEF MeetIn
<1>2. \A p : p \in GapBounds(r, {}) <=> p = <<r.start, r.end>>
  <2> SUFFICES ASSUME NEW p PROVE p \in GapBounds(r, {}) <=> p = <<r.start, r.end>>
    BY Zenon
  <2>1. p \in GapBounds(r, {}) <=>
          /\ p = <<p[1], p[2]>> /\ p[1] = r.start /\ p[2] = r.end
          /\ r.start <= p[1] /\ p[1] < p[2] /\ p[2] <= r.end
    <3>1. p \in GapBounds(r, {}) <=>
            /\ p = <<p[1], p[2]>>
            /\ p[1] = r.start \/ \E n \in {} : p[1] = n.end
            /\ p[2] = r.end \/ \E n \in {} : p[2] = n.start
            /\ r.start <= p[1] /\ p[1] < p[2] /\ p[2] <= r.end
            /\ \A n \in {} : n.end <= p[1] \/ p[2] <= n.start
      BY GapIs
    <3> QED BY <3>1, Zenon
  <2>2. r.start <= r.start /\ r.end <= r.end
    OBVIOUS
  <2>3. p = <<r.start, r.end>> => p[1] = r.start /\ p[2] = r.end
    OBVIOUS
  <2> QED BY <2>1, <2>2, <2>3, Zenon
<1>3. Gaps(r, {}) = {Proxy(r.start, r.end)}
  <2> DEFINE p == <<r.start, r.end>>
  <2>1. p[1] = r.start /\ p[2] = r.end
    BY Zenon
  <2> HIDE DEF p
  <2>2. GapBounds(r, {}) = {p}
    BY <1>2, Zenon DEF p
  <2> QED BY <2>1, <2>2, Zenon DEF Gaps, Proxy
<1>4. Cuts(r, {}) = {}
  BY Zenon DEF Cuts
<1> QED BY <1>1, <1>3, <1>4, GrownIs, Zenon

\* The walk has come to a node that reaches to the end of the range or beyond.
LEMMA GrownLast ==
  ASSUME NEW T, TreeOK(T), NEW n \in T, ~ Blocks(n), NEW r, r.start \in Nat, r.end \in Nat,
         n.start = r.start, r.start < r.end, r.end <= n.end
  PROVE  GrownBy(T, r) =
           ((T \ {n}) \cup {Share(n.start, r.end, n.refs + 1)})
             \cup (IF r.end < n.end THEN {Share(r.end, n.end, n.refs)} ELSE {})
<1>1. n \in Nodes /\ n.start \in Nat /\ n.end \in Nat /\ n.start < n.end /\ Sound(n)
  BY NodeTypes, Zenon
<1>2. MeetIn(T, r) = {n}
  <2>1. Overlap(n, r)
    BY <1>1 DEF Overlap
  <2>2. ASSUME NEW m \in T, m # n PROVE ~ Overlap(m, r)
    <3>1. m.start \in Nat /\ m.end \in Nat /\ m.start < m.end
      BY NodeTypes, Zenon
    <3>2. ~ Overlap(m, n)
      BY <2>2, Zenon DEF TreeOK
    <3> QED BY <1>1, <3>1, <3>2 DEF Overlap
  <2> QED BY <2>1, <2>2, Zenon DEF MeetIn
<1>3. GapBounds(r, {n}) = {}
  <2> SUFFICES ASSUME NEW p, p \in GapBounds(r, {n}) PROVE FALSE
    BY Zenon
  <2>1. /\ p[1] = r.start \/ p[1] = n.end
        /\ p[2] = r.end \/ p[2] = n.start
        /\ r.start <= p[1] /\ p[1] < p[2] /\ p[2] <= r.end
        /\ n.end <= p[1] \/ p[2] <= n.start
    <3>1. /\ p[1] = r.start \/ \E m \in {n} : p[1] = m.end
          /\ p[2] = r.end \/ \E m \in {n} : p[2] = m.start
          /\ r.start <= p[1] /\ p[1] < p[2] /\ p[2] <= r.end
          /\ \A m \in {n} : m.end <= p[1] \/ p[2] <= m.start
      BY GapIs
    <3> QED BY <3>1, Zenon
  <2>2. p[1] \in Nat /\ p[2] \in Nat
    BY <1>1, <2>1, Zenon
  <2> QED BY <1>1, <2>1, <2>2
<1>4. Gaps(r, {n}) = {}
  BY <1>3, Zenon DEF Gaps
<1>5. Pieces(n, r) = {Share(n.start, r.end, n.refs + 1)}
                       \cup (IF r.end < n.end THEN {Share(r.end, n.end, n.refs)} ELSE {})
  <2>1. /\ ~ (n.start < r.start) /\ Larger(n.start, r.start) = n.start
        /\ Smaller(n.end, r.end) = r.end
    BY <1>1 DEF Larger, Smaller
  <2>2. \A a, e, k : Part(n, a, e, k) = Share(a, e, k)
    BY <1>1, PartsAreShares, Zenon
  <2>3. Front(n, r) = {} /\ Shared(n, r) = Share(n.start, r.end, n.refs + 1)
    BY <2>1, <2>2, Zenon DEF Front, Shared
  <2>4. Rear(n, r) = IF r.end < n.end THEN {Share(r.end, n.end, n.refs)} ELSE {}
    BY <2>2, Zenon DEF Rear
  <2> QED BY <2>3, <2>4, Zenon DEF Pieces
<1>6. Cuts(r, {n}) = Pieces(n, r)
  BY Zenon DEF Cuts
<1>7. GrownBy(T, r) = ((T \ {n}) \cup Cuts(r, {n})) \cup Gaps(r, {n})
  BY <1>2, GrownIs, Zenon
<1> QED BY <1>4, <1>5, <1>6, <1>7, ZenonT(60)

\* A node that reaches over the start of the range may be cut there first.
LEMMA GrownCut ==
  ASSUME NEW T, TreeOK(T), NEW n \in T, ~ Blocks(n), NEW r, r.start \in Nat, r.end \in Nat,
         n.start < r.start, r.start < n.end, r.start < r.end
  PROVE  LET U == (T \ {n}) \cup {Share(n.start, r.start, n.refs), Share(r.start, n.end, n.refs)}
         IN  GrownBy(U, r) = GrownBy(T, r)
<1> DEFINE a == Share(n.start, r.start, n.refs)
           b == Share(r.start, n.end, n.refs)
           U == (T \ {n}) \cup {a, b}
           O == MeetIn(T, r)
           P == MeetIn(U, r)
<1>1. /\ n \in Nodes /\ n.start \in Nat /\ n.end \in Nat /\ n.start < n.end /\ n.refs \in Nat
      /\ Sound(n)
  BY NodeTypes, Zenon
<1>2. /\ a \in Nodes /\ a.start = n.start /\ a.end = r.start /\ a.refs = n.refs
      /\ b \in Nodes /\ b.start = r.start /\ b.end = n.end /\ b.refs = n.refs
      /\ Sound(b) /\ ~ Blocks(b)
  <2>1. IsShare(a, n.start, r.start, n.refs) /\ IsShare(b, r.start, n.end, n.refs)
    BY <1>1, ShareFields, Zenon
  <2> HIDE DEF a, b
  <2> QED BY <2>1, Zenon DEF IsShare
<1>3. Pieces(n, r) = {a} \cup Pieces(b, r)
  <2>1. /\ ~ (b.start < r.start) /\ Larger(n.start, r.start) = r.start
        /\ Larger(b.start, r.start) = r.start /\ Smaller(b.end, r.end) = Smaller(n.end, r.end)
    BY <1>1, <1>2 DEF Larger
  <2>2. \A x, e, k : Part(n, x, e, k) = Share(x, e, k)
    BY <1>1, PartsAreShares, Zenon
  <2>3. \A x, e, k : Part(b, x, e, k) = Share(x, e, k)
    BY <1>1, <1>2, PartsAreShares, Zenon
  <2>4. Front(n, r) = {a} /\ Front(b, r) = {}
    BY <2>1, <2>2, Zenon DEF Front
  <2> HIDE DEF b
  <2>5. Shared(n, r) = Shared(b, r)
    BY <1>2, <2>1, <2>2, <2>3, SMT DEF Shared
  <2>6. Rear(n, r) = Rear(b, r)
    BY <1>2, <2>2, <2>3, SMT DEF Rear
  <2> QED BY <2>4, <2>5, <2>6, Zenon DEF Pieces
<1> HIDE DEF a, b
<1>4. /\ ~ Overlap(a, r) /\ Overlap(b, r) /\ Overlap(n, r)
      /\ Overlap(a, n) /\ Overlap(b, n) /\ a # n /\ b # n /\ a # b
  <2>1. a.end # n.end /\ b.start # n.start /\ a.start # b.start
    BY <1>1, <1>2
  <2>2. /\ ~ Overlap(a, r) /\ Overlap(b, r) /\ Overlap(n, r)
        /\ Overlap(a, n) /\ Overlap(b, n)
    BY <1>1, <1>2 DEF Overlap
  <2> QED BY <2>1, <2>2, Zenon
<1>5. a \notin T /\ b \notin T
  BY <1>4, Zenon DEF TreeOK
<1>6. P = (O \ {n}) \cup {b} /\ n \in O
  BY <1>4, <1>5, Zenon DEF MeetIn
<1>7. O \subseteq T
  BY Zenon DEF MeetIn
<1> HIDE DEF O, P
<1>8. U \ P = (T \ O) \cup {a}
  BY <1>4, <1>5, <1>6, <1>7, Zenon
<1>9. Cuts(r, O) = {a} \cup Cuts(r, P)
  BY <1>3, <1>6, Zenon DEF Cuts
<1>10. \A p : p \in GapBounds(r, O) <=> p \in GapBounds(r, P)
  <2> SUFFICES ASSUME NEW p PROVE p \in GapBounds(r, O) <=> p \in GapBounds(r, P)
    BY Zenon
  <2> DEFINE I == r.start <= p[1] /\ p[1] < p[2] /\ p[2] <= r.end
  <2>1. (\E m \in O : p[1] = m.end) <=> (\E m \in P : p[1] = m.end)
    BY <1>2, <1>6, Zenon
  <2>2. (p[1] = r.start \/ \E m \in O : p[1] = m.end) => p[1] \in Nat
    BY <1>7, NodeTypes, Zenon
  <2>3. (p[2] = r.end \/ (\E m \in O : p[2] = m.start) \/ (\E m \in P : p[2] = m.start)) => p[2] \in Nat
    BY <1>2, <1>6, <1>7, NodeTypes, Zenon
  <2>4. ASSUME p[1] \in Nat, p[2] \in Nat, I
        PROVE  /\ p[2] # n.start /\ p[2] # b.start
               /\ (n.end <= p[1] \/ p[2] <= n.start) <=> (b.end <= p[1] \/ p[2] <= b.start)
    BY <1>1, <1>2, <2>4
  <2>5. ASSUME p[1] \in Nat, p[2] \in Nat, I
        PROVE  /\ (\E m \in O : p[2] = m.start) <=> (\E m \in P : p[2] = m.start)
               /\ (\A m \in O : m.end <= p[1] \/ p[2] <= m.start)
                    <=> (\A m \in P : m.end <= p[1] \/ p[2] <= m.start)
    <3>1. /\ p[2] # n.start /\ p[2] # b.start
          /\ (n.end <= p[1] \/ p[2] <= n.start) <=> (b.end <= p[1] \/ p[2] <= b.start)
      BY <2>4, <2>5, Zenon
    <3> QED BY <1>6, <3>1, Zenon
  <2>6. p \in GapBounds(r, O) <=>
           /\ p = <<p[1], p[2]>>
           /\ p[1] = r.start \/ \E m \in O : p[1] = m.end
           /\ p[2] = r.end \/ \E m \in O : p[2] = m.start
           /\ I
           /\ \A m \in O : m.end <= p[1] \/ p[2] <= m.start
    BY GapIs, Zenon
  <2>7. p \in GapBounds(r, P) <=>
           /\ p = <<p[1], p[2]>>
           /\ p[1] = r.start \/ \E m \in P : p[1] = m.end
           /\ p[2] = r.end \/ \E m \in P : p[2] = m.start
           /\ I
           /\ \A m \in P : m.end <= p[1] \/ p[2] <= m.start
    BY GapIs, Zenon
  <2> HIDE DEF I
  <2> QED BY <2>1, <2>2, <2>3, <2>5, <2>6, <2>7, Zenon
<1>11. Gaps(r, O) = Gaps(r, P)
  BY <1>10, Zenon DEF Gaps
<1>12. GrownBy(U, r) = ((U \ P) \cup Cuts(r, P)) \cup Gaps(r, P)
  BY GrownIs, Zenon DEF P
<1>13. GrownBy(T, r) = ((T \ O) \cup Cuts(r, O)) \cup Gaps(r, O)
  BY GrownIs, Zenon DEF O
<1>14. GrownBy(U, r) = GrownBy(T, r)
  BY <1>8, <1>9, <1>11, <1>12, <1>13, Zenon
<1> QED BY <1>14, Zenon DEF a, b

-----------------------------------------------------------------------------
\* What RangeTree says the unlock of a shared range r makes of the tree.
ShrunkBy(T, r) == Shrunk(T, {m \in T : Within(m, r)})

\* Leaving the first node is the first step, shrinking by the rest s the others.
LEMMA ShrunkLeave ==
  ASSUME NEW T, TreeOK(T), NEW n \in T, NEW r, NEW s, RestOf(r, s),
         n.start = r.start, n.end = s.start, s.start < r.end
  PROVE  ShrunkBy(Left(T, n), s) = ShrunkBy(T, r)
<1> DEFINE b == [n EXCEPT !.refs = @ - 1]
           U == Left(T, n)
           W == {m \in T : Within(m, r)}
           V == {m \in U : Within(m, s)}
<1>1. n \in Nodes /\ n.start \in Nat /\ n.end \in Nat /\ n.start < n.end /\ n.refs \in Nat
  BY NodeTypes, Zenon
<1>2. r.start \in Nat /\ r.end \in Nat /\ s.start \in Nat /\ s.end = r.end
  BY Zenon DEF RestOf
<1>3. b.start = n.start /\ b.end = n.end /\ b.refs = n.refs - 1
  BY <1>1 DEF Nodes
<1>4. ~ Within(b, s) /\ ~ Within(n, s) /\ Within(n, r)
  BY <1>1, <1>2, <1>3 DEF Within
<1>5. b # n /\ b \notin T
  <2>1. b.refs # n.refs
    BY <1>1, <1>3
  <2>2. Overlap(b, n)
    BY <1>1, <1>3 DEF Overlap
  <2> QED BY <2>1, <2>2, Zenon DEF TreeOK
<1>6. ASSUME NEW m \in T, m # n PROVE Within(m, r) <=> Within(m, s)
  <2>1. m.start \in Nat /\ m.end \in Nat /\ m.start < m.end
    BY NodeTypes, Zenon
  <2>2. ~ Overlap(m, n)
    BY <1>6, Zenon DEF TreeOK
  <2> QED BY <1>1, <1>2, <2>1, <2>2 DEF Overlap, Within
<1>7. U = (T \ {n}) \cup (IF n.refs = 1 THEN {} ELSE {b})
  BY Zenon DEF Left
<1> DEFINE Less(m) == [m EXCEPT !.refs = @ - 1]
<1>8. Less(n) = b
  BY Zenon
<1> HIDE DEF b, U
<1>9. V = W \ {n} /\ n \in W /\ W \subseteq T
  BY <1>4, <1>5, <1>6, <1>7, Zenon
<1> HIDE DEF V, W, Less
<1>10. CASE n.refs = 1
  <2>1. U \ V = T \ W
    BY <1>7, <1>9, <1>10, Zenon
  <2>2. V \ {m \in V : m.refs = 1} = W \ {m \in W : m.refs = 1}
    BY <1>9, <1>10, Zenon
  <2> QED BY <2>1, <2>2, Zenon DEF ShrunkBy, Shrunk, V, W, U
<1>11. CASE n.refs # 1
  <2>1. U \ V = (T \ W) \cup {b}
    BY <1>5, <1>7, <1>9, <1>11, Zenon
  <2>2. W \ {m \in W : m.refs = 1} = (V \ {m \in V : m.refs = 1}) \cup {n}
    BY <1>9, <1>11, Zenon
  <2>3. {Less(m) : m \in W \ {k \in W : k.refs = 1}} =
          {Less(m) : m \in V \ {k \in V : k.refs = 1}} \cup {b}
    BY <1>8, <2>2, Zenon
  <2>4. ShrunkBy(U, s) = (U \ V) \cup {Less(m) : m \in V \ {k \in V : k.refs = 1}}
    BY Zenon DEF ShrunkBy, Shrunk, V, Less
  <2>5. ShrunkBy(T, r) = (T \ W) \cup {Less(m) : m \in W \ {k \in W : k.refs = 1}}
    BY Zenon DEF ShrunkBy, Shrunk, W, Less
  <2>6. ShrunkBy(U, s) = ShrunkBy(T, r)
    BY <2>1, <2>3, <2>4, <2>5, Zenon
  <2> QED BY <2>6, Zenon DEF U
<1> QED BY <1>10, <1>11

\* Leaving the last node is all.
LEMMA ShrunkLast ==
  ASSUME NEW T, TreeOK(T), NEW n \in T, NEW r, r.start \in Nat, r.end \in Nat,
         n.start = r.start, n.end = r.end
  PROVE  ShrunkBy(T, r) = Left(T, n)
<1>1. n.start \in Nat /\ n.end \in Nat /\ n.start < n.end
  BY NodeTypes, Zenon
<1>2. \A m \in T : Within(m, r) <=> m = n
  <2> SUFFICES ASSUME NEW m \in T PROVE Within(m, r) <=> m = n
    BY Zenon
  <2>1. m.start \in Nat /\ m.end \in Nat /\ m.start < m.end
    BY NodeTypes, Zenon
  <2>2. m # n => ~ Overlap(m, n)
    BY Zenon DEF TreeOK
  <2>3. m = n => Within(m, r)
    BY <1>1 DEF Within
  <2>4. m # n => ~ Within(m, r)
    BY <1>1, <2>1, <2>2 DEF Overlap, Within
  <2> QED BY <2>3, <2>4, Zenon
<1>3. {m \in T : Within(m, r)} = {n}
  BY <1>2, Zenon
<1>4. ShrunkBy(T, r) = Shrunk(T, {n})
  BY <1>3, Zenon DEF ShrunkBy
<1>5. CASE n.refs = 1
  <2>1. {n} \ {m \in {n} : m.refs = 1} = {}
    BY <1>5, Zenon
  <2> QED BY <1>4, <1>5, <2>1, Zenon DEF Shrunk, Left
<1>6. CASE n.refs # 1
  <2>1. {n} \ {m \in {n} : m.refs = 1} = {n}
    BY <1>6, Zenon
  <2>2. Shrunk(T, {n}) = (T \ {n}) \cup {[n EXCEPT !.refs = @ - 1]}
    BY <2>1, Zenon DEF Shrunk
  <2> QED BY <1>4, <1>6, <2>2, Zenon DEF Left
<1> QED BY <1>5, <1>6

-----------------------------------------------------------------------------
(***************************************************************************)
(* The invariant of the loops.                                             *)
(***************************************************************************)
\* p is the first start in T from y on.
FirstFrom(T, p, y) ==
  \/ p = Null /\ \A m \in T : m.start < y
  \/ \E k \in T : k.start = p /\ y <= p /\ \A m \in T : y <= m.start => p <= m.start

\* p is the last start in T up to y.
LastUpTo(T, p, y) ==
  \/ p = Null /\ \A m \in T : y < m.start
  \/ \E k \in T : k.start = p /\ p <= y /\ \A m \in T : m.start <= y => m.start <= p

\* The range q as far as x, and from x on.
UpTo(q, x) == IF x = q.start THEN Free ELSE [q EXCEPT !.end = x]
Ahead(q, x) == [q EXCEPT !.start = x]

\* The handles, if the one of the running call had the range r.
With(r) == [held EXCEPT ![slot] = r]
Consistent(r) == Base(tree, With(r)) /\ live = Live(tree, With(r))

\* add_reader has come to x: the reader holds its range so far, the nodes ahead let
\* it in, and prev and next are on either side of x.
WalkInv(q, x) ==
  /\ x \in Nat /\ q.start <= x /\ x < q.end
  /\ Consistent(UpTo(q, x)) /\ AllShared(tree, UpTo(q, x))
  /\ expected = GrownBy(tree, Ahead(q, x))
  /\ \A n \in tree : Overlap(n, Ahead(q, x)) => ~ Blocks(n)
  /\ \A n \in tree : n.start < x => n.end <= x
  /\ FirstFrom(tree, next, x)
  /\ (prev = Null /\ next = x) \/ \E p \in tree : p.start = prev /\ p.end = x

\* unlock_range_reader has come to next: the reader holds its range from there.
DropInv(q) ==
  /\ next \in Nat /\ q.start <= next /\ next < q.end /\ len = q.end - next
  /\ Consistent(Ahead(q, next)) /\ slot \notin live
  /\ expected = ShrunkBy(tree, Ahead(q, next))

\* The scan has seen the nodes that begin before y.
ScanInv(q, y) ==
  /\ y \in Nat /\ q.start < y /\ FirstFrom(tree, next, y)
  /\ \A m \in tree : m.start < y /\ Overlap(m, q) => ~ Blocks(m)

LoopInv ==
  LET q == held[slot] IN
  /\ held \in [Slots -> Requests \cup {Free}]
  /\ loc \in {"idle", "scan", "got_lock", "insert", "walk", "drop"}
  /\ loc = "idle" => tree = expected /\ Base(tree, held) /\ live = Live(tree, held)
  /\ loc # "idle" => slot \in Slots /\ q \in Requests
  /\ loc \in {"scan", "got_lock", "insert"} => Consistent(Free) /\ expected = AfterReader(q)
  /\ loc \in {"scan", "got_lock"} => prev = Find(q)
  /\ loc = "scan" => \E y \in Nat : ScanInv(q, y)
  /\ loc = "got_lock" => \A m \in tree : Overlap(m, q) => ~ Blocks(m)
  /\ loc = "insert" => \A m \in tree : ~ Overlap(m, q)
  /\ loc = "walk" => \E x \in Nat : WalkInv(q, x)
  /\ loc = "drop" => DropInv(q)

\* A start is the key of a node.
LEMMA SameStart ==
  ASSUME NEW T, TreeOK(T), NEW m \in T, NEW n \in T, m.start = n.start
  PROVE  m = n
<1>1. /\ m.start \in Nat /\ m.end \in Nat /\ m.start < m.end
      /\ n.start \in Nat /\ n.end \in Nat /\ n.start < n.end
  BY NodeTypes, Zenon
<1>2. m # n => ~ Overlap(m, n)
  BY Zenon DEF TreeOK
<1> QED BY <1>1, <1>2 DEF Overlap

\* The node at the start of a node is that node.
LEMMA AtIs ==
  ASSUME TreeOK(tree), NEW n \in tree
  PROVE  At(n.start) = n
  BY SameStart, Zenon DEF At

\* tree.next returns the first start behind p.
LEMMA AfterIs ==
  ASSUME TreeOK(tree), NEW p \in Nat
  PROVE  FirstFrom(tree, After(p), p + 1)
<1> DEFINE S == {s \in Starts : p < s}
<1>1. \A m \in tree : m.start \in Nat
  BY NodeTypes, Zenon
<1>2. \A s \in Nat : (p < s <=> p + 1 <= s) /\ (~ (p < s) => s < p + 1)
  OBVIOUS
<1>3. S \subseteq Nat /\ \A s : s \in S <=> p < s /\ \E m \in tree : m.start = s
  BY <1>1, Zenon DEF Starts
<1>4. CASE S = {}
  <2>1. After(p) = Null
    BY <1>4, Zenon DEF After
  <2> QED BY <1>1, <1>2, <1>3, <1>4, <2>1, Zenon DEF FirstFrom
<1>5. CASE S # {}
  <2>1. \E s \in S : \A r \in S : s <= r
    BY <1>3, <1>5, LeastNat, Zenon
  <2>2. After(p) \in S /\ \A r \in S : After(p) <= r
    BY <1>5, <2>1, Zenon DEF After
  <2> HIDE DEF S
  <2>3. PICK k \in tree : k.start = After(p) /\ p < After(p)
    BY <1>3, <2>2, Zenon
  <2>4. \A m \in tree : p + 1 <= m.start => After(p) <= m.start
    BY <1>1, <1>2, <1>3, <2>2, Zenon
  <2>5. p + 1 <= After(p)
    BY <1>1, <1>2, <2>3, Zenon
  <2> QED BY <2>3, <2>4, <2>5, Zenon DEF FirstFrom
<1> QED BY <1>4, <1>5

\* tree.nearest returns the last start in front of p.
LEMMA BeforeIs ==
  ASSUME TreeOK(tree), NEW p \in Nat
  PROVE  \/ Before(p) = Null /\ \A m \in tree : ~ (m.start < p)
         \/ \E k \in tree : /\ k.start = Before(p) /\ Before(p) < p
                            /\ \A m \in tree : m.start < p => m.start <= Before(p)
<1> DEFINE S == {s \in Starts : s < p}
           D == {p - s : s \in S}
<1>1. \A m \in tree : m.start \in Nat
  BY NodeTypes, Zenon
<1>2. S \subseteq Nat /\ \A s : s \in S <=> s < p /\ \E m \in tree : m.start = s
  BY <1>1, Zenon DEF Starts
<1>3. CASE S = {}
  <2>1. Before(p) = Null
    BY <1>3, Zenon DEF Before
  <2> QED BY <1>1, <1>2, <1>3, <2>1, Zenon
<1>4. CASE S # {}
  <2>1. D \subseteq Nat
    <3> SUFFICES ASSUME NEW s \in S PROVE p - s \in Nat
      BY Zenon
    <3>1. s \in Nat /\ s < p
      BY <1>2, Zenon
    <3> QED BY <3>1
  <2>2. D # {}
    BY <1>4, Zenon
  <2>3. PICK d \in D : \A e \in D : d <= e
    BY <2>1, <2>2, LeastNat, Zenon
  <2>4. PICK t \in S : d = p - t
    BY <2>3, Zenon
  <2>5. \A r \in S : p - t <= p - r
    BY <2>3, <2>4, Zenon
  <2> HIDE DEF D
  <2>6. \A r \in S : r <= t
    <3> SUFFICES ASSUME NEW r \in S PROVE r <= t
      BY Zenon
    <3>1. r \in Nat /\ t \in Nat
      BY <1>2, Zenon
    <3> QED BY <2>5, <3>1
  <2>7. Before(p) \in S /\ \A r \in S : r <= Before(p)
    BY <1>4, <2>6, Zenon DEF Before
  <2> HIDE DEF S
  <2>8. PICK k \in tree : k.start = Before(p) /\ Before(p) < p
    BY <1>2, <2>7, Zenon
  <2> QED BY <1>2, <2>7, <2>8, Zenon
<1> QED BY <1>3, <1>4

\* find and nearest give the last start up to that of q.
LEMMA FindIs ==
  ASSUME TreeOK(tree), NEW q, q.start \in Nat
  PROVE  LastUpTo(tree, Find(q), q.start)
<1>1. \A m \in tree : m.start \in Nat
  BY NodeTypes, Zenon
<1>2. CASE q.start \in Starts
  <2>1. Find(q) = q.start
    BY <1>2, Zenon DEF Find
  <2>3. q.start <= q.start
    OBVIOUS
  <2>2. PICK k \in tree : k.start = q.start
    BY <1>2, Zenon DEF Starts
  <2> QED BY <2>1, <2>2, <2>3, Zenon DEF LastUpTo
<1>3. CASE q.start \notin Starts
  <2>1. Find(q) = Before(q.start)
    BY <1>3, Zenon DEF Find
  <2>2. \A m \in tree : m.start # q.start
    BY <1>3, Zenon DEF Starts
  <2>3. \A s \in Nat : /\ s # q.start => (s <= q.start <=> s < q.start)
                       /\ s # q.start /\ ~ (s < q.start) => q.start < s
    OBVIOUS
  <2> QED BY <1>1, <2>1, <2>2, <2>3, BeforeIs, Zenon DEF LastUpTo
<1> QED BY <1>2, <1>3

\* The node at the last start up to x, and the others on its left.
LEMMA LastIs ==
  ASSUME TreeOK(tree), NEW p, NEW x \in Nat, LastUpTo(tree, p, x)
  PROVE  /\ p = Null => \A m \in tree : x < m.start
         /\ p # Null => /\ p \in Nat /\ At(p) \in tree /\ At(p).start = p /\ p <= x
                        /\ \A m \in tree : m.start <= x /\ m # At(p) => m.end <= p
<1>1. ASSUME p = Null, NEW k \in tree, k.start = p PROVE FALSE
  <2>1. k.start \in Nat
    BY NodeTypes, Zenon
  <2> QED BY <1>1, <2>1 DEF Null
<1>2. CASE p = Null
  BY <1>1, <1>2, Zenon DEF LastUpTo
<1>3. CASE p # Null
  <2>1. PICK k \in tree : k.start = p /\ p <= x /\ \A m \in tree : m.start <= x => m.start <= p
    BY <1>3, Zenon DEF LastUpTo
  <2>2. At(p) = k /\ k.start \in Nat /\ k.end \in Nat /\ k.start < k.end
    BY <2>1, AtIs, NodeTypes, Zenon
  <2>3. \A m \in tree : m.start <= x /\ m # k => m.end <= p
    <3> SUFFICES ASSUME NEW m \in tree, m.start <= x, m # k PROVE m.end <= p
      BY Zenon
    <3>1. m.start \in Nat /\ m.end \in Nat /\ m.start < m.end
      BY NodeTypes, Zenon
    <3>2. m.start <= p /\ ~ Overlap(m, k)
      BY <2>1, Zenon DEF TreeOK
    <3> QED BY <2>1, <2>2, <3>1, <3>2 DEF Overlap
  <2> QED BY <1>3, <2>1, <2>2, <2>3, Zenon
<1> QED BY <1>2, <1>3

\* The node at the first start from y on, and the others on its right.
LEMMA FirstIs ==
  ASSUME TreeOK(tree), NEW p, NEW y \in Nat, FirstFrom(tree, p, y)
  PROVE  /\ p = Null => \A m \in tree : m.start < y
         /\ p # Null => /\ p \in Nat /\ At(p) \in tree /\ At(p).start = p /\ y <= p
                        /\ \A m \in tree : y <= m.start /\ m # At(p) => At(p).end <= m.start
<1>1. ASSUME p = Null, NEW k \in tree, k.start = p PROVE FALSE
  <2>1. k.start \in Nat
    BY NodeTypes, Zenon
  <2> QED BY <1>1, <2>1 DEF Null
<1>2. CASE p = Null
  BY <1>1, <1>2, Zenon DEF FirstFrom
<1>3. CASE p # Null
  <2>1. PICK k \in tree : k.start = p /\ y <= p /\ \A m \in tree : y <= m.start => p <= m.start
    BY <1>3, Zenon DEF FirstFrom
  <2>2. At(p) = k /\ k.start \in Nat /\ k.end \in Nat /\ k.start < k.end
    BY <2>1, AtIs, NodeTypes, Zenon
  <2>3. \A m \in tree : y <= m.start /\ m # k => k.end <= m.start
    <3> SUFFICES ASSUME NEW m \in tree, y <= m.start, m # k PROVE k.end <= m.start
      BY Zenon
    <3>1. m.start \in Nat /\ m.end \in Nat /\ m.start < m.end
      BY NodeTypes, Zenon
    <3>2. p <= m.start /\ ~ Overlap(m, k)
      BY <2>1, Zenon DEF TreeOK
    <3> QED BY <2>1, <2>2, <3>1, <3>2, SMTT(30) DEF Overlap
  <2> QED BY <1>3, <2>1, <2>2, <2>3, Zenon
<1> QED BY <1>2, <1>3, SMTT(30)

\* First picks the node with the least start.
LEMMA FirstPicks ==
  ASSUME NEW T, TreeOK(T), NEW B, B \subseteq T, NEW n \in B, \A m \in B : n.start <= m.start
  PROVE  First(B) = n
<1>1. First(B) \in B /\ \A m \in B : First(B).start <= m.start
  BY Zenon DEF First
<1>2. First(B).start \in Nat /\ n.start \in Nat
  BY <1>1, NodeTypes, Zenon
<1>3. First(B).start <= n.start /\ n.start <= First(B).start
  BY <1>1, Zenon
<1>4. First(B).start = n.start
  BY <1>2, <1>3
<1> QED BY <1>1, <1>4, SameStart, Zenon

\* What a reader's call must come to, by what it meets.
LEMMA AfterReaderIs ==
  ASSUME TreeOK(tree), NEW q
  PROVE  /\ \A n \in tree :
              /\ Overlap(n, q) /\ Blocks(n)
              /\ \A m \in tree : Overlap(m, q) /\ Blocks(m) => n.start <= m.start
              => AfterReader(q) = Flagged(n, "read_wanted")
         /\ \A n \in tree : Overlap(n, q) /\ (\A m \in tree : Overlap(m, q) => ~ Blocks(m))
              => AfterReader(q) = GrownBy(tree, q)
         /\ (\A m \in tree : ~ Overlap(m, q)) => AfterReader(q) = Inserted(q)
<1>1. Blocking(Meets(q)) = {m \in tree : Overlap(m, q) /\ Blocks(m)}
  BY Zenon DEF Blocking, Meets, Blocks
<1>2. Meets(q) = MeetIn(tree, q)
  BY Zenon DEF Meets, MeetIn
<1>3. ASSUME NEW n \in tree, Overlap(n, q), Blocks(n),
             \A m \in tree : Overlap(m, q) /\ Blocks(m) => n.start <= m.start
      PROVE  AfterReader(q) = Flagged(n, "read_wanted")
  <2>1. n \in Blocking(Meets(q)) /\ Blocking(Meets(q)) \subseteq tree
    BY <1>1, <1>3, Zenon
  <2>2. First(Blocking(Meets(q))) = n
    BY <1>1, <1>3, <2>1, FirstPicks, Zenon
  <2> QED BY <2>1, <2>2, Zenon DEF AfterReader
<1>4. ASSUME NEW n \in tree, Overlap(n, q), \A m \in tree : Overlap(m, q) => ~ Blocks(m)
      PROVE  AfterReader(q) = GrownBy(tree, q)
  <2>1. Blocking(Meets(q)) = {} /\ Meets(q) # {}
    BY <1>1, <1>2, <1>4, Zenon DEF MeetIn
  <2> QED BY <1>2, <2>1, Zenon DEF AfterReader, GrownBy
<1>5. ASSUME \A m \in tree : ~ Overlap(m, q) PROVE AfterReader(q) = Inserted(q)
  <2>1. Blocking(Meets(q)) = {} /\ Meets(q) = {}
    BY <1>1, <1>2, <1>5, Zenon DEF MeetIn
  <2> QED BY <2>1, Zenon DEF AfterReader
<1> QED BY <1>3, <1>4, <1>5, Zenon

-----------------------------------------------------------------------------
\* A request is a range and no free slot; what is in its parts.
LEMMA RequestIs ==
  ASSUME WalkConstants, NEW q \in Requests
  PROVE  /\ q.start \in Nat /\ q.end \in Nat /\ q.start < q.end /\ q # Free
         /\ q.type \in {"reader", "writer"}
         /\ Ahead(q, q.start) = q /\ UpTo(q, q.start) = Free /\ UpTo(q, q.end) = q
         /\ \A x : Ahead(q, x).start = x /\ Ahead(q, x).end = q.end
         /\ \A x : x # q.start => UpTo(q, x).start = q.start /\ UpTo(q, x).end = x
<1>1. q \in [start : Nat, end : Nat, type : {"reader", "writer"}] /\ q.start < q.end
  BY Zenon DEF WalkConstants
<1>2. /\ q.start \in Nat /\ q.end \in Nat /\ q.type \in {"reader", "writer"}
      /\ DOMAIN q = {"start", "end", "type"}
      /\ q = [k \in {"start", "end", "type"} |-> q[k]]
  BY <1>1, Zenon
<1>3. q # Free
  <2>1. Free.type = "none"
    BY Zenon DEF Free
  <2> QED BY <1>2, <2>1, Zenon
<1>4. q.start # q.end
  BY <1>1, <1>2
<1>5. Ahead(q, q.start) = q /\ UpTo(q, q.end) = q
  BY <1>2, <1>4, Zenon DEF Ahead, UpTo
<1>6. \A x : Ahead(q, x).start = x /\ Ahead(q, x).end = q.end
  BY <1>2, Zenon DEF Ahead
<1>7. \A x : x # q.start => UpTo(q, x).start = q.start /\ UpTo(q, x).end = x
  BY <1>2, Zenon DEF UpTo
<1> QED BY <1>1, <1>2, <1>3, <1>5, <1>6, <1>7, Zenon DEF UpTo

\* A free slot has no range.
LEMMA FreeIs ==
  /\ Free.start = 0 /\ Free.end = 0 /\ RangeOK(Free)
  /\ \A x \in Nat : ~ Contains(Free, x)
  /\ \A n : n.start \in Nat => ~ Overlap(n, Free)
<1>1. Free.start = 0 /\ Free.end = 0
  BY Zenon DEF Free
<1>2. RangeOK(Free)
  BY <1>1 DEF RangeOK
<1>3. \A x \in Nat : ~ Contains(Free, x)
  BY <1>1 DEF Contains
<1>4. \A n : n.start \in Nat => ~ Overlap(n, Free)
  BY <1>1 DEF Overlap
<1> QED BY <1>1, <1>2, <1>3, <1>4

\* A node from x to y takes a reader's range from x to y.
LEMMA UpToJoins ==
  ASSUME WalkConstants, NEW q \in Requests, NEW x \in Nat, NEW y \in Nat, q.start <= x, x < y,
         NEW a, a.start = x, a.end = y
  PROVE  Joins(UpTo(q, x), a, UpTo(q, y))
<1>1. q.start \in Nat /\ UpTo(q, q.start) = Free
  BY RequestIs, Zenon
<1>2. y # q.start
  BY <1>1
<1>3. UpTo(q, y).start = q.start /\ UpTo(q, y).end = y
  BY <1>2, RequestIs, ZenonT(60)
<1>4. CASE x = q.start
  BY <1>1, <1>3, <1>4, FreeIs, Zenon DEF Joins
<1>5. CASE x # q.start
  <2>1. UpTo(q, x).start = q.start /\ UpTo(q, x).end = x
    BY <1>5, RequestIs, ZenonT(60)
  <2>2. q.start < x
    BY <1>1, <1>5
  <2> QED BY <1>1, <1>3, <2>1, <2>2, Zenon DEF Joins
<1> QED BY <1>4, <1>5

\* A reader leaves a node from x to y.
LEMMA AheadJoins ==
  ASSUME WalkConstants, NEW q \in Requests, NEW x \in Nat, NEW y \in Nat, x < y,
         NEW a, a.start = x, a.end = y
  PROVE  /\ y < q.end => RangeOK(Ahead(q, y)) /\ Joins(Ahead(q, y), a, Ahead(q, x))
         /\ y = q.end => Joins(Free, a, Ahead(q, x))
<1>1. /\ q.end \in Nat /\ Ahead(q, x).start = x /\ Ahead(q, x).end = q.end
      /\ Ahead(q, y).start = y /\ Ahead(q, y).end = q.end
  BY RequestIs, SMT
<1>2. y < q.end => RangeOK(Ahead(q, y)) /\ Joins(Ahead(q, y), a, Ahead(q, x))
  BY <1>1, Zenon DEF Joins, RangeOK
<1>3. y = q.end => Joins(Free, a, Ahead(q, x))
  BY <1>1, FreeIs, Zenon DEF Joins
<1> QED BY <1>2, <1>3

\* Handles that differ in one slot.
LEMMA WithIs ==
  ASSUME NEW i \in Slots, held \in [Slots -> Requests \cup {Free}], NEW r, NEW s
  PROVE  /\ [held EXCEPT ![i] = r][i] = r
         /\ Only(i, [held EXCEPT ![i] = r], [held EXCEPT ![i] = s])
         /\ [held EXCEPT ![i] = held[i]] = held
  BY Zenon DEF Only

\* Writing a slot twice.
LEMMA WithTwice ==
  ASSUME NEW i \in Slots, held \in [Slots -> Requests \cup {Free}], NEW r, NEW s
  PROVE  [[held EXCEPT ![i] = r] EXCEPT ![i] = s] = [held EXCEPT ![i] = s]
  BY Zenon

\* What depends on the tree alone.
LEMMA Steady ==
  ASSUME tree' = tree
  PROVE  \A q : AfterReader(q)' = AfterReader(q) /\ Find(q)' = Find(q)
<1> SUFFICES ASSUME NEW q PROVE AfterReader(q)' = AfterReader(q) /\ Find(q)' = Find(q)
  BY Zenon
<1>1. Meets(q)' = Meets(q) /\ Starts' = Starts /\ Inserted(q)' = Inserted(q)
  BY Zenon DEF Meets, Starts, Inserted
<1>2. \A n, f : Flagged(n, f)' = Flagged(n, f)
  BY Zenon DEF Flagged
<1>3. Before(q.start)' = Before(q.start)
  <2> DEFINE Below(S) == {s \in S : s < q.start}
             Highest(B) == IF B = {} THEN Null ELSE CHOOSE s \in B : \A r \in B : r <= s
  <2>1. Before(q.start) = Highest(Below(Starts)) /\ Before(q.start)' = Highest(Below(Starts'))
    BY Zenon DEF Before
  <2> HIDE DEF Below, Highest
  <2> QED BY <1>1, <2>1, Zenon
<1>4. AfterReader(q)' = AfterReader(q)
  BY <1>1, <1>2, Zenon DEF AfterReader
<1>5. Find(q)' = Find(q)
  BY <1>1, <1>3, Zenon DEF Find
<1> QED BY <1>4, <1>5

\* A call that is over leaves what it must.
LEMMA Returned ==
  ASSUME loc' = "idle", held' \in [Slots -> Requests \cup {Free}], tree' = expected',
         Base(tree', held'), live' = Live(tree', held')
  PROVE  LoopInv'
  BY Zenon DEF LoopInv

\* wait_for_range.
LEMMA ParkStep ==
  ASSUME held \in [Slots -> Requests \cup {Free}], slot' \in Slots, NEW n \in tree,
         NEW f \in {"read_wanted", "write_wanted"}, f = "read_wanted" => Blocks(n),
         Base(tree, [held EXCEPT ![slot'] = Free]), live = Live(tree, [held EXCEPT ![slot'] = Free]),
         Park(n, f), expected' = Flagged(n, f)
  PROVE  LoopInv'
<1> DEFINE H == [held EXCEPT ![slot'] = Free]
<1>1. tree' = Flagged(n, f) /\ held' = H /\ loc' = "idle" /\ live' = live
  BY Zenon DEF Park, Return
<1>2. H \in [Slots -> Requests \cup {Free}]
  BY Zenon
<1> HIDE DEF H
<1>3. Base(Flagged(n, f), H) /\ Live(Flagged(n, f), H) = Live(tree, H)
  BY FlagKeeps, ZenonT(60) DEF Flagged, H
<1>4. live = Live(tree, H)
  BY Zenon DEF H
<1> QED BY <1>1, <1>2, <1>3, <1>4, Returned, Zenon

\* A handle without a range has no nodes.
LEMMA FreeShares ==
  ASSUME NEW T, TreeOK(T)
  PROVE  AllShared(T, Free)
  BY NodeTypes, FreeIs, Zenon DEF AllShared

\* insert_at: the handle's own node.
LEMMA InsertStep ==
  ASSUME WalkConstants, held \in [Slots -> Requests \cup {Free}], NEW i \in Slots,
         NEW q \in Requests,
         Base(tree, [held EXCEPT ![i] = Free]), live = Live(tree, [held EXCEPT ![i] = Free]),
         \A m \in tree : ~ Overlap(m, q), Insert(i, q), expected' = Inserted(q)
  PROVE  LoopInv'
<1> DEFINE H == [held EXCEPT ![i] = Free]
           K == [held EXCEPT ![i] = q]
           g == NewRange(q.start, q.end, q.type, FALSE)
<1>1. tree' = tree \cup {g} /\ held' = K /\ loc' = "idle" /\ live' = live \cup {i}
  BY Zenon DEF Insert, Inserted, Return
<1>2. K \in [Slots -> Requests \cup {Free}]
  BY Zenon
<1>3. H[i] = Free /\ K[i] = q /\ Only(i, H, K)
  BY WithIs, Zenon
<1>4. q.start \in Nat /\ q.end \in Nat /\ q.start < q.end /\ q.type \in {"reader", "writer"}
  BY RequestIs, Zenon
<1>5. g \in Nodes
  BY <1>4 DEF NewRange, Nodes
<1>6. /\ g.start = q.start /\ g.end = q.end /\ g.refs = 1 /\ ~ g.is_proxy
      /\ ~ g.read_wanted
  BY Zenon DEF NewRange
<1>7. expected' = tree \cup {g} /\ Base(tree, H) /\ live = Live(tree, H)
  BY Zenon DEF Inserted
<1> HIDE DEF H, K, g
<1>8. Sound(g)
  BY <1>6, Zenon DEF Sound
<1>9. Joins(H[i], g, K[i])
  BY <1>3, <1>4, <1>6, FreeIs, Zenon DEF Joins
<1>10. AllShared(tree, H[i])
  BY <1>3, <1>7, FreeShares, Zenon DEF Base
<1>11. \A m \in tree : ~ Overlap(m, g)
  BY <1>6, Zenon DEF Overlap
<1>12. g.start < g.end
  BY <1>4, <1>6, Zenon
<1>13. Base(tree \cup {g}, K) /\ Live(tree \cup {g}, K) = Live(tree, H) \cup {i}
  <2>1. ~ g.is_proxy => g.start = K[i].start /\ g.end = K[i].end
    BY <1>3, <1>6, Zenon
  <2>2. Fits(tree \cup {g}, K, IF g.is_proxy THEN Live(tree, H) ELSE Live(tree, H) \cup {i})
    BY <1>3, <1>5, <1>6, <1>7, <1>8, <1>9, <1>10, <1>11, <1>12, <2>1, AddKeeps, ZenonT(60)
  <2> QED BY <1>6, <2>2, Zenon DEF Fits
<1> QED BY <1>1, <1>2, <1>7, <1>13, Returned, Zenon

\* The program starts with no locks.
LEMMA WalkStarts ==
  ASSUME WalkConstants, Init
  PROVE  LoopInv
<1>1. tree = {} /\ held = [i \in Slots |-> Free] /\ live = {} /\ loc = "idle" /\ expected = {}
  BY Zenon DEF Init
<1>2. held \in [Slots -> Requests \cup {Free}] /\ \A i \in Slots : held[i] = Free
  BY <1>1, Zenon
<1>3. TreeOK({})
  BY Zenon DEF TreeOK
<1>4. HandlesOK({}, held)
  BY <1>2, FreeIs, Zenon DEF HandlesOK
<1>5. Live({}, held) = {}
  BY Zenon DEF Live
<1> QED BY <1>1, <1>2, <1>3, <1>4, <1>5, Zenon DEF LoopInv, Base

-----------------------------------------------------------------------------
\* lock_range_reader up to the for loop.
LEMMA LockReaderStep ==
  ASSUME WalkConstants, LoopInv, NEW i \in Slots, NEW q \in Requests, LockReader(i, q)
  PROVE  LoopInv'
<1> DEFINE p == Find(q)
           k == At(p)
<1>1. /\ loc = "idle" /\ held[i] = Free /\ slot' = i /\ expected' = AfterReader(q)
      /\ \/ tree = {} /\ Insert(i, q)
         \/ tree # {} /\ Covers(p, q.start) /\ Blocks(k) /\ Park(k, "read_wanted")
         \/ /\ ~ (Covers(p, q.start) /\ Blocks(k))
            /\ held' = [held EXCEPT ![i] = q]
            /\ loc' = IF Covers(p, q.start) /\ q.end < k.end THEN "got_lock" ELSE "scan"
            /\ prev' = p
            /\ next' = IF p # Null THEN After(p) ELSE NearestAfter(q)
            /\ tree' = tree /\ live' = live
  BY Zenon DEF LockReader
<1>2. held \in [Slots -> Requests \cup {Free}] /\ Base(tree, held) /\ live = Live(tree, held)
  BY <1>1, Zenon DEF LoopInv
<1>3. TreeOK(tree) /\ [held EXCEPT ![i] = Free] = held
  BY <1>1, <1>2, WithIs, Zenon DEF Base
<1>4. q.start \in Nat /\ q.end \in Nat /\ q.start < q.end
  BY RequestIs, Zenon
<1>5. LastUpTo(tree, p, q.start)
  BY <1>3, <1>4, FindIs, Zenon
<1>6. /\ p = Null => \A m \in tree : q.start < m.start
      /\ p # Null => /\ p \in Nat /\ k \in tree /\ k.start = p /\ p <= q.start
                     /\ \A m \in tree : m.start <= q.start /\ m # k => m.end <= p
  BY <1>3, <1>4, <1>5, LastIs, Zenon
<1> HIDE DEF p, k
<1>7. CASE tree = {} /\ Insert(i, q)
  <2>1. (\A m \in tree : ~ Overlap(m, q)) /\ AfterReader(q) = Inserted(q)
    BY <1>3, <1>7, AfterReaderIs, Zenon
  <2> QED BY <1>1, <1>2, <1>3, <1>7, <2>1, InsertStep, Zenon
<1>8. CASE Covers(p, q.start) /\ Blocks(k) /\ Park(k, "read_wanted")
  <2>1. p # Null /\ q.start < k.end
    BY <1>8, Zenon DEF Covers, k
  <2>2. k.start \in Nat /\ k.end \in Nat
    BY <1>3, <1>6, <2>1, NodeTypes, Zenon
  <2>3. Overlap(k, q)
    BY <1>4, <1>6, <2>1, <2>2, SMTT(30) DEF Overlap
  <2>4. \A m \in tree : Overlap(m, q) /\ Blocks(m) => k.start <= m.start
    <3> SUFFICES ASSUME NEW m \in tree, Overlap(m, q), m # k PROVE k.start <= m.start
      BY <2>2
    <3>1. m.start \in Nat /\ m.end \in Nat /\ (m.start <= q.start => m.end <= p)
      BY <1>3, <1>6, <2>1, NodeTypes, Zenon
    <3> QED BY <1>4, <1>6, <2>1, <3>1, SMTT(30) DEF Overlap
  <2>5. AfterReader(q) = Flagged(k, "read_wanted")
    BY <1>3, <1>6, <1>8, <2>1, <2>3, <2>4, AfterReaderIs, Zenon
  <2> QED BY <1>1, <1>2, <1>3, <1>6, <1>8, <2>1, <2>5, ParkStep, Zenon
<1>9. CASE /\ ~ (Covers(p, q.start) /\ Blocks(k))
           /\ held' = [held EXCEPT ![i] = q]
           /\ loc' = IF Covers(p, q.start) /\ q.end < k.end THEN "got_lock" ELSE "scan"
           /\ prev' = p
           /\ next' = IF p # Null THEN After(p) ELSE NearestAfter(q)
           /\ tree' = tree /\ live' = live
  <2>1. held' \in [Slots -> Requests \cup {Free}] /\ held'[slot'] = q
    BY <1>1, <1>2, <1>9, Zenon
  <2>2. [held' EXCEPT ![slot'] = Free] = held
    BY <1>1, <1>2, <1>3, <1>9, WithTwice, Zenon
  <2>3. Consistent(Free)'
    BY <1>2, <1>9, <2>2, Zenon DEF Consistent, With
  <2>4. expected' = AfterReader(q)' /\ prev' = Find(q)'
    BY <1>1, <1>9, Steady, Zenon DEF p
  <2>5. (p # Null /\ ~ (q.start < k.end)) \/ ~ Blocks(k) \/ p = Null
    BY <1>9, Zenon DEF Covers, k
  <2>6. CASE Covers(p, q.start) /\ q.end < k.end
    <3>1. p # Null /\ q.start < k.end /\ ~ Blocks(k) /\ loc' = "got_lock"
      BY <1>9, <2>6, Zenon DEF Covers, k
    <3>2. \A m \in tree : Overlap(m, q) => ~ Blocks(m)
      <4> SUFFICES ASSUME NEW m \in tree, Overlap(m, q), m # k PROVE FALSE
        BY <3>1, Zenon
      <4>1. /\ m.start \in Nat /\ m.end \in Nat /\ (m.start <= q.start => m.end <= p)
            /\ k.start \in Nat /\ k.end \in Nat /\ ~ Overlap(m, k) /\ m.start < m.end
            /\ k.start = p /\ p <= q.start
        BY <1>3, <1>6, <3>1, NodeTypes, Zenon DEF TreeOK
      <4> QED BY <1>4, <2>6, <3>1, <4>1, SMTT(30) DEF Overlap
    <3> QED BY <1>1, <1>9, <2>1, <2>3, <2>4, <3>1, <3>2, ZenonT(60) DEF LoopInv
  <2>7. CASE ~ (Covers(p, q.start) /\ q.end < k.end)
    <3>1. loc' = "scan"
      BY <1>9, <2>7, Zenon
    <3>2. q.start + 1 \in Nat /\ q.start < q.start + 1
      BY <1>4
    <3>3. \A m \in tree : m.start < q.start + 1 /\ Overlap(m, q) => ~ Blocks(m)
      <4> SUFFICES ASSUME NEW m \in tree, m.start < q.start + 1, Overlap(m, q), Blocks(m) PROVE FALSE
        BY Zenon
      <4>1. m.start \in Nat /\ m.end \in Nat /\ m.start < m.end
        BY <1>3, NodeTypes, Zenon
      <4>2. m.start <= q.start /\ q.start < m.end
        BY <1>4, <4>1, SMTT(30) DEF Overlap
      <4>3. p # Null
        BY <1>4, <1>6, <4>1, <4>2, SMTT(30)
      <4>4. m = k
        BY <1>4, <1>6, <4>1, <4>2, <4>3, SMTT(30)
      <4> QED BY <2>5, <4>2, <4>3, <4>4, Zenon
    <3>4. FirstFrom(tree, next', q.start + 1)
      <4>1. CASE p = Null
        <5>1. \A m \in tree : m.start # q.start
          <6> SUFFICES ASSUME NEW m \in tree PROVE m.start # q.start
            BY Zenon
          <6>1. m.start \in Nat /\ q.start < m.start
            BY <1>3, <1>6, <4>1, NodeTypes, Zenon
          <6> QED BY <1>4, <6>1
        <5>2. next' = After(q.start)
          BY <1>9, <4>1, <5>1, Zenon DEF NearestAfter, Starts
        <5> QED BY <1>3, <1>4, <5>2, AfterIs, Zenon
      <4>2. CASE p # Null
        <5>1. next' = After(p) /\ FirstFrom(tree, After(p), p + 1)
          BY <1>3, <1>6, <1>9, <4>2, AfterIs, Zenon
        <5>2. \A m \in tree : /\ m.start < p + 1 => m.start < q.start + 1
                              /\ p + 1 <= m.start <=> q.start + 1 <= m.start
          <6> SUFFICES ASSUME NEW m \in tree
                       PROVE  /\ m.start < p + 1 => m.start < q.start + 1
                              /\ p + 1 <= m.start <=> q.start + 1 <= m.start
            BY Zenon
          <6>1. /\ m.start \in Nat /\ m.end \in Nat /\ m.start < m.end /\ k.start = p
                /\ p \in Nat /\ p <= q.start /\ (m.start <= q.start /\ m # k => m.end <= p)
            BY <1>3, <1>6, <4>2, NodeTypes, Zenon
          <6> QED BY <1>4, <6>1
        <5> QED BY <5>1, <5>2, Zenon DEF FirstFrom
      <4> QED BY <4>1, <4>2
    <3>5. ScanInv(q, q.start + 1)'
      BY <1>9, <3>2, <3>3, <3>4, Zenon DEF ScanInv, Blocks
    <3> QED BY <1>1, <1>9, <2>1, <2>3, <2>4, <3>1, <3>2, <3>5, ZenonT(60) DEF LoopInv
  <2> QED BY <2>6, <2>7
<1> QED BY <1>1, <1>7, <1>8, <1>9, Zenon

\* An iteration of the for loop of lock_range_reader.
LEMMA ScanStep ==
  ASSUME WalkConstants, LoopInv, Scan
  PROVE  LoopInv'
<1> PICK q : q = held[slot]
  OBVIOUS
<1> DEFINE n == At(next)
<1>1. /\ loc = "scan" /\ slot' = slot /\ expected' = expected
      /\ \/ next # Null /\ n.start < q.end /\ Blocks(n) /\ Park(n, "read_wanted")
         \/ /\ next # Null => q.end <= n.start \/ (~ Blocks(n) /\ q.end <= n.end)
            /\ loc' = "got_lock"
            /\ tree' = tree /\ held' = held /\ live' = live /\ prev' = prev /\ next' = next
         \/ /\ next # Null /\ n.start < q.end /\ ~ Blocks(n) /\ n.end < q.end
            /\ next' = After(next)
            /\ tree' = tree /\ held' = held /\ live' = live /\ prev' = prev /\ loc' = loc
  BY Zenon DEF Scan
<1>2. /\ held \in [Slots -> Requests \cup {Free}] /\ slot \in Slots /\ q \in Requests
      /\ Consistent(Free) /\ expected = AfterReader(q) /\ prev = Find(q)
      /\ \E y \in Nat : ScanInv(q, y)
  BY <1>1, Zenon DEF LoopInv
<1>3. PICK y \in Nat : ScanInv(q, y)
  BY <1>2, Zenon
<1>4. /\ q.start < y /\ FirstFrom(tree, next, y)
      /\ \A m \in tree : m.start < y /\ Overlap(m, q) => ~ Blocks(m)
  BY <1>3, Zenon DEF ScanInv
<1>5. TreeOK(tree)
  BY <1>2, Zenon DEF Consistent, Base
<1>6. q.start \in Nat /\ q.end \in Nat /\ q.start < q.end
  BY <1>2, RequestIs, Zenon
<1>7. /\ next = Null => \A m \in tree : m.start < y
      /\ next # Null => /\ next \in Nat /\ n \in tree /\ n.start = next /\ y <= next
                        /\ \A m \in tree : y <= m.start /\ m # n => n.end <= m.start
  BY <1>4, <1>5, FirstIs, Zenon
<1>8. next # Null => n.end \in Nat /\ n.start < n.end
  BY <1>5, <1>7, NodeTypes, Zenon
<1> HIDE DEF n
<1>9. CASE next # Null /\ n.start < q.end /\ Blocks(n) /\ Park(n, "read_wanted")
  <2>1. Overlap(n, q)
    BY <1>4, <1>6, <1>7, <1>8, <1>9, SMTT(30) DEF Overlap
  <2>2. \A m \in tree : Overlap(m, q) /\ Blocks(m) => n.start <= m.start
    <3> SUFFICES ASSUME NEW m \in tree, Overlap(m, q), Blocks(m) PROVE n.start <= m.start
      BY Zenon
    <3>1. m.start \in Nat
      BY <1>5, NodeTypes, Zenon
    <3>2. ~ (m.start < y)
      BY <1>4, Zenon
    <3> QED BY <1>7, <1>8, <1>9, <3>1, <3>2, SMTT(30)
  <2>3. AfterReader(q) = Flagged(n, "read_wanted")
    BY <1>5, <1>7, <1>9, <2>1, <2>2, AfterReaderIs, Zenon
  <2>4. Base(tree, [held EXCEPT ![slot] = Free]) /\ live = Live(tree, [held EXCEPT ![slot] = Free])
    BY <1>2, Zenon DEF Consistent, With
  <2> QED BY <1>1, <1>2, <1>7, <1>9, <2>3, <2>4, ParkStep, ZenonT(60)
<1>10. ASSUME tree' = tree, held' = held, live' = live, prev' = prev
       PROVE  /\ held' \in [Slots -> Requests \cup {Free}] /\ slot' \in Slots
              /\ held'[slot'] = q /\ Consistent(Free)' /\ expected' = AfterReader(q)'
              /\ prev' = Find(q)'
  <2>1. expected' = AfterReader(q)' /\ prev' = Find(q)'
    BY <1>1, <1>2, <1>10, Steady, Zenon
  <2> QED BY <1>1, <1>2, <1>10, <2>1, Zenon DEF Consistent, With
<1>11. CASE /\ next # Null => q.end <= n.start \/ (~ Blocks(n) /\ q.end <= n.end)
            /\ loc' = "got_lock"
            /\ tree' = tree /\ held' = held /\ live' = live /\ prev' = prev /\ next' = next
  <2>1. \A m \in tree : Overlap(m, q) => ~ Blocks(m)
    <3> SUFFICES ASSUME NEW m \in tree, Overlap(m, q), Blocks(m) PROVE FALSE
      BY Zenon
    <3>1. m.start \in Nat /\ m.start < q.end /\ ~ (m.start < y)
      BY <1>4, <1>5, NodeTypes, Zenon DEF Overlap
    <3>2. next # Null
      BY <1>7, <3>1, Zenon
    <3>3. CASE m = n
      BY <1>6, <1>7, <1>11, <3>1, <3>2, <3>3, SMTT(30)
    <3>4. CASE m # n
      BY <1>6, <1>7, <1>8, <1>11, <3>1, <3>2, <3>4, SMTT(30)
    <3> QED BY <3>3, <3>4
  <2> QED BY <1>2, <1>10, <1>11, <2>1, Zenon DEF LoopInv
<1>12. CASE /\ next # Null /\ n.start < q.end /\ ~ Blocks(n) /\ n.end < q.end
            /\ next' = After(next)
            /\ tree' = tree /\ held' = held /\ live' = live /\ prev' = prev /\ loc' = loc
  <2>1. PICK z \in Nat : z = next + 1
    BY <1>7, <1>12
  <2>2. FirstFrom(tree, After(next), z)
    BY <1>5, <1>7, <1>12, <2>1, AfterIs, Zenon
  <2>3. q.start < z
    BY <1>4, <1>6, <1>7, <1>12, <2>1, SMTT(30)
  <2>4. \A m \in tree : m.start < z /\ Overlap(m, q) => ~ Blocks(m)
    <3> SUFFICES ASSUME NEW m \in tree, m.start < z, ~ (m.start < y) PROVE ~ Blocks(m)
      BY <1>4, Zenon
    <3>1. m.start \in Nat
      BY <1>5, NodeTypes, Zenon
    <3>2. m = n
      BY <1>7, <1>8, <1>12, <2>1, <3>1, SMTT(30)
    <3> QED BY <1>12, <3>2, Zenon
  <2>5. ScanInv(q, z)'
    BY <1>12, <2>2, <2>3, <2>4, Zenon DEF ScanInv, Blocks
  <2>6. loc' = "scan"
    BY <1>1, <1>12, Zenon
  <2> QED BY <1>2, <1>10, <1>12, <2>5, <2>6, Zenon DEF LoopInv
<1> QED BY <1>1, <1>9, <1>11, <1>12, Zenon

\* No overlaps: insert_at.
LEMMA InsertAtStep ==
  ASSUME WalkConstants, LoopInv, InsertAt
  PROVE  LoopInv'
<1> PICK q : q = held[slot]
  OBVIOUS
<1>1. loc = "insert" /\ Insert(slot, q) /\ expected' = expected
  BY Zenon DEF InsertAt
<1>2. /\ held \in [Slots -> Requests \cup {Free}] /\ slot \in Slots /\ q \in Requests
      /\ Consistent(Free) /\ expected = AfterReader(q) /\ \A m \in tree : ~ Overlap(m, q)
  BY <1>1, Zenon DEF LoopInv
<1>3. /\ Base(tree, [held EXCEPT ![slot] = Free])
      /\ live = Live(tree, [held EXCEPT ![slot] = Free]) /\ TreeOK(tree)
  BY <1>2, Zenon DEF Consistent, With, Base
<1>4. AfterReader(q) = Inserted(q)
  BY <1>2, <1>3, AfterReaderIs, Zenon
<1> QED BY <1>1, <1>2, <1>3, <1>4, InsertStep, Zenon

-----------------------------------------------------------------------------
\* add_reader goes on from x.
LEMMA ToWalk ==
  ASSUME NEW q \in Requests, NEW x \in Nat, NEW U, tree' = U, held' = held, slot' = slot,
         slot \in Slots, held \in [Slots -> Requests \cup {Free}], held[slot] = q, loc' = "walk",
         q.start <= x, x < q.end,
         Base(U, With(UpTo(q, x))), live' = Live(U, With(UpTo(q, x))), AllShared(U, UpTo(q, x)),
         expected' = GrownBy(U, Ahead(q, x)),
         \A n \in U : Overlap(n, Ahead(q, x)) => ~ Blocks(n),
         \A n \in U : n.start < x => n.end <= x,
         FirstFrom(U, next', x),
         (prev' = Null /\ next' = x) \/ \E p \in U : p.start = prev' /\ p.end = x
  PROVE  LoopInv'
<1>1. Consistent(UpTo(q, x))'
  BY Zenon DEF Consistent, With, UpTo, Free
<1>2. WalkInv(q, x)'
  BY <1>1, Zenon DEF WalkInv, Blocks
<1>3. held'[slot'] = q /\ held' \in [Slots -> Requests \cup {Free}]
  BY Zenon
<1> QED BY <1>2, <1>3, Zenon DEF LoopInv

\* range_proxify detaches the handle of the node it makes a proxy.
LEMMA DetachIs ==
  ASSUME held \in [Slots -> Requests \cup {Free}], slot \in Slots, NEW r, NEW T,
         live = Live(T, With(r)), slot \notin live, NEW n, Detach(n)
  PROVE  live' = Kept(T, With(r), n)
<1>1. \A j \in live : j \in Slots /\ j # slot
  BY Zenon DEF Live
<1>2. \A j \in live : With(r)[j] = held[j]
  BY <1>1, Zenon DEF With
<1>3. {j \in live : held[j].start # n.start} = {j \in live : With(r)[j].start # n.start}
  BY <1>2, Zenon
<1> QED BY <1>3, Zenon DEF Detach, Kept

\* A reader that shares all it has is not live.
LEMMA SharedNotLive ==
  ASSUME held \in [Slots -> Requests \cup {Free}], slot \in Slots, NEW r, NEW T, AllShared(T, r)
  PROVE  slot \notin Live(T, With(r))
<1>1. With(r)[slot] = r
  BY Zenon DEF With
<1> QED BY <1>1, Zenon DEF Live, AllShared

\* What a proxy of range_new_proxy is.
LEMMA ProxyIs ==
  ASSUME NEW s \in Nat, NEW e \in Nat
  PROVE  /\ Proxy(s, e) \in Nodes /\ Proxy(s, e).start = s /\ Proxy(s, e).end = e
         /\ Proxy(s, e).refs = 1 /\ Proxy(s, e).is_proxy /\ Sound(Proxy(s, e))
         /\ ~ Blocks(Proxy(s, e))
<1>1. Proxy(s, e) = Share(s, e, 1)
  BY Zenon DEF Proxy, NewRange, Share, Node
<1>2. 1 \in Nat
  OBVIOUS
<1>3. IsShare(Share(s, e, 1), s, e, 1)
  BY <1>2, ShareFields, Zenon
<1> QED BY <1>1, <1>3, Zenon DEF IsShare

\* range_new_proxy on the way: the gap in front of y is filled.
LEMMA FillKeeps ==
  ASSUME WalkConstants, NEW q \in Requests, held \in [Slots -> Requests \cup {Free}],
         slot \in Slots, NEW x \in Nat, NEW y \in Nat, q.start <= x, x < y,
         Base(tree, With(UpTo(q, x))), AllShared(tree, UpTo(q, x)),
         \A m \in tree : m.start < y => m.end <= x
  PROVE  LET U == tree \cup {Proxy(x, y)}
         IN  /\ Base(U, With(UpTo(q, y))) /\ AllShared(U, UpTo(q, y))
             /\ Live(U, With(UpTo(q, y))) = Live(tree, With(UpTo(q, x)))
<1> DEFINE g == Proxy(x, y)
           H == With(UpTo(q, x))
           K == With(UpTo(q, y))
<1>1. /\ g \in Nodes /\ g.start = x /\ g.end = y /\ g.refs = 1 /\ g.is_proxy /\ Sound(g)
  BY ProxyIs, Zenon
<1>2. H[slot] = UpTo(q, x) /\ K[slot] = UpTo(q, y) /\ Only(slot, H, K)
  BY WithIs, Zenon DEF With
<1>3. Joins(H[slot], g, K[slot])
  BY <1>1, <1>2, UpToJoins, Zenon
<1>4. TreeOK(tree) /\ RangeOK(UpTo(q, x))
  BY <1>2, Zenon DEF Base, HandlesOK
<1>5. \A m \in tree : ~ Overlap(m, g)
  <2> SUFFICES ASSUME NEW m \in tree PROVE ~ Overlap(m, g)
    BY Zenon
  <2>1. m.start \in Nat /\ m.end \in Nat /\ (m.start < y => m.end <= x)
    BY <1>4, NodeTypes, Zenon
  <2> QED BY <1>1, <2>1 DEF Overlap
<1>6. Base(tree \cup {g}, K) /\ Live(tree \cup {g}, K) = Live(tree, H)
  <2>1. AllShared(tree, H[slot]) /\ g.start < g.end
    BY <1>1, <1>2, Zenon
  <2> HIDE DEF g, H, K
  <2>2. Fits(tree \cup {g}, K, IF g.is_proxy THEN Live(tree, H) ELSE Live(tree, H) \cup {slot})
    BY <1>1, <1>2, <1>3, <1>5, <2>1, AddKeeps, Zenon DEF H
  <2> QED BY <1>1, <2>2, Zenon DEF Fits
<1>7. AllShared(tree \cup {g}, UpTo(q, y))
  <2> SUFFICES ASSUME NEW m \in tree, Overlap(m, UpTo(q, y)) PROVE m.is_proxy
    BY <1>1, Zenon DEF AllShared
  <2>1. m.start \in Nat /\ m.end \in Nat /\ m.start < m.end /\ ~ Overlap(m, g)
    BY <1>4, <1>5, NodeTypes, Zenon
  <2>2. g.start \in Nat /\ g.end \in Nat /\ g.start < g.end /\ Joins(UpTo(q, x), g, UpTo(q, y))
    BY <1>1, <1>2, <1>3, Zenon
  <2> HIDE DEF g
  <2>3. Overlap(m, UpTo(q, x))
    BY <1>4, <2>1, <2>2, JoinBeside, Zenon
  <2> QED BY <2>3, Zenon DEF AllShared
<1> QED BY <1>6, <1>7, Zenon

-----------------------------------------------------------------------------
\* add_reader before its loop: the range before q is cut at q's start, or the gap in
\* front of the first range is filled.
LEMMA AddReaderStep ==
  ASSUME WalkConstants, LoopInv, AddReader
  PROVE  LoopInv'
<1> PICK q : q = held[slot]
  OBVIOUS
<1> DEFINE k == At(prev)
           cov == Covers(prev, q.start)
           cut == cov /\ k.start # q.start
           T == IF cut THEN (tree \ {k}) \cup {FrontOf(k, q.start), RearOf(k, q.start)} ELSE tree
           n == IF cov THEN q.start ELSE NearestAfter(q)
<1>1. /\ loc = "got_lock" /\ prev' = Null /\ next' = n /\ held' = held /\ slot' = slot
      /\ expected' = expected
      /\ IF cut THEN Detach(k) ELSE live' = live
      /\ \/ (n = Null \/ q.end <= n) /\ loc' = "insert" /\ tree' = T
         \/ /\ n # Null /\ n < q.end /\ loc' = "walk"
            /\ tree' = IF q.start < n THEN T \cup {Proxy(q.start, n)} ELSE T
  BY Zenon DEF AddReader
<1>2. /\ held \in [Slots -> Requests \cup {Free}] /\ slot \in Slots /\ q \in Requests
      /\ Consistent(Free) /\ expected = AfterReader(q) /\ prev = Find(q)
      /\ \A m \in tree : Overlap(m, q) => ~ Blocks(m)
  BY <1>1, Zenon DEF LoopInv
<1>3. /\ TreeOK(tree) /\ Base(tree, With(Free)) /\ live = Live(tree, With(Free))
      /\ AllShared(tree, Free) /\ slot \notin live
  BY <1>2, FreeShares, SharedNotLive, Zenon DEF Consistent, Base
<1>4. /\ q.start \in Nat /\ q.end \in Nat /\ q.start < q.end /\ UpTo(q, q.start) = Free
      /\ Ahead(q, q.start) = q
  BY <1>2, RequestIs, Zenon
<1>5. q.start <= q.start /\ q.start # Null /\ ~ (q.end <= q.start) /\ ~ (q.start < q.start)
  BY <1>4 DEF Null
<1>6. /\ prev = Null => \A m \in tree : q.start < m.start
      /\ prev # Null => /\ prev \in Nat /\ k \in tree /\ k.start = prev /\ prev <= q.start
                        /\ \A m \in tree : m.start <= q.start /\ m # k => m.end <= prev
  BY <1>2, <1>3, <1>4, FindIs, LastIs, Zenon
<1>7. cov <=> prev # Null /\ q.start < k.end
  BY Zenon DEF Covers
<1> HIDE DEF k, cov
<1>8. CASE cov
  <2>1. /\ prev # Null /\ q.start < k.end /\ prev \in Nat /\ k \in tree /\ k.start = prev
        /\ prev <= q.start /\ \A m \in tree : m.start <= q.start /\ m # k => m.end <= prev
    BY <1>6, <1>7, <1>8, Zenon
  <2>2. n = q.start /\ loc' = "walk" /\ tree' = T
    BY <1>1, <1>5, <1>8, Zenon
  <2>3. /\ k \in Nodes /\ k.start \in Nat /\ k.end \in Nat /\ k.start < k.end /\ k.refs \in Nat
        /\ Sound(k)
    BY <1>3, <2>1, NodeTypes, Zenon
  <2>4. Overlap(k, q)
    BY <1>4, <2>1, <2>3, SMTT(30) DEF Overlap
  <2>5. expected = GrownBy(tree, q) /\ ~ Blocks(k)
    BY <1>2, <1>3, <2>1, <2>4, AfterReaderIs, Zenon
  <2>6. \A m \in tree : m # k /\ m.start < q.start => m.end <= q.start
    <3> SUFFICES ASSUME NEW m \in tree, m # k, m.start < q.start PROVE m.end <= q.start
      BY Zenon
    <3>1. m.start \in Nat /\ m.end \in Nat
      BY <1>3, NodeTypes, Zenon
    <3>2. m.start <= q.start => m.end <= prev
      BY <2>1, Zenon
    <3> QED BY <1>4, <2>1, <3>1, <3>2, SMTT(30)
  <2>7. CASE k.start = q.start
    <3>1. T = tree /\ live' = live
      BY <1>1, <2>7, Zenon
    <3>2. ~ (k.start < q.start)
      BY <1>5, <2>7, Zenon
    <3>3. \A m \in tree : m.start < q.start => m.end <= q.start
      BY <2>6, <3>2, Zenon
    <3>4. FirstFrom(tree, q.start, q.start)
      BY <1>5, <2>1, <2>7, Zenon DEF FirstFrom
    <3> HIDE DEF T, n
    <3> QED BY <1>1, <1>2, <1>3, <1>4, <1>5, <2>2, <2>5, <3>1, <3>3, <3>4, ToWalk, ZenonT(60)
  <2>8. CASE k.start # q.start
    <3> DEFINE a == Share(k.start, q.start, k.refs)
               b == Share(q.start, k.end, k.refs)
               U == (tree \ {k}) \cup {a, b}
    <3>1. FrontOf(k, q.start) = a /\ RearOf(k, q.start) = b
      BY <1>4, <2>3, <2>5, PartsAreShares, Zenon
    <3>2. T = U /\ Detach(k)
      BY <1>1, <1>8, <2>8, <3>1, Zenon
    <3>3. k.start < q.start
      BY <1>4, <2>1, <2>3, <2>8, SMTT(30)
    <3>4. Base(U, With(Free)) /\ Live(U, With(Free)) = Kept(tree, With(Free), k)
      BY <1>3, <1>4, <2>1, <2>5, <3>3, SplitKeeps, ZenonT(60)
    <3>5. live' = Live(U, With(Free))
      BY <1>2, <1>3, <3>2, <3>4, DetachIs, ZenonT(60)
    <3>6. GrownBy(U, q) = GrownBy(tree, q)
      BY <1>3, <1>4, <2>1, <2>5, <3>3, GrownCut, SMTT(30)
    <3>7. /\ a.start = k.start /\ a.end = q.start /\ b.start = q.start /\ b.end = k.end
          /\ ~ Blocks(a) /\ ~ Blocks(b)
      <4>1. IsShare(a, k.start, q.start, k.refs) /\ IsShare(b, q.start, k.end, k.refs)
        BY <1>4, <2>3, ShareFields, Zenon
      <4> HIDE DEF a, b
      <4> QED BY <4>1, Zenon DEF IsShare
    <3> HIDE DEF a, b
    <3>8. \A m \in U : Overlap(m, q) => ~ Blocks(m)
      BY <1>2, <3>7, Zenon
    <3>9. \A m \in U : m.start < q.start => m.end <= q.start
      BY <1>5, <2>6, <3>7, Zenon
    <3>10. b \in U
      BY Zenon
    <3>11. FirstFrom(U, q.start, q.start)
      BY <1>5, <3>7, <3>10, Zenon DEF FirstFrom
    <3>12. AllShared(U, Free)
      BY <3>4, FreeShares, Zenon DEF Base
    <3> HIDE DEF T, n, U
    <3> QED BY <1>1, <1>2, <1>4, <1>5, <2>2, <2>5, <3>2, <3>4, <3>5, <3>6, <3>8, <3>9, <3>11,
               <3>12, ToWalk, ZenonT(60)
  <2> QED BY <2>7, <2>8
<1>9. CASE ~ cov
  <2>1. T = tree /\ live' = live
    BY <1>1, <1>9, Zenon
  <2>2. \A m \in tree : m.start <= q.start => m.end <= q.start
    <3> SUFFICES ASSUME NEW m \in tree, m.start <= q.start PROVE m.end <= q.start
      BY Zenon
    <3>1. m.start \in Nat /\ m.end \in Nat
      BY <1>3, NodeTypes, Zenon
    <3>2. CASE prev = Null
      BY <1>4, <1>6, <3>1, <3>2, SMTT(30)
    <3>3. CASE prev # Null /\ m = k
      BY <1>4, <1>7, <1>9, <3>1, <3>3, SMTT(30)
    <3>4. CASE prev # Null /\ m # k
      BY <1>4, <1>6, <3>1, <3>4, SMTT(30)
    <3> QED BY <3>2, <3>3, <3>4, SMTT(30)
  <2>3. \A m \in tree : m.start # q.start
    <3> SUFFICES ASSUME NEW m \in tree, m.start = q.start PROVE FALSE
      BY Zenon
    <3>1. m.start \in Nat /\ m.end \in Nat /\ m.start < m.end /\ m.end <= q.start
      BY <1>3, <1>5, <2>2, NodeTypes, Zenon
    <3> QED BY <3>1
  <2>4. n = After(q.start)
    BY <1>9, <2>3, Zenon DEF NearestAfter, Starts
  <2>5. FirstFrom(tree, n, q.start + 1)
    BY <1>3, <1>4, <2>4, AfterIs, ZenonT(60)
  <2> HIDE DEF T, n
  <2>6. q.start + 1 \in Nat
    BY <1>4
  <2>7. /\ n = Null => \A m \in tree : m.start < q.start + 1
        /\ n # Null => /\ n \in Nat /\ At(n) \in tree /\ At(n).start = n /\ q.start + 1 <= n
                       /\ \A m \in tree : q.start + 1 <= m.start /\ m # At(n) => At(n).end <= m.start
    BY <1>3, <2>5, <2>6, FirstIs, Zenon
  <2>8. n # Null => \A m \in tree : m.start < n => m.end <= q.start
    <3> SUFFICES ASSUME n # Null, NEW m \in tree, m.start < n PROVE m.end <= q.start
      BY Zenon
    <3>1. /\ m.start \in Nat /\ m.end \in Nat /\ At(n).end \in Nat /\ At(n).start < At(n).end
          /\ n \in Nat /\ At(n).start = n
      BY <1>3, <2>7, NodeTypes, Zenon
    <3>2. CASE m.start <= q.start
      BY <2>2, <3>2, Zenon
    <3>3. CASE ~ (m.start <= q.start)
      <4>1. q.start + 1 <= m.start /\ m # At(n)
        BY <1>4, <3>1, <3>3, SMTT(30)
      <4>2. At(n).end <= m.start
        BY <2>7, <4>1, Zenon
      <4> QED BY <3>1, <4>2, SMTT(30)
    <3> QED BY <3>2, <3>3, SMTT(30)
  <2>9. CASE (n = Null \/ q.end <= n) /\ loc' = "insert" /\ tree' = T
    <3>1. \A m \in tree : ~ Overlap(m, q)
      <4> SUFFICES ASSUME NEW m \in tree PROVE ~ Overlap(m, q)
        BY Zenon
      <4>1. m.start \in Nat /\ m.end \in Nat /\ (m.start <= q.start => m.end <= q.start)
        BY <1>3, <2>2, NodeTypes, Zenon
      <4>2. CASE n = Null
        <5>1. m.start < q.start + 1
          BY <2>7, <4>2, Zenon
        <5> QED BY <1>4, <4>1, <5>1, SMTT(30) DEF Overlap
      <4>3. CASE n # Null
        <5>1. n \in Nat /\ (m.start < n => m.end <= q.start) /\ q.end <= n
          BY <2>7, <2>8, <2>9, <4>3, Zenon
        <5> QED BY <1>4, <4>1, <5>1, SMTT(30) DEF Overlap
      <4> QED BY <4>2, <4>3
    <3>2. tree' = tree
      BY <2>1, <2>9, Zenon
    <3>3. Consistent(Free)'
      BY <1>1, <1>2, <2>1, <3>2, Zenon DEF Consistent, With
    <3>4. expected' = AfterReader(q)'
      BY <1>1, <1>2, <3>2, Steady, Zenon
    <3>5. held'[slot'] = q
      BY <1>1, Zenon
    <3> QED BY <1>1, <1>2, <2>9, <3>1, <3>2, <3>3, <3>4, <3>5, ZenonT(60) DEF LoopInv
  <2>10. CASE /\ n # Null /\ n < q.end /\ loc' = "walk"
              /\ tree' = IF q.start < n THEN T \cup {Proxy(q.start, n)} ELSE T
    <3> PICK x : x = n
      OBVIOUS
    <3> DEFINE g == Proxy(q.start, x)
               U == tree \cup {g}
               h == At(x)
    <3>1. x \in Nat /\ h \in tree /\ h.start = x /\ q.start + 1 <= x /\ x < q.end
      BY <2>7, <2>10, Zenon
    <3> HIDE DEF h
    <3>2. q.start < x /\ q.start <= x /\ x <= x
      BY <1>4, <3>1, SMTT(30)
    <3>3. tree' = U
      BY <2>1, <2>10, <3>2, Zenon
    <3>4. g.start = q.start /\ g.end = x /\ ~ Blocks(g)
      BY <1>4, <3>1, ProxyIs, ZenonT(60)
    <3>5. \A m \in tree : m.start < x => m.end <= q.start
      BY <2>8, <2>10, Zenon
    <3>6. /\ Base(U, With(UpTo(q, x))) /\ AllShared(U, UpTo(q, x))
          /\ Live(U, With(UpTo(q, x))) = Live(tree, With(UpTo(q, q.start)))
      BY <1>2, <1>3, <1>4, <1>5, <3>1, <3>2, <3>5, FillKeeps, ZenonT(60)
    <3>7. h.end \in Nat /\ h.start < h.end
      BY <1>3, <3>1, NodeTypes, Zenon
    <3>8. Overlap(h, q)
      BY <1>4, <3>1, <3>2, <3>7 DEF Overlap
    <3>9. expected = GrownBy(tree, q)
      BY <1>2, <1>3, <3>1, <3>8, AfterReaderIs, ZenonT(60)
    <3>10. Ahead(q, x).start = x /\ Ahead(q, x).end = q.end
      BY <1>2, RequestIs, SMTT(30)
    <3>11. RestOf(q, Ahead(q, x))
      BY <1>4, <3>1, <3>2, <3>10, ZenonT(60) DEF RestOf
    <3>12. GrownBy(U, Ahead(q, x)) = GrownBy(tree, q)
      BY <1>3, <3>1, <3>2, <3>5, <3>10, <3>11, GrownGap, SMTT(30)
    <3> HIDE DEF g
    <3>13. \A m \in U : Overlap(m, Ahead(q, x)) => ~ Blocks(m)
      <4> SUFFICES ASSUME NEW m \in tree, Overlap(m, Ahead(q, x)) PROVE ~ Blocks(m)
        BY <3>4, Zenon
      <4>1. m.start \in Nat /\ m.end \in Nat
        BY <1>3, NodeTypes, Zenon
      <4>2. Overlap(m, q)
        BY <1>4, <3>1, <3>2, <3>10, <4>1, SMTT(30) DEF Overlap
      <4> QED BY <1>2, <4>2, Zenon
    <3>14. \A m \in U : m.start < x => m.end <= x
      <4> SUFFICES ASSUME NEW m \in tree, m.start < x PROVE m.end <= x
        BY <3>2, <3>4, Zenon
      <4>1. m.end \in Nat /\ m.end <= q.start
        BY <1>3, <3>5, NodeTypes, Zenon
      <4> QED BY <1>4, <3>1, <3>2, <4>1, SMTT(30)
    <3>15. FirstFrom(U, x, x)
      BY <3>1, <3>2, ZenonT(60) DEF FirstFrom
    <3> HIDE DEF U
    <3> QED BY <1>1, <1>2, <1>3, <1>4, <2>1, <2>10, <3>1, <3>2, <3>3, <3>6, <3>9, <3>12, <3>13,
               <3>14, <3>15, ToWalk, ZenonT(60)
  <2> QED BY <1>1, <2>9, <2>10, Zenon
<1> QED BY <1>8, <1>9

-----------------------------------------------------------------------------
\* Where add_reader is, in front of a node: the gap there, if any, is filled.
LEMMA WalkGap ==
  ASSUME WalkConstants, NEW q \in Requests, held \in [Slots -> Requests \cup {Free}],
         slot \in Slots, NEW x \in Nat, WalkInv(q, x), next # Null, next < q.end
  PROVE  LET n == At(next)
             gap == IF prev # Null /\ At(prev).end < n.start
                      THEN {Proxy(At(prev).end, n.start)} ELSE {}
             T == tree \cup gap
         IN  /\ Base(T, With(UpTo(q, next))) /\ Live(T, With(UpTo(q, next))) = live
             /\ AllShared(T, UpTo(q, next)) /\ expected = GrownBy(T, Ahead(q, next))
             /\ next \in Nat /\ q.start <= next /\ n \in tree /\ n.start = next /\ n \notin gap
             /\ \A m \in T : Overlap(m, Ahead(q, next)) => ~ Blocks(m)
             /\ \A m \in T : m.start < next => m.end <= next
             /\ \A m \in gap : m.start < next
             /\ \A m \in tree : next <= m.start /\ m # n => n.end <= m.start
<1> PICK y : y = next
  OBVIOUS
<1> DEFINE n == At(y)
           gap == IF prev # Null /\ At(prev).end < n.start THEN {Proxy(At(prev).end, n.start)} ELSE {}
           T == tree \cup gap
<1>1. /\ q.start <= x /\ x < q.end
      /\ Base(tree, With(UpTo(q, x))) /\ live = Live(tree, With(UpTo(q, x)))
      /\ AllShared(tree, UpTo(q, x)) /\ expected = GrownBy(tree, Ahead(q, x))
      /\ \A m \in tree : Overlap(m, Ahead(q, x)) => ~ Blocks(m)
      /\ \A m \in tree : m.start < x => m.end <= x
      /\ FirstFrom(tree, y, x)
      /\ (prev = Null /\ y = x) \/ \E p \in tree : p.start = prev /\ p.end = x
  BY Zenon DEF WalkInv, Consistent
<1>2. TreeOK(tree) /\ q.start \in Nat /\ q.end \in Nat
  BY <1>1, RequestIs, Zenon DEF Base
<1>3. /\ y \in Nat /\ n \in tree /\ n.start = y /\ x <= y
      /\ \A m \in tree : x <= m.start /\ m # n => n.end <= m.start
  BY <1>1, <1>2, FirstIs, Zenon
<1>4. n.end \in Nat /\ n.start < n.end /\ y < q.end
  BY <1>2, <1>3, NodeTypes, Zenon
<1> HIDE DEF n
<1>5. q.start <= y
  BY <1>1, <1>2, <1>3, SMTT(30)
<1>6. \A m \in tree : y <= m.start /\ m # n => n.end <= m.start
  <2> SUFFICES ASSUME NEW m \in tree, y <= m.start, m # n PROVE n.end <= m.start
    BY Zenon
  <2>1. m.start \in Nat
    BY <1>2, NodeTypes, Zenon
  <2>2. x <= m.start
    BY <1>3, <2>1, SMTT(30)
  <2> QED BY <1>3, <2>2, Zenon
<1>7. \A m \in tree : m.start < y => m.end <= x
  <2> SUFFICES ASSUME NEW m \in tree, m.start < y PROVE m.end <= x
    BY Zenon
  <2>1. m.start \in Nat /\ m.end \in Nat
    BY <1>2, NodeTypes, Zenon
  <2>2. CASE m.start < x
    BY <1>1, <2>2, Zenon
  <2>3. CASE ~ (m.start < x)
    <3>1. m # n /\ x <= m.start
      BY <1>3, <2>1, <2>3, SMTT(30)
    <3>2. n.end <= m.start
      BY <1>3, <3>1, Zenon
    <3> QED BY <1>3, <1>4, <2>1, <3>2, SMTT(30)
  <2> QED BY <2>2, <2>3
<1>8. \A m \in tree : m.start < y => m.end <= y
  <2> SUFFICES ASSUME NEW m \in tree, m.start < y PROVE m.end <= y
    BY Zenon
  <2>1. m.end \in Nat /\ m.end <= x
    BY <1>2, <1>7, NodeTypes, Zenon
  <2> QED BY <1>3, <2>1
<1>9. /\ Ahead(q, x).start = x /\ Ahead(q, x).end = q.end
      /\ Ahead(q, y).start = y /\ Ahead(q, y).end = q.end
  BY RequestIs, SMT
<1>10. \A m \in tree : Overlap(m, Ahead(q, y)) => ~ Blocks(m)
  <2> SUFFICES ASSUME NEW m \in tree, Overlap(m, Ahead(q, y)) PROVE ~ Blocks(m)
    BY Zenon
  <2>1. m.start \in Nat /\ m.end \in Nat
    BY <1>2, NodeTypes, Zenon
  <2>2. Overlap(m, Ahead(q, x))
    BY <1>2, <1>3, <1>9, <2>1, SMTT(30) DEF Overlap
  <2> QED BY <1>1, <2>2, Zenon
<1>11. prev # Null => At(prev).end = x
  <2>1. prev # Null => \E p \in tree : p.start = prev /\ p.end = x
    BY <1>1, Zenon
  <2> QED BY <1>2, <2>1, AtIs, Zenon
<1>12. CASE x = y
  <2>1. ~ (x < n.start)
    BY <1>3, <1>12
  <2>2. gap = {}
    BY <1>11, <2>1, Zenon
  <2>3. T = tree
    BY <2>2, Zenon
  <2> HIDE DEF T, gap
  <2>4. /\ Base(T, With(UpTo(q, y))) /\ Live(T, With(UpTo(q, y))) = live
        /\ AllShared(T, UpTo(q, y)) /\ expected = GrownBy(T, Ahead(q, y))
    BY <1>1, <1>12, <2>3, Zenon
  <2> QED BY <1>3, <1>5, <1>6, <1>8, <1>10, <2>2, <2>3, <2>4, ZenonT(60) DEF T, gap, n
<1>13. CASE x # y
  <2>1. x < y
    BY <1>3, <1>13, SMTT(30)
  <2>2. prev # Null
    <3>1. ASSUME NEW p \in tree, p.start = prev PROVE prev # Null
      <4>1. prev \in Nat
        BY <1>2, <3>1, NodeTypes, Zenon
      <4> QED BY <4>1 DEF Null
    <3> QED BY <1>1, <1>13, <3>1, Zenon
  <2>3. gap = {Proxy(x, y)}
    BY <1>3, <1>11, <2>1, <2>2, Zenon
  <2> DEFINE g == Proxy(x, y)
  <2>4. g.start = x /\ g.end = y /\ ~ Blocks(g)
    BY <1>3, ProxyIs, Zenon
  <2>5. T = tree \cup {g}
    BY <2>3, Zenon
  <2>6. /\ Base(tree \cup {g}, With(UpTo(q, y))) /\ AllShared(tree \cup {g}, UpTo(q, y))
        /\ Live(tree \cup {g}, With(UpTo(q, y))) = live
    BY <1>1, <1>3, <1>7, <2>1, FillKeeps, Zenon
  <2>7. RestOf(Ahead(q, x), Ahead(q, y))
    BY <1>2, <1>3, <1>9, Zenon DEF RestOf
  <2>8. GrownBy(tree \cup {g}, Ahead(q, y)) = GrownBy(tree, Ahead(q, x))
    BY <1>2, <1>3, <1>4, <1>7, <1>9, <2>1, <2>7, GrownGap, SMTT(30)
  <2>9. n # g
    BY <1>3, <2>4, <1>13, Zenon
  <2>10. y <= y
    BY <1>3
  <2> HIDE DEF g, gap, T
  <2>11. \A m \in T : m.start < y => m.end <= y
    BY <1>8, <2>4, <2>5, <2>10, Zenon
  <2>12. \A m \in T : Overlap(m, Ahead(q, y)) => ~ Blocks(m)
    BY <1>10, <2>4, <2>5, Zenon
  <2>13. n \notin gap /\ \A m \in gap : m.start < y
    BY <2>1, <2>3, <2>4, <2>9, Zenon DEF g
  <2>14. /\ Base(T, With(UpTo(q, y))) /\ Live(T, With(UpTo(q, y))) = live
         /\ AllShared(T, UpTo(q, y)) /\ expected = GrownBy(T, Ahead(q, y))
    BY <1>1, <2>5, <2>6, <2>8, Zenon
  <2> QED BY <1>3, <1>5, <1>6, <2>11, <2>12, <2>13, <2>14, ZenonT(60) DEF T, gap, n
<1> QED BY <1>12, <1>13, Zenon

\* add_reader has passed the last node it meets: the rest of the range is free, and
\* not empty.
LEMMA WalkEnds ==
  ASSUME WalkConstants, NEW q \in Requests, held \in [Slots -> Requests \cup {Free}],
         slot \in Slots, NEW x \in Nat, WalkInv(q, x), next = Null \/ q.end <= next
  PROVE  /\ \A m \in tree : ~ Overlap(m, Ahead(q, x))
         /\ prev # Null /\ At(prev).end = x /\ x # q.end
<1>1. /\ q.start <= x /\ x < q.end /\ TreeOK(tree)
      /\ \A m \in tree : m.start < x => m.end <= x
      /\ FirstFrom(tree, next, x)
      /\ (prev = Null /\ next = x) \/ \E p \in tree : p.start = prev /\ p.end = x
  BY Zenon DEF WalkInv, Consistent, Base
<1>2. q.start \in Nat /\ q.end \in Nat /\ Ahead(q, x).start = x /\ Ahead(q, x).end = q.end
  BY RequestIs, SMT
<1>3. /\ next = Null => \A m \in tree : m.start < x
      /\ next # Null => /\ next \in Nat /\ At(next) \in tree /\ At(next).start = next
                        /\ \A m \in tree : x <= m.start /\ m # At(next) => At(next).end <= m.start
  BY <1>1, FirstIs, Zenon
<1>4. \A m \in tree : ~ Overlap(m, Ahead(q, x))
  <2> SUFFICES ASSUME NEW m \in tree PROVE ~ Overlap(m, Ahead(q, x))
    BY Zenon
  <2>1. m.start \in Nat /\ m.end \in Nat /\ (m.start < x => m.end <= x)
    BY <1>1, NodeTypes, Zenon
  <2>2. CASE next = Null
    <3>1. m.start < x
      BY <1>3, <2>2, Zenon
    <3> QED BY <1>2, <2>1, <3>1, SMTT(30) DEF Overlap
  <2>3. CASE next # Null
    <3>1. /\ next \in Nat /\ q.end <= next /\ At(next).start = next
          /\ At(next).end \in Nat /\ At(next).start < At(next).end
          /\ x <= m.start /\ m # At(next) => At(next).end <= m.start
      BY <1>1, <1>3, <2>3, NodeTypes, Zenon
    <3> QED BY <1>2, <2>1, <3>1, SMTT(30) DEF Overlap
  <2> QED BY <2>2, <2>3
<1>5. ~ (next = x)
  BY <1>1, <1>2 DEF Null
<1>6. PICK p \in tree : p.start = prev /\ p.end = x
  BY <1>1, <1>5, Zenon
<1>7. prev \in Nat /\ At(prev) = p
  BY <1>1, <1>6, NodeTypes, AtIs, Zenon
<1>8. prev # Null /\ x # q.end
  BY <1>1, <1>2, <1>7, SMTT(30) DEF Null
<1> QED BY <1>4, <1>6, <1>7, <1>8, Zenon

\* An iteration of the loop of add_reader, or what follows the loop.
LEMMA WalkStep ==
  ASSUME WalkConstants, LoopInv, Walk
  PROVE  LoopInv'
<1> PICK q : q = held[slot]
  OBVIOUS
<1> PICK y : y = next
  OBVIOUS
<1> DEFINE n == At(y)
           gap == IF prev # Null /\ At(prev).end < n.start THEN {Proxy(At(prev).end, n.start)} ELSE {}
           others == (tree \ {n}) \cup gap
           T == tree \cup gap
<1>1. /\ loc = "walk" /\ held' = held /\ slot' = slot /\ expected' = expected
      /\ \/ /\ y = Null \/ q.end <= y
            /\ tree' = tree \cup {Proxy(At(prev).end, q.end)} /\ loc' = "idle" /\ live' = live
         \/ /\ y # Null /\ y < q.end /\ q.end = n.end
            /\ tree' = others \cup {Bumped(Proxified(n))} /\ Detach(n) /\ loc' = "idle"
         \/ /\ y # Null /\ y < q.end /\ q.end < n.end
            /\ tree' = others \cup {Bumped(FrontOf(n, q.end)), RearOf(n, q.end)}
            /\ Detach(n) /\ loc' = "idle"
         \/ /\ y # Null /\ y < q.end /\ n.end < q.end
            /\ tree' = others \cup {Bumped(Proxified(n))} /\ Detach(n)
            /\ prev' = y /\ next' = After(y) /\ loc' = loc
  BY Zenon DEF Walk, Return
<1>2. /\ held \in [Slots -> Requests \cup {Free}] /\ slot \in Slots /\ q \in Requests
      /\ \E x \in Nat : WalkInv(q, x)
  BY <1>1, Zenon DEF LoopInv
<1>3. PICK x \in Nat : WalkInv(q, x)
  BY <1>2, Zenon
<1>4. /\ q.start \in Nat /\ q.end \in Nat /\ q.start < q.end /\ UpTo(q, q.end) = q
  BY <1>2, RequestIs, Zenon
<1>5. With(q) = held
  BY <1>2, WithIs, Zenon DEF With
<1>6. CASE /\ y = Null \/ q.end <= y
           /\ tree' = tree \cup {Proxy(At(prev).end, q.end)} /\ loc' = "idle" /\ live' = live
  <2>1. /\ q.start <= x /\ x < q.end /\ Base(tree, With(UpTo(q, x))) /\ AllShared(tree, UpTo(q, x))
        /\ live = Live(tree, With(UpTo(q, x))) /\ expected = GrownBy(tree, Ahead(q, x))
        /\ TreeOK(tree)
    BY <1>3, Zenon DEF WalkInv, Consistent, Base
  <2>2. (\A m \in tree : ~ Overlap(m, Ahead(q, x))) /\ At(prev).end = x
    BY <1>2, <1>3, <1>6, WalkEnds, Zenon
  <2>3. Ahead(q, x).start = x /\ Ahead(q, x).end = q.end
    BY <1>2, RequestIs, SMTT(30)
  <2>4. GrownBy(tree, Ahead(q, x)) = tree \cup {Proxy(x, q.end)}
    BY <1>4, <2>1, <2>2, <2>3, GrownEnd, SMTT(30)
  <2>5. \A m \in tree : m.start < q.end => m.end <= x
    <3> SUFFICES ASSUME NEW m \in tree, m.start < q.end PROVE m.end <= x
      BY Zenon
    <3>1. m.start \in Nat /\ m.end \in Nat /\ ~ Overlap(m, Ahead(q, x))
      BY <2>1, <2>2, NodeTypes, Zenon
    <3> QED BY <1>4, <2>3, <3>1, SMTT(30) DEF Overlap
  <2>6. /\ Base(tree \cup {Proxy(x, q.end)}, With(q))
        /\ Live(tree \cup {Proxy(x, q.end)}, With(q)) = live
    BY <1>2, <1>4, <2>1, <2>5, FillKeeps, SMTT(30)
  <2> HIDE DEF n, gap, others, T
  <2> QED BY <1>1, <1>2, <1>5, <1>6, <2>1, <2>2, <2>4, <2>6, Returned, ZenonT(60)
<1>7. CASE y # Null /\ y < q.end
  <2> DEFINE H == With(UpTo(q, y))
             r == Ahead(q, y)
  <2>1. /\ Base(T, H) /\ Live(T, H) = live
        /\ AllShared(T, UpTo(q, y)) /\ expected = GrownBy(T, r)
        /\ y \in Nat /\ q.start <= y /\ n \in tree /\ n.start = y /\ n \notin gap
        /\ \A m \in T : Overlap(m, r) => ~ Blocks(m)
        /\ \A m \in T : m.start < y => m.end <= y
        /\ \A m \in gap : m.start < y
        /\ \A m \in tree : y <= m.start /\ m # n => n.end <= m.start
    BY <1>2, <1>3, <1>7, WalkGap, Zenon
  <2>2. others = T \ {n} /\ n \in T
    BY <2>1, Zenon
  <2>3. \A m \in T : m.start < y \/ m \in tree
    BY <2>1, Zenon
  <2>4. TreeOK(tree)
    BY <1>3, Zenon DEF WalkInv, Consistent, Base
  <2> HIDE DEF n, gap, others, T
  <2>5. /\ TreeOK(T) /\ n \in Nodes /\ n.start \in Nat /\ n.end \in Nat /\ n.start < n.end
        /\ n.refs \in Nat /\ Sound(n)
    BY <2>1, <2>2, NodeTypes, Zenon DEF Base
  <2>6. r.start = y /\ r.end = q.end
    BY <1>2, RequestIs, SMTT(30)
  <2>7. Overlap(n, r)
    BY <1>4, <1>7, <2>1, <2>5, <2>6, SMTT(30) DEF Overlap
  <2>8. ~ Blocks(n)
    BY <2>1, <2>2, <2>7, Zenon
  <2>9. /\ Bumped(Proxified(n)) = Share(n.start, n.end, n.refs + 1)
        /\ Bumped(FrontOf(n, q.end)) = Share(n.start, q.end, n.refs + 1)
        /\ RearOf(n, q.end) = Share(q.end, n.end, n.refs)
    BY <1>4, <2>5, <2>8, PartsAreShares, Zenon
  <2>10. slot \notin live
    BY <1>2, <2>1, SharedNotLive, Zenon
  <2>11. Detach(n) => live' = Kept(T, H, n)
    BY <1>2, <2>1, <2>10, DetachIs, Zenon
  <2>12. \A z : With(z)[slot] = z /\ Only(slot, H, With(z))
    BY <1>2, WithIs, Zenon DEF With
  <2> HIDE DEF r
  <2>13. CASE /\ q.end = n.end
              /\ tree' = others \cup {Bumped(Proxified(n))} /\ Detach(n) /\ loc' = "idle"
    <3> DEFINE U == (T \ {n}) \cup {Share(n.start, n.end, n.refs + 1)}
    <3>1. tree' = U
      BY <2>2, <2>9, <2>13, Zenon
    <3>2. Joins(UpTo(q, y), n, UpTo(q, n.end))
      BY <1>2, <2>1, <2>5, UpToJoins, Zenon
    <3>3. Joins(H[slot], n, held[slot]) /\ Only(slot, H, held) /\ AllShared(T, H[slot])
      BY <1>4, <1>5, <2>1, <2>12, <2>13, <3>2, ZenonT(60)
    <3>4. Base(U, held) /\ Live(U, held) = Kept(T, H, n)
      BY <2>1, <2>2, <3>3, CountKeeps, Zenon DEF Fits
    <3>5. n.end <= n.end /\ ~ (n.end < n.end)
      BY <2>5, SMTT(30)
    <3>6. GrownBy(T, r) = ((T \ {n}) \cup {Share(n.start, r.end, n.refs + 1)})
                            \cup (IF r.end < n.end THEN {Share(r.end, n.end, n.refs)} ELSE {})
      BY <1>4, <1>7, <2>1, <2>2, <2>5, <2>6, <2>8, <2>13, <3>5, GrownLast, SMTT(30)
    <3>7. GrownBy(T, r) = U
      BY <2>6, <2>13, <3>5, <3>6, Zenon
    <3> HIDE DEF U, H
    <3> QED BY <1>1, <1>2, <2>1, <2>11, <2>13, <3>1, <3>4, <3>7, Returned, ZenonT(60)
  <2>14. CASE /\ q.end < n.end
              /\ tree' = others \cup {Bumped(FrontOf(n, q.end)), RearOf(n, q.end)}
              /\ Detach(n) /\ loc' = "idle"
    <3> DEFINE a == Share(n.start, q.end, n.refs)
               b == Share(q.end, n.end, n.refs)
               c == Share(n.start, q.end, n.refs + 1)
               V == (T \ {n}) \cup {a, b}
               U == (V \ {a}) \cup {c}
    <3>1. tree' = (T \ {n}) \cup {c, b}
      BY <2>2, <2>9, <2>14, Zenon
    <3>2. Base(V, H) /\ Live(V, H) = Kept(T, H, n)
      BY <1>4, <1>7, <2>1, <2>2, <2>8, <2>14, SplitKeeps, ZenonT(60)
    <3>3. /\ a.start = n.start /\ a.end = q.end /\ a.refs = n.refs /\ a.is_proxy
          /\ b.start = q.end /\ b.is_proxy
      <4>1. IsShare(a, n.start, q.end, n.refs) /\ IsShare(b, q.end, n.end, n.refs)
        BY <1>4, <2>5, ShareFields, Zenon
      <4> HIDE DEF a, b
      <4> QED BY <4>1, Zenon DEF IsShare
    <3>4. c = Share(a.start, a.end, a.refs + 1)
      BY <3>3, Zenon
    <3> HIDE DEF a, b, c
    <3>5. Joins(UpTo(q, y), a, UpTo(q, q.end))
      BY <1>2, <1>4, <1>7, <2>1, <3>3, UpToJoins, ZenonT(60)
    <3>6. AllShared(V, UpTo(q, y))
      BY <2>1, <3>3, Zenon DEF AllShared
    <3>7. Joins(H[slot], a, held[slot]) /\ Only(slot, H, held) /\ AllShared(V, H[slot])
      BY <1>4, <1>5, <2>12, <3>5, <3>6, ZenonT(60)
    <3>8. Base(U, held) /\ Live(U, held) = Kept(V, H, a)
      <4>1. a \in V
        BY Zenon
      <4> DEFINE W == (V \ {a}) \cup {Share(a.start, a.end, a.refs + 1)}
      <4>2. Fits(W, held, Kept(V, H, a))
        BY <3>2, <3>7, <4>1, CountKeeps, Zenon
      <4>3. W = U
        BY <3>4, Zenon
      <4> HIDE DEF W, U
      <4> QED BY <4>2, <4>3, Zenon DEF Fits
    <3>9. Kept(V, H, a) = Kept(T, H, n)
      BY <3>2, <3>3, ZenonT(60) DEF Kept
    <3>10. Overlap(a, n) /\ a # b
      BY <1>4, <1>7, <2>1, <2>5, <2>14, <3>3, SMTT(30) DEF Overlap
    <3>11. a \notin T \ {n}
      BY <2>2, <2>5, <3>10, Zenon DEF TreeOK
    <3>12. U = (T \ {n}) \cup {c, b}
      BY <3>10, <3>11, ZenonT(60)
    <3>13. q.end <= n.end
      BY <1>4, <2>5, <2>14, SMTT(30)
    <3>14. GrownBy(T, r) = ((T \ {n}) \cup {Share(n.start, r.end, n.refs + 1)})
                            \cup (IF r.end < n.end THEN {Share(r.end, n.end, n.refs)} ELSE {})
      BY <1>4, <1>7, <2>1, <2>2, <2>5, <2>6, <2>8, <3>13, GrownLast, SMTT(30)
    <3>15. GrownBy(T, r) = (T \ {n}) \cup {c, b}
      BY <2>6, <2>14, <3>14, Zenon DEF b, c
    <3> HIDE DEF U, V, H
    <3> QED BY <1>1, <1>2, <2>1, <2>11, <2>14, <3>1, <3>8, <3>9, <3>12, <3>15, Returned, ZenonT(60)
  <2>15. CASE /\ n.end < q.end
              /\ tree' = others \cup {Bumped(Proxified(n))} /\ Detach(n)
              /\ prev' = y /\ next' = After(y) /\ loc' = loc
    <3> PICK z : z = n.end
      OBVIOUS
    <3> DEFINE b == Share(n.start, n.end, n.refs + 1)
               U == (T \ {n}) \cup {b}
               s == Ahead(q, z)
    <3>1. tree' = U /\ z \in Nat /\ y < z /\ z < q.end
      BY <2>1, <2>2, <2>5, <2>9, <2>15, ZenonT(60)
    <3>2. q.start <= z /\ z <= z
      BY <1>4, <2>1, <3>1, SMTT(30)
    <3>3. Joins(UpTo(q, y), n, UpTo(q, z))
      BY <1>2, <2>1, <2>5, UpToJoins, ZenonT(60)
    <3>4. /\ Joins(H[slot], n, With(UpTo(q, z))[slot]) /\ Only(slot, H, With(UpTo(q, z)))
          /\ AllShared(T, H[slot])
      BY <2>1, <2>12, <3>3, Zenon
    <3>5. /\ Base(U, With(UpTo(q, z))) /\ AllShared(U, With(UpTo(q, z))[slot])
          /\ Live(U, With(UpTo(q, z))) = Kept(T, H, n)
      BY <2>1, <2>2, <3>4, CountKeeps, ZenonT(60) DEF Fits
    <3>6. AllShared(U, UpTo(q, z))
      BY <2>12, <3>5, Zenon
    <3>7. s.start = z /\ s.end = q.end
      BY <1>2, RequestIs, SMTT(30)
    <3>8. y <= z
      BY <2>1, <3>1, SMTT(30)
    <3>9. RestOf(r, s)
      BY <1>4, <2>1, <2>6, <3>1, <3>7, <3>8, ZenonT(60) DEF RestOf
    <3>10. GrownBy(U, s) = GrownBy(T, r)
      BY <2>1, <2>2, <2>5, <2>6, <2>8, <3>1, <3>7, <3>9, GrownCount, SMTT(30)
    <3>11. b.start = y /\ b.end = z /\ ~ Blocks(b)
      <4>1. n.refs + 1 \in Nat
        BY <2>5
      <4>2. IsShare(b, n.start, n.end, n.refs + 1)
        BY <2>5, <4>1, ShareFields, Zenon
      <4> HIDE DEF b
      <4> QED BY <2>1, <4>2, Zenon DEF IsShare
    <3>12. \A m \in tree : m.start \in Nat /\ m.end \in Nat /\ m.start < m.end
      BY <2>4, NodeTypes, Zenon
    <3>13. \A m \in T : m.start \in Nat /\ m.end \in Nat /\ m.start < m.end
      BY <2>5, NodeTypes, Zenon
    <3> HIDE DEF b, s, r
    <3>14. \A m \in U : Overlap(m, s) => ~ Blocks(m)
      <4> SUFFICES ASSUME NEW m \in T, Overlap(m, s) PROVE ~ Blocks(m)
        BY <3>11, ZenonT(60)
      <4>1. Overlap(m, r)
        BY <1>4, <2>1, <2>6, <3>1, <3>7, <3>8, <3>13, SMTT(30) DEF Overlap
      <4> QED BY <2>1, <4>1, Zenon
    <3>15. \A m \in U : m.start < z => m.end <= z
      <4> SUFFICES ASSUME NEW m \in T, m # n, m.start < z PROVE m.end <= z
        BY <3>2, <3>11, Zenon
      <4>1. m.start \in Nat /\ m.end \in Nat
        BY <3>13, ZenonT(60)
      <4>2. CASE m.start < y
        <5>1. m.end <= y
          BY <2>1, <4>2, Zenon
        <5> QED BY <2>1, <3>1, <4>1, <5>1, SMTT(30)
      <4>3. CASE ~ (m.start < y)
        <5>1. y <= m.start
          BY <2>1, <4>1, <4>3, SMTT(30)
        <5>2. z <= m.start
          BY <2>1, <2>3, <4>3, <5>1, ZenonT(60)
        <5> QED BY <3>1, <4>1, <5>2, SMTT(30)
      <4> QED BY <4>2, <4>3, SMTT(30)
    <3>16. FirstFrom(U, After(y), z)
      <4>1. FirstFrom(tree, After(y), y + 1)
        BY <2>1, <2>4, AfterIs, Zenon
      <4>2. \A m \in tree : y + 1 <= m.start => m # n /\ z <= m.start /\ m \in U
        <5> SUFFICES ASSUME NEW m \in tree, y + 1 <= m.start PROVE m # n /\ z <= m.start /\ m \in U
          BY Zenon
        <5>1. y <= m.start /\ m.start # y
          BY <2>1, <3>12, SMTT(30)
        <5>2. m # n
          BY <2>1, <5>1, Zenon
        <5>3. z <= m.start
          BY <2>1, <5>1, <5>2, Zenon
        <5> QED BY <5>2, <5>3, Zenon DEF T
      <4>3. \A m \in U : z <= m.start => m \in tree /\ y + 1 <= m.start
        <5> SUFFICES ASSUME NEW m \in U, z <= m.start PROVE m \in tree /\ y + 1 <= m.start
          BY ZenonT(60)
        <5>1. m \in T
          BY <2>1, <3>1, <3>11, SMTT(30)
        <5>2. m.start \in Nat
          BY <3>13, <5>1, ZenonT(60)
        <5>3. ~ (m.start < y) /\ y + 1 <= m.start
          BY <2>1, <3>1, <5>2, SMTT(30)
        <5> QED BY <2>3, <5>1, <5>3, Zenon
      <4>4. CASE After(y) = Null /\ \A m \in tree : m.start < y + 1
        <5>1. \A m \in U : m.start < z
          <6> SUFFICES ASSUME NEW m \in U PROVE m.start < z
            BY Zenon
          <6>1. m.start \in Nat
            BY <2>1, <3>11, <3>13, ZenonT(60)
          <6>2. ~ (z <= m.start)
            <7> SUFFICES ASSUME z <= m.start PROVE FALSE
              BY Zenon
            <7>1. y + 1 <= m.start /\ m.start < y + 1
              BY <4>3, <4>4, Zenon
            <7> QED BY <2>1, <6>1, <7>1, SMTT(30)
          <6> QED BY <3>1, <6>1, <6>2, SMTT(30)
        <5> QED BY <4>4, <5>1, Zenon DEF FirstFrom
      <4>5. ASSUME NEW k \in tree, k.start = After(y), y + 1 <= After(y),
                   \A m \in tree : y + 1 <= m.start => After(y) <= m.start
            PROVE  FirstFrom(U, After(y), z)
        <5>1. k \in U /\ z <= After(y)
          BY <4>2, <4>5, Zenon
        <5> QED BY <4>3, <4>5, <5>1, Zenon DEF FirstFrom
      <4> QED BY <4>1, <4>4, <4>5, Zenon DEF FirstFrom
    <3>17. b \in U /\ b.start = prev' /\ b.end = z
      BY <2>15, <3>11, Zenon
    <3>18. live' = Live(U, With(UpTo(q, z))) /\ loc' = "walk" /\ next' = After(y)
      BY <1>1, <2>11, <2>15, <3>5, ZenonT(60)
    <3>19. expected' = GrownBy(U, Ahead(q, z)) /\ \A m \in U : Overlap(m, Ahead(q, z)) => ~ Blocks(m)
      BY <1>1, <2>1, <3>10, <3>14, ZenonT(60) DEF s
    <3> HIDE DEF U, H
    <3> QED BY <1>1, <1>2, <3>1, <3>2, <3>5, <3>6, <3>15, <3>16, <3>17, <3>18, <3>19, ToWalk, ZenonT(60)
  <2>16. ~ (y = Null \/ q.end <= y)
    BY <1>4, <1>7, <2>1, SMTT(30)
  <2> QED BY <1>1, <2>13, <2>14, <2>15, <2>16, ZenonT(60)
<1> QED BY <1>1, <1>6, <1>7, Zenon

-----------------------------------------------------------------------------
\* The range a writer waits for, by what the tree has around its start.
LEMMA MetIs ==
  ASSUME TreeOK(tree), NEW q, NEW n \in tree, Overlap(n, q),
         \/ q.start <= n.start /\ \A m \in tree : Overlap(m, q) /\ q.start <= m.start => n.start <= m.start
         \/ \A m \in tree : Overlap(m, q) => m = n /\ ~ (q.start <= m.start)
  PROVE  AfterWriter(q) = Flagged(n, "write_wanted")
<1> DEFINE O == Meets(q)
           A == {m \in O : q.start <= m.start}
<1>1. n \in O /\ O \subseteq tree /\ A \subseteq tree
  BY Zenon DEF Meets
<1>2. CASE q.start <= n.start /\ \A m \in tree : Overlap(m, q) /\ q.start <= m.start => n.start <= m.start
  <2>1. n \in A /\ \A m \in A : n.start <= m.start
    BY <1>1, <1>2, Zenon DEF Meets
  <2>2. First(A) = n
    BY <1>1, <2>1, FirstPicks, Zenon
  <2> QED BY <1>1, <2>1, <2>2, Zenon DEF AfterWriter, Met
<1>3. CASE \A m \in tree : Overlap(m, q) => m = n /\ ~ (q.start <= m.start)
  <2>1. A = {} /\ O = {n}
    BY <1>1, <1>3, Zenon DEF Meets
  <2>2. First(O) = n
    <3>1. n.start \in Nat
      BY NodeTypes, Zenon
    <3>2. n.start <= n.start
      BY <3>1
    <3> QED BY <1>1, <2>1, <3>2, FirstPicks, Zenon
  <2> QED BY <1>1, <2>1, <2>2, Zenon DEF AfterWriter, Met
<1> QED BY <1>2, <1>3

\* lock_range_writer, one round of its loop.
LEMMA LockWriterStep ==
  ASSUME WalkConstants, LoopInv, NEW i \in Slots, NEW q \in Requests, LockWriter(i, q)
  PROVE  LoopInv'
<1> DEFINE a == After(q.start)
           b == Before(q.start)
<1>1. /\ loc = "idle" /\ held[i] = Free /\ slot' = i /\ expected' = AfterWriter(q)
      /\ \/ q.start \in Starts /\ Park(At(q.start), "write_wanted")
         \/ /\ q.start \notin Starts /\ a # Null /\ a < q.end /\ Park(At(a), "write_wanted")
         \/ /\ q.start \notin Starts /\ ~ (a # Null /\ a < q.end)
            /\ b # Null /\ q.start < At(b).end /\ Park(At(b), "write_wanted")
         \/ /\ q.start \notin Starts /\ ~ (a # Null /\ a < q.end)
            /\ ~ (b # Null /\ q.start < At(b).end) /\ Insert(i, q)
  BY Zenon DEF LockWriter, Follows, Precedes
<1>2. held \in [Slots -> Requests \cup {Free}] /\ Base(tree, held) /\ live = Live(tree, held)
  BY <1>1, Zenon DEF LoopInv
<1>3. TreeOK(tree) /\ [held EXCEPT ![i] = Free] = held
  BY <1>1, <1>2, WithIs, Zenon DEF Base
<1>4. q.start \in Nat /\ q.end \in Nat /\ q.start < q.end
  BY RequestIs, Zenon
<1>5. ASSUME NEW n \in tree, Park(n, "write_wanted"), AfterWriter(q) = Flagged(n, "write_wanted")
      PROVE  LoopInv'
  BY <1>1, <1>2, <1>3, <1>5, ParkStep, Zenon
<1>6. \A m \in tree : m.start \in Nat /\ m.end \in Nat /\ m.start < m.end
  BY <1>3, NodeTypes, Zenon
<1>7. CASE q.start \in Starts /\ Park(At(q.start), "write_wanted")
  <2>1. PICK n \in tree : n.start = q.start
    BY <1>7, Zenon DEF Starts
  <2>2. At(q.start) = n
    BY <1>3, <2>1, AtIs, Zenon
  <2>3. Overlap(n, q) /\ q.start <= n.start
    BY <1>4, <1>6, <2>1, SMTT(30) DEF Overlap
  <2>4. AfterWriter(q) = Flagged(n, "write_wanted")
    BY <1>3, <2>1, <2>3, MetIs, Zenon
  <2> QED BY <1>5, <1>7, <2>2, <2>4, Zenon
<1>8. CASE q.start \notin Starts
  <2>1. \A m \in tree : m.start # q.start
    BY <1>8, Zenon DEF Starts
  <2>2. FirstFrom(tree, a, q.start + 1) /\ q.start + 1 \in Nat
    BY <1>3, <1>4, AfterIs, SMTT(30)
  <2>3. /\ a = Null => \A m \in tree : m.start < q.start + 1
        /\ a # Null => /\ a \in Nat /\ At(a) \in tree /\ At(a).start = a /\ q.start + 1 <= a
                       /\ \A m \in tree : q.start + 1 <= m.start /\ m # At(a) => At(a).end <= m.start
    BY <1>3, <2>2, FirstIs, Zenon
  <2>4. Find(q) = b
    BY <1>8, Zenon DEF Find
  <2>5. /\ b = Null => \A m \in tree : q.start < m.start
        /\ b # Null => /\ b \in Nat /\ At(b) \in tree /\ At(b).start = b /\ b <= q.start
                       /\ \A m \in tree : m.start <= q.start /\ m # At(b) => m.end <= b
    <3>1. LastUpTo(tree, b, q.start)
      BY <1>3, <1>4, <2>4, FindIs, Zenon
    <3> HIDE DEF b
    <3> QED BY <1>3, <1>4, <3>1, LastIs, Zenon
  <2>6. \A m \in tree : q.start <= m.start => q.start + 1 <= m.start
    <3> SUFFICES ASSUME NEW m \in tree, q.start <= m.start PROVE q.start + 1 <= m.start
      BY Zenon
    <3>1. m.start \in Nat /\ m.start # q.start
      BY <1>6, <2>1, Zenon
    <3> QED BY <1>4, <3>1, SMTT(30)
  <2> HIDE DEF a, b
  <2>7. CASE a # Null /\ a < q.end /\ Park(At(a), "write_wanted")
    <3> PICK n : n = At(a)
      OBVIOUS
    <3>1. n \in tree /\ n.start = a /\ a \in Nat /\ q.start + 1 <= a
      BY <2>3, <2>7, Zenon
    <3>2. n.end \in Nat /\ n.start < n.end
      BY <1>6, <3>1, Zenon
    <3>3. Overlap(n, q) /\ q.start <= n.start
      BY <1>4, <2>7, <3>1, <3>2, SMTT(30) DEF Overlap
    <3>4. \A m \in tree : q.start <= m.start => n.start <= m.start
      <4> SUFFICES ASSUME NEW m \in tree, q.start <= m.start PROVE n.start <= m.start
        BY Zenon
      <4>1. m.start \in Nat /\ (m # n => n.end <= m.start)
        BY <1>6, <2>3, <2>6, <2>7, Zenon
      <4> QED BY <3>1, <3>2, <4>1, SMTT(30)
    <3>5. AfterWriter(q) = Flagged(n, "write_wanted")
      BY <1>3, <3>1, <3>3, <3>4, MetIs, Zenon
    <3> QED BY <1>5, <2>7, <3>1, <3>5, Zenon
  <2>8. CASE ~ (a # Null /\ a < q.end)
    <3>1. \A m \in tree : Overlap(m, q) => ~ (q.start <= m.start)
      <4> SUFFICES ASSUME NEW m \in tree, q.start <= m.start, Overlap(m, q) PROVE FALSE
        BY Zenon
      <4>1. m.start \in Nat /\ q.start + 1 <= m.start /\ m.start < q.end
        BY <1>6, <2>6, Zenon DEF Overlap
      <4>2. a # Null
        BY <1>4, <2>3, <4>1, SMTT(30)
      <4>3. /\ a \in Nat /\ At(a) \in tree /\ At(a).start = a /\ ~ (a < q.end)
            /\ m # At(a) => At(a).end <= m.start
        BY <2>3, <2>8, <4>1, <4>2, Zenon
      <4>4. At(a).end \in Nat /\ At(a).start < At(a).end
        BY <1>6, <4>3, Zenon
      <4> QED BY <1>4, <4>1, <4>3, <4>4, SMTT(30)
    <3>2. \A m \in tree : Overlap(m, q) => b # Null /\ m = At(b) /\ q.start < At(b).end
      <4> SUFFICES ASSUME NEW m \in tree, Overlap(m, q)
                   PROVE  b # Null /\ m = At(b) /\ q.start < At(b).end
        BY Zenon
      <4>1. m.start \in Nat /\ m.end \in Nat /\ q.start < m.end /\ ~ (q.start <= m.start)
        BY <1>6, <3>1, Zenon DEF Overlap
      <4>2. b # Null
        BY <1>4, <2>5, <4>1, SMTT(30)
      <4>3. m = At(b)
        BY <1>4, <2>5, <4>1, <4>2, SMTT(30)
      <4> QED BY <4>1, <4>2, <4>3, Zenon
    <3>3. CASE b # Null /\ q.start < At(b).end /\ Park(At(b), "write_wanted")
      <4> PICK n : n = At(b)
        OBVIOUS
      <4>1. n \in tree /\ n.start = b /\ b \in Nat /\ b <= q.start
        BY <2>5, <3>3, Zenon
      <4>2. n.end \in Nat /\ q.start < n.end
        BY <1>6, <3>3, <4>1, Zenon
      <4>3. Overlap(n, q)
        BY <1>4, <4>1, <4>2, SMTT(30) DEF Overlap
      <4>4. AfterWriter(q) = Flagged(n, "write_wanted")
        BY <1>3, <3>1, <3>2, <4>1, <4>3, MetIs, ZenonT(60)
      <4> QED BY <1>5, <3>3, <4>1, <4>4, Zenon
    <3>4. CASE ~ (b # Null /\ q.start < At(b).end) /\ Insert(i, q)
      <4>1. \A m \in tree : ~ Overlap(m, q)
        BY <3>2, <3>4, Zenon
      <4>2. Meets(q) = {}
        BY <4>1, Zenon DEF Meets
      <4>3. AfterWriter(q) = Inserted(q)
        BY <4>2, Zenon DEF AfterWriter
      <4> QED BY <1>1, <1>2, <1>3, <3>4, <4>1, <4>3, InsertStep, ZenonT(60)
    <3> QED BY <1>1, <1>8, <2>8, <3>3, <3>4, ZenonT(60)
  <2> QED BY <1>1, <1>8, <2>7, <2>8, Zenon
<1> QED BY <1>1, <1>7, <1>8, Zenon

-----------------------------------------------------------------------------
\* unlock_range_writer, and unlock_range_reader as far as its loop.
LEMMA UnlockStep ==
  ASSUME WalkConstants, LoopInv, NEW i \in Slots, Unlock(i)
  PROVE  LoopInv'
<1> PICK q : q = held[i]
  OBVIOUS
<1>1. /\ loc = "idle" /\ q # Free /\ slot' = i /\ expected' = AfterUnlock(i)
      /\ \/ /\ i \in live /\ tree' = tree \ {At(q.start)} /\ live' = live \ {i}
            /\ held' = [held EXCEPT ![i] = Free] /\ loc' = "idle"
         \/ /\ i \notin live /\ loc' = "drop" /\ next' = q.start /\ len' = q.end - q.start
            /\ tree' = tree /\ held' = held /\ live' = live
  BY Zenon DEF Unlock, Return
<1>2. held \in [Slots -> Requests \cup {Free}] /\ Base(tree, held) /\ live = Live(tree, held)
  BY <1>1, Zenon DEF LoopInv
<1>3. TreeOK(tree) /\ HandlesOK(tree, held) /\ q \in Requests
  BY <1>1, <1>2, Zenon DEF Base
<1>4. q.start \in Nat /\ q.end \in Nat /\ q.start < q.end /\ Ahead(q, q.start) = q
  BY <1>3, RequestIs, Zenon
<1>5. CASE /\ i \in live /\ tree' = tree \ {At(q.start)} /\ live' = live \ {i}
           /\ held' = [held EXCEPT ![i] = Free] /\ loc' = "idle"
  <2> DEFINE K == [held EXCEPT ![i] = Free]
  <2>1. PICK n \in tree : ~ n.is_proxy /\ Overlap(n, q)
    BY <1>2, <1>5, Zenon DEF Live
  <2>2. n.start = q.start /\ n.end = q.end /\ n.refs = 1
    BY <1>3, <2>1, NodeTypes, Zenon DEF HandlesOK, Sound
  <2>3. At(q.start) = n /\ Left(tree, n) = tree \ {n}
    BY <1>3, <2>1, <2>2, AtIs, Zenon DEF Left
  <2>4. K[i] = Free /\ Only(i, held, K) /\ K \in [Slots -> Requests \cup {Free}]
    <3>1. Only(i, [held EXCEPT ![i] = held[i]], K)
      BY <1>2, WithIs, Zenon
    <3> QED BY <1>2, <3>1, WithIs, Zenon
  <2> HIDE DEF K
  <2>5. Joins(K[i], n, held[i]) /\ RangeOK(K[i])
    BY <1>4, <2>2, <2>4, FreeIs, Zenon DEF Joins
  <2>6. Base(tree \ {n}, K) /\ Live(tree \ {n}, K) = Live(tree, held) \ {i}
    <3>1. Fits(Left(tree, n), K, IF n.is_proxy THEN Live(tree, held) ELSE Live(tree, held) \ {i})
      BY <1>2, <2>1, <2>4, <2>5, LeaveKeeps, Zenon
    <3> QED BY <2>1, <2>3, <3>1, Zenon DEF Fits
  <2>7. {m \in tree : m.start # q.start} = tree \ {n}
    BY <1>3, <2>1, <2>2, SameStart, ZenonT(60)
  <2>8. expected' = tree \ {n}
    BY <1>1, <1>5, <2>7, Zenon DEF AfterUnlock
  <2>9. held' = K
    BY <1>5, Zenon DEF K
  <2> QED BY <1>2, <1>5, <2>3, <2>4, <2>6, <2>8, <2>9, Returned, ZenonT(60)
<1>6. CASE /\ i \notin live /\ loc' = "drop" /\ next' = q.start /\ len' = q.end - q.start
           /\ tree' = tree /\ held' = held /\ live' = live
  <2>1. expected' = ShrunkBy(tree, q)
    BY <1>1, <1>6, Zenon DEF AfterUnlock, ShrunkBy
  <2>2. [held' EXCEPT ![slot'] = q] = held
    BY <1>1, <1>2, <1>6, WithIs, Zenon
  <2>3. Consistent(q)'
    BY <1>2, <1>6, <2>2, Zenon DEF Consistent, With
  <2>4. Ahead(q, next)' = q
    BY <1>4, <1>6, Zenon DEF Ahead
  <2>5. q.start <= q.start
    BY <1>4
  <2>6. Consistent(Ahead(q, next))' /\ (expected = ShrunkBy(tree, Ahead(q, next)))'
    BY <1>6, <2>1, <2>3, <2>4, Zenon DEF Consistent, With
  <2>7. DropInv(q)'
    BY <1>1, <1>4, <1>6, <2>5, <2>6, Zenon DEF DropInv
  <2>8. held'[slot'] = q
    BY <1>1, <1>6, Zenon
  <2> QED BY <1>1, <1>2, <1>3, <1>6, <2>7, <2>8, Zenon DEF LoopInv
<1> QED BY <1>1, <1>5, <1>6, Zenon

\* unlock_range_reader has come to a node of its handle, and the next one follows it.
LEMMA DropAt ==
  ASSUME WalkConstants, NEW q \in Requests, held \in [Slots -> Requests \cup {Free}],
         slot \in Slots, DropInv(q)
  PROVE  LET n == At(next) IN
         /\ n \in tree /\ n.start = next /\ n.end \in Nat /\ next < n.end /\ n.end <= q.end
         /\ n.is_proxy /\ n.refs # 0
         /\ n.end < q.end => n.end \in Starts /\ After(next) = n.end
<1> PICK y : y = next
  OBVIOUS
<1> DEFINE r == Ahead(q, y)
<1>1. /\ y \in Nat /\ q.start <= y /\ y < q.end
      /\ Base(tree, With(r)) /\ live = Live(tree, With(r)) /\ slot \notin live
  BY Zenon DEF DropInv, Consistent
<1>2. q.end \in Nat /\ r.start = y /\ r.end = q.end
  BY RequestIs, ZenonT(60)
<1>3. With(r)[slot] = r
  BY Zenon DEF With
<1> HIDE DEF r
<1>4. /\ TreeOK(tree) /\ \A m \in tree : Overlap(m, r) => Within(m, r)
      /\ \A x \in Nat : Contains(r, x) => \E m \in tree : Contains(m, x)
      /\ \A m \in tree : m.refs # 0
  BY <1>1, <1>3, Zenon DEF Base, HandlesOK
<1>5. ASSUME NEW x \in Nat, y <= x, x < q.end
      PROVE  \E m \in tree : /\ m.start \in Nat /\ m.end \in Nat /\ m.start <= x /\ x < m.end
                             /\ Overlap(m, r) /\ y <= m.start /\ m.end <= q.end
  <2>1. Contains(r, x)
    BY <1>2, <1>5, Zenon DEF Contains
  <2>2. PICK m \in tree : Contains(m, x)
    BY <1>4, <2>1, Zenon
  <2>3. m.start \in Nat /\ m.end \in Nat /\ m.start <= x /\ x < m.end
    BY <1>4, <2>2, NodeTypes, Zenon DEF Contains
  <2>4. Overlap(m, r)
    BY <1>1, <1>2, <2>1, <2>2, <2>3, PointOverlaps, ZenonT(60)
  <2>5. y <= m.start /\ m.end <= q.end
    BY <1>2, <1>4, <2>4, Zenon DEF Within
  <2> QED BY <2>3, <2>4, <2>5, Zenon
<1>6. y <= y
  BY <1>1
<1>7. PICK n \in tree : /\ n.start \in Nat /\ n.end \in Nat /\ n.start <= y /\ y < n.end
                        /\ Overlap(n, r) /\ y <= n.start /\ n.end <= q.end
  BY <1>1, <1>5, <1>6, Zenon
<1>8. n.start = y
  BY <1>1, <1>7, SMTT(30)
<1>9. At(y) = n
  BY <1>4, <1>8, AtIs, Zenon
<1>10. n.is_proxy
  BY <1>1, <1>3, <1>7, Zenon DEF Live
<1>11. ASSUME n.end < q.end PROVE n.end \in Starts /\ After(y) = n.end
  <2>1. y <= n.end
    BY <1>1, <1>7
  <2>2. PICK m \in tree : m.start \in Nat /\ m.end \in Nat /\ m.start <= n.end /\ n.end < m.end
    BY <1>5, <1>7, <1>11, <2>1, Zenon
  <2>3. m # n
    BY <1>7, <2>2, SMTT(30)
  <2>4. ~ Overlap(m, n)
    BY <1>4, <2>3, Zenon DEF TreeOK
  <2>5. m.start = n.end
    BY <1>1, <1>7, <1>8, <2>2, <2>4, SMTT(30) DEF Overlap
  <2> DEFINE a == After(y)
  <2>6. FirstFrom(tree, a, y + 1) /\ y + 1 \in Nat
    BY <1>1, <1>4, AfterIs, SMTT(30)
  <2>7. /\ a = Null => m.start < y + 1
        /\ a # Null => /\ a \in Nat /\ At(a) \in tree /\ At(a).start = a /\ y + 1 <= a
                       /\ y + 1 <= m.start /\ m # At(a) => At(a).end <= m.start
    BY <1>4, <2>6, FirstIs, Zenon
  <2> HIDE DEF a
  <2>8. a # Null
    BY <1>1, <1>7, <2>2, <2>5, <2>7, SMTT(30)
  <2>9. At(a) # n
    BY <1>1, <1>8, <2>7, <2>8, SMTT(30)
  <2>10. /\ At(a).end \in Nat /\ At(a).start < At(a).end /\ ~ Overlap(At(a), n)
    BY <1>4, <2>7, <2>8, <2>9, NodeTypes, ZenonT(60) DEF TreeOK
  <2>11. a = n.end
    BY <1>1, <1>7, <1>8, <2>2, <2>5, <2>7, <2>8, <2>10, SMTT(30) DEF Overlap
  <2> QED BY <2>5, <2>11, Zenon DEF Starts, a
<1> QED BY <1>4, <1>7, <1>8, <1>9, <1>10, <1>11, ZenonT(60)

\* An iteration of the loop of unlock_range_reader.
LEMMA DropStep ==
  ASSUME WalkConstants, LoopInv, Drop
  PROVE  LoopInv'
<1> PICK q : q = held[slot]
  OBVIOUS
<1> PICK y : y = next
  OBVIOUS
<1> DEFINE n == At(y)
           r == Ahead(q, y)
           H == With(r)
<1>1. /\ loc = "drop" /\ tree' = Left(tree, n) /\ slot' = slot /\ live' = live
      /\ expected' = expected
      /\ \/ len = n.end - n.start /\ held' = [held EXCEPT ![slot] = Free] /\ loc' = "idle"
         \/ /\ len # n.end - n.start /\ len' = len - (n.end - n.start) /\ next' = After(y)
            /\ held' = held /\ loc' = loc
  BY Zenon DEF Drop, Return, Left
<1>2. /\ held \in [Slots -> Requests \cup {Free}] /\ slot \in Slots /\ q \in Requests
      /\ DropInv(q)
  BY <1>1, Zenon DEF LoopInv
<1>3. /\ y \in Nat /\ q.start <= y /\ y < q.end /\ len = q.end - y
      /\ Base(tree, H) /\ live = Live(tree, H) /\ slot \notin live
      /\ expected = ShrunkBy(tree, r)
  BY <1>2, Zenon DEF DropInv, Consistent
<1>4. /\ n \in tree /\ n.start = y /\ n.end \in Nat /\ y < n.end /\ n.end <= q.end
      /\ n.is_proxy /\ (n.end < q.end => After(y) = n.end)
  BY <1>2, DropAt, Zenon
<1>5. q.start \in Nat /\ q.end \in Nat /\ r.start = y /\ r.end = q.end
  BY <1>2, RequestIs, SMTT(30)
<1>6. \A z : With(z)[slot] = z /\ Only(slot, With(z), H) /\ Only(slot, H, With(z))
  BY <1>2, WithIs, Zenon DEF With
<1>7. TreeOK(tree)
  BY <1>3, Zenon DEF Base
<1>8. /\ n.end < q.end => RangeOK(Ahead(q, n.end)) /\ Joins(Ahead(q, n.end), n, r)
      /\ n.end = q.end => Joins(Free, n, r)
  BY <1>2, <1>3, <1>4, AheadJoins, Zenon
<1> HIDE DEF n, r
<1>9. CASE n.end = q.end
  <2>1. len = n.end - n.start
    BY <1>3, <1>4, <1>9, Zenon
  <2>2. held' = With(Free) /\ loc' = "idle"
    BY <1>1, <2>1, Zenon DEF With
  <2>3. Base(Left(tree, n), With(Free)) /\ Live(Left(tree, n), With(Free)) = live
    <3>1. RangeOK(With(Free)[slot]) /\ Joins(With(Free)[slot], n, H[slot])
      BY <1>6, <1>8, <1>9, FreeIs, Zenon
    <3> HIDE DEF H
    <3>2. Fits(Left(tree, n), With(Free), IF n.is_proxy THEN Live(tree, H) ELSE Live(tree, H) \ {slot})
      BY <1>3, <1>4, <1>6, <3>1, LeaveKeeps, Zenon
    <3> QED BY <1>3, <1>4, <3>2, Zenon DEF Fits
  <2>4. ShrunkBy(tree, r) = Left(tree, n)
    BY <1>3, <1>4, <1>5, <1>7, <1>9, ShrunkLast, ZenonT(60)
  <2>5. held' \in [Slots -> Requests \cup {Free}]
    BY <1>2, <2>2, Zenon DEF With
  <2> QED BY <1>1, <1>3, <2>2, <2>3, <2>4, <2>5, Returned, ZenonT(60)
<1>10. CASE n.end # q.end
  <2> PICK z : z = n.end
    BY SMTT(30)
  <2> DEFINE s == Ahead(q, z)
  <2>1. z \in Nat /\ y < z /\ z < q.end /\ q.start <= z /\ y <= z
    BY <1>3, <1>4, <1>5, <1>10, SMTT(30)
  <2>2. len # n.end - n.start /\ len - (n.end - n.start) = q.end - z
    BY <1>3, <1>4, <1>5, <1>10, SMTT(30)
  <2>3. next' = z /\ held' = held /\ loc' = "drop" /\ len' = q.end - z
    BY <1>1, <1>4, <2>1, <2>2, Zenon
  <2>4. s.start = z /\ s.end = q.end
    BY <1>2, RequestIs, SMTT(30)
  <2>5. Base(Left(tree, n), With(s)) /\ Live(Left(tree, n), With(s)) = live
    <3>1. RangeOK(With(s)[slot]) /\ Joins(With(s)[slot], n, H[slot])
      <4>1. RangeOK(s) /\ Joins(s, n, r)
        BY <1>8, <2>1, Zenon
      <4>2. With(s)[slot] = s /\ H[slot] = r
        BY <1>6, Zenon
      <4> HIDE DEF s, H
      <4> QED BY <4>1, <4>2, Zenon
    <3> HIDE DEF H, s
    <3>2. Fits(Left(tree, n), With(s), IF n.is_proxy THEN Live(tree, H) ELSE Live(tree, H) \ {slot})
      BY <1>3, <1>4, <1>6, <3>1, LeaveKeeps, Zenon
    <3> QED BY <1>3, <1>4, <3>2, Zenon DEF Fits
  <2> HIDE DEF s
  <2>6. RestOf(r, s)
    BY <1>3, <1>5, <2>1, <2>4, ZenonT(60) DEF RestOf
  <2>7. ShrunkBy(Left(tree, n), s) = ShrunkBy(tree, r)
    BY <1>4, <1>5, <1>7, <2>1, <2>4, <2>6, ShrunkLeave, SMTT(30)
  <2>8. Ahead(q, next)' = s /\ With(s)' = With(s)
    BY <1>1, <2>3, Zenon DEF Ahead, With, s
  <2>9. Consistent(Ahead(q, next))' /\ (expected = ShrunkBy(tree, Ahead(q, next)))'
    BY <1>1, <1>3, <2>5, <2>7, <2>8, Zenon DEF Consistent, With
  <2>10. DropInv(q)'
    BY <1>1, <1>3, <2>1, <2>3, <2>9, Zenon DEF DropInv
  <2>11. held'[slot'] = q
    BY <1>1, <2>3, Zenon
  <2> QED BY <1>1, <1>2, <2>3, <2>10, <2>11, ZenonT(60) DEF LoopInv
<1> QED BY <1>9, <1>10, SMTT(30)

\* Nothing changes.
LEMMA WalkStutters ==
  ASSUME LoopInv, UNCHANGED vars
  PROVE  LoopInv'
<1>1. /\ tree' = tree /\ held' = held /\ live' = live /\ loc' = loc /\ slot' = slot
      /\ prev' = prev /\ next' = next /\ len' = len /\ expected' = expected
  BY Zenon DEF vars
<1>2. \A q : AfterReader(q)' = AfterReader(q) /\ Find(q)' = Find(q)
  BY <1>1, Steady
<1>3. \A r : Consistent(r) => Consistent(r)'
  BY <1>1, Zenon DEF Consistent, With
<1>4. \A q, y : ScanInv(q, y) => ScanInv(q, y)'
  BY <1>1, Zenon DEF ScanInv, Blocks
<1>5. \A q, x : WalkInv(q, x) => WalkInv(q, x)'
  BY <1>1, <1>3, Zenon DEF WalkInv, Blocks
<1>6. \A q : DropInv(q) => DropInv(q)'
  BY <1>1, Zenon DEF DropInv, Consistent, With, Ahead
<1> QED BY <1>1, <1>2, <1>3, <1>4, <1>5, <1>6, ZenonT(60) DEF LoopInv

-----------------------------------------------------------------------------
(***************************************************************************)
(* The invariant of the loops holds.                                       *)
(***************************************************************************)
THEOREM WalkInvariance ==
  ASSUME WalkConstants
  PROVE  Spec => []LoopInv
<1>1. Init => LoopInv
  BY WalkStarts
<1>2. LoopInv /\ [Next]_vars => LoopInv'
  <2> SUFFICES ASSUME LoopInv, [Next]_vars PROVE LoopInv'
    OBVIOUS
  <2>1. CASE \E i \in Slots, q \in Requests : LockReader(i, q) \/ LockWriter(i, q)
    BY <2>1, LockReaderStep, LockWriterStep, Zenon
  <2>2. CASE \E i \in Slots : Unlock(i)
    BY <2>2, UnlockStep, Zenon
  <2>3. CASE Scan
    BY <2>3, ScanStep, SMTT(30)
  <2>4. CASE AddReader
    BY <2>4, AddReaderStep, SMTT(30)
  <2>5. CASE InsertAt
    BY <2>5, InsertAtStep
  <2>6. CASE Walk
    BY <2>6, WalkStep
  <2>7. CASE Drop
    BY <2>7, DropStep
  <2>8. CASE UNCHANGED vars
    BY <2>8, WalkStutters
  <2> QED BY <2>1, <2>2, <2>3, <2>4, <2>5, <2>6, <2>7, <2>8, ZenonT(60) DEF Next
<1> QED BY <1>1, <1>2, PTL DEF Spec

(***************************************************************************)
(* WalksAgree, for every set of handles and ranges: when a call of         *)
(* lock_range or unlock_range is over, its loops have made of the tree     *)
(* what RangeLock takes as one step over the whole of it.                  *)
(***************************************************************************)
THEOREM LoopsAgree ==
  ASSUME WalkConstants
  PROVE  Spec => []WalksAgree
<1>1. LoopInv => WalksAgree
  BY Zenon DEF LoopInv, WalksAgree
<1> QED BY <1>1, WalkInvariance, PTL

(***************************************************************************)
(* WalkAsserts: no assertion in the loops of add_reader, range_proxify,    *)
(* range_split, range_new_proxy and unlock_range_reader fails.             *)
(***************************************************************************)
THEOREM LoopsAssert ==
  ASSUME WalkConstants
  PROVE  Spec => []WalkAsserts
<1>1. LoopInv => WalkAsserts
  <2> SUFFICES ASSUME LoopInv PROVE WalkAsserts
    OBVIOUS
  <2> PICK q : q = held[slot]
    OBVIOUS
  <2>1. held \in [Slots -> Requests \cup {Free}] /\ (loc # "idle" => slot \in Slots /\ q \in Requests)
    BY Zenon DEF LoopInv
  <2> DEFINE n == At(next)
  <2>2. ASSUME loc = "walk", next = Null \/ q.end <= next
        PROVE  prev # Null /\ At(prev).end # q.end
    <3>1. PICK x \in Nat : WalkInv(q, x)
      BY <2>2, Zenon DEF LoopInv
    <3> QED BY <2>1, <2>2, <3>1, WalkEnds, Zenon
  <2>3. ASSUME loc = "walk", next # Null, next < q.end
        PROVE  /\ ~ n.is_proxy => n.refs = 1
               /\ ~ n.read_wanted /\ ~ n.write_wanted
               /\ q.end < n.end => n.end - n.start > 1 /\ q.end > n.start
    <3>1. PICK x \in Nat : WalkInv(q, x)
      BY <2>3, Zenon DEF LoopInv
    <3>2. q \in Requests /\ q.end \in Nat /\ TreeOK(tree)
      BY <2>1, <2>3, <3>1, RequestIs, Zenon DEF WalkInv, Consistent, Base
    <3>3. /\ next \in Nat /\ n \in tree /\ n.start = next
          /\ Overlap(n, Ahead(q, next)) => ~ Blocks(n)
      BY <2>1, <2>3, <3>1, WalkGap, Zenon
    <3> HIDE DEF n
    <3>4. n \in Nodes /\ n.end \in Nat /\ n.start < n.end /\ Sound(n)
      BY <3>2, <3>3, NodeTypes, Zenon
    <3>5. Ahead(q, next).start = next /\ Ahead(q, next).end = q.end
      BY <3>2, RequestIs, ZenonT(60)
    <3>6. Overlap(n, Ahead(q, next))
      BY <2>3, <3>2, <3>3, <3>4, <3>5 DEF Overlap
    <3>7. ~ n.read_wanted /\ ~ n.write_wanted
      BY <3>3, <3>4, <3>6, Open, ZenonT(60)
    <3>8. q.end < n.end => n.end - n.start > 1 /\ q.end > n.start
      BY <2>3, <3>2, <3>3, <3>4, SMTT(30)
    <3> QED BY <3>4, <3>7, <3>8, Zenon DEF Sound
  <2>4. ASSUME loc = "drop"
        PROVE  /\ next \in Starts /\ n.type = "reader" /\ n.is_proxy /\ n.refs # 0
               /\ len # n.end - n.start => n.end \in Starts /\ n.end - n.start < len
    <3>1. DropInv(q) /\ q \in Requests
      BY <2>4, Zenon DEF LoopInv
    <3>2. q.end \in Nat /\ TreeOK(tree) /\ len = q.end - next /\ next \in Nat
      BY <3>1, RequestIs, Zenon DEF DropInv, Consistent, Base
    <3>3. /\ n \in tree /\ n.start = next /\ n.end \in Nat /\ next < n.end /\ n.end <= q.end
          /\ n.is_proxy /\ n.refs # 0 /\ (n.end < q.end => n.end \in Starts)
      BY <2>1, <2>4, <3>1, DropAt, Zenon
    <3> HIDE DEF n
    <3>4. next \in Starts /\ n.type = "reader"
      BY <3>2, <3>3, NodeTypes, Zenon DEF Starts, Sound
    <3>5. len # n.end - n.start => n.end < q.end /\ n.end - n.start < len
      BY <3>2, <3>3, SMTT(30)
    <3> QED BY <3>3, <3>4, <3>5, Zenon
  <2>5. ASSUME loc = "walk", ~ (next = Null \/ q.end <= next) PROVE next # Null /\ next < q.end
    <3>1. PICK x \in Nat : WalkInv(q, x)
      BY <2>5, Zenon DEF LoopInv
    <3>2. q.end \in Nat /\ TreeOK(tree) /\ FirstFrom(tree, next, x)
      BY <2>1, <2>5, <3>1, RequestIs, Zenon DEF WalkInv, Consistent, Base
    <3>3. next # Null => next \in Nat
      BY <3>2, FirstIs, ZenonT(60)
    <3> QED BY <2>5, <3>2, <3>3, SMTT(30)
  <2> QED BY <2>2, <2>3, <2>4, <2>5, Zenon DEF WalkAsserts
<1> QED BY <1>1, WalkInvariance, PTL
=============================================================================
