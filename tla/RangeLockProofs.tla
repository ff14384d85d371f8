-------------------------- MODULE RangeLockProofs --------------------------
(***************************************************************************)
(* Proofs about RangeLock, for any finite set of threads and any set of    *)
(* non-empty byte ranges.  The first part is about ranges and about the    *)
(* cuts of add_reader, the second shows that Inv is inductive, the third   *)
(* draws the conclusions: mutual exclusion, no overtaking of a waiting     *)
(* writer, the asserts of the code, and the refinement of RangeExclusion.  *)
(***************************************************************************)
EXTENDS RangeLock, FiniteSetTheorems, WellFoundedInduction, TLAPS

-----------------------------------------------------------------------------
\* A non-empty set of naturals has a least element.
LEMMA LeastNat ==
  ASSUME NEW S, S \subseteq Nat, S # {}
  PROVE  \E m \in S : \A y \in S : m <= y
<1> DEFINE R == {ss \in Nat \X Nat : ss[1] < ss[2]}
<1>1. IsWellFoundedOn(R, Nat)
  BY NatLessThanWellFounded, Zenon DEF OpToRel
<1>2. \A x, y \in Nat : <<y, x>> \in R <=> y < x
  BY Zenon
<1> HIDE DEF R
<1>3. PICK x \in S : \A y \in S : ~ (<<y, x>> \in R)
  BY <1>1, WFMin, Zenon
<1>4. ASSUME NEW y \in S PROVE x <= y
  <2>1. x \in Nat /\ y \in Nat
    BY Zenon
  <2>2. ~ (y < x)
    BY <1>2, <1>3, <2>1, Zenon
  <2> QED BY <2>1, <2>2
<1> QED BY <1>4, Zenon

\* A set of naturals that has an element up to x has a greatest one up to x.
LEMMA GreatestUpTo ==
  ASSUME NEW S \in SUBSET Nat, NEW x \in Nat, NEW c \in S, c <= x
  PROVE  \E a \in S : a <= x /\ \A b \in S : b <= x => b <= a
<1> DEFINE D == {x - a : a \in {b \in S : b <= x}}
<1>1. D \subseteq Nat /\ D # {}
  OBVIOUS
<1>2. PICK d \in D : \A e \in D : d <= e
  BY <1>1, LeastNat, Zenon
<1>3. PICK a \in S : a <= x /\ d = x - a
  BY <1>2, Zenon
<1>4. ASSUME NEW b \in S, b <= x PROVE b <= a
  <2>1. x - b \in D
    BY <1>4, Zenon
  <2> HIDE DEF D
  <2>2. d <= x - b
    BY <2>1, <1>2, Zenon
  <2> QED BY <1>3, <1>4, <2>2
<1> QED BY <1>3, <1>4, Zenon

\* First(S), the node both lock functions wait on, is a node of S.
LEMMA FirstIn ==
  ASSUME NEW S, S \subseteq Nodes, S # {}
  PROVE  First(S) \in S
<1> DEFINE K == {n.start : n \in S}
<1>1. K \subseteq Nat /\ K # {}
  BY DEF Nodes
<1>2. PICK k \in K : \A y \in K : k <= y
  BY <1>1, LeastNat, Zenon
<1>3. PICK n \in S : n.start = k
  BY <1>2, Zenon
<1>4. \A m \in S : n.start <= m.start
  BY <1>2, <1>3, Zenon
<1> QED BY <1>4, Zenon DEF First

-----------------------------------------------------------------------------
\* The fields of a request.
LEMMA RequestFacts ==
  ASSUME NEW q \in Requests
  PROVE  /\ q.start \in Nat /\ q.end \in Nat /\ q.start < q.end
         /\ q.type \in {"reader", "writer"}
BY RequestsAssumption, Zenon

\* The fields of a node.
LEMMA NodeFacts ==
  ASSUME NEW n \in Nodes
  PROVE  /\ n.start \in Nat /\ n.end \in Nat /\ n.refs \in Nat
         /\ n.type \in {"reader", "writer"}
         /\ n.is_proxy \in BOOLEAN /\ n.read_wanted \in BOOLEAN
         /\ n.write_wanted \in BOOLEAN
BY Zenon DEF Nodes

\* The parts a granted reader leaves of a node it overlaps (range_split and
\* the reference bump of add_reader).
LEMMA PieceFacts ==
  ASSUME NEW n \in Nodes, NEW q \in Requests, n.start < n.end, Overlap(n, q),
         NEW m \in Pieces(n, q)
  PROVE  /\ m \in Nodes
         /\ m.start < m.end
         /\ Within(m, n)
         /\ m.type = n.type /\ m.is_proxy
         /\ m.read_wanted = n.read_wanted /\ m.write_wanted = n.write_wanted
         /\ \/ Within(m, q) /\ m.refs = n.refs + 1
            \/ ~ Overlap(m, q) /\ m.refs = n.refs
<1>q. /\ q.start \in Nat /\ q.end \in Nat /\ q.start < q.end
      /\ n.start \in Nat /\ n.end \in Nat /\ n.refs \in Nat
  BY RequestFacts, NodeFacts, Zenon
<1>1. CASE m \in Front(n, q)
  <2>1. m = Part(n, n.start, q.start, n.refs) /\ n.start < q.start
    BY <1>1, Zenon DEF Front
  <2>2. m.start = n.start /\ m.end = q.start /\ m.refs = n.refs
    BY <2>1, Zenon DEF Part
  <2>3. Within(m, n) /\ ~ Overlap(m, q) /\ m.start < m.end
    BY <1>q, <2>1, <2>2 DEF Overlap, Within
  <2>4. /\ m \in Nodes /\ m.type = n.type /\ m.is_proxy
        /\ m.read_wanted = n.read_wanted /\ m.write_wanted = n.write_wanted
    BY <2>1, <1>q, NodeFacts, Zenon DEF Part, Nodes
  <2> QED BY <2>2, <2>3, <2>4, Zenon
<1>2. CASE m = Shared(n, q)
  <2> DEFINE s == Larger(n.start, q.start)
             e == Smaller(n.end, q.end)
  <2>1. /\ s \in Nat /\ e \in Nat /\ s < e
        /\ n.start <= s /\ q.start <= s /\ e <= n.end /\ e <= q.end
    BY <1>q DEF Larger, Smaller, Overlap
  <2>2. m = Part(n, s, e, n.refs + 1)
    BY <1>2, Zenon DEF Shared
  <2> HIDE DEF s, e
  <2>3. m.start = s /\ m.end = e /\ m.refs = n.refs + 1
    BY <2>2, Zenon DEF Part
  <2>4. Within(m, n) /\ Within(m, q) /\ m.start < m.end
    BY <1>q, <2>1, <2>3, Zenon DEF Within
  <2>5. /\ m \in Nodes /\ m.type = n.type /\ m.is_proxy
        /\ m.read_wanted = n.read_wanted /\ m.write_wanted = n.write_wanted
    BY <2>1, <2>2, <1>q, NodeFacts DEF Part, Nodes
  <2> QED BY <2>3, <2>4, <2>5, Zenon
<1>3. CASE m \in Rear(n, q)
  <2>1. m = Part(n, q.end, n.end, n.refs) /\ q.end < n.end
    BY <1>3, Zenon DEF Rear
  <2>2. m.start = q.end /\ m.end = n.end /\ m.refs = n.refs
    BY <2>1, Zenon DEF Part
  <2>3. Within(m, n) /\ ~ Overlap(m, q) /\ m.start < m.end
    BY <1>q, <2>1, <2>2 DEF Overlap, Within
  <2>4. /\ m \in Nodes /\ m.type = n.type /\ m.is_proxy
        /\ m.read_wanted = n.read_wanted /\ m.write_wanted = n.write_wanted
    BY <2>1, <1>q, NodeFacts, Zenon DEF Part, Nodes
  <2> QED BY <2>2, <2>3, <2>4, Zenon
<1> QED BY <1>1, <1>2, <1>3, Zenon DEF Pieces

\* The parts of one node do not overlap each other ...
LEMMA PiecesDisjoint ==
  ASSUME NEW n \in Nodes, NEW q \in Requests, n.start < n.end, Overlap(n, q),
         NEW m1 \in Pieces(n, q), NEW m2 \in Pieces(n, q), m1 # m2
  PROVE  ~ Overlap(m1, m2)
<1> USE RequestFacts
<1>1. \A m \in Front(n, q) : m.start = n.start /\ m.end = q.start /\ n.start < q.start
                             /\ m = Part(n, n.start, q.start, n.refs)
  BY DEF Front, Part, Nodes
<1>2. \A m \in Rear(n, q) : m.start = q.end /\ m.end = n.end /\ q.end < n.end
                            /\ m = Part(n, q.end, n.end, n.refs)
  BY DEF Rear, Part, Nodes
<1>3. Shared(n, q).start >= q.start /\ Shared(n, q).end <= q.end
  BY DEF Shared, Part, Nodes, Larger, Smaller, Overlap
<1>4. Shared(n, q).start \in Nat /\ Shared(n, q).end \in Nat /\ n.start \in Nat /\ n.end \in Nat
  BY Zenon DEF Shared, Part, Nodes, Larger, Smaller
<1> QED BY <1>1, <1>2, <1>3, <1>4 DEF Pieces, Overlap

\* ... and cover it.
LEMMA PiecesCover ==
  ASSUME NEW n \in Nodes, NEW q \in Requests, Overlap(n, q),
         NEW x \in Nat, Contains(n, x)
  PROVE  \E m \in Pieces(n, q) : Contains(m, x)
<1> USE RequestFacts
<1>1. CASE x < q.start
  <2>1. Part(n, n.start, q.start, n.refs) \in Pieces(n, q)
    BY <1>1 DEF Pieces, Front, Contains, Nodes
  <2>2. Contains(Part(n, n.start, q.start, n.refs), x)
    BY <1>1, Zenon DEF Contains, Part, Nodes
  <2> QED BY <2>1, <2>2, Zenon
<1>2. CASE q.start <= x /\ x < q.end
  <2>1. Contains(Shared(n, q), x)
    BY <1>2, Zenon DEF Shared, Part, Contains, Nodes, Larger, Smaller
  <2> QED BY <2>1, Zenon DEF Pieces
<1>3. CASE q.end <= x
  <2>1. Part(n, q.end, n.end, n.refs) \in Pieces(n, q)
    BY <1>3 DEF Pieces, Rear, Contains, Nodes
  <2>2. Contains(Part(n, q.end, n.end, n.refs), x)
    BY <1>3, Zenon DEF Contains, Part, Nodes
  <2> QED BY <2>1, <2>2, Zenon
<1> QED BY <1>1, <1>2, <1>3

\* A proxy that fills a gap (range_new_proxy).
LEMMA GapFacts ==
  ASSUME NEW O, O \subseteq Nodes, NEW q \in Requests, NEW g \in Gaps(q, O)
  PROVE  /\ g \in Nodes
         /\ g.start < g.end /\ Within(g, q)
         /\ g.type = "reader" /\ g.is_proxy /\ g.refs = 1
         /\ ~ g.read_wanted /\ ~ g.write_wanted
         /\ \A n \in O : ~ Overlap(n, g)
         /\ g.start = q.start \/ \E n \in O : g.start = n.end
         /\ g.end = q.end \/ \E n \in O : g.end = n.start
<1>1. PICK p \in GapBounds(q, O) : g = NewRange(p[1], p[2], "reader", TRUE)
  BY Zenon DEF Gaps
<1>q. q.start \in Nat /\ q.end \in Nat
  BY RequestFacts, Zenon
<1>2. /\ p[1] \in {q.start} \cup {n.end : n \in O}
      /\ p[2] \in {q.end} \cup {n.start : n \in O}
      /\ q.start <= p[1] /\ p[1] < p[2] /\ p[2] <= q.end
      /\ \A n \in O : n.end <= p[1] \/ p[2] <= n.start
  BY Zenon DEF GapBounds
<1>3. p[1] \in Nat /\ p[2] \in Nat
  BY <1>q, <1>2, NodeFacts, Zenon
<1>4. /\ g \in Nodes /\ g.type = "reader" /\ g.is_proxy /\ g.refs = 1
      /\ ~ g.read_wanted /\ ~ g.write_wanted
      /\ g.start = p[1] /\ g.end = p[2]
  BY <1>1, <1>3, Zenon DEF NewRange, Nodes
<1>5. g.start < g.end /\ Within(g, q)
  BY <1>2, <1>4, Zenon DEF Within
<1>6. ASSUME NEW n \in O PROVE ~ Overlap(n, g)
  <2>1. n.start \in Nat /\ n.end \in Nat
    BY NodeFacts, Zenon
  <2> QED BY <1>2, <1>3, <1>4, <2>1 DEF Overlap
<1> QED BY <1>2, <1>4, <1>5, <1>6, Zenon

\* Two gaps do not overlap.
LEMMA GapsDisjoint ==
  ASSUME NEW O, O \subseteq Nodes, \A n \in O : n.start < n.end,
         NEW q \in Requests, NEW g \in Gaps(q, O), NEW h \in Gaps(q, O), g # h
  PROVE  ~ Overlap(g, h)
<1> SUFFICES ASSUME Overlap(g, h) PROVE FALSE
  BY Zenon
<1>1. /\ g \in Nodes /\ h \in Nodes /\ g.start < g.end /\ h.start < h.end
      /\ Within(g, q) /\ Within(h, q)
      /\ \A n \in O : ~ Overlap(n, g) /\ ~ Overlap(n, h)
  BY GapFacts, Zenon
<1>2. g.start = h.start
  BY <1>1, GapFacts, RequestFacts DEF Overlap, Within, Nodes
<1>3. g.end = h.end
  BY <1>1, GapFacts, RequestFacts DEF Overlap, Within, Nodes
<1>4. g = NewRange(g.start, g.end, "reader", TRUE) /\ h = NewRange(h.start, h.end, "reader", TRUE)
  BY DEF Gaps, NewRange
<1> QED BY <1>2, <1>3, <1>4, Zenon

\* Every byte of q that no node of O covers is in a gap.
LEMMA GapsCover ==
  ASSUME NEW O, O \subseteq Nodes, NEW q \in Requests,
         NEW x \in Nat, Contains(q, x), \A n \in O : ~ Contains(n, x)
  PROVE  \E g \in Gaps(q, O) : Contains(g, x)
<1> DEFINE A == {q.start} \cup {n.end : n \in O}
           B == {q.end} \cup {n.start : n \in O}
           C == {b \in B : x < b}
<1>q. q.start \in Nat /\ q.end \in Nat /\ q.start <= x /\ x < q.end
  BY RequestFacts, Zenon DEF Contains
<1>1. A \subseteq Nat /\ B \subseteq Nat /\ q.start \in A /\ q.end \in B
  BY <1>q, NodeFacts, Zenon
<1>2. \A n \in O : n.end \in A /\ n.start \in B /\ (n.end <= x \/ x < n.start)
  BY NodeFacts DEF Contains
<1>g. GapBounds(q, O) = {p \in A \X B : /\ q.start <= p[1] /\ p[1] < p[2] /\ p[2] <= q.end
                                        /\ \A n \in O : n.end <= p[1] \/ p[2] <= n.start}
  BY Zenon DEF GapBounds
<1> HIDE DEF A, B
<1>3. PICK a \in A : a <= x /\ \A c \in A : c <= x => c <= a
  <2>1. A \in SUBSET Nat /\ q.start \in A /\ q.start <= x
    BY <1>q, <1>1, Zenon
  <2>2. \A S \in SUBSET Nat : \A y \in Nat : \A c \in S : c <= y =>
          \E a \in S : a <= y /\ \A b \in S : b <= y => b <= a
    BY GreatestUpTo, Zenon
  <2>3. \A y \in Nat : \A c \in A : c <= y =>
          \E a \in A : a <= y /\ \A b \in A : b <= y => b <= a
    BY <2>1, <2>2, Zenon
  <2> QED BY <2>1, <2>3, Zenon
<1>4. PICK b \in C : \A c \in C : b <= c
  <2>1. C \subseteq Nat /\ C # {}
    BY <1>q, <1>1, Zenon
  <2> HIDE DEF C
  <2> QED BY <2>1, LeastNat, Zenon
<1>5. /\ a \in Nat /\ b \in B /\ b \in Nat /\ q.start <= a /\ a <= x /\ x < b /\ b <= q.end
  BY <1>q, <1>1, <1>3, <1>4, Zenon
<1>6. \A n \in O : n.end <= a \/ b <= n.start
  BY <1>1, <1>2, <1>3, <1>4, Zenon
<1>7. a < b
  BY <1>5
<1>8. <<a, b>> \in GapBounds(q, O)
  BY <1>g, <1>5, <1>6, <1>7, Zenon
<1>9. NewRange(a, b, "reader", TRUE) \in Gaps(q, O)
  <2>1. PICK p \in GapBounds(q, O) : p = <<a, b>>
    BY <1>8, Zenon
  <2>2. p[1] = a /\ p[2] = b
    BY <2>1, Zenon
  <2>3. NewRange(p[1], p[2], "reader", TRUE) \in Gaps(q, O)
    BY Zenon DEF Gaps
  <2> QED BY <2>2, <2>3, Zenon
<1>10. Contains(NewRange(a, b, "reader", TRUE), x)
  <2>1. NewRange(a, b, "reader", TRUE).start = a /\ NewRange(a, b, "reader", TRUE).end = b
    BY Zenon DEF NewRange
  <2> QED BY <1>5, <2>1, Zenon DEF Contains
<1> QED BY <1>9, <1>10, Zenon

-----------------------------------------------------------------------------
\* A holder's range and any range that overlaps it meet in some node: coverage
\* has no holes.
LEMMA CommonNode ==
  ASSUME Inv, NEW u \in Threads, Holding(u),
         NEW q, q.start \in Nat, q.end \in Nat, q.start < q.end, Overlap(q, req[u])
  PROVE  \E n \in tree : Overlap(n, q) /\ Overlap(n, req[u])
<1> DEFINE x == Larger(q.start, req[u].start)
<1>1. req[u] \in Requests
  BY Zenon DEF Inv, TypeOK, Holding
<1>2. /\ q.start \in Nat /\ q.end \in Nat /\ q.start < q.end
      /\ req[u].start \in Nat /\ req[u].end \in Nat /\ req[u].start < req[u].end
  BY <1>1, RequestFacts, Zenon
<1>3. /\ x \in Nat /\ x \in req[u].start .. (req[u].end - 1)
      /\ Contains(q, x) /\ Contains(req[u], x)
  BY <1>2 DEF Larger, Overlap, Contains
<1> HIDE DEF x
<1>4. PICK n \in tree : Contains(n, x)
  BY <1>3, Zenon DEF Inv, GrantsCovered
<1>5. n.start \in Nat /\ n.end \in Nat
  BY NodeFacts, Zenon DEF Inv, TypeOK
<1>6. Overlap(n, q) /\ Overlap(n, req[u])
  BY <1>2, <1>3, <1>4, <1>5 DEF Contains, Overlap
<1> QED BY <1>6, Zenon

\* The nodes of a tree of typed nodes have typed fields.
LEMMA TreeFacts ==
  ASSUME Inv, NEW n \in tree
  PROVE  /\ n \in Nodes /\ n.start \in Nat /\ n.end \in Nat /\ n.start < n.end
         /\ n.refs \in Nat /\ n.type \in {"reader", "writer"}
BY NodeFacts, Zenon DEF Inv, TypeOK, TreeDisjoint

\* The request of a thread in a call.
LEMMA CallFacts ==
  ASSUME Inv, NEW t \in Threads, pc[t] # "idle"
  PROVE  /\ req[t] \in Requests
         /\ req[t].start \in Nat /\ req[t].end \in Nat /\ req[t].start < req[t].end
BY RequestFacts, Zenon DEF Inv, TypeOK

\* Holders are threads, so there are finitely many.
LEMMA HoldersFinite ==
  ASSUME NEW n
  PROVE  IsFiniteSet(Holders(n)) /\ Cardinality(Holders(n)) \in Nat
<1>1. Holders(n) \in SUBSET Threads
  BY Zenon DEF Holders
<1>2. IsFiniteSet(Holders(n))
  BY <1>1, FS_Subset, ThreadsAssumption, Zenon
<1> QED BY <1>2, FS_CardinalityType, Zenon

\* Inv holds initially.
LEMMA InitInv == Init => Inv
<1> SUFFICES ASSUME Init PROVE Inv
  BY Zenon
<1>1. TypeOK
  BY Zenon DEF Init, TypeOK, Pointers
<1>2. TreeDisjoint /\ NodesAligned /\ RefsCountHolders /\ ReadWantedBehindWriter
  BY Zenon DEF Init, TreeDisjoint, NodesAligned, RefsCountHolders, ReadWantedBehindWriter
<1>3. GrantsCovered /\ WaitersFlagged /\ HandlesMatchNodes
  BY Zenon DEF Init, GrantsCovered, WaitersFlagged, HandlesMatchNodes, Holding
<1> QED BY <1>1, <1>2, <1>3, Zenon DEF Inv

-----------------------------------------------------------------------------
\* A request that waits leaves the invariant true: only a flag of one node
\* and the state of the thread change.
LEMMA WaitInv ==
  ASSUME Inv, NEW t \in Threads, NEW q \in Requests, NEW n \in tree, NEW f \in Nodes,
         NEW s, pc[t] \in {"idle", "rd_woken", "wr_woken"},
         Wait(t, q, n, f, s),
         f.start = n.start /\ f.end = n.end /\ f.type = n.type /\ f.refs = n.refs,
         f.is_proxy = n.is_proxy,
         n.read_wanted => f.read_wanted,
         n.write_wanted => f.write_wanted,
         f.read_wanted => f.type = "writer" \/ f.write_wanted,
         \/ s = "rd_wait" /\ f.read_wanted /\ q.type = "reader"
         \/ s = "wr_wait" /\ f.write_wanted /\ q.type = "writer"
  PROVE  Inv'
<1>1. TypeOK
  BY Zenon DEF Inv
<1>2. /\ tree' = (tree \ {n}) \cup {f}
      /\ ptr' = ptr /\ status' = status
      /\ \A u \in Threads : /\ pc'[u] = IF u = t THEN s ELSE pc[u]
                            /\ req'[u] = IF u = t THEN q ELSE req[u]
                            /\ waitAt'[u] = IF u = t THEN n.start ELSE waitAt[u]
  BY <1>1, Zenon DEF Wait, TypeOK
<1>3. \A u \in Threads : /\ Holding(u)' <=> Holding(u)
                         /\ Holding(u) => req'[u] = req[u] /\ u # t
  BY <1>2, Zenon DEF Holding
<1>4. \A m : Holders(m)' = Holders(m)
  BY <1>3, Zenon DEF Holders
<1>5. \A m \in tree' : \E k \in tree :
        /\ m.start = k.start /\ m.end = k.end /\ m.type = k.type /\ m.refs = k.refs
        /\ m.is_proxy = k.is_proxy
        /\ m # k => m = f /\ k = n
  BY <1>2, Zenon
<1>6. \A k \in tree : \E m \in tree' :
        /\ m.start = k.start /\ m.end = k.end /\ m.type = k.type /\ m.refs = k.refs
        /\ m.is_proxy = k.is_proxy
        /\ k.read_wanted => m.read_wanted
        /\ k.write_wanted => m.write_wanted
  BY <1>2
<1>7. TypeOK'
  <2>1. tree' \subseteq Nodes
    BY <1>1, <1>2, Zenon DEF TypeOK
  <2>2. n.start \in Nat
    BY TreeFacts, Zenon
  <2>3. pc' \in [Threads -> {"idle", "rd_wait", "rd_woken", "wr_wait", "wr_woken",
                             "held", "unlocked"}]
    BY <1>1, Zenon DEF TypeOK, Wait
  <2>4. req' \in [Threads -> Requests \cup {NoRequest}]
    BY <1>1, Zenon DEF TypeOK, Wait
  <2>5. waitAt' \in [Threads -> Nat]
    BY <1>1, <2>2, Zenon DEF TypeOK, Wait
  <2>6. \A u \in Threads : /\ pc'[u] # "idle" => req'[u] \in Requests
                           /\ pc'[u] \in {"rd_wait", "rd_woken"} => req'[u].type = "reader"
                           /\ pc'[u] \in {"wr_wait", "wr_woken"} => req'[u].type = "writer"
    BY <1>1, <1>2 DEF TypeOK
  <2> QED BY <1>1, <1>2, <2>1, <2>3, <2>4, <2>5, <2>6, Zenon DEF TypeOK
<1>8. TreeDisjoint'
  <2>1. \A m \in tree' : m.start < m.end
    BY <1>5, Zenon DEF Inv, TreeDisjoint
  <2>2. \A m \in tree : m # n => ~ Overlap(m, f) /\ ~ Overlap(f, m)
    BY Zenon DEF Inv, TreeDisjoint, Overlap
  <2>3. \A m, k \in tree' : m # k => ~ Overlap(m, k)
    BY <1>2, <2>2 DEF Inv, TreeDisjoint
  <2> QED BY <2>1, <2>3, Zenon DEF TreeDisjoint
<1>9. NodesAligned'
  BY <1>3, <1>5 DEF Inv, NodesAligned, Overlap, Within
<1>10. GrantsCovered'
  BY <1>3, <1>6 DEF Inv, GrantsCovered, Contains
<1>11. RefsCountHolders'
  <2>1. \A m, k : m.start = k.start /\ m.end = k.end => Holders(m) = Holders(k)
    BY Zenon DEF Holders, Overlap
  <2> QED BY <1>4, <1>5, <2>1 DEF Inv, RefsCountHolders
<1>12. HandlesMatchNodes'
  <2> USE DEF Inv, HandlesMatchNodes, Overlap
  <2>1. ASSUME NEW u \in Threads, Holding(u)'
        PROVE  /\ \A m \in tree' : Overlap(m, req'[u]) =>
                    m.type = req'[u].type /\ (m.is_proxy <=> ptr'[u] # "live")
               /\ ptr'[u] = "live" =>
                    \E m \in tree' : m.start = req'[u].start /\ m.end = req'[u].end
               /\ req'[u].type = "writer" => ptr'[u] = "live"
    BY <2>1, <1>2, <1>3, <1>5, <1>6, SMTT(30)
  <2>2. \A u \in Threads : ptr'[u] = "live" => Holding(u)'
    BY <1>2, <1>3, Zenon
  <2>3. \A m \in tree' : /\ m.type = "writer" => ~ m.is_proxy
                         /\ ~ m.is_proxy => m.refs = 1
    BY <1>5
  <2> QED BY <2>1, <2>2, <2>3, Zenon
<1>13. ReadWantedBehindWriter'
  BY <1>2, Zenon DEF Inv, ReadWantedBehindWriter
<1>14. WaitersFlagged'
  <2>1. ASSUME NEW u \in Threads, u # t, pc'[u] \in {"rd_wait", "wr_wait"}
        PROVE  /\ pc'[u] = "rd_wait" => \E m \in tree' : m.start = waitAt'[u] /\ m.read_wanted
               /\ pc'[u] = "wr_wait" => \E m \in tree' : m.start = waitAt'[u] /\ m.write_wanted
    BY <2>1, <1>2, <1>6 DEF Inv, WaitersFlagged
  <2>2. /\ pc'[t] = "rd_wait" => \E m \in tree' : m.start = waitAt'[t] /\ m.read_wanted
        /\ pc'[t] = "wr_wait" => \E m \in tree' : m.start = waitAt'[t] /\ m.write_wanted
    BY <1>2, Zenon
  <2> QED BY <2>1, <2>2, Zenon DEF WaitersFlagged
<1> QED BY <1>7, <1>8, <1>9, <1>10, <1>11, <1>12, <1>13, <1>14, Zenon DEF Inv

-----------------------------------------------------------------------------
\* What a grant does to the threads.
LEMMA GrantedFacts ==
  ASSUME Inv, NEW t \in Threads, NEW q \in Requests, NEW p, Granted(t, q, p),
         p \in [Threads -> Pointers]
  PROVE  /\ ptr' = p /\ status' = status
         /\ \A u \in Threads : /\ pc'[u] = IF u = t THEN "held" ELSE pc[u]
                               /\ req'[u] = IF u = t THEN q ELSE req[u]
                               /\ waitAt'[u] = IF u = t THEN 0 ELSE waitAt[u]
         /\ \A u \in Threads : Holding(u)' <=> (u = t \/ Holding(u))
         /\ tree' \subseteq Nodes => TypeOK'
<1>1. TypeOK
  BY Zenon DEF Inv
<1>2. /\ ptr' = p /\ status' = status
      /\ \A u \in Threads : /\ pc'[u] = IF u = t THEN "held" ELSE pc[u]
                            /\ req'[u] = IF u = t THEN q ELSE req[u]
                            /\ waitAt'[u] = IF u = t THEN 0 ELSE waitAt[u]
  BY <1>1, Zenon DEF Granted, TypeOK
<1>3. \A u \in Threads : Holding(u)' <=> (u = t \/ Holding(u))
  BY <1>2, Zenon DEF Holding
<1>4. ASSUME tree' \subseteq Nodes PROVE TypeOK'
  <2>1. pc' \in [Threads -> {"idle", "rd_wait", "rd_woken", "wr_wait", "wr_woken",
                             "held", "unlocked"}]
    BY <1>1, Zenon DEF TypeOK, Granted
  <2>2. req' \in [Threads -> Requests \cup {NoRequest}]
    BY <1>1, Zenon DEF TypeOK, Granted
  <2>3. waitAt' \in [Threads -> Nat]
    BY <1>1, Zenon DEF TypeOK, Granted
  <2>4. \A u \in Threads : /\ pc'[u] # "idle" => req'[u] \in Requests
                           /\ pc'[u] \in {"rd_wait", "rd_woken"} => req'[u].type = "reader"
                           /\ pc'[u] \in {"wr_wait", "wr_woken"} => req'[u].type = "writer"
    BY <1>1, <1>2, Zenon DEF TypeOK
  <2> QED BY <1>1, <1>2, <1>4, <2>1, <2>2, <2>3, <2>4, Zenon DEF TypeOK
<1> QED BY <1>2, <1>3, <1>4, Zenon

\* A grant without overlap: one new node, held by the new thread alone.
LEMMA InsertNodeInv ==
  ASSUME Inv, NEW t \in Threads, NEW q \in Requests,
         pc[t] \in {"idle", "rd_woken", "wr_woken"},
         Overlapping(q) = {}, InsertNode(t, q)
  PROVE  Inv'
<1> DEFINE N == NewRange(q.start, q.end, q.type, FALSE)
<1>q. /\ q.start \in Nat /\ q.end \in Nat /\ q.start < q.end
      /\ q.type \in {"reader", "writer"}
  BY RequestFacts, Zenon
<1>1. /\ N \in Nodes /\ N.start = q.start /\ N.end = q.end /\ N.type = q.type
      /\ N.refs = 1 /\ ~ N.is_proxy /\ ~ N.read_wanted /\ ~ N.write_wanted
  BY <1>q, Zenon DEF NewRange, Nodes
<1>2. tree' = tree \cup {N} /\ Granted(t, q, [ptr EXCEPT ![t] = "live"])
  BY Zenon DEF InsertNode
<1> HIDE DEF N
<1>3. [ptr EXCEPT ![t] = "live"] \in [Threads -> Pointers]
  BY Zenon DEF Inv, TypeOK, Pointers
<1>4. /\ \A u \in Threads : /\ pc'[u] = IF u = t THEN "held" ELSE pc[u]
                            /\ req'[u] = IF u = t THEN q ELSE req[u]
                            /\ waitAt'[u] = IF u = t THEN 0 ELSE waitAt[u]
      /\ \A u \in Threads : Holding(u)' <=> (u = t \/ Holding(u))
      /\ ptr' = [ptr EXCEPT ![t] = "live"]
  BY <1>2, <1>3, GrantedFacts, Zenon
<1>5. \A u \in Threads : ptr'[u] = IF u = t THEN "live" ELSE ptr[u]
  BY <1>4, Zenon DEF Inv, TypeOK
<1>6. ~ Holding(t)
  BY Zenon DEF Holding
<1>7. \A m \in tree : ~ Overlap(m, q) /\ ~ Overlap(m, N) /\ ~ Overlap(N, m)
  BY <1>1, Zenon DEF Overlapping, Overlap
<1>8. \A u \in Threads : Holding(u) => ~ Overlap(q, req[u]) /\ ~ Overlap(N, req[u])
  BY <1>q, <1>1, <1>7, CommonNode, Zenon DEF Overlap
<1>9. TypeOK'
  <2>1. tree' \subseteq Nodes
    BY <1>1, <1>2, Zenon DEF Inv, TypeOK
  <2> QED BY <1>2, <1>3, <2>1, GrantedFacts, Zenon
<1>10. TreeDisjoint'
  BY <1>q, <1>1, <1>2, <1>7, Zenon DEF Inv, TreeDisjoint
<1>11. NodesAligned'
  <2>1. Within(N, q)
    BY <1>q, <1>1 DEF Within
  <2> QED BY <1>2, <1>4, <1>6, <1>7, <1>8, <2>1, Zenon DEF Inv, NodesAligned
<1>12. GrantsCovered'
  <2>1. \A x \in q.start .. (q.end - 1) : Contains(N, x)
    BY <1>q, <1>1 DEF Contains
  <2> QED BY <1>2, <1>4, <2>1, Zenon DEF Inv, GrantsCovered
<1>13. RefsCountHolders'
  <2>1. \A m \in tree : Holders(m)' = Holders(m)
    BY <1>4, <1>6, <1>7, Zenon DEF Holders
  <2>2. Holders(N)' = {t}
    <3>1. Overlap(N, q)
      BY <1>q, <1>1, Zenon DEF Overlap
    <3> QED BY <1>4, <1>8, <3>1, Zenon DEF Holders
  <2>3. Cardinality({t}) = 1
    BY FS_Singleton, ZenonT(30)
  <2>4. ASSUME NEW m \in tree PROVE m.refs > 0 /\ m.refs = Cardinality(Holders(m)')
    BY <2>1, Zenon DEF Inv, RefsCountHolders
  <2>5. N.refs > 0 /\ N.refs = Cardinality(Holders(N)')
    BY <1>1, <2>2, <2>3
  <2> QED BY <1>2, <2>4, <2>5, Zenon DEF RefsCountHolders
<1>14. HandlesMatchNodes'
  <2>1. ASSUME NEW u \in Threads, Holding(u)'
        PROVE  /\ \A m \in tree' : Overlap(m, req'[u]) =>
                    m.type = req'[u].type /\ (m.is_proxy <=> ptr'[u] # "live")
               /\ ptr'[u] = "live" =>
                    \E m \in tree' : m.start = req'[u].start /\ m.end = req'[u].end
               /\ req'[u].type = "writer" => ptr'[u] = "live"
    <3>1. CASE u = t
      BY <3>1, <1>1, <1>2, <1>4, <1>5, <1>7, SMTT(30)
    <3>2. CASE u # t
      BY <3>2, <2>1, <1>2, <1>4, <1>5, <1>8, SMTT(30) DEF Inv, HandlesMatchNodes
    <3> QED BY <3>1, <3>2, Zenon
  <2>2. \A u \in Threads : ptr'[u] = "live" => Holding(u)'
    BY <1>4, <1>5 DEF Inv, HandlesMatchNodes
  <2>3. \A m \in tree' : /\ m.type = "writer" => ~ m.is_proxy
                         /\ ~ m.is_proxy => m.refs = 1
    BY <1>1, <1>2, Zenon DEF Inv, HandlesMatchNodes
  <2> QED BY <2>1, <2>2, <2>3, Zenon DEF HandlesMatchNodes
<1>15. ReadWantedBehindWriter'
  BY <1>1, <1>2, Zenon DEF Inv, ReadWantedBehindWriter
<1>16. WaitersFlagged'
  BY <1>2, <1>4 DEF Inv, WaitersFlagged
<1> QED BY <1>9, <1>10, <1>11, <1>12, <1>13, <1>14, <1>15, <1>16, Zenon DEF Inv

-----------------------------------------------------------------------------
\* What an unlock does to the threads.
LEMMA ReleasedFacts ==
  ASSUME Inv, NEW t \in Threads, Holding(t), NEW dead, NEW p \in {"null", "freed"},
         Released(t, dead, p)
  PROVE  /\ req' = req
         /\ \A u \in Threads :
              /\ ptr'[u] = IF u = t THEN p ELSE ptr[u]
              /\ Holding(u)' <=> (u # t /\ Holding(u))
              /\ pc'[u] \in {"rd_wait", "wr_wait"} =>
                   pc'[u] = pc[u] /\ waitAt'[u] = waitAt[u] /\ ~ Woken(u, dead)
         /\ tree' \subseteq Nodes => TypeOK'
<1>1. TypeOK
  BY Zenon DEF Inv
<1>2. /\ req' = req /\ status' = status
      /\ \A u \in Threads :
           /\ ptr'[u] = IF u = t THEN p ELSE ptr[u]
           /\ pc'[u] = IF u = t THEN "unlocked"
                       ELSE IF Woken(u, dead) THEN WakeState(u) ELSE pc[u]
           /\ waitAt'[u] = IF Woken(u, dead) THEN 0 ELSE waitAt[u]
  BY <1>1, Zenon DEF Released, TypeOK
<1>3. \A u \in Threads : Woken(u, dead) => pc[u] \in {"rd_wait", "wr_wait"}
  BY Zenon DEF Woken
<1>4. \A u \in Threads : WakeState(u) \in {"rd_woken", "wr_woken"}
  BY Zenon DEF WakeState
<1>5. \A u \in Threads : Holding(u)' <=> (u # t /\ Holding(u))
  BY <1>2, <1>3, <1>4, Zenon DEF Holding
<1>6. \A u \in Threads : pc'[u] \in {"rd_wait", "wr_wait"} =>
        pc'[u] = pc[u] /\ waitAt'[u] = waitAt[u] /\ ~ Woken(u, dead)
  BY <1>2, <1>4, Zenon
<1>7. ASSUME tree' \subseteq Nodes PROVE TypeOK'
  <2>1. pc' \in [Threads -> {"idle", "rd_wait", "rd_woken", "wr_wait", "wr_woken",
                             "held", "unlocked"}]
    BY <1>1, <1>4, Zenon DEF TypeOK, Released
  <2>2. waitAt' \in [Threads -> Nat]
    BY <1>1, Zenon DEF TypeOK, Released
  <2>3. ptr' \in [Threads -> Pointers]
    BY <1>1, Zenon DEF TypeOK, Released, Pointers
  <2>4. ASSUME NEW u \in Threads
        PROVE  /\ pc'[u] # "idle" => req'[u] \in Requests
               /\ pc'[u] \in {"rd_wait", "rd_woken"} => req'[u].type = "reader"
               /\ pc'[u] \in {"wr_wait", "wr_woken"} => req'[u].type = "writer"
    <3>1. CASE u = t
      BY <3>1, <1>1, <1>2, Zenon DEF TypeOK, Holding
    <3>2. CASE u # t /\ Woken(u, dead)
      BY <3>2, <1>1, <1>2, <1>3, Zenon DEF TypeOK, WakeState
    <3>3. CASE u # t /\ ~ Woken(u, dead)
      BY <3>3, <1>1, <1>2, Zenon DEF TypeOK
    <3> QED BY <3>1, <3>2, <3>3, Zenon
  <2> QED BY <1>1, <1>2, <1>7, <2>1, <2>2, <2>3, <2>4, Zenon DEF TypeOK
<1> QED BY <1>2, <1>5, <1>6, <1>7, Zenon

\* An unlock through a live m_ptr: the node removed is the one the handle
\* spans, and nobody else held it.
LEMMA RemoveNodeInv ==
  ASSUME Inv, NEW t \in Threads, Holding(t), ptr[t] = "live", RemoveNode(t)
  PROVE  Inv'
<1> DEFINE dead == {n \in tree : n.start = req[t].start}
<1>r. /\ req[t] \in Requests
      /\ req[t].start \in Nat /\ req[t].end \in Nat /\ req[t].start < req[t].end
  BY CallFacts, Zenon DEF Holding
<1>1. tree' = tree \ dead /\ Released(t, dead, "null")
  BY Zenon DEF RemoveNode
<1>2. PICK n \in tree : n.start = req[t].start /\ n.end = req[t].end
  BY Zenon DEF Inv, HandlesMatchNodes
<1>3. \A m \in tree : m # n => ~ Overlap(m, n) /\ ~ Overlap(n, m)
  BY Zenon DEF Inv, TreeDisjoint
<1>4. dead = {n}
  <2>1. ASSUME NEW m \in tree, m.start = req[t].start PROVE m = n
    <3>1. Overlap(m, n)
      BY <1>2, <2>1, TreeFacts, Zenon DEF Overlap
    <3> QED BY <3>1, <1>3, Zenon
  <2> QED BY <1>2, <2>1, Zenon
<1> HIDE DEF dead
<1>5. /\ req' = req
      /\ \A u \in Threads :
           /\ ptr'[u] = IF u = t THEN "null" ELSE ptr[u]
           /\ Holding(u)' <=> (u # t /\ Holding(u))
           /\ pc'[u] \in {"rd_wait", "wr_wait"} =>
                pc'[u] = pc[u] /\ waitAt'[u] = waitAt[u] /\ ~ Woken(u, dead)
  BY <1>1, ReleasedFacts, Zenon
<1>6. tree' = tree \ {n}
  BY <1>1, <1>4, Zenon
<1>7. Overlap(n, req[t])
  BY <1>r, <1>2, Zenon DEF Overlap
<1>8. Holders(n) = {t}
  <2>1. t \in Holders(n)
    BY <1>7, Zenon DEF Holders
  <2>2. n.refs = 1
    BY <1>7, Zenon DEF Inv, HandlesMatchNodes
  <2>3. Cardinality(Holders(n)) = 1
    BY <2>2, Zenon DEF Inv, RefsCountHolders
  <2>4. \E x : Holders(n) = {x}
    BY <2>3, FS_Singleton, HoldersFinite, Zenon
  <2> QED BY <2>1, <2>4, Zenon
<1>9. \A m \in tree \ {n} : ~ Overlap(m, req[t])
  BY <1>2, <1>3, Zenon DEF Overlap
<1>10. TypeOK'
  <2>1. tree' \subseteq Nodes
    BY <1>6, Zenon DEF Inv, TypeOK
  <2> QED BY <1>1, <2>1, ReleasedFacts, Zenon
<1>11. TreeDisjoint' /\ NodesAligned' /\ ReadWantedBehindWriter'
  BY <1>5, <1>6, Zenon DEF Inv, TreeDisjoint, NodesAligned, ReadWantedBehindWriter
<1>12. GrantsCovered'
  <2> SUFFICES ASSUME NEW u \in Threads, Holding(u)',
                      NEW x \in req[u].start .. (req[u].end - 1)
               PROVE  \E m \in tree' : Contains(m, x)
    BY <1>5, Zenon DEF GrantsCovered
  <2>1. u # t /\ Holding(u)
    BY <1>5, Zenon
  <2>2. req[u].start \in Nat /\ req[u].end \in Nat
    BY <2>1, CallFacts, Zenon DEF Holding
  <2>3. PICK m \in tree : Contains(m, x)
    BY <2>1, Zenon DEF Inv, GrantsCovered
  <2>4. Overlap(m, req[u])
    BY <2>2, <2>3, TreeFacts DEF Contains, Overlap
  <2>5. m # n
    BY <2>1, <2>4, <1>8, Zenon DEF Holders
  <2> QED BY <2>3, <2>5, <1>6, Zenon
<1>13. RefsCountHolders'
  <2>1. \A m \in tree \ {n} : Holders(m)' = Holders(m)
    BY <1>5, <1>9, Zenon DEF Holders
  <2> QED BY <1>6, <2>1, Zenon DEF Inv, RefsCountHolders
<1>14. HandlesMatchNodes'
  <2>1. ASSUME NEW u \in Threads, Holding(u)', ptr'[u] = "live"
        PROVE  \E m \in tree' : m.start = req[u].start /\ m.end = req[u].end
    <3>1. u # t /\ Holding(u) /\ ptr[u] = "live"
      BY <2>1, <1>5, Zenon
    <3>2. PICK m \in tree : m.start = req[u].start /\ m.end = req[u].end
      BY <3>1, Zenon DEF Inv, HandlesMatchNodes
    <3>3. Overlap(m, req[u])
      BY <3>2, TreeFacts, Zenon DEF Overlap
    <3>4. m # n
      BY <3>1, <3>3, <1>8, Zenon DEF Holders
    <3> QED BY <3>2, <3>4, <1>6, Zenon
  <2>2. ASSUME NEW u \in Threads, Holding(u)'
        PROVE  /\ \A m \in tree' : Overlap(m, req[u]) =>
                    m.type = req[u].type /\ (m.is_proxy <=> ptr'[u] # "live")
               /\ req[u].type = "writer" => ptr'[u] = "live"
    BY <2>2, <1>5, <1>6 DEF Inv, HandlesMatchNodes
  <2>3. \A u \in Threads : ptr'[u] = "live" => Holding(u)'
    BY <1>5, Zenon DEF Inv, HandlesMatchNodes
  <2>4. \A m \in tree' : /\ m.type = "writer" => ~ m.is_proxy
                         /\ ~ m.is_proxy => m.refs = 1
    BY <1>6, Zenon DEF Inv, HandlesMatchNodes
  <2> QED BY <1>5, <2>1, <2>2, <2>3, <2>4, Zenon DEF HandlesMatchNodes
<1>15. WaitersFlagged'
  <2>1. ASSUME NEW u \in Threads, pc'[u] = "rd_wait"
        PROVE  \E m \in tree' : m.start = waitAt'[u] /\ m.read_wanted
    <3>1. PICK m \in tree : m.start = waitAt[u] /\ m.read_wanted
      BY <2>1, <1>5, Zenon DEF Inv, WaitersFlagged
    <3> QED BY <2>1, <3>1, <1>4, <1>5, <1>6, Zenon DEF Woken
  <2>2. ASSUME NEW u \in Threads, pc'[u] = "wr_wait"
        PROVE  \E m \in tree' : m.start = waitAt'[u] /\ m.write_wanted
    <3>1. PICK m \in tree : m.start = waitAt[u] /\ m.write_wanted
      BY <2>2, <1>5, Zenon DEF Inv, WaitersFlagged
    <3> QED BY <2>2, <3>1, <1>4, <1>5, <1>6, Zenon DEF Woken
  <2> QED BY <2>1, <2>2, Zenon DEF WaitersFlagged
<1> QED BY <1>10, <1>11, <1>12, <1>13, <1>14, <1>15, Zenon DEF Inv

\* An unlock that walks proxies: each loses the reference of this handle, and
\* the ones that die had no other holder.
LEMMA DropReferencesInv ==
  ASSUME Inv, NEW t \in Threads, Holding(t), ptr[t] # "live",
         NEW P, P = {n \in tree : Within(n, req[t])}, DropReferences(t, P)
  PROVE  Inv'
<1> DEFINE dead == {n \in P : n.refs = 1}
           Dec(n) == [n EXCEPT !.refs = n.refs - 1]
           p == IF ptr[t] = "detached" /\ dead = {} THEN "freed" ELSE "null"
<1>r. /\ req[t] \in Requests
      /\ req[t].start \in Nat /\ req[t].end \in Nat /\ req[t].start < req[t].end
  BY CallFacts, Zenon DEF Holding
<1>1. /\ tree' = (tree \ P) \cup {Dec(n) : n \in P \ dead}
      /\ Released(t, dead, p)
      /\ p \in {"null", "freed"}
  BY Zenon DEF DropReferences, Shrunk
<1>2. \A n \in tree : n \in P <=> Overlap(n, req[t])
  <2> SUFFICES ASSUME NEW n \in tree PROVE n \in P <=> Overlap(n, req[t])
    BY Zenon
  <2>1. Within(n, req[t]) => Overlap(n, req[t])
    BY <1>r, TreeFacts DEF Within, Overlap
  <2> QED BY <2>1, Zenon DEF Inv, NodesAligned
<1>3. \A n \in P : n \in tree /\ t \in Holders(n)
  BY <1>2, Zenon DEF Holders
<1>4. \A n \in P : n.refs \in Nat /\ n.refs > 0 /\ n.refs = Cardinality(Holders(n))
  BY <1>3, TreeFacts, Zenon DEF Inv, RefsCountHolders
<1>5. ASSUME NEW n \in P \ dead
      PROVE  /\ Dec(n) \in Nodes
             /\ Dec(n).start = n.start /\ Dec(n).end = n.end /\ Dec(n).type = n.type
             /\ Dec(n).is_proxy = n.is_proxy
             /\ Dec(n).read_wanted = n.read_wanted /\ Dec(n).write_wanted = n.write_wanted
             /\ Dec(n).refs = n.refs - 1 /\ Dec(n).refs > 0
  <2>1. n \in Nodes /\ n.refs \in Nat /\ n.refs > 0 /\ n.refs # 1
    BY <1>3, <1>4, TreeFacts, Zenon
  <2> QED BY <2>1 DEF Nodes
<1>6. ASSUME NEW n \in dead PROVE Holders(n) = {t}
  <2>1. Cardinality(Holders(n)) = 1
    BY <1>4, Zenon
  <2>2. \E x : Holders(n) = {x}
    BY <2>1, FS_Singleton, HoldersFinite, Zenon
  <2> QED BY <2>2, <1>3, Zenon
<1>7. /\ req' = req
      /\ \A u \in Threads :
           /\ ptr'[u] = IF u = t THEN p ELSE ptr[u]
           /\ Holding(u)' <=> (u # t /\ Holding(u))
           /\ pc'[u] \in {"rd_wait", "wr_wait"} =>
                pc'[u] = pc[u] /\ waitAt'[u] = waitAt[u] /\ ~ Woken(u, dead)
      /\ tree' \subseteq Nodes => TypeOK'
  <2> HIDE DEF dead, p
  <2> QED BY <1>1, ReleasedFacts, Zenon
<1>d. dead \subseteq P /\ P \subseteq tree /\ \A n \in dead : n.refs = 1
  BY Zenon
<1>p. p # "live"
  BY Zenon
<1> HIDE DEF dead, p, Dec
<1>8. \A m \in tree' : \/ m \in tree \ P
                       \/ \E n \in P \ dead : m = Dec(n)
  BY <1>1, Zenon
<1>9. \A m \in tree' : \E k \in tree :
        /\ m.start = k.start /\ m.end = k.end /\ m.type = k.type
        /\ m.is_proxy = k.is_proxy
        /\ m.read_wanted = k.read_wanted /\ m.write_wanted = k.write_wanted
        /\ \/ m = k /\ k \notin P
           \/ m = Dec(k) /\ k \in P \ dead /\ m.refs = k.refs - 1 /\ m.refs > 0
  BY <1>8, <1>5, <1>d
<1>10. ASSUME NEW k \in tree, k \notin dead
       PROVE  \E m \in tree' :
                /\ m.start = k.start /\ m.end = k.end
                /\ m.read_wanted = k.read_wanted /\ m.write_wanted = k.write_wanted
  <2>1. CASE k \notin P
    BY <2>1, <1>1, Zenon
  <2>2. CASE k \in P
    BY <2>2, <1>10, <1>1, <1>5
  <2> QED BY <2>1, <2>2, Zenon
<1>11. TypeOK'
  <2>1. tree' \subseteq Nodes
    BY <1>5, <1>8 DEF Inv, TypeOK
  <2> QED BY <1>7, <2>1, Zenon
<1>12. TreeDisjoint'
  <2>1. \A m \in tree' : m.start < m.end
    BY <1>9, Zenon DEF Inv, TreeDisjoint
  <2>2. ASSUME NEW m1 \in tree', NEW m2 \in tree', Overlap(m1, m2) PROVE m1 = m2
    <3>1. PICK k1 \in tree : /\ m1.start = k1.start /\ m1.end = k1.end
                             /\ \/ m1 = k1 /\ k1 \notin P
                                \/ m1 = Dec(k1) /\ k1 \in P \ dead
      BY <1>9, Zenon
    <3>2. PICK k2 \in tree : /\ m2.start = k2.start /\ m2.end = k2.end
                             /\ \/ m2 = k2 /\ k2 \notin P
                                \/ m2 = Dec(k2) /\ k2 \in P \ dead
      BY <1>9, Zenon
    <3>3. k1 = k2
      BY <2>2, <3>1, <3>2, Zenon DEF Overlap, Inv, TreeDisjoint
    <3> QED BY <3>1, <3>2, <3>3, Zenon
  <2> QED BY <2>1, <2>2, Zenon DEF TreeDisjoint
<1>13. NodesAligned' /\ ReadWantedBehindWriter'
  BY <1>7, <1>9 DEF Inv, NodesAligned, ReadWantedBehindWriter, Overlap, Within
<1>14. GrantsCovered'
  <2> SUFFICES ASSUME NEW u \in Threads, Holding(u)',
                      NEW x \in req[u].start .. (req[u].end - 1)
               PROVE  \E m \in tree' : Contains(m, x)
    BY <1>7, Zenon DEF GrantsCovered
  <2>1. u # t /\ Holding(u)
    BY <1>7, Zenon
  <2>2. req[u].start \in Nat /\ req[u].end \in Nat
    BY <2>1, CallFacts, Zenon DEF Holding
  <2>3. PICK k \in tree : Contains(k, x)
    BY <2>1, Zenon DEF Inv, GrantsCovered
  <2>4. Overlap(k, req[u])
    BY <2>2, <2>3, TreeFacts DEF Contains, Overlap
  <2>5. k \notin dead
    BY <2>1, <2>4, <1>6 DEF Holders
  <2> QED BY <2>3, <2>5, <1>10, Zenon DEF Contains
<1>15. RefsCountHolders'
  <2>1. ASSUME NEW m \in tree \ P PROVE m.refs > 0 /\ m.refs = Cardinality(Holders(m)')
    <3>1. ~ Overlap(m, req[t])
      BY <1>2, Zenon
    <3>2. Holders(m)' = Holders(m)
      BY <1>7, <3>1, Zenon DEF Holders
    <3> QED BY <3>2, Zenon DEF Inv, RefsCountHolders
  <2>2. ASSUME NEW n \in P \ dead
        PROVE  Dec(n).refs > 0 /\ Dec(n).refs = Cardinality(Holders(Dec(n))')
    <3>1. Holders(Dec(n))' = Holders(n) \ {t}
      BY <1>5, <1>7, ZenonT(30) DEF Holders, Overlap
    <3>2. Cardinality(Holders(n) \ {t}) = Cardinality(Holders(n)) - 1
      BY <1>3, FS_RemoveElement, HoldersFinite, ZenonT(30)
    <3> QED BY <3>1, <3>2, <1>4, <1>5, SMTT(30)
  <2> QED BY <1>8, <2>1, <2>2, Zenon DEF RefsCountHolders
<1>16. HandlesMatchNodes'
  <2>1. ASSUME NEW u \in Threads, Holding(u)', ptr'[u] = "live"
        PROVE  \E m \in tree' : m.start = req[u].start /\ m.end = req[u].end
    <3>1. u # t /\ Holding(u) /\ ptr[u] = "live"
      BY <2>1, <1>7, SMTT(30)
    <3>2. PICK k \in tree : k.start = req[u].start /\ k.end = req[u].end
      BY <3>1, Zenon DEF Inv, HandlesMatchNodes
    <3>3. Overlap(k, req[u])
      BY <3>2, TreeFacts, Zenon DEF Overlap
    <3>4. k \notin dead
      BY <3>1, <3>3, <1>6, SMTT(30) DEF Holders
    <3> QED BY <3>2, <3>4, <1>10
  <2>2. ASSUME NEW u \in Threads, Holding(u)'
        PROVE  /\ \A m \in tree' : Overlap(m, req[u]) =>
                    m.type = req[u].type /\ (m.is_proxy <=> ptr'[u] # "live")
               /\ req[u].type = "writer" => ptr'[u] = "live"
    BY <2>2, <1>7, <1>9, SMTT(30) DEF Inv, HandlesMatchNodes, Overlap
  <2>3. \A u \in Threads : ptr'[u] = "live" => Holding(u)'
    BY <1>7, <1>p, SMTT(30) DEF Inv, HandlesMatchNodes
  <2>4. ASSUME NEW m \in tree'
        PROVE  /\ m.type = "writer" => ~ m.is_proxy
               /\ ~ m.is_proxy => m.refs = 1
    <3>1. \A n \in P : n.is_proxy
      BY <1>2, <1>d, Zenon DEF Inv, HandlesMatchNodes
    <3> QED BY <3>1, <1>9 DEF Inv, HandlesMatchNodes
  <2> QED BY <1>7, <2>1, <2>2, <2>3, <2>4, Zenon DEF HandlesMatchNodes
<1>17. WaitersFlagged'
  <2>1. ASSUME NEW u \in Threads, pc'[u] = "rd_wait"
        PROVE  \E m \in tree' : m.start = waitAt'[u] /\ m.read_wanted
    <3>1. PICK k \in tree : k.start = waitAt[u] /\ k.read_wanted
      BY <2>1, <1>7 DEF Inv, WaitersFlagged
    <3>2. k \notin dead
      BY <2>1, <3>1, <1>7, Zenon DEF Woken
    <3> QED BY <2>1, <3>1, <3>2, <1>7, <1>10, Zenon
  <2>2. ASSUME NEW u \in Threads, pc'[u] = "wr_wait"
        PROVE  \E m \in tree' : m.start = waitAt'[u] /\ m.write_wanted
    <3>1. PICK k \in tree : k.start = waitAt[u] /\ k.write_wanted
      BY <2>2, <1>7, SMTT(30) DEF Inv, WaitersFlagged
    <3>2. k \notin dead
      BY <2>2, <3>1, <1>7, Zenon DEF Woken
    <3> QED BY <2>2, <3>1, <3>2, <1>7, <1>10, SMTT(30)
  <2> QED BY <2>1, <2>2, Zenon DEF WaitersFlagged
<1> QED BY <1>11, <1>12, <1>13, <1>14, <1>15, <1>16, <1>17, Zenon DEF Inv

-----------------------------------------------------------------------------
\* A grant that shares nodes (add_reader with overlaps): the parts of the old
\* nodes and the gap proxies keep all the counts, cuts and coverage right.
LEMMA ShareNodesInv ==
  ASSUME Inv, NEW t \in Threads, NEW q \in Requests, q.type = "reader",
         pc[t] \in {"idle", "rd_woken", "wr_woken"},
         NEW O, O = Overlapping(q), ReaderBlockers(q) = {}, ShareNodes(t, q, O)
  PROVE  Inv'
<1> DEFINE G == Gaps(q, O)
           Q == UNION {Pieces(n, q) : n \in O}
<1>q. q.start \in Nat /\ q.end \in Nat /\ q.start < q.end
  BY RequestFacts, Zenon
<1>1. tree' = (tree \ O) \cup Q \cup G /\ Granted(t, q, Detached(O))
  BY Zenon DEF ShareNodes, Grown
<1>2. ASSUME NEW n \in O
      PROVE  /\ n \in tree /\ n \in Nodes /\ n.start \in Nat /\ n.end \in Nat
             /\ n.start < n.end /\ n.refs \in Nat /\ Overlap(n, q)
             /\ n.type = "reader" /\ ~ n.write_wanted /\ ~ n.read_wanted
  <2>1. n \in tree /\ Overlap(n, q)
    BY Zenon DEF Overlapping
  <2>2. n.type # "writer" /\ ~ n.write_wanted
    BY <1>2, Zenon DEF ReaderBlockers, Blocking
  <2> QED BY <2>1, <2>2, TreeFacts, Zenon DEF Inv, ReadWantedBehindWriter
<1>3. \A k \in tree \ O : ~ Overlap(k, q)
  BY Zenon DEF Overlapping
<1>4. O \subseteq Nodes /\ O \subseteq tree
  BY <1>2, Zenon
<1>5. \A m \in tree' : m \in tree \ O \/ (\E n \in O : m \in Pieces(n, q)) \/ m \in G
  BY <1>1, Zenon
<1>6. \A n \in O : \A m \in Pieces(n, q) : m \in tree'
  BY <1>1, Zenon
<1> HIDE DEF Q
<1>7. \A n \in O : \A m \in Pieces(n, q) :
        /\ m \in Nodes
        /\ m.start \in Nat /\ m.end \in Nat
        /\ m.start < m.end
        /\ Within(m, n)
        /\ m.type = "reader" /\ m.is_proxy
        /\ ~ m.read_wanted /\ ~ m.write_wanted
        /\ \/ Within(m, q) /\ m.refs = n.refs + 1
           \/ ~ Overlap(m, q) /\ m.refs = n.refs
  BY <1>2, PieceFacts, NodeFacts
<1> HIDE DEF G
<1>8. ASSUME NEW g \in G
      PROVE  /\ g \in Nodes
             /\ g.start \in Nat /\ g.end \in Nat
             /\ g.start < g.end /\ Within(g, q)
             /\ g.type = "reader" /\ g.is_proxy /\ g.refs = 1
             /\ ~ g.read_wanted /\ ~ g.write_wanted
             /\ \A n \in O : ~ Overlap(n, g)
  <2>1. g \in Gaps(q, O) /\ O \subseteq Nodes
    BY <1>4, Zenon DEF G
  <2>2. g \in Nodes
    BY <2>1, GapFacts, Zenon
  <2>3. g.start \in Nat /\ g.end \in Nat
    BY <2>2, NodeFacts, Zenon
  <2> QED BY <2>1, <2>2, <2>3, GapFacts, Zenon
<1>9. Detached(O) \in [Threads -> Pointers]
  BY Zenon DEF Detached, Inv, TypeOK, Pointers
<1>10. /\ \A u \in Threads : /\ pc'[u] = IF u = t THEN "held" ELSE pc[u]
                             /\ req'[u] = IF u = t THEN q ELSE req[u]
                             /\ waitAt'[u] = IF u = t THEN 0 ELSE waitAt[u]
       /\ \A u \in Threads : Holding(u)' <=> (u = t \/ Holding(u))
       /\ ptr' = Detached(O)
       /\ tree' \subseteq Nodes => TypeOK'
  BY <1>1, <1>9, GrantedFacts, SMTT(30)
<1>11. \A u \in Threads :
         ptr'[u] = IF ptr[u] = "live" /\ \E n \in O : ~ n.is_proxy /\ n.start = req[u].start
                     THEN "detached" ELSE ptr[u]
  BY <1>10, Zenon DEF Detached
<1>12. ~ Holding(t) /\ ptr[t] # "live"
  BY Zenon DEF Holding, Inv, HandlesMatchNodes
<1>13. ASSUME NEW u \in Threads, Holding(u), NEW g \in G
       PROVE  ~ Overlap(g, req[u])
  <2> SUFFICES ASSUME Overlap(g, req[u]) PROVE FALSE
    BY SMTT(30)
  <2>1. PICK n \in tree : Overlap(n, g)
    BY <1>8, <1>13, CommonNode, Zenon
  <2>2. Overlap(n, q)
    BY <2>1, <1>8, <1>q, TreeFacts, SMTT(30) DEF Overlap, Within
  <2> QED BY <2>1, <2>2, <1>3, <1>8, Zenon
<1>14. TypeOK'
  <2>1. tree' \subseteq Nodes
    BY <1>5, <1>7, <1>8, Zenon DEF Inv, TypeOK
  <2> QED BY <1>10, <2>1, Zenon
<1>15. TreeDisjoint'
  <2>1. \A m \in tree' : m.start < m.end
    BY <1>5, <1>7, <1>8, Zenon DEF Inv, TreeDisjoint
  <2>2. \A k1, k2 \in tree : k1 # k2 => ~ Overlap(k1, k2)
    BY Zenon DEF Inv, TreeDisjoint
  <2>3. ASSUME NEW k \in tree, NEW n \in O, k # n, NEW m \in Pieces(n, q)
        PROVE  ~ Overlap(k, m) /\ ~ Overlap(m, k)
    <3>1. ~ Overlap(k, n)
      BY <2>2, <2>3, <1>2, Zenon
    <3> QED BY <3>1, <1>2, <1>7, TreeFacts, SMTT(30) DEF Overlap, Within
  <2>4. ASSUME NEW k \in tree \ O, NEW g \in G
        PROVE  ~ Overlap(k, g) /\ ~ Overlap(g, k)
    BY <1>3, <1>8, <1>q, TreeFacts, SMTT(30) DEF Overlap, Within
  <2>5. ASSUME NEW n1 \in O, NEW n2 \in O, n1 # n2,
               NEW m1 \in Pieces(n1, q), NEW m2 \in Pieces(n2, q)
        PROVE  ~ Overlap(m1, m2)
    <3>1. ~ Overlap(n1, n2)
      BY <2>2, <2>5, <1>2, Zenon
    <3> QED BY <3>1, <1>2, <1>7 DEF Overlap, Within
  <2>6. ASSUME NEW n \in O, NEW m \in Pieces(n, q), NEW g \in G
        PROVE  ~ Overlap(m, g) /\ ~ Overlap(g, m)
    <3>1. ~ Overlap(n, g)
      BY <1>8, Zenon
    <3> QED BY <3>1, <1>2, <1>7, <1>8, SMTT(30) DEF Overlap, Within
  <2>7. ASSUME NEW n \in O, NEW m1 \in Pieces(n, q), NEW m2 \in Pieces(n, q), m1 # m2
        PROVE  ~ Overlap(m1, m2)
    BY <2>7, <1>2, PiecesDisjoint, Zenon
  <2>8. ASSUME NEW g \in G, NEW h \in G, g # h PROVE ~ Overlap(g, h)
    BY <2>8, <1>2, <1>4, GapsDisjoint, Zenon DEF G
  <2>9. ASSUME NEW m1 \in tree', NEW m2 \in tree', m1 # m2 PROVE ~ Overlap(m1, m2)
    <3>1. CASE m1 \in tree \ O
      BY <3>1, <2>9, <1>2, <1>5, <2>2, <2>3, <2>4, Zenon
    <3>2. CASE \E n \in O : m1 \in Pieces(n, q)
      <4>1. PICK n \in O : m1 \in Pieces(n, q)
        BY <3>2, Zenon
      <4>2. CASE m2 \in tree \ O
        BY <4>1, <4>2, <2>3, Zenon
      <4>3. CASE \E k \in O : m2 \in Pieces(k, q)
        BY <4>1, <4>3, <2>5, <2>7, <2>9, Zenon
      <4>4. CASE m2 \in G
        BY <4>1, <4>4, <2>6, Zenon
      <4> QED BY <4>2, <4>3, <4>4, <1>5, Zenon
    <3>3. CASE m1 \in G
      BY <3>3, <2>9, <1>5, <2>4, <2>6, <2>8, SMTT(30)
    <3> QED BY <3>1, <3>2, <3>3, <1>5, Zenon
  <2> QED BY <2>1, <2>9, Zenon DEF TreeDisjoint
<1>16. NodesAligned'
  <2> SUFFICES ASSUME NEW u \in Threads, Holding(u)', NEW m \in tree', Overlap(m, req'[u])
               PROVE  Within(m, req'[u])
    BY SMTT(30) DEF NodesAligned
  <2>1. CASE u = t
    BY <2>1, <1>3, <1>5, <1>7, <1>8, <1>10, SMTT(30)
  <2>2. CASE u # t
    <3>1. Holding(u) /\ req'[u] = req[u]
      BY <2>2, <1>10, ZenonT(30)
    <3>r. req[u].start \in Nat /\ req[u].end \in Nat
      BY <3>1, CallFacts, Zenon DEF Holding
    <3>2. CASE m \in tree \ O
      BY <3>1, <3>2, SMTT(30) DEF Inv, NodesAligned
    <3>3. CASE \E n \in O : m \in Pieces(n, q)
      <4>1. PICK n \in O : m \in Pieces(n, q)
        BY <3>3, Zenon
      <4>2. Overlap(n, req[u])
        BY <3>1, <3>r, <4>1, <1>2, <1>7, SMTT(30) DEF Overlap, Within
      <4>3. Within(n, req[u])
        BY <4>2, <3>1, <1>2, SMTT(30) DEF Inv, NodesAligned
      <4> QED BY <4>1, <4>3, <3>1, <3>r, <1>2, <1>7, SMTT(30) DEF Within
    <3>4. CASE m \in G
      BY <3>1, <3>4, <1>13, SMTT(30)
    <3> QED BY <3>2, <3>3, <3>4, <1>5, Zenon
  <2> QED BY <2>1, <2>2, Zenon
<1>17. GrantsCovered'
  <2>1. ASSUME NEW x \in Nat, NEW k \in tree, Contains(k, x)
        PROVE  \E m \in tree' : Contains(m, x)
    <3>1. CASE k \in O
      BY <2>1, <3>1, <1>2, <1>6, PiecesCover, Zenon
    <3>2. CASE k \notin O
      BY <2>1, <3>2, <1>1, Zenon
    <3> QED BY <3>1, <3>2, Zenon
  <2>2. ASSUME NEW x \in Nat, Contains(q, x)
        PROVE  \E m \in tree' : Contains(m, x)
    <3>1. CASE \E n \in O : Contains(n, x)
      BY <3>1, <2>1, <1>4, Zenon
    <3>2. CASE \A n \in O : ~ Contains(n, x)
      <4>1. \E g \in G : Contains(g, x)
        BY <2>2, <3>2, <1>4, GapsCover, Zenon DEF G
      <4> QED BY <4>1, <1>1, Zenon
    <3> QED BY <3>1, <3>2, Zenon
  <2> SUFFICES ASSUME NEW u \in Threads, Holding(u)',
                      NEW x \in req'[u].start .. (req'[u].end - 1)
               PROVE  \E m \in tree' : Contains(m, x)
    BY Zenon DEF GrantsCovered
  <2>3. CASE u = t
    <3>1. x \in Nat /\ Contains(q, x)
      BY <2>3, <1>q, <1>10, SMTT(30) DEF Contains
    <3> QED BY <3>1, <2>2, SMTT(30)
  <2>4. CASE u # t
    <3>1. Holding(u) /\ req'[u] = req[u]
      BY <2>4, <1>10, Zenon
    <3>2. req[u].start \in Nat /\ req[u].end \in Nat
      BY <3>1, CallFacts, Zenon DEF Holding
    <3>3. x \in Nat /\ x \in req[u].start .. (req[u].end - 1)
      BY <3>1, <3>2
    <3>4. PICK k \in tree : Contains(k, x)
      BY <3>1, <3>3, Zenon DEF Inv, GrantsCovered
    <3> QED BY <3>3, <3>4, <2>1, SMTT(30)
  <2> QED BY <2>3, <2>4, Zenon
<1>18. RefsCountHolders'
  <2>1. ASSUME NEW m \in tree \ O PROVE m.refs > 0 /\ m.refs = Cardinality(Holders(m)')
    <3>1. Holders(m)' = Holders(m)
      BY <1>3, <1>10, <1>12, Zenon DEF Holders
    <3> QED BY <3>1, Zenon DEF Inv, RefsCountHolders
  <2>2. ASSUME NEW n \in O, NEW m \in Pieces(n, q)
        PROVE  m.refs > 0 /\ m.refs = Cardinality(Holders(m)')
    <3>1. n.refs > 0 /\ n.refs = Cardinality(Holders(n))
      BY <1>2, Zenon DEF Inv, RefsCountHolders
    <3>2. ASSUME NEW u \in Threads, Holding(u)
          PROVE  Overlap(m, req[u]) <=> Overlap(n, req[u])
      <4>1. req[u].start \in Nat /\ req[u].end \in Nat
        BY <3>2, CallFacts, Zenon DEF Holding
      <4>2. Overlap(n, req[u]) => Within(n, req[u])
        BY <3>2, <1>2, Zenon DEF Inv, NodesAligned
      <4> QED BY <4>1, <4>2, <1>2, <1>7, SMTT(30) DEF Overlap, Within
    <3>3. t \notin Holders(n)
      BY <1>12, Zenon DEF Holders
    <3>4. CASE Within(m, q) /\ m.refs = n.refs + 1
      <4>1. Overlap(m, q)
        BY <3>4, <1>q, <1>7 DEF Overlap, Within
      <4>2. Holders(m)' = Holders(n) \cup {t}
        BY <4>1, <3>2, <1>10, <1>12, ZenonT(30) DEF Holders
      <4>3. Cardinality(Holders(n) \cup {t}) = Cardinality(Holders(n)) + 1
        BY <3>3, FS_AddElement, HoldersFinite, Zenon
      <4> QED BY <4>2, <4>3, <3>1, <3>4, <1>2
    <3>5. CASE ~ Overlap(m, q) /\ m.refs = n.refs
      <4>1. Holders(m)' = Holders(n)
        BY <3>5, <3>2, <1>10, <1>12, ZenonT(30) DEF Holders
      <4> QED BY <4>1, <3>1, <3>5, Zenon
    <3> QED BY <3>4, <3>5, <1>7, Zenon
  <2>3. ASSUME NEW g \in G PROVE g.refs > 0 /\ g.refs = Cardinality(Holders(g)')
    <3>1. Overlap(g, q)
      BY <1>q, <1>8, SMTT(30) DEF Overlap, Within
    <3>2. Holders(g)' = {t}
      BY <3>1, <1>10, <1>12, <1>13, ZenonT(30) DEF Holders
    <3>3. Cardinality({t}) = 1
      BY FS_Singleton, Zenon
    <3> QED BY <3>2, <3>3, <1>8
  <2> QED BY <1>5, <2>1, <2>2, <2>3, Zenon DEF RefsCountHolders
<1>19. HandlesMatchNodes'
  <2>0. ASSUME NEW u \in Threads, Holding(u), ptr[u] = "live",
               NEW n \in tree, Overlap(n, req[u])
        PROVE  n.start = req[u].start /\ n.end = req[u].end /\ ~ n.is_proxy
    <3>1. PICK k \in tree : k.start = req[u].start /\ k.end = req[u].end
      BY <2>0, Zenon DEF Inv, HandlesMatchNodes
    <3>2. Overlap(n, k)
      BY <2>0, <3>1, Zenon DEF Overlap
    <3>3. n = k
      BY <3>2, Zenon DEF Inv, TreeDisjoint
    <3> QED BY <2>0, <3>1, <3>3, SMTT(30) DEF Inv, HandlesMatchNodes
  <2>1. ASSUME NEW u \in Threads, Holding(u)', NEW m \in tree', Overlap(m, req'[u])
        PROVE  m.type = req'[u].type /\ (m.is_proxy <=> ptr'[u] # "live")
    <3>1. CASE u = t
      <4>1. req'[u] = q
        BY <3>1, <1>10, ZenonT(30)
      <4>2. ptr'[u] # "live"
        BY <3>1, <1>11, <1>12, ZenonT(30)
      <4>3. m \notin tree \ O
        BY <2>1, <4>1, <1>3, ZenonT(30)
      <4>4. m.type = "reader" /\ m.is_proxy
        BY <4>3, <1>5, <1>7, <1>8, ZenonT(30)
      <4> QED BY <4>1, <4>2, <4>4, ZenonT(30)
    <3>2. CASE u # t
      <4>1. Holding(u) /\ req'[u] = req[u]
        BY <2>1, <3>2, <1>10, ZenonT(30)
      <4>r. req[u].start \in Nat /\ req[u].end \in Nat
        BY <4>1, CallFacts, ZenonT(30) DEF Holding
      <4>2. CASE m \in tree \ O
        <5>1. m.type = req[u].type /\ (m.is_proxy <=> ptr[u] # "live")
          BY <2>1, <4>1, <4>2, Zenon DEF Inv, HandlesMatchNodes
        <5>2. CASE ptr[u] = "live"
          <6>1. m.start = req[u].start
            BY <2>0, <2>1, <4>1, <4>2, <5>2, ZenonT(30)
          <6>2. ASSUME NEW n \in O, n.start = req[u].start PROVE FALSE
            <7>1. Overlap(n, m)
              BY <6>1, <6>2, <4>2, <1>2, TreeFacts, SMTT(30) DEF Overlap
            <7> QED BY <7>1, <4>2, <1>2, Zenon DEF Inv, TreeDisjoint
          <6>3. ptr'[u] = "live"
            BY <6>2, <5>2, <1>11, Zenon
          <6> QED BY <5>1, <5>2, <6>3, <4>1, Zenon
        <5>3. CASE ptr[u] # "live"
          BY <5>1, <5>3, <4>1, <1>11, SMTT(30)
        <5> QED BY <5>2, <5>3, Zenon
      <4>3. CASE \E n \in O : m \in Pieces(n, q)
        <5>1. PICK n \in O : m \in Pieces(n, q)
          BY <4>3, Zenon
        <5>2. Overlap(n, req[u])
          BY <2>1, <4>1, <4>r, <5>1, <1>2, <1>7, SMTT(30) DEF Overlap, Within
        <5>3. n.type = req[u].type
          BY <5>2, <4>1, <1>2, SMTT(30) DEF Inv, HandlesMatchNodes
        <5>4. ptr'[u] # "live"
          BY <2>0, <5>2, <4>1, <1>2, <1>11, SMTT(30)
        <5> QED BY <5>1, <5>3, <5>4, <4>1, <1>2, <1>7, Zenon
      <4>4. CASE m \in G
        BY <2>1, <4>1, <4>4, <1>13, SMTT(30)
      <4> QED BY <4>2, <4>3, <4>4, <1>5, Zenon
    <3> QED BY <3>1, <3>2, Zenon
  <2>2. ASSUME NEW u \in Threads, Holding(u)', ptr'[u] = "live"
        PROVE  \E m \in tree' : m.start = req'[u].start /\ m.end = req'[u].end
    <3>1. u # t /\ ptr[u] = "live" /\ Holding(u) /\ req'[u] = req[u]
      BY <2>2, <1>10, <1>11, <1>12, ZenonT(30)
    <3>2. PICK k \in tree : k.start = req[u].start /\ k.end = req[u].end
      BY <3>1, Zenon DEF Inv, HandlesMatchNodes
    <3>3. Overlap(k, req[u])
      BY <3>2, TreeFacts, Zenon DEF Overlap
    <3>4. k \notin O
      BY <2>0, <2>2, <3>1, <3>2, <3>3, <1>11, ZenonT(30)
    <3> QED BY <3>1, <3>2, <3>4, <1>1, Zenon
  <2>3. ASSUME NEW u \in Threads, Holding(u)', req'[u].type = "writer"
        PROVE  ptr'[u] = "live"
    <3>1. u # t /\ Holding(u) /\ req'[u] = req[u]
      BY <2>3, <1>10, SMTT(30)
    <3>2. ptr[u] = "live"
      BY <2>3, <3>1, Zenon DEF Inv, HandlesMatchNodes
    <3>3. ASSUME NEW n \in O, n.start = req[u].start PROVE FALSE
      <4>1. Overlap(n, req[u])
        BY <3>1, <3>3, <1>2, CallFacts, SMTT(30) DEF Overlap, Holding
      <4>2. n.type = "writer"
        BY <4>1, <2>3, <3>1, <1>2, SMTT(30) DEF Inv, HandlesMatchNodes
      <4> QED BY <4>2, <1>2, Zenon
    <3> QED BY <3>2, <3>3, <1>11, SMTT(30)
  <2>4. \A u \in Threads : ptr'[u] = "live" => Holding(u)'
    BY <1>10, <1>11, SMTT(30) DEF Inv, HandlesMatchNodes
  <2>5. \A m \in tree' : /\ m.type = "writer" => ~ m.is_proxy
                         /\ ~ m.is_proxy => m.refs = 1
    BY <1>5, <1>7, <1>8, Zenon DEF Inv, HandlesMatchNodes
  <2> QED BY <2>1, <2>2, <2>3, <2>4, <2>5, ZenonT(30) DEF HandlesMatchNodes
<1>20. ReadWantedBehindWriter'
  BY <1>5, <1>7, <1>8, Zenon DEF Inv, ReadWantedBehindWriter
<1>21. WaitersFlagged'
  <2>1. \A k \in tree : k.read_wanted \/ k.write_wanted => k \in tree'
    BY <1>1, <1>2, Zenon
  <2> QED BY <2>1, <1>10, Zenon DEF Inv, WaitersFlagged
<1> QED BY <1>14, <1>15, <1>16, <1>17, <1>18, <1>19, <1>20, <1>21, Zenon DEF Inv

-----------------------------------------------------------------------------
\* Destroying a handle after its unlock touches no node.
LEMMA DestroyHandleInv ==
  ASSUME Inv, NEW t \in Threads, DestroyHandle(t)
  PROVE  Inv'
<1>1. TypeOK
  BY Zenon DEF Inv
<1>2. /\ tree' = tree /\ waitAt' = waitAt
      /\ \A u \in Threads : /\ pc'[u] = IF u = t THEN "idle" ELSE pc[u]
                            /\ req'[u] = IF u = t THEN NoRequest ELSE req[u]
                            /\ ptr'[u] = IF u = t THEN "null" ELSE ptr[u]
      /\ pc[t] = "unlocked"
  BY <1>1, Zenon DEF DestroyHandle, TypeOK
<1>3. \A u \in Threads : /\ Holding(u)' <=> Holding(u)
                         /\ Holding(u) => req'[u] = req[u] /\ ptr'[u] = ptr[u]
  BY <1>2, Zenon DEF Holding
<1>4. \A m : Holders(m)' = Holders(m)
  BY <1>3, Zenon DEF Holders
<1>5. TypeOK'
  <2>1. pc' \in [Threads -> {"idle", "rd_wait", "rd_woken", "wr_wait", "wr_woken",
                             "held", "unlocked"}]
    BY <1>1, Zenon DEF TypeOK, DestroyHandle
  <2>2. req' \in [Threads -> Requests \cup {NoRequest}]
    BY <1>1, Zenon DEF TypeOK, DestroyHandle
  <2>3. ptr' \in [Threads -> Pointers]
    BY <1>1, Zenon DEF TypeOK, DestroyHandle, Pointers
  <2>4. status' \in {"running", "segv", "double_free"}
    BY Zenon DEF DestroyHandle
  <2>5. \A u \in Threads : /\ pc'[u] # "idle" => req'[u] \in Requests
                           /\ pc'[u] \in {"rd_wait", "rd_woken"} => req'[u].type = "reader"
                           /\ pc'[u] \in {"wr_wait", "wr_woken"} => req'[u].type = "writer"
    BY <1>1, <1>2, Zenon DEF TypeOK
  <2> QED BY <1>1, <1>2, <2>1, <2>2, <2>3, <2>4, <2>5, Zenon DEF TypeOK
<1>6. TreeDisjoint' /\ ReadWantedBehindWriter'
  BY <1>2, Zenon DEF Inv, TreeDisjoint, ReadWantedBehindWriter
<1>7. NodesAligned' /\ GrantsCovered'
  BY <1>2, <1>3, Zenon DEF Inv, NodesAligned, GrantsCovered
<1>8. RefsCountHolders'
  BY <1>2, <1>4, SMTT(30) DEF Inv, RefsCountHolders
<1>9. HandlesMatchNodes'
  <2>1. \A u \in Threads : ptr'[u] = "live" => ptr[u] = "live"
    BY <1>2, Zenon
  <2> QED BY <1>2, <1>3, <2>1, SMTT(30) DEF Inv, HandlesMatchNodes
<1>10. WaitersFlagged'
  BY <1>2, Zenon DEF Inv, WaitersFlagged
<1> QED BY <1>5, <1>6, <1>7, <1>8, <1>9, <1>10, Zenon DEF Inv

\* A spurious wake-up changes only where the thread is.
LEMMA SpuriousWakeInv ==
  ASSUME Inv, NEW t \in Threads, SpuriousWake(t)
  PROVE  Inv'
<1>1. TypeOK
  BY DEF Inv
<1>2. /\ tree' = tree /\ req' = req /\ ptr' = ptr /\ status' = status
      /\ \A u \in Threads : /\ pc'[u] = IF u = t THEN WakeState(t) ELSE pc[u]
                            /\ waitAt'[u] = IF u = t THEN 0 ELSE waitAt[u]
      /\ pc[t] \in {"rd_wait", "wr_wait"}
  BY <1>1, Zenon DEF SpuriousWake, TypeOK
<1>3. WakeState(t) \in {"rd_woken", "wr_woken"}
  BY Zenon DEF WakeState
<1>4. \A u \in Threads : Holding(u)' <=> Holding(u)
  BY <1>2, <1>3, Zenon DEF Holding
<1>5. \A m : Holders(m)' = Holders(m)
  BY <1>2, <1>4, Zenon DEF Holders
<1>6. TypeOK'
  <2>1. pc' \in [Threads -> {"idle", "rd_wait", "rd_woken", "wr_wait", "wr_woken",
                             "held", "unlocked"}]
    BY <1>1, <1>3, Zenon DEF TypeOK, SpuriousWake
  <2>2. waitAt' \in [Threads -> Nat]
    BY <1>1, Zenon DEF TypeOK, SpuriousWake
  <2>3. \A u \in Threads : /\ pc'[u] # "idle" => req'[u] \in Requests
                           /\ pc'[u] \in {"rd_wait", "rd_woken"} => req'[u].type = "reader"
                           /\ pc'[u] \in {"wr_wait", "wr_woken"} => req'[u].type = "writer"
    BY <1>1, <1>2, Zenon DEF TypeOK, WakeState
  <2> QED BY <1>1, <1>2, <2>1, <2>2, <2>3, Zenon DEF TypeOK
<1>7. TreeDisjoint' /\ ReadWantedBehindWriter'
  BY <1>2, Zenon DEF Inv, TreeDisjoint, ReadWantedBehindWriter
<1>8. NodesAligned' /\ GrantsCovered'
  BY <1>2, <1>4, Zenon DEF Inv, NodesAligned, GrantsCovered
<1>9. RefsCountHolders'
  BY <1>2, <1>5, SMTT(30) DEF Inv, RefsCountHolders
<1>10. HandlesMatchNodes'
  BY <1>2, <1>4, SMTT(30) DEF Inv, HandlesMatchNodes
<1>11. WaitersFlagged'
  BY <1>2, <1>3, Zenon DEF Inv, WaitersFlagged
<1> QED BY <1>6, <1>7, <1>8, <1>9, <1>10, <1>11 DEF Inv

\* A step that changes no variable but status.
LEMMA StatusInv ==
  ASSUME Inv, UNCHANGED <<tree, pc, req, ptr, waitAt>>,
         status' \in {"running", "segv", "double_free"}
  PROVE  Inv'
<1>1. TypeOK'
  BY Zenon DEF Inv, TypeOK
<1>2. TreeDisjoint' /\ ReadWantedBehindWriter' /\ WaitersFlagged'
  BY Zenon DEF Inv, TreeDisjoint, ReadWantedBehindWriter, WaitersFlagged
<1>3. \A t \in Threads : Holding(t)' <=> Holding(t)
  BY Zenon DEF Holding
<1>4. \A n : Holders(n)' = Holders(n)
  BY <1>3, SMTT(30) DEF Holders
<1>5. NodesAligned' /\ GrantsCovered'
  BY <1>3, Zenon DEF Inv, NodesAligned, GrantsCovered
<1>6. RefsCountHolders'
  BY <1>4, Zenon DEF Inv, RefsCountHolders
<1>7. HandlesMatchNodes'
  BY <1>3, Zenon DEF Inv, HandlesMatchNodes
<1> QED BY <1>1, <1>2, <1>5, <1>6, <1>7, Zenon DEF Inv

\* A reader's attempt, first or repeated.
LEMMA ReaderAttemptInv ==
  ASSUME Inv, NEW t \in Threads, NEW q \in Requests, q.type = "reader",
         pc[t] \in {"idle", "rd_woken"}, ReaderAttempt(t, q)
  PROVE  Inv'
<1> DEFINE B == ReaderBlockers(q)
<1>1. CASE B = {} /\ AddReader(t, q)
  <2>1. CASE Overlapping(q) = {} /\ InsertNode(t, q)
    BY <2>1, InsertNodeInv, Zenon
  <2>2. CASE ShareNodes(t, q, Overlapping(q))
    BY <1>1, <2>2, ShareNodesInv, SMTT(30)
  <2> QED BY <1>1, <2>1, <2>2, Zenon DEF AddReader
<1>2. CASE B # {} /\ ReaderWait(t, q, First(B))
  <2>1. B \subseteq Nodes /\ B \subseteq tree
    BY Zenon DEF ReaderBlockers, Blocking, Overlapping, Inv, TypeOK
  <2>2. First(B) \in B
    BY <1>2, <2>1, FirstIn, Zenon
  <2>3. PICK n \in tree : n = First(B) /\ (n.type = "writer" \/ n.write_wanted)
    BY <2>1, <2>2, Zenon DEF ReaderBlockers, Blocking
  <2> DEFINE f == [n EXCEPT !.read_wanted = TRUE]
  <2>4. /\ f \in Nodes
        /\ f.start = n.start /\ f.end = n.end /\ f.type = n.type /\ f.refs = n.refs
        /\ f.is_proxy = n.is_proxy /\ f.write_wanted = n.write_wanted /\ f.read_wanted
    BY TreeFacts, Zenon DEF Nodes
  <2>5. Wait(t, q, n, f, "rd_wait")
    BY <1>2, <2>3, Zenon DEF ReaderWait
  <2> HIDE DEF f
  <2> QED BY <2>3, <2>4, <2>5, WaitInv, SMTT(30)
<1> QED BY <1>1, <1>2, Zenon DEF ReaderAttempt

\* A writer's attempt, first or repeated.
LEMMA WriterAttemptInv ==
  ASSUME Inv, NEW t \in Threads, NEW q \in Requests, q.type = "writer",
         pc[t] \in {"idle", "wr_woken"}, WriterAttempt(t, q)
  PROVE  Inv'
<1>1. CASE Overlapping(q) = {} /\ InsertNode(t, q)
  BY <1>1, InsertNodeInv, SMTT(30)
<1>2. CASE Overlapping(q) # {} /\ WriterWait(t, q, WriterBlocker(q))
  <2> DEFINE O == Overlapping(q)
             A == {n \in O : q.start <= n.start}
             S == IF A # {} THEN A ELSE O
  <2>1. S \subseteq Nodes /\ S \subseteq tree /\ S # {}
    BY <1>2, Zenon DEF Overlapping, Inv, TypeOK
  <2>2. WriterBlocker(q) = First(S)
    BY Zenon DEF WriterBlocker, Met
  <2> HIDE DEF S
  <2>3. PICK n \in tree : n = WriterBlocker(q)
    BY <2>1, <2>2, FirstIn, Zenon
  <2> DEFINE f == [n EXCEPT !.write_wanted = TRUE]
  <2>4. /\ f \in Nodes
        /\ f.start = n.start /\ f.end = n.end /\ f.type = n.type /\ f.refs = n.refs
        /\ f.is_proxy = n.is_proxy /\ f.read_wanted = n.read_wanted /\ f.write_wanted
    BY TreeFacts, ZenonT(30) DEF Nodes
  <2>5. Wait(t, q, n, f, "wr_wait")
    BY <1>2, <2>3, Zenon DEF WriterWait
  <2> HIDE DEF f
  <2> QED BY <2>4, <2>5, WaitInv, SMTT(30)
<1> QED BY <1>1, <1>2, Zenon DEF WriterAttempt

\* Every step preserves Inv.
LEMMA StepInv == Inv /\ [Next]_vars => Inv'
<1> SUFFICES ASSUME Inv, [Next]_vars PROVE Inv'
  BY Zenon
<1>0. TypeOK
  BY Zenon DEF Inv
<1>1. CASE UNCHANGED vars
  BY <1>0, <1>1, StatusInv, Zenon DEF vars, TypeOK
<1>2. CASE Dead
  BY <1>0, <1>2, StatusInv, Zenon DEF Dead, vars, TypeOK
<1>3. ASSUME NEW t \in Threads, LockReader(t) PROVE Inv'
  BY <1>3, ReaderAttemptInv, Zenon DEF LockReader
<1>4. ASSUME NEW t \in Threads, RetryReader(t) PROVE Inv'
  <2>1. pc[t] = "rd_woken" /\ req[t] \in Requests /\ req[t].type = "reader"
    BY <1>0, <1>4, Zenon DEF RetryReader, TypeOK
  <2>2. CASE ReaderAttempt(t, req[t])
    BY <2>1, <2>2, ReaderAttemptInv, Zenon
  <2>3. CASE status' = "segv" /\ UNCHANGED <<tree, pc, req, ptr, waitAt>>
    BY <2>3, StatusInv, Zenon
  <2> QED BY <1>4, <2>2, <2>3, Zenon DEF RetryReader
<1>5. ASSUME NEW t \in Threads, LockWriter(t) PROVE Inv'
  BY <1>5, WriterAttemptInv, Zenon DEF LockWriter
<1>6. ASSUME NEW t \in Threads, RetryWriter(t) PROVE Inv'
  <2>1. pc[t] = "wr_woken" /\ req[t] \in Requests /\ req[t].type = "writer"
    BY <1>0, <1>6, Zenon DEF RetryWriter, TypeOK
  <2> QED BY <1>6, <2>1, WriterAttemptInv, Zenon DEF RetryWriter
<1>7. ASSUME NEW t \in Threads, UnlockReader(t) PROVE Inv'
  <2>1. Holding(t)
    BY <1>7, Zenon DEF UnlockReader, Holding
  <2>2. CASE ptr[t] = "live" /\ RemoveNode(t)
    BY <2>1, <2>2, RemoveNodeInv, Zenon
  <2>3. CASE ptr[t] # "live" /\ DropReferences(t, {n \in tree : Within(n, req[t])})
    BY <2>1, <2>3, DropReferencesInv, Zenon
  <2> QED BY <1>7, <2>2, <2>3, Zenon DEF UnlockReader
<1>8. ASSUME NEW t \in Threads, UnlockWriter(t) PROVE Inv'
  <2>1. Holding(t) /\ req[t].type = "writer" /\ RemoveNode(t)
    BY <1>8, Zenon DEF UnlockWriter, Holding
  <2>2. ptr[t] = "live"
    BY <2>1, Zenon DEF Inv, HandlesMatchNodes
  <2> QED BY <2>1, <2>2, RemoveNodeInv, Zenon
<1>9. ASSUME NEW t \in Threads, DestroyHandle(t) PROVE Inv'
  BY <1>9, DestroyHandleInv, Zenon
<1>10. ASSUME NEW t \in Threads, SpuriousWake(t) PROVE Inv'
  BY <1>10, SpuriousWakeInv, Zenon
<1> QED BY <1>1, <1>2, <1>3, <1>4, <1>5, <1>6, <1>7, <1>8, <1>9, <1>10, Zenon DEF Next, Step

\* Inv is an invariant of the lock manager.
THEOREM Invariance == Spec => []Inv
BY InitInv, StepInv, PTL DEF Spec

-----------------------------------------------------------------------------
\* Two handles over a common byte hold a common node: if one is a writer the
\* node has one reference, so they are the same handle.
LEMMA InvExclusion == Inv => WriterExclusion
<1> SUFFICES ASSUME Inv, NEW t \in Threads, NEW u \in Threads, t # u,
                    Holding(t), Holding(u), Overlap(req[t], req[u]),
                    req[t].type = "writer" \/ req[u].type = "writer"
             PROVE  FALSE
  <2>1. ASSUME Inv, NEW v \in Threads, Holding(v)
        PROVE  req[v].type \in {"reader", "writer"}
    BY <2>1, CallFacts, RequestFacts, Zenon DEF Holding
  <2> QED BY <2>1, Zenon DEF WriterExclusion
<1>1. /\ req[t].start \in Nat /\ req[t].end \in Nat /\ req[t].start < req[t].end
  BY CallFacts, Zenon DEF Holding
<1>2. PICK n \in tree : Overlap(n, req[t]) /\ Overlap(n, req[u])
  BY <1>1, CommonNode, Zenon
<1>3. n.type = "writer"
  BY <1>2, Zenon DEF Inv, HandlesMatchNodes
<1>4. n.refs = 1
  BY <1>3, Zenon DEF Inv, HandlesMatchNodes
<1>5. Cardinality(Holders(n)) = 1
  BY <1>4, Zenon DEF Inv, RefsCountHolders
<1>6. \E x : Holders(n) = {x}
  BY <1>5, HoldersFinite, FS_Singleton, ZenonT(30)
<1>7. t \in Holders(n) /\ u \in Holders(n)
  BY <1>2, Zenon DEF Holders
<1> QED BY <1>6, <1>7, Zenon

\* Mutual exclusion of lock_range: a granted writer shares no byte with any
\* other granted lock, however many readers split and merged the tree.
THEOREM Exclusion == Spec => []WriterExclusion
BY Invariance, InvExclusion, PTL

\* Types of the state of the lock manager and its callers.
THEOREM TypeCorrect == Spec => []TypeOK
<1>1. Inv => TypeOK
  BY Zenon DEF Inv
<1> QED BY Invariance, <1>1, PTL

\* m_refs counts the holders of a node, for every tree the code can build.
THEOREM RefCounts == Spec => []RefsCountHolders
<1>1. Inv => RefsCountHolders
  BY Zenon DEF Inv
<1> QED BY Invariance, <1>1, PTL

\* No wake-up is lost: a waiter's node is in the tree and flagged.
THEOREM NoLostWakeup == Spec => []WaitersFlagged
<1>1. Inv => WaitersFlagged
  BY Zenon DEF Inv
<1> QED BY Invariance, <1>1, PTL

\* The asserts of range_proxify and range_split never fail.
THEOREM AddReaderSafe == Spec => []AddReaderAsserts
<1>1. ASSUME Inv PROVE AddReaderAsserts
  <2> SUFFICES ASSUME NEW q \in Requests, ReaderBlockers(q) = {}, NEW n \in Overlapping(q)
               PROVE  /\ n.is_proxy \/ n.refs = 1
                      /\ ~ n.read_wanted /\ ~ n.write_wanted
    BY Zenon DEF AddReaderAsserts
  <2>1. n \in tree
    BY Zenon DEF Overlapping
  <2>2. n.type # "writer" /\ ~ n.write_wanted
    BY Zenon DEF ReaderBlockers, Blocking
  <2> QED BY <1>1, <2>1, <2>2, Zenon DEF Inv, HandlesMatchNodes, ReadWantedBehindWriter
<1> QED BY Invariance, <1>1, PTL

\* The asserts of unlock_range_reader and unlock_range_writer never fail: the
\* proxies tile the range of a handle whose own node is gone.
THEOREM UnlockSafe == Spec => []UnlockAsserts
<1>1. ASSUME Inv PROVE UnlockAsserts
  <2> SUFFICES ASSUME NEW t \in Threads, Holding(t)
               PROVE  LET P == {n \in tree : Within(n, req[t])} IN
                      /\ req[t].type = "writer" => ptr[t] = "live"
                      /\ ptr[t] # "live" =>
                           /\ \E n \in P : n.start = req[t].start /\ n.is_proxy
                           /\ \A n \in P : /\ n.refs # 0 /\ n.type = "reader"
                                           /\ n.end = req[t].end \/ \E m \in P : m.start = n.end
    BY Zenon DEF UnlockAsserts
  <2> DEFINE P == {n \in tree : Within(n, req[t])}
  <2>r. /\ req[t] \in Requests
        /\ req[t].start \in Nat /\ req[t].end \in Nat /\ req[t].start < req[t].end
        /\ req[t].type \in {"reader", "writer"}
    BY <1>1, CallFacts, RequestFacts, Zenon DEF Holding
  <2>1. req[t].type = "writer" => ptr[t] = "live"
    BY <1>1, Zenon DEF Inv, HandlesMatchNodes
  <2>2. ASSUME NEW n \in P PROVE n \in tree /\ Overlap(n, req[t])
    BY <1>1, <2>r, TreeFacts DEF Within, Overlap
  <2>3. ASSUME NEW x \in Nat, req[t].start <= x, x < req[t].end
        PROVE  \E n \in P : Contains(n, x)
    <3>1. x \in req[t].start .. (req[t].end - 1)
      BY <2>3, <2>r
    <3>2. PICK n \in tree : Contains(n, x)
      BY <1>1, <3>1, Zenon DEF Inv, GrantsCovered
    <3>3. Overlap(n, req[t])
      BY <1>1, <2>3, <2>r, <3>2, TreeFacts DEF Contains, Overlap
    <3>4. n \in P
      BY <1>1, <3>3, Zenon DEF Inv, NodesAligned
    <3> QED BY <3>2, <3>4, Zenon
  <2>4. ASSUME ptr[t] # "live" PROVE \E n \in P : n.start = req[t].start /\ n.is_proxy
    <3>1. PICK n \in P : Contains(n, req[t].start)
      BY <2>3, <2>r
    <3>2. n.start = req[t].start
      BY <1>1, <2>r, <3>1, TreeFacts, SMTT(30) DEF Contains, Within
    <3>3. n.is_proxy
      BY <1>1, <2>2, <2>4, Zenon DEF Inv, HandlesMatchNodes
    <3> QED BY <3>2, <3>3, Zenon
  <2>5. ASSUME ptr[t] # "live", NEW n \in P
        PROVE  /\ n.refs # 0 /\ n.type = "reader"
               /\ n.end = req[t].end \/ \E m \in P : m.start = n.end
    <3>1. n.refs # 0
      BY <1>1, <2>2, TreeFacts, SMTT(30) DEF Inv, RefsCountHolders
    <3>2. n.type = "reader"
      BY <1>1, <2>1, <2>2, <2>5, <2>r, SMTT(30) DEF Inv, HandlesMatchNodes
    <3>3. ASSUME n.end # req[t].end PROVE \E m \in P : m.start = n.end
      <4>n. n \in tree /\ n.start \in Nat /\ n.end \in Nat /\ n.start < n.end
        BY <1>1, <2>2, TreeFacts, Zenon
      <4>1. req[t].start <= n.end /\ n.end < req[t].end
        BY <3>3, <4>n, <2>r DEF Within
      <4>2. PICK m \in P : Contains(m, n.end)
        BY <4>1, <4>n, <2>3, Zenon
      <4>m. m \in tree /\ m.start \in Nat /\ m.end \in Nat /\ m.start < m.end
        BY <1>1, <2>2, TreeFacts, Zenon
      <4>3. m # n
        BY <4>2, <4>n DEF Contains
      <4>4. ~ Overlap(m, n)
        BY <1>1, <4>3, <4>n, <4>m, Zenon DEF Inv, TreeDisjoint
      <4>5. m.start = n.end
        BY <4>2, <4>4, <4>n, <4>m, SMTT(30) DEF Contains, Overlap
      <4> QED BY <4>5, Zenon
    <3> QED BY <3>1, <3>2, <3>3, Zenon
  <2> QED BY <2>1, <2>4, <2>5, Zenon
<1> QED BY Invariance, <1>1, PTL

-----------------------------------------------------------------------------
\* The step of a thread that changes from not holding to holding is a grant of
\* its own request; every other change of the holders is a release.
LEMMA HolderChange ==
  ASSUME Inv, Next
  PROVE  \/ \E t \in Threads, q \in Requests :
              /\ ~ Holding(t) /\ Holding(t)' /\ req'[t] = q
              /\ \A u \in Threads : u # t => /\ Holding(u)' <=> Holding(u)
                                             /\ req'[u] = req[u]
              /\ q.type = "reader" => ReaderBlockers(q) = {}
         \/ \E t \in Threads :
              /\ Holding(t) /\ ~ Holding(t)'
              /\ \A u \in Threads : u # t => (Holding(u)' <=> Holding(u))
              /\ req' = req
         \/ \A u \in Threads : /\ Holding(u)' <=> Holding(u)
                               /\ Holding(u) => req'[u] = req[u]
<1> DEFINE G(t, q) == /\ ~ Holding(t) /\ Holding(t)' /\ req'[t] = q
                      /\ \A u \in Threads : u # t => /\ Holding(u)' <=> Holding(u)
                                                     /\ req'[u] = req[u]
                      /\ q.type = "reader" => ReaderBlockers(q) = {}
           R(t) == /\ Holding(t) /\ ~ Holding(t)'
                   /\ \A u \in Threads : u # t => (Holding(u)' <=> Holding(u))
                   /\ req' = req
           S == \A u \in Threads : /\ Holding(u)' <=> Holding(u)
                                   /\ Holding(u) => req'[u] = req[u]
<1>0. TypeOK
  BY Zenon DEF Inv
<1>1. ASSUME NEW t \in Threads, NEW q \in Requests, NEW p, Granted(t, q, p), pc[t] # "held",
             q.type = "reader" => ReaderBlockers(q) = {}
      PROVE  G(t, q)
  BY <1>0, <1>1, Zenon DEF Granted, Holding, TypeOK
<1>2. ASSUME NEW t \in Threads, NEW q, NEW n, NEW f, NEW s \in {"rd_wait", "wr_wait"},
             Wait(t, q, n, f, s), pc[t] # "held"
      PROVE  S
  BY <1>0, <1>2, Zenon DEF Wait, Holding, TypeOK
<1>3. ASSUME NEW t \in Threads, NEW dead, NEW p, Released(t, dead, p), pc[t] = "held"
      PROVE  R(t)
  <2>1. /\ req' = req
        /\ \A u \in Threads : pc'[u] = IF u = t THEN "unlocked"
                                ELSE IF Woken(u, dead) THEN WakeState(u) ELSE pc[u]
    BY <1>0, <1>3, Zenon DEF Released, TypeOK
  <2>2. \A u \in Threads : Woken(u, dead) => pc[u] \in {"rd_wait", "wr_wait"}
    BY Zenon DEF Woken
  <2>3. \A u \in Threads : WakeState(u) \in {"rd_woken", "wr_woken"}
    BY SMTT(30) DEF WakeState
  <2> QED BY <1>3, <2>1, <2>2, <2>3, Zenon DEF Holding
<1>4. ASSUME NEW t \in Threads, NEW q \in Requests, pc[t] # "held", ReaderAttempt(t, q)
      PROVE  G(t, q) \/ S
  <2>1. CASE ReaderBlockers(q) = {} /\ AddReader(t, q)
    <3>1. PICK p : Granted(t, q, p)
      BY <2>1, ZenonT(30) DEF AddReader, InsertNode, ShareNodes
    <3> QED BY <1>1, <1>4, <2>1, <3>1, ZenonT(30)
  <2>2. CASE ReaderWait(t, q, First(ReaderBlockers(q)))
    <3>1. PICK n, f : Wait(t, q, n, f, "rd_wait")
      BY <2>2, Zenon DEF ReaderWait
    <3> QED BY <1>2, <1>4, <3>1, ZenonT(30)
  <2> QED BY <1>4, <2>1, <2>2, ZenonT(30) DEF ReaderAttempt
<1>5. ASSUME NEW t \in Threads, NEW q \in Requests, q.type = "writer", pc[t] # "held",
             WriterAttempt(t, q)
      PROVE  G(t, q) \/ S
  <2>1. CASE InsertNode(t, q)
    <3>1. PICK p : Granted(t, q, p)
      BY <2>1, SMTT(30) DEF InsertNode
    <3> QED BY <1>1, <1>5, <3>1, Zenon
  <2>2. CASE WriterWait(t, q, WriterBlocker(q))
    <3>1. PICK n, f : Wait(t, q, n, f, "wr_wait")
      BY <2>2, Zenon DEF WriterWait
    <3> QED BY <1>2, <1>5, <3>1, Zenon
  <2> QED BY <1>5, <2>1, <2>2, Zenon DEF WriterAttempt
<1> HIDE DEF G, R, S
<1>6. ASSUME NEW t \in Threads, LockReader(t) PROVE (\E q \in Requests : G(t, q)) \/ S
  BY <1>4, <1>6, SMTT(30) DEF LockReader
<1>7. ASSUME NEW t \in Threads, RetryReader(t) PROVE (\E q \in Requests : G(t, q)) \/ S
  <2>1. pc[t] = "rd_woken" /\ req[t] \in Requests
    BY <1>0, <1>7, Zenon DEF RetryReader, TypeOK
  <2>2. CASE ReaderAttempt(t, req[t])
    BY <1>4, <2>1, <2>2, Zenon
  <2>3. CASE UNCHANGED <<tree, pc, req, ptr, waitAt>>
    BY <2>3, Zenon DEF S, Holding
  <2> QED BY <1>7, <2>2, <2>3, Zenon DEF RetryReader
<1>8. ASSUME NEW t \in Threads, LockWriter(t) PROVE (\E q \in Requests : G(t, q)) \/ S
  BY <1>5, <1>8, Zenon DEF LockWriter
<1>9. ASSUME NEW t \in Threads, RetryWriter(t) PROVE (\E q \in Requests : G(t, q)) \/ S
  <2>1. pc[t] = "wr_woken" /\ req[t] \in Requests /\ req[t].type = "writer"
    BY <1>0, <1>9, Zenon DEF RetryWriter, TypeOK
  <2> QED BY <1>5, <1>9, <2>1, Zenon DEF RetryWriter
<1>10. ASSUME NEW t \in Threads, UnlockReader(t) \/ UnlockWriter(t) PROVE R(t)
  <2>1. pc[t] = "held"
    BY <1>10, Zenon DEF UnlockReader, UnlockWriter
  <2>2. \E dead, p : Released(t, dead, p)
    BY <1>10, Zenon DEF UnlockReader, UnlockWriter, RemoveNode, DropReferences
  <2> QED BY <1>3, <2>1, <2>2, SMTT(30)
<1>11. ASSUME NEW t \in Threads, DestroyHandle(t) PROVE S
  BY <1>0, <1>11, Zenon DEF DestroyHandle, TypeOK, S, Holding
<1>12. ASSUME NEW t \in Threads, SpuriousWake(t) PROVE S
  BY <1>0, <1>12, Zenon DEF SpuriousWake, TypeOK, S, Holding, WakeState
<1>13. ASSUME Dead PROVE S
  BY <1>13, Zenon DEF Dead, vars, S, Holding
<1>14. \/ \E t \in Threads, q \in Requests : G(t, q)
       \/ \E t \in Threads : R(t)
       \/ S
  <2>1. ASSUME NEW t \in Threads, Step(t)
        PROVE  (\E q \in Requests : G(t, q)) \/ R(t) \/ S
    <3>1. CASE LockReader(t)
      BY <3>1, <1>6, Zenon
    <3>2. CASE RetryReader(t)
      BY <3>2, <1>7, Zenon
    <3>3. CASE LockWriter(t)
      BY <3>3, <1>8
    <3>4. CASE RetryWriter(t)
      BY <3>4, <1>9
    <3>5. CASE UnlockReader(t) \/ UnlockWriter(t)
      BY <3>5, <1>10, Zenon
    <3>6. CASE DestroyHandle(t)
      BY <3>6, <1>11, Zenon
    <3>7. CASE SpuriousWake(t)
      BY <3>7, <1>12, Zenon
    <3> QED BY <2>1, <3>1, <3>2, <3>3, <3>4, <3>5, <3>6, <3>7, Zenon DEF Step
  <2>2. CASE \E t \in Threads : Step(t)
    <3>1. PICK t \in Threads : Step(t)
      BY <2>2, Zenon
    <3>2. (\E q \in Requests : G(t, q)) \/ R(t) \/ S
      BY <2>1, <3>1, Zenon
    <3> QED BY <3>2, Zenon
  <2> QED BY <2>2, <1>13, Zenon DEF Next
<1> QED BY <1>14, Zenon DEF G, R, S

\* No reader is granted bytes of a range that a writer waits for.
THEOREM NoOvertakingHolds == Spec => NoOvertaking
<1> DEFINE A == \A t, u \in Threads :
                  /\ ~ Holding(t) /\ Holding(t)' /\ req'[t].type = "reader"
                  /\ pc[u] = "wr_wait"
                  => \A n \in tree : n.start = waitAt[u] => ~ Overlap(n, req'[t])
<1>1. ASSUME Inv, Next PROVE A
  <2> SUFFICES ASSUME NEW t \in Threads, NEW u \in Threads,
                      ~ Holding(t), Holding(t)', req'[t].type = "reader",
                      pc[u] = "wr_wait", NEW n \in tree, n.start = waitAt[u]
               PROVE  ~ Overlap(n, req'[t])
    BY Zenon
  <2>1. ReaderBlockers(req'[t]) = {}
    BY <1>1, HolderChange, Zenon
  <2>2. PICK m \in tree : m.start = waitAt[u] /\ m.write_wanted
    BY <1>1, Zenon DEF Inv, WaitersFlagged
  <2>3. m = n
    <3>1. Overlap(m, n)
      BY <1>1, <2>2, TreeFacts, Zenon DEF Overlap
    <3> QED BY <1>1, <3>1, Zenon DEF Inv, TreeDisjoint
  <2> QED BY <2>1, <2>2, <2>3, Zenon DEF ReaderBlockers, Blocking, Overlapping
<1>2. Inv /\ [Next]_vars => [A]_vars
  BY <1>1, Zenon
<1> QED BY <1>2, Invariance, PTL DEF Spec, NoOvertaking

-----------------------------------------------------------------------------
\* The lock manager implements RangeExclusion: its grants and releases are the
\* only steps that change the set of granted requests, and a grant never
\* conflicts with one that stands.
THEOREM Refinement == Spec => Implements
<1> DEFINE granted == {<<t, req[t]>> : t \in {u \in Threads : Holding(u)}}
<1>1. Init => Promise!Init
  BY Zenon DEF Init, Promise!Init, Holding
<1>2. ASSUME Inv, WriterExclusion', [Next]_vars PROVE [Promise!Next]_granted
  <2>1. CASE UNCHANGED vars
    BY <2>1, Zenon DEF vars, Holding
  <2>2. ASSUME NEW t \in Threads, NEW q \in Requests,
               ~ Holding(t), Holding(t)', req'[t] = q,
               \A u \in Threads : u # t => /\ Holding(u)' <=> Holding(u)
                                           /\ req'[u] = req[u]
        PROVE  Promise!Next
    <3>1. granted' = granted \cup {<<t, q>>}
      BY <2>2, SMTT(30)
    <3>2. ASSUME NEW u \in Threads, Holding(u)
          PROVE  u # t /\ ~ Promise!Conflict(req[u], q)
      BY <1>2, <2>2, <3>2, SMTT(30) DEF WriterExclusion, Promise!Conflict, Promise!Overlap, Overlap
    <3>3. Promise!Grant(t, q)
      BY <3>1, <3>2 DEF Promise!Grant
    <3> QED BY <3>3, Zenon DEF Promise!Next
  <2>3. ASSUME NEW t \in Threads, Holding(t), ~ Holding(t)', req' = req,
               \A u \in Threads : u # t => (Holding(u)' <=> Holding(u))
        PROVE  Promise!Next
    <3>1. granted' = granted \ {<<t, req[t]>>} /\ <<t, req[t]>> \in granted
      BY <2>3
    <3> QED BY <3>1, ZenonT(30) DEF Promise!Next, Promise!Revoke
  <2>4. ASSUME \A u \in Threads : /\ Holding(u)' <=> Holding(u)
                                  /\ Holding(u) => req'[u] = req[u]
        PROVE  UNCHANGED granted
    BY <2>4, SMTT(30)
  <2>5. CASE Next
    BY <1>2, <2>2, <2>3, <2>4, <2>5, HolderChange, Zenon
  <2> QED BY <1>2, <2>1, <2>5, Zenon
<1> QED BY <1>1, <1>2, Invariance, Exclusion, PTL DEF Spec, Implements, Promise!Spec
=============================================================================
