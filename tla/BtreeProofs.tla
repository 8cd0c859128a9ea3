----------------------------- MODULE BtreeProofs -----------------------------
(***************************************************************************)
(* Proofs about Btree for every set of keys and values and every degree    *)
(* from 2 on for which 2 * m_degree - 1 is a 16-bit number.                *)
(***************************************************************************)
EXTENDS Btree, SharedProofs, SequenceTheorems, FiniteSetTheorems, TLAPS

USE KeyAssumption

\* With degree 1 nodes are split that have no cell left for one half.
DegreeFits == Degree \in Nat /\ 2 <= Degree /\ Degree <= 32768

-----------------------------------------------------------------------------
(* Numbers and sequences *)

\* t is s with e put at place i.
Inserted(t, s, i, e) ==
  /\ Len(t) = Len(s) + 1
  /\ \A j \in 1 .. Len(s) + 1 :
       t[j] = IF j < i THEN s[j] ELSE IF j = i THEN e ELSE s[j - 1]

\* What InsertAt returns.
LEMMA InsertAtProperties ==
  ASSUME NEW S, NEW s \in Seq(S), NEW i \in 1 .. Len(s) + 1, NEW e \in S
  PROVE  InsertAt(s, i, e) \in Seq(S) /\ Inserted(InsertAt(s, i, e), s, i, e)
<1> DEFINE a == SubSeq(s, 1, i - 1)
           b == <<e>>
           c == SubSeq(s, i, Len(s))
<1>1. Len(s) \in Nat /\ \A j \in 1 .. Len(s) : s[j] \in S
  BY LenProperties
<1>2. /\ a \in Seq(S) /\ Len(a) = i - 1
      /\ \A j \in 1 .. i - 1 : a[j] = s[j]
  <2>1. \A j \in 1 .. i - 1 : s[j] \in S
    BY <1>1
  <2>2. /\ a \in Seq(S)
        /\ Len(a) = IF 1 <= i - 1 THEN (i - 1) - 1 + 1 ELSE 0
        /\ \A j \in 1 .. (i - 1) - 1 + 1 : a[j] = s[1 + j - 1]
    BY <1>1, <2>1, SubSeqProperties
  <2> HIDE DEF a
  <2> QED BY <1>1, <2>2
<1>3. /\ c \in Seq(S) /\ Len(c) = Len(s) - i + 1
      /\ \A j \in 1 .. Len(s) - i + 1 : c[j] = s[i + j - 1]
  <2>1. \A j \in i .. Len(s) : s[j] \in S
    BY <1>1
  <2>2. /\ c \in Seq(S)
        /\ Len(c) = IF i <= Len(s) THEN Len(s) - i + 1 ELSE 0
        /\ \A j \in 1 .. Len(s) - i + 1 : c[j] = s[i + j - 1]
    BY <1>1, <2>1, SubSeqProperties
  <2> HIDE DEF c
  <2> QED BY <1>1, <2>2
<1>4. b \in Seq(S) /\ Len(b) = 1 /\ b[1] = e
  OBVIOUS
<1> HIDE DEF a, b, c
<1> DEFINE ab == a \o b
           abc == ab \o c
<1>5. /\ ab \in Seq(S) /\ Len(ab) = i
      /\ \A j \in 1 .. i : ab[j] = IF j <= i - 1 THEN a[j] ELSE b[j - (i - 1)]
  <2>1. /\ ab \in Seq(S) /\ Len(ab) = Len(a) + Len(b)
        /\ \A j \in 1 .. Len(a) + Len(b) : ab[j] = IF j <= Len(a) THEN a[j] ELSE b[j - Len(a)]
    BY <1>2, <1>4, ConcatProperties
  <2>2. Len(a) = i - 1 /\ Len(a) + Len(b) = i
    BY <1>2, <1>4
  <2> HIDE DEF ab
  <2> QED BY <2>1, <2>2
<1> HIDE DEF ab
<1>6. /\ abc \in Seq(S) /\ Len(abc) = Len(s) + 1
      /\ \A j \in 1 .. Len(s) + 1 : abc[j] = IF j <= i THEN ab[j] ELSE c[j - i]
  <2>1. /\ abc \in Seq(S) /\ Len(abc) = Len(ab) + Len(c)
        /\ \A j \in 1 .. Len(ab) + Len(c) : abc[j] = IF j <= Len(ab) THEN ab[j] ELSE c[j - Len(ab)]
    BY <1>3, <1>5, ConcatProperties
  <2>2. Len(ab) = i /\ Len(ab) + Len(c) = Len(s) + 1
    BY <1>1, <1>3, <1>5
  <2> HIDE DEF abc
  <2> QED BY <2>1, <2>2
<1> HIDE DEF abc
<1>7. InsertAt(s, i, e) = abc
  BY DEF InsertAt, a, b, c, ab, abc
<1>8. ASSUME NEW j \in 1 .. Len(s) + 1
      PROVE  abc[j] = IF j < i THEN s[j] ELSE IF j = i THEN e ELSE s[j - 1]
  <2>1. CASE j < i
    <3>1. abc[j] = ab[j] /\ ab[j] = a[j] /\ a[j] = s[j]
      BY <2>1, <1>1, <1>2, <1>5, <1>6
    <3> QED BY <2>1, <3>1
  <2>2. CASE j = i
    <3>1. abc[j] = ab[j] /\ ab[j] = b[j - (i - 1)] /\ j - (i - 1) = 1
      BY <2>2, <1>1, <1>5, <1>6
    <3> QED BY <2>2, <3>1, <1>4
  <2>3. CASE j > i
    <3>1. j - i \in 1 .. Len(s) - i + 1 /\ i + (j - i) - 1 = j - 1
      BY <2>3, <1>1
    <3>2. abc[j] = c[j - i] /\ c[j - i] = s[j - 1]
      BY <2>3, <1>1, <1>3, <1>6, <3>1
    <3> QED BY <2>3, <3>2
  <2> QED BY <2>1, <2>2, <2>3
<1> QED BY <1>6, <1>7, <1>8 DEF Inserted

\* What RemoveAt returns.
LEMMA RemoveAtProperties ==
  ASSUME NEW S, NEW s \in Seq(S), NEW i \in 1 .. Len(s)
  PROVE  RemoveAt(s, i) \in Seq(S) /\ Len(RemoveAt(s, i)) = Len(s) - 1
<1> DEFINE a == SubSeq(s, 1, i - 1)
           b == SubSeq(s, i + 1, Len(s))
<1>1. Len(s) \in Nat /\ \A j \in 1 .. Len(s) : s[j] \in S
  BY LenProperties
<1>2. a \in Seq(S) /\ Len(a) = i - 1
  <2>1. \A j \in 1 .. i - 1 : s[j] \in S
    BY <1>1
  <2> QED BY <1>1, <2>1, SubSeqProperties
<1>3. b \in Seq(S) /\ Len(b) = Len(s) - i
  <2>1. \A j \in i + 1 .. Len(s) : s[j] \in S
    BY <1>1
  <2> QED BY <1>1, <2>1, SubSeqProperties
<1>4. RemoveAt(s, i) = a \o b
  BY DEF RemoveAt
<1> HIDE DEF a, b
<1>5. a \o b \in Seq(S) /\ Len(a \o b) = Len(a) + Len(b)
  BY <1>2, <1>3, ConcatProperties
<1>6. Len(a) + Len(b) = Len(s) - 1
  BY <1>1, <1>2, <1>3
<1> QED BY <1>4, <1>5, <1>6

\* A part of a sequence.
LEMMA PartProperties ==
  ASSUME NEW S, NEW s \in Seq(S), NEW i \in 1 .. Len(s) + 1, NEW j \in i - 1 .. Len(s)
  PROVE  /\ SubSeq(s, i, j) \in Seq(S)
         /\ Len(SubSeq(s, i, j)) = j - i + 1
         /\ \A x \in 1 .. j - i + 1 : SubSeq(s, i, j)[x] = s[i - 1 + x]
<1>1. Len(s) \in Nat /\ \A x \in 1 .. Len(s) : s[x] \in S
  BY LenProperties
<1>2. \A x \in i .. j : s[x] \in S
  BY <1>1
<1>3. /\ SubSeq(s, i, j) \in Seq(S)
      /\ Len(SubSeq(s, i, j)) = IF i <= j THEN j - i + 1 ELSE 0
      /\ \A x \in 1 .. j - i + 1 : SubSeq(s, i, j)[x] = s[i + x - 1]
  BY <1>1, <1>2, SubSeqProperties
<1>4. i \in Int /\ j \in Int /\ i - 1 <= j
  BY <1>1
<1>5. Len(SubSeq(s, i, j)) = j - i + 1
  BY <1>3, <1>4
<1>6. ASSUME NEW x \in 1 .. j - i + 1
      PROVE  SubSeq(s, i, j)[x] = s[i - 1 + x]
  <2>1. i + x - 1 = i - 1 + x
    BY <1>4
  <2> QED BY <1>3, <2>1
<1> QED BY <1>3, <1>5, <1>6

-----------------------------------------------------------------------------
(* The inductive invariant *)

\* The trees of the invariant are functions f on page ids, nodes among them.
Cell == [key : Key, value : Value]
NodeOver(D) ==
  [parent : D \cup {PGID_INVALID}, root : BOOLEAN, leaf : BOOLEAN,
   cells : Seq(Cell), children : Seq(D)]

\* h is the height of each node above the leaves.  Heights never change: a new root
\* is higher than the old one, and a node is split into two of its height.
Links(f, root, h) ==
  \A p \in DOMAIN f :
    /\ f[p].root <=> p = root
    /\ f[p].leaf <=> h[p] = 0
    /\ f[p].leaf => f[p].children = << >>
    /\ \A i \in 1 .. Len(f[p].children) :
         f[f[p].children[i]].parent = p /\ h[f[p].children[i]] + 1 = h[p]

\* The node that p names as its parent has it among its children.
Listed(f, p) ==
  /\ f[p].parent \in DOMAIN f
  /\ \E i \in 1 .. Len(f[f[p].parent].children) : f[f[p].parent].children[i] = p

\* The keys that are found below the i-th child of a node with these cells.
Between(cells, i, x) ==
  /\ i > 1 => cells[i - 1].key < x
  /\ i <= Len(cells) => x < cells[i].key

\* b is the set of keys whose search leads through each node.  It holds the keys of
\* the node, in order, and is divided among its children by them.
Ordered(f, root, b) ==
  /\ root \in DOMAIN f /\ f[root].parent = PGID_INVALID /\ b[root] = Int
  /\ \A p \in DOMAIN f :
       /\ ~f[p].leaf => Len(f[p].children) = Len(f[p].cells) + 1
       /\ p # root => f[p].cells # << >> /\ Listed(f, p)
       /\ \A i, j \in 1 .. Len(f[p].cells) : i < j => f[p].cells[i].key < f[p].cells[j].key
       /\ \A i \in 1 .. Len(f[p].cells) : f[p].cells[i].key \in b[p]
       /\ \A i \in 1 .. Len(f[p].children) :
            b[f[p].children[i]] = {x \in b[p] : Between(f[p].cells, i, x)}

\* A tree of heights h in which every key has one place.
Tree(f, root, h, b) ==
  /\ \A x \in DOMAIN f : f[x] \in NodeOver(DOMAIN f)
  /\ PGID_INVALID \notin DOMAIN f
  /\ h \in [DOMAIN f -> Nat]
  /\ Links(f, root, h)
  /\ Ordered(f, root, b)

\* f is a tree that is not higher than top.
OrderedTree(f, root, top) ==
  \E h, b : /\ Tree(f, root, h, b)
            /\ b \in [DOMAIN f -> SUBSET Int]
            /\ \A x \in DOMAIN f : h[x] <= top

\* How many cells split leaves in each node.
Sizes(f, root, at) ==
  \A p \in DOMAIN f :
    /\ p # root => Len(f[p].cells) >= Degree - 1
    /\ Len(f[p].cells) <= IF p = at THEN maxKeys ELSE maxKeys - 1

\* Pages are numbered from 1 in the order of their creation.
Numbered(f) ==
  /\ IsFiniteSet(DOMAIN f)
  /\ DOMAIN f = 1 .. Cardinality(DOMAIN f)
  /\ f = [x \in DOMAIN f |-> f[x]]

\* The invariant of the tree as long as no page was refused.
Whole(f, root, at) ==
  /\ Numbered(f)
  /\ \E top \in Nat : OrderedTree(f, root, top)
  /\ \A x \in DOMAIN f : ~f[x].leaf => f[x].cells # << >>
  /\ Sizes(f, root, at)

\* What remains of it when a split is refused a page in the middle: nodes that are
\* linked by heights, and a page to be split that can be found in its parent.
Linked(f, root, at) ==
  /\ Numbered(f)
  /\ \E top \in Nat : \E h \in [DOMAIN f -> 0 .. top] : Links(f, root, h)
  /\ \A x \in DOMAIN f : ~f[x].leaf => f[x].cells # << >>
  /\ at # PGID_INVALID /\ ~f[at].root =>
       /\ Listed(f, at)
       /\ Len(f[f[at].parent].children) <= Len(f[f[at].parent].cells) + 1

\* The invariant that is inductive.
Inv ==
  /\ TypeOK
  /\ Linked(nodes, m_rootPageID, splitting)
  /\ refused \/ Whole(nodes, m_rootPageID, splitting)

Ranked(top, h) ==
  /\ top \in Nat /\ h \in [DOMAIN nodes -> 0 .. top]
  /\ Links(nodes, m_rootPageID, h)
  /\ \A p \in DOMAIN nodes : ~nodes[p].leaf => nodes[p].cells # << >>

\* What the type of a node says of its fields.
LEMMA NodeTypes ==
  ASSUME NEW D, NEW n \in NodeOver(D)
  PROVE  /\ n.parent \in D \cup {PGID_INVALID} /\ n.root \in BOOLEAN /\ n.leaf \in BOOLEAN
         /\ n.cells \in Seq(Cell) /\ Len(n.cells) \in Nat
         /\ \A i \in 1 .. Len(n.cells) : n.cells[i] \in Cell /\ n.cells[i].key \in Int
         /\ n.children \in Seq(D) /\ Len(n.children) \in Nat
         /\ \A i \in 1 .. Len(n.children) : n.children[i] \in D
         /\ n.cells # << >> => Len(n.cells) >= 1
<1>1. /\ n.parent \in D \cup {PGID_INVALID} /\ n.root \in BOOLEAN /\ n.leaf \in BOOLEAN
      /\ n.cells \in Seq(Cell) /\ n.children \in Seq(D)
  BY DEF NodeOver
<1>2. Len(n.cells) \in Nat /\ \A i \in 1 .. Len(n.cells) : n.cells[i] \in Cell
  BY <1>1
<1>3. Len(n.children) \in Nat /\ \A i \in 1 .. Len(n.children) : n.children[i] \in D
  BY <1>1
<1>4. \A c \in Cell : c.key \in Int
  BY DEF Cell
<1>5. n.cells # << >> => Len(n.cells) >= 1
  BY <1>1, EmptySeq
<1> QED BY <1>1, <1>2, <1>3, <1>4, <1>5

\* TypeOK with the pages counted.
LEMMA TypeOKUnfolded ==
  TypeOK <=>
    /\ \A p \in DOMAIN nodes : nodes[p] \in NodeOver(DOMAIN nodes)
    /\ nodes = [p \in DOMAIN nodes |-> nodes[p]]
    /\ DOMAIN nodes = 1 .. Cardinality(DOMAIN nodes)
    /\ m_rootPageID \in DOMAIN nodes
    /\ splitting \in DOMAIN nodes \cup {PGID_INVALID}
    /\ result \in {"true", "false", "full", "abort"}
    /\ refused \in BOOLEAN
BY DEF TypeOK, Node, NodeOver, Cell

-----------------------------------------------------------------------------
(* searchRowPtr *)

\* The keys of a node are integers.
LEMMA CellTypes ==
  ASSUME NEW cells \in Seq(Cell)
  PROVE  Len(cells) \in Nat /\ \A i \in 1 .. Len(cells) : cells[i].key \in Int
<1>1. Len(cells) \in Nat /\ \A i \in 1 .. Len(cells) : cells[i] \in Cell
  OBVIOUS
<1>2. \A c \in Cell : c.key \in Int
  BY DEF Cell
<1> QED BY <1>1, <1>2

\* There is a place for every key: the search loop of a node ends there.
LEMMA PlaceProperties ==
  ASSUME NEW cells \in Seq(Cell), NEW k \in Int
  PROVE  /\ Place(cells, k) \in 1 .. Len(cells) + 1
         /\ \A j \in 1 .. Place(cells, k) - 1 : cells[j].key < k
         /\ Place(cells, k) <= Len(cells) => cells[Place(cells, k)].key >= k
<1>1. Len(cells) \in Nat /\ \A i \in 1 .. Len(cells) : cells[i].key \in Int
  BY CellTypes
<1> DEFINE U == {i \in 1 .. Len(cells) : cells[i].key >= k}
<1>2. \E i \in 1 .. Len(cells) + 1 :
        /\ \A j \in 1 .. i - 1 : cells[j].key < k
        /\ i <= Len(cells) => cells[i].key >= k
  <2>1. CASE U = {}
    <3>1. \A j \in 1 .. Len(cells) : cells[j].key < k
      BY <2>1, <1>1
    <3> QED BY <3>1, <1>1
  <2>2. CASE U # {}
    <3>1. U \in SUBSET (0 .. Len(cells))
      BY <1>1
    <3>2. PICK i \in U : \A j \in U : i <= j
      <4> HIDE DEF U
      <4> QED BY <2>2, <3>1, <1>1, Minimum
    <3>3. \A j \in 1 .. i - 1 : cells[j].key < k
      BY <3>2, <1>1
    <3> QED BY <3>2, <3>3, <1>1
  <2> QED BY <2>1, <2>2
<1> HIDE DEF U
<1> QED BY <1>2 DEF Place

\* Where a key is that stands in the cells, or between two of them.
LEMMA PlaceIs ==
  ASSUME NEW cells \in Seq(Cell), NEW k \in Int,
         \A i, j \in 1 .. Len(cells) : i < j => cells[i].key < cells[j].key,
         NEW i \in 1 .. Len(cells) + 1,
         (i <= Len(cells) /\ cells[i].key = k) \/ Between(cells, i, k)
  PROVE  Place(cells, k) = i
<1> DEFINE m == Place(cells, k)
<1>1. Len(cells) \in Nat /\ \A j \in 1 .. Len(cells) : cells[j].key \in Int
  BY CellTypes
<1>2. /\ m \in 1 .. Len(cells) + 1
      /\ \A j \in 1 .. m - 1 : cells[j].key < k
      /\ m <= Len(cells) => cells[m].key >= k
  BY PlaceProperties
<1> HIDE DEF m
<1>3. i <= Len(cells) => k <= cells[i].key
  BY <1>1 DEF Between
<1>4. ~(m > i)
  BY <1>1, <1>2, <1>3
<1>5. ASSUME m < i
      PROVE  FALSE
  <2>1. m \in 1 .. Len(cells) /\ i - 1 \in 1 .. Len(cells) /\ m <= i - 1 /\ cells[m].key >= k
    BY <1>1, <1>2, <1>5
  <2>2. CASE i <= Len(cells) /\ cells[i].key = k
    BY <2>1, <2>2, <1>1, <1>5
  <2>3. CASE Between(cells, i, k)
    <3>1. cells[i - 1].key < k
      BY <2>1, <2>3, <1>1 DEF Between
    <3>2. cells[m].key <= cells[i - 1].key
      BY <2>1, <1>1
    <3> QED BY <2>1, <3>1, <3>2, <1>1
  <2> QED BY <2>2, <2>3
<1>6. m = i
  BY <1>1, <1>2, <1>4, <1>5
<1> QED BY <1>6 DEF m

\* The recursive function of searchRowPtr.
Walk(k) == CHOOSE walk : walk = [p \in DOMAIN nodes |-> AtNode(walk, k, p)]

\* What the search returns at a node depends on the nodes below it only.
LEMMA AtNodeLocal ==
  ASSUME TypeOK, NEW top, NEW h, Ranked(top, h), NEW k \in Int, NEW p \in DOMAIN nodes,
         NEW f, NEW g, \A x \in DOMAIN nodes : h[x] < h[p] => f[x] = g[x]
  PROVE  AtNode(f, k, p) = AtNode(g, k, p)
<1> DEFINE n == nodes[p]
           i == Place(n.cells, k)
           found == i <= Len(n.cells) /\ n.cells[i].key = k
           missing == AssertsHold(n) /\ ~found /\ ~n.leaf
<1>1. n \in NodeOver(DOMAIN nodes)
  BY TypeOKUnfolded
<1>2. n.cells \in Seq(Cell) /\ Len(n.cells) \in Nat
      /\ \A j \in 1 .. Len(n.children) : n.children[j] \in DOMAIN nodes
  BY <1>1, NodeTypes
<1>3. i \in 1 .. Len(n.cells) + 1
  BY <1>2, PlaceProperties
<1>4. CASE missing
  <2>1. Len(n.children) = Len(n.cells) + 1
    BY <1>4 DEF AssertsHold, Ranked
  <2>2. i \in 1 .. Len(n.children)
    BY <1>3, <2>1
  <2>3. n.children[i] \in DOMAIN nodes /\ h[n.children[i]] + 1 = h[p]
    BY <1>2, <2>2 DEF Ranked, Links
  <2>4. h[n.children[i]] \in Nat /\ h[p] \in Nat
    BY <2>3 DEF Ranked
  <2>5. f[n.children[i]] = g[n.children[i]]
    BY <2>3, <2>4
  <2>6. AtNode(f, k, p) = f[n.children[i]] /\ AtNode(g, k, p) = g[n.children[i]]
    BY <1>4 DEF AtNode
  <2> QED BY <2>5, <2>6
<1>5. CASE ~missing
  BY <1>5 DEF AtNode
<1> QED BY <1>4, <1>5

\* The recursion of searchRowPtr ends: it goes from node to child.
LEMMA WalkEquation ==
  ASSUME TypeOK, NEW top, NEW h, Ranked(top, h), NEW k \in Int
  PROVE  /\ \A p \in DOMAIN nodes : Walk(k)[p] = AtNode(Walk(k), k, p)
         /\ searchRowPtr(k) = Walk(k)[m_rootPageID]
<1> DEFINE Below(w, n) == \A p \in DOMAIN nodes : h[p] < n => w[p] = AtNode(w, k, p)
           S == {n \in Nat : \E w : Below(w, n)}
<1>1. top \in Nat /\ \A p \in DOMAIN nodes : h[p] \in Nat /\ h[p] < top + 1
  BY DEF Ranked
<1>2. 0 \in S
  <2>1. Below({}, 0)
    BY <1>1
  <2> HIDE DEF Below
  <2> QED BY <2>1
<1>3. ASSUME NEW n \in Nat, n \in S
      PROVE  n + 1 \in S
  <2>1. PICK w : Below(w, n)
    BY <1>3
  <2> DEFINE v == [p \in DOMAIN nodes |-> IF h[p] = n THEN AtNode(w, k, p) ELSE w[p]]
  <2>2. \A x \in DOMAIN nodes : h[x] # n => v[x] = w[x]
    OBVIOUS
  <2>3. ASSUME NEW p \in DOMAIN nodes, h[p] < n + 1
        PROVE  v[p] = AtNode(v, k, p)
    <3>1. \A x \in DOMAIN nodes : h[x] < h[p] => v[x] = w[x]
      BY <1>1, <2>2, <2>3
    <3>2. AtNode(v, k, p) = AtNode(w, k, p)
      <4> HIDE DEF v
      <4> QED BY <3>1, AtNodeLocal
    <3>3. CASE h[p] = n
      BY <3>2, <3>3
    <3>4. CASE h[p] # n
      <4>1. v[p] = w[p] /\ h[p] < n
        BY <1>1, <2>3, <3>4
      <4> QED BY <2>1, <3>2, <4>1
    <3> QED BY <3>3, <3>4
  <2> HIDE DEF v
  <2>4. Below(v, n + 1)
    BY <2>3
  <2> HIDE DEF Below
  <2> QED BY <2>4
<1>4. top + 1 \in S
  <2> HIDE DEF S
  <2> QED BY <1>1, <1>2, <1>3, SetInduction
<1>5. PICK w : Below(w, top + 1)
  BY <1>4
<1>6. \A p \in DOMAIN nodes : w[p] = AtNode(w, k, p)
  BY <1>1, <1>5
<1> HIDE DEF Below, S
<1> DEFINE v == [p \in DOMAIN nodes |-> w[p]]
<1>7. ASSUME NEW p \in DOMAIN nodes
      PROVE  v[p] = AtNode(v, k, p)
  <2>1. AtNode(v, k, p) = AtNode(w, k, p)
    BY AtNodeLocal
  <2> QED BY <1>6, <2>1
<1>8. v = [p \in DOMAIN nodes |-> AtNode(v, k, p)]
  BY <1>7
<1> HIDE DEF v
<1>9. Walk(k) = [p \in DOMAIN nodes |-> AtNode(Walk(k), k, p)]
  BY <1>8 DEF Walk
<1>10. searchRowPtr(k) = Walk(k)[m_rootPageID]
  BY DEF searchRowPtr, Walk
<1>11. \A p \in DOMAIN nodes : Walk(k)[p] = AtNode(Walk(k), k, p)
  BY <1>9
<1> QED BY <1>10, <1>11

\* What the search does at a node: it stops there, or goes to the child between
\* whose cells the key lies.
Stepped(h, k, p) ==
  LET n == nodes[p]
      i == Place(n.cells, k)
      found == i <= Len(n.cells) /\ n.cells[i].key = k
  IN  /\ i \in 1 .. Len(n.cells) + 1
      /\ ~AssertsHold(n) => Walk(k)[p] = [ok |-> FALSE]
      /\ AssertsHold(n) /\ found => Walk(k)[p] = [ok |-> TRUE, pageID |-> p, cellID |-> i]
      /\ AssertsHold(n) /\ ~found /\ n.leaf =>
           Walk(k)[p] = [ok |-> TRUE, pageID |-> p, cellID |-> CELLID_INVALID]
      /\ AssertsHold(n) /\ ~found /\ ~n.leaf =>
           /\ Len(n.children) = Len(n.cells) + 1
           /\ i \in 1 .. Len(n.children)
           /\ n.children[i] \in DOMAIN nodes
           /\ nodes[n.children[i]].parent = p
           /\ h[n.children[i]] + 1 = h[p]
           /\ Walk(k)[p] = Walk(k)[n.children[i]]
      /\ ~found => Between(n.cells, i, k)

\* In a tree of heights h the search goes from node to node that way.
LEMMA WalkAt ==
  ASSUME TypeOK, NEW top, NEW h, Ranked(top, h), NEW k \in Int, NEW p \in DOMAIN nodes
  PROVE  Stepped(h, k, p)
<1> DEFINE n == nodes[p]
           i == Place(n.cells, k)
           found == i <= Len(n.cells) /\ n.cells[i].key = k
<1>1. n \in NodeOver(DOMAIN nodes)
  BY TypeOKUnfolded
<1>2. /\ n.cells \in Seq(Cell) /\ Len(n.cells) \in Nat
      /\ \A j \in 1 .. Len(n.cells) : n.cells[j].key \in Int
      /\ \A j \in 1 .. Len(n.children) : n.children[j] \in DOMAIN nodes
  BY <1>1, NodeTypes
<1>3. /\ i \in 1 .. Len(n.cells) + 1
      /\ \A j \in 1 .. i - 1 : n.cells[j].key < k
      /\ i <= Len(n.cells) => n.cells[i].key >= k
  BY <1>2, PlaceProperties
<1>4. Walk(k)[p] = AtNode(Walk(k), k, p)
  BY WalkEquation
<1>5. /\ ~AssertsHold(n) => Walk(k)[p] = [ok |-> FALSE]
      /\ AssertsHold(n) /\ found => Walk(k)[p] = [ok |-> TRUE, pageID |-> p, cellID |-> i]
      /\ AssertsHold(n) /\ ~found /\ n.leaf =>
           Walk(k)[p] = [ok |-> TRUE, pageID |-> p, cellID |-> CELLID_INVALID]
      /\ AssertsHold(n) /\ ~found /\ ~n.leaf => Walk(k)[p] = Walk(k)[n.children[i]]
  BY <1>4 DEF AtNode
<1>6. ~n.leaf => n.cells # << >>
  BY DEF Ranked
<1> HIDE DEF i
<1>7. ASSUME AssertsHold(n), ~found, ~n.leaf
      PROVE  /\ Len(n.children) = Len(n.cells) + 1
             /\ i \in 1 .. Len(n.children)
             /\ n.children[i] \in DOMAIN nodes
             /\ nodes[n.children[i]].parent = p
             /\ h[n.children[i]] + 1 = h[p]
  <2>1. Len(n.children) = Len(n.cells) + 1
    BY <1>6, <1>7 DEF AssertsHold
  <2>2. i \in 1 .. Len(n.children)
    BY <1>3, <2>1
  <2> QED BY <1>2, <2>1, <2>2 DEF Ranked, Links
<1>8. ASSUME ~found
      PROVE  Between(n.cells, i, k)
  <2>1. i > 1 => n.cells[i - 1].key < k
    BY <1>2, <1>3
  <2>2. i <= Len(n.cells) => k < n.cells[i].key
    BY <1>2, <1>3, <1>8
  <2> QED BY <2>1, <2>2 DEF Between
<1>9. /\ i \in 1 .. Len(n.cells) + 1
      /\ ~AssertsHold(n) => Walk(k)[p] = [ok |-> FALSE]
      /\ AssertsHold(n) /\ found => Walk(k)[p] = [ok |-> TRUE, pageID |-> p, cellID |-> i]
      /\ AssertsHold(n) /\ ~found /\ n.leaf =>
           Walk(k)[p] = [ok |-> TRUE, pageID |-> p, cellID |-> CELLID_INVALID]
      /\ AssertsHold(n) /\ ~found /\ ~n.leaf =>
           /\ Len(n.children) = Len(n.cells) + 1
           /\ i \in 1 .. Len(n.children)
           /\ n.children[i] \in DOMAIN nodes
           /\ nodes[n.children[i]].parent = p
           /\ h[n.children[i]] + 1 = h[p]
           /\ Walk(k)[p] = Walk(k)[n.children[i]]
      /\ ~found => Between(n.cells, i, k)
  BY <1>3, <1>5, <1>7, <1>8
<1> QED BY <1>9 DEF i, Stepped

Found(cells, k) == Place(cells, k) <= Len(cells) /\ cells[Place(cells, k)].key = k

\* A search that ends without an assertion ends at a cell with the key or in a leaf
\* that its parent lists, and whose cells do not have the key at its place.
Sound(k, p) ==
  LET w == Walk(k)[p]
  IN  /\ w.ok \in BOOLEAN
      /\ w.ok =>
           /\ w.pageID \in DOMAIN nodes
           /\ w.cellID \in 0 .. Len(nodes[w.pageID].cells)
           /\ w.cellID # 0 => nodes[w.pageID].cells[w.cellID].key = k
           /\ w.cellID = 0 => nodes[w.pageID].leaf /\ ~Found(nodes[w.pageID].cells, k)
           /\ w.pageID = p \/
                LET q == nodes[w.pageID].parent
                IN  Listed(nodes, w.pageID) /\ Len(nodes[q].children) <= Len(nodes[q].cells) + 1

\* In a tree whose children are lower than their parents every search is Sound.
LEMMA WalkSound ==
  ASSUME TypeOK, NEW top, NEW h, Ranked(top, h), NEW k \in Int
  PROVE  \A p \in DOMAIN nodes : Sound(k, p)
<1> SUFFICES ASSUME NEW z \in DOMAIN nodes, ~Sound(k, z)
             PROVE  FALSE
  OBVIOUS
<1> DEFINE bad == {p \in DOMAIN nodes : ~Sound(k, p)}
           U == {h[p] : p \in bad}
<1>1. top \in Nat /\ \A p \in DOMAIN nodes : h[p] \in 0 .. top
  BY DEF Ranked
<1>2. U \in SUBSET (0 .. top) /\ U # {}
  BY <1>1
<1>3. PICK m \in U : \A j \in U : m <= j
  <2> HIDE DEF U
  <2> QED BY <1>1, <1>2, Minimum
<1>4. PICK p \in bad : h[p] = m
  BY <1>3
<1>5. p \in DOMAIN nodes /\ ~Sound(k, p) /\ \A x \in DOMAIN nodes : h[x] < h[p] => Sound(k, x)
  <2>1. ASSUME NEW x \in DOMAIN nodes, h[x] < h[p], ~Sound(k, x)
        PROVE  FALSE
    <3>1. h[x] \in U
      BY <2>1
    <3> HIDE DEF U, bad
    <3>2. m <= h[x] /\ h[p] = m /\ h[x] \in Int /\ m \in Int
      BY <1>1, <1>2, <1>3, <1>4, <3>1
    <3> QED BY <2>1, <3>2
  <2> QED BY <1>4, <2>1
<1> HIDE DEF bad, U
<1> DEFINE n == nodes[p]
           i == Place(n.cells, k)
           found == i <= Len(n.cells) /\ n.cells[i].key = k
           c == n.children[i]
           w == Walk(k)[p]
<1>6. /\ i \in 1 .. Len(n.cells) + 1
      /\ ~AssertsHold(n) => w = [ok |-> FALSE]
      /\ AssertsHold(n) /\ found => w = [ok |-> TRUE, pageID |-> p, cellID |-> i]
      /\ AssertsHold(n) /\ ~found /\ n.leaf =>
           w = [ok |-> TRUE, pageID |-> p, cellID |-> CELLID_INVALID]
      /\ AssertsHold(n) /\ ~found /\ ~n.leaf =>
           /\ Len(n.children) = Len(n.cells) + 1
           /\ i \in 1 .. Len(n.children)
           /\ c \in DOMAIN nodes
           /\ nodes[c].parent = p
           /\ h[c] + 1 = h[p]
           /\ w = Walk(k)[c]
  <2>1. Stepped(h, k, p)
    BY <1>5, WalkAt
  <2> QED BY <2>1 DEF Stepped
<1>7. Len(n.cells) \in Nat
  BY <1>5, TypeOKUnfolded, NodeTypes
<1> HIDE DEF i, w
<1>8. CASE ~AssertsHold(n)
  <2>1. w.ok = FALSE
    BY <1>6, <1>8
  <2> QED BY <1>5, <2>1 DEF Sound, w
<1>9. CASE AssertsHold(n) /\ found
  <2>1. w.ok = TRUE /\ w.pageID = p /\ w.cellID = i
    BY <1>6, <1>9
  <2>2. i \in 0 .. Len(n.cells) /\ i # 0
    BY <1>6, <1>7, <1>9
  <2> QED BY <1>5, <1>9, <2>1, <2>2 DEF Sound, w
<1>10. CASE AssertsHold(n) /\ ~found /\ n.leaf
  <2>1. w.ok = TRUE /\ w.pageID = p /\ w.cellID = 0
    BY <1>6, <1>10 DEF CELLID_INVALID
  <2>2. 0 \in 0 .. Len(n.cells) /\ n.leaf
    BY <1>7, <1>10
  <2>3. ~Found(n.cells, k)
    BY <1>10 DEF Found, i
  <2> QED BY <1>5, <2>1, <2>2, <2>3 DEF Sound, w
<1>11. CASE AssertsHold(n) /\ ~found /\ ~n.leaf
  <2>1. /\ Len(n.children) <= Len(n.cells) + 1
        /\ i \in 1 .. Len(n.children)
        /\ c \in DOMAIN nodes /\ nodes[c].parent = p /\ h[c] + 1 = h[p]
        /\ w = Walk(k)[c]
    BY <1>6, <1>7, <1>11
  <2>2. Sound(k, c)
    BY <1>1, <1>5, <2>1
  <2>3. Listed(nodes, c) /\ Len(nodes[nodes[c].parent].children) <= Len(nodes[nodes[c].parent].cells) + 1
    BY <1>5, <2>1 DEF Listed
  <2> QED BY <1>5, <2>1, <2>2, <2>3 DEF Sound, w
<1> QED BY <1>8, <1>9, <1>10, <1>11

\* In an ordered tree no assertion fails, and a search ends at a node whose
\* set of keys has the key.
LEMMA WalkOrdered ==
  ASSUME TypeOK, NEW top, NEW h, Ranked(top, h), NEW k \in Int,
         NEW b, Ordered(nodes, m_rootPageID, b)
  PROVE  \A p \in DOMAIN nodes :
           Walk(k)[p].ok /\ (k \in b[p] => k \in b[Walk(k)[p].pageID])
<1> DEFINE Good(p) == Walk(k)[p].ok /\ (k \in b[p] => k \in b[Walk(k)[p].pageID])
<1> SUFFICES ASSUME NEW z \in DOMAIN nodes, ~Good(z)
             PROVE  FALSE
  OBVIOUS
<1> DEFINE bad == {p \in DOMAIN nodes : ~Good(p)}
           U == {h[p] : p \in bad}
<1>1. top \in Nat /\ \A p \in DOMAIN nodes : h[p] \in 0 .. top
  BY DEF Ranked
<1>2. U \in SUBSET (0 .. top) /\ U # {}
  BY <1>1
<1>3. PICK m \in U : \A j \in U : m <= j
  <2> HIDE DEF U
  <2> QED BY <1>1, <1>2, Minimum
<1>4. PICK p \in bad : h[p] = m
  BY <1>3
<1>5. p \in DOMAIN nodes /\ ~Good(p) /\ \A x \in DOMAIN nodes : h[x] < h[p] => Good(x)
  <2> HIDE DEF Good
  <2>1. ASSUME NEW x \in DOMAIN nodes, h[x] < h[p], ~Good(x)
        PROVE  FALSE
    <3>1. h[x] \in U
      BY <2>1
    <3> HIDE DEF U, bad
    <3>2. m <= h[x] /\ h[p] = m /\ h[x] \in Int /\ m \in Int
      BY <1>1, <1>2, <1>3, <1>4, <3>1
    <3> QED BY <2>1, <3>2
  <2> QED BY <1>4, <2>1
<1> HIDE DEF bad, U, Good
<1> DEFINE n == nodes[p]
           i == Place(n.cells, k)
           found == i <= Len(n.cells) /\ n.cells[i].key = k
           c == n.children[i]
           w == Walk(k)[p]
<1>6. /\ i \in 1 .. Len(n.cells) + 1
      /\ ~AssertsHold(n) => w = [ok |-> FALSE]
      /\ AssertsHold(n) /\ found => w = [ok |-> TRUE, pageID |-> p, cellID |-> i]
      /\ AssertsHold(n) /\ ~found /\ n.leaf =>
           w = [ok |-> TRUE, pageID |-> p, cellID |-> CELLID_INVALID]
      /\ AssertsHold(n) /\ ~found /\ ~n.leaf =>
           /\ Len(n.children) = Len(n.cells) + 1
           /\ i \in 1 .. Len(n.children)
           /\ c \in DOMAIN nodes
           /\ nodes[c].parent = p
           /\ h[c] + 1 = h[p]
           /\ w = Walk(k)[c]
      /\ ~found => Between(n.cells, i, k)
  <2>1. Stepped(h, k, p)
    BY <1>5, WalkAt
  <2> QED BY <2>1 DEF Stepped
<1>7. AssertsHold(n)
  <2>1. /\ ~n.leaf => Len(n.children) = Len(n.cells) + 1 /\ n.cells # << >>
        /\ n.leaf => n.children = << >>
    BY <1>5 DEF Ordered, Ranked, Links
  <2> QED BY <2>1 DEF AssertsHold
<1> HIDE DEF i, w
<1>8. CASE found \/ n.leaf
  <2>1. w.ok = TRUE /\ w.pageID = p
    BY <1>6, <1>7, <1>8
  <2> QED BY <1>5, <2>1 DEF Good, w
<1>9. CASE ~found /\ ~n.leaf
  <2>1. /\ i \in 1 .. Len(n.children)
        /\ c \in DOMAIN nodes
        /\ h[c] + 1 = h[p]
        /\ w = Walk(k)[c]
        /\ Between(n.cells, i, k)
    BY <1>6, <1>7, <1>9
  <2>2. Good(c)
    BY <1>1, <1>5, <2>1
  <2>3. k \in b[p] => k \in b[c]
    BY <1>5, <2>1 DEF Ordered
  <2> QED BY <1>5, <2>1, <2>2, <2>3 DEF Good, w
<1> QED BY <1>8, <1>9

-----------------------------------------------------------------------------
(* split *)

\* What the type of a tree's nodes says of their fields.
LEMMA TreeTypes ==
  ASSUME NEW f, NEW root, NEW h, NEW b, Tree(f, root, h, b), NEW p \in DOMAIN f
  PROVE  /\ Len(f[p].cells) \in Nat
         /\ \A i \in 1 .. Len(f[p].cells) : f[p].cells[i] \in Cell /\ f[p].cells[i].key \in Int
         /\ Len(f[p].children) \in Nat
         /\ \A i \in 1 .. Len(f[p].children) : f[p].children[i] \in DOMAIN f
         /\ f[p].cells # << >> => Len(f[p].cells) >= 1
         /\ h[p] \in Nat
BY NodeTypes DEF Tree

\* A node is the child of one node, and of that once: otherwise one place too
\* many would have to hold its keys.
LEMMA ChildrenDiffer ==
  ASSUME NEW f, NEW root, NEW h, NEW b, Tree(f, root, h, b), NEW p \in DOMAIN f,
         NEW i \in 1 .. Len(f[p].children), NEW j \in 1 .. Len(f[p].children), i < j
  PROVE  f[p].children[i] # f[p].children[j]
<1> SUFFICES ASSUME f[p].children[i] = f[p].children[j]
             PROVE  FALSE
  OBVIOUS
<1> DEFINE c == f[p].children[i]
           cells == f[p].cells
           x == f[c].cells[1].key
<1>1. /\ Len(cells) \in Nat /\ Len(f[p].children) \in Nat /\ c \in DOMAIN f
      /\ \A a \in 1 .. Len(cells) : cells[a].key \in Int
  BY TreeTypes
<1>2. f[c].parent = p /\ f[p].children # << >>
  BY <1>1 DEF Tree, Links
<1>3. c # root /\ ~f[p].leaf
  BY <1>1, <1>2 DEF Tree, Ordered, Links
<1>4. Len(f[p].children) = Len(cells) + 1 /\ f[c].cells # << >>
  BY <1>1, <1>3 DEF Tree, Ordered
<1>5. 1 \in 1 .. Len(f[c].cells) /\ x \in Int
  <2> HIDE DEF c, x
  <2>1. /\ Len(f[c].cells) \in Nat /\ Len(f[c].cells) >= 1
        /\ \A k \in 1 .. Len(f[c].cells) : f[c].cells[k].key \in Int
    BY <1>1, <1>4, TreeTypes
  <2>2. 1 \in 1 .. Len(f[c].cells)
    BY <2>1
  <2> QED BY <2>1, <2>2 DEF x
<1>6. x \in b[c]
  <2>1. \A k \in 1 .. Len(f[c].cells) : f[c].cells[k].key \in b[c]
    BY <1>1 DEF Tree, Ordered
  <2> QED BY <1>5, <2>1
<1>7. b[c] = {y \in b[p] : Between(cells, i, y)} /\ b[c] = {y \in b[p] : Between(cells, j, y)}
  BY DEF Tree, Ordered
<1> HIDE DEF c, x
<1>8. i <= Len(cells) /\ j > 1 /\ i <= j - 1 /\ i \in 1 .. Len(cells) /\ j - 1 \in 1 .. Len(cells)
  BY <1>1, <1>4
<1>9. x < cells[i].key /\ cells[j - 1].key < x
  BY <1>6, <1>7, <1>8 DEF Between
<1>10. i < j - 1 => cells[i].key < cells[j - 1].key
  BY <1>8 DEF Tree, Ordered
<1> QED BY <1>1, <1>5, <1>8, <1>9, <1>10

\* In g node p of f has kept its first m cells, its parent q has got the next one
\* and node new the rest, with the children around them.
Divided(f, g, p, q, idx, m, new) ==
  LET n == f[p]
      rest == Len(n.cells) - m - 1
  IN  /\ DOMAIN g = DOMAIN f \cup {new}
      /\ \A x \in DOMAIN f : g[x].root = f[x].root /\ g[x].leaf = f[x].leaf
      /\ g[new].root = FALSE /\ g[new].leaf = n.leaf /\ g[new].parent = q
      /\ \A x \in DOMAIN f :
           x # p /\ x # q => g[x].cells = f[x].cells /\ g[x].children = f[x].children
      /\ Len(g[p].cells) = m
      /\ \A i \in 1 .. m : g[p].cells[i] = n.cells[i]
      /\ Len(g[new].cells) = rest
      /\ \A i \in 1 .. rest : g[new].cells[i] = n.cells[m + 1 + i]
      /\ n.leaf => g[p].children = << >> /\ g[new].children = << >>
      /\ ~n.leaf =>
           /\ Len(g[p].children) = m + 1
           /\ \A i \in 1 .. m + 1 : g[p].children[i] = n.children[i]
           /\ Len(g[new].children) = rest + 1
           /\ \A i \in 1 .. rest + 1 : g[new].children[i] = n.children[m + 1 + i]
      /\ Len(g[q].cells) = Len(f[q].cells) + 1
      /\ \A i \in 1 .. Len(f[q].cells) + 1 :
           g[q].cells[i] = IF i < idx THEN f[q].cells[i]
                           ELSE IF i = idx THEN n.cells[m + 1] ELSE f[q].cells[i - 1]
      /\ Len(g[q].children) = Len(f[q].children) + 1
      /\ \A i \in 1 .. Len(f[q].children) + 1 :
           g[q].children[i] = IF i < idx + 1 THEN f[q].children[i]
                              ELSE IF i = idx + 1 THEN new ELSE f[q].children[i - 1]
      /\ \A x \in DOMAIN f :
           g[x].parent = IF \E i \in 1 .. Len(g[new].children) : g[new].children[i] = x
                         THEN new ELSE f[x].parent

\* What split may divide: a node that is not the root and keeps cells in both halves.
Divisible(f, root, p, q, idx, m, new) ==
  /\ p \in DOMAIN f /\ p # root /\ q = f[p].parent /\ new \notin DOMAIN f
  /\ idx \in 1 .. Len(f[q].children) /\ f[q].children[idx] = p
  /\ m \in 1 .. Len(f[p].cells) - 2

\* Which nodes division concerns, and how their children change parents.
LEMMA DivideFamily ==
  ASSUME NEW f, NEW root, NEW h, NEW b, Tree(f, root, h, b),
         NEW g, NEW p, NEW q, NEW idx, NEW m, NEW new,
         Divisible(f, root, p, q, idx, m, new), Divided(f, g, p, q, idx, m, new)
  PROVE  /\ q \in DOMAIN f /\ p \in DOMAIN f /\ p # q /\ h[p] + 1 = h[q] /\ ~f[q].leaf
         /\ ~f[p].leaf => Len(f[p].children) = Len(f[p].cells) + 1
         /\ Len(f[q].children) = Len(f[q].cells) + 1
         /\ \A x \in DOMAIN f : g[x].parent # f[x].parent => f[x].parent = p /\ g[x].parent = new
         /\ \A i \in 1 .. Len(g[new].children) :
              /\ g[new].children[i] \in DOMAIN f
              /\ f[g[new].children[i]].parent = p
              /\ g[g[new].children[i]].parent = new
         /\ \A i \in 1 .. Len(g[p].children) :
              /\ g[p].children[i] \in DOMAIN f
              /\ f[g[p].children[i]].parent = p
              /\ g[g[p].children[i]].parent = p
         /\ Len(g[p].children) \in Nat /\ Len(g[new].children) \in Nat
<1> DEFINE n == f[p]
           rest == Len(n.cells) - m - 1
<1>1. p \in DOMAIN f /\ q \in DOMAIN f
  BY DEF Divisible, Tree, Ordered, Listed
<1>2. h[p] \in Nat /\ h[q] \in Nat /\ Len(f[q].children) \in Nat /\ Len(n.children) \in Nat
      /\ Len(n.cells) \in Nat
  BY <1>1, TreeTypes
<1>3. h[p] + 1 = h[q]
  BY <1>1, <1>2 DEF Divisible, Tree, Links
<1>4. p # q /\ ~f[q].leaf
  BY <1>1, <1>2, <1>3 DEF Tree, Links
<1>5. Len(f[q].children) = Len(f[q].cells) + 1 /\ (~n.leaf => Len(n.children) = Len(n.cells) + 1)
  BY <1>1, <1>4 DEF Tree, Ordered
<1>6. /\ n.leaf => g[p].children = << >> /\ g[new].children = << >>
      /\ ~n.leaf =>
           /\ Len(g[p].children) = m + 1
           /\ \A i \in 1 .. m + 1 : g[p].children[i] = n.children[i]
           /\ Len(g[new].children) = rest + 1
           /\ \A i \in 1 .. rest + 1 : g[new].children[i] = n.children[m + 1 + i]
  BY DEF Divided
<1>15. rest \in Nat /\ m \in Nat /\ m >= 1 /\ rest + m + 1 = Len(n.cells)
  BY <1>2 DEF Divisible
<1> HIDE DEF rest
<1>7. ASSUME NEW i \in 1 .. Len(g[new].children)
      PROVE  /\ ~n.leaf /\ i \in 1 .. rest + 1 /\ m + 1 + i \in 1 .. Len(n.children)
             /\ g[new].children[i] = n.children[m + 1 + i]
  <2>1. ~n.leaf
    BY <1>6
  <2>2. /\ Len(g[new].children) = rest + 1 /\ Len(n.children) = Len(n.cells) + 1
        /\ g[new].children[i] = n.children[m + 1 + i]
    BY <1>5, <1>6, <2>1
  <2>3. i \in 1 .. rest + 1
    BY <2>2
  <2> QED BY <1>15, <2>1, <2>2, <2>3
<1>8. ASSUME NEW i \in 1 .. Len(g[p].children)
      PROVE  /\ ~n.leaf /\ i \in 1 .. m + 1 /\ i \in 1 .. Len(n.children)
             /\ g[p].children[i] = n.children[i]
  <2>1. ~n.leaf
    BY <1>6
  <2>2. /\ Len(g[p].children) = m + 1 /\ Len(n.children) = Len(n.cells) + 1
        /\ g[p].children[i] = n.children[i]
    BY <1>5, <1>6, <2>1
  <2>3. i \in 1 .. m + 1
    BY <2>2
  <2> QED BY <1>15, <2>1, <2>2, <2>3
<1>9. \A i \in 1 .. Len(n.children) : n.children[i] \in DOMAIN f /\ f[n.children[i]].parent = p
  BY <1>1, TreeTypes DEF Tree, Links
<1>10. \A x \in DOMAIN f :
         g[x].parent = IF \E i \in 1 .. Len(g[new].children) : g[new].children[i] = x
                       THEN new ELSE f[x].parent
  BY DEF Divided
<1>11. ASSUME NEW i \in 1 .. Len(g[new].children)
       PROVE  /\ g[new].children[i] \in DOMAIN f
              /\ f[g[new].children[i]].parent = p
              /\ g[g[new].children[i]].parent = new
  <2> DEFINE c == g[new].children[i]
  <2>1. c \in DOMAIN f /\ f[c].parent = p
    BY <1>7, <1>9
  <2>2. \E j \in 1 .. Len(g[new].children) : g[new].children[j] = c
    OBVIOUS
  <2> HIDE DEF c
  <2>3. g[c].parent = new
    BY <1>10, <2>1, <2>2
  <2> QED BY <2>1, <2>3 DEF c
<1>12. \A x \in DOMAIN f : g[x].parent # f[x].parent => f[x].parent = p /\ g[x].parent = new
  BY <1>10, <1>11
<1>13. ASSUME NEW i \in 1 .. Len(g[p].children)
       PROVE  /\ g[p].children[i] \in DOMAIN f
              /\ f[g[p].children[i]].parent = p
              /\ g[g[p].children[i]].parent = p
  <2>1. g[p].children[i] = n.children[i] /\ i \in 1 .. Len(n.children) /\ i <= m + 1
    <3>1. g[p].children[i] = n.children[i] /\ i \in 1 .. Len(n.children) /\ i \in 1 .. m + 1
      BY <1>8
    <3> HIDE DEF n
    <3> QED BY <3>1
  <2>2. ASSUME NEW j \in 1 .. Len(g[new].children), g[new].children[j] = n.children[i]
        PROVE  FALSE
    <3>1. m + 1 + j \in 1 .. Len(n.children) /\ n.children[m + 1 + j] = n.children[i]
      BY <1>7, <2>2
    <3>2. i < m + 1 + j
      BY <1>7, <1>15, <2>1
    <3> QED BY <1>1, <2>1, <3>1, <3>2, ChildrenDiffer
  <2> QED BY <1>9, <1>10, <2>1, <2>2
<1>14. Len(g[p].children) \in Nat /\ Len(g[new].children) \in Nat
  <2>1. CASE n.leaf
    <3>1. g[p].children = << >> /\ g[new].children = << >>
      BY <1>6, <2>1
    <3> QED BY <3>1
  <2>2. CASE ~n.leaf
    <3>1. Len(g[p].children) = m + 1 /\ Len(g[new].children) = rest + 1
      BY <1>6, <2>2
    <3> QED BY <3>1, <1>15
  <2> QED BY <2>1, <2>2
<1> QED BY <1>1, <1>3, <1>4, <1>5, <1>11, <1>12, <1>13, <1>14

\* The halves of a node have its height.
LEMMA DividedLinks ==
  ASSUME NEW f, NEW root, NEW h, NEW b, Tree(f, root, h, b),
         NEW g, NEW p, NEW q, NEW idx, NEW m, NEW new,
         Divisible(f, root, p, q, idx, m, new), Divided(f, g, p, q, idx, m, new),
         NEW j, \A x \in DOMAIN f : j[x] = h[x], j[new] = h[p]
  PROVE  Links(g, root, j)
<1>1. /\ q \in DOMAIN f /\ p \in DOMAIN f /\ p # q /\ h[p] + 1 = h[q] /\ ~f[q].leaf
      /\ \A x \in DOMAIN f : g[x].parent # f[x].parent => f[x].parent = p /\ g[x].parent = new
      /\ \A i \in 1 .. Len(g[new].children) :
           /\ g[new].children[i] \in DOMAIN f
           /\ f[g[new].children[i]].parent = p
           /\ g[g[new].children[i]].parent = new
      /\ \A i \in 1 .. Len(g[p].children) :
           /\ g[p].children[i] \in DOMAIN f
           /\ f[g[p].children[i]].parent = p
           /\ g[g[p].children[i]].parent = p
  BY DivideFamily
<1>2. /\ DOMAIN g = DOMAIN f \cup {new} /\ new \notin DOMAIN f /\ new # root
      /\ \A x \in DOMAIN f : g[x].root = f[x].root /\ g[x].leaf = f[x].leaf
      /\ g[new].root = FALSE /\ g[new].leaf = f[p].leaf /\ g[new].parent = q
      /\ \A x \in DOMAIN f :
           x # p /\ x # q => g[x].cells = f[x].cells /\ g[x].children = f[x].children
      /\ f[p].leaf => g[p].children = << >> /\ g[new].children = << >>
      /\ \A i \in 1 .. Len(g[q].children) :
           g[q].children[i] = new \/ \E k \in 1 .. Len(f[q].children) : g[q].children[i] = f[q].children[k]
  <2>1. root \in DOMAIN f
    BY DEF Tree, Ordered
  <2>2. Len(f[q].children) \in Nat /\ idx \in 1 .. Len(f[q].children)
    BY <1>1, TreeTypes DEF Divisible
  <2>3. /\ Len(g[q].children) = Len(f[q].children) + 1
        /\ \A i \in 1 .. Len(f[q].children) + 1 :
             g[q].children[i] = IF i < idx + 1 THEN f[q].children[i]
                                ELSE IF i = idx + 1 THEN new ELSE f[q].children[i - 1]
    BY DEF Divided
  <2>4. ASSUME NEW i \in 1 .. Len(g[q].children)
        PROVE  g[q].children[i] = new \/ \E k \in 1 .. Len(f[q].children) : g[q].children[i] = f[q].children[k]
    <3>1. i < idx + 1 => i \in 1 .. Len(f[q].children)
      BY <2>2, <2>3
    <3>2. i > idx + 1 => i - 1 \in 1 .. Len(f[q].children)
      BY <2>2, <2>3
    <3> QED BY <2>2, <2>3, <3>1, <3>2
  <2> QED BY <2>1, <2>4 DEF Divided, Divisible
<1>3. \A x \in DOMAIN f : \A i \in 1 .. Len(f[x].children) :
        f[x].children[i] \in DOMAIN f /\ f[f[x].children[i]].parent = x /\ h[f[x].children[i]] + 1 = h[x]
  BY TreeTypes DEF Tree, Links
<1>4. \A x \in DOMAIN f : /\ f[x].root <=> x = root
                          /\ f[x].leaf <=> h[x] = 0
                          /\ f[x].leaf => f[x].children = << >>
                          /\ h[x] \in Nat
  BY TreeTypes DEF Tree, Links
<1>5. ASSUME NEW x \in DOMAIN g
      PROVE  /\ g[x].root <=> x = root
             /\ g[x].leaf <=> j[x] = 0
             /\ g[x].leaf => g[x].children = << >>
  <2>1. CASE x = new
    BY <1>1, <1>2, <1>4, <2>1
  <2>2. CASE x # new
    BY <1>1, <1>2, <1>4, <2>2
  <2> QED BY <2>1, <2>2
<1>6. \A x \in DOMAIN f : f[x].parent = p => h[x] + 1 = h[p]
  <2> SUFFICES ASSUME NEW x \in DOMAIN f, f[x].parent = p
               PROVE  h[x] + 1 = h[p]
    OBVIOUS
  <2>1. x # root
    BY <1>1 DEF Tree, Ordered
  <2>2. Listed(f, x)
    BY <2>1 DEF Tree, Ordered
  <2> QED BY <1>3, <2>2 DEF Listed
<1>7. ASSUME NEW x \in DOMAIN g, NEW i \in 1 .. Len(g[x].children)
      PROVE  g[g[x].children[i]].parent = x /\ j[g[x].children[i]] + 1 = j[x]
  <2> DEFINE c == g[x].children[i]
  <2>1. CASE x = new
    <3>1. c \in DOMAIN f /\ f[c].parent = p /\ g[c].parent = new
      BY <1>1, <1>7, <2>1
    <3> HIDE DEF c
    <3>2. g[c].parent = x /\ j[c] + 1 = j[x]
      BY <1>6, <2>1, <3>1
    <3> QED BY <3>2 DEF c
  <2>2. CASE x = p
    <3>1. c \in DOMAIN f /\ f[c].parent = p /\ g[c].parent = p
      BY <1>1, <1>7, <2>2
    <3> HIDE DEF c
    <3>2. g[c].parent = x /\ j[c] + 1 = j[x]
      BY <1>1, <1>6, <2>2, <3>1
    <3> QED BY <3>2 DEF c
  <2>3. CASE x = q
    <3>1. c = new \/ \E k \in 1 .. Len(f[q].children) : c = f[q].children[k]
      BY <1>2, <1>7, <2>3
    <3> HIDE DEF c
    <3>2. CASE c = new
      <4>1. g[c].parent = x /\ j[c] + 1 = j[x]
        BY <1>1, <1>2, <2>3, <3>2
      <4> QED BY <4>1 DEF c
    <3>3. CASE \E k \in 1 .. Len(f[q].children) : c = f[q].children[k]
      <4>1. c \in DOMAIN f /\ f[c].parent = q /\ h[c] + 1 = h[q]
        BY <1>1, <1>3, <3>3
      <4>2. g[c].parent = x /\ j[c] + 1 = j[x]
        BY <1>1, <2>3, <4>1
      <4> QED BY <4>2 DEF c
    <3> QED BY <3>1, <3>2, <3>3
  <2>4. CASE x # new /\ x # p /\ x # q
    <3>1. x \in DOMAIN f /\ g[x].children = f[x].children
      BY <1>2, <2>4
    <3>2. c \in DOMAIN f /\ f[c].parent = x /\ h[c] + 1 = h[x]
      BY <1>3, <1>7, <3>1
    <3> HIDE DEF c
    <3>3. g[c].parent = x /\ j[c] + 1 = j[x]
      BY <1>1, <2>4, <3>1, <3>2
    <3> QED BY <3>3 DEF c
  <2> QED BY <2>1, <2>2, <2>3, <2>4
<1> QED BY <1>5, <1>7 DEF Links

\* c has the keys of b, those of node p divided among p and new.
Shared(f, b, c, p, m, new) ==
  /\ \A x \in DOMAIN f : x # p => c[x] = b[x]
  /\ c[p] = {x \in b[p] : x < f[p].cells[m + 1].key}
  /\ c[new] = {x \in b[p] : f[p].cells[m + 1].key < x}

\* After a node is divided every page is still among the children of its parent.
LEMMA DividedListed ==
  ASSUME NEW f, NEW root, NEW h, NEW b, Tree(f, root, h, b),
         NEW g, NEW p, NEW q, NEW idx, NEW m, NEW new,
         Divisible(f, root, p, q, idx, m, new), Divided(f, g, p, q, idx, m, new)
  PROVE  /\ root \in DOMAIN g /\ g[root].parent = PGID_INVALID
         /\ \A x \in DOMAIN g : ~g[x].leaf => Len(g[x].children) = Len(g[x].cells) + 1
         /\ \A x \in DOMAIN g : x # root => Listed(g, x)
<1> DEFINE n == f[p]
           rest == Len(n.cells) - m - 1
<1>1. /\ q \in DOMAIN f /\ p \in DOMAIN f /\ p # q /\ ~f[q].leaf
      /\ ~f[p].leaf => Len(f[p].children) = Len(f[p].cells) + 1
      /\ Len(f[q].children) = Len(f[q].cells) + 1
      /\ \A x \in DOMAIN f : g[x].parent # f[x].parent => f[x].parent = p /\ g[x].parent = new
      /\ \A i \in 1 .. Len(g[new].children) : g[g[new].children[i]].parent = new
  BY DivideFamily
<1>2. /\ DOMAIN g = DOMAIN f \cup {new} /\ new \notin DOMAIN f
      /\ \A x \in DOMAIN f : g[x].leaf = f[x].leaf
      /\ g[new].leaf = f[p].leaf /\ g[new].parent = q
      /\ \A x \in DOMAIN f :
           x # p /\ x # q => g[x].cells = f[x].cells /\ g[x].children = f[x].children
      /\ \A x \in DOMAIN f :
           g[x].parent = IF \E i \in 1 .. Len(g[new].children) : g[new].children[i] = x
                         THEN new ELSE f[x].parent
  BY DEF Divided, Divisible
<1>3. /\ Len(n.cells) \in Nat /\ Len(n.children) \in Nat
      /\ Len(f[q].children) \in Nat /\ Len(f[q].cells) \in Nat
  BY <1>1, TreeTypes
<1>4. /\ Len(g[p].cells) = m
      /\ Len(g[new].cells) = rest
      /\ ~n.leaf =>
           /\ Len(g[p].children) = m + 1
           /\ \A i \in 1 .. m + 1 : g[p].children[i] = n.children[i]
           /\ Len(g[new].children) = rest + 1
           /\ \A i \in 1 .. rest + 1 : g[new].children[i] = n.children[m + 1 + i]
  BY DEF Divided
<1>5. /\ Len(g[q].cells) = Len(f[q].cells) + 1
      /\ Len(g[q].children) = Len(f[q].children) + 1
      /\ \A i \in 1 .. Len(f[q].children) + 1 :
           g[q].children[i] = IF i < idx + 1 THEN f[q].children[i]
                              ELSE IF i = idx + 1 THEN new ELSE f[q].children[i - 1]
  BY DEF Divided
<1>6. /\ rest \in Nat /\ m \in Nat /\ m >= 1 /\ rest + m + 1 = Len(n.cells)
      /\ idx \in 1 .. Len(f[q].children)
  BY <1>3 DEF Divisible
<1> HIDE DEF rest
<1>7. root \in DOMAIN g /\ g[root].parent = PGID_INVALID
  <2>1. root \in DOMAIN f /\ f[root].parent = PGID_INVALID /\ PGID_INVALID # p
    BY <1>1 DEF Tree, Ordered
  <2> QED BY <1>1, <1>2, <2>1
<1>8. ASSUME NEW x \in DOMAIN g, ~g[x].leaf
      PROVE  Len(g[x].children) = Len(g[x].cells) + 1
  <2>1. CASE x = p
    BY <1>1, <1>2, <1>4, <1>8, <2>1
  <2>2. CASE x = new
    BY <1>1, <1>2, <1>4, <1>8, <2>2
  <2>3. CASE x = q
    BY <1>1, <1>5, <2>3
  <2>4. CASE x # p /\ x # q /\ x # new
    <3>1. x \in DOMAIN f /\ ~f[x].leaf
      BY <1>2, <1>8, <2>4
    <3>2. Len(f[x].children) = Len(f[x].cells) + 1
      BY <3>1 DEF Tree, Ordered
    <3> QED BY <1>2, <2>4, <3>1, <3>2
  <2> QED BY <2>1, <2>2, <2>3, <2>4
<1>9. ASSUME NEW i \in 1 .. Len(f[q].children)
      PROVE  \E k \in 1 .. Len(g[q].children) : g[q].children[k] = f[q].children[i]
  <2>1. CASE i < idx + 1
    <3>1. i \in 1 .. Len(f[q].children) + 1
      BY <1>3
    <3> QED BY <1>5, <2>1, <3>1
  <2>2. CASE i >= idx + 1
    <3>1. /\ i + 1 \in 1 .. Len(f[q].children) + 1 /\ ~(i + 1 < idx + 1) /\ i + 1 # idx + 1
          /\ (i + 1) - 1 = i
      BY <1>3, <1>6, <2>2
    <3> QED BY <1>5, <3>1
  <2>3. idx \in Int /\ i \in Int
    BY <1>6
  <2>4. i < idx + 1 \/ i >= idx + 1
    BY <2>3
  <2> QED BY <2>1, <2>2, <2>4
<1>10. ASSUME NEW x \in DOMAIN g, x # root
       PROVE  Listed(g, x)
  <2>1. CASE x = new
    <3>1. /\ idx + 1 \in 1 .. Len(f[q].children) + 1 /\ ~(idx + 1 < idx + 1)
          /\ idx + 1 = idx + 1
      BY <1>3, <1>6
    <3>2. g[q].children[idx + 1] = new
      BY <1>5, <3>1
    <3>3. idx + 1 \in 1 .. Len(g[q].children)
      BY <1>5, <3>1
    <3> QED BY <1>1, <1>2, <2>1, <3>2, <3>3 DEF Listed
  <2>2. CASE x # new /\ \E i \in 1 .. Len(g[new].children) : g[new].children[i] = x
    BY <1>2, <2>2 DEF Listed
  <2>3. CASE x # new /\ ~\E i \in 1 .. Len(g[new].children) : g[new].children[i] = x
    <3> DEFINE y == f[x].parent
    <3>1. x \in DOMAIN f /\ g[x].parent = y
      BY <1>2, <2>3
    <3>2. y \in DOMAIN f /\ \E i \in 1 .. Len(f[y].children) : f[y].children[i] = x
      BY <1>10, <3>1 DEF Tree, Ordered, Listed
    <3> HIDE DEF y
    <3>3. PICK i \in 1 .. Len(f[y].children) : f[y].children[i] = x
      BY <3>2
    <3>4. \E k \in 1 .. Len(g[y].children) : g[y].children[k] = x
      <4>1. CASE y = q
        BY <1>9, <3>3, <4>1
      <4>2. CASE y = p
        <5>1. f[p].children # << >> /\ ~f[p].leaf
          <6>1. f[p].children # << >>
            BY <3>3, <4>2
          <6> QED BY <1>1, <6>1 DEF Tree, Links
        <5>2. Len(n.children) = Len(n.cells) + 1
          BY <1>1, <5>1
        <5>3. CASE i <= m + 1
          <6>1. i \in 1 .. m + 1
            BY <5>3, <3>3, <1>3, <1>6
          <6>2. g[p].children[i] = n.children[i] /\ i \in 1 .. Len(g[p].children)
            BY <1>4, <5>1, <6>1
          <6> QED BY <3>3, <4>2, <6>2
        <5>4. CASE i > m + 1
          <6>1. i - (m + 1) \in 1 .. rest + 1 /\ m + 1 + (i - (m + 1)) = i
            BY <5>2, <5>4, <3>3, <4>2, <1>3, <1>6
          <6>2. g[new].children[i - (m + 1)] = n.children[i] /\ i - (m + 1) \in 1 .. Len(g[new].children)
            BY <1>4, <5>1, <6>1
          <6> QED BY <2>3, <3>3, <4>2, <6>2
        <5> QED BY <3>3, <1>6, <5>3, <5>4, <1>3, <4>2
      <4>3. CASE y # q /\ y # p
        BY <1>2, <3>2, <4>3
      <4> QED BY <4>1, <4>2, <4>3
    <3> QED BY <1>2, <3>1, <3>2, <3>4 DEF Listed
  <2> QED BY <2>1, <2>2, <2>3
<1> QED BY <1>7, <1>8, <1>10

\* After a node is divided the keys of every node are in order and among those it has.
LEMMA DividedKeys ==
  ASSUME NEW f, NEW root, NEW h, NEW b, Tree(f, root, h, b),
         NEW g, NEW p, NEW q, NEW idx, NEW m, NEW new,
         Divisible(f, root, p, q, idx, m, new), Divided(f, g, p, q, idx, m, new),
         NEW c, Shared(f, b, c, p, m, new), NEW x \in DOMAIN g
  PROVE  /\ x # root => g[x].cells # << >>
         /\ \A i, j \in 1 .. Len(g[x].cells) : i < j => g[x].cells[i].key < g[x].cells[j].key
         /\ \A i \in 1 .. Len(g[x].cells) : g[x].cells[i].key \in c[x]
<1> DEFINE n == f[p]
           rest == Len(n.cells) - m - 1
           med == n.cells[m + 1]
           old == f[q].cells
<1>1. /\ q \in DOMAIN f /\ p \in DOMAIN f /\ p # q /\ Len(f[q].children) = Len(f[q].cells) + 1
  BY DivideFamily
<1>2. /\ DOMAIN g = DOMAIN f \cup {new} /\ new \notin DOMAIN f /\ q = f[p].parent
      /\ \A y \in DOMAIN f : y # p /\ y # q => g[y].cells = f[y].cells
      /\ Len(g[p].cells) = m
      /\ \A i \in 1 .. m : g[p].cells[i] = n.cells[i]
      /\ Len(g[new].cells) = rest
      /\ \A i \in 1 .. rest : g[new].cells[i] = n.cells[m + 1 + i]
      /\ Len(g[q].cells) = Len(old) + 1
      /\ \A i \in 1 .. Len(old) + 1 :
           g[q].cells[i] = IF i < idx THEN old[i] ELSE IF i = idx THEN med ELSE old[i - 1]
  BY DEF Divided, Divisible
<1>3. /\ Len(n.cells) \in Nat /\ Len(old) \in Nat
      /\ \A i \in 1 .. Len(n.cells) : n.cells[i].key \in Int
      /\ \A i \in 1 .. Len(old) : old[i].key \in Int
  BY <1>1, TreeTypes
<1>4. /\ rest \in Nat /\ rest >= 1 /\ m \in Nat /\ m >= 1 /\ rest + m + 1 = Len(n.cells)
      /\ idx \in 1 .. Len(old) + 1 /\ m + 1 \in 1 .. Len(n.cells)
  BY <1>1, <1>3 DEF Divisible
<1>5. \A y \in DOMAIN f :
        /\ y # root => f[y].cells # << >>
        /\ \A i, j \in 1 .. Len(f[y].cells) : i < j => f[y].cells[i].key < f[y].cells[j].key
        /\ \A i \in 1 .. Len(f[y].cells) : f[y].cells[i].key \in b[y]
  BY DEF Tree, Ordered
<1>6. b[p] = {y \in b[q] : Between(old, idx, y)}
  <2>1. idx \in 1 .. Len(f[q].children) /\ f[q].children[idx] = p
    BY DEF Divisible
  <2>2. \A i \in 1 .. Len(f[q].children) :
          b[f[q].children[i]] = {y \in b[q] : Between(f[q].cells, i, y)}
    BY <1>1 DEF Tree, Ordered
  <2> QED BY <2>1, <2>2
<1>7. /\ \A y \in DOMAIN f : y # p => c[y] = b[y]
      /\ c[p] = {y \in b[p] : y < med.key}
      /\ c[new] = {y \in b[p] : med.key < y}
  BY DEF Shared
<1>8. med.key \in b[p] /\ med.key \in Int
  BY <1>1, <1>3, <1>4, <1>5
<1> HIDE DEF rest, n, med, old
<1>9. ASSUME NEW i \in 1 .. Len(n.cells), NEW j \in 1 .. Len(n.cells), i < j
      PROVE  n.cells[i].key < n.cells[j].key
  BY <1>1, <1>5, <1>9 DEF n
<1>10. ASSUME NEW i \in 1 .. Len(old), NEW j \in 1 .. Len(old), i < j
       PROVE  old[i].key < old[j].key
  BY <1>1, <1>5, <1>10 DEF old
<1>11. CASE x = p
  <2>1. ASSUME NEW i \in 1 .. Len(g[x].cells)
        PROVE  i \in 1 .. m /\ i \in 1 .. Len(n.cells) /\ i < m + 1 /\ g[x].cells[i] = n.cells[i]
    <3>1. i \in 1 .. m
      BY <1>2, <1>11
    <3> QED BY <1>2, <1>3, <1>4, <1>11, <3>1
  <2>2. ASSUME NEW i \in 1 .. Len(g[x].cells)
        PROVE  g[x].cells[i].key \in c[x]
    <3>1. n.cells[i].key < med.key
      BY <2>1, <1>4, <1>9 DEF med
    <3>2. n.cells[i].key \in b[p]
      BY <2>1, <1>1, <1>5 DEF n
    <3> QED BY <2>1, <3>1, <3>2, <1>7, <1>11
  <2>3. ASSUME NEW i \in 1 .. Len(g[x].cells), NEW j \in 1 .. Len(g[x].cells), i < j
        PROVE  g[x].cells[i].key < g[x].cells[j].key
    BY <2>1, <2>3, <1>9
  <2>4. g[x].cells # << >>
    <3>1. Len(g[x].cells) # 0
      BY <1>2, <1>4, <1>11
    <3> QED BY <3>1
  <2> QED BY <2>2, <2>3, <2>4
<1>12. CASE x = new
  <2>1. ASSUME NEW i \in 1 .. Len(g[x].cells)
        PROVE  /\ i \in 1 .. rest /\ m + 1 + i \in 1 .. Len(n.cells) /\ m + 1 < m + 1 + i
               /\ g[x].cells[i] = n.cells[m + 1 + i]
    <3>1. i \in 1 .. rest
      BY <1>2, <1>12
    <3> QED BY <1>2, <1>3, <1>4, <1>12, <3>1
  <2>2. ASSUME NEW i \in 1 .. Len(g[x].cells)
        PROVE  g[x].cells[i].key \in c[x]
    <3>1. med.key < n.cells[m + 1 + i].key
      BY <2>1, <1>4, <1>9 DEF med
    <3>2. n.cells[m + 1 + i].key \in b[p]
      BY <2>1, <1>1, <1>5 DEF n
    <3> QED BY <2>1, <3>1, <3>2, <1>7, <1>12
  <2>3. ASSUME NEW i \in 1 .. Len(g[x].cells), NEW j \in 1 .. Len(g[x].cells), i < j
        PROVE  g[x].cells[i].key < g[x].cells[j].key
    <3>1. /\ m + 1 + i \in 1 .. Len(n.cells) /\ g[x].cells[i] = n.cells[m + 1 + i]
          /\ m + 1 + j \in 1 .. Len(n.cells) /\ g[x].cells[j] = n.cells[m + 1 + j]
      BY <2>1
    <3>2. m + 1 + i < m + 1 + j
      BY <1>4, <2>1, <2>3
    <3> QED BY <3>1, <3>2, <1>9
  <2>4. g[x].cells # << >>
    <3>1. Len(g[x].cells) # 0
      BY <1>2, <1>4, <1>12
    <3> QED BY <3>1
  <2> QED BY <2>2, <2>3, <2>4
<1>13. CASE x = q
  <2>1. \A i \in 1 .. Len(old) : i < idx => old[i].key < med.key
    <3> SUFFICES ASSUME NEW i \in 1 .. Len(old), i < idx
                 PROVE  old[i].key < med.key
      OBVIOUS
    <3>1. idx > 1 /\ idx - 1 \in 1 .. Len(old) /\ i <= idx - 1
      BY <1>3, <1>4
    <3>2. old[idx - 1].key < med.key
      BY <3>1, <1>6, <1>8 DEF Between
    <3>3. i < idx - 1 => old[i].key < old[idx - 1].key
      BY <3>1, <1>10
    <3> QED BY <1>3, <1>8, <3>1, <3>2, <3>3
  <2>2. \A i \in 1 .. Len(old) : i >= idx => med.key < old[i].key
    <3> SUFFICES ASSUME NEW i \in 1 .. Len(old), i >= idx
                 PROVE  med.key < old[i].key
      OBVIOUS
    <3>1. idx \in 1 .. Len(old) /\ idx <= Len(old)
      BY <1>3, <1>4
    <3>2. med.key < old[idx].key
      BY <3>1, <1>6, <1>8 DEF Between
    <3>3. idx < i => old[idx].key < old[i].key
      BY <3>1, <1>10
    <3>4. idx = i \/ idx < i
      BY <1>4
    <3> QED BY <1>3, <1>8, <3>1, <3>2, <3>3, <3>4
  <2>3. ASSUME NEW i \in 1 .. Len(g[x].cells)
        PROVE  \/ i < idx /\ i \in 1 .. Len(old) /\ g[x].cells[i] = old[i]
               \/ i = idx /\ g[x].cells[i] = med
               \/ i > idx /\ i - 1 \in 1 .. Len(old) /\ i - 1 >= idx /\ g[x].cells[i] = old[i - 1]
    <3>1. i \in 1 .. Len(old) + 1
      BY <1>2, <1>13
    <3>2. g[x].cells[i] = IF i < idx THEN old[i] ELSE IF i = idx THEN med ELSE old[i - 1]
      BY <1>2, <1>13, <3>1
    <3>3. i < idx \/ i = idx \/ i > idx
      BY <1>4, <3>1
    <3>4. i < idx => i \in 1 .. Len(old)
      BY <1>3, <1>4, <3>1
    <3>5. i > idx => i - 1 \in 1 .. Len(old) /\ i - 1 >= idx
      BY <1>3, <1>4, <3>1
    <3>6. i > idx => ~(i < idx) /\ i # idx
      BY <1>4, <3>1
    <3> QED BY <3>2, <3>3, <3>4, <3>5, <3>6
  <2>4. \A i \in 1 .. Len(old) : old[i].key \in b[q]
    BY <1>1, <1>5 DEF old
  <2>5. med.key \in b[q]
    BY <1>6, <1>8
  <2>6. c[q] = b[q]
    BY <1>1, <1>7
  <2>7. ASSUME NEW i \in 1 .. Len(g[x].cells)
        PROVE  g[x].cells[i].key \in c[x]
    BY <2>3, <2>4, <2>5, <2>6, <1>13
  <2>8. ASSUME NEW i \in 1 .. Len(g[x].cells), NEW j \in 1 .. Len(g[x].cells), i < j
        PROVE  g[x].cells[i].key < g[x].cells[j].key
    <3>1. i \in Int /\ j \in Int
      OBVIOUS
    <3>2. CASE i < idx /\ i \in 1 .. Len(old) /\ g[x].cells[i] = old[i]
      <4>1. CASE j < idx /\ j \in 1 .. Len(old) /\ g[x].cells[j] = old[j]
        BY <1>10, <2>8, <3>2, <4>1
      <4>2. CASE j = idx /\ g[x].cells[j] = med
        BY <2>1, <3>2, <4>2
      <4>3. CASE j > idx /\ j - 1 \in 1 .. Len(old) /\ j - 1 >= idx /\ g[x].cells[j] = old[j - 1]
        <5>1. old[i].key < med.key /\ med.key < old[j - 1].key
          BY <2>1, <2>2, <3>2, <4>3
        <5>2. /\ old[i].key \in Int /\ med.key \in Int /\ old[j - 1].key \in Int
          BY <1>3, <1>8, <3>2, <4>3
        <5>3. old[i].key < old[j - 1].key
          BY <5>1, <5>2
        <5> QED BY <5>3, <3>2, <4>3
      <4> QED BY <2>3, <4>1, <4>2, <4>3
    <3>3. CASE i = idx /\ g[x].cells[i] = med
      <4>1. j > idx
        BY <2>8, <3>3
      <4>2. j - 1 \in 1 .. Len(old) /\ j - 1 >= idx /\ g[x].cells[j] = old[j - 1]
        BY <1>4, <2>3, <3>1, <4>1
      <4> QED BY <2>2, <3>3, <4>2
    <3>4. CASE i > idx /\ i - 1 \in 1 .. Len(old) /\ i - 1 >= idx /\ g[x].cells[i] = old[i - 1]
      <4>1. j > idx /\ i - 1 < j - 1
        BY <2>8, <3>1, <3>4, <1>4
      <4>2. j - 1 \in 1 .. Len(old) /\ g[x].cells[j] = old[j - 1]
        BY <1>4, <2>3, <3>1, <4>1
      <4> QED BY <1>10, <3>4, <4>1, <4>2
    <3> QED BY <2>3, <3>2, <3>3, <3>4
  <2>9. g[x].cells # << >>
    <3>1. Len(g[x].cells) # 0
      BY <1>2, <1>3, <1>13
    <3> QED BY <3>1
  <2> QED BY <2>7, <2>8, <2>9
<1>14. CASE x # p /\ x # new /\ x # q
  <2>1. x \in DOMAIN f /\ g[x].cells = f[x].cells /\ c[x] = b[x]
    BY <1>2, <1>7, <1>14
  <2> QED BY <1>5, <2>1
<1> QED BY <1>11, <1>12, <1>13, <1>14

\* After a node is divided the keys of every node are still divided among its
\* children by its cells.
LEMMA DividedRanges ==
  ASSUME NEW f, NEW root, NEW h, NEW b, Tree(f, root, h, b), b \in [DOMAIN f -> SUBSET Int],
         NEW g, NEW p, NEW q, NEW idx, NEW m, NEW new,
         Divisible(f, root, p, q, idx, m, new), Divided(f, g, p, q, idx, m, new),
         NEW c, Shared(f, b, c, p, m, new), NEW x \in DOMAIN g,
         NEW i \in 1 .. Len(g[x].children)
  PROVE  c[g[x].children[i]] = {y \in c[x] : Between(g[x].cells, i, y)}
<1> DEFINE n == f[p]
           rest == Len(n.cells) - m - 1
           med == n.cells[m + 1]
           old == f[q].cells
           kids == f[q].children
<1>1. /\ q \in DOMAIN f /\ p \in DOMAIN f /\ p # q /\ h[p] + 1 = h[q] /\ ~f[q].leaf
      /\ ~f[p].leaf => Len(f[p].children) = Len(f[p].cells) + 1
      /\ Len(kids) = Len(old) + 1
  BY DivideFamily
<1>2. /\ DOMAIN g = DOMAIN f \cup {new} /\ new \notin DOMAIN f /\ q = f[p].parent
      /\ idx \in 1 .. Len(kids) /\ kids[idx] = p
      /\ \A y \in DOMAIN f :
           y # p /\ y # q => g[y].cells = f[y].cells /\ g[y].children = f[y].children
      /\ Len(g[p].cells) = m
      /\ \A j \in 1 .. m : g[p].cells[j] = n.cells[j]
      /\ Len(g[new].cells) = rest
      /\ \A j \in 1 .. rest : g[new].cells[j] = n.cells[m + 1 + j]
      /\ n.leaf => g[p].children = << >> /\ g[new].children = << >>
      /\ ~n.leaf =>
           /\ Len(g[p].children) = m + 1
           /\ \A j \in 1 .. m + 1 : g[p].children[j] = n.children[j]
           /\ Len(g[new].children) = rest + 1
           /\ \A j \in 1 .. rest + 1 : g[new].children[j] = n.children[m + 1 + j]
      /\ Len(g[q].cells) = Len(old) + 1
      /\ \A j \in 1 .. Len(old) + 1 :
           g[q].cells[j] = IF j < idx THEN old[j] ELSE IF j = idx THEN med ELSE old[j - 1]
      /\ Len(g[q].children) = Len(kids) + 1
      /\ \A j \in 1 .. Len(kids) + 1 :
           g[q].children[j] = IF j < idx + 1 THEN kids[j]
                              ELSE IF j = idx + 1 THEN new ELSE kids[j - 1]
  BY DEF Divided, Divisible
<1>3. /\ Len(n.cells) \in Nat /\ Len(old) \in Nat
      /\ \A j \in 1 .. Len(n.cells) : n.cells[j].key \in Int
      /\ \A j \in 1 .. Len(old) : old[j].key \in Int
      /\ \A y \in DOMAIN f : \A j \in 1 .. Len(f[y].children) : f[y].children[j] \in DOMAIN f
  BY <1>1, TreeTypes
<1>4. /\ rest \in Nat /\ rest >= 1 /\ m \in Nat /\ m >= 1 /\ rest + m + 1 = Len(n.cells)
      /\ idx \in 1 .. Len(old) + 1 /\ m + 1 \in 1 .. Len(n.cells)
  BY <1>1, <1>3 DEF Divisible
<1>5. /\ \A y \in DOMAIN f : \A j \in 1 .. Len(f[y].children) :
           b[f[y].children[j]] = {z \in b[y] : Between(f[y].cells, j, z)}
      /\ \A j, k \in 1 .. Len(n.cells) : j < k => n.cells[j].key < n.cells[k].key
      /\ \A j \in 1 .. Len(n.cells) : n.cells[j].key \in b[p]
  BY <1>1 DEF Tree, Ordered
<1>6. \A y \in DOMAIN f : \A j \in 1 .. Len(f[y].children) :
        f[f[y].children[j]].parent = y /\ h[f[y].children[j]] + 1 = h[y] /\ h[f[y].children[j]] \in Nat
  BY <1>3, TreeTypes DEF Tree, Links
<1>7. /\ \A y \in DOMAIN f : y # p => c[y] = b[y]
      /\ c[p] = {y \in b[p] : y < med.key}
      /\ c[new] = {y \in b[p] : med.key < y}
  BY DEF Shared
<1>8. med.key \in b[p] /\ med.key \in Int
  BY <1>1, <1>3, <1>4, <1>5
<1>9. \A y \in DOMAIN f : \A z \in b[y] : z \in Int
  OBVIOUS
<1>10. \A j \in 1 .. Len(kids) : j # idx => kids[j] # p
  <2> SUFFICES ASSUME NEW j \in 1 .. Len(kids), j # idx
               PROVE  kids[j] # p
    OBVIOUS
  <2>1. /\ idx \in 1 .. Len(f[q].children) /\ f[q].children[idx] = p /\ q \in DOMAIN f
        /\ j \in 1 .. Len(f[q].children)
    BY <1>1, <1>2
  <2>2. ASSUME j < idx
        PROVE  f[q].children[j] # f[q].children[idx]
    BY <2>1, <2>2, ChildrenDiffer
  <2>3. ASSUME idx < j
        PROVE  f[q].children[idx] # f[q].children[j]
    BY <2>1, <2>3, ChildrenDiffer
  <2>4. j < idx \/ idx < j
    BY <2>1
  <2> QED BY <2>1, <2>2, <2>3, <2>4
<1> HIDE DEF rest, n, med, old, kids
<1>11. ASSUME NEW j \in 1 .. Len(n.cells), NEW k \in 1 .. Len(n.cells), j < k
       PROVE  n.cells[j].key < n.cells[k].key
  BY <1>5, <1>11
<1>12. CASE x = p
  <2>1. ~n.leaf
    BY <1>2, <1>12
  <2>2. /\ i \in 1 .. m + 1 /\ Len(n.children) = Len(n.cells) + 1
        /\ g[p].children[i] = n.children[i]
    BY <1>1, <1>2, <1>12, <2>1 DEF n
  <2>3. i \in 1 .. Len(n.children) /\ i \in 1 .. Len(n.cells)
    <3>1. m + 1 \in 1 .. Len(n.cells) /\ Len(n.cells) \in Nat
      BY <1>3, <1>4
    <3>2. i \in 1 .. Len(n.cells)
      BY <2>2, <3>1
    <3> QED BY <2>2, <3>1, <3>2
  <2> DEFINE d == n.children[i]
  <2>4. d \in DOMAIN f /\ d # p /\ b[d] = {z \in b[p] : Between(n.cells, i, z)}
    BY <1>1, <1>3, <1>5, <1>6, <2>3 DEF n
  <2>5. g[x].children[i] = d
    BY <2>2, <1>12
  <2> HIDE DEF d
  <2>6. ASSUME NEW z \in b[p]
        PROVE  Between(n.cells, i, z) <=> z < med.key /\ Between(g[p].cells, i, z)
    <3>1. z \in Int
      BY <1>1, <1>9
    <3>5. i > 1 => i - 1 \in 1 .. m
      BY <1>4, <2>2
    <3>2. i > 1 => i - 1 \in 1 .. m /\ g[p].cells[i - 1] = n.cells[i - 1]
      BY <1>2, <3>5
    <3>3. CASE i <= m
      <4>1. g[p].cells[i] = n.cells[i] /\ n.cells[i].key < med.key
        BY <1>2, <1>4, <1>11, <2>2, <2>3, <3>3 DEF med
      <4>2. i <= Len(g[p].cells) /\ i <= Len(n.cells)
        BY <1>2, <2>3, <3>3
      <4>3. Between(g[p].cells, i, z) <=> Between(n.cells, i, z)
        BY <3>2, <4>1, <4>2 DEF Between
      <4>4. Between(n.cells, i, z) => z < n.cells[i].key
        BY <4>2 DEF Between
      <4> QED BY <1>3, <1>8, <2>3, <3>1, <4>1, <4>3, <4>4
    <3>4. CASE i = m + 1
      <4>1. n.cells[i] = med /\ i <= Len(n.cells) /\ ~(i <= Len(g[p].cells))
        BY <1>2, <1>4, <3>4 DEF med
      <4> QED BY <3>2, <4>1 DEF Between
    <3> QED BY <1>4, <2>2, <3>3, <3>4
  <2>7. c[d] = b[d] /\ c[p] = {y \in b[p] : y < med.key}
    BY <1>7, <2>4
  <2> QED BY <1>12, <2>4, <2>5, <2>6, <2>7
<1>13. CASE x = new
  <2>1. ~n.leaf
    BY <1>2, <1>13
  <2>2. /\ i \in 1 .. rest + 1 /\ Len(n.children) = Len(n.cells) + 1
        /\ g[new].children[i] = n.children[m + 1 + i]
    BY <1>1, <1>2, <1>13, <2>1 DEF n
  <2> DEFINE k == m + 1 + i
  <2>8. i \in Nat /\ i >= 1 /\ i <= rest + 1
    BY <1>4, <2>2
  <2>9. k \in Nat /\ k >= 1 /\ k > 1 /\ k - 1 \in Nat /\ k - 1 >= 1 /\ k - 1 = m + i
    BY <1>4, <2>8
  <2>10. k - 1 <= rest + m + 1
    BY <1>4, <2>8
  <2>3. k \in 1 .. Len(n.children) /\ k > 1 /\ k - 1 \in 1 .. Len(n.cells) /\ k - 1 = m + i
    <3> HIDE DEF k
    <3> QED BY <2>2, <2>9, <2>10, <1>3, <1>4
  <2> DEFINE d == n.children[k]
  <2>4. d \in DOMAIN f /\ d # p /\ b[d] = {z \in b[p] : Between(n.cells, k, z)}
    <3>1. k \in 1 .. Len(f[p].children) /\ d = f[p].children[k] /\ p \in DOMAIN f
      BY <1>1, <2>3 DEF n
    <3> HIDE DEF d, k
    <3>2. d \in DOMAIN f /\ h[d] + 1 = h[p] /\ h[d] \in Nat
      BY <1>3, <1>6, <3>1
    <3>3. b[d] = {z \in b[p] : Between(n.cells, k, z)}
      BY <1>5, <3>1 DEF n
    <3>4. h[d] # h[p]
      BY <3>2
    <3> QED BY <3>2, <3>3, <3>4
  <2>5. g[x].children[i] = d
    BY <2>2, <1>13
  <2> HIDE DEF d
  <2>6. ASSUME NEW z \in b[p]
        PROVE  Between(n.cells, k, z) <=> med.key < z /\ Between(g[new].cells, i, z)
    <3>1. z \in Int
      BY <1>1, <1>9
    <3>6. Len(g[new].cells) = rest
      BY <1>2
    <3>7. i <= rest <=> k <= rest + m + 1
      BY <1>4, <2>8
    <3>2. i <= Len(g[new].cells) <=> k <= Len(n.cells)
      BY <1>4, <3>6, <3>7
    <3>8. k <= Len(n.cells) => i \in 1 .. rest
      BY <1>4, <2>8, <3>7
    <3>3. k <= Len(n.cells) => g[new].cells[i] = n.cells[k]
      BY <1>2, <3>8
    <3>4. CASE i = 1
      <4>1. n.cells[k - 1] = med /\ ~(i > 1)
        BY <1>4, <2>3, <3>4 DEF med
      <4> HIDE DEF k
      <4> QED BY <2>3, <3>2, <3>3, <4>1 DEF Between
    <3>5. CASE i > 1
      <4>1. i - 1 \in 1 .. rest /\ m + 1 + (i - 1) = k - 1
        <5>1. k - 1 = m + i
          BY <2>3
        <5>2. rest \in Nat /\ m \in Nat
          BY <1>4
        <5> HIDE DEF k
        <5> QED BY <2>8, <3>5, <5>1, <5>2
      <4>2. g[new].cells[i - 1] = n.cells[k - 1]
        <5>1. \A j \in 1 .. rest : g[new].cells[j] = n.cells[m + 1 + j]
          BY <1>2
        <5> HIDE DEF k
        <5> QED BY <4>1, <5>1
      <4>3. med.key < n.cells[k - 1].key
        BY <1>4, <1>11, <2>3, <3>5, <2>2 DEF med
      <4> HIDE DEF k
      <4>4. Between(g[new].cells, i, z) <=> Between(n.cells, k, z)
        BY <2>3, <3>2, <3>3, <3>5, <4>2 DEF Between
      <4>5. Between(n.cells, k, z) => n.cells[k - 1].key < z
        BY <2>3 DEF Between
      <4>6. n.cells[k - 1].key \in Int /\ med.key \in Int
        BY <1>3, <1>8, <2>3
      <4>7. n.cells[k - 1].key < z => med.key < z
        BY <3>1, <4>3, <4>6
      <4> QED BY <4>4, <4>5, <4>7
    <3> QED BY <1>4, <2>2, <3>4, <3>5
  <2>7. c[d] = b[d] /\ c[new] = {y \in b[p] : med.key < y}
    BY <1>7, <2>4
  <2> QED BY <1>13, <2>4, <2>5, <2>6, <2>7
<1>14. CASE x = q
  <2>1. i \in 1 .. Len(kids) + 1 /\ i \in Int
    BY <1>2, <1>14
  <2>2. g[q].children[i] = IF i < idx + 1 THEN kids[i]
                           ELSE IF i = idx + 1 THEN new ELSE kids[i - 1]
    BY <1>2, <2>1
  <2>3. c[q] = b[q] /\ b[q] \subseteq Int
    BY <1>1, <1>7
  <2>4. ASSUME NEW j \in 1 .. Len(kids)
        PROVE  kids[j] \in DOMAIN f /\ b[kids[j]] = {z \in b[q] : Between(old, j, z)}
    BY <1>1, <1>3, <1>5 DEF old, kids
  <2>5. b[p] = {z \in b[q] : Between(old, idx, z)}
    BY <1>2, <2>4
  <2>6. \A j \in 1 .. Len(old) + 1 :
          g[q].cells[j] = IF j < idx THEN old[j] ELSE IF j = idx THEN med ELSE old[j - 1]
    BY <1>2
  <2>7. idx \in 1 .. Len(old) + 1 /\ Len(kids) = Len(old) + 1 /\ Len(g[q].cells) = Len(old) + 1
    BY <1>1, <1>2, <1>4 DEF kids, old
  <2>8. /\ idx > 1 => old[idx - 1].key < med.key
        /\ idx <= Len(old) => med.key < old[idx].key
    BY <1>8, <2>5 DEF Between
  <2>9. g[q].cells[idx] = med
    BY <1>4, <2>6, <2>7
  <2>10. idx > 1 => g[q].cells[idx - 1] = old[idx - 1]
    <3>1. idx > 1 => idx - 1 \in 1 .. Len(old) + 1 /\ idx - 1 < idx
      BY <1>3, <2>7
    <3> QED BY <2>6, <3>1
  <2>11. idx <= Len(old) => g[q].cells[idx + 1] = old[idx]
    <3>1. idx <= Len(old) =>
            idx + 1 \in 1 .. Len(old) + 1 /\ ~(idx + 1 < idx) /\ idx + 1 # idx /\ (idx + 1) - 1 = idx
      BY <1>3, <2>7
    <3> QED BY <2>6, <3>1
  <2>12. CASE i < idx
    <3>1. /\ i < idx + 1 /\ i \in 1 .. Len(kids) /\ i # idx /\ i \in 1 .. Len(old)
          /\ i <= Len(old) /\ i <= Len(old) + 1 /\ i \in 1 .. Len(old) + 1
      BY <1>3, <2>1, <2>7, <2>12
    <3>2. g[q].children[i] = kids[i] /\ kids[i] # p
      BY <1>10, <2>2, <3>1
    <3>3. g[q].cells[i] = old[i]
      BY <2>6, <2>12, <3>1
    <3>4. i > 1 => i - 1 \in 1 .. Len(old) + 1 /\ i - 1 < idx
      BY <1>3, <2>7, <2>12, <3>1
    <3>5. i > 1 => g[q].cells[i - 1] = old[i - 1]
      BY <2>6, <3>4
    <3>6. \A z : Between(g[q].cells, i, z) <=> Between(old, i, z)
      BY <2>7, <3>1, <3>3, <3>5 DEF Between
    <3>7. c[kids[i]] = b[kids[i]] /\ b[kids[i]] = {z \in b[q] : Between(old, i, z)}
      BY <1>7, <2>4, <3>1, <3>2
    <3> QED BY <1>14, <2>3, <3>2, <3>6, <3>7
  <2>13. CASE i = idx
    <3>1. g[q].children[i] = p
      BY <1>2, <2>1, <2>2, <2>13
    <3>2. ASSUME NEW z \in b[q]
          PROVE  Between(g[q].cells, i, z) <=> Between(old, i, z) /\ z < med.key
      <4>1. i <= Len(g[q].cells) /\ z \in Int
        BY <2>3, <2>7, <2>13
      <4>2. Between(g[q].cells, i, z) <=> (i > 1 => old[i - 1].key < z) /\ z < med.key
        BY <2>9, <2>10, <2>13, <4>1 DEF Between
      <4>3. i <= Len(old) /\ z < med.key => z < old[i].key
        BY <1>3, <1>8, <2>1, <2>8, <2>13, <4>1
      <4> QED BY <4>2, <4>3 DEF Between
    <3>3. c[p] = {z \in b[p] : z < med.key} /\ b[p] = {z \in b[q] : Between(old, i, z)}
      BY <1>7, <2>5, <2>13
    <3> QED BY <1>14, <2>3, <3>1, <3>2, <3>3
  <2>14. CASE i = idx + 1
    <3>1. ~(i < idx + 1) /\ i > 1 /\ i - 1 = idx /\ (i <= Len(g[q].cells) <=> idx <= Len(old))
      BY <1>3, <2>7, <2>14
    <3>2. g[q].children[i] = new
      BY <2>2, <2>14, <3>1
    <3>3. ASSUME NEW z \in b[q]
          PROVE  Between(g[q].cells, i, z) <=> Between(old, idx, z) /\ med.key < z
      <4>1. z \in Int
        BY <2>3
      <4>2. Between(g[q].cells, i, z) <=> med.key < z /\ (idx <= Len(old) => z < old[idx].key)
        BY <2>9, <2>11, <2>14, <3>1 DEF Between
      <4>3. idx > 1 /\ med.key < z => old[idx - 1].key < z
        <5>1. idx > 1 => idx - 1 \in 1 .. Len(old)
          BY <1>3, <2>7
        <5> QED BY <1>3, <1>8, <2>8, <4>1, <5>1
      <4> QED BY <4>2, <4>3 DEF Between
    <3>4. c[new] = {z \in b[p] : med.key < z} /\ b[p] = {z \in b[q] : Between(old, idx, z)}
      BY <1>7, <2>5
    <3> QED BY <1>14, <2>3, <3>2, <3>3, <3>4
  <2>15. CASE i > idx + 1
    <3>1. /\ ~(i < idx + 1) /\ i # idx + 1 /\ i - 1 \in 1 .. Len(kids) /\ i - 1 # idx
          /\ i > 1 /\ i - 1 > 1 /\ (i <= Len(g[q].cells) <=> i - 1 <= Len(old))
      BY <1>3, <2>1, <2>7, <2>15
    <3>2. g[q].children[i] = kids[i - 1] /\ kids[i - 1] # p
      BY <1>10, <2>2, <3>1
    <3>3. /\ i - 1 \in 1 .. Len(old) + 1 /\ ~(i - 1 < idx) /\ i - 1 # idx
          /\ i <= Len(g[q].cells) => i \in 1 .. Len(old) + 1 /\ ~(i < idx) /\ i # idx
      BY <1>3, <2>1, <2>7, <2>15
    <3>4. g[q].cells[i - 1] = old[(i - 1) - 1]
      BY <2>6, <3>3
    <3>5. i <= Len(g[q].cells) => g[q].cells[i] = old[i - 1]
      BY <2>6, <3>3
    <3>6. \A z : Between(g[q].cells, i, z) <=> Between(old, i - 1, z)
      BY <3>1, <3>4, <3>5 DEF Between
    <3>7. c[kids[i - 1]] = b[kids[i - 1]] /\ b[kids[i - 1]] = {z \in b[q] : Between(old, i - 1, z)}
      BY <1>7, <2>4, <3>1, <3>2
    <3> QED BY <1>14, <2>3, <3>2, <3>6, <3>7
  <2> QED BY <1>4, <2>1, <2>12, <2>13, <2>14, <2>15
<1>15. CASE x # p /\ x # new /\ x # q
  <2>1. x \in DOMAIN f /\ g[x].cells = f[x].cells /\ g[x].children = f[x].children /\ c[x] = b[x]
    BY <1>2, <1>7, <1>15
  <2>2. f[x].children[i] # p
    BY <1>2, <1>6, <1>15, <2>1
  <2>3. f[x].children[i] \in DOMAIN f /\ b[f[x].children[i]] = {y \in b[x] : Between(f[x].cells, i, y)}
    BY <1>3, <1>5, <2>1
  <2>4. c[f[x].children[i]] = b[f[x].children[i]]
    BY <1>7, <2>2, <2>3
  <2> QED BY <2>1, <2>3, <2>4
<1> QED BY <1>12, <1>13, <1>14, <1>15

\* A divided tree is a tree, with the heights it had and the same top.
LEMMA DividedTree ==
  ASSUME NEW f, NEW root, NEW h, NEW b, Tree(f, root, h, b), b \in [DOMAIN f -> SUBSET Int],
         NEW g, NEW p, NEW q, NEW idx, NEW m, NEW new, new # PGID_INVALID,
         Divisible(f, root, p, q, idx, m, new), Divided(f, g, p, q, idx, m, new),
         \A x \in DOMAIN g : g[x] \in NodeOver(DOMAIN g),
         NEW top \in Nat, \A x \in DOMAIN f : h[x] <= top
  PROVE  OrderedTree(g, root, top)
<1> DEFINE j == [x \in DOMAIN g |-> IF x = new THEN h[p] ELSE h[x]]
           med == f[p].cells[m + 1].key
           c == [x \in DOMAIN g |-> IF x = new THEN {y \in b[p] : med < y}
                                    ELSE IF x = p THEN {y \in b[p] : y < med} ELSE b[x]]
<1>1. DOMAIN g = DOMAIN f \cup {new} /\ new \notin DOMAIN f /\ p \in DOMAIN f /\ p # root
      /\ root \in DOMAIN f
  BY DEF Divided, Divisible, Tree, Ordered
<1>2. j[new] = h[p] /\ \A x \in DOMAIN f : j[x] = h[x]
  BY <1>1
<1>3. h \in [DOMAIN f -> Nat]
  BY DEF Tree
<1>4. j \in [DOMAIN g -> Nat] /\ \A x \in DOMAIN g : j[x] <= top
  BY <1>1, <1>3
<1> HIDE DEF j
<1>5. Links(g, root, j)
  BY <1>2, DividedLinks
<1>6. c \in [DOMAIN g -> SUBSET Int]
  BY <1>1
<1>7. Shared(f, b, c, p, m, new)
  BY <1>1 DEF Shared
<1>8. c[root] = b[root]
  BY <1>1
<1> HIDE DEF c
<1>9. /\ root \in DOMAIN g /\ g[root].parent = PGID_INVALID
      /\ \A x \in DOMAIN g : ~g[x].leaf => Len(g[x].children) = Len(g[x].cells) + 1
      /\ \A x \in DOMAIN g : x # root => Listed(g, x)
  BY DividedListed
<1>10. \A x \in DOMAIN g :
         /\ x # root => g[x].cells # << >>
         /\ \A i, k \in 1 .. Len(g[x].cells) : i < k => g[x].cells[i].key < g[x].cells[k].key
         /\ \A i \in 1 .. Len(g[x].cells) : g[x].cells[i].key \in c[x]
  BY <1>7, DividedKeys
<1>11. \A x \in DOMAIN g : \A i \in 1 .. Len(g[x].children) :
         c[g[x].children[i]] = {y \in c[x] : Between(g[x].cells, i, y)}
  <2> SUFFICES ASSUME NEW x \in DOMAIN g, NEW i \in 1 .. Len(g[x].children)
               PROVE  c[g[x].children[i]] = {y \in c[x] : Between(g[x].cells, i, y)}
    OBVIOUS
  <2> QED BY <1>7, DividedRanges
<1>12. c[root] = Int
  BY <1>8 DEF Tree, Ordered
<1>13. Ordered(g, root, c)
  BY <1>9, <1>10, <1>11, <1>12 DEF Ordered
<1>14. PGID_INVALID \notin DOMAIN g
  BY <1>1 DEF Tree
<1>15. Tree(g, root, j, c)
  BY <1>4, <1>5, <1>13, <1>14 DEF Tree
<1> QED BY <1>4, <1>6, <1>15 DEF OrderedTree

\* A node over fewer pages is one over more.
LEMMA WiderNode ==
  ASSUME NEW A, NEW B, A \subseteq B, NEW n \in NodeOver(A)
  PROVE  n \in NodeOver(B)
<1>1. n.children \in Seq(B) /\ n.parent \in B \cup {PGID_INVALID}
  BY DEF NodeOver
<1> QED BY <1>1 DEF NodeOver

\* LeftHalf and RightHalf share out the cells of n but its median, and its children.
Halved(D, n, q) ==
  LET l == LeftHalf(n)
      r == RightHalf(n, q)
      m == Median(n)
      rest == Len(n.cells) - m - 1
  IN  /\ m \in 1 .. Len(n.cells) - 2 /\ MedianCell(n) \in Cell
      /\ l \in NodeOver(D) /\ l.parent = n.parent /\ l.root = n.root /\ l.leaf = n.leaf
      /\ r \in NodeOver(D) /\ r.parent = q /\ r.root = FALSE /\ r.leaf = n.leaf
      /\ Len(l.cells) = m
      /\ \A i \in 1 .. m : l.cells[i] = n.cells[i]
      /\ Len(r.cells) = rest
      /\ \A i \in 1 .. rest : r.cells[i] = n.cells[m + 1 + i]
      /\ n.leaf => l.children = n.children /\ r.children = << >>
      /\ ~n.leaf =>
           /\ Len(l.children) = m + 1
           /\ \A i \in 1 .. m + 1 : l.children[i] = n.children[i]
           /\ Len(r.children) = rest + 1
           /\ \A i \in 1 .. rest + 1 : r.children[i] = n.children[m + 1 + i]

\* The two halves of a node.
LEMMA Halves ==
  ASSUME NEW D, NEW n \in NodeOver(D), Len(n.cells) >= 3,
         ~n.leaf => Len(n.children) = Len(n.cells) + 1, NEW q \in D
  PROVE  Halved(D, n, q)
<1> DEFINE l == LeftHalf(n)
           r == RightHalf(n, q)
           m == Median(n)
           len == Len(n.cells)
           rest == len - m - 1
           lc == SubSeq(n.cells, 1, m)
           rc == SubSeq(n.cells, m + 2, len)
           lk == SubSeq(n.children, 1, m + 1)
           rk == SubSeq(n.children, m + 2, Len(n.children))
<1>1. /\ n.parent \in D \cup {PGID_INVALID} /\ n.root \in BOOLEAN /\ n.leaf \in BOOLEAN
      /\ n.cells \in Seq(Cell) /\ len \in Nat /\ n.children \in Seq(D)
      /\ \A i \in 1 .. len : n.cells[i] \in Cell
  BY NodeTypes
<1>2. n = [parent |-> n.parent, root |-> n.root, leaf |-> n.leaf,
           cells |-> n.cells, children |-> n.children]
  BY DEF NodeOver
<1>3. m = len \div 2
  BY DEF Median
<1> HIDE DEF len, m
<1>4. m \in Nat /\ m >= 1 /\ m <= len - 2 /\ len \in Nat
  <2>1. len \in Nat /\ len >= 3
    BY <1>1 DEF len
  <2>2. m \in Nat /\ 2 * m <= len /\ len <= 2 * m + 1
    BY <1>3, <2>1
  <2> QED BY <2>1, <2>2
<1>5. /\ rest \in Nat /\ m + 1 \in 1 .. len /\ m \in 1 .. len - 2
      /\ 1 \in 1 .. len + 1 /\ m \in 1 - 1 .. len /\ m + 2 \in 1 .. len + 1 /\ len \in (m + 2) - 1 .. len
      /\ m - 1 + 1 = m /\ len - (m + 2) + 1 = rest
  BY <1>4
<1>6. lc \in Seq(Cell) /\ Len(lc) = m /\ \A i \in 1 .. m : lc[i] = n.cells[i]
  <2>1. /\ SubSeq(n.cells, 1, m) \in Seq(Cell)
        /\ Len(SubSeq(n.cells, 1, m)) = m - 1 + 1
        /\ \A x \in 1 .. m - 1 + 1 : SubSeq(n.cells, 1, m)[x] = n.cells[1 - 1 + x]
    BY <1>1, <1>5, PartProperties DEF len
  <2> HIDE DEF lc
  <2> QED BY <2>1, <1>4 DEF lc
<1>7. rc \in Seq(Cell) /\ Len(rc) = rest /\ \A i \in 1 .. rest : rc[i] = n.cells[m + 1 + i]
  <2>1. /\ SubSeq(n.cells, m + 2, len) \in Seq(Cell)
        /\ Len(SubSeq(n.cells, m + 2, len)) = len - (m + 2) + 1
        /\ \A x \in 1 .. len - (m + 2) + 1 : SubSeq(n.cells, m + 2, len)[x] = n.cells[(m + 2) - 1 + x]
    BY <1>1, <1>5, PartProperties DEF len
  <2>2. (m + 2) - 1 = m + 1
    BY <1>4
  <2> HIDE DEF rc, rest
  <2> QED BY <2>1, <2>2, <1>5 DEF rc
<1>8. ASSUME ~n.leaf
      PROVE  /\ lk \in Seq(D) /\ Len(lk) = m + 1 /\ \A i \in 1 .. m + 1 : lk[i] = n.children[i]
             /\ rk \in Seq(D) /\ Len(rk) = rest + 1
             /\ \A i \in 1 .. rest + 1 : rk[i] = n.children[m + 1 + i]
  <2> DEFINE k == Len(n.children)
  <2>1. k = len + 1
    BY <1>8 DEF len
  <2> HIDE DEF k
  <2>2. /\ 1 \in 1 .. k + 1 /\ m + 1 \in 1 - 1 .. k /\ m + 2 \in 1 .. k + 1 /\ k \in (m + 2) - 1 .. k
        /\ (m + 1) - 1 + 1 = m + 1 /\ k - (m + 2) + 1 = rest + 1 /\ (m + 2) - 1 = m + 1
    BY <1>4, <2>1
  <2>3. /\ SubSeq(n.children, 1, m + 1) \in Seq(D)
        /\ Len(SubSeq(n.children, 1, m + 1)) = (m + 1) - 1 + 1
        /\ \A x \in 1 .. (m + 1) - 1 + 1 : SubSeq(n.children, 1, m + 1)[x] = n.children[1 - 1 + x]
    BY <1>1, <2>2, PartProperties DEF k
  <2>7. k = Len(n.children)
    BY DEF k
  <2>4. /\ SubSeq(n.children, m + 2, k) \in Seq(D)
        /\ Len(SubSeq(n.children, m + 2, k)) = k - (m + 2) + 1
        /\ \A x \in 1 .. k - (m + 2) + 1 : SubSeq(n.children, m + 2, k)[x] = n.children[(m + 2) - 1 + x]
    <3> DEFINE i0 == m + 2
               s0 == n.children
    <3>1. s0 \in Seq(D) /\ i0 \in 1 .. Len(s0) + 1 /\ k \in i0 - 1 .. Len(s0)
      BY <1>1, <2>2, <2>7
    <3> HIDE DEF i0, s0
    <3>2. /\ SubSeq(s0, i0, k) \in Seq(D)
          /\ Len(SubSeq(s0, i0, k)) = k - i0 + 1
          /\ \A x \in 1 .. k - i0 + 1 : SubSeq(s0, i0, k)[x] = s0[i0 - 1 + x]
      BY <3>1, PartProperties
    <3> QED BY <3>2 DEF i0, s0
  <2>5. lk \in Seq(D) /\ Len(lk) = m + 1 /\ \A i \in 1 .. m + 1 : lk[i] = n.children[i]
    <3> HIDE DEF lk
    <3> QED BY <2>2, <2>3, <1>4 DEF lk
  <2>6. rk \in Seq(D) /\ Len(rk) = rest + 1 /\ \A i \in 1 .. rest + 1 : rk[i] = n.children[m + 1 + i]
    <3> HIDE DEF rk, rest
    <3> QED BY <2>2, <2>4 DEF rk, k
  <2> QED BY <2>5, <2>6
<1> DEFINE ll == IF n.leaf THEN n.children ELSE lk
           rr == IF n.leaf THEN << >> ELSE rk
<1>9. l = [parent |-> n.parent, root |-> n.root, leaf |-> n.leaf, cells |-> lc, children |-> ll]
  <2>1. l = [n EXCEPT !.cells = lc, !.children = ll]
    BY DEF LeftHalf, m
  <2> HIDE DEF l, lc, ll
  <2> QED BY <1>2, <2>1
<1>10. r = [parent |-> q, root |-> FALSE, leaf |-> n.leaf, cells |-> rc, children |-> rr]
  BY DEF RightHalf, m, len
<1>11. MedianCell(n) = n.cells[m + 1] /\ n.cells[m + 1] \in Cell
  BY <1>1, <1>5 DEF MedianCell, m
<1>12. ll \in Seq(D) /\ rr \in Seq(D)
  BY <1>1, <1>8
<1>13. n.leaf => ll = n.children /\ rr = << >>
  OBVIOUS
<1>14. ~n.leaf => ll = lk /\ rr = rk
  OBVIOUS
<1> HIDE DEF l, r, lc, rc, lk, rk, ll, rr, rest
<1>15. l \in NodeOver(D) /\ r \in NodeOver(D)
  BY <1>1, <1>6, <1>7, <1>9, <1>10, <1>12 DEF NodeOver
<1>16. /\ l.parent = n.parent /\ l.root = n.root /\ l.leaf = n.leaf /\ l.cells = lc /\ l.children = ll
       /\ r.parent = q /\ r.root = FALSE /\ r.leaf = n.leaf /\ r.cells = rc /\ r.children = rr
  BY <1>9, <1>10
<1> QED BY <1>5, <1>6, <1>7, <1>8, <1>11, <1>13, <1>14, <1>15, <1>16 DEF l, r, m, len, rest, Halved

\* The node that receives the median of a child and the page of its right half.
Receiving(n, idx, median, new) ==
  [n EXCEPT !.cells = InsertAt(@, idx, median), !.children = InsertAt(@, idx + 1, new)]

\* Adopt changes nothing but the parents of the children of node new.
LEMMA AdoptProperties ==
  ASSUME NEW D, NEW f, DOMAIN f = D, \A x \in D : f[x] \in NodeOver(D), NEW new \in D
  PROVE  LET g == Adopt(f, new)
         IN  /\ DOMAIN g = D /\ g = [x \in D |-> g[x]]
             /\ \A x \in D :
                  /\ g[x] \in NodeOver(D)
                  /\ g[x].root = f[x].root /\ g[x].leaf = f[x].leaf
                  /\ g[x].cells = f[x].cells /\ g[x].children = f[x].children
                  /\ g[x].parent = IF \E i \in 1 .. Len(g[new].children) : g[new].children[i] = x
                                   THEN new ELSE f[x].parent
<1> DEFINE g == Adopt(f, new)
<1>1. DOMAIN g = D /\ g = [x \in D |-> g[x]]
  BY DEF Adopt
<1>2. ASSUME NEW x \in D
      PROVE  /\ g[x] \in NodeOver(D)
             /\ g[x].root = f[x].root /\ g[x].leaf = f[x].leaf
             /\ g[x].cells = f[x].cells /\ g[x].children = f[x].children
             /\ g[x].parent = IF \E i \in 1 .. Len(f[new].children) : f[new].children[i] = x
                              THEN new ELSE f[x].parent
  <2> DEFINE n == f[x]
  <2>1. n \in NodeOver(D)
    OBVIOUS
  <2>2. g[x] = IF \E i \in 1 .. Len(f[new].children) : f[new].children[i] = x
               THEN [n EXCEPT !.parent = new] ELSE n
    BY DEF Adopt
  <2>3. /\ [n EXCEPT !.parent = new] \in NodeOver(D)
        /\ [n EXCEPT !.parent = new].root = n.root /\ [n EXCEPT !.parent = new].leaf = n.leaf
        /\ [n EXCEPT !.parent = new].cells = n.cells
        /\ [n EXCEPT !.parent = new].children = n.children
        /\ [n EXCEPT !.parent = new].parent = new
    <3> HIDE DEF n
    <3> QED BY <2>1 DEF NodeOver
  <2> HIDE DEF n, g
  <2>4. CASE \E i \in 1 .. Len(f[new].children) : f[new].children[i] = x
    <3>1. g[x] = [n EXCEPT !.parent = new]
      BY <2>2, <2>4
    <3> QED BY <2>3, <2>4, <3>1 DEF n
  <2>5. CASE ~\E i \in 1 .. Len(f[new].children) : f[new].children[i] = x
    <3>1. g[x] = n
      BY <2>2, <2>5
    <3> QED BY <2>1, <2>5, <3>1 DEF n
  <2> QED BY <2>4, <2>5
<1> HIDE DEF g
<1>3. g[new].children = f[new].children
  BY <1>2
<1> QED BY <1>1, <1>2, <1>3 DEF g

\* What a tree becomes when node p is divided and new is the page of its right half.
SplitOf(f, p, idx, new) ==
  Adopt(With([f EXCEPT ![p] = LeftHalf(f[p]),
                       ![f[p].parent] =
                         Receiving(f[f[p].parent], idx, MedianCell(f[p]), new)],
             new, RightHalf(f[p], f[p].parent)), new)

\* g is f with node p divided, and has the type of a tree.
DividesInto(f, g, p, idx, new) ==
  /\ Divided(f, g, p, f[p].parent, idx, Median(f[p]), new)
  /\ Median(f[p]) \in 1 .. Len(f[p].cells) - 2
  /\ \A x \in DOMAIN g : g[x] \in NodeOver(DOMAIN g)
  /\ g = [x \in DOMAIN g |-> g[x]]
  /\ DOMAIN g = DOMAIN f \cup {new}

\* What split writes to the pages divides the node.
LEMMA SplitDivides ==
  ASSUME NEW f, \A x \in DOMAIN f : f[x] \in NodeOver(DOMAIN f),
         NEW p \in DOMAIN f, f[p].parent \in DOMAIN f, p # f[p].parent,
         Len(f[p].cells) >= 3, ~f[p].leaf => Len(f[p].children) = Len(f[p].cells) + 1,
         f[p].leaf => f[p].children = << >>,
         NEW idx \in 1 .. Len(f[f[p].parent].cells) + 1,
         Len(f[f[p].parent].children) = Len(f[f[p].parent].cells) + 1,
         NEW new, new \notin DOMAIN f
  PROVE  DividesInto(f, SplitOf(f, p, idx, new), p, idx, new)
<1> DEFINE D == DOMAIN f \cup {new}
           q == f[p].parent
           n == f[p]
           o == f[q]
           m == Median(n)
           rest == Len(n.cells) - m - 1
           l == LeftHalf(n)
           r == RightHalf(n, q)
           med == MedianCell(n)
           o2 == Receiving(o, idx, med, new)
           base == [f EXCEPT ![p] = l, ![q] = o2]
           w == With(base, new, r)
           g == Adopt(w, new)
<1>1. \A x \in DOMAIN f : f[x] \in NodeOver(D)
  <2>1. DOMAIN f \subseteq D
    OBVIOUS
  <2> HIDE DEF D
  <2> QED BY <2>1, WiderNode
<1>2. n \in NodeOver(D) /\ o \in NodeOver(D) /\ q \in D /\ new \in D
  BY <1>1
<1> HIDE DEF D
<1>3. /\ m \in 1 .. Len(n.cells) - 2 /\ med \in Cell
      /\ l \in NodeOver(D) /\ l.parent = n.parent /\ l.root = n.root /\ l.leaf = n.leaf
      /\ r \in NodeOver(D) /\ r.parent = q /\ r.root = FALSE /\ r.leaf = n.leaf
      /\ Len(l.cells) = m
      /\ \A i \in 1 .. m : l.cells[i] = n.cells[i]
      /\ Len(r.cells) = rest
      /\ \A i \in 1 .. rest : r.cells[i] = n.cells[m + 1 + i]
      /\ n.leaf => l.children = n.children /\ r.children = << >>
      /\ ~n.leaf =>
           /\ Len(l.children) = m + 1
           /\ \A i \in 1 .. m + 1 : l.children[i] = n.children[i]
           /\ Len(r.children) = rest + 1
           /\ \A i \in 1 .. rest + 1 : r.children[i] = n.children[m + 1 + i]
  <2> HIDE DEF n
  <2>1. Len(n.cells) >= 3 /\ (~n.leaf => Len(n.children) = Len(n.cells) + 1)
    BY DEF n
  <2>2. Halved(D, n, q)
    BY <1>2, <2>1, Halves
  <2> QED BY <2>2 DEF Halved
<1>4. med = n.cells[m + 1]
  BY DEF MedianCell
<1> HIDE DEF l, r, med, m, rest
<1>5. /\ o.parent \in D \cup {PGID_INVALID} /\ o.root \in BOOLEAN /\ o.leaf \in BOOLEAN
      /\ o.cells \in Seq(Cell) /\ Len(o.cells) \in Nat
      /\ o.children \in Seq(D) /\ Len(o.children) \in Nat
      /\ o = [parent |-> o.parent, root |-> o.root, leaf |-> o.leaf,
              cells |-> o.cells, children |-> o.children]
  <2> HIDE DEF o
  <2>1. o = [parent |-> o.parent, root |-> o.root, leaf |-> o.leaf,
             cells |-> o.cells, children |-> o.children]
    BY <1>2 DEF NodeOver
  <2> QED BY <1>2, <2>1, NodeTypes
<1> DEFINE oc == InsertAt(o.cells, idx, med)
           ok == InsertAt(o.children, idx + 1, new)
<1>6. /\ oc \in Seq(Cell) /\ Len(oc) = Len(o.cells) + 1
      /\ \A i \in 1 .. Len(o.cells) + 1 :
           oc[i] = IF i < idx THEN o.cells[i] ELSE IF i = idx THEN med ELSE o.cells[i - 1]
  <2> DEFINE s0 == o.cells
  <2>1. s0 \in Seq(Cell) /\ idx \in 1 .. Len(s0) + 1 /\ med \in Cell
    BY <1>3, <1>5
  <2> HIDE DEF s0
  <2>2. InsertAt(s0, idx, med) \in Seq(Cell) /\ Inserted(InsertAt(s0, idx, med), s0, idx, med)
    BY <2>1, InsertAtProperties
  <2> QED BY <2>2 DEF s0, Inserted
<1>7. /\ ok \in Seq(D) /\ Len(ok) = Len(o.children) + 1
      /\ \A i \in 1 .. Len(o.children) + 1 :
           ok[i] = IF i < idx + 1 THEN o.children[i]
                   ELSE IF i = idx + 1 THEN new ELSE o.children[i - 1]
  <2> DEFINE j == idx + 1
             s0 == o.children
  <2>1. s0 \in Seq(D) /\ j \in 1 .. Len(s0) + 1 /\ new \in D
    BY <1>2, <1>5
  <2> HIDE DEF j, s0
  <2>2. InsertAt(s0, j, new) \in Seq(D) /\ Inserted(InsertAt(s0, j, new), s0, j, new)
    BY <2>1, InsertAtProperties
  <2> QED BY <2>2 DEF s0, j, Inserted
<1>8. o2 = [parent |-> o.parent, root |-> o.root, leaf |-> o.leaf, cells |-> oc, children |-> ok]
  <2>1. o2 = [o EXCEPT !.cells = oc, !.children = ok]
    BY DEF Receiving
  <2> HIDE DEF o2, o, oc, ok
  <2> QED BY <1>5, <2>1
<1> HIDE DEF o2, oc, ok
<1>9. o2 \in NodeOver(D)
  BY <1>5, <1>6, <1>7, <1>8 DEF NodeOver
<1>10. /\ DOMAIN w = D /\ w[new] = r /\ w[p] = l /\ w[q] = o2
       /\ \A x \in DOMAIN f : x # p /\ x # q => w[x] = f[x]
  BY DEF With, D
<1> HIDE DEF w
<1>11. \A x \in D : w[x] \in NodeOver(D)
  BY <1>1, <1>3, <1>9, <1>10 DEF D
<1>12. /\ DOMAIN g = D /\ g = [x \in D |-> g[x]]
       /\ \A x \in D :
            /\ g[x] \in NodeOver(D)
            /\ g[x].root = w[x].root /\ g[x].leaf = w[x].leaf
            /\ g[x].cells = w[x].cells /\ g[x].children = w[x].children
            /\ g[x].parent = IF \E i \in 1 .. Len(g[new].children) : g[new].children[i] = x
                             THEN new ELSE w[x].parent
  BY <1>2, <1>10, <1>11, AdoptProperties
<1> HIDE DEF g
<1>13. /\ p \in D /\ q \in D /\ new \in D /\ p # new /\ q # new
       /\ \A x \in DOMAIN f : x \in D /\ x # new
  BY DEF D
<1>14. /\ o2.parent = o.parent /\ o2.root = o.root /\ o2.leaf = o.leaf
       /\ o2.cells = oc /\ o2.children = ok
  BY <1>8
<1>15. ASSUME NEW x \in DOMAIN f
       PROVE  /\ g[x].root = f[x].root /\ g[x].leaf = f[x].leaf
              /\ x # p /\ x # q => g[x].cells = f[x].cells /\ g[x].children = f[x].children
              /\ g[x].parent = IF \E i \in 1 .. Len(g[new].children) : g[new].children[i] = x
                               THEN new ELSE f[x].parent
  <2>1. w[x].root = f[x].root /\ w[x].leaf = f[x].leaf /\ w[x].parent = f[x].parent
    BY <1>3, <1>10, <1>14
  <2> QED BY <1>10, <1>12, <1>13, <2>1
<1>16. g[new].root = FALSE /\ g[new].leaf = n.leaf
  BY <1>3, <1>10, <1>12, <1>13
<1>17. /\ g[p].cells = l.cells /\ g[p].children = l.children
       /\ g[new].cells = r.cells /\ g[new].children = r.children
       /\ g[q].cells = oc /\ g[q].children = ok
  BY <1>10, <1>12, <1>13, <1>14
<1>18. g[new].parent = q
  <2>1. \A i \in 1 .. Len(r.children) : r.children[i] # new
    <3>1. CASE n.leaf
      BY <1>3, <3>1
    <3>2. CASE ~n.leaf
      <4>1. /\ n \in NodeOver(DOMAIN f)
            /\ Len(n.children) = Len(n.cells) + 1
        BY <3>2
      <4>2. Len(n.cells) \in Nat /\ \A i \in 1 .. Len(n.children) : n.children[i] # new
        BY <4>1, NodeTypes
      <4>3. \A i \in 1 .. rest + 1 : m + 1 + i \in 1 .. Len(n.children)
        BY <1>3, <4>1, <4>2 DEF rest
      <4>4. /\ Len(r.children) = rest + 1
            /\ \A i \in 1 .. rest + 1 : r.children[i] = n.children[m + 1 + i]
        BY <1>3, <3>2
      <4> HIDE DEF n
      <4> QED BY <4>2, <4>3, <4>4
    <3> QED BY <3>1, <3>2
  <2>2. ~\E i \in 1 .. Len(g[new].children) : g[new].children[i] = new
    BY <1>17, <2>1
  <2>3. w[new].parent = q
    BY <1>3, <1>10
  <2> QED BY <1>12, <1>13, <2>2, <2>3
<1>19. Divided(f, g, p, q, idx, m, new)
  <2>1. n.leaf => g[p].children = << >> /\ g[new].children = << >>
    BY <1>3, <1>17
  <2>2. /\ Len(g[p].cells) = m
        /\ \A i \in 1 .. m : g[p].cells[i] = n.cells[i]
        /\ Len(g[new].cells) = rest
        /\ \A i \in 1 .. rest : g[new].cells[i] = n.cells[m + 1 + i]
        /\ ~n.leaf =>
             /\ Len(g[p].children) = m + 1
             /\ \A i \in 1 .. m + 1 : g[p].children[i] = n.children[i]
             /\ Len(g[new].children) = rest + 1
             /\ \A i \in 1 .. rest + 1 : g[new].children[i] = n.children[m + 1 + i]
    BY <1>3, <1>17
  <2>3. /\ Len(g[q].cells) = Len(o.cells) + 1
        /\ \A i \in 1 .. Len(o.cells) + 1 :
             g[q].cells[i] = IF i < idx THEN o.cells[i]
                             ELSE IF i = idx THEN n.cells[m + 1] ELSE o.cells[i - 1]
    BY <1>4, <1>6, <1>17
  <2>4. /\ Len(g[q].children) = Len(o.children) + 1
        /\ \A i \in 1 .. Len(o.children) + 1 :
             g[q].children[i] = IF i < idx + 1 THEN o.children[i]
                                ELSE IF i = idx + 1 THEN new ELSE o.children[i - 1]
    BY <1>7, <1>17
  <2>5. DOMAIN g = DOMAIN f \cup {new}
    BY <1>12 DEF D
  <2> QED BY <1>15, <1>16, <1>18, <2>1, <2>2, <2>3, <2>4, <2>5 DEF Divided, rest
<1>20. \A x \in DOMAIN g : g[x] \in NodeOver(DOMAIN g)
  BY <1>12
<1>21. g = SplitOf(f, p, idx, new)
  BY DEF g, w, base, o2, r, l, med, SplitOf
<1> QED BY <1>3, <1>12, <1>19, <1>20, <1>21 DEF m, D, DividesInto

\* The largest number of keys, a 16-bit number in the code, does not wrap.
LEMMA Numbers ==
  ASSUME DegreeFits
  PROVE  /\ Degree \in Nat /\ Degree >= 2 /\ maxKeys = 2 * Degree - 1 /\ maxKeys \in Nat
         /\ maxKeys >= 3
<1>1. Degree \in Nat /\ Degree >= 2 /\ 2 * Degree - 1 \in Nat /\ 2 * Degree - 1 < 65536
  BY DEF DegreeFits
<1>2. \A n \in Nat : n < 65536 => n % 65536 = n
  OBVIOUS
<1>3. maxKeys = 2 * Degree - 1
  BY <1>1, <1>2 DEF maxKeys
<1> QED BY <1>1, <1>3

\* The page that comes next.
LEMMA NextNumber ==
  ASSUME NEW D, IsFiniteSet(D), D = 1 .. Cardinality(D), NEW n, n = Cardinality(D) + 1
  PROVE  /\ n \in Nat /\ n \notin D /\ n # PGID_INVALID /\ PGID_INVALID \notin D
         /\ IsFiniteSet(D \cup {n})
         /\ Cardinality(D \cup {n}) = n
         /\ D \cup {n} = 1 .. Cardinality(D \cup {n})
<1> DEFINE c == Cardinality(D)
<1>1. c \in Nat
  BY FS_CardinalityType
<1>2. D = 1 .. c /\ n = c + 1
  OBVIOUS
<1> HIDE DEF c
<1>3. n \in Nat /\ n \notin D /\ n # PGID_INVALID /\ PGID_INVALID \notin D
  BY <1>1, <1>2 DEF PGID_INVALID
<1>4. IsFiniteSet(D \cup {n}) /\ Cardinality(D \cup {n}) = c + 1
  <2>1. /\ IsFiniteSet(D \cup {n})
        /\ Cardinality(D \cup {n}) = IF n \in D THEN Cardinality(D) ELSE Cardinality(D) + 1
    BY FS_AddElement
  <2> QED BY <1>3, <2>1 DEF c
<1>5. D \cup {n} = 1 .. n
  BY <1>1, <1>2
<1> QED BY <1>2, <1>3, <1>4, <1>5

\* A split keeps the tree whole and hands the question of fullness to the parent.
LEMMA SplitWhole ==
  ASSUME DegreeFits,
         NEW f, NEW root, NEW h, NEW b, Tree(f, root, h, b), b \in [DOMAIN f -> SUBSET Int],
         NEW top \in Nat, \A x \in DOMAIN f : h[x] <= top,
         Numbered(f), NEW p \in DOMAIN f, p # root, Len(f[p].cells) = maxKeys,
         Sizes(f, root, p),
         \A x \in DOMAIN f : ~f[x].leaf => f[x].cells # << >> \/ x = f[p].parent,
         NEW idx \in 1 .. Len(f[f[p].parent].children), f[f[p].parent].children[idx] = p,
         NEW new, new = Cardinality(DOMAIN f) + 1
  PROVE  LET g == SplitOf(f, p, idx, new)
         IN  /\ Whole(g, root, f[p].parent)
             /\ Divisible(f, root, p, f[p].parent, idx, Median(f[p]), new)
             /\ Divided(f, g, p, f[p].parent, idx, Median(f[p]), new)
<1> DEFINE n == f[p]
           q == f[p].parent
           m == Median(n)
           g == SplitOf(f, p, idx, new)
<1>1. maxKeys = 2 * Degree - 1 /\ maxKeys \in Nat /\ maxKeys >= 3 /\ Degree \in Nat /\ Degree >= 2
  BY Numbers
<1>2. q \in DOMAIN f
  BY DEF Tree, Ordered, Listed
<1>3. h[p] \in Nat /\ h[q] \in Nat /\ Len(f[q].children) \in Nat /\ Len(f[q].cells) \in Nat
  BY <1>2, TreeTypes
<1>4. h[p] + 1 = h[q]
  BY <1>2 DEF Tree, Links
<1>5. p # q /\ ~f[q].leaf
  BY <1>2, <1>3, <1>4 DEF Tree, Links
<1>6. /\ Len(f[q].children) = Len(f[q].cells) + 1
      /\ ~n.leaf => Len(n.children) = Len(n.cells) + 1
      /\ n.leaf => n.children = << >>
  BY <1>2, <1>5 DEF Tree, Ordered, Links
<1>7. /\ new \in Nat /\ new \notin DOMAIN f /\ new # PGID_INVALID
      /\ IsFiniteSet(DOMAIN f \cup {new})
      /\ DOMAIN f \cup {new} = 1 .. Cardinality(DOMAIN f \cup {new})
  <2> DEFINE D == DOMAIN f
  <2>1. IsFiniteSet(D) /\ D = 1 .. Cardinality(D) /\ new = Cardinality(D) + 1
    BY DEF Numbered
  <2> HIDE DEF D
  <2>2. /\ new \in Nat /\ new \notin D /\ new # PGID_INVALID
        /\ IsFiniteSet(D \cup {new})
        /\ D \cup {new} = 1 .. Cardinality(D \cup {new})
    BY <2>1, NextNumber
  <2> QED BY <2>2 DEF D
<1>8. /\ Divided(f, g, p, q, idx, m, new)
      /\ m \in 1 .. Len(n.cells) - 2
      /\ \A x \in DOMAIN g : g[x] \in NodeOver(DOMAIN g)
      /\ g = [x \in DOMAIN g |-> g[x]]
      /\ DOMAIN g = DOMAIN f \cup {new}
  <2>1. \A x \in DOMAIN f : f[x] \in NodeOver(DOMAIN f)
    BY DEF Tree
  <2>2. idx \in 1 .. Len(f[q].cells) + 1 /\ Len(n.cells) >= 3
    BY <1>1, <1>6
  <2>3. DividesInto(f, SplitOf(f, p, idx, new), p, idx, new)
    BY <1>2, <1>5, <1>6, <1>7, <2>1, <2>2, SplitDivides
  <2> HIDE DEF g
  <2> QED BY <2>3 DEF g, DividesInto
<1> HIDE DEF g
<1>9. Divisible(f, root, p, q, idx, m, new)
  BY <1>7, <1>8 DEF Divisible
<1>10. OrderedTree(g, root, top)
  <2> HIDE DEF q, m, n
  <2> QED BY <1>7, <1>8, <1>9, DividedTree
<1>11. Numbered(g)
  BY <1>7, <1>8 DEF Numbered
<1>12. m = Degree - 1
  <2>1. Len(n.cells) = 2 * Degree - 1
    BY <1>1
  <2>2. (2 * Degree - 1) \div 2 = Degree - 1
    BY <1>1
  <2> QED BY <2>1, <2>2 DEF Median
<1>13. /\ Len(g[p].cells) = Degree - 1 /\ Len(g[new].cells) = Degree - 1
       /\ Len(g[q].cells) = Len(f[q].cells) + 1
       /\ \A x \in DOMAIN f : x # p /\ x # q => g[x].cells = f[x].cells
  <2>1. /\ Len(g[p].cells) = m /\ Len(g[new].cells) = Len(n.cells) - m - 1
        /\ Len(g[q].cells) = Len(f[q].cells) + 1
        /\ \A x \in DOMAIN f : x # p /\ x # q => g[x].cells = f[x].cells
    BY <1>8 DEF Divided
  <2>2. Len(n.cells) - m - 1 = Degree - 1
    BY <1>1, <1>12
  <2> QED BY <1>12, <2>1, <2>2
<1>14. Sizes(g, root, q)
  <2> SUFFICES ASSUME NEW x \in DOMAIN g
               PROVE  /\ x # root => Len(g[x].cells) >= Degree - 1
                      /\ Len(g[x].cells) <= IF x = q THEN maxKeys ELSE maxKeys - 1
    BY DEF Sizes
  <2>1. CASE x = p \/ x = new
    <3>1. Degree - 1 <= maxKeys - 1 /\ Degree - 1 >= Degree - 1 /\ x # q
      BY <1>1, <1>2, <1>5, <1>7, <2>1
    <3> QED BY <1>13, <2>1, <3>1
  <2>2. CASE x = q
    <3>1. /\ q # root => Len(f[q].cells) >= Degree - 1
          /\ Len(f[q].cells) <= maxKeys - 1
      BY <1>2, <1>5 DEF Sizes
    <3>2. /\ q # root => Len(f[q].cells) + 1 >= Degree - 1
          /\ Len(f[q].cells) + 1 <= maxKeys
      BY <1>1, <1>3, <3>1
    <3> QED BY <1>13, <2>2, <3>2
  <2>3. CASE x # p /\ x # q /\ x # new
    <3>1. x \in DOMAIN f /\ g[x].cells = f[x].cells
      BY <1>8, <1>13, <2>3
    <3>2. /\ x # root => Len(f[x].cells) >= Degree - 1
          /\ Len(f[x].cells) <= maxKeys - 1
      BY <2>3, <3>1 DEF Sizes
    <3> QED BY <2>3, <3>1, <3>2
  <2> QED BY <2>1, <2>2, <2>3
<1>15. \A x \in DOMAIN g : g[x].cells # << >>  \/ g[x].leaf
  <2> SUFFICES ASSUME NEW x \in DOMAIN g, ~g[x].leaf
               PROVE  g[x].cells # << >>
    OBVIOUS
  <2>1. CASE x = p \/ x = new
    <3>1. Len(g[x].cells) # 0
      BY <1>1, <1>13, <2>1
    <3> QED BY <3>1
  <2>2. CASE x = q
    <3>1. Len(g[x].cells) # 0
      BY <1>3, <1>13, <2>2
    <3> QED BY <3>1
  <2>3. CASE x # p /\ x # q /\ x # new
    <3>1. x \in DOMAIN f /\ g[x].cells = f[x].cells /\ g[x].leaf = f[x].leaf
      BY <1>8, <1>13, <2>3 DEF Divided
    <3> QED BY <2>3, <3>1
  <2> QED BY <2>1, <2>2, <2>3
<1>16. Whole(g, root, q)
  BY <1>10, <1>11, <1>14, <1>15 DEF Whole
<1> QED BY <1>8, <1>9, <1>16 DEF g

\* The tree f with a new root r above its root p, before p is divided.
AddRoot(f, p, r) ==
  With([f EXCEPT ![p].root = FALSE, ![p].parent = r], r,
       [parent |-> PGID_INVALID, root |-> TRUE, leaf |-> FALSE,
        cells |-> << >>, children |-> <<p>>])

\* The nodes of g are those of f with root r above p.
RootAdded(f, g, p, r) ==
  /\ DOMAIN g = DOMAIN f \cup {r} /\ g = [x \in DOMAIN g |-> g[x]]
  /\ \A x \in DOMAIN g : g[x] \in NodeOver(DOMAIN g)
  /\ \A x \in DOMAIN f : x # p => g[x] = f[x]
  /\ g[p] = [parent |-> r, root |-> FALSE, leaf |-> f[p].leaf,
             cells |-> f[p].cells, children |-> f[p].children]
  /\ g[r] = [parent |-> PGID_INVALID, root |-> TRUE, leaf |-> FALSE,
             cells |-> << >>, children |-> <<p>>]

\* The nodes of AddRoot.
LEMMA AddRootFields ==
  ASSUME NEW f, \A x \in DOMAIN f : f[x] \in NodeOver(DOMAIN f),
         NEW p \in DOMAIN f, NEW r, r \notin DOMAIN f
  PROVE  RootAdded(f, AddRoot(f, p, r), p, r)
<1> DEFINE D == DOMAIN f \cup {r}
           n == f[p]
           nr == [parent |-> PGID_INVALID, root |-> TRUE, leaf |-> FALSE,
                  cells |-> << >>, children |-> <<p>>]
           np == [parent |-> r, root |-> FALSE, leaf |-> n.leaf,
                  cells |-> n.cells, children |-> n.children]
           base == [f EXCEPT ![p].root = FALSE, ![p].parent = r]
           g == AddRoot(f, p, r)
<1>1. \A x \in DOMAIN f : f[x] \in NodeOver(D)
  <2>1. DOMAIN f \subseteq D
    OBVIOUS
  <2> HIDE DEF D
  <2> QED BY <2>1, WiderNode
<1>2. n \in NodeOver(D) /\ p \in D /\ r \in D
  BY <1>1
<1> HIDE DEF D
<1>3. [[n EXCEPT !.root = FALSE] EXCEPT !.parent = r] = np
  <2> HIDE DEF n
  <2>1. n = [parent |-> n.parent, root |-> n.root, leaf |-> n.leaf,
             cells |-> n.cells, children |-> n.children]
    BY <1>2 DEF NodeOver
  <2> SUFFICES ASSUME NEW k, k = [[n EXCEPT !.root = FALSE] EXCEPT !.parent = r]
               PROVE  k = np
    OBVIOUS
  <2> QED BY <2>1
<1>4. /\ DOMAIN base = DOMAIN f
      /\ \A x \in DOMAIN f : x # p => base[x] = f[x]
      /\ base[p] = np
  <2> HIDE DEF np
  <2> QED BY <1>3
<1> HIDE DEF base
<1>5. g = With(base, r, nr)
  BY DEF AddRoot, base
<1>6. np \in NodeOver(D) /\ nr \in NodeOver(D)
  <2>1. /\ n.leaf \in BOOLEAN /\ n.cells \in Seq(Cell) /\ n.children \in Seq(D)
    BY <1>2, NodeTypes
  <2>2. << >> \in Seq(Cell) /\ <<p>> \in Seq(D)
    BY <1>2
  <2> HIDE DEF n
  <2> QED BY <1>2, <2>1, <2>2 DEF NodeOver
<1> HIDE DEF np, nr, g
<1>7. /\ DOMAIN g = D /\ g = [x \in D |-> g[x]]
      /\ \A x \in DOMAIN f : x # p => g[x] = f[x]
      /\ g[p] = np /\ g[r] = nr
  BY <1>4, <1>5 DEF With, D
<1>8. \A x \in D : g[x] \in NodeOver(D)
  BY <1>1, <1>6, <1>7 DEF D
<1> QED BY <1>7, <1>8 DEF g, np, nr, D, RootAdded

\* It is a tree, one higher.
LEMMA AddRootTree ==
  ASSUME NEW f, NEW p, NEW h, NEW b, Tree(f, p, h, b), b \in [DOMAIN f -> SUBSET Int],
         NEW top \in Nat, \A x \in DOMAIN f : h[x] <= top,
         NEW r, r \notin DOMAIN f, r # PGID_INVALID, f[p].cells # << >>
  PROVE  OrderedTree(AddRoot(f, p, r), r, top + 1)
<1> DEFINE g == AddRoot(f, p, r)
           j == [x \in DOMAIN g |-> IF x = r THEN h[p] + 1 ELSE h[x]]
           c == [x \in DOMAIN g |-> IF x = r THEN Int ELSE b[x]]
<1>1. p \in DOMAIN f /\ f[p].parent = PGID_INVALID /\ b[p] = Int /\ PGID_INVALID \notin DOMAIN f
  BY DEF Tree, Ordered
<1>2. \A x \in DOMAIN f : f[x] \in NodeOver(DOMAIN f)
  BY DEF Tree
<1>3. /\ DOMAIN g = DOMAIN f \cup {r} /\ g = [x \in DOMAIN g |-> g[x]]
      /\ \A x \in DOMAIN g : g[x] \in NodeOver(DOMAIN g)
      /\ \A x \in DOMAIN f : x # p => g[x] = f[x]
      /\ g[p] = [parent |-> r, root |-> FALSE, leaf |-> f[p].leaf,
                 cells |-> f[p].cells, children |-> f[p].children]
      /\ g[r] = [parent |-> PGID_INVALID, root |-> TRUE, leaf |-> FALSE,
                 cells |-> << >>, children |-> <<p>>]
  <2>1. RootAdded(f, AddRoot(f, p, r), p, r)
    BY <1>1, <1>2, AddRootFields
  <2> QED BY <2>1 DEF RootAdded
<1> HIDE DEF g
<1>4. h \in [DOMAIN f -> Nat]
  BY DEF Tree
<1>5. j \in [DOMAIN g -> Nat] /\ \A x \in DOMAIN g : j[x] <= top + 1
  BY <1>1, <1>3, <1>4
<1>6. c \in [DOMAIN g -> SUBSET Int]
  BY <1>3
<1>7. /\ j[r] = h[p] + 1 /\ \A x \in DOMAIN f : j[x] = h[x]
      /\ c[r] = Int /\ \A x \in DOMAIN f : c[x] = b[x]
  BY <1>3
<1> HIDE DEF j, c
<1>8. /\ g[p].parent = r /\ g[p].root = FALSE /\ g[p].leaf = f[p].leaf
      /\ g[p].cells = f[p].cells /\ g[p].children = f[p].children
      /\ g[r].parent = PGID_INVALID /\ g[r].root = TRUE /\ g[r].leaf = FALSE
      /\ g[r].cells = << >> /\ g[r].children = <<p>>
      /\ \A x \in DOMAIN f : /\ g[x].cells = f[x].cells /\ g[x].children = f[x].children
                             /\ g[x].leaf = f[x].leaf
  BY <1>3
<1>9. \A x \in DOMAIN f : \A i \in 1 .. Len(f[x].children) :
        /\ f[x].children[i] \in DOMAIN f /\ f[x].children[i] # p
        /\ f[f[x].children[i]].parent = x /\ h[f[x].children[i]] + 1 = h[x]
  <2>1. \A x \in DOMAIN f : \A i \in 1 .. Len(f[x].children) :
          /\ f[x].children[i] \in DOMAIN f
          /\ f[f[x].children[i]].parent = x /\ h[f[x].children[i]] + 1 = h[x]
    BY TreeTypes DEF Tree, Links
  <2> QED BY <1>1, <2>1
<1>10. ASSUME NEW x \in DOMAIN g
       PROVE  /\ g[x].root <=> x = r
              /\ g[x].leaf <=> j[x] = 0
              /\ g[x].leaf => g[x].children = << >>
              /\ \A i \in 1 .. Len(g[x].children) :
                   g[g[x].children[i]].parent = x /\ j[g[x].children[i]] + 1 = j[x]
  <2>1. CASE x = r
    <3>1. h[p] + 1 # 0
      BY <1>1, <1>4
    <3>2. Len(<<p>>) = 1 /\ <<p>>[1] = p
      OBVIOUS
    <3>3. \A i \in 1 .. Len(<<p>>) : i = 1
      BY <3>2
    <3> QED BY <1>1, <1>7, <1>8, <2>1, <3>1, <3>2, <3>3
  <2>2. CASE x # r
    <3>1. x \in DOMAIN f
      BY <1>3, <2>2
    <3>2. /\ f[x].root <=> x = p
          /\ f[x].leaf <=> h[x] = 0
          /\ f[x].leaf => f[x].children = << >>
      BY <3>1 DEF Tree, Links
    <3>3. g[x].root <=> x = r
      BY <1>3, <1>8, <2>2, <3>1, <3>2
    <3>4. ASSUME NEW i \in 1 .. Len(g[x].children)
          PROVE  g[g[x].children[i]].parent = x /\ j[g[x].children[i]] + 1 = j[x]
      <4> DEFINE d == f[x].children[i]
      <4>1. g[x].children[i] = d /\ i \in 1 .. Len(f[x].children)
        BY <1>8, <3>1
      <4>2. d \in DOMAIN f /\ d # p /\ f[d].parent = x /\ h[d] + 1 = h[x]
        BY <1>9, <3>1, <4>1
      <4> HIDE DEF d
      <4>3. g[d] = f[d] /\ j[d] = h[d] /\ j[x] = h[x]
        BY <1>3, <1>7, <3>1, <4>2
      <4> QED BY <4>1, <4>2, <4>3
    <3> QED BY <1>7, <1>8, <3>1, <3>2, <3>3, <3>4
  <2> QED BY <2>1, <2>2
<1>11. Links(g, r, j)
  BY <1>10 DEF Links
<1>12. ASSUME NEW x \in DOMAIN g
       PROVE  /\ ~g[x].leaf => Len(g[x].children) = Len(g[x].cells) + 1
              /\ x # r => g[x].cells # << >> /\ Listed(g, x)
              /\ \A i, k \in 1 .. Len(g[x].cells) : i < k => g[x].cells[i].key < g[x].cells[k].key
              /\ \A i \in 1 .. Len(g[x].cells) : g[x].cells[i].key \in c[x]
              /\ \A i \in 1 .. Len(g[x].children) :
                   c[g[x].children[i]] = {y \in c[x] : Between(g[x].cells, i, y)}
  <2>1. CASE x = r
    <3>1. Len(<<p>>) = 1 /\ <<p>>[1] = p /\ Len(g[r].cells) = 0
      BY <1>8
    <3>2. \A i \in 1 .. Len(<<p>>) : i = 1
      BY <3>1
    <3>3. \A y : Between(g[r].cells, 1, y)
      BY <3>1 DEF Between
    <3>4. \A i \in 1 .. Len(g[x].children) :
            c[g[x].children[i]] = {y \in c[x] : Between(g[x].cells, i, y)}
      BY <1>1, <1>7, <1>8, <2>1, <3>1, <3>2, <3>3
    <3>7. g[x].children = <<p>> /\ Len(g[x].cells) = 0
      BY <1>8, <2>1, <3>1
    <3>5. Len(g[x].children) = Len(g[x].cells) + 1
      BY <3>1, <3>7
    <3>6. 1 .. Len(g[x].cells) = {}
      BY <2>1, <3>1
    <3> QED BY <2>1, <3>4, <3>5, <3>6
  <2>2. CASE x # r
    <3>1. x \in DOMAIN f /\ g[x].cells = f[x].cells /\ g[x].children = f[x].children
          /\ g[x].leaf = f[x].leaf /\ c[x] = b[x]
      BY <1>3, <1>7, <1>8, <2>2
    <3>2. /\ ~f[x].leaf => Len(f[x].children) = Len(f[x].cells) + 1
          /\ x # p => f[x].cells # << >> /\ Listed(f, x)
          /\ \A i, k \in 1 .. Len(f[x].cells) : i < k => f[x].cells[i].key < f[x].cells[k].key
          /\ \A i \in 1 .. Len(f[x].cells) : f[x].cells[i].key \in b[x]
          /\ \A i \in 1 .. Len(f[x].children) :
               b[f[x].children[i]] = {y \in b[x] : Between(f[x].cells, i, y)}
      BY <3>1 DEF Tree, Ordered
    <3>3. Listed(g, x)
      <4>1. CASE x = p
        <5>1. 1 \in 1 .. Len(<<p>>) /\ <<p>>[1] = p
          OBVIOUS
        <5> QED BY <1>3, <1>8, <4>1, <5>1 DEF Listed
      <4>2. CASE x # p
        <5>1. g[x].parent = f[x].parent /\ f[x].parent \in DOMAIN f
              /\ g[f[x].parent].children = f[f[x].parent].children
          BY <1>3, <1>8, <3>1, <3>2, <4>2 DEF Listed
        <5> QED BY <1>3, <3>2, <4>2, <5>1 DEF Listed
      <4> QED BY <4>1, <4>2
    <3>4. \A i \in 1 .. Len(f[x].children) : c[f[x].children[i]] = b[f[x].children[i]]
      BY <1>7, <1>9, <3>1
    <3> QED BY <3>1, <3>2, <3>3, <3>4
  <2> QED BY <2>1, <2>2
<1>13. Ordered(g, r, c)
  BY <1>3, <1>7, <1>8, <1>12 DEF Ordered
<1>14. PGID_INVALID \notin DOMAIN g
  BY <1>1, <1>3
<1>15. Tree(g, r, j, c)
  BY <1>3, <1>5, <1>11, <1>13, <1>14 DEF Tree
<1> QED BY <1>5, <1>6, <1>15 DEF OrderedTree, g

\* What the root receives from its only child.
LEMMA FirstInserted ==
  ASSUME NEW S, NEW e \in S
  PROVE  InsertAt(<< >>, 1, e) = <<e>>
<1> DEFINE s == InsertAt(<< >>, 1, e)
<1>1. << >> \in Seq(S) /\ Len(<< >>) = 0 /\ 1 \in 1 .. Len(<< >>) + 1
  OBVIOUS
<1>2. s \in Seq(S) /\ Inserted(s, << >>, 1, e)
  BY <1>1, InsertAtProperties
<1> HIDE DEF s
<1>3. Len(s) = 1 /\ s[1] = e
  BY <1>1, <1>2 DEF Inserted
<1>4. <<e>> \in Seq(S) /\ Len(<<e>>) = 1 /\ <<e>>[1] = e
  OBVIOUS
<1>5. \A i \in 1 .. Len(s) : s[i] = <<e>>[i]
  BY <1>3, <1>4
<1>6. s = <<e>>
  BY <1>2, <1>3, <1>4, <1>5, SeqEqual
<1> QED BY <1>6 DEF s

\* The second child of a new root.
LEMMA SecondInserted ==
  ASSUME NEW S, NEW a \in S, NEW e \in S
  PROVE  InsertAt(<<a>>, 1 + 1, e) = <<a, e>>
<1> DEFINE i2 == 1 + 1
           s == InsertAt(<<a>>, i2, e)
           t == <<a>>
<1>1. t \in Seq(S) /\ Len(t) = 1 /\ t[1] = a
  OBVIOUS
<1>2. i2 = 2
  OBVIOUS
<1> HIDE DEF t, i2
<1>3. i2 \in 1 .. Len(t) + 1
  BY <1>1, <1>2
<1>4. InsertAt(t, i2, e) \in Seq(S) /\ Inserted(InsertAt(t, i2, e), t, i2, e)
  BY <1>1, <1>3, InsertAtProperties
<1>5. s = InsertAt(t, i2, e)
  BY DEF t
<1> HIDE DEF s
<1>6. Len(s) = 2 /\ s[1] = a /\ s[2] = e
  BY <1>1, <1>2, <1>4, <1>5 DEF Inserted
<1>7. <<a, e>> \in Seq(S) /\ Len(<<a, e>>) = 2 /\ <<a, e>>[1] = a /\ <<a, e>>[2] = e
  OBVIOUS
<1>8. \A i \in 1 .. Len(s) : s[i] = <<a, e>>[i]
  <2> SUFFICES ASSUME NEW i \in 1 .. Len(s)
               PROVE  s[i] = <<a, e>>[i]
    OBVIOUS
  <2>1. i = 1 \/ i = 2
    BY <1>6
  <2> QED BY <1>6, <1>7, <2>1
<1>9. s \in Seq(S) /\ Len(s) = Len(<<a, e>>)
  BY <1>4, <1>5, <1>6, <1>7
<1>10. s = <<a, e>>
  BY <1>7, <1>8, <1>9, SeqEqual
<1> QED BY <1>10 DEF s, i2

\* The root is divided like any other node, below a root without keys.
LEMMA SplitRootIs ==
  ASSUME NEW f, \A x \in DOMAIN f : f[x] \in NodeOver(DOMAIN f),
         NEW p \in DOMAIN f, NEW r, NEW new, r \notin DOMAIN f,
         Len(f[p].cells) >= 3, ~f[p].leaf => Len(f[p].children) = Len(f[p].cells) + 1
  PROVE  Adopt(With(With([f EXCEPT ![p] = [LeftHalf(f[p]) EXCEPT !.root = FALSE, !.parent = r]],
                         r, NewRoot(f[p], <<p, new>>)),
                    new, RightHalf(f[p], r)), new)
           = SplitOf(AddRoot(f, p, r), p, 1, new)
<1> DEFINE n == f[p]
           g == AddRoot(f, p, r)
           left == [LeftHalf(n) EXCEPT !.root = FALSE, !.parent = r]
           top == NewRoot(n, <<p, new>>)
           gl == LeftHalf(g[p])
           gt == Receiving(g[r], 1, MedianCell(g[p]), new)
<1>1. RootAdded(f, g, p, r)
  BY AddRootFields
<1> HIDE DEF g
<1>2. /\ DOMAIN g = DOMAIN f \cup {r} /\ g = [x \in DOMAIN g |-> g[x]]
      /\ \A x \in DOMAIN f : x # p => g[x] = f[x]
      /\ g[p] = [parent |-> r, root |-> FALSE, leaf |-> n.leaf,
                 cells |-> n.cells, children |-> n.children]
      /\ g[r] = [parent |-> PGID_INVALID, root |-> TRUE, leaf |-> FALSE,
                 cells |-> << >>, children |-> <<p>>]
  BY <1>1 DEF RootAdded
<1>3. /\ g[p].parent = r /\ g[p].root = FALSE /\ g[p].leaf = n.leaf
      /\ g[p].cells = n.cells /\ g[p].children = n.children
  BY <1>2
<1>4. Median(g[p]) = Median(n) /\ MedianCell(g[p]) = MedianCell(n)
  BY <1>3 DEF Median, MedianCell
<1>5. RightHalf(g[p], r) = RightHalf(n, r)
  BY <1>3, <1>4 DEF RightHalf
<1> DEFINE lc == SubSeq(n.cells, 1, Median(n))
           lk == IF n.leaf THEN n.children ELSE SubSeq(n.children, 1, Median(n) + 1)
<1>6. gl = left
  <2> DEFINE target == [parent |-> r, root |-> FALSE, leaf |-> n.leaf, cells |-> lc, children |-> lk]
  <2>1. n = [parent |-> n.parent, root |-> n.root, leaf |-> n.leaf,
             cells |-> n.cells, children |-> n.children]
    <3>1. n \in NodeOver(DOMAIN f)
      OBVIOUS
    <3> HIDE DEF n
    <3> QED BY <3>1 DEF NodeOver
  <2>2. LeftHalf(n) = [n EXCEPT !.cells = lc, !.children = lk]
    BY DEF LeftHalf
  <2>3. gl = [g[p] EXCEPT !.cells = lc, !.children = lk]
    BY <1>3, <1>4 DEF LeftHalf
  <2>4. g[p] = [parent |-> r, root |-> FALSE, leaf |-> n.leaf,
                cells |-> n.cells, children |-> n.children]
    BY <1>2
  <2> DEFINE l == LeftHalf(n)
             k == g[p]
  <2>9. left = [l EXCEPT !.root = FALSE, !.parent = r]
    OBVIOUS
  <2> HIDE DEF n, lc, lk, l, gl, k, left
  <2>5. l = [parent |-> n.parent, root |-> n.root, leaf |-> n.leaf, cells |-> lc, children |-> lk]
    BY <2>1, <2>2 DEF l
  <2>6. left = target
    BY <2>5, <2>9
  <2>7. gl = [k EXCEPT !.cells = lc, !.children = lk]
        /\ k = [parent |-> r, root |-> FALSE, leaf |-> n.leaf,
                cells |-> n.cells, children |-> n.children]
    BY <2>3, <2>4 DEF k
  <2>8. gl = target
    BY <2>7
  <2> QED BY <2>6, <2>8
<1>7. gt = top
  <2> DEFINE med == MedianCell(n)
             k == g[r]
  <2>1. InsertAt(<< >>, 1, med) = <<med>>
    BY FirstInserted
  <2>2. InsertAt(<<p>>, 1 + 1, new) = <<p, new>>
    <3>1. p \in {p, new} /\ new \in {p, new}
      OBVIOUS
    <3> QED BY <3>1, SecondInserted
  <2>3. gt = [k EXCEPT !.cells = InsertAt(k.cells, 1, med), !.children = InsertAt(k.children, 1 + 1, new)]
    BY <1>4 DEF Receiving
  <2>4. k = [parent |-> PGID_INVALID, root |-> TRUE, leaf |-> FALSE,
             cells |-> << >>, children |-> <<p>>]
    BY <1>2
  <2>5. top = [parent |-> PGID_INVALID, root |-> TRUE, leaf |-> FALSE,
               cells |-> <<med>>, children |-> <<p, new>>]
    BY DEF NewRoot
  <2> HIDE DEF k, gt, top, med
  <2>6. k.cells = << >> /\ k.children = <<p>>
    BY <2>4
  <2> DEFINE c == <<med>>
             d == <<p, new>>
  <2>7. gt = [k EXCEPT !.cells = c, !.children = d]
    BY <2>1, <2>2, <2>3, <2>6
  <2> HIDE DEF c, d
  <2>8. gt = [parent |-> PGID_INVALID, root |-> TRUE, leaf |-> FALSE, cells |-> c, children |-> d]
    BY <2>4, <2>7
  <2> QED BY <2>5, <2>8 DEF c, d
<1> DEFINE A == With([f EXCEPT ![p] = left], r, top)
           B == [g EXCEPT ![p] = gl, ![r] = gt]
<1>8. A = B
  <2> HIDE DEF left, top, gl, gt
  <2>1. A = [x \in DOMAIN f \cup {r} |-> IF x = r THEN top ELSE IF x = p THEN left ELSE f[x]]
    BY DEF With
  <2>2. B = [x \in DOMAIN f \cup {r} |-> IF x = r THEN gt ELSE IF x = p THEN gl ELSE f[x]]
    <3>1. B = [x \in DOMAIN g |-> IF x = r THEN gt ELSE IF x = p THEN gl ELSE g[x]]
      BY <1>2
    <3> HIDE DEF B
    <3>2. \A x \in DOMAIN g : (IF x = r THEN gt ELSE IF x = p THEN gl ELSE g[x])
                                = IF x = r THEN gt ELSE IF x = p THEN gl ELSE f[x]
      BY <1>2
    <3> QED BY <1>2, <3>1, <3>2
  <2> QED BY <1>6, <1>7, <2>1, <2>2
<1>9. SplitOf(g, p, 1, new) = Adopt(With(B, new, RightHalf(g[p], r)), new)
  BY <1>3 DEF SplitOf
<1> HIDE DEF A, B
<1>10. Adopt(With(A, new, RightHalf(n, r)), new) = SplitOf(g, p, 1, new)
  BY <1>5, <1>8, <1>9
<1> QED BY <1>10 DEF A, g

\* Division of the root keeps the tree whole, one higher.
LEMMA SplitRootWhole ==
  ASSUME DegreeFits, NEW f, NEW p, Whole(f, p, p), Len(f[p].cells) = maxKeys,
         NEW r, r = Cardinality(DOMAIN f) + 1, NEW new, new = r + 1
  PROVE  /\ p \in DOMAIN f
         /\ Whole(SplitOf(AddRoot(f, p, r), p, 1, new), r, r)
         /\ Divisible(AddRoot(f, p, r), r, p, r, 1, Median(f[p]), new)
         /\ Divided(AddRoot(f, p, r), SplitOf(AddRoot(f, p, r), p, 1, new),
                    p, r, 1, Median(f[p]), new)
         /\ RootAdded(f, AddRoot(f, p, r), p, r)
<1> DEFINE D == DOMAIN f
           g == AddRoot(f, p, r)
<1>1. maxKeys = 2 * Degree - 1 /\ maxKeys \in Nat /\ maxKeys >= 3 /\ Degree \in Nat /\ Degree >= 2
  BY Numbers
<1>2. PICK top \in Nat : OrderedTree(f, p, top)
  BY DEF Whole
<1>3. PICK h, b : /\ Tree(f, p, h, b) /\ b \in [DOMAIN f -> SUBSET Int]
                  /\ \A x \in DOMAIN f : h[x] <= top
  BY <1>2 DEF OrderedTree
<1>4. /\ IsFiniteSet(D) /\ D = 1 .. Cardinality(D) /\ r = Cardinality(D) + 1
      /\ \A x \in D : ~f[x].leaf => f[x].cells # << >>
      /\ Sizes(f, p, p)
  BY DEF Whole, Numbered
<1>5. p \in D /\ \A x \in D : f[x] \in NodeOver(DOMAIN f)
  BY <1>3 DEF Tree, Ordered
<1> HIDE DEF D
<1>6. /\ r \in Nat /\ r \notin D /\ r # PGID_INVALID
      /\ IsFiniteSet(D \cup {r}) /\ Cardinality(D \cup {r}) = r
      /\ D \cup {r} = 1 .. Cardinality(D \cup {r})
  BY <1>4, NextNumber
<1>7. f[p].cells # << >>
  BY <1>1
<1>8. OrderedTree(g, r, top + 1)
  BY <1>2, <1>3, <1>6, <1>7, AddRootTree DEF D
<1>9. RootAdded(f, g, p, r)
  BY <1>5, <1>6, AddRootFields DEF D
<1> HIDE DEF g
<1>10. /\ DOMAIN g = D \cup {r} /\ g = [x \in DOMAIN g |-> g[x]] /\ r # p
       /\ \A x \in D : g[x].cells = f[x].cells /\ g[x].leaf = f[x].leaf
       /\ g[p].parent = r /\ g[r].cells = << >> /\ g[r].children = <<p>>
  BY <1>5, <1>6, <1>9 DEF RootAdded, D
<1>11. PICK j, c : /\ Tree(g, r, j, c) /\ c \in [DOMAIN g -> SUBSET Int]
                   /\ \A x \in DOMAIN g : j[x] <= top + 1
  BY <1>8 DEF OrderedTree
<1>12. Numbered(g)
  BY <1>6, <1>10 DEF Numbered
<1>13. Sizes(g, r, p)
  <2> SUFFICES ASSUME NEW x \in DOMAIN g
               PROVE  /\ x # r => Len(g[x].cells) >= Degree - 1
                      /\ Len(g[x].cells) <= IF x = p THEN maxKeys ELSE maxKeys - 1
    BY DEF Sizes
  <2>1. CASE x = r
    <3>1. Len(g[x].cells) = 0 /\ 0 <= maxKeys - 1
      BY <1>1, <1>10, <2>1
    <3> QED BY <1>10, <2>1, <3>1
  <2>2. CASE x = p
    <3>1. Len(g[x].cells) = maxKeys /\ maxKeys >= Degree - 1 /\ maxKeys <= maxKeys
      BY <1>1, <1>5, <1>10, <2>2
    <3> QED BY <2>2, <3>1
  <2>3. CASE x # r /\ x # p
    <3>1. x \in D /\ g[x].cells = f[x].cells
      BY <1>10, <2>3
    <3> QED BY <1>4, <2>3, <3>1 DEF Sizes, D
  <2> QED BY <2>1, <2>2, <2>3
<1>14. \A x \in DOMAIN g : ~g[x].leaf => g[x].cells # << >> \/ x = g[p].parent
  BY <1>4, <1>10
<1>15. /\ 1 \in 1 .. Len(g[g[p].parent].children) /\ g[g[p].parent].children[1] = p
       /\ p \in DOMAIN g /\ Len(g[p].cells) = maxKeys /\ new = Cardinality(DOMAIN g) + 1
  <2>1. Len(<<p>>) = 1 /\ <<p>>[1] = p
    OBVIOUS
  <2> QED BY <1>5, <1>6, <1>10, <2>1
<1>16. Median(g[p]) = Median(f[p])
  BY <1>5, <1>10 DEF Median
<1>17. top + 1 \in Nat
  OBVIOUS
<1>18. /\ Whole(SplitOf(g, p, 1, new), r, g[p].parent)
       /\ Divisible(g, r, p, g[p].parent, 1, Median(g[p]), new)
       /\ Divided(g, SplitOf(g, p, 1, new), p, g[p].parent, 1, Median(g[p]), new)
  BY <1>10, <1>11, <1>12, <1>13, <1>14, <1>15, <1>17, SplitWhole
<1> QED BY <1>5, <1>9, <1>10, <1>16, <1>18 DEF g, D

-----------------------------------------------------------------------------
(* Steps that change the cells of one node *)

\* g has the nodes of f but for the cells of p.
CellsOnly(f, g, p) ==
  /\ DOMAIN g = DOMAIN f /\ g = [x \in DOMAIN g |-> g[x]]
  /\ \A x \in DOMAIN g : g[x] \in NodeOver(DOMAIN g)
  /\ \A x \in DOMAIN f :
       /\ g[x].parent = f[x].parent /\ g[x].root = f[x].root
       /\ g[x].leaf = f[x].leaf /\ g[x].children = f[x].children
       /\ x # p => g[x].cells = f[x].cells

SetCells(f, p, s) == [f EXCEPT ![p].cells = s]

\* Assignment to the cells of a node.
LEMMA CellsAssigned ==
  ASSUME NEW f, \A x \in DOMAIN f : f[x] \in NodeOver(DOMAIN f),
         f = [x \in DOMAIN f |-> f[x]],
         NEW p \in DOMAIN f, NEW s \in Seq(Cell)
  PROVE  CellsOnly(f, SetCells(f, p, s), p) /\ SetCells(f, p, s)[p].cells = s
<1> DEFINE g == SetCells(f, p, s)
           n == f[p]
           n2 == [n EXCEPT !.cells = s]
<1>1. /\ DOMAIN g = DOMAIN f /\ g = [x \in DOMAIN g |-> g[x]]
      /\ \A x \in DOMAIN f : x # p => g[x] = f[x]
      /\ g[p] = n2
  BY DEF SetCells
<1> HIDE DEF g
<1>2. n \in NodeOver(DOMAIN f)
  OBVIOUS
<1> DEFINE D == DOMAIN f
<1> HIDE DEF n, D
<1>3. n = [parent |-> n.parent, root |-> n.root, leaf |-> n.leaf,
           cells |-> n.cells, children |-> n.children]
  BY <1>2 DEF NodeOver
<1>4. n2 = [parent |-> n.parent, root |-> n.root, leaf |-> n.leaf,
            cells |-> s, children |-> n.children]
  <2> SUFFICES ASSUME NEW k, k = [n EXCEPT !.cells = s]
               PROVE  k = [parent |-> n.parent, root |-> n.root, leaf |-> n.leaf,
                           cells |-> s, children |-> n.children]
    OBVIOUS
  <2> QED BY <1>3
<1> HIDE DEF n2
<1>5. /\ n.parent \in D \cup {PGID_INVALID} /\ n.root \in BOOLEAN /\ n.leaf \in BOOLEAN
      /\ n.children \in Seq(D)
  BY <1>2, NodeTypes DEF D
<1>6. n2 \in NodeOver(D)
  BY <1>4, <1>5 DEF NodeOver
<1>7. /\ n2.parent = n.parent /\ n2.root = n.root /\ n2.leaf = n.leaf
      /\ n2.cells = s /\ n2.children = n.children
  BY <1>4
<1> QED BY <1>1, <1>6, <1>7 DEF n, D, CellsOnly, g

\* Links do not depend on cells.
LEMMA SameLinks ==
  ASSUME NEW f, NEW g, DOMAIN g = DOMAIN f,
         \A x \in DOMAIN f :
           /\ g[x].parent = f[x].parent /\ g[x].root = f[x].root
           /\ g[x].leaf = f[x].leaf /\ g[x].children = f[x].children,
         \A x \in DOMAIN f : \A i \in 1 .. Len(f[x].children) : f[x].children[i] \in DOMAIN f,
         NEW root, NEW h, Links(f, root, h)
  PROVE  Links(g, root, h)
<1>1. ASSUME NEW x \in DOMAIN g
      PROVE  /\ g[x].root <=> x = root
             /\ g[x].leaf <=> h[x] = 0
             /\ g[x].leaf => g[x].children = << >>
  BY DEF Links
<1>2. ASSUME NEW x \in DOMAIN g, NEW i \in 1 .. Len(g[x].children)
      PROVE  g[g[x].children[i]].parent = x /\ h[g[x].children[i]] + 1 = h[x]
  <2>1. x \in DOMAIN f /\ g[x].children = f[x].children
    OBVIOUS
  <2>2. f[f[x].children[i]].parent = x /\ h[f[x].children[i]] + 1 = h[x]
    BY <2>1 DEF Links
  <2>3. f[x].children[i] \in DOMAIN f
    BY <2>1
  <2> QED BY <2>1, <2>2, <2>3
<1> QED BY <1>1, <1>2 DEF Links

\* So what is left of a tree by a refused page is not disturbed by new cells.
LEMMA CellsLinked ==
  ASSUME NEW f, NEW g, NEW p \in DOMAIN f, CellsOnly(f, g, p), g[p].cells # << >>,
         NEW root, NEW at, Linked(f, root, at), NEW to,
         to # PGID_INVALID /\ ~f[to].root =>
           /\ to \in DOMAIN f
           /\ Listed(f, to)
           /\ Len(f[f[to].parent].children) <= Len(f[f[to].parent].cells) + 1
           /\ f[to].parent # p \/ Len(g[p].cells) = Len(f[p].cells),
         to # PGID_INVALID => to \in DOMAIN f,
         \A x \in DOMAIN f : f[x] \in NodeOver(DOMAIN f)
  PROVE  Linked(g, root, to)
<1>1. /\ DOMAIN g = DOMAIN f /\ g = [x \in DOMAIN g |-> g[x]]
      /\ \A x \in DOMAIN f :
           /\ g[x].parent = f[x].parent /\ g[x].root = f[x].root
           /\ g[x].leaf = f[x].leaf /\ g[x].children = f[x].children
           /\ x # p => g[x].cells = f[x].cells
  BY DEF CellsOnly
<1>2. Numbered(g)
  BY <1>1 DEF Linked, Numbered
<1>3. PICK top \in Nat : \E h \in [DOMAIN f -> 0 .. top] : Links(f, root, h)
  BY DEF Linked
<1>4. PICK h \in [DOMAIN f -> 0 .. top] : Links(f, root, h)
  BY <1>3
<1>5. \A x \in DOMAIN f : \A i \in 1 .. Len(f[x].children) : f[x].children[i] \in DOMAIN f
  BY NodeTypes
<1>6. Links(g, root, h)
  BY <1>1, <1>4, <1>5, SameLinks
<1>7. \A x \in DOMAIN g : ~g[x].leaf => g[x].cells # << >>
  BY <1>1 DEF Linked
<1>8. ASSUME to # PGID_INVALID, ~g[to].root
      PROVE  /\ Listed(g, to)
             /\ Len(g[g[to].parent].children) <= Len(g[g[to].parent].cells) + 1
  <2>1. to \in DOMAIN f
    BY <1>8
  <2>2. /\ ~f[to].root /\ Listed(f, to)
        /\ Len(f[f[to].parent].children) <= Len(f[f[to].parent].cells) + 1
        /\ f[to].parent # p \/ Len(g[p].cells) = Len(f[p].cells)
        /\ g[to].parent = f[to].parent
    BY <1>1, <1>8, <2>1
  <2>3. f[to].parent \in DOMAIN f
    BY <2>2 DEF Listed
  <2>4. g[f[to].parent].children = f[f[to].parent].children
        /\ Len(g[f[to].parent].cells) = Len(f[f[to].parent].cells)
    BY <1>1, <2>2, <2>3
  <2> QED BY <1>1, <2>2, <2>3, <2>4 DEF Listed
<1> QED BY <1>1, <1>2, <1>4, <1>6, <1>7, <1>8 DEF Linked

\* New cells of a leaf, or new values in a node, keep the tree if their keys are
\* in order and among those of the node.
LEMMA CellsTree ==
  ASSUME NEW f, NEW root, NEW h, NEW b, Tree(f, root, h, b),
         NEW g, NEW p \in DOMAIN f, CellsOnly(f, g, p), g[p].cells # << >>,
         \A i, j \in 1 .. Len(g[p].cells) : i < j => g[p].cells[i].key < g[p].cells[j].key,
         \A i \in 1 .. Len(g[p].cells) : g[p].cells[i].key \in b[p],
         \/ f[p].leaf
         \/ /\ Len(g[p].cells) = Len(f[p].cells)
            /\ \A i \in 1 .. Len(f[p].cells) : g[p].cells[i].key = f[p].cells[i].key
  PROVE  Tree(g, root, h, b)
<1>1. /\ DOMAIN g = DOMAIN f
      /\ \A x \in DOMAIN g : g[x] \in NodeOver(DOMAIN g)
      /\ \A x \in DOMAIN f :
           /\ g[x].parent = f[x].parent /\ g[x].root = f[x].root
           /\ g[x].leaf = f[x].leaf /\ g[x].children = f[x].children
           /\ x # p => g[x].cells = f[x].cells
  BY DEF CellsOnly
<1>2. \A x \in DOMAIN f : \A i \in 1 .. Len(f[x].children) : f[x].children[i] \in DOMAIN f
  BY TreeTypes
<1>3. Links(g, root, h)
  <2>1. Links(f, root, h)
    BY DEF Tree
  <2> QED BY <1>1, <1>2, <2>1, SameLinks
<1>4. root \in DOMAIN g /\ g[root].parent = PGID_INVALID /\ b[root] = Int
  BY <1>1 DEF Tree, Ordered
<1>5. ASSUME NEW x \in DOMAIN g
      PROVE  /\ ~g[x].leaf => Len(g[x].children) = Len(g[x].cells) + 1
             /\ x # root => g[x].cells # << >> /\ Listed(g, x)
             /\ \A i, j \in 1 .. Len(g[x].cells) : i < j => g[x].cells[i].key < g[x].cells[j].key
             /\ \A i \in 1 .. Len(g[x].cells) : g[x].cells[i].key \in b[x]
             /\ \A i \in 1 .. Len(g[x].children) :
                  b[g[x].children[i]] = {y \in b[x] : Between(g[x].cells, i, y)}
  <2>1. /\ ~f[x].leaf => Len(f[x].children) = Len(f[x].cells) + 1
        /\ x # root => f[x].cells # << >> /\ Listed(f, x)
        /\ \A i, j \in 1 .. Len(f[x].cells) : i < j => f[x].cells[i].key < f[x].cells[j].key
        /\ \A i \in 1 .. Len(f[x].cells) : f[x].cells[i].key \in b[x]
        /\ \A i \in 1 .. Len(f[x].children) :
             b[f[x].children[i]] = {y \in b[x] : Between(f[x].cells, i, y)}
    BY <1>1 DEF Tree, Ordered
  <2>2. x # root => Listed(g, x)
    BY <1>1, <2>1 DEF Listed
  <2>3. CASE x # p
    BY <1>1, <2>1, <2>2, <2>3
  <2>4. CASE x = p /\ f[p].leaf
    <3>1. g[p].children = << >>
      BY <1>1, <2>4 DEF Tree, Links
    <3>2. 1 .. Len(g[p].children) = {}
      BY <3>1
    <3> QED BY <1>1, <2>2, <2>4, <3>2
  <2>5. CASE x = p /\ ~f[p].leaf
    <3>1. /\ Len(g[p].cells) = Len(f[p].cells)
          /\ \A i \in 1 .. Len(f[p].cells) : g[p].cells[i].key = f[p].cells[i].key
      BY <2>5
    <3>2. Len(f[p].cells) \in Nat /\ Len(f[p].children) \in Nat
      BY TreeTypes
    <3>3. ASSUME NEW i \in 1 .. Len(g[x].children)
          PROVE  \A y : Between(g[x].cells, i, y) <=> Between(f[x].cells, i, y)
      <4>1. i \in 1 .. Len(f[p].cells) + 1
        BY <1>1, <2>1, <2>5
      <4>2. i > 1 => i - 1 \in 1 .. Len(f[p].cells)
        BY <3>2, <4>1
      <4>3. i <= Len(f[p].cells) => i \in 1 .. Len(f[p].cells)
        BY <3>2, <4>1
      <4> QED BY <2>5, <3>1, <4>2, <4>3 DEF Between
    <3>4. \A i \in 1 .. Len(g[x].children) :
            b[g[x].children[i]] = {y \in b[x] : Between(g[x].cells, i, y)}
      BY <1>1, <2>1, <3>3
    <3> QED BY <1>1, <2>1, <2>2, <2>5, <3>1, <3>4
  <2> QED BY <2>3, <2>4, <2>5
<1>6. Ordered(g, root, b)
  BY <1>4, <1>5 DEF Ordered
<1>7. PGID_INVALID \notin DOMAIN g /\ h \in [DOMAIN g -> Nat]
  BY <1>1 DEF Tree
<1> QED BY <1>1, <1>3, <1>6, <1>7 DEF Tree

\* A cell put at the place of its key keeps the cells in order.
LEMMA InsertSorted ==
  ASSUME NEW s \in Seq(Cell), NEW c \in Cell,
         \A i, j \in 1 .. Len(s) : i < j => s[i].key < s[j].key,
         \A i \in 1 .. Len(s) : s[i].key # c.key,
         NEW t, t = InsertAt(s, Place(s, c.key), c)
  PROVE  /\ t \in Seq(Cell) /\ Len(t) = Len(s) + 1
         /\ \A i, j \in 1 .. Len(t) : i < j => t[i].key < t[j].key
         /\ \A i \in 1 .. Len(t) : t[i] = c \/ \E j \in 1 .. Len(s) : t[i] = s[j]
         /\ \A j \in 1 .. Len(s) : \E i \in 1 .. Len(t) : t[i] = s[j]
         /\ \E i \in 1 .. Len(t) : t[i] = c
<1> DEFINE m == Place(s, c.key)
<1>1. Len(s) \in Nat /\ \A i \in 1 .. Len(s) : s[i].key \in Int
  BY CellTypes
<1>2. c.key \in Int
  BY DEF Cell
<1>3. /\ m \in 1 .. Len(s) + 1
      /\ \A j \in 1 .. m - 1 : s[j].key < c.key
      /\ m <= Len(s) => s[m].key >= c.key
  BY <1>2, PlaceProperties
<1>4. t = InsertAt(s, m, c)
  OBVIOUS
<1> HIDE DEF m
<1>5. t \in Seq(Cell) /\ Inserted(t, s, m, c)
  BY <1>3, <1>4, InsertAtProperties
<1>6. /\ Len(t) = Len(s) + 1
      /\ \A j \in 1 .. Len(s) + 1 :
           t[j] = IF j < m THEN s[j] ELSE IF j = m THEN c ELSE s[j - 1]
  BY <1>5 DEF Inserted
<1>7. \A i \in 1 .. Len(s) : i < m => s[i].key < c.key
  BY <1>1, <1>3
<1>8. \A i \in 1 .. Len(s) : i >= m => c.key < s[i].key
  <2> SUFFICES ASSUME NEW i \in 1 .. Len(s), i >= m
               PROVE  c.key < s[i].key
    OBVIOUS
  <2>1. m \in 1 .. Len(s) /\ m <= Len(s)
    BY <1>1, <1>3
  <2>2. c.key < s[m].key
    BY <1>1, <1>2, <1>3, <2>1
  <2>3. m < i => s[m].key < s[i].key
    BY <2>1
  <2> QED BY <1>1, <1>2, <1>3, <2>1, <2>2, <2>3
<1>9. ASSUME NEW i \in 1 .. Len(t)
      PROVE  \/ i < m /\ i \in 1 .. Len(s) /\ t[i] = s[i]
             \/ i = m /\ t[i] = c
             \/ i > m /\ i - 1 \in 1 .. Len(s) /\ i - 1 >= m /\ t[i] = s[i - 1]
  <2>1. i \in 1 .. Len(s) + 1
    BY <1>6
  <2>2. t[i] = IF i < m THEN s[i] ELSE IF i = m THEN c ELSE s[i - 1]
    BY <1>6, <2>1
  <2>3. i < m \/ i = m \/ i > m
    BY <1>3, <2>1
  <2>4. i < m => i \in 1 .. Len(s)
    BY <1>1, <1>3, <2>1
  <2>5. i > m => i - 1 \in 1 .. Len(s) /\ i - 1 >= m /\ ~(i < m) /\ i # m
    BY <1>1, <1>3, <2>1
  <2> QED BY <2>2, <2>3, <2>4, <2>5
<1>10. ASSUME NEW i \in 1 .. Len(t), NEW j \in 1 .. Len(t), i < j
       PROVE  t[i].key < t[j].key
  <2>1. i \in Int /\ j \in Int /\ m \in Int
    BY <1>3
  <2>2. CASE i < m /\ i \in 1 .. Len(s) /\ t[i] = s[i]
    <3>1. CASE j < m /\ j \in 1 .. Len(s) /\ t[j] = s[j]
      BY <1>10, <2>2, <3>1
    <3>2. CASE j = m /\ t[j] = c
      BY <1>7, <2>2, <3>2
    <3>3. CASE j > m /\ j - 1 \in 1 .. Len(s) /\ j - 1 >= m /\ t[j] = s[j - 1]
      <4>1. s[i].key < c.key /\ c.key < s[j - 1].key
        BY <1>7, <1>8, <2>2, <3>3
      <4> QED BY <1>1, <1>2, <2>2, <3>3, <4>1
    <3> QED BY <1>9, <3>1, <3>2, <3>3
  <2>3. CASE i = m /\ t[i] = c
    <3>1. j > m
      BY <1>10, <2>3
    <3>2. j - 1 \in 1 .. Len(s) /\ j - 1 >= m /\ t[j] = s[j - 1]
      BY <1>9, <2>1, <3>1
    <3> QED BY <1>8, <2>3, <3>2
  <2>4. CASE i > m /\ i - 1 \in 1 .. Len(s) /\ i - 1 >= m /\ t[i] = s[i - 1]
    <3>1. j > m /\ i - 1 < j - 1
      BY <1>10, <2>1, <2>4
    <3>2. j - 1 \in 1 .. Len(s) /\ t[j] = s[j - 1]
      BY <1>9, <2>1, <3>1
    <3> QED BY <2>4, <3>1, <3>2
  <2> QED BY <1>9, <2>2, <2>3, <2>4
<1>11. \A i \in 1 .. Len(t) : t[i] = c \/ \E j \in 1 .. Len(s) : t[i] = s[j]
  BY <1>9
<1>12. ASSUME NEW j \in 1 .. Len(s)
       PROVE  \E i \in 1 .. Len(t) : t[i] = s[j]
  <2>1. CASE j < m
    <3>1. j \in 1 .. Len(s) + 1
      BY <1>1
    <3> QED BY <1>6, <2>1, <3>1
  <2>2. CASE j >= m
    <3>1. j + 1 \in 1 .. Len(s) + 1 /\ ~(j + 1 < m) /\ j + 1 # m /\ (j + 1) - 1 = j
      BY <1>1, <1>3, <2>2
    <3> QED BY <1>6, <3>1
  <2> QED BY <1>3, <2>1, <2>2
<1>13. \E i \in 1 .. Len(t) : t[i] = c
  <2>1. m \in 1 .. Len(s) + 1 /\ ~(m < m)
    BY <1>3
  <2> QED BY <1>6, <2>1
<1> QED BY <1>5, <1>6, <1>10, <1>11, <1>12, <1>13

\* A whole tree is linked.
LEMMA WholeLinked ==
  ASSUME NEW f, NEW root, NEW at, Whole(f, root, at), at # PGID_INVALID => at \in DOMAIN f
  PROVE  /\ Linked(f, root, at)
         /\ \A x \in DOMAIN f : f[x] \in NodeOver(DOMAIN f)
         /\ root \in DOMAIN f
<1>1. PICK top \in Nat : OrderedTree(f, root, top)
  BY DEF Whole
<1>2. PICK h, b : Tree(f, root, h, b) /\ \A x \in DOMAIN f : h[x] <= top
  BY <1>1 DEF OrderedTree
<1>3. h \in [DOMAIN f -> 0 .. top] /\ Links(f, root, h)
  BY <1>2 DEF Tree
<1>4. ASSUME at # PGID_INVALID, ~f[at].root
      PROVE  /\ Listed(f, at)
             /\ Len(f[f[at].parent].children) <= Len(f[f[at].parent].cells) + 1
  <2> DEFINE q == f[at].parent
  <2>1. at \in DOMAIN f /\ at # root
    BY <1>2, <1>4 DEF Tree, Links
  <2>2. Listed(f, at)
    BY <1>2, <2>1 DEF Tree, Ordered
  <2>3. q \in DOMAIN f /\ f[q].children # << >>
    BY <2>2 DEF Listed
  <2>4. ~f[q].leaf
    BY <1>2, <2>3 DEF Tree, Links
  <2>5. Len(f[q].children) = Len(f[q].cells) + 1 /\ Len(f[q].cells) \in Nat
    <3>1. q \in DOMAIN f
      BY <2>3
    <3> HIDE DEF q
    <3>2. Len(f[q].children) = Len(f[q].cells) + 1
      BY <1>2, <2>4, <3>1 DEF Tree, Ordered
    <3>3. Len(f[q].cells) \in Nat
      BY <1>2, <3>1, TreeTypes
    <3> QED BY <3>2, <3>3
  <2> HIDE DEF q
  <2>6. Len(f[q].children) <= Len(f[q].cells) + 1
    BY <2>5
  <2> QED BY <2>2, <2>6 DEF q
<1>5. Numbered(f) /\ \A x \in DOMAIN f : ~f[x].leaf => f[x].cells # << >>
  BY DEF Whole
<1>6. Linked(f, root, at)
  BY <1>3, <1>4, <1>5 DEF Linked
<1> QED BY <1>2, <1>6 DEF Tree, Ordered

\* A cell whose key belongs to a leaf and is not there keeps the tree whole.
LEMMA InsertWhole ==
  ASSUME DegreeFits, NEW f, NEW root, Whole(f, root, PGID_INVALID),
         NEW top \in Nat, NEW h, NEW b, Tree(f, root, h, b), b \in [DOMAIN f -> SUBSET Int],
         \A x \in DOMAIN f : h[x] <= top,
         NEW p \in DOMAIN f, f[p].leaf, NEW c \in Cell, c.key \in b[p],
         \A i \in 1 .. Len(f[p].cells) : f[p].cells[i].key # c.key
  PROVE  Whole(SetCells(f, p, InsertAt(f[p].cells, Place(f[p].cells, c.key), c)), root, p)
<1> DEFINE s == f[p].cells
           t == InsertAt(s, Place(s, c.key), c)
           g == SetCells(f, p, t)
<1>1. /\ \A x \in DOMAIN f : f[x] \in NodeOver(DOMAIN f)
      /\ f = [x \in DOMAIN f |-> f[x]] /\ Numbered(f) /\ Sizes(f, root, PGID_INVALID)
      /\ \A x \in DOMAIN f : ~f[x].leaf => f[x].cells # << >>
      /\ PGID_INVALID \notin DOMAIN f
  BY DEF Whole, Tree, Numbered
<1>2. s \in Seq(Cell) /\ Len(s) \in Nat
  BY <1>1, NodeTypes
<1>3. /\ \A i, j \in 1 .. Len(s) : i < j => s[i].key < s[j].key
      /\ \A i \in 1 .. Len(s) : s[i].key \in b[p]
      /\ \A i \in 1 .. Len(s) : s[i].key # c.key
  BY DEF Tree, Ordered
<1> HIDE DEF s, g
<1>5. /\ t \in Seq(Cell) /\ Len(t) = Len(s) + 1
      /\ \A i, j \in 1 .. Len(t) : i < j => t[i].key < t[j].key
      /\ \A i \in 1 .. Len(t) : t[i] = c \/ \E j \in 1 .. Len(s) : t[i] = s[j]
  <2> HIDE DEF t
  <2>1. t = InsertAt(s, Place(s, c.key), c)
    BY DEF t
  <2> QED BY <1>2, <1>3, <2>1, InsertSorted
<1> HIDE DEF t
<1>6. CellsOnly(f, g, p) /\ g[p].cells = t
  BY <1>1, <1>5, CellsAssigned DEF g
<1>7. Len(t) # 0 /\ t # << >>
  BY <1>2, <1>5
<1>8. \A i \in 1 .. Len(t) : t[i].key \in b[p]
  BY <1>3, <1>5
<1>9. Tree(g, root, h, b)
  BY <1>5, <1>6, <1>7, <1>8, CellsTree
<1>10. /\ DOMAIN g = DOMAIN f /\ g = [x \in DOMAIN g |-> g[x]]
       /\ \A x \in DOMAIN f : g[x].leaf = f[x].leaf /\ (x # p => g[x].cells = f[x].cells)
  BY <1>6 DEF CellsOnly
<1>11. OrderedTree(g, root, top)
  BY <1>9, <1>10 DEF OrderedTree
<1>12. Numbered(g)
  BY <1>1, <1>10 DEF Numbered
<1>13. \A x \in DOMAIN g : ~g[x].leaf => g[x].cells # << >>
  BY <1>1, <1>10
<1>14. Sizes(g, root, p)
  <2>1. maxKeys \in Nat /\ Degree \in Nat
    BY Numbers
  <2> SUFFICES ASSUME NEW x \in DOMAIN g
               PROVE  /\ x # root => Len(g[x].cells) >= Degree - 1
                      /\ Len(g[x].cells) <= IF x = p THEN maxKeys ELSE maxKeys - 1
    BY DEF Sizes
  <2>2. /\ x # root => Len(f[x].cells) >= Degree - 1
        /\ Len(f[x].cells) <= maxKeys - 1
    BY <1>1, <1>10 DEF Sizes
  <2>3. CASE x = p
    <3>1. Len(g[x].cells) = Len(s) + 1 /\ Len(f[x].cells) = Len(s)
      BY <1>5, <1>6, <2>3 DEF s
    <3>2. /\ x # root => Len(s) + 1 >= Degree - 1
          /\ Len(s) + 1 <= maxKeys
      BY <1>2, <2>1, <2>2, <3>1
    <3> QED BY <2>3, <3>1, <3>2
  <2>4. CASE x # p
    BY <1>10, <2>2, <2>4
  <2> QED BY <2>3, <2>4
<1>15. Whole(g, root, p)
  BY <1>11, <1>12, <1>13, <1>14 DEF Whole
<1> QED BY <1>15 DEF g, t, s

-----------------------------------------------------------------------------
(* The invariant *)

\* The invariant with the type of the nodes apart from their numbers.
Folded ==
  /\ \A p \in DOMAIN nodes : nodes[p] \in NodeOver(DOMAIN nodes)
  /\ m_rootPageID \in DOMAIN nodes
  /\ splitting \in DOMAIN nodes \cup {PGID_INVALID}
  /\ result \in {"true", "false", "full", "abort"}
  /\ refused \in BOOLEAN
  /\ Linked(nodes, m_rootPageID, splitting)
  /\ refused \/ Whole(nodes, m_rootPageID, splitting)

\* It is the same invariant.
LEMMA InvFolded == Inv <=> Folded
BY TypeOKUnfolded DEF Inv, Folded, Linked, Numbered

\* The heights of a linked tree.
LEMMA LinkedRanked ==
  ASSUME Linked(nodes, m_rootPageID, splitting)
  PROVE  \E top, h : Ranked(top, h)
BY DEF Linked, Ranked

\* A node that is listed is lower than its parent.
LEMMA ListedLower ==
  ASSUME NEW top, NEW h, Ranked(top, h), NEW p \in DOMAIN nodes, Listed(nodes, p)
  PROVE  nodes[p].parent \in DOMAIN nodes /\ nodes[p].parent # p /\ h[p] + 1 = h[nodes[p].parent]
<1>1. nodes[p].parent \in DOMAIN nodes /\ h[p] + 1 = h[nodes[p].parent]
  BY DEF Listed, Ranked, Links
<1>2. h[p] \in Int
  BY DEF Ranked
<1> QED BY <1>1, <1>2

\* insert keeps the invariant, after a refused split too.
LEMMA InsertCellInv ==
  ASSUME DegreeFits, Inv, NEW k \in Key, NEW v \in Value, Running, InsertCell(k, v)
  PROVE  Inv'
<1> DEFINE row == searchRowPtr(k)
           p == row.pageID
           s == nodes[p].cells
           c == [key |-> k, value |-> v]
           t == InsertAt(s, Place(s, k), c)
<1>1. /\ Folded /\ TypeOK /\ splitting = PGID_INVALID /\ k \in Int
      /\ Linked(nodes, m_rootPageID, splitting)
      /\ \A x \in DOMAIN nodes : nodes[x] \in NodeOver(DOMAIN nodes)
      /\ nodes = [x \in DOMAIN nodes |-> nodes[x]]
      /\ m_rootPageID \in DOMAIN nodes
  BY InvFolded DEF Inv, Running, Folded, Linked, Numbered
<1>2. PICK top, h : Ranked(top, h)
  BY <1>1, LinkedRanked
<1>3. row = Walk(k)[m_rootPageID] /\ Sound(k, m_rootPageID)
  BY <1>1, <1>2, WalkEquation, WalkSound
<1>4. /\ row.ok /\ row.cellID = 0
      /\ nodes' = [nodes EXCEPT ![p].cells = t]
      /\ splitting' = p /\ result' = "true" /\ UNCHANGED <<m_rootPageID, refused>>
  BY DEF InsertCell, CELLID_INVALID
<1> HIDE DEF row
<1>5. /\ p \in DOMAIN nodes /\ nodes[p].leaf /\ ~Found(s, k)
      /\ \/ p = m_rootPageID
         \/ /\ Listed(nodes, p)
            /\ Len(nodes[nodes[p].parent].children) <= Len(nodes[nodes[p].parent].cells) + 1
  BY <1>3, <1>4 DEF Sound
<1> HIDE DEF p
<1>6. nodes' = SetCells(nodes, p, t)
  BY <1>4 DEF SetCells
<1>7. s \in Seq(Cell) /\ c \in Cell /\ c.key = k
  <2>1. s \in Seq(Cell)
    BY <1>1, <1>5, NodeTypes
  <2> QED BY <2>1 DEF Cell
<1> HIDE DEF c, s
<1>8. t \in Seq(Cell) /\ t # << >>
  <2> DEFINE m == Place(s, k)
  <2>1. m \in 1 .. Len(s) + 1
    BY <1>1, <1>7, PlaceProperties
  <2> HIDE DEF m
  <2>2. InsertAt(s, m, c) \in Seq(Cell) /\ Inserted(InsertAt(s, m, c), s, m, c)
    BY <1>7, <2>1, InsertAtProperties
  <2>3. t \in Seq(Cell) /\ Len(t) = Len(s) + 1
    BY <2>2 DEF m, Inserted
  <2>4. Len(s) \in Nat
    BY <1>7
  <2>5. Len(t) # 0
    BY <2>3, <2>4
  <2> HIDE DEF t
  <2> QED BY <2>3, <2>5
<1> HIDE DEF t
<1>9. CellsOnly(nodes, nodes', p) /\ nodes'[p].cells = t
  BY <1>1, <1>5, <1>6, <1>8, CellsAssigned
<1>10. p # m_rootPageID => nodes[p].parent # p
  BY <1>2, <1>5, ListedLower
<1>11. nodes[m_rootPageID].root
  BY <1>1, <1>2 DEF Ranked, Links
<1>12. Linked(nodes', m_rootPageID, p)
  <2>1. nodes'[p].cells # << >>
    BY <1>8, <1>9
  <2> HIDE DEF Linked
  <2> DEFINE g == nodes'
  <2> HIDE DEF g
  <2>2. CellsOnly(nodes, g, p) /\ g[p].cells # << >>
    BY <1>9, <2>1 DEF g
  <2>3. Linked(g, m_rootPageID, p)
    BY <1>1, <1>5, <1>10, <1>11, <2>2, CellsLinked
  <2> QED BY <2>3 DEF g
<1>13. refused \/ Whole(nodes', m_rootPageID, p)
  <2> SUFFICES ASSUME ~refused
               PROVE  Whole(nodes', m_rootPageID, p)
    OBVIOUS
  <2>1. Whole(nodes, m_rootPageID, PGID_INVALID)
    BY <1>1 DEF Folded
  <2>2. PICK top2 \in Nat : OrderedTree(nodes, m_rootPageID, top2)
    BY <2>1 DEF Whole
  <2>3. PICK h2, b : /\ Tree(nodes, m_rootPageID, h2, b) /\ b \in [DOMAIN nodes -> SUBSET Int]
                     /\ \A x \in DOMAIN nodes : h2[x] <= top2
    BY <2>2 DEF OrderedTree
  <2>4. Ordered(nodes, m_rootPageID, b)
    BY <2>3 DEF Tree
  <2>5. k \in b[Walk(k)[m_rootPageID].pageID]
    <3>1. k \in b[m_rootPageID]
      BY <1>1, <2>4 DEF Ordered
    <3> QED BY <1>1, <1>2, <2>4, <3>1, WalkOrdered
  <2>6. k \in b[p]
    BY <1>3, <2>5 DEF p
  <2>7. \A i, j \in 1 .. Len(s) : i < j => s[i].key < s[j].key
    BY <1>5, <2>4 DEF Ordered, s
  <2>8. \A i \in 1 .. Len(s) : s[i].key # k
    <3> SUFFICES ASSUME NEW i \in 1 .. Len(s), s[i].key = k
                 PROVE  FALSE
      OBVIOUS
    <3>1. Len(s) \in Nat
      BY <1>7
    <3>2. i \in 1 .. Len(s) + 1 /\ i <= Len(s)
      BY <3>1
    <3>3. Place(s, k) = i
      BY <1>1, <1>7, <2>7, <3>2, PlaceIs
    <3> QED BY <1>5, <3>2, <3>3 DEF Found
  <2>9. Whole(SetCells(nodes, p, InsertAt(nodes[p].cells, Place(nodes[p].cells, c.key), c)), m_rootPageID, p)
    <3>1. \A i \in 1 .. Len(nodes[p].cells) : nodes[p].cells[i].key # c.key
      BY <1>7, <2>8 DEF s
    <3>2. c \in Cell /\ c.key \in b[p]
      BY <1>7, <2>6
    <3> QED BY <1>5, <2>1, <2>2, <2>3, <3>1, <3>2, InsertWhole
  <2>10. Whole(SetCells(nodes, p, t), m_rootPageID, p)
    BY <1>7, <2>9 DEF s, t
  <2> QED BY <1>6, <2>10
<1>14. /\ DOMAIN nodes' = DOMAIN nodes
       /\ \A x \in DOMAIN nodes' : nodes'[x] \in NodeOver(DOMAIN nodes')
  BY <1>9 DEF CellsOnly
<1>15. Folded'
  BY <1>1, <1>4, <1>5, <1>12, <1>13, <1>14 DEF Folded
<1> QED BY <1>15, InvFolded, PTL

\* A tree that is one empty leaf is whole.
LEMMA FirstWhole ==
  ASSUME DegreeFits, NEW f, f = [p \in {1} |-> [parent |-> PGID_INVALID, root |-> TRUE,
                                  leaf |-> TRUE, cells |-> << >>, children |-> << >>]]
  PROVE  Whole(f, 1, PGID_INVALID) /\ \A p \in DOMAIN f : f[p] \in NodeOver(DOMAIN f)
<1> DEFINE n == [parent |-> PGID_INVALID, root |-> TRUE, leaf |-> TRUE,
                 cells |-> << >>, children |-> << >>]
           h == [p \in {1} |-> 0]
           b == [p \in {1} |-> Int]
<1>1. DOMAIN f = {1} /\ f = [p \in DOMAIN f |-> f[p]] /\ f[1] = n
  OBVIOUS
<1>2. n \in NodeOver({1})
  BY DEF NodeOver, PGID_INVALID
<1>3. /\ n.parent = PGID_INVALID /\ n.root = TRUE /\ n.leaf = TRUE
      /\ n.cells = << >> /\ n.children = << >>
      /\ Len(n.cells) = 0 /\ Len(n.children) = 0
  OBVIOUS
<1>4. DOMAIN h = {1} /\ h[1] = 0 /\ b[1] = Int /\ h \in [{1} -> Nat] /\ b \in [{1} -> SUBSET Int]
  OBVIOUS
<1> HIDE DEF n, h, b
<1>5. Links(f, 1, h)
  BY <1>1, <1>3, <1>4 DEF Links
<1>6. Ordered(f, 1, b)
  BY <1>1, <1>3, <1>4 DEF Ordered
<1>7. PGID_INVALID \notin DOMAIN f
  BY <1>1 DEF PGID_INVALID
<1>8. Tree(f, 1, h, b)
  BY <1>1, <1>2, <1>4, <1>5, <1>6, <1>7 DEF Tree
<1>9. OrderedTree(f, 1, 0)
  <2>1. \A x \in DOMAIN f : h[x] <= 0
    BY <1>1, <1>4
  <2> QED BY <1>1, <1>4, <1>8, <2>1 DEF OrderedTree
<1>10. Numbered(f)
  <2>1. IsFiniteSet({1}) /\ Cardinality({1}) = 1
    BY FS_Singleton
  <2>2. {1} = 1 .. 1
    OBVIOUS
  <2> QED BY <1>1, <2>1, <2>2 DEF Numbered
<1>11. Sizes(f, 1, PGID_INVALID)
  <2>1. 0 <= maxKeys - 1
    BY Numbers
  <2> QED BY <1>1, <1>3, <2>1 DEF Sizes, PGID_INVALID
<1>12. \A x \in DOMAIN f : ~f[x].leaf => f[x].cells # << >>
  BY <1>1, <1>3
<1>13. 0 \in Nat
  OBVIOUS
<1> QED BY <1>1, <1>2, <1>9, <1>10, <1>11, <1>12, <1>13 DEF Whole

\* The tree that is created has the invariant.
LEMMA InitInv ==
  ASSUME DegreeFits, Init
  PROVE  Inv
<1>1. /\ Whole(nodes, 1, PGID_INVALID)
      /\ \A p \in DOMAIN nodes : nodes[p] \in NodeOver(DOMAIN nodes)
  BY FirstWhole DEF Init
<1>2. Linked(nodes, 1, PGID_INVALID) /\ 1 \in DOMAIN nodes
  BY <1>1, WholeLinked
<1>3. /\ m_rootPageID = 1 /\ splitting = PGID_INVALID /\ result = "true" /\ refused = FALSE
  BY DEF Init
<1>4. Folded
  BY <1>1, <1>2, <1>3 DEF Folded
<1> QED BY <1>4, InvFolded

\* A step that leaves the pages alone and names no page to be split keeps it.
LEMMA SameNodesInv ==
  ASSUME Inv, UNCHANGED <<nodes, m_rootPageID>>,
         splitting' = splitting, result' \in {"true", "false", "full", "abort"},
         refused' = refused
  PROVE  Inv'
<1>1. Folded
  BY InvFolded
<1>2. Folded'
  BY <1>1 DEF Folded
<1> QED BY <1>2, InvFolded, PTL

\* split ends at a node that is not full.
LEMMA SplitNothingInv ==
  ASSUME DegreeFits, Inv, splitting # PGID_INVALID, SplitNothing
  PROVE  Inv'
<1>1. Folded
  BY InvFolded
<1>2. /\ splitting \in DOMAIN nodes /\ ~(Len(nodes[splitting].cells) >= maxKeys)
      /\ splitting' = PGID_INVALID /\ UNCHANGED <<nodes, m_rootPageID, result, refused>>
  BY <1>1 DEF SplitNothing, Full, Folded
<1>3. Linked(nodes, m_rootPageID, PGID_INVALID)
  BY <1>1 DEF Folded, Linked
<1>4. ASSUME ~refused
      PROVE  Whole(nodes, m_rootPageID, PGID_INVALID)
  <2>1. Whole(nodes, m_rootPageID, splitting)
    BY <1>1, <1>4 DEF Folded
  <2>2. Sizes(nodes, m_rootPageID, PGID_INVALID)
    <3>1. maxKeys \in Nat
      BY Numbers
    <3> SUFFICES ASSUME NEW x \in DOMAIN nodes
                 PROVE  /\ x # m_rootPageID => Len(nodes[x].cells) >= Degree - 1
                        /\ Len(nodes[x].cells) <= maxKeys - 1
      BY <3>1 DEF Sizes
    <3>2. /\ x # m_rootPageID => Len(nodes[x].cells) >= Degree - 1
          /\ x # splitting => Len(nodes[x].cells) <= maxKeys - 1
      BY <2>1 DEF Whole, Sizes
    <3>3. nodes[x] \in NodeOver(DOMAIN nodes)
      BY <1>1 DEF Folded
    <3>4. Len(nodes[x].cells) \in Nat
      BY <3>3, NodeTypes
    <3>5. x = splitting => Len(nodes[x].cells) <= maxKeys - 1
      BY <1>2, <3>1, <3>4
    <3> QED BY <3>2, <3>5
  <2> QED BY <2>1, <2>2 DEF Whole
<1>5. Folded'
  BY <1>1, <1>2, <1>3, <1>4 DEF Folded
<1> QED BY <1>5, InvFolded, PTL

\* The parent's place for a page that it lists.
LEMMA ChildPlace ==
  ASSUME NEW p, Listed(nodes, p)
  PROVE  /\ ChildIndex(p) \in 1 .. Len(nodes[nodes[p].parent].children)
         /\ nodes[nodes[p].parent].children[ChildIndex(p)] = p
<1> DEFINE s == nodes[nodes[p].parent].children
           P(i) == i \in 1 .. Len(s) /\ s[i] = p
<1>1. \E i : P(i)
  BY DEF Listed
<1>2. P(CHOOSE i : P(i))
  BY <1>1
<1>3. ChildIndex(p) \in 1 .. Len(s) /\ s[ChildIndex(p)] = p
  BY <1>1 DEF ChildIndex
<1> QED BY <1>3

\* The tree whose node splitting is full, before the split.
FullTree(top, h, b) ==
  /\ top \in Nat /\ Tree(nodes, m_rootPageID, h, b) /\ b \in [DOMAIN nodes -> SUBSET Int]
  /\ \A x \in DOMAIN nodes : h[x] <= top
  /\ Whole(nodes, m_rootPageID, splitting)
  /\ splitting \in DOMAIN nodes /\ Len(nodes[splitting].cells) = maxKeys
  /\ nodes[splitting].root <=> splitting = m_rootPageID

\* A node that is about to be split is in an ordered tree, and has exactly maxKeys cells.
LEMMA FullTreeExists ==
  ASSUME DegreeFits, Inv, splitting # PGID_INVALID, ~refused, Full(splitting)
  PROVE  \E top, h, b : FullTree(top, h, b)
<1>1. Folded
  BY InvFolded
<1>2. Whole(nodes, m_rootPageID, splitting) /\ splitting \in DOMAIN nodes
  BY <1>1 DEF Folded
<1>3. PICK top \in Nat : OrderedTree(nodes, m_rootPageID, top)
  BY <1>2 DEF Whole
<1>4. PICK h, b : /\ Tree(nodes, m_rootPageID, h, b) /\ b \in [DOMAIN nodes -> SUBSET Int]
                  /\ \A x \in DOMAIN nodes : h[x] <= top
  BY <1>3 DEF OrderedTree
<1>5. nodes[splitting] \in NodeOver(DOMAIN nodes)
  BY <1>1, <1>2 DEF Folded
<1>6. Len(nodes[splitting].cells) = maxKeys
  <2>1. Len(nodes[splitting].cells) \in Nat /\ maxKeys \in Nat
    BY <1>5, NodeTypes, Numbers
  <2>2. Len(nodes[splitting].cells) <= maxKeys
    BY <1>2 DEF Whole, Sizes
  <2>3. Len(nodes[splitting].cells) >= maxKeys
    BY DEF Full
  <2> QED BY <2>1, <2>2, <2>3
<1>7. nodes[splitting].root <=> splitting = m_rootPageID
  BY <1>2, <1>4 DEF Tree, Links
<1>8. FullTree(top, h, b)
  BY <1>2, <1>3, <1>4, <1>6, <1>7 DEF FullTree
<1> QED BY <1>8

\* What a split of a child does to the tree.
ChildSplit(p, q, idx, new) ==
  /\ nodes' = SplitOf(nodes, p, idx, new)
  /\ Whole(nodes', m_rootPageID, q)
  /\ Divisible(nodes, m_rootPageID, p, q, idx, Median(nodes[p]), new)
  /\ Divided(nodes, nodes', p, q, idx, Median(nodes[p]), new)

\* SplitChild is a ChildSplit of the node, its parent, and the place the parent has it at.
LEMMA SplitChildIs ==
  ASSUME DegreeFits, Inv, splitting # PGID_INVALID, SplitChild
  PROVE  ChildSplit(splitting, nodes[splitting].parent, ChildIndex(splitting), NewPage)
<1> DEFINE p == splitting
           q == nodes[p].parent
           idx == ChildIndex(p)
           new == NewPage
<1>1. /\ Full(splitting) /\ ~nodes[p].root /\ ~refused
      /\ nodes' = SplitOf(nodes, p, idx, new)
  BY DEF SplitChild, SplitOf, Receiving
<1>2. PICK top, h, b : FullTree(top, h, b)
  BY <1>1, FullTreeExists
<1>3. /\ top \in Nat /\ Tree(nodes, m_rootPageID, h, b) /\ b \in [DOMAIN nodes -> SUBSET Int]
      /\ \A x \in DOMAIN nodes : h[x] <= top
      /\ p \in DOMAIN nodes /\ Len(nodes[p].cells) = maxKeys /\ p # m_rootPageID
      /\ Numbered(nodes) /\ Sizes(nodes, m_rootPageID, p)
      /\ \A x \in DOMAIN nodes : ~nodes[x].leaf => nodes[x].cells # << >> \/ x = q
  BY <1>1, <1>2 DEF FullTree, Whole
<1>4. Listed(nodes, p)
  BY <1>3 DEF Tree, Ordered
<1>5. idx \in 1 .. Len(nodes[q].children) /\ nodes[q].children[idx] = p
  BY <1>4, ChildPlace
<1>6. new = Cardinality(DOMAIN nodes) + 1
  BY DEF NewPage
<1> HIDE DEF p, idx, new
<1>7. /\ Whole(SplitOf(nodes, p, idx, new), m_rootPageID, q)
      /\ Divisible(nodes, m_rootPageID, p, q, idx, Median(nodes[p]), new)
      /\ Divided(nodes, SplitOf(nodes, p, idx, new), p, q, idx, Median(nodes[p]), new)
  BY <1>3, <1>5, <1>6, SplitWhole
<1>8. ChildSplit(p, q, idx, new)
  BY <1>1, <1>7 DEF ChildSplit
<1> QED BY <1>8 DEF p, idx, new

\* split of a node below the root keeps the invariant.
LEMMA SplitChildInv ==
  ASSUME DegreeFits, Inv, splitting # PGID_INVALID, SplitChild
  PROVE  Inv'
<1> DEFINE q == nodes[splitting].parent
           g == nodes'
<1>1. Folded
  BY InvFolded
<1>2. /\ splitting' = q /\ UNCHANGED <<m_rootPageID, result, refused>>
  BY DEF SplitChild
<1>3. /\ Whole(g, m_rootPageID, q)
      /\ q \in DOMAIN g
  <2>1. ChildSplit(splitting, q, ChildIndex(splitting), NewPage)
    BY SplitChildIs
  <2>2. PICK top, h, b : FullTree(top, h, b)
    BY FullTreeExists DEF SplitChild
  <2>3. splitting \in DOMAIN nodes /\ splitting # m_rootPageID
    BY <2>2 DEF FullTree, SplitChild
  <2>4. q \in DOMAIN nodes
    BY <2>2, <2>3 DEF FullTree, Tree, Ordered, Listed
  <2>5. DOMAIN g = DOMAIN nodes \cup {NewPage}
    BY <2>1 DEF ChildSplit, Divided
  <2> QED BY <2>1, <2>4, <2>5 DEF ChildSplit
<1> HIDE DEF g, q
<1>4. /\ Linked(g, m_rootPageID, q)
      /\ \A x \in DOMAIN g : g[x] \in NodeOver(DOMAIN g)
      /\ m_rootPageID \in DOMAIN g
  BY <1>3, WholeLinked
<1>5. Folded'
  BY <1>1, <1>2, <1>3, <1>4 DEF Folded, g
<1> QED BY <1>5, InvFolded, PTL

\* What a split of the root does to the tree.
RootSplit(p, r, new) ==
  /\ nodes' = SplitOf(AddRoot(nodes, p, r), p, 1, new)
  /\ Whole(nodes', r, r)
  /\ Divisible(AddRoot(nodes, p, r), r, p, r, 1, Median(nodes[p]), new)
  /\ Divided(AddRoot(nodes, p, r), nodes', p, r, 1, Median(nodes[p]), new)
  /\ RootAdded(nodes, AddRoot(nodes, p, r), p, r)
  /\ r \notin DOMAIN nodes

\* SplitRoot is a RootSplit with the next two pages, the root before the right half.
LEMMA SplitRootStep ==
  ASSUME DegreeFits, Inv, splitting # PGID_INVALID, SplitRoot
  PROVE  RootSplit(splitting, NewPage, NewPage + 1)
<1> DEFINE p == splitting
           r == NewPage
           new == NewPage + 1
<1>1. /\ Full(splitting) /\ nodes[p].root /\ ~refused
      /\ nodes' = Adopt(With(With([nodes EXCEPT ![p] = [LeftHalf(nodes[p]) EXCEPT !.root = FALSE, !.parent = r]],
                                  r, NewRoot(nodes[p], <<p, new>>)),
                             new, RightHalf(nodes[p], r)), new)
  BY DEF SplitRoot
<1>2. PICK top, h, b : FullTree(top, h, b)
  BY <1>1, FullTreeExists
<1>3. /\ Tree(nodes, p, h, b) /\ Whole(nodes, p, p) /\ p \in DOMAIN nodes
      /\ Len(nodes[p].cells) = maxKeys /\ p = m_rootPageID
  BY <1>1, <1>2 DEF FullTree
<1>4. Len(nodes[p].cells) >= 3
  BY <1>3, Numbers
<1>5. /\ \A x \in DOMAIN nodes : nodes[x] \in NodeOver(DOMAIN nodes)
      /\ ~nodes[p].leaf => Len(nodes[p].children) = Len(nodes[p].cells) + 1
  BY <1>3 DEF Tree, Ordered
<1>6. IsFiniteSet(DOMAIN nodes) /\ DOMAIN nodes = 1 .. Cardinality(DOMAIN nodes)
      /\ r = Cardinality(DOMAIN nodes) + 1
  BY <1>3 DEF Whole, Numbered, NewPage
<1>7. r \notin DOMAIN nodes /\ new = r + 1
  BY <1>6, NextNumber
<1> HIDE DEF p, r, new
<1>8. nodes' = SplitOf(AddRoot(nodes, p, r), p, 1, new)
  <2>1. r \notin DOMAIN nodes /\ p \in DOMAIN nodes
    BY <1>3, <1>7
  <2>2. Adopt(With(With([nodes EXCEPT ![p] = [LeftHalf(nodes[p]) EXCEPT !.root = FALSE,
                                                                        !.parent = r]],
                        r, NewRoot(nodes[p], <<p, new>>)),
                   new, RightHalf(nodes[p], r)), new)
          = SplitOf(AddRoot(nodes, p, r), p, 1, new)
    BY <1>4, <1>5, <2>1, SplitRootIs
  <2> QED BY <1>1, <2>2
<1>9. /\ Whole(SplitOf(AddRoot(nodes, p, r), p, 1, new), r, r)
      /\ Divisible(AddRoot(nodes, p, r), r, p, r, 1, Median(nodes[p]), new)
      /\ Divided(AddRoot(nodes, p, r), SplitOf(AddRoot(nodes, p, r), p, 1, new),
                 p, r, 1, Median(nodes[p]), new)
      /\ RootAdded(nodes, AddRoot(nodes, p, r), p, r)
  BY <1>3, <1>6, <1>7, SplitRootWhole
<1>10. RootSplit(p, r, new)
  BY <1>7, <1>8, <1>9 DEF RootSplit
<1> QED BY <1>10 DEF p, r, new

\* split of the root keeps the invariant.
LEMMA SplitRootInv ==
  ASSUME DegreeFits, Inv, splitting # PGID_INVALID, SplitRoot
  PROVE  Inv'
<1> DEFINE r == NewPage
           g == nodes'
<1>1. Folded
  BY InvFolded
<1>2. /\ splitting' = r /\ m_rootPageID' = r /\ UNCHANGED <<result, refused>>
  BY DEF SplitRoot
<1>3. RootSplit(splitting, r, r + 1)
  BY SplitRootStep
<1>4. Whole(g, r, r)
  BY <1>3 DEF RootSplit
<1>5. r \in DOMAIN g
  BY <1>4 DEF Whole, OrderedTree, Tree, Ordered
<1> HIDE DEF g, r
<1>6. /\ Linked(g, r, r)
      /\ \A x \in DOMAIN g : g[x] \in NodeOver(DOMAIN g)
  BY <1>4, <1>5, WholeLinked
<1>7. Folded'
  BY <1>1, <1>2, <1>4, <1>5, <1>6 DEF Folded, g
<1> QED BY <1>7, InvFolded, PTL

\* What a node loses to its parent when the page of its right half is refused.
LEMMA MedianTaken ==
  ASSUME DegreeFits, NEW D, NEW n \in NodeOver(D), Len(n.cells) >= maxKeys
  PROVE  /\ MedianCell(n) \in Cell
         /\ RemoveAt(n.cells, Median(n) + 1) \in Seq(Cell)
         /\ RemoveAt(n.cells, Median(n) + 1) # << >>
<1> DEFINE len == Len(n.cells)
           i == Median(n) + 1
           s == RemoveAt(n.cells, i)
<1>1. maxKeys \in Nat /\ maxKeys >= 3
  BY Numbers
<1>2. /\ n.cells \in Seq(Cell) /\ len \in Nat /\ len >= 3
      /\ \A j \in 1 .. len : n.cells[j] \in Cell
  BY <1>1, NodeTypes
<1>3. i = (len \div 2) + 1
  BY DEF Median
<1> HIDE DEF i
<1>4. i \in 1 .. len
  <2> HIDE DEF len
  <2> QED BY <1>2, <1>3
<1>5. s \in Seq(Cell) /\ Len(s) = len - 1
  BY <1>2, <1>4, RemoveAtProperties
<1> HIDE DEF s
<1>6. Len(s) # 0
  BY <1>2, <1>5
<1>7. s # << >>
  <2>1. Len(<< >>) = 0
    OBVIOUS
  <2> QED BY <1>6, <2>1
<1>8. MedianCell(n) = n.cells[i]
  BY DEF MedianCell, i
<1> QED BY <1>2, <1>4, <1>5, <1>7, <1>8 DEF i, s

\* split keeps what remains of the invariant when the right half of a child is refused.
LEMMA RefuseChildInv ==
  ASSUME DegreeFits, Inv, splitting # PGID_INVALID, RefuseChild
  PROVE  Inv'
<1> DEFINE p == splitting
           n == nodes[p]
           q == n.parent
           i == ChildIndex(p)
           s == RemoveAt(n.cells, Median(n) + 1)
           t == InsertAt(nodes[q].cells, i, MedianCell(n))
           f == SetCells(nodes, p, s)
           g == SetCells(f, q, t)
<1>1. Folded
  BY InvFolded
<1>2. /\ Len(n.cells) >= maxKeys /\ ~n.root
      /\ nodes' = [nodes EXCEPT ![p] = [n EXCEPT !.cells = s], ![q].cells = t]
      /\ splitting' = PGID_INVALID /\ result' = "full" /\ refused' = TRUE
      /\ m_rootPageID' = m_rootPageID
  BY DEF RefuseChild, Refuse, Full, WithoutMedian
<1>3. /\ p \in DOMAIN nodes /\ Linked(nodes, m_rootPageID, p)
      /\ \A x \in DOMAIN nodes : nodes[x] \in NodeOver(DOMAIN nodes)
      /\ nodes = [x \in DOMAIN nodes |-> nodes[x]]
  BY <1>1 DEF Folded, Linked, Numbered
<1>4. Listed(nodes, p) /\ Len(nodes[q].children) <= Len(nodes[q].cells) + 1
  BY <1>2, <1>3 DEF Linked
<1>5. PICK top, h : Ranked(top, h)
  BY <1>1, LinkedRanked DEF Folded
<1>6. q \in DOMAIN nodes /\ q # p
  BY <1>3, <1>4, <1>5, ListedLower
<1>7. n \in NodeOver(DOMAIN nodes) /\ nodes[q] \in NodeOver(DOMAIN nodes)
  BY <1>3, <1>6
<1>8. MedianCell(n) \in Cell /\ s \in Seq(Cell) /\ s # << >>
  BY <1>2, <1>7, MedianTaken
<1>9. t \in Seq(Cell) /\ t # << >>
  <2> DEFINE o == nodes[q].cells
  <2>1. o \in Seq(Cell) /\ Len(o) \in Nat /\ Len(nodes[q].children) \in Nat
    BY <1>7, NodeTypes
  <2>2. i \in 1 .. Len(nodes[q].children)
    BY <1>4, ChildPlace
  <2> HIDE DEF i, o, q
  <2>3. i \in 1 .. Len(o) + 1
    BY <1>4, <2>1, <2>2 DEF o
  <2>4. /\ InsertAt(o, i, MedianCell(n)) \in Seq(Cell)
        /\ Inserted(InsertAt(o, i, MedianCell(n)), o, i, MedianCell(n))
    BY <1>8, <2>1, <2>3, InsertAtProperties
  <2>5. t \in Seq(Cell) /\ Len(t) = Len(o) + 1
    BY <2>4 DEF o, Inserted
  <2>6. Len(t) # 0
    BY <2>1, <2>5
  <2> HIDE DEF t
  <2> QED BY <2>5, <2>6
<1>10. nodes' = g
  <2> HIDE DEF p, s, t, Linked
  <2> QED BY <1>2, <1>3, <1>6 DEF SetCells
<1> HIDE DEF s, t, g, p, q
<1>11. CellsOnly(nodes, f, p) /\ f[p].cells = s
  BY <1>3, <1>8, CellsAssigned
<1>12. Linked(f, m_rootPageID, PGID_INVALID)
  <2> HIDE DEF f, Linked
  <2>1. CellsOnly(nodes, f, p) /\ f[p].cells # << >>
    BY <1>8, <1>11
  <2> QED BY <1>3, <2>1, CellsLinked
<1> HIDE DEF f
<1>13. /\ DOMAIN f = DOMAIN nodes /\ f = [x \in DOMAIN f |-> f[x]]
       /\ \A x \in DOMAIN f : f[x] \in NodeOver(DOMAIN f)
       /\ q \in DOMAIN f
  BY <1>6, <1>11 DEF CellsOnly
<1>14. CellsOnly(f, g, q) /\ g[q].cells = t
  BY <1>9, <1>13, CellsAssigned DEF g
<1>15. Linked(g, m_rootPageID, PGID_INVALID)
  <2> HIDE DEF Linked
  <2>1. CellsOnly(f, g, q) /\ g[q].cells # << >>
    BY <1>9, <1>14
  <2> QED BY <1>12, <1>13, <2>1, CellsLinked
<1>16. /\ \A x \in DOMAIN g : g[x] \in NodeOver(DOMAIN g)
       /\ DOMAIN g = DOMAIN nodes
  BY <1>13, <1>14 DEF CellsOnly
<1>17. Folded'
  BY <1>1, <1>2, <1>10, <1>15, <1>16 DEF Folded
<1> QED BY <1>17, InvFolded, PTL

\* Nothing has changed yet when the page of a new root is refused.
LEMMA RefuseRootInv ==
  ASSUME Inv, splitting # PGID_INVALID, RefuseRoot
  PROVE  Inv'
<1>1. Folded
  BY InvFolded
<1>2. /\ splitting' = PGID_INVALID /\ result' = "full" /\ refused' = TRUE
      /\ UNCHANGED <<nodes, m_rootPageID>>
  BY DEF RefuseRoot, Refuse
<1>3. Linked(nodes, m_rootPageID, PGID_INVALID)
  BY <1>1 DEF Folded, Linked
<1>4. Folded'
  BY <1>1, <1>2, <1>3 DEF Folded
<1> QED BY <1>4, InvFolded, PTL

\* What the pages are when the new root could be created and the right half not.
Beheaded(f, g, p, r) ==
  /\ DOMAIN g = DOMAIN f \cup {r} /\ g = [x \in DOMAIN g |-> g[x]]
  /\ \A x \in DOMAIN g : g[x] \in NodeOver(DOMAIN g)
  /\ \A x \in DOMAIN f : x # p => g[x] = f[x]
  /\ g[p].parent = r /\ g[p].root = FALSE /\ g[p].leaf = f[p].leaf
  /\ g[p].children = f[p].children /\ g[p].cells # << >>
  /\ g[r].root = TRUE /\ g[r].leaf = FALSE /\ g[r].children = << >> /\ g[r].cells # << >>

\* RefuseSibling leaves the old root Beheaded: below a new root that has no children.
LEMMA SiblingRefused ==
  ASSUME DegreeFits, NEW f, \A x \in DOMAIN f : f[x] \in NodeOver(DOMAIN f),
         NEW p \in DOMAIN f, NEW r, r \notin DOMAIN f, Len(f[p].cells) >= maxKeys
  PROVE  Beheaded(f, With([f EXCEPT ![p] = [WithoutMedian(f[p]) EXCEPT !.root = FALSE, !.parent = r]],
                          r, NewRoot(f[p], << >>)), p, r)
<1> DEFINE D == DOMAIN f \cup {r}
           n == f[p]
           s == RemoveAt(n.cells, Median(n) + 1)
           left == [WithoutMedian(n) EXCEPT !.root = FALSE, !.parent = r]
           np == [parent |-> r, root |-> FALSE, leaf |-> n.leaf, cells |-> s, children |-> n.children]
           top == NewRoot(n, << >>)
           base == [f EXCEPT ![p] = left]
           g == With(base, r, top)
<1>1. \A x \in DOMAIN f : f[x] \in NodeOver(D)
  <2>1. DOMAIN f \subseteq D
    OBVIOUS
  <2> HIDE DEF D
  <2> QED BY <2>1, WiderNode
<1>2. n \in NodeOver(D) /\ p \in D /\ r \in D /\ p # r
  BY <1>1
<1>3. /\ DOMAIN g = D /\ g = [x \in D |-> g[x]]
      /\ \A x \in DOMAIN f : x # p => g[x] = f[x]
      /\ g[p] = left /\ g[r] = top
  BY DEF With
<1> HIDE DEF D, g, base
<1>4. MedianCell(n) \in Cell /\ s \in Seq(Cell) /\ s # << >>
  BY <1>2, MedianTaken
<1>5. left = np
  <2> HIDE DEF n, s
  <2>1. n = [parent |-> n.parent, root |-> n.root, leaf |-> n.leaf,
             cells |-> n.cells, children |-> n.children]
    BY <1>2 DEF NodeOver
  <2>2. WithoutMedian(n) = [parent |-> n.parent, root |-> n.root, leaf |-> n.leaf,
                            cells |-> s, children |-> n.children]
    <3> SUFFICES ASSUME NEW k, k = [n EXCEPT !.cells = s]
                 PROVE  k = [parent |-> n.parent, root |-> n.root, leaf |-> n.leaf,
                             cells |-> s, children |-> n.children]
      BY DEF WithoutMedian, s
    <3> QED BY <2>1
  <2> DEFINE w == WithoutMedian(n)
  <2>3. w = [parent |-> n.parent, root |-> n.root, leaf |-> n.leaf,
             cells |-> s, children |-> n.children]
    BY <2>2
  <2> HIDE DEF w
  <2> SUFFICES ASSUME NEW k, k = [w EXCEPT !.root = FALSE, !.parent = r]
               PROVE  k = np
    BY DEF w
  <2> QED BY <2>3
<1>6. np \in NodeOver(D) /\ np.parent = r /\ np.root = FALSE /\ np.leaf = n.leaf
      /\ np.children = n.children /\ np.cells = s
  <2>1. n.leaf \in BOOLEAN /\ n.children \in Seq(D)
    BY <1>2, NodeTypes
  <2> HIDE DEF n, s
  <2> QED BY <1>2, <1>4, <2>1 DEF NodeOver
<1>7. top \in NodeOver(D) /\ top.root = TRUE /\ top.leaf = FALSE /\ top.children = << >>
      /\ top.cells = <<MedianCell(n)>> /\ top.cells # << >>
  <2> DEFINE m == MedianCell(n)
  <2>1. top = [parent |-> PGID_INVALID, root |-> TRUE, leaf |-> FALSE,
               cells |-> <<m>>, children |-> << >>]
    BY DEF NewRoot
  <2>2. m \in Cell
    BY <1>4
  <2> HIDE DEF m, top
  <2>3. <<m>> \in Seq(Cell) /\ <<m>> # << >> /\ << >> \in Seq(D)
    BY <2>2
  <2>4. top \in NodeOver(D)
    BY <2>1, <2>3 DEF NodeOver
  <2> QED BY <2>1, <2>3, <2>4 DEF m
<1> HIDE DEF left, np, top, n
<1>8. \A x \in D : g[x] \in NodeOver(D)
  BY <1>1, <1>3, <1>5, <1>6, <1>7 DEF D
<1>9. Beheaded(f, g, p, r)
  BY <1>3, <1>4, <1>5, <1>6, <1>7, <1>8 DEF Beheaded, D, n
<1> QED BY <1>9 DEF g, base, left, top, n

\* split keeps what remains of the invariant when the right half of the root is refused.
LEMMA RefuseSiblingInv ==
  ASSUME DegreeFits, Inv, splitting # PGID_INVALID, RefuseSibling
  PROVE  Inv'
<1> DEFINE p == splitting
           r == NewPage
           g == nodes'
<1>1. Folded
  BY InvFolded
<1>2. /\ Full(p) /\ nodes[p].root /\ ~refused
      /\ g = With([nodes EXCEPT ![p] = [WithoutMedian(nodes[p]) EXCEPT !.root = FALSE, !.parent = r]],
                  r, NewRoot(nodes[p], << >>))
      /\ m_rootPageID' = r
      /\ splitting' = PGID_INVALID /\ result' = "full" /\ refused' = TRUE
  BY DEF RefuseSibling, Refuse
<1>3. PICK top, h, b : FullTree(top, h, b)
  BY <1>2, FullTreeExists
<1>4. /\ Tree(nodes, p, h, b) /\ top \in Nat /\ \A x \in DOMAIN nodes : h[x] <= top
      /\ Numbered(nodes) /\ p \in DOMAIN nodes
      /\ \A x \in DOMAIN nodes : ~nodes[x].leaf => nodes[x].cells # << >>
      /\ Len(nodes[p].cells) >= maxKeys
  BY <1>2, <1>3 DEF FullTree, Whole, Full
<1>5. /\ \A x \in DOMAIN nodes : nodes[x] \in NodeOver(DOMAIN nodes)
      /\ h \in [DOMAIN nodes -> Nat] /\ Links(nodes, p, h)
      /\ nodes[p].parent = PGID_INVALID /\ PGID_INVALID \notin DOMAIN nodes
  BY <1>4 DEF Tree, Ordered
<1>6. /\ IsFiniteSet(DOMAIN nodes) /\ DOMAIN nodes = 1 .. Cardinality(DOMAIN nodes)
      /\ r = Cardinality(DOMAIN nodes) + 1
  BY <1>4 DEF Numbered, NewPage
<1>7. /\ r \notin DOMAIN nodes /\ IsFiniteSet(DOMAIN nodes \cup {r})
      /\ DOMAIN nodes \cup {r} = 1 .. Cardinality(DOMAIN nodes \cup {r})
  BY <1>6, NextNumber
<1>8. Beheaded(nodes, g, p, r)
  BY <1>2, <1>4, <1>5, <1>7, SiblingRefused
<1> HIDE DEF g, p, r
<1> DEFINE j == [x \in DOMAIN g |-> IF x = r THEN h[p] + 1 ELSE h[x]]
<1>9. /\ DOMAIN g = DOMAIN nodes \cup {r} /\ g = [x \in DOMAIN g |-> g[x]]
      /\ \A x \in DOMAIN g : g[x] \in NodeOver(DOMAIN g)
      /\ \A x \in DOMAIN nodes : x # p => g[x] = nodes[x]
      /\ g[p].parent = r /\ g[p].root = FALSE /\ g[p].leaf = nodes[p].leaf
      /\ g[p].children = nodes[p].children /\ g[p].cells # << >>
      /\ g[r].root = TRUE /\ g[r].leaf = FALSE /\ g[r].children = << >> /\ g[r].cells # << >>
  BY <1>8 DEF Beheaded
<1>10. Numbered(g)
  BY <1>7, <1>9 DEF Numbered
<1>11. \A x \in DOMAIN g : ~g[x].leaf => g[x].cells # << >>
  BY <1>4, <1>9
<1>12. \A x \in DOMAIN nodes : h[x] \in Nat /\ h[x] <= top
  BY <1>4, <1>5
<1>13. j[r] = h[p] + 1 /\ (\A x \in DOMAIN nodes : j[x] = h[x]) /\ DOMAIN j = DOMAIN g
       /\ j = [x \in DOMAIN j |-> j[x]]
  BY <1>7, <1>9
<1> HIDE DEF j
<1>14. j \in [DOMAIN g -> 0 .. top + 1]
  <2>1. ASSUME NEW x \in DOMAIN g
        PROVE  j[x] \in 0 .. top + 1
    <3>1. CASE x = r
      <4>1. h[p] \in Nat /\ h[p] <= top
        BY <1>4, <1>12
      <4>2. h[p] + 1 \in 0 .. top + 1
        BY <1>4, <4>1
      <4> QED BY <1>13, <3>1, <4>2
    <3>2. CASE x # r
      <4>1. x \in DOMAIN nodes
        BY <1>9, <3>2
      <4>2. h[x] \in 0 .. top + 1
        BY <1>4, <1>12, <4>1
      <4> QED BY <1>13, <4>1, <4>2
    <3> QED BY <3>1, <3>2
  <2> QED BY <1>13, <2>1
<1>15. Links(g, r, j)
  <2>1. ASSUME NEW x \in DOMAIN g
        PROVE  /\ g[x].root <=> x = r
               /\ g[x].leaf <=> j[x] = 0
               /\ g[x].leaf => g[x].children = << >>
    <3>1. CASE x = r
      <4>1. h[p] + 1 # 0
        BY <1>4, <1>12
      <4> QED BY <1>9, <1>13, <3>1, <4>1
    <3>2. CASE x = p
      BY <1>4, <1>5, <1>7, <1>9, <1>13, <3>2 DEF Links
    <3>3. CASE x # r /\ x # p
      <4>1. x \in DOMAIN nodes /\ g[x] = nodes[x]
        BY <1>9, <3>3
      <4> QED BY <1>5, <1>13, <3>3, <4>1 DEF Links
    <3> QED BY <3>1, <3>2, <3>3
  <2>2. ASSUME NEW x \in DOMAIN g, NEW i \in 1 .. Len(g[x].children)
        PROVE  g[g[x].children[i]].parent = x /\ j[g[x].children[i]] + 1 = j[x]
    <3> DEFINE c == nodes[x].children[i]
    <3>1. x # r
      BY <1>9
    <3>2. x \in DOMAIN nodes /\ g[x].children = nodes[x].children
      BY <1>9, <3>1
    <3>3. c \in DOMAIN nodes
      BY <1>5, <3>2, NodeTypes
    <3>4. nodes[c].parent = x /\ h[c] + 1 = h[x]
      BY <1>5, <3>2 DEF Links
    <3>5. c # p
      BY <1>5, <3>2, <3>4
    <3> HIDE DEF c
    <3>6. g[c].parent = x /\ j[c] + 1 = j[x]
      BY <1>9, <1>13, <3>2, <3>3, <3>4, <3>5
    <3> QED BY <3>2, <3>6 DEF c
  <2> QED BY <2>1, <2>2 DEF Links
<1>16. Linked(g, r, PGID_INVALID)
  <2>1. top + 1 \in Nat
    BY <1>4
  <2>2. \E t \in Nat : \E k \in [DOMAIN g -> 0 .. t] : Links(g, r, k)
    BY <1>14, <1>15, <2>1
  <2> QED BY <1>10, <1>11, <2>2 DEF Linked
<1>17. Folded'
  BY <1>1, <1>2, <1>9, <1>16 DEF Folded, g
<1> QED BY <1>17, InvFolded, PTL

\* update changes the value of a cell of a whole tree and leaves it whole.
LEMMA UpdateWhole ==
  ASSUME NEW f, NEW root, NEW at, Whole(f, root, at), NEW p \in DOMAIN f, NEW s,
         CellsOnly(f, SetCells(f, p, s), p), SetCells(f, p, s)[p].cells = s,
         s # << >>, Len(s) = Len(f[p].cells),
         \A i \in 1 .. Len(s) : s[i].key = f[p].cells[i].key
  PROVE  Whole(SetCells(f, p, s), root, at)
<1> DEFINE g == SetCells(f, p, s)
<1>1. PICK top \in Nat : OrderedTree(f, root, top)
  BY DEF Whole
<1>2. PICK h, b : /\ Tree(f, root, h, b) /\ b \in [DOMAIN f -> SUBSET Int]
                  /\ \A x \in DOMAIN f : h[x] <= top
  BY <1>1 DEF OrderedTree
<1> HIDE DEF g
<1>3. CellsOnly(f, g, p) /\ g[p].cells = s
  BY DEF g
<1>4. /\ \A i, j \in 1 .. Len(f[p].cells) : i < j => f[p].cells[i].key < f[p].cells[j].key
      /\ \A i \in 1 .. Len(f[p].cells) : f[p].cells[i].key \in b[p]
  BY <1>2 DEF Tree, Ordered
<1>5. /\ \A i, j \in 1 .. Len(s) : i < j => s[i].key < s[j].key
      /\ \A i \in 1 .. Len(s) : s[i].key \in b[p]
      /\ \A i \in 1 .. Len(f[p].cells) : s[i].key = f[p].cells[i].key
  BY <1>4
<1>6. Tree(g, root, h, b)
  BY <1>2, <1>3, <1>5, CellsTree
<1>7. /\ DOMAIN g = DOMAIN f /\ g = [x \in DOMAIN g |-> g[x]]
      /\ \A x \in DOMAIN f : /\ g[x].leaf = f[x].leaf /\ (x # p => g[x].cells = f[x].cells)
                             /\ Len(g[x].cells) = Len(f[x].cells)
  BY <1>3 DEF CellsOnly
<1>8. OrderedTree(g, root, top)
  BY <1>2, <1>6, <1>7 DEF OrderedTree
<1>9. Numbered(g)
  BY <1>7 DEF Whole, Numbered
<1>10. \A x \in DOMAIN g : ~g[x].leaf => g[x].cells # << >>
  BY <1>3, <1>7 DEF Whole
<1>11. Sizes(g, root, at)
  BY <1>7 DEF Whole, Sizes
<1> QED BY <1>1, <1>8, <1>9, <1>10, <1>11 DEF Whole, g

\* The cells of a node with a new value at i.
Revalued(s, i, v) == [s EXCEPT ![i] = [key |-> s[i].key, value |-> v]]

SetValue(s, i, v) == [s EXCEPT ![i].value = v]

\* t has the cells of s, but for the value of the i-th.
ValueIn(t, s, i, v) ==
  /\ t \in Seq(Cell) /\ Len(t) = Len(s) /\ t # << >>
  /\ t[i] = [key |-> s[i].key, value |-> v]
  /\ \A j \in 1 .. Len(s) : /\ j # i => t[j] = s[j]
                            /\ t[j].key = s[j].key

\* They are cells with the keys there were.
LEMMA RevaluedProperties ==
  ASSUME NEW s \in Seq(Cell), NEW i \in 1 .. Len(s), NEW v \in Value
  PROVE  ValueIn(Revalued(s, i, v), s, i, v) /\ SetValue(s, i, v) = Revalued(s, i, v)
<1> DEFINE c == [key |-> s[i].key, value |-> v]
           t == [s EXCEPT ![i] = c]
<1>1. Len(s) \in Nat /\ s[i] \in Cell
  OBVIOUS
<1>2. s[i] = [key |-> s[i].key, value |-> s[i].value] /\ s[i].key \in Key
  BY <1>1 DEF Cell
<1>3. c \in Cell /\ c.key = s[i].key
  BY <1>2 DEF Cell
<1>4. [s[i] EXCEPT !.value = v] = c
  <2> DEFINE e == s[i]
  <2> HIDE DEF e
  <2>1. [e EXCEPT !.value = v] = [key |-> e.key, value |-> v]
    <3>1. e = [key |-> e.key, value |-> e.value]
      BY <1>2 DEF e
    <3> SUFFICES ASSUME NEW k, k = [e EXCEPT !.value = v]
                 PROVE  k = [key |-> e.key, value |-> v]
      OBVIOUS
    <3> QED BY <3>1
  <2> QED BY <2>1 DEF e
<1>5. [s EXCEPT ![i].value = v] = t
  BY <1>4
<1> HIDE DEF c
<1>6. t \in Seq(Cell) /\ Len(t) = Len(s) /\ t[i] = c /\ \A j \in 1 .. Len(s) : j # i => t[j] = s[j]
  BY <1>3
<1> HIDE DEF t
<1>7. t # << >>
  <2>1. Len(<< >>) = 0 /\ Len(s) # 0
    BY <1>1
  <2> QED BY <1>6, <2>1
<1>8. \A j \in 1 .. Len(s) : t[j].key = s[j].key
  BY <1>3, <1>6
<1>9. Revalued(s, i, v) = t /\ t[i] = [key |-> s[i].key, value |-> v]
  BY <1>6 DEF t, c, Revalued
<1> QED BY <1>5, <1>6, <1>7, <1>8, <1>9 DEF ValueIn, SetValue

\* The cell that update finds.
UpdateAt(k, v, p, i) ==
  /\ p \in DOMAIN nodes /\ i \in 1 .. Len(nodes[p].cells) /\ nodes[p].cells[i].key = k
  /\ nodes' = SetCells(nodes, p, Revalued(nodes[p].cells, i, v))
  /\ CellsOnly(nodes, nodes', p)
  /\ nodes'[p].cells = Revalued(nodes[p].cells, i, v)

\* An update that finds its key changes the value of the cell it found and nothing else.
LEMMA UpdateFound ==
  ASSUME Inv, NEW k \in Key, NEW v \in Value, Update(k, v),
         searchRowPtr(k).cellID # CELLID_INVALID
  PROVE  UpdateAt(k, v, searchRowPtr(k).pageID, searchRowPtr(k).cellID)
<1> DEFINE row == searchRowPtr(k)
           p == row.pageID
           i == row.cellID
           s == nodes[p].cells
<1>1. /\ Folded /\ TypeOK /\ k \in Int
      /\ \A x \in DOMAIN nodes : nodes[x] \in NodeOver(DOMAIN nodes)
      /\ nodes = [x \in DOMAIN nodes |-> nodes[x]]
      /\ m_rootPageID \in DOMAIN nodes
  BY InvFolded DEF Inv, Folded, Linked, Numbered
<1>2. PICK top, h : Ranked(top, h)
  BY <1>1, LinkedRanked DEF Folded
<1>3. row = Walk(k)[m_rootPageID] /\ Sound(k, m_rootPageID)
  BY <1>1, <1>2, WalkEquation, WalkSound
<1>4. row.ok /\ row.cellID # 0 /\ nodes' = [nodes EXCEPT ![row.pageID].cells[row.cellID].value = v]
  BY DEF Update, CELLID_INVALID
<1> HIDE DEF row
<1>5. p \in DOMAIN nodes /\ i \in 0 .. Len(s) /\ i # 0 /\ s[i].key = k
  BY <1>3, <1>4 DEF Sound
<1>6. s \in Seq(Cell) /\ Len(s) \in Nat
  BY <1>1, <1>5, NodeTypes
<1>7. i \in 1 .. Len(s)
  BY <1>5, <1>6
<1>8. nodes' = SetCells(nodes, p, SetValue(s, i, v))
  BY <1>4 DEF SetCells, SetValue
<1> HIDE DEF s, p, i
<1>9. Revalued(s, i, v) \in Seq(Cell) /\ SetValue(s, i, v) = Revalued(s, i, v)
  <2>1. ValueIn(Revalued(s, i, v), s, i, v) /\ SetValue(s, i, v) = Revalued(s, i, v)
    BY <1>6, <1>7, RevaluedProperties
  <2> QED BY <2>1 DEF ValueIn
<1>10. nodes' = SetCells(nodes, p, Revalued(s, i, v))
  BY <1>8, <1>9
<1>11. CellsOnly(nodes, nodes', p) /\ nodes'[p].cells = Revalued(s, i, v)
  BY <1>1, <1>5, <1>9, <1>10, CellsAssigned
<1>12. UpdateAt(k, v, p, i)
  BY <1>5, <1>7, <1>10, <1>11 DEF UpdateAt, s
<1> QED BY <1>12 DEF p, i, row

\* update keeps the invariant, after a refused split too.
LEMMA UpdateInv ==
  ASSUME Inv, NEW k \in Key, NEW v \in Value, Update(k, v)
  PROVE  Inv'
<1>1. Folded
  BY InvFolded
<1>2. /\ splitting = PGID_INVALID /\ UNCHANGED <<m_rootPageID, splitting, refused>>
      /\ result' \in {"true", "false", "full", "abort"}
  BY DEF Update, Running
<1>3. CASE searchRowPtr(k).cellID = CELLID_INVALID
  <2>1. nodes' = nodes
    BY <1>3 DEF Update
  <2> QED BY <1>2, <2>1, SameNodesInv
<1>4. CASE searchRowPtr(k).cellID # CELLID_INVALID
  <2> DEFINE p == searchRowPtr(k).pageID
             i == searchRowPtr(k).cellID
             s == nodes[p].cells
             t == Revalued(s, i, v)
             g == nodes'
  <2>1. UpdateAt(k, v, p, i)
    BY <1>4, UpdateFound
  <2> HIDE DEF p, i, g
  <2>2. /\ p \in DOMAIN nodes /\ i \in 1 .. Len(s)
        /\ g = SetCells(nodes, p, t) /\ CellsOnly(nodes, g, p) /\ g[p].cells = t
    BY <2>1 DEF UpdateAt, g
  <2>3. \A x \in DOMAIN nodes : nodes[x] \in NodeOver(DOMAIN nodes)
    BY <1>1 DEF Folded
  <2>4. s \in Seq(Cell)
    BY <2>2, <2>3, NodeTypes
  <2> HIDE DEF s
  <2>5. t # << >> /\ Len(t) = Len(s) /\ \A j \in 1 .. Len(s) : t[j].key = s[j].key
    <3>1. ValueIn(Revalued(s, i, v), s, i, v)
      BY <2>2, <2>4, RevaluedProperties
    <3> HIDE DEF t
    <3> QED BY <3>1 DEF ValueIn, t
  <2> HIDE DEF t
  <2>6. Linked(g, m_rootPageID, PGID_INVALID)
    <3>1. g[p].cells # << >> /\ Linked(nodes, m_rootPageID, PGID_INVALID)
      BY <1>1, <1>2, <2>2, <2>5 DEF Folded
    <3> HIDE DEF Linked
    <3> QED BY <2>2, <2>3, <3>1, CellsLinked
  <2>7. ASSUME ~refused
        PROVE  Whole(g, m_rootPageID, PGID_INVALID)
    <3>1. Whole(nodes, m_rootPageID, PGID_INVALID)
      BY <1>1, <1>2, <2>7 DEF Folded
    <3>2. /\ CellsOnly(nodes, SetCells(nodes, p, t), p) /\ SetCells(nodes, p, t)[p].cells = t
          /\ t # << >> /\ Len(t) = Len(nodes[p].cells)
          /\ \A j \in 1 .. Len(t) : t[j].key = nodes[p].cells[j].key
      BY <2>2, <2>5 DEF s
    <3>3. Whole(SetCells(nodes, p, t), m_rootPageID, PGID_INVALID)
      BY <2>2, <3>1, <3>2, UpdateWhole
    <3> QED BY <2>2, <3>3
  <2>8. DOMAIN g = DOMAIN nodes /\ \A x \in DOMAIN g : g[x] \in NodeOver(DOMAIN g)
    BY <2>2 DEF CellsOnly
  <2>9. Folded'
    BY <1>1, <1>2, <2>6, <2>7, <2>8 DEF Folded, g
  <2> QED BY <2>9, InvFolded, PTL
<1> QED BY <1>3, <1>4

\* Every step keeps the invariant.
LEMMA StepInv ==
  ASSUME DegreeFits, Inv, [Next]_vars
  PROVE  Inv'
<1>1. CASE UNCHANGED vars
  <2>1. /\ UNCHANGED <<nodes, m_rootPageID, splitting, result, refused>>
        /\ result \in {"true", "false", "full", "abort"}
    BY <1>1, InvFolded DEF vars, Folded
  <2> QED BY <2>1, SameNodesInv
<1>2. ASSUME NEW k \in Key, NEW v \in Value, Insert(k, v)
      PROVE  Inv'
  <2>1. CASE InsertCell(k, v)
    BY <1>2, <2>1, InsertCellInv DEF Insert
  <2>2. CASE InsertDuplicate(k)
    BY <2>2, SameNodesInv DEF InsertDuplicate
  <2> QED BY <1>2, <2>1, <2>2 DEF Insert
<1>3. ASSUME NEW k \in Key, NEW v \in Value, Update(k, v)
      PROVE  Inv'
  BY <1>3, UpdateInv
<1>4. ASSUME NEW k \in Key, Abort(k)
      PROVE  Inv'
  BY <1>4, SameNodesInv DEF Abort
<1>5. CASE Aborted
  <2>1. UNCHANGED vars
    BY <1>5 DEF Aborted
  <2> QED BY <1>1, <2>1
<1>6. CASE Split
  BY <1>6, SplitNothingInv, SplitChildInv, SplitRootInv, RefuseChildInv, RefuseRootInv,
     RefuseSiblingInv DEF Split
<1> QED BY <1>1, <1>2, <1>3, <1>4, <1>5, <1>6 DEF Next

-----------------------------------------------------------------------------
(* Theorems *)

\* The invariant holds of every tree that insert and update make, with all degrees
\* from 2 on, and whichever createNewPage is the first that is refused.
THEOREM Invariance ==
  ASSUME DegreeFits
  PROVE  Spec => []Inv
<1>1. Init => Inv
  BY InitInv
<1>2. Inv /\ [Next]_vars => Inv'
  BY StepInv
<1> QED BY <1>1, <1>2, PTL DEF Spec

\* Each variable has its type: splits make pages that follow those there are, and
\* name pages that exist as children and parents.
THEOREM TypeCorrect ==
  ASSUME DegreeFits
  PROVE  Spec => []TypeOK
<1>1. Inv => TypeOK
  BY DEF Inv
<1> QED BY <1>1, Invariance, PTL

\* No assertion of searchRowPtr or toBytes fails, with or without a split running,
\* as long as no page was refused.
THEOREM WellFormedAlways ==
  ASSUME DegreeFits
  PROVE  Spec => []WellFormedUnlessRefused
<1>1. Inv => WellFormedUnlessRefused
  <2> SUFFICES ASSUME Inv, ~refused, NEW p \in DOMAIN nodes
               PROVE  AssertsHold(nodes[p])
    BY DEF WellFormedUnlessRefused, NodesWellFormed
  <2>1. PICK top \in Nat : OrderedTree(nodes, m_rootPageID, top)
    BY DEF Inv, Whole
  <2>2. PICK h, b : Tree(nodes, m_rootPageID, h, b)
    BY <2>1 DEF OrderedTree
  <2>3. /\ nodes[p].leaf => nodes[p].children = << >>
        /\ ~nodes[p].leaf => Len(nodes[p].children) = Len(nodes[p].cells) + 1
        /\ ~nodes[p].leaf => nodes[p].cells # << >>
    BY <2>2 DEF Tree, Ordered, Links, Inv, Whole
  <2> QED BY <2>3 DEF AssertsHold
<1> QED BY <1>1, Invariance, PTL

\* Btree.hpp:33: every node but the root has t - 1 cells at least, and only the node
\* that split is about to look at has 2t - 1.
THEOREM OccupancyAlways ==
  ASSUME DegreeFits
  PROVE  Spec => []Occupancy
<1>1. Inv => Occupancy
  BY DEF Inv, Whole, Sizes, Occupancy
<1> QED BY <1>1, Invariance, PTL

\* The tree of the invariant.
LEMMA InvTree ==
  ASSUME Inv, ~refused
  PROVE  \E top, h, b :
           /\ top \in Nat /\ Tree(nodes, m_rootPageID, h, b) /\ b \in [DOMAIN nodes -> SUBSET Int]
           /\ \A x \in DOMAIN nodes : h[x] <= top
           /\ Ranked(top, h)
<1>1. Whole(nodes, m_rootPageID, splitting)
  BY DEF Inv
<1>2. PICK top \in Nat : OrderedTree(nodes, m_rootPageID, top)
  BY <1>1 DEF Whole
<1>3. PICK h, b : /\ Tree(nodes, m_rootPageID, h, b) /\ b \in [DOMAIN nodes -> SUBSET Int]
                  /\ \A x \in DOMAIN nodes : h[x] <= top
  BY <1>2 DEF OrderedTree
<1>4. h \in [DOMAIN nodes -> Nat] /\ Links(nodes, m_rootPageID, h)
  BY <1>3 DEF Tree
<1>5. h \in [DOMAIN nodes -> 0 .. top]
  <2>1. \A x \in DOMAIN nodes : h[x] \in 0 .. top
    BY <1>2, <1>3, <1>4
  <2> QED BY <1>4, <2>1
<1>6. Ranked(top, h)
  BY <1>1, <1>2, <1>4, <1>5 DEF Ranked, Whole
<1> QED BY <1>2, <1>3, <1>6

\* The parents that split climbs to are the nodes that have the page among their
\* children, once, and only the root page is marked root.
THEOREM ParentsAlwaysMatch ==
  ASSUME DegreeFits
  PROVE  Spec => []ParentsMatchChildren
<1>1. Inv => ParentsMatchChildren
  <2> SUFFICES ASSUME Inv, ~refused, NEW p \in DOMAIN nodes
               PROVE  /\ nodes[p].root <=> p = m_rootPageID
                      /\ p # m_rootPageID => nodes[p].parent \in DOMAIN nodes
                      /\ \A q \in DOMAIN nodes :
                           Cardinality({i \in 1 .. Len(nodes[q].children) : nodes[q].children[i] = p})
                             = IF p # m_rootPageID /\ q = nodes[p].parent THEN 1 ELSE 0
    BY DEF ParentsMatchChildren
  <2>1. PICK top, h, b : Tree(nodes, m_rootPageID, h, b)
    BY InvTree
  <2>2. nodes[p].root <=> p = m_rootPageID
    BY <2>1 DEF Tree, Links
  <2>3. p # m_rootPageID => Listed(nodes, p)
    BY <2>1 DEF Tree, Ordered
  <2>4. nodes[m_rootPageID].parent \notin DOMAIN nodes
    BY <2>1 DEF Tree, Ordered
  <2>5. ASSUME NEW q \in DOMAIN nodes
        PROVE  Cardinality({i \in 1 .. Len(nodes[q].children) : nodes[q].children[i] = p})
                 = IF p # m_rootPageID /\ q = nodes[p].parent THEN 1 ELSE 0
    <3> DEFINE I == {i \in 1 .. Len(nodes[q].children) : nodes[q].children[i] = p}
    <3>1. \A i \in I : nodes[p].parent = q
      BY <2>1 DEF Tree, Links
    <3>2. CASE p # m_rootPageID /\ q = nodes[p].parent
      <4>1. PICK i \in 1 .. Len(nodes[q].children) : nodes[q].children[i] = p
        BY <2>3, <3>2 DEF Listed
      <4>2. ASSUME NEW j \in I, j # i
            PROVE  FALSE
        <5>1. j \in 1 .. Len(nodes[q].children) /\ nodes[q].children[j] = p
          OBVIOUS
        <5>2. CASE i < j
          BY <2>1, <4>1, <5>1, <5>2, ChildrenDiffer
        <5>3. CASE j < i
          BY <2>1, <4>1, <5>1, <5>3, ChildrenDiffer
        <5>4. i < j \/ j < i
          BY <4>1, <4>2, <5>1
        <5> QED BY <5>2, <5>3, <5>4
      <4>3. I = {i}
        BY <4>1, <4>2
      <4> HIDE DEF I
      <4>4. Cardinality(I) = 1
        BY <4>3, FS_Singleton
      <4> QED BY <3>2, <4>4 DEF I
    <3>3. CASE ~(p # m_rootPageID /\ q = nodes[p].parent)
      <4>1. I = {}
        BY <2>4, <3>1, <3>3
      <4> HIDE DEF I
      <4>2. Cardinality(I) = 0
        BY <4>1, FS_EmptySet
      <4> QED BY <3>3, <4>2 DEF I
    <3> QED BY <3>2, <3>3
  <2>6. p # m_rootPageID => nodes[p].parent \in DOMAIN nodes
    BY <2>3 DEF Listed
  <2> QED BY <2>2, <2>5, <2>6
<1> QED BY <1>1, Invariance, PTL

\* A search that would find a cell from a node finds it from the parent, if the key
\* is one of those that lead to the node.
LEMMA FoundFromParent ==
  ASSUME TypeOK, NEW top, NEW h, NEW b, Ranked(top, h), Tree(nodes, m_rootPageID, h, b),
         NEW k \in Int, NEW p \in DOMAIN nodes, p # m_rootPageID, k \in b[p]
  PROVE  \E q \in DOMAIN nodes : k \in b[q] /\ Walk(k)[q] = Walk(k)[p] /\ h[p] + 1 = h[q]
<1> DEFINE q == nodes[p].parent
           cells == nodes[q].cells
<1>1. Listed(nodes, p)
  BY DEF Tree, Ordered
<1>2. q \in DOMAIN nodes
  BY <1>1 DEF Listed
<1>3. PICK i \in 1 .. Len(nodes[q].children) : nodes[q].children[i] = p
  BY <1>1 DEF Listed
<1> HIDE DEF q
<1>4. /\ Len(cells) \in Nat /\ Len(nodes[q].children) \in Nat /\ cells \in Seq(Cell)
      /\ h[p] + 1 = h[q]
      /\ b[p] = {x \in b[q] : Between(cells, i, x)}
      /\ \A x, y \in 1 .. Len(cells) : x < y => cells[x].key < cells[y].key
  <2>1. nodes[q] \in NodeOver(DOMAIN nodes)
    BY <1>2 DEF Tree
  <2>2. Len(cells) \in Nat /\ Len(nodes[q].children) \in Nat /\ cells \in Seq(Cell)
    BY <2>1, NodeTypes
  <2>3. h[p] + 1 = h[q]
    BY <1>2, <1>3 DEF Tree, Links
  <2>4. /\ b[p] = {x \in b[q] : Between(cells, i, x)}
        /\ \A x, y \in 1 .. Len(cells) : x < y => cells[x].key < cells[y].key
    BY <1>2, <1>3 DEF Tree, Ordered
  <2> QED BY <2>2, <2>3, <2>4
<1>5. nodes[q].children # << >>
  <2>1. Len(<< >>) = 0
    OBVIOUS
  <2> QED BY <1>3, <1>4, <2>1
<1>6. ~nodes[q].leaf
  BY <1>2, <1>5 DEF Tree, Links
<1>7. Len(nodes[q].children) = Len(cells) + 1 /\ cells # << >>
  BY <1>2, <1>6 DEF Tree, Ordered, Ranked
<1>8. AssertsHold(nodes[q])
  BY <1>6, <1>7 DEF AssertsHold
<1>9. k \in b[q] /\ Between(cells, i, k)
  BY <1>4
<1>10. i \in 1 .. Len(cells) + 1
  BY <1>3, <1>7
<1> HIDE DEF cells
<1>11. Place(cells, k) = i
  BY <1>4, <1>9, <1>10, PlaceIs
<1>12. ~(i <= Len(cells) /\ cells[i].key = k)
  <2> SUFFICES ASSUME i <= Len(cells), cells[i].key = k
               PROVE  FALSE
    OBVIOUS
  <2>1. k < cells[i].key
    BY <1>9 DEF Between
  <2> QED BY <1>1, <2>1
<1>13. Walk(k)[q] = Walk(k)[nodes[q].children[i]]
  <2>1. Stepped(h, k, q)
    BY <1>2, WalkAt
  <2> QED BY <1>6, <1>8, <1>11, <1>12, <2>1 DEF Stepped, cells
<1> QED BY <1>2, <1>3, <1>4, <1>9, <1>13

\* From the root every cell is found.
LEMMA CellFound ==
  ASSUME TypeOK, NEW top, NEW h, NEW b, Ranked(top, h), Tree(nodes, m_rootPageID, h, b),
         NEW p \in DOMAIN nodes, NEW i \in 1 .. Len(nodes[p].cells)
  PROVE  searchRowPtr(nodes[p].cells[i].key) = [ok |-> TRUE, pageID |-> p, cellID |-> i]
<1> DEFINE cells == nodes[p].cells
           k == cells[i].key
           r == [ok |-> TRUE, pageID |-> p, cellID |-> i]
           W == {x \in DOMAIN nodes : Walk(k)[x] = r /\ k \in b[x]}
           U == {top - h[x] : x \in W}
<1>1. /\ cells \in Seq(Cell) /\ Len(cells) \in Nat /\ k \in Int
      /\ k \in b[p]
      /\ \A x, y \in 1 .. Len(cells) : x < y => cells[x].key < cells[y].key
  <2>1. nodes[p] \in NodeOver(DOMAIN nodes)
    BY DEF Tree
  <2> QED BY <2>1, NodeTypes DEF Tree, Ordered
<1> HIDE DEF k
<1>2. Place(cells, k) = i
  <2>1. i \in 1 .. Len(cells) + 1 /\ i <= Len(cells) /\ cells[i].key = k
    BY <1>1 DEF k
  <2> HIDE DEF cells
  <2> QED BY <1>1, <2>1, PlaceIs
<1>3. AssertsHold(nodes[p])
  <2>1. /\ nodes[p].leaf => nodes[p].children = << >>
        /\ ~nodes[p].leaf => Len(nodes[p].children) = Len(nodes[p].cells) + 1
        /\ ~nodes[p].leaf => nodes[p].cells # << >>
    BY DEF Tree, Ordered, Links, Ranked
  <2> QED BY <2>1 DEF AssertsHold
<1>4. Walk(k)[p] = r
  <2> DEFINE j == Place(nodes[p].cells, k)
  <2>1. j <= Len(nodes[p].cells) /\ nodes[p].cells[j].key = k /\ j = i
    BY <1>1, <1>2 DEF k
  <2>2. Walk(k)[p] = [ok |-> TRUE, pageID |-> p, cellID |-> j]
    <3> HIDE DEF cells, r
    <3>1. Stepped(h, k, p)
      BY <1>1, WalkAt
    <3> QED BY <1>3, <2>1, <3>1 DEF Stepped
  <2> QED BY <2>1, <2>2
<1>5. top \in Nat /\ \A x \in DOMAIN nodes : h[x] \in 0 .. top
  BY DEF Ranked
<1> HIDE DEF r
<1>6. U \in SUBSET (0 .. top) /\ U # {}
  BY <1>1, <1>4, <1>5
<1>7. PICK m \in U : \A j \in U : m <= j
  <2> HIDE DEF U
  <2> QED BY <1>5, <1>6, Minimum
<1>8. PICK z \in W : top - h[z] = m
  BY <1>7
<1>9. z = m_rootPageID
  <2> SUFFICES ASSUME z # m_rootPageID
               PROVE  FALSE
    OBVIOUS
  <2>1. z \in DOMAIN nodes /\ Walk(k)[z] = r /\ k \in b[z]
    BY <1>8
  <2>2. PICK q \in DOMAIN nodes : k \in b[q] /\ Walk(k)[q] = Walk(k)[z] /\ h[z] + 1 = h[q]
    BY <1>1, <2>1, FoundFromParent
  <2>3. q \in W
    BY <2>1, <2>2
  <2>4. top - h[q] \in U
    BY <2>3
  <2>5. m <= top - h[q]
    BY <1>7, <2>4
  <2>6. h[z] \in Int /\ h[q] \in Int /\ top \in Int
    BY <1>5, <2>1
  <2> HIDE DEF U, W
  <2> QED BY <1>8, <2>2, <2>5, <2>6
<1>10. searchRowPtr(k) = r
  <2>1. Walk(k)[m_rootPageID] = r
    BY <1>8, <1>9
  <2>2. searchRowPtr(k) = Walk(k)[m_rootPageID]
    BY <1>1, WalkEquation
  <2> QED BY <2>1, <2>2
<1> QED BY <1>10 DEF k, r

\* searchRowPtr finds every cell, where it is, also between two levels of a split.
THEOREM EveryCellAlwaysFound ==
  ASSUME DegreeFits
  PROVE  Spec => []EveryCellFound
<1>1. Inv => EveryCellFound
  <2> SUFFICES ASSUME Inv, ~refused, NEW p \in DOMAIN nodes, NEW i \in 1 .. Len(nodes[p].cells)
               PROVE  searchRowPtr(nodes[p].cells[i].key) = [ok |-> TRUE, pageID |-> p, cellID |-> i]
    BY DEF EveryCellFound
  <2>1. PICK top, h, b : Ranked(top, h) /\ Tree(nodes, m_rootPageID, h, b)
    BY InvTree
  <2>2. TypeOK
    BY DEF Inv
  <2> QED BY <2>1, <2>2, CellFound
<1> QED BY <1>1, Invariance, PTL

\* The depth of a node is what it lacks of the height of the root.
LEMMA DepthIs ==
  ASSUME NEW top, NEW h, NEW b, Ranked(top, h), Tree(nodes, m_rootPageID, h, b)
  PROVE  \A p \in DOMAIN nodes : Depth[p] = h[m_rootPageID] - h[p]
<1> DEFINE E(d, p) == IF nodes[p].root THEN 0 ELSE 1 + d[nodes[p].parent]
           w == [p \in DOMAIN nodes |-> h[m_rootPageID] - h[p]]
<1>1. /\ top \in Nat /\ m_rootPageID \in DOMAIN nodes
      /\ \A x \in DOMAIN nodes : h[x] \in 0 .. top /\ h[x] \in Int
  BY DEF Ranked, Tree, Ordered
<1>2. \A x \in DOMAIN nodes : nodes[x].root <=> x = m_rootPageID
  BY DEF Tree, Links
<1>3. ASSUME NEW x \in DOMAIN nodes, ~nodes[x].root
      PROVE  nodes[x].parent \in DOMAIN nodes /\ h[x] + 1 = h[nodes[x].parent]
  <2>1. Listed(nodes, x)
    BY <1>2, <1>3 DEF Tree, Ordered
  <2> QED BY <2>1 DEF Listed, Tree, Links
<1>4. ASSUME NEW x \in DOMAIN nodes
      PROVE  w[x] = E(w, x)
  <2>1. w[x] = h[m_rootPageID] - h[x]
    OBVIOUS
  <2>2. CASE nodes[x].root
    BY <1>1, <1>2, <2>1, <2>2
  <2>3. CASE ~nodes[x].root
    <3> DEFINE q == nodes[x].parent
    <3>1. q \in DOMAIN nodes /\ h[x] + 1 = h[q]
      BY <1>3, <2>3
    <3>2. w[q] = h[m_rootPageID] - h[q]
      BY <3>1
    <3> HIDE DEF w, q
    <3>3. w[x] = 1 + w[q]
      BY <1>1, <2>1, <3>1, <3>2
    <3> QED BY <2>3, <3>3 DEF q
  <2> QED BY <2>2, <2>3
<1>5. w = [p \in DOMAIN nodes |-> E(w, p)]
  BY <1>4
<1> HIDE DEF w
<1>6. Depth = CHOOSE d : d = [p \in DOMAIN nodes |-> E(d, p)]
  BY DEF Depth
<1>7. Depth = [p \in DOMAIN nodes |-> E(Depth, p)]
  BY <1>5, <1>6
<1>8. \A x \in DOMAIN nodes : Depth[x] = E(Depth, x)
  BY <1>7
<1> SUFFICES ASSUME NEW z \in DOMAIN nodes, Depth[z] # h[m_rootPageID] - h[z]
             PROVE  FALSE
  OBVIOUS
<1> DEFINE bad == {x \in DOMAIN nodes : Depth[x] # h[m_rootPageID] - h[x]}
           U == {top - h[x] : x \in bad}
<1>9. U \in SUBSET (0 .. top) /\ U # {}
  BY <1>1
<1>10. PICK m \in U : \A j \in U : m <= j
  <2> HIDE DEF U
  <2> QED BY <1>1, <1>9, Minimum
<1>11. PICK p \in bad : top - h[p] = m
  BY <1>10
<1>12. p \in DOMAIN nodes /\ Depth[p] # h[m_rootPageID] - h[p]
  BY <1>11
<1>13. CASE nodes[p].root
  <2>1. Depth[p] = 0 /\ p = m_rootPageID
    BY <1>2, <1>8, <1>12, <1>13
  <2> QED BY <1>1, <1>12, <2>1
<1>14. CASE ~nodes[p].root
  <2> DEFINE q == nodes[p].parent
  <2>1. q \in DOMAIN nodes /\ h[p] + 1 = h[q] /\ Depth[p] = 1 + Depth[q]
    BY <1>3, <1>8, <1>12, <1>14
  <2> HIDE DEF q
  <2>2. Depth[q] # h[m_rootPageID] - h[q]
    BY <1>1, <1>12, <2>1
  <2>3. top - h[q] \in U
    BY <2>1, <2>2
  <2>4. m <= top - h[q]
    BY <1>10, <2>3
  <2> HIDE DEF U, bad
  <2>5. h[p] \in Int /\ h[q] \in Int /\ top \in Int
    BY <1>1, <1>12, <2>1
  <2> QED BY <1>11, <2>1, <2>4, <2>5
<1> QED BY <1>13, <1>14

\* All leaves are at the same depth, also between two levels of a split.
THEOREM AlwaysBalanced ==
  ASSUME DegreeFits
  PROVE  Spec => []Balanced
<1>1. Inv => Balanced
  <2> SUFFICES ASSUME Inv, ~refused, NEW p \in DOMAIN nodes, NEW q \in DOMAIN nodes,
                      nodes[p].leaf, nodes[q].leaf
               PROVE  Depth[p] = Depth[q]
    BY DEF Balanced
  <2>1. PICK top, h, b : Ranked(top, h) /\ Tree(nodes, m_rootPageID, h, b)
    BY InvTree
  <2>2. h[p] = 0 /\ h[q] = 0
    BY <2>1 DEF Tree, Links
  <2> QED BY <2>1, <2>2, DepthIs
<1> QED BY <1>1, Invariance, PTL

-----------------------------------------------------------------------------
(* The dictionary *)

\* Cell c is in a node of f.
HasCell(f, c) == \E p \in DOMAIN f : \E i \in 1 .. Len(f[p].cells) : f[p].cells[i] = c

AllCells(f) == {c \in Cell : HasCell(f, c)}

\* The rows of a set of cells, by their keys.
Unique(C) == \A c, d \in C : c.key = d.key => c = d
RowsOf(C) == [k \in {c.key : c \in C} |-> (CHOOSE c \in C : c.key = k).value]

\* The cells of the tree.
LEMMA CellsAre ==
  ASSUME \A p \in DOMAIN nodes : nodes[p] \in NodeOver(DOMAIN nodes)
  PROVE  Cells = AllCells(nodes)
<1>1. ASSUME NEW p \in DOMAIN nodes
      PROVE  /\ Range(nodes[p].cells) = {nodes[p].cells[i] : i \in 1 .. Len(nodes[p].cells)}
             /\ \A i \in 1 .. Len(nodes[p].cells) : nodes[p].cells[i] \in Cell
  <2>1. nodes[p].cells \in Seq(Cell)
    BY NodeTypes
  <2>2. DOMAIN nodes[p].cells = 1 .. Len(nodes[p].cells)
    BY <2>1
  <2>3. \A i \in 1 .. Len(nodes[p].cells) : nodes[p].cells[i] \in Cell
    BY <2>1
  <2> QED BY <2>2, <2>3 DEF Range
<1>2. ASSUME NEW c
      PROVE  c \in Cells <=> c \in AllCells(nodes)
  <2>1. c \in Cells <=> \E p \in DOMAIN nodes : c \in Range(nodes[p].cells)
    BY DEF Cells
  <2>2. ASSUME NEW p \in DOMAIN nodes
        PROVE  c \in Range(nodes[p].cells) <=>
                 \E i \in 1 .. Len(nodes[p].cells) : nodes[p].cells[i] = c
    BY <1>1
  <2>3. c \in Cells <=> HasCell(nodes, c)
    BY <2>1, <2>2 DEF HasCell
  <2>4. HasCell(nodes, c) => c \in Cell
    BY <1>1 DEF HasCell
  <2> QED BY <2>3, <2>4 DEF AllCells
<1> QED BY <1>2

\* A row is what is stored with its key.
LEMMA RowOf ==
  ASSUME NEW C, Unique(C), NEW c \in C
  PROVE  c.key \in DOMAIN RowsOf(C) /\ RowsOf(C)[c.key] = c.value
<1>1. c.key \in {d.key : d \in C}
  OBVIOUS
<1>2. (CHOOSE d \in C : d.key = c.key) = c
  BY DEF Unique
<1>3. RowsOf(C)[c.key] = (CHOOSE d \in C : d.key = c.key).value
  BY <1>1 DEF RowsOf
<1> QED BY <1>1, <1>2, <1>3 DEF RowsOf

RowWith(R, k, v) == [x \in DOMAIN R \cup {k} |-> IF x = k THEN v ELSE R[x]]

\* A new row.
LEMMA RowAdded ==
  ASSUME NEW C, NEW E, NEW c, Unique(C), Unique(E), E = C \cup {c}
  PROVE  RowsOf(E) = RowWith(RowsOf(C), c.key, c.value)
<1> DEFINE k == c.key
           D == DOMAIN RowsOf(C)
           R == [x \in D \cup {k} |-> IF x = k THEN c.value ELSE RowsOf(C)[x]]
<1>1. DOMAIN RowsOf(E) = D \cup {k}
  BY DEF RowsOf
<1>2. ASSUME NEW x \in D \cup {k}
      PROVE  RowsOf(E)[x] = R[x]
  <2>1. CASE x = k
    <3>1. RowsOf(E)[k] = c.value
      BY RowOf
    <3> QED BY <2>1, <3>1
  <2>2. CASE x # k
    <3>1. PICK d \in C : d.key = x
      BY <2>2 DEF RowsOf
    <3>2. RowsOf(C)[x] = d.value
      BY <3>1, RowOf
    <3>3. d \in E
      BY <3>1
    <3>4. RowsOf(E)[x] = d.value
      BY <3>1, <3>3, RowOf
    <3> QED BY <2>2, <3>2, <3>4
  <2> QED BY <2>1, <2>2
<1>3. RowsOf(E) = [x \in DOMAIN RowsOf(E) |-> RowsOf(E)[x]]
  BY DEF RowsOf
<1> QED BY <1>1, <1>2, <1>3 DEF RowWith

\* A row with a new value.
LEMMA RowChanged ==
  ASSUME NEW C, NEW E, NEW c, Unique(C), Unique(E),
         c.key \in DOMAIN RowsOf(C), E = {d \in C : d.key # c.key} \cup {c}
  PROVE  RowsOf(E) = [RowsOf(C) EXCEPT ![c.key] = c.value]
<1> DEFINE k == c.key
           D == DOMAIN RowsOf(C)
           R == [RowsOf(C) EXCEPT ![k] = c.value]
<1>1. D = {d.key : d \in C} /\ DOMAIN RowsOf(E) = {d.key : d \in E} /\ k \in D
  BY DEF RowsOf
<1>2. DOMAIN RowsOf(E) = D
  <2>1. ASSUME NEW x
        PROVE  x \in {d.key : d \in E} <=> x \in {d.key : d \in C}
    <3>1. CASE x = k
      BY <1>1, <3>1
    <3>2. CASE x # k
      BY <3>2
    <3> QED BY <3>1, <3>2
  <2> QED BY <1>1, <2>1
<1>3. R = [x \in D |-> IF x = k THEN c.value ELSE RowsOf(C)[x]]
  BY <1>1
<1>4. ASSUME NEW x \in D
      PROVE  RowsOf(E)[x] = IF x = k THEN c.value ELSE RowsOf(C)[x]
  <2>1. CASE x = k
    <3>1. RowsOf(E)[k] = c.value
      BY RowOf
    <3> QED BY <2>1, <3>1
  <2>2. CASE x # k
    <3>1. PICK d \in C : d.key = x
      BY <1>1
    <3>2. RowsOf(C)[x] = d.value
      BY <3>1, RowOf
    <3>3. d \in E
      BY <2>2, <3>1
    <3>4. RowsOf(E)[x] = d.value
      BY <3>1, <3>3, RowOf
    <3> QED BY <2>2, <3>2, <3>4
  <2> QED BY <2>1, <2>2
<1>5. RowsOf(E) = [x \in D |-> RowsOf(E)[x]]
  BY <1>2 DEF RowsOf
<1> HIDE DEF D, R
<1>6. RowsOf(E) = R
  BY <1>3, <1>4, <1>5
<1> QED BY <1>6 DEF R

\* Division of a node loses no cell and makes none.
LEMMA DividedCells ==
  ASSUME NEW f, NEW root, NEW h, NEW b, Tree(f, root, h, b),
         NEW g, NEW p, NEW q, NEW idx, NEW m, NEW new,
         Divisible(f, root, p, q, idx, m, new), Divided(f, g, p, q, idx, m, new), NEW c
  PROVE  HasCell(f, c) <=> HasCell(g, c)
<1> DEFINE n == f[p]
           len == Len(n.cells)
           rest == len - m - 1
           o == f[q]
           size == Len(o.cells)
<1>1. q \in DOMAIN f /\ p \in DOMAIN f /\ p # q /\ Len(o.children) = size + 1
  BY DivideFamily
<1>2. /\ DOMAIN g = DOMAIN f \cup {new} /\ new \notin DOMAIN f
      /\ \A x \in DOMAIN f : x # p /\ x # q => g[x].cells = f[x].cells
      /\ Len(g[p].cells) = m
      /\ \A i \in 1 .. m : g[p].cells[i] = n.cells[i]
      /\ Len(g[new].cells) = rest
      /\ \A i \in 1 .. rest : g[new].cells[i] = n.cells[m + 1 + i]
      /\ Len(g[q].cells) = size + 1
      /\ \A i \in 1 .. size + 1 :
           g[q].cells[i] = IF i < idx THEN o.cells[i]
                           ELSE IF i = idx THEN n.cells[m + 1] ELSE o.cells[i - 1]
      /\ idx \in 1 .. Len(o.children) /\ m \in 1 .. len - 2
  BY DEF Divided, Divisible
<1>3. len \in Nat /\ size \in Nat
  BY <1>1, TreeTypes
<1> HIDE DEF n, len, rest, o, size
<1>4. rest = len - m - 1 /\ m \in Int /\ idx \in 1 .. size + 1
  BY <1>1, <1>2 DEF rest
<1>5. ASSUME HasCell(f, c)
      PROVE  HasCell(g, c)
  <2>1. PICK x \in DOMAIN f : \E i \in 1 .. Len(f[x].cells) : f[x].cells[i] = c
    BY <1>5 DEF HasCell
  <2>2. PICK i \in 1 .. Len(f[x].cells) : f[x].cells[i] = c
    BY <2>1
  <2>3. CASE x # p /\ x # q
    BY <1>2, <2>2, <2>3 DEF HasCell
  <2>4. CASE x = p
    <3>1. i \in 1 .. len /\ n.cells[i] = c
      BY <2>2, <2>4 DEF n, len
    <3>2. CASE i <= m
      <4>1. i \in 1 .. m
        BY <1>4, <3>1, <3>2
      <4> QED BY <1>1, <1>2, <3>1, <4>1 DEF HasCell
    <3>3. CASE i = m + 1
      <4>1. idx \in 1 .. size + 1 /\ ~(idx < idx)
        BY <1>4
      <4>2. g[q].cells[idx] = c
        BY <1>2, <3>1, <3>3, <4>1
      <4> QED BY <1>1, <1>2, <4>1, <4>2 DEF HasCell
    <3>4. CASE i > m + 1
      <4>1. i - m - 1 \in 1 .. rest /\ m + 1 + (i - m - 1) = i
        BY <1>3, <1>4, <3>1, <3>4
      <4>2. g[new].cells[i - m - 1] = c
        BY <1>2, <3>1, <4>1
      <4> QED BY <1>2, <4>1, <4>2 DEF HasCell
    <3>5. i <= m \/ i = m + 1 \/ i > m + 1
      BY <1>4, <3>1
    <3> QED BY <3>2, <3>3, <3>4, <3>5
  <2>5. CASE x = q
    <3>1. i \in 1 .. size /\ o.cells[i] = c
      BY <2>2, <2>5 DEF o, size
    <3>2. CASE i < idx
      <4>1. i \in 1 .. size + 1
        BY <1>3, <3>1
      <4>2. g[q].cells[i] = c
        BY <1>2, <3>1, <3>2, <4>1
      <4> QED BY <1>1, <1>2, <4>1, <4>2 DEF HasCell
    <3>3. CASE i >= idx
      <4>1. i + 1 \in 1 .. size + 1 /\ ~(i + 1 < idx) /\ i + 1 # idx /\ (i + 1) - 1 = i
        BY <1>3, <1>4, <3>1, <3>3
      <4>2. g[q].cells[i + 1] = c
        BY <1>2, <3>1, <4>1
      <4> QED BY <1>1, <1>2, <4>1, <4>2 DEF HasCell
    <3>4. i < idx \/ i >= idx
      BY <1>4, <3>1
    <3> QED BY <3>2, <3>3, <3>4
  <2> QED BY <2>3, <2>4, <2>5
<1>6. ASSUME HasCell(g, c)
      PROVE  HasCell(f, c)
  <2>1. PICK x \in DOMAIN g : \E i \in 1 .. Len(g[x].cells) : g[x].cells[i] = c
    BY <1>6 DEF HasCell
  <2>2. PICK i \in 1 .. Len(g[x].cells) : g[x].cells[i] = c
    BY <2>1
  <2>3. CASE x # p /\ x # q /\ x # new
    <3>1. x \in DOMAIN f
      BY <1>2, <2>3
    <3> QED BY <1>2, <2>2, <2>3, <3>1 DEF HasCell
  <2>4. CASE x = p
    <3>1. i \in 1 .. m /\ n.cells[i] = c
      BY <1>2, <2>2, <2>4
    <3>2. i \in 1 .. len
      BY <1>2, <1>3, <1>4, <3>1
    <3> QED BY <1>1, <3>1, <3>2 DEF HasCell, n, len
  <2>5. CASE x = new
    <3>1. i \in 1 .. rest /\ n.cells[m + 1 + i] = c
      BY <1>2, <2>2, <2>5
    <3>2. m + 1 + i \in 1 .. len
      BY <1>2, <1>3, <1>4, <3>1
    <3> QED BY <1>1, <3>1, <3>2 DEF HasCell, n, len
  <2>6. CASE x = q
    <3>1. i \in 1 .. size + 1 /\ g[q].cells[i] = c
      BY <1>2, <2>2, <2>6
    <3>2. CASE i < idx
      <4>1. i \in 1 .. size /\ o.cells[i] = c
        <5>1. i \in 1 .. size
          BY <1>3, <1>4, <3>1, <3>2
        <5> QED BY <1>2, <3>1, <3>2, <5>1
      <4> QED BY <1>1, <4>1 DEF HasCell, o, size
    <3>3. CASE i = idx
      <4>1. n.cells[m + 1] = c
        <5>1. ~(i < idx)
          BY <1>4, <3>3
        <5> QED BY <1>2, <3>1, <3>3, <5>1
      <4>2. m + 1 \in 1 .. len
        BY <1>2, <1>3, <1>4
      <4> QED BY <1>1, <4>1, <4>2 DEF HasCell, n, len
    <3>4. CASE i > idx
      <4>1. i - 1 \in 1 .. size /\ ~(i < idx) /\ i # idx
        BY <1>3, <1>4, <3>1, <3>4
      <4>2. o.cells[i - 1] = c
        BY <1>2, <3>1, <4>1
      <4> QED BY <1>1, <4>1, <4>2 DEF HasCell, o, size
    <3>5. i < idx \/ i = idx \/ i > idx
      BY <1>4, <3>1
    <3> QED BY <3>2, <3>3, <3>4, <3>5
  <2> QED BY <2>3, <2>4, <2>5, <2>6
<1> QED BY <1>5, <1>6

\* insert adds one cell to those there are.
LEMMA InsertedCells ==
  ASSUME NEW f, \A x \in DOMAIN f : f[x] \in NodeOver(DOMAIN f), f = [x \in DOMAIN f |-> f[x]],
         NEW p \in DOMAIN f, NEW c \in Cell,
         \A i, j \in 1 .. Len(f[p].cells) : i < j => f[p].cells[i].key < f[p].cells[j].key,
         \A i \in 1 .. Len(f[p].cells) : f[p].cells[i].key # c.key,
         NEW d
  PROVE  HasCell(SetCells(f, p, InsertAt(f[p].cells, Place(f[p].cells, c.key), c)), d)
           <=> HasCell(f, d) \/ d = c
<1> DEFINE s == f[p].cells
           t == InsertAt(s, Place(s, c.key), c)
           g == SetCells(f, p, t)
<1>1. s \in Seq(Cell)
  <2>1. f[p] \in NodeOver(DOMAIN f)
    OBVIOUS
  <2> QED BY <2>1, NodeTypes
<1>2. /\ t \in Seq(Cell)
      /\ \A i \in 1 .. Len(t) : t[i] = c \/ \E j \in 1 .. Len(s) : t[i] = s[j]
      /\ \A j \in 1 .. Len(s) : \E i \in 1 .. Len(t) : t[i] = s[j]
      /\ \E i \in 1 .. Len(t) : t[i] = c
  <2> HIDE DEF s, t
  <2>1. t = InsertAt(s, Place(s, c.key), c)
    BY DEF t
  <2>2. /\ \A i, j \in 1 .. Len(s) : i < j => s[i].key < s[j].key
        /\ \A i \in 1 .. Len(s) : s[i].key # c.key
    BY DEF s
  <2> QED BY <1>1, <2>1, <2>2, InsertSorted
<1> HIDE DEF s, t
<1>3. CellsOnly(f, g, p) /\ g[p].cells = t
  BY <1>2, CellsAssigned
<1> HIDE DEF g
<1>4. DOMAIN g = DOMAIN f /\ \A x \in DOMAIN f : x # p => g[x].cells = f[x].cells
  BY <1>3 DEF CellsOnly
<1>5. ASSUME HasCell(g, d)
      PROVE  HasCell(f, d) \/ d = c
  <2>1. PICK x \in DOMAIN g : \E i \in 1 .. Len(g[x].cells) : g[x].cells[i] = d
    BY <1>5 DEF HasCell
  <2>2. CASE x = p
    <3>1. PICK i \in 1 .. Len(t) : t[i] = d
      BY <1>3, <2>1, <2>2
    <3>2. d = c \/ \E j \in 1 .. Len(s) : s[j] = d
      BY <1>2, <3>1
    <3> QED BY <3>2 DEF HasCell, s
  <2>3. CASE x # p
    BY <1>4, <2>1, <2>3 DEF HasCell
  <2> QED BY <2>2, <2>3
<1>6. ASSUME HasCell(f, d) \/ d = c
      PROVE  HasCell(g, d)
  <2>1. CASE d = c
    <3>1. \E i \in 1 .. Len(g[p].cells) : g[p].cells[i] = d
      BY <1>2, <1>3, <2>1
    <3> QED BY <1>4, <3>1 DEF HasCell
  <2>2. CASE HasCell(f, d)
    <3>1. PICK x \in DOMAIN f : \E i \in 1 .. Len(f[x].cells) : f[x].cells[i] = d
      BY <2>2 DEF HasCell
    <3>2. CASE x = p
      <4>1. PICK j \in 1 .. Len(s) : s[j] = d
        BY <3>1, <3>2 DEF s
      <4>2. \E i \in 1 .. Len(g[p].cells) : g[p].cells[i] = d
        BY <1>2, <1>3, <4>1
      <4> QED BY <1>4, <4>2 DEF HasCell
    <3>3. CASE x # p
      BY <1>4, <3>1, <3>3 DEF HasCell
    <3> QED BY <3>2, <3>3
  <2> QED BY <1>6, <2>1, <2>2
<1> QED BY <1>5, <1>6 DEF g, t, s

\* No two cells have the same key, and search knows which keys there are.
LEMMA StoredKeys ==
  ASSUME Inv, ~refused
  PROVE  /\ Cells = AllCells(nodes) /\ Stored = RowsOf(Cells) /\ Unique(Cells)
         /\ \A k \in Int : /\ searchRowPtr(k).ok
                           /\ searchRowPtr(k).cellID # CELLID_INVALID <=> k \in DOMAIN Stored
<1>1. PICK top, h, b : Ranked(top, h) /\ Tree(nodes, m_rootPageID, h, b)
  BY InvTree
<1>2. /\ TypeOK /\ \A p \in DOMAIN nodes : nodes[p] \in NodeOver(DOMAIN nodes)
      /\ m_rootPageID \in DOMAIN nodes
  BY <1>1 DEF Inv, Tree, Ordered
<1>3. Cells = AllCells(nodes)
  BY <1>2, CellsAre
<1>4. Stored = RowsOf(Cells)
  BY DEF Stored, RowsOf
<1>5. ASSUME NEW c \in Cells
      PROVE  \E p \in DOMAIN nodes : \E i \in 1 .. Len(nodes[p].cells) :
               /\ nodes[p].cells[i] = c
               /\ searchRowPtr(c.key) = [ok |-> TRUE, pageID |-> p, cellID |-> i]
  <2>1. PICK p \in DOMAIN nodes : \E i \in 1 .. Len(nodes[p].cells) : nodes[p].cells[i] = c
    BY <1>3 DEF AllCells, HasCell
  <2>2. PICK i \in 1 .. Len(nodes[p].cells) : nodes[p].cells[i] = c
    BY <2>1
  <2>3. searchRowPtr(nodes[p].cells[i].key) = [ok |-> TRUE, pageID |-> p, cellID |-> i]
    BY <1>1, <1>2, CellFound
  <2> QED BY <2>2, <2>3
<1>6. Unique(Cells)
  <2> SUFFICES ASSUME NEW c \in Cells, NEW d \in Cells, c.key = d.key
               PROVE  c = d
    BY DEF Unique
  <2> DEFINE r == searchRowPtr(c.key)
  <2>1. r = searchRowPtr(d.key)
    OBVIOUS
  <2> HIDE DEF r
  <2>2. PICK p \in DOMAIN nodes : \E i \in 1 .. Len(nodes[p].cells) :
               /\ nodes[p].cells[i] = c
               /\ r = [ok |-> TRUE, pageID |-> p, cellID |-> i]
    BY <1>5 DEF r
  <2>3. PICK q \in DOMAIN nodes : \E i \in 1 .. Len(nodes[q].cells) :
               /\ nodes[q].cells[i] = d
               /\ r = [ok |-> TRUE, pageID |-> q, cellID |-> i]
    BY <1>5, <2>1
  <2>4. c = nodes[r.pageID].cells[r.cellID]
    BY <2>2
  <2>5. d = nodes[r.pageID].cells[r.cellID]
    BY <2>3
  <2> QED BY <2>4, <2>5
<1>7. ASSUME NEW k \in Int
      PROVE  /\ searchRowPtr(k).ok
             /\ searchRowPtr(k).cellID # CELLID_INVALID <=> k \in DOMAIN Stored
  <2> DEFINE r == searchRowPtr(k)
  <2>1. r = Walk(k)[m_rootPageID] /\ Sound(k, m_rootPageID)
    BY <1>1, <1>2, WalkEquation, WalkSound
  <2>2. Walk(k)[m_rootPageID].ok
    BY <1>1, <1>2, WalkOrdered DEF Tree
  <2> HIDE DEF r
  <2>3. r.ok
    BY <2>1, <2>2
  <2>4. DOMAIN Stored = {c.key : c \in Cells}
    BY DEF Stored
  <2>5. ASSUME r.cellID # 0
        PROVE  k \in DOMAIN Stored
    <3> DEFINE p == r.pageID
               i == r.cellID
    <3>1. /\ p \in DOMAIN nodes /\ i \in 0 .. Len(nodes[p].cells)
          /\ nodes[p].cells[i].key = k
      BY <2>1, <2>3, <2>5 DEF Sound
    <3> HIDE DEF p, i
    <3>2. /\ Len(nodes[p].cells) \in Nat
          /\ \A j \in 1 .. Len(nodes[p].cells) : nodes[p].cells[j] \in Cell
      BY <1>2, <3>1, NodeTypes
    <3>3. i \in 1 .. Len(nodes[p].cells)
      BY <2>5, <3>1, <3>2 DEF i
    <3>4. nodes[p].cells[i] \in AllCells(nodes)
      BY <3>1, <3>2, <3>3 DEF AllCells, HasCell
    <3> QED BY <1>3, <2>4, <3>1, <3>4
  <2>6. ASSUME k \in DOMAIN Stored
        PROVE  r.cellID # 0
    <3>1. PICK c \in Cells : c.key = k
      BY <2>4, <2>6
    <3>2. PICK p \in DOMAIN nodes : \E i \in 1 .. Len(nodes[p].cells) :
               /\ nodes[p].cells[i] = c
               /\ r = [ok |-> TRUE, pageID |-> p, cellID |-> i]
      BY <1>5, <3>1 DEF r
    <3>3. PICK i \in 1 .. Len(nodes[p].cells) : r = [ok |-> TRUE, pageID |-> p, cellID |-> i]
      BY <3>2
    <3>4. r.cellID = i
      BY <3>3
    <3> QED BY <3>4
  <2> QED BY <2>3, <2>5, <2>6 DEF r, CELLID_INVALID
<1> QED BY <1>3, <1>4, <1>6, <1>7

\* What is said of the stored rows, with a name.
RowsKnown ==
  refused \/ (Cells = AllCells(nodes) /\ Stored = RowsOf(Cells) /\ Unique(Cells))

\* The invariant says so of every state without a refused page.
LEMMA InvRowsKnown == Inv => RowsKnown
BY StoredKeys DEF RowsKnown

\* The same after a step.
LEMMA RowsStayKnown ==
  ASSUME Inv', ~refused'
  PROVE  Cells' = AllCells(nodes') /\ Stored' = RowsOf(Cells') /\ Unique(Cells')
<1>1. RowsKnown'
  BY InvRowsKnown, PTL
<1> QED BY <1>1 DEF RowsKnown

\* insert of a key that is not there does what the dictionary says.
LEMMA InsertCellSeen ==
  ASSUME Inv, Inv', ~refused, NEW k \in Key, NEW v \in Value, InsertCell(k, v)
  PROVE  Dict!Insert(k, v)
<1> DEFINE row == searchRowPtr(k)
           p == row.pageID
           s == nodes[p].cells
           c == [key |-> k, value |-> v]
           t == InsertAt(s, Place(s, k), c)
           C == Cells
           E == Cells'
<1>1. /\ row.cellID = CELLID_INVALID
      /\ nodes' = SetCells(nodes, p, t)
      /\ result' = "true" /\ refused' = refused
  BY DEF InsertCell, SetCells
<1>2. /\ Cells = AllCells(nodes) /\ Stored = RowsOf(Cells) /\ Unique(Cells)
      /\ row.cellID # CELLID_INVALID <=> k \in DOMAIN Stored
  BY StoredKeys
<1>3. Cells' = AllCells(nodes') /\ Stored' = RowsOf(Cells') /\ Unique(Cells')
  BY <1>1, RowsStayKnown
<1>4. PICK top, h, b : Ranked(top, h) /\ Tree(nodes, m_rootPageID, h, b)
  BY InvTree
<1>5. /\ TypeOK /\ m_rootPageID \in DOMAIN nodes
      /\ \A x \in DOMAIN nodes : nodes[x] \in NodeOver(DOMAIN nodes)
      /\ nodes = [x \in DOMAIN nodes |-> nodes[x]]
  BY <1>4 DEF Inv, Tree, Ordered, Linked, Numbered
<1>6. row = Walk(k)[m_rootPageID] /\ Sound(k, m_rootPageID) /\ row.ok
  BY <1>4, <1>5, WalkEquation, WalkSound, StoredKeys
<1> HIDE DEF row
<1>7. p \in DOMAIN nodes
  BY <1>6 DEF Sound
<1> HIDE DEF p
<1>8. c \in Cell /\ c.key = k /\ c.value = v
  BY DEF Cell
<1>9. k \notin DOMAIN Stored
  BY <1>1, <1>2
<1> HIDE DEF c
<1>10. \A d \in C : d.key # k
  BY <1>2, <1>9 DEF RowsOf
<1>11. /\ Len(s) \in Nat /\ \A i \in 1 .. Len(s) : s[i] \in Cell
       /\ \A i, j \in 1 .. Len(s) : i < j => s[i].key < s[j].key
  BY <1>4, <1>5, <1>7, NodeTypes DEF Tree, Ordered
<1>12. \A i \in 1 .. Len(s) : s[i].key # k
  <2> SUFFICES ASSUME NEW i \in 1 .. Len(s)
               PROVE  s[i] \in C
    BY <1>10
  <2> QED BY <1>2, <1>7, <1>11 DEF AllCells, HasCell
<1>13. ASSUME NEW d
       PROVE  HasCell(nodes', d) <=> HasCell(nodes, d) \/ d = c
  <2>1. HasCell(SetCells(nodes, p, InsertAt(nodes[p].cells, Place(nodes[p].cells, c.key), c)), d)
           <=> HasCell(nodes, d) \/ d = c
    BY <1>5, <1>7, <1>8, <1>11, <1>12, InsertedCells
  <2> QED BY <1>1, <1>8, <2>1
<1>14. E = C \cup {c}
  BY <1>2, <1>3, <1>8, <1>13 DEF AllCells
<1> HIDE DEF C, E
<1>15. RowsOf(E) = RowWith(RowsOf(C), c.key, c.value)
  <2>1. Unique(C) /\ Unique(E)
    BY <1>2, <1>3 DEF C, E
  <2> QED BY <1>14, <2>1, RowAdded
<1>16. Stored' = RowWith(Stored, k, v)
  BY <1>2, <1>3, <1>8, <1>15 DEF C, E
<1> QED BY <1>1, <1>9, <1>16 DEF Dict!Insert, Dict!Reply, RowWith

\* So does insert of a key that is there.
LEMMA InsertDuplicateSeen ==
  ASSUME Inv, ~refused, NEW k \in Key, NEW v, InsertDuplicate(k)
  PROVE  Dict!Insert(k, v)
<1>1. k \in DOMAIN Stored
  BY StoredKeys DEF InsertDuplicate
<1>2. result' = "false" /\ refused' = refused /\ nodes' = nodes
  BY DEF InsertDuplicate
<1>3. Stored' = Stored
  BY <1>2 DEF Stored, Cells
<1> QED BY <1>1, <1>2, <1>3 DEF Dict!Insert, Dict!Reply

\* So does update.
LEMMA UpdateSeen ==
  ASSUME Inv, Inv', ~refused, NEW k \in Key, NEW v \in Value, Update(k, v)
  PROVE  Dict!Update(k, v)
<1>1. /\ Cells = AllCells(nodes) /\ Stored = RowsOf(Cells) /\ Unique(Cells)
      /\ searchRowPtr(k).cellID # CELLID_INVALID <=> k \in DOMAIN Stored
  BY StoredKeys
<1>2. refused' = refused
  BY DEF Update
<1>3. CASE searchRowPtr(k).cellID = CELLID_INVALID
  <2>1. nodes' = nodes /\ result' = "false"
    BY <1>3 DEF Update
  <2>2. Stored' = Stored
    BY <2>1 DEF Stored, Cells
  <2> QED BY <1>1, <1>2, <1>3, <2>1, <2>2 DEF Dict!Update, Dict!Reply
<1>4. CASE searchRowPtr(k).cellID # CELLID_INVALID
  <2> DEFINE p == searchRowPtr(k).pageID
             i == searchRowPtr(k).cellID
             s == nodes[p].cells
             c == [key |-> k, value |-> v]
             t == Revalued(s, i, v)
             g == nodes'
             C == Cells
             E == Cells'
  <2>1. UpdateAt(k, v, p, i)
    BY <1>4, UpdateFound
  <2>2. result' = "true"
    BY <1>4 DEF Update
  <2>3. Cells' = AllCells(nodes') /\ Stored' = RowsOf(Cells') /\ Unique(Cells')
    BY <1>2, RowsStayKnown
  <2>4. PICK top, h, b : Ranked(top, h) /\ Tree(nodes, m_rootPageID, h, b)
    BY InvTree
  <2>5. TypeOK /\ \A x \in DOMAIN nodes : nodes[x] \in NodeOver(DOMAIN nodes)
    BY <2>4 DEF Inv, Tree
  <2>6. ASSUME NEW x \in DOMAIN nodes, NEW j \in 1 .. Len(nodes[x].cells), nodes[x].cells[j].key = k
        PROVE  x = p /\ j = i
    <3>1. searchRowPtr(nodes[x].cells[j].key) = [ok |-> TRUE, pageID |-> x, cellID |-> j]
      BY <2>4, <2>5, CellFound
    <3>2. searchRowPtr(k) = [ok |-> TRUE, pageID |-> x, cellID |-> j]
      BY <2>6, <3>1
    <3> QED BY <3>2
  <2> HIDE DEF p, i, g
  <2>7. /\ p \in DOMAIN nodes /\ i \in 1 .. Len(s) /\ s[i].key = k
        /\ CellsOnly(nodes, g, p) /\ g[p].cells = t
    BY <2>1 DEF UpdateAt, g
  <2>8. s \in Seq(Cell) /\ Len(s) \in Nat
    BY <2>5, <2>7, NodeTypes
  <2>9. DOMAIN g = DOMAIN nodes /\ \A x \in DOMAIN nodes : x # p => g[x].cells = nodes[x].cells
    BY <2>7 DEF CellsOnly
  <2>10. c \in Cell /\ c.key = k /\ c.value = v
    BY DEF Cell
  <2>11. Len(t) = Len(s) /\ t[i] = c /\ \A j \in 1 .. Len(s) : j # i => t[j] = s[j]
    <3> HIDE DEF s, t
    <3>1. ValueIn(Revalued(s, i, v), s, i, v)
      BY <2>7, <2>8, RevaluedProperties
    <3> QED BY <2>7, <3>1 DEF ValueIn, t
  <2> HIDE DEF c, t
  <2>12. ASSUME NEW d
         PROVE  HasCell(g, d) <=> (HasCell(nodes, d) /\ d.key # k) \/ d = c
    <3>1. ASSUME HasCell(g, d)
          PROVE  (HasCell(nodes, d) /\ d.key # k) \/ d = c
      <4>1. PICK x \in DOMAIN g : \E j \in 1 .. Len(g[x].cells) : g[x].cells[j] = d
        BY <3>1 DEF HasCell
      <4>2. PICK j \in 1 .. Len(g[x].cells) : g[x].cells[j] = d
        BY <4>1
      <4>3. CASE x = p /\ j = i
        BY <2>7, <2>11, <4>2, <4>3
      <4>4. CASE ~(x = p /\ j = i)
        <5>1. x \in DOMAIN nodes /\ j \in 1 .. Len(nodes[x].cells) /\ nodes[x].cells[j] = d
          <6>1. CASE x = p
            <7>1. j \in 1 .. Len(s) /\ j # i /\ t[j] = d
              BY <2>7, <2>11, <4>2, <4>4, <6>1
            <7> QED BY <2>7, <2>11, <6>1, <7>1
          <6>2. CASE x # p
            BY <2>9, <4>2, <6>2
          <6> QED BY <6>1, <6>2
        <5>2. d.key # k
          BY <2>6, <4>4, <5>1
        <5> QED BY <5>1, <5>2 DEF HasCell
      <4> QED BY <4>3, <4>4
    <3>2. ASSUME d = c
          PROVE  HasCell(g, d)
      <4>1. i \in 1 .. Len(g[p].cells) /\ g[p].cells[i] = d
        BY <2>7, <2>11, <3>2
      <4> QED BY <2>7, <2>9, <4>1 DEF HasCell
    <3>3. ASSUME HasCell(nodes, d), d.key # k
          PROVE  HasCell(g, d)
      <4>1. PICK x \in DOMAIN nodes : \E j \in 1 .. Len(nodes[x].cells) : nodes[x].cells[j] = d
        BY <3>3 DEF HasCell
      <4>2. PICK j \in 1 .. Len(nodes[x].cells) : nodes[x].cells[j] = d
        BY <4>1
      <4>3. CASE x = p
        <5>1. j \in 1 .. Len(s) /\ j # i /\ s[j] = d
          BY <2>7, <3>3, <4>2, <4>3
        <5>2. j \in 1 .. Len(g[p].cells) /\ g[p].cells[j] = d
          BY <2>7, <2>11, <5>1
        <5> QED BY <2>7, <2>9, <5>2 DEF HasCell
      <4>4. CASE x # p
        <5>1. g[x].cells = nodes[x].cells /\ x \in DOMAIN g
          BY <2>9, <4>4
        <5> QED BY <4>2, <5>1 DEF HasCell
      <4> QED BY <4>3, <4>4
    <3> QED BY <3>1, <3>2, <3>3
  <2>13. E = {d \in C : d.key # c.key} \cup {c}
    BY <1>1, <2>3, <2>10, <2>12 DEF AllCells, g
  <2>14. c.key \in DOMAIN RowsOf(C)
    BY <1>1, <1>4, <2>10
  <2> HIDE DEF C, E
  <2>15. RowsOf(E) = [RowsOf(C) EXCEPT ![c.key] = c.value]
    BY <1>1, <2>3, <2>13, <2>14, RowChanged DEF C, E
  <2>16. Stored' = [Stored EXCEPT ![k] = v] /\ k \in DOMAIN Stored
    BY <1>1, <2>3, <2>10, <2>14, <2>15 DEF C, E
  <2> QED BY <1>2, <2>2, <2>16 DEF Dict!Update, Dict!Reply
<1> QED BY <1>3, <1>4

\* A root without cells above the old root adds none.
LEMMA RootAddedCells ==
  ASSUME NEW f, NEW g, NEW p \in DOMAIN f, NEW r, r \notin DOMAIN f, RootAdded(f, g, p, r), NEW c
  PROVE  HasCell(f, c) <=> HasCell(g, c)
<1>1. /\ DOMAIN g = DOMAIN f \cup {r} /\ g[r].cells = << >>
      /\ \A x \in DOMAIN f : g[x].cells = f[x].cells
  BY DEF RootAdded
<1>2. ASSUME NEW i \in 1 .. Len(<< >>)
      PROVE  FALSE
  <2>1. Len(<< >>) = 0
    OBVIOUS
  <2> QED BY <2>1
<1> QED BY <1>1, <1>2 DEF HasCell

\* A split that is refused no page moves rows and neither loses nor adds one.
LEMMA SplitSeen ==
  ASSUME DegreeFits, Inv, Inv', ~refused, ~refused', Split
  PROVE  UNCHANGED <<Stored, result, refused>>
<1>1. UNCHANGED <<result, refused>> /\ splitting # PGID_INVALID
      /\ (SplitNothing \/ SplitChild \/ SplitRoot)
  BY DEF Split, SplitNothing, SplitChild, SplitRoot, RefuseChild, RefuseRoot, RefuseSibling, Refuse
<1>2. SUFFICES Stored' = Stored
  BY <1>1
<1>3. Cells = AllCells(nodes) /\ Stored = RowsOf(Cells)
  BY StoredKeys
<1>4. Cells' = AllCells(nodes') /\ Stored' = RowsOf(Cells')
  BY RowsStayKnown
<1>5. SUFFICES ASSUME NEW c
               PROVE  HasCell(nodes, c) <=> HasCell(nodes', c)
  <2>1. AllCells(nodes) = AllCells(nodes')
    BY <1>5 DEF AllCells
  <2>2. Cells' = Cells
    BY <1>3, <1>4, <2>1
  <2> QED BY <1>3, <1>4, <2>2
<1>6. CASE SplitNothing
  BY <1>6 DEF SplitNothing
<1>7. CASE SplitChild
  <2> DEFINE p == splitting
             q == nodes[p].parent
             idx == ChildIndex(p)
             new == NewPage
             g == nodes'
             m == Median(nodes[p])
  <2>1. ChildSplit(p, q, idx, new)
    BY <1>1, <1>7, SplitChildIs
  <2>2. PICK top, h, b : Tree(nodes, m_rootPageID, h, b)
    BY InvTree
  <2> HIDE DEF p, q, idx, new
  <2>3. Divisible(nodes, m_rootPageID, p, q, idx, m, new) /\ Divided(nodes, g, p, q, idx, m, new)
    BY <2>1 DEF ChildSplit
  <2> HIDE DEF g, m
  <2>4. HasCell(nodes, c) <=> HasCell(g, c)
    BY <2>2, <2>3, DividedCells
  <2> QED BY <2>4 DEF g
<1>8. CASE SplitRoot
  <2> DEFINE p == splitting
             r == NewPage
             new == NewPage + 1
             f == AddRoot(nodes, p, r)
             g == nodes'
             m == Median(nodes[p])
  <2>1. RootSplit(p, r, new)
    BY <1>1, <1>8, SplitRootStep
  <2>2. PICK top, h, b : FullTree(top, h, b)
    BY <1>1, <1>8, FullTreeExists DEF SplitRoot
  <2>3. p = m_rootPageID /\ p \in DOMAIN nodes /\ Len(nodes[p].cells) = maxKeys
        /\ Tree(nodes, p, h, b) /\ b \in [DOMAIN nodes -> SUBSET Int]
        /\ top \in Nat /\ \A x \in DOMAIN nodes : h[x] <= top
        /\ Numbered(nodes)
    BY <1>8, <2>2 DEF FullTree, SplitRoot, Whole
  <2>4. r # PGID_INVALID /\ r \notin DOMAIN nodes
    <3>1. /\ IsFiniteSet(DOMAIN nodes) /\ DOMAIN nodes = 1 .. Cardinality(DOMAIN nodes)
          /\ r = Cardinality(DOMAIN nodes) + 1
      BY <2>3 DEF Numbered, NewPage
    <3> HIDE DEF r
    <3> QED BY <3>1, NextNumber
  <2>5. nodes[p].cells # << >>
    <3>1. maxKeys # 0 /\ Len(<< >>) = 0
      BY Numbers
    <3> QED BY <2>3, <3>1
  <2> HIDE DEF p, r, new, g, f, m
  <2>6. OrderedTree(AddRoot(nodes, p, r), r, top + 1)
    BY <2>3, <2>4, <2>5, AddRootTree
  <2>7. PICK j, d : Tree(f, r, j, d)
    BY <2>6 DEF OrderedTree, f
  <2>8. /\ Divisible(f, r, p, r, 1, m, new) /\ Divided(f, g, p, r, 1, m, new)
        /\ RootAdded(nodes, f, p, r)
    BY <2>1 DEF RootSplit, f, g, m
  <2>9. HasCell(f, c) <=> HasCell(g, c)
    BY <2>7, <2>8, DividedCells
  <2>10. HasCell(nodes, c) <=> HasCell(f, c)
    BY <2>3, <2>4, <2>8, RootAddedCells
  <2> QED BY <2>9, <2>10 DEF g
<1> QED BY <1>1, <1>6, <1>7, <1>8

\* A new tree has no rows.
LEMMA InitSeen == Init => Dict!Init
<1> SUFFICES ASSUME Init
             PROVE  Dict!Init
  OBVIOUS
<1>1. nodes[1].cells = << >> /\ DOMAIN nodes = {1} /\ result = "true" /\ refused = FALSE
  BY DEF Init
<1>2. Cells = {}
  <2>1. Range(<< >>) = {}
    BY DEF Range
  <2> QED BY <1>1, <2>1 DEF Cells
<1>3. Stored = [k \in {} |-> {}]
  BY <1>2 DEF Stored
<1> QED BY <1>1, <1>3 DEF Dict!Init

\* Every step of the tree is a step of the dictionary, or is not seen.
LEMMA DictNext ==
  ASSUME DegreeFits, Inv, Inv', [Next]_vars
  PROVE  [Dict!Next]_(Dict!vars)
<1> SUFFICES Dict!Next \/ UNCHANGED <<Stored, result, refused>>
  BY DEF Dict!vars
<1>1. CASE UNCHANGED vars
  BY <1>1 DEF vars, Stored, Cells
<1>2. CASE refused' /\ ~UNCHANGED vars
  <2>1. refused' = TRUE
    BY <1>2 DEF Inv, TypeOK
  <2> QED BY <2>1 DEF Dict!Next, Dict!Fail
<1>3. CASE ~refused' /\ Next
  <2>1. ~refused
    BY <1>3 DEF Next, Insert, InsertCell, InsertDuplicate, Update, Abort, Aborted, vars, Split,
       SplitNothing, SplitChild, SplitRoot, RefuseChild, RefuseRoot, RefuseSibling, Refuse
  <2>2. ASSUME NEW k \in Key, NEW v \in Value, Insert(k, v)
        PROVE  Dict!Next
    <3>1. Dict!Insert(k, v)
      BY <2>1, <2>2, InsertCellSeen, InsertDuplicateSeen DEF Insert
    <3> QED BY <2>1, <3>1 DEF Dict!Next
  <2>3. ASSUME NEW k \in Key, NEW v \in Value, Update(k, v)
        PROVE  Dict!Next
    <3>1. Dict!Update(k, v)
      BY <2>1, <2>3, UpdateSeen
    <3> QED BY <2>1, <3>1 DEF Dict!Next
  <2>4. ASSUME NEW k \in Key, Abort(k)
        PROVE  FALSE
    BY <2>1, <2>4, StoredKeys DEF Abort
  <2>5. CASE Aborted
    BY <2>5, <1>1 DEF Aborted
  <2>6. CASE Split
    BY <1>3, <2>1, <2>6, SplitSeen
  <2> QED BY <1>3, <2>2, <2>3, <2>4, <2>5, <2>6 DEF Next
<1> QED BY <1>1, <1>2, <1>3

\* insert and update, with all the splits they cause, do to the rows of the tree what
\* the dictionary says, until a call is refused a page.
THEOREM BtreeImplementsDictionary ==
  ASSUME DegreeFits
  PROVE  Spec => ImplementsDictionary
<1>1. Spec => Dict!Init /\ [][Dict!Next]_(Dict!vars)
  BY InitSeen, DictNext, Invariance, PTL DEF Spec
<1> QED BY <1>1 DEF ImplementsDictionary, Dict!Spec

=============================================================================
