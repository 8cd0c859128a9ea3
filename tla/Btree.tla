-------------------------------- MODULE Btree --------------------------------
(***************************************************************************)
(* class Btree and its nodes, BtreeNodePage (src/src/backend).  Pages are  *)
(* seen through the Pager, and numbered as the tree creates them.  The     *)
(* pages of the database are shared with all tables, so that any call of   *)
(* createNewPage may be the first that is refused; nothing frees pages, so *)
(* that all later calls are refused too.                                   *)
(*                                                                         *)
(* insert puts the cell into its leaf; split is then one step for each     *)
(* level it reaches, the recursion of the code.                            *)
(***************************************************************************)
EXTENDS Integers, Sequences, SequencesExt, FiniteSets

CONSTANTS Key,      \* a set of integers
          Value,    \* what a row is besides its key
          Degree    \* m_degree, the t of the B-tree

ASSUME KeyAssumption == Key \subseteq Int
ASSUME DegreeAssumption == Degree \in 0 .. 65535

VARIABLES nodes,        \* page id -> BtreeNodePage
          m_rootPageID,
          splitting,    \* the argument of the running split, or PGID_INVALID
          result,       \* what the last call returned, or how it ended
          refused       \* a createNewPage inside split has thrown

vars == <<nodes, m_rootPageID, splitting, result, refused>>

PGID_INVALID == 0
CELLID_INVALID == 0

Init ==
  /\ nodes = [p \in {1} |-> [parent |-> PGID_INVALID, root |-> TRUE, leaf |-> TRUE,
                             cells |-> << >>, children |-> << >>]]
  /\ m_rootPageID = 1
  /\ splitting = PGID_INVALID
  /\ result = "true"
  /\ refused = FALSE

-----------------------------------------------------------------------------
(* BtreeNodePage *)

maxKeys == (2 * Degree - 1) % 65536

\* What searchRowPtr and toBytes assert of a node.
AssertsHold(n) ==
  /\ n.leaf => n.children = << >>
  /\ ~n.leaf /\ n.root => n.cells = << >> \/ Len(n.children) = Len(n.cells) + 1
  /\ ~n.leaf /\ ~n.root => Len(n.children) = Len(n.cells) + 1 /\ n.cells # << >>

-----------------------------------------------------------------------------
(* searchRowPtr *)

\* The first cell whose key is not below k, or the place after the last.
Place(cells, k) ==
  CHOOSE i \in 1 .. Len(cells) + 1 :
    /\ \A j \in 1 .. i - 1 : cells[j].key < k
    /\ i <= Len(cells) => cells[i].key >= k

\* What the search for k returns at node p, if walk is what it returns at the others.
AtNode(walk, k, p) ==
  LET n == nodes[p]
      i == Place(n.cells, k)
      found == i <= Len(n.cells) /\ n.cells[i].key = k
  IN  CASE ~AssertsHold(n) -> [ok |-> FALSE]
        [] AssertsHold(n) /\ found -> [ok |-> TRUE, pageID |-> p, cellID |-> i]
        [] AssertsHold(n) /\ ~found /\ n.leaf ->
             [ok |-> TRUE, pageID |-> p, cellID |-> CELLID_INVALID]
        [] OTHER -> walk[n.children[i]]

searchRowPtr(k) ==
  LET walk[p \in DOMAIN nodes] == AtNode(walk, k, p) IN walk[m_rootPageID]

Running == splitting = PGID_INVALID /\ result # "abort"

-----------------------------------------------------------------------------
(* insert and update *)

InsertCell(k, v) ==
  LET row == searchRowPtr(k)
      cells == nodes[row.pageID].cells
  IN  /\ row.ok
      /\ row.cellID = CELLID_INVALID
      /\ nodes' = [nodes EXCEPT ![row.pageID].cells =
                     InsertAt(cells, Place(cells, k), [key |-> k, value |-> v])]
      /\ splitting' = row.pageID
      /\ result' = "true"
      /\ UNCHANGED <<m_rootPageID, refused>>

InsertDuplicate(k) ==
  /\ searchRowPtr(k).ok
  /\ searchRowPtr(k).cellID # CELLID_INVALID
  /\ result' = "false"
  /\ UNCHANGED <<nodes, m_rootPageID, splitting, refused>>

Insert(k, v) ==
  /\ Running
  /\ InsertCell(k, v) \/ InsertDuplicate(k)

Update(k, v) ==
  LET row == searchRowPtr(k)
      found == row.cellID # CELLID_INVALID
  IN  /\ Running
      /\ row.ok
      /\ nodes' = IF found THEN [nodes EXCEPT ![row.pageID].cells[row.cellID].value = v]
                  ELSE nodes
      /\ result' = IF found THEN "true" ELSE "false"
      /\ UNCHANGED <<m_rootPageID, splitting, refused>>

\* search, insert or update walks into a node the assertions reject.
Abort(k) ==
  /\ Running
  /\ ~searchRowPtr(k).ok
  /\ result' = "abort"
  /\ UNCHANGED <<nodes, m_rootPageID, splitting, refused>>

Aborted == result = "abort" /\ UNCHANGED vars

-----------------------------------------------------------------------------
(* split *)

\* Mutant: a node is split one cell too late.
FullLate(p) == Len(nodes[p].cells) > maxKeys
Full(p) == Len(nodes[p].cells) >= maxKeys
NewPage == Cardinality(DOMAIN nodes) + 1

\* The median is the cell after the first Median(n) ones.
Median(n) == Len(n.cells) \div 2
MedianCell(n) == n.cells[Median(n) + 1]

\* Mutant: children.resize(median).
LeftHalfShort(n) ==
  [n EXCEPT !.cells = SubSeq(@, 1, Median(n)),
            !.children = IF n.leaf THEN @ ELSE SubSeq(@, 1, Median(n))]

LeftHalf(n) ==
  [n EXCEPT !.cells = SubSeq(@, 1, Median(n)),
            !.children = IF n.leaf THEN @ ELSE SubSeq(@, 1, Median(n) + 1)]

\* Mutants: the right half loses its first cell, or is always a leaf.
RightHalfShort(n, parent) ==
  [parent |-> parent, root |-> FALSE, leaf |-> n.leaf,
   cells |-> SubSeq(n.cells, Median(n) + 3, Len(n.cells)),
   children |-> IF n.leaf THEN << >>
                ELSE SubSeq(n.children, Median(n) + 2, Len(n.children))]
RightHalfLeaf(n, parent) ==
  [parent |-> parent, root |-> FALSE, leaf |-> TRUE,
   cells |-> SubSeq(n.cells, Median(n) + 2, Len(n.cells)),
   children |-> IF n.leaf THEN << >>
                ELSE SubSeq(n.children, Median(n) + 2, Len(n.children))]

RightHalf(n, parent) ==
  [parent |-> parent, root |-> FALSE, leaf |-> n.leaf,
   cells |-> SubSeq(n.cells, Median(n) + 2, Len(n.cells)),
   children |-> IF n.leaf THEN << >>
                ELSE SubSeq(n.children, Median(n) + 2, Len(n.children))]

\* Mutant: the children keep their old parent.
AdoptNone(f, new) == f

\* f with the children of node new made to point to it.
Adopt(f, new) ==
  [x \in DOMAIN f |->
     IF \E i \in 1 .. Len(f[new].children) : f[new].children[i] = x
     THEN [f[x] EXCEPT !.parent = new]
     ELSE f[x]]

With(f, new, n) == [x \in DOMAIN f \cup {new} |-> IF x = new THEN n ELSE f[x]]

\* Mutant: split goes on to the parent from a node that is not full.
SplitUpwards ==
  /\ ~Full(splitting)
  /\ splitting' = IF nodes[splitting].root THEN splitting ELSE nodes[splitting].parent
  /\ UNCHANGED <<nodes, m_rootPageID, result, refused>>

SplitNothing ==
  /\ ~Full(splitting)
  /\ splitting' = PGID_INVALID
  /\ UNCHANGED <<nodes, m_rootPageID, result, refused>>

\* The median moves to the parent, which then may have to be split itself.
ChildIndex(p) ==
  LET siblings == nodes[nodes[p].parent].children
  IN  CHOOSE i \in 1 .. Len(siblings) : siblings[i] = p

\* Mutants of SplitChild: the new page is put before the old one, the children
\* of the right half are not adopted, the new page is always a leaf, or the
\* parent is not looked at.
SplitChildWith(place, sibling(_, _), adopt(_, _), next(_)) ==
  LET n == nodes[splitting]
      q == n.parent
      idx == ChildIndex(splitting)
      new == NewPage
      parent == [nodes[q] EXCEPT !.cells = InsertAt(@, idx, MedianCell(n)),
                                 !.children = InsertAt(@, idx + place, new)]
  IN  /\ Full(splitting)
      /\ ~n.root
      /\ ~refused
      /\ nodes' = adopt(With([nodes EXCEPT ![splitting] = LeftHalf(n), ![q] = parent],
                             new, sibling(n, q)), new)
      /\ splitting' = next(q)
      /\ UNCHANGED <<m_rootPageID, result, refused>>
SplitChildBefore == SplitChildWith(0, RightHalf, Adopt, LAMBDA q : q)
SplitChildUnadopted == SplitChildWith(1, RightHalf, AdoptNone, LAMBDA q : q)
SplitChildLeaf == SplitChildWith(1, RightHalfLeaf, Adopt, LAMBDA q : q)
SplitChildStops == SplitChildWith(1, RightHalf, Adopt, LAMBDA q : PGID_INVALID)

SplitChild ==
  LET n == nodes[splitting]
      q == n.parent
      idx == ChildIndex(splitting)
      new == NewPage
      parent == [nodes[q] EXCEPT !.cells = InsertAt(@, idx, MedianCell(n)),
                                 !.children = InsertAt(@, idx + 1, new)]
  IN  /\ Full(splitting)
      /\ ~n.root
      /\ ~refused
      /\ nodes' = Adopt(With([nodes EXCEPT ![splitting] = LeftHalf(n), ![q] = parent],
                             new, RightHalf(n, q)), new)
      /\ splitting' = q
      /\ UNCHANGED <<m_rootPageID, result, refused>>

\* Mutant: the second push_back is forgotten.
NewRootOneChild(n, children) ==
  [parent |-> PGID_INVALID, root |-> TRUE, leaf |-> FALSE,
   cells |-> <<MedianCell(n)>>, children |-> SubSeq(children, 1, 1)]

NewRoot(n, children) ==
  [parent |-> PGID_INVALID, root |-> TRUE, leaf |-> FALSE,
   cells |-> <<MedianCell(n)>>, children |-> children]

\* Mutant: the root id is taken from the parent id of the node before that is set.
SplitRootUnset ==
  LET n == nodes[splitting]
      r == NewPage
      new == NewPage + 1
      left == [LeftHalf(n) EXCEPT !.root = FALSE, !.parent = r]
  IN  /\ Full(splitting)
      /\ n.root
      /\ ~refused
      /\ nodes' = Adopt(With(With([nodes EXCEPT ![splitting] = left],
                                  r, NewRoot(n, <<splitting, new>>)),
                             new, RightHalf(n, r)), new)
      /\ m_rootPageID' = n.parent
      /\ splitting' = r
      /\ UNCHANGED <<result, refused>>

SplitRoot ==
  LET n == nodes[splitting]
      r == NewPage
      new == NewPage + 1
      left == [LeftHalf(n) EXCEPT !.root = FALSE, !.parent = r]
  IN  /\ Full(splitting)
      /\ n.root
      /\ ~refused
      /\ nodes' = Adopt(With(With([nodes EXCEPT ![splitting] = left],
                                  r, NewRoot(n, <<splitting, new>>)),
                             new, RightHalf(n, r)), new)
      /\ m_rootPageID' = r
      /\ splitting' = r
      /\ UNCHANGED <<result, refused>>

\* createNewPage throws "DB has reached maximum size limit" inside split; what
\* was changed before stays.
Refuse ==
  /\ splitting' = PGID_INVALID
  /\ result' = "full"
  /\ refused' = TRUE

WithoutMedian(n) == [n EXCEPT !.cells = RemoveAt(@, Median(n) + 1)]

RefuseChild ==
  LET n == nodes[splitting]
  IN  /\ Full(splitting)
      /\ ~n.root
      /\ nodes' = [nodes EXCEPT ![splitting] = WithoutMedian(n),
                                ![n.parent].cells = InsertAt(@, ChildIndex(splitting), MedianCell(n))]
      /\ Refuse
      /\ UNCHANGED m_rootPageID

RefuseRoot ==
  /\ Full(splitting)
  /\ nodes[splitting].root
  /\ Refuse
  /\ UNCHANGED <<nodes, m_rootPageID>>

RefuseSibling ==
  LET n == nodes[splitting]
      r == NewPage
  IN  /\ Full(splitting)
      /\ n.root
      /\ ~refused
      /\ nodes' = With([nodes EXCEPT ![splitting] =
                          [WithoutMedian(n) EXCEPT !.root = FALSE, !.parent = r]],
                       r, NewRoot(n, << >>))
      /\ m_rootPageID' = r
      /\ Refuse

Split ==
  /\ splitting # PGID_INVALID
  /\ SplitNothing \/ SplitChild \/ SplitRoot \/ RefuseChild \/ RefuseRoot \/ RefuseSibling

Next ==
  \/ \E k \in Key, v \in Value : Insert(k, v)
  \/ \E k \in Key, v \in Value : Update(k, v)
  \/ \E k \in Key : Abort(k)
  \/ Aborted
  \/ Split

\* A call that has started runs on: there is one thread and it never waits.
Spec == Init /\ [][Next]_vars /\ WF_vars(Split)

-----------------------------------------------------------------------------
(* Properties *)

Node == [parent : DOMAIN nodes \cup {PGID_INVALID}, root : BOOLEAN, leaf : BOOLEAN,
         cells : Seq([key : Key, value : Value]), children : Seq(DOMAIN nodes)]

\* Each variable has its type.
TypeOK ==
  /\ nodes \in [1 .. Cardinality(DOMAIN nodes) -> Node]
  /\ m_rootPageID \in DOMAIN nodes
  /\ splitting \in DOMAIN nodes \cup {PGID_INVALID}
  /\ result \in {"true", "false", "full", "abort"}
  /\ refused \in BOOLEAN

\* Every node is as searchRowPtr (Btree.tpp:39-55) and toBytes assert.
NodesWellFormed == \A p \in DOMAIN nodes : AssertsHold(nodes[p])

\* The same, as long as no split was refused a page.
WellFormedUnlessRefused == refused \/ NodesWellFormed

\* searchRowPtr finds every cell of every node, where it is, also between two
\* levels of a split: keys are in order, in reach from the root and unique.
EveryCellFound ==
  refused \/ \A p \in DOMAIN nodes : \A i \in 1 .. Len(nodes[p].cells) :
               searchRowPtr(nodes[p].cells[i].key) = [ok |-> TRUE, pageID |-> p, cellID |-> i]

\* The parent ids that split follows upwards are those of the nodes that have
\* the page among their children, once; only the root page is marked root.
ParentsMatchChildren ==
  refused \/ \A p \in DOMAIN nodes :
    /\ nodes[p].root <=> p = m_rootPageID
    /\ p # m_rootPageID => nodes[p].parent \in DOMAIN nodes
    /\ \A q \in DOMAIN nodes :
         Cardinality({i \in 1 .. Len(nodes[q].children) : nodes[q].children[i] = p})
           = IF p # m_rootPageID /\ q = nodes[p].parent THEN 1 ELSE 0

Depth ==
  LET d[p \in DOMAIN nodes] == IF nodes[p].root THEN 0 ELSE 1 + d[nodes[p].parent]
  IN  d

\* All leaves are at the same depth.
Balanced ==
  refused \/ \A p, q \in DOMAIN nodes :
               nodes[p].leaf /\ nodes[q].leaf => Depth[p] = Depth[q]

\* Btree.hpp:33, "Each node will store between t-1 and 2t-1 keys": and only
\* the node that split is about to look at has 2t-1.
Occupancy ==
  refused \/ \A p \in DOMAIN nodes :
    /\ p # m_rootPageID => Len(nodes[p].cells) >= Degree - 1
    /\ Len(nodes[p].cells) <= IF p = splitting THEN maxKeys ELSE maxKeys - 1

\* The cells of the tree; EveryCellFound says that search returns them.
Cells == UNION {Range(nodes[p].cells) : p \in DOMAIN nodes}
Stored == [k \in {c.key : c \in Cells} |-> (CHOOSE c \in Cells : c.key = k).value]

Dict == INSTANCE Dictionary WITH dict <- Stored, failed <- refused

\* insert and update, with all the splits they cause, do to the rows of the
\* tree what the dictionary says.
ImplementsDictionary == Dict!Spec

\* insert returns: the splits it starts end at the latest above the root.
InsertReturns == splitting # PGID_INVALID ~> splitting = PGID_INVALID
=============================================================================
