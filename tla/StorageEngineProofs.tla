------------------------ MODULE StorageEngineProofs ------------------------
(***************************************************************************)
(* Proofs about StorageEngine for every set of names, column types, keys   *)
(* and values, every number of pages and of SchemaPage entries and every   *)
(* degree: its invariants, and that it implements Catalog.                 *)
(***************************************************************************)
EXTENDS StorageEngine, FiniteSetTheorems, TLAPS

USE TypesAssumption, SizesAssumption, BadNameAssumption

Results == {"ok", "true", "false", "invalid", "error", "dead"}

\* A tree is a record of these fields, with finitely many rows.
IsTree(tree) ==
  /\ DOMAIN tree = {"rows", "root", "height", "damaged", "stopped"}
  /\ IsFiniteSet(DOMAIN tree.rows)
  /\ DOMAIN tree.rows \subseteq Key
  /\ \A k \in DOMAIN tree.rows : tree.rows[k] \in Value
  /\ tree.root \in PageID /\ tree.height \in Nat
  /\ tree.damaged \in BOOLEAN /\ tree.stopped \in BOOLEAN

\* The clause of CountsMatch about one table.
Agree(tree, page) ==
  /\ page.numTuples <= Cardinality(DOMAIN tree.rows)
  /\ ~tree.stopped =>
       /\ page.numTuples = Cardinality(DOMAIN tree.rows)
       /\ page.btreePageID = tree.root

\* The pages of a tree, whether its table is in m_tables or was dropped.
Owned(p) == {p, trees[p].root, tablePages[p].btreePageID}

\* A table has a tree of its own, and was opened at a root that the tree has or
\* that the TablePage names.
TablesHaveTrees ==
  \A t \in m_tables :
    /\ t.pageID \in DOMAIN trees
    /\ t.root \in {trees[t.pageID].root, tablePages[t.pageID].btreePageID}
    /\ \A u \in m_tables : u.pageID = t.pageID => u = t

\* Stronger than PagesApart: it holds of dropped tables, too, so that Reopen, which
\* takes roots from the TablePages, and a createTable with an old name keep it.
OwnedApart ==
  \A p \in DOMAIN trees :
    /\ Owned(p) \subseteq SCHEMA_ID + 1 .. allocated
    /\ \A q \in DOMAIN trees \ {p} : Owned(p) \cap Owned(q) = {}

\* The invariant that is inductive, but for the type of call.
Inv ==
  /\ TablesTyped
  /\ CatalogMatches
  /\ CountsMatch
  /\ TablesHaveTrees
  /\ OwnedApart
  /\ \A p \in DOMAIN trees : IsTree(trees[p])

\* Inv, with the clauses of TablesTyped and CountsMatch about a tree taken together.
LEMMA InvUnfolded ==
  Inv <=>
    /\ m_tables \subseteq Table
    /\ DOMAIN schema \subseteq Name /\ \A n \in DOMAIN schema : schema[n] \in PageID
    /\ DOMAIN trees \subseteq PageID /\ DOMAIN tablePages = DOMAIN trees
    /\ \A p \in DOMAIN trees :
         IsTree(trees[p]) /\ tablePages[p] \in TablePage /\ Agree(trees[p], tablePages[p])
    /\ allocated \in PageID
    /\ result \in Results
    /\ CatalogMatches
    /\ TablesHaveTrees
    /\ OwnedApart
BY DEF Inv, TablesTyped, CountsMatch, IsTree, Agree, Results

\* The engine starts without tables.
LEMMA InvInit == Init => Inv
<1> SUFFICES ASSUME Init PROVE Inv
  OBVIOUS
<1>1. /\ m_tables = {} /\ DOMAIN schema = {} /\ DOMAIN trees = {} /\ DOMAIN tablePages = {}
      /\ allocated = 1 /\ result = "ok"
  BY DEF Init, SCHEMA_ID
<1>2. CatalogMatches /\ TablesHaveTrees /\ OwnedApart
  BY <1>1 DEF CatalogMatches, TablesHaveTrees, OwnedApart
<1> QED BY <1>1, <1>2, InvUnfolded DEF Results, PageID

\* No two tables have the same name or the same TablePage, and the tables of the
\* SchemaPage have different TablePages.
LEMMA TablesDistinct ==
  ASSUME Inv
  PROVE  /\ \A t \in m_tables : t \in Table /\ t.name \in Name /\ Named(t.name) = {t}
         /\ \A n \in DOMAIN schema, m \in DOMAIN schema : schema[n] = schema[m] => n = m
         /\ \A n \in DOMAIN schema : schema[n] \in DOMAIN trees /\ n \in Name
BY DEF Inv, TablesTyped, CatalogMatches, TablesHaveTrees, Named, Table

-----------------------------------------------------------------------------
(* Steps that change the tables the same way *)

\* Pages that are handed out to nobody, or none, change nothing else.
LEMMA UnchangedStep ==
  ASSUME Inv, UNCHANGED <<m_tables, schema, tablePages, trees>>,
         allocated' \in allocated .. MaxPages, result' \in Results
  PROVE  Inv'
<1>1. allocated \in PageID /\ allocated <= allocated' /\ allocated' \in PageID
  BY InvUnfolded DEF PageID
<1>2. OwnedApart'
  <2>1. \A p : Owned(p)' = Owned(p)
    BY DEF Owned
  <2>2. SCHEMA_ID + 1 .. allocated \subseteq SCHEMA_ID + 1 .. allocated'
    BY <1>1 DEF SCHEMA_ID, PageID
  <2> QED BY <2>1, <2>2, InvUnfolded DEF OwnedApart
<1>3. CatalogMatches' /\ TablesHaveTrees'
  BY InvUnfolded DEF CatalogMatches, TablesHaveTrees
<1> QED BY <1>1, <1>2, <1>3, InvUnfolded DEF Inv, TablesTyped, CountsMatch, Results

\* g is f with the value y at x.
Replaces(g, f, x, y) ==
  /\ DOMAIN g = DOMAIN f
  /\ g[x] = y
  /\ \A z \in DOMAIN f \ {x} : g[z] = f[z]

\* What a call makes of one tree, of its TablePage and of its table: the tree may
\* get a new root, but only one that has just been handed out.
OneTableStep(t, tree, page, root) ==
  /\ IsTree(tree) /\ page \in TablePage /\ Agree(tree, page)
  /\ allocated' \in allocated .. MaxPages
  /\ tree.root \in {trees[t.pageID].root} \cup (allocated + 1 .. allocated')
  /\ page.btreePageID \in {tablePages[t.pageID].btreePageID, trees[t.pageID].root}
                            \cup (allocated + 1 .. allocated')
  /\ root \in {tree.root, page.btreePageID}
  /\ Replaces(trees', trees, t.pageID, tree)
  /\ Replaces(tablePages', tablePages, t.pageID, page)
  /\ m_tables' = (m_tables \ {t}) \cup {[t EXCEPT !.root = root]}
  /\ schema' = schema
  /\ result' \in Results

\* The pages that a step has handed out are not those of another tree.
LEMMA FreshApart ==
  ASSUME Inv, NEW p \in DOMAIN trees, NEW q \in DOMAIN trees, p # q,
         NEW root \in PageID, NEW btreePageID \in PageID,
         NEW last \in allocated .. MaxPages,
         root \in Owned(p) \cup (allocated + 1 .. last),
         btreePageID \in Owned(p) \cup (allocated + 1 .. last)
  PROVE  /\ {p, root, btreePageID} \subseteq SCHEMA_ID + 1 .. last
         /\ {p, root, btreePageID} \cap Owned(q) = {}
<1>1. allocated \in Nat /\ allocated >= 1 /\ last \in Nat /\ allocated <= last
  BY InvUnfolded DEF PageID
<1>2. /\ Owned(p) \subseteq SCHEMA_ID + 1 .. allocated
      /\ Owned(q) \subseteq SCHEMA_ID + 1 .. allocated
      /\ Owned(p) \cap Owned(q) = {}
      /\ p \in Owned(p)
  BY InvUnfolded DEF OwnedApart, Owned
<1>3. SCHEMA_ID = 1
  BY DEF SCHEMA_ID
<1> QED BY <1>1, <1>2, <1>3

\* Such a step keeps the invariant.
LEMMA OneTableInv ==
  ASSUME Inv, NEW t \in m_tables, NEW tree, NEW page, NEW root,
         OneTableStep(t, tree, page, root)
  PROVE  Inv'
<1> DEFINE p == t.pageID
           u == [t EXCEPT !.root = root]
<1>1. /\ p \in DOMAIN trees /\ t \in Table
      /\ DOMAIN trees' = DOMAIN trees /\ DOMAIN tablePages' = DOMAIN trees
      /\ trees'[p] = tree /\ tablePages'[p] = page
      /\ \A q \in DOMAIN trees \ {p} : trees'[q] = trees[q] /\ tablePages'[q] = tablePages[q]
      /\ tree.root \in PageID /\ page.btreePageID \in PageID
  BY InvUnfolded DEF OneTableStep, Replaces, TablesHaveTrees, IsTree, TablePage
<1>2. /\ u \in Table /\ u.name = t.name /\ u.pageID = p /\ u.root = root
      /\ m_tables' = (m_tables \ {t}) \cup {u}
  BY <1>1 DEF OneTableStep, Table
<1>3. /\ allocated' \in PageID /\ allocated' \in allocated .. MaxPages
      /\ schema' = schema /\ result' \in Results
  BY InvUnfolded DEF OneTableStep, PageID
<1>4. CatalogMatches'
  <2> HIDE DEF u, p
  <2>0. /\ \A a \in m_tables, b \in m_tables : a.name = b.name => a = b
        /\ \A n \in DOMAIN schema : \E a \in m_tables : a.name = n /\ a.pageID = schema[n]
    BY DEF Inv, CatalogMatches
  <2>1. ASSUME NEW a \in m_tables', NEW b \in m_tables', a.name = b.name
        PROVE  a = b
    <3>1. \A c \in m_tables \ {t} : c.name # u.name
      BY <1>2, <2>0
    <3> QED BY <1>2, <2>0, <2>1, <3>1
  <2>2. ASSUME NEW n \in DOMAIN schema
        PROVE  \E a \in m_tables' : a.name = n /\ a.pageID = schema[n]
    <3>1. PICK a \in m_tables : a.name = n /\ a.pageID = schema[n]
      BY <2>0
    <3>2. CASE a = t
      BY <1>2, <3>1, <3>2 DEF p
    <3>3. CASE a # t
      BY <1>2, <3>1, <3>3
    <3> QED BY <3>2, <3>3
  <2> QED BY <1>3, <2>1, <2>2 DEF CatalogMatches
<1>5. TablesHaveTrees'
  <2>1. root \in {trees'[p].root, tablePages'[p].btreePageID}
    BY <1>1 DEF OneTableStep
  <2>2. ASSUME NEW a \in m_tables \ {t}
        PROVE  /\ a.pageID \in DOMAIN trees \ {p}
               /\ a.root \in {trees'[a.pageID].root, tablePages'[a.pageID].btreePageID}
    BY <1>1, InvUnfolded DEF TablesHaveTrees
  <2>3. ASSUME NEW a \in m_tables', NEW b \in m_tables', b.pageID = a.pageID
        PROVE  b = a
    BY <1>2, <2>2, <2>3, InvUnfolded DEF TablesHaveTrees
  <2>4. ASSUME NEW a \in m_tables'
        PROVE  /\ a.pageID \in DOMAIN trees'
               /\ a.root \in {trees'[a.pageID].root, tablePages'[a.pageID].btreePageID}
    BY <1>1, <1>2, <2>1, <2>2
  <2> QED BY <2>3, <2>4 DEF TablesHaveTrees
<1>6. OwnedApart'
  <2>1. /\ Owned(p)' = {p, tree.root, page.btreePageID}
        /\ \A q \in DOMAIN trees \ {p} : Owned(q)' = Owned(q)
    BY <1>1 DEF Owned
  <2>2. /\ tree.root \in Owned(p) \cup (allocated + 1 .. allocated')
        /\ page.btreePageID \in Owned(p) \cup (allocated + 1 .. allocated')
    BY DEF OneTableStep, Owned
  <2>3. \A q \in DOMAIN trees \ {p} : Owned(p)' \cap Owned(q)' = {}
    <3> SUFFICES ASSUME NEW q \in DOMAIN trees \ {p}
                 PROVE  {p, tree.root, page.btreePageID} \cap Owned(q) = {}
      BY <2>1
    <3> HIDE DEF p
    <3> QED BY <1>1, <1>3, <2>2, FreshApart
  <2>4. Owned(p)' \subseteq SCHEMA_ID + 1 .. allocated'
    <3>1. Owned(p) \subseteq SCHEMA_ID + 1 .. allocated /\ p \in Owned(p)
      BY <1>1, InvUnfolded DEF OwnedApart, Owned
    <3>2. allocated \in Nat /\ allocated >= 1 /\ allocated' \in Nat /\ allocated <= allocated'
      BY <1>3, InvUnfolded DEF PageID
    <3> QED BY <2>1, <2>2, <3>1, <3>2 DEF SCHEMA_ID
  <2>5. \A q \in DOMAIN trees \ {p} : Owned(q)' \subseteq SCHEMA_ID + 1 .. allocated'
    <3>1. SCHEMA_ID + 1 .. allocated \subseteq SCHEMA_ID + 1 .. allocated'
      BY <1>3, InvUnfolded DEF PageID, SCHEMA_ID
    <3> QED BY <2>1, <3>1, InvUnfolded DEF OwnedApart
  <2>6. \A q \in DOMAIN trees \ {p}, r \in DOMAIN trees \ {p} :
          q # r => Owned(q)' \cap Owned(r)' = {}
    BY <2>1, InvUnfolded DEF OwnedApart
  <2>7. \A q \in DOMAIN trees' :
          /\ Owned(q)' \subseteq SCHEMA_ID + 1 .. allocated'
          /\ \A r \in DOMAIN trees' \ {q} : Owned(q)' \cap Owned(r)' = {}
    BY <1>1, <2>3, <2>4, <2>5, <2>6
  <2> QED BY <2>7 DEF OwnedApart
<1>7. m_tables' \subseteq Table
  BY <1>2, InvUnfolded
<1>8. \A q \in DOMAIN trees' :
        IsTree(trees'[q]) /\ tablePages'[q] \in TablePage /\ Agree(trees'[q], tablePages'[q])
  BY <1>1, InvUnfolded DEF OneTableStep
<1>9. /\ m_tables' \subseteq Table
      /\ DOMAIN schema' \subseteq Name /\ \A n \in DOMAIN schema' : schema'[n] \in PageID
      /\ DOMAIN trees' \subseteq PageID /\ DOMAIN tablePages' = DOMAIN trees'
      /\ allocated' \in PageID
      /\ result' \in Results
  BY <1>1, <1>3, <1>7, InvUnfolded
<1> HIDE DEF p, u
<1> QED
  BY <1>4, <1>5, <1>6, <1>8, <1>9
  DEF Inv, TablesTyped, CountsMatch, IsTree, Agree, Results

\* A table that createTable adds: its TablePage and its root are pages that were
\* just handed out, so that no other table has them.
LEMMA CreateInv ==
  ASSUME Inv, NEW n \in Name, Named(n) = {}, NEW types \in Types, Storable(types), CanTake(2),
         BuildTable(n, types), m_tables' = m_tables \cup {NewTable(n)},
         schema' \in {schema, Bind(schema, n, NewPage(1))}, result' \in Results
  PROVE  Inv'
<1> DEFINE p == NewPage(1)
           r == NewPage(2)
           u == NewTable(n)
           tree == [rows |-> [k \in {} |-> 0], root |-> r, height |-> 0,
                    damaged |-> FALSE, stopped |-> FALSE]
           page == [types |-> types, btreePageID |-> r, numTuples |-> 0]
<1>1. /\ allocated \in Nat /\ allocated >= 1
      /\ p = allocated + 1 /\ r = allocated + 2
      /\ allocated' = allocated + 2
      /\ allocated' \in PageID /\ p \in PageID /\ r \in PageID
  BY InvUnfolded DEF PageID, NewPage, CanTake, BuildTable
<1>2. /\ u = [name |-> n, pageID |-> p, root |-> r]
      /\ u \in Table /\ u.name = n /\ u.pageID = p /\ u.root = r
  BY <1>1 DEF NewTable, Table
<1>3. \A q \in DOMAIN trees : Owned(q) \subseteq 2 .. allocated /\ q \in Owned(q)
  BY InvUnfolded DEF OwnedApart, Owned, SCHEMA_ID
<1>4. p \notin DOMAIN trees
  BY <1>1, <1>3
<1>5. /\ DOMAIN trees' = DOMAIN trees \cup {p} /\ DOMAIN tablePages' = DOMAIN trees \cup {p}
      /\ trees'[p] = tree /\ tablePages'[p] = page
      /\ \A q \in DOMAIN trees : trees'[q] = trees[q] /\ tablePages'[q] = tablePages[q]
  <2>1. trees' = Bind(trees, p, tree) /\ tablePages' = Bind(tablePages, p, page)
    BY DEF BuildTable
  <2> HIDE DEF p, tree, page
  <2> QED BY <1>4, <2>1, InvUnfolded DEF Bind
<1>6. IsTree(tree) /\ page \in TablePage /\ Agree(tree, page)
      /\ tree.root = r /\ page.btreePageID = r
  <2>1. DOMAIN [k \in {} |-> 0] = {}
    OBVIOUS
  <2>2. IsFiniteSet({}) /\ Cardinality({}) = 0
    BY FS_EmptySet
  <2> HIDE DEF r
  <2> QED BY <1>1, <2>1, <2>2 DEF IsTree, TablePage, Agree
<1> HIDE DEF p, r, u, tree, page
<1>7. DOMAIN schema' \subseteq DOMAIN schema \cup {n}
      /\ \A m \in DOMAIN schema' : IF m = n THEN schema'[m] = p ELSE schema'[m] = schema[m]
  <2>1. \A m \in DOMAIN schema : m # n
    BY InvUnfolded DEF CatalogMatches, Named
  <2> QED BY <2>1 DEF Bind, p
<1>8. m_tables' = m_tables \cup {u}
  BY DEF u
<1>9. CatalogMatches'
  <2>1. \A t \in m_tables : t.name # n
    BY DEF Named
  <2>2. /\ \A a \in m_tables, b \in m_tables : a.name = b.name => a = b
        /\ \A m \in DOMAIN schema : \E a \in m_tables : a.name = m /\ a.pageID = schema[m]
    BY DEF Inv, CatalogMatches
  <2>3. \A a \in m_tables', b \in m_tables' : a.name = b.name => a = b
    BY <1>2, <1>8, <2>1, <2>2
  <2>4. ASSUME NEW m \in DOMAIN schema'
        PROVE  \E a \in m_tables' : a.name = m /\ a.pageID = schema'[m]
    BY <1>2, <1>7, <1>8, <2>2
  <2> QED BY <2>3, <2>4 DEF CatalogMatches
<1>10. TablesHaveTrees'
  <2>1. \A a \in m_tables :
          /\ a.pageID \in DOMAIN trees
          /\ a.root \in {trees[a.pageID].root, tablePages[a.pageID].btreePageID}
          /\ \A b \in m_tables : b.pageID = a.pageID => b = a
    BY InvUnfolded DEF TablesHaveTrees
  <2>2. ASSUME NEW a \in m_tables'
        PROVE  /\ a.pageID \in DOMAIN trees'
               /\ a.root \in {trees'[a.pageID].root, tablePages'[a.pageID].btreePageID}
    BY <1>2, <1>5, <1>6, <1>8, <2>1
  <2>3. ASSUME NEW a \in m_tables', NEW b \in m_tables', b.pageID = a.pageID
        PROVE  b = a
    BY <1>2, <1>4, <1>8, <2>1, <2>3
  <2> QED BY <2>2, <2>3 DEF TablesHaveTrees
<1>11. OwnedApart'
  <2>1. \A q \in DOMAIN trees' :
          Owned(q)' = IF q = p THEN {p, r} ELSE Owned(q)
    <3> SUFFICES ASSUME NEW q \in DOMAIN trees'
                 PROVE  Owned(q)' = IF q = p THEN {p, r} ELSE Owned(q)
      OBVIOUS
    <3>1. Owned(q)' = {q, trees'[q].root, tablePages'[q].btreePageID}
      BY DEF Owned
    <3>2. CASE q = p
      BY <1>5, <1>6, <3>1, <3>2
    <3>3. CASE q # p
      BY <1>5, <3>1, <3>3 DEF Owned
    <3> QED BY <3>2, <3>3
  <2>2. {p, r} \cap (2 .. allocated) = {} /\ {p, r} \subseteq 2 .. allocated'
        /\ 2 .. allocated \subseteq 2 .. allocated'
    BY <1>1
  <2>3. \A q \in DOMAIN trees, s \in DOMAIN trees : q # s => Owned(q) \cap Owned(s) = {}
    BY InvUnfolded DEF OwnedApart
  <2>4. ASSUME NEW q \in DOMAIN trees'
        PROVE  Owned(q)' \subseteq 2 .. allocated'
    BY <1>3, <1>5, <2>1, <2>2
  <2>5. ASSUME NEW q \in DOMAIN trees', NEW s \in DOMAIN trees' \ {q}
        PROVE  Owned(q)' \cap Owned(s)' = {}
    <3>1. CASE q # p /\ s # p
      BY <3>1, <1>5, <2>1, <2>3
    <3>2. CASE q = p
      BY <3>2, <1>3, <1>5, <2>1, <2>2
    <3>3. CASE s = p
      BY <3>3, <1>3, <1>5, <2>1, <2>2
    <3> QED BY <3>1, <3>2, <3>3
  <2> QED BY <2>4, <2>5 DEF OwnedApart, SCHEMA_ID
<1>12. /\ m_tables' \subseteq Table
       /\ DOMAIN schema' \subseteq Name /\ \A m \in DOMAIN schema' : schema'[m] \in PageID
       /\ DOMAIN trees' \subseteq PageID /\ DOMAIN tablePages' = DOMAIN trees'
       /\ \A q \in DOMAIN trees' :
            IsTree(trees'[q]) /\ tablePages'[q] \in TablePage /\ Agree(trees'[q], tablePages'[q])
       /\ allocated' \in PageID
       /\ result' \in Results
  <2>1. \A m \in DOMAIN schema : m \in Name /\ schema[m] \in PageID
    BY InvUnfolded
  <2>2. DOMAIN schema' \subseteq Name /\ \A m \in DOMAIN schema' : schema'[m] \in PageID
    BY <1>1, <1>7, <2>1
  <2> QED BY <1>1, <1>2, <1>5, <1>6, <1>8, <2>2, InvUnfolded
<1> QED
  BY <1>9, <1>10, <1>11, <1>12 DEF Inv, TablesTyped, CountsMatch, IsTree, Agree, Results

\* A table that dropTable takes out; its pages stay its own.
LEMMA DropInv ==
  ASSUME Inv, NEW n \in DOMAIN schema, schema' = Without(schema, n),
         m_tables' = m_tables \ Named(n), UNCHANGED <<tablePages, trees, allocated>>,
         result' \in Results
  PROVE  Inv'
<1>1. /\ DOMAIN schema' = DOMAIN schema \ {n}
      /\ \A m \in DOMAIN schema' : schema'[m] = schema[m]
  BY DEF Without
<1>2. /\ m_tables' \subseteq m_tables
      /\ \A t \in m_tables : t.name # n => t \in m_tables'
  BY DEF Named
<1>3. OwnedApart'
  <2>1. \A p : Owned(p)' = Owned(p)
    BY DEF Owned
  <2> QED BY <2>1, InvUnfolded DEF OwnedApart
<1>4. CatalogMatches'
  <2>1. \A a \in m_tables', b \in m_tables' : a.name = b.name => a = b
    BY <1>2, InvUnfolded DEF CatalogMatches
  <2>2. \A m \in DOMAIN schema' : \E a \in m_tables' : a.name = m /\ a.pageID = schema'[m]
    BY <1>1, <1>2, InvUnfolded DEF CatalogMatches
  <2> QED BY <2>1, <2>2 DEF CatalogMatches
<1>5. TablesHaveTrees'
  BY <1>2, InvUnfolded DEF TablesHaveTrees
<1>6. m_tables' \subseteq Table
      /\ DOMAIN schema' \subseteq Name /\ \A m \in DOMAIN schema' : schema'[m] \in PageID
  BY <1>1, <1>2, InvUnfolded
<1> QED
  BY <1>3, <1>4, <1>5, <1>6, InvUnfolded DEF Inv, TablesTyped, CountsMatch, Results

\* The tables that are made from the SchemaPage: each has the TablePage that the
\* SchemaPage names, and the root that the TablePage names.
LEMMA ReopenInv ==
  ASSUME Inv, Reopen
  PROVE  Inv'
<1>1. /\ m_tables' = Opened
      /\ UNCHANGED <<schema, tablePages, trees, allocated>> /\ result' = "ok"
  BY DEF Reopen
<1>2. /\ \A n \in DOMAIN schema, m \in DOMAIN schema : schema[n] = schema[m] => n = m
      /\ \A n \in DOMAIN schema :
           /\ schema[n] \in DOMAIN trees /\ n \in Name /\ schema[n] \in PageID
           /\ tablePages[schema[n]].btreePageID \in PageID
  BY TablesDistinct, InvUnfolded DEF TablePage
<1>3. \A t \in m_tables' :
        /\ t.name \in DOMAIN schema
        /\ t = [name |-> t.name, pageID |-> schema[t.name],
                root |-> tablePages[schema[t.name]].btreePageID]
        /\ t.pageID = schema[t.name]
        /\ t.root = tablePages[t.pageID].btreePageID
  BY <1>1 DEF Opened
<1>4. \A n \in DOMAIN schema :
        \E t \in m_tables' : t.name = n /\ t.pageID = schema[n]
  <2> SUFFICES ASSUME NEW n \in DOMAIN schema
               PROVE  \E t \in m_tables' : t.name = n /\ t.pageID = schema[n]
    OBVIOUS
  <2> DEFINE t == [name |-> n, pageID |-> schema[n],
                   root |-> tablePages[schema[n]].btreePageID]
  <2>1. t \in m_tables'
    BY <1>1 DEF Opened
  <2>2. t.name = n /\ t.pageID = schema[n]
    OBVIOUS
  <2> QED BY <2>1, <2>2
<1>5. m_tables' \subseteq Table
  BY <1>2, <1>3 DEF Table
<1>6. CatalogMatches'
  <2>1. \A a \in m_tables', b \in m_tables' : a.name = b.name => a = b
    BY <1>3
  <2> QED BY <1>1, <1>4, <2>1 DEF CatalogMatches
<1>7. TablesHaveTrees'
  <2>1. ASSUME NEW a \in m_tables', NEW b \in m_tables', b.pageID = a.pageID
        PROVE  b = a
    <3>1. a.name = b.name
      BY <1>2, <1>3, <2>1
    <3> QED BY <1>3, <3>1
  <2>2. \A a \in m_tables' : /\ a.pageID \in DOMAIN trees'
                             /\ a.root = tablePages'[a.pageID].btreePageID
    BY <1>1, <1>2, <1>3
  <2> QED BY <2>1, <2>2 DEF TablesHaveTrees
<1>8. OwnedApart'
  <2>1. \A p : Owned(p)' = Owned(p)
    BY <1>1 DEF Owned
  <2> QED BY <1>1, <2>1, InvUnfolded DEF OwnedApart
<1> QED
  BY <1>1, <1>5, <1>6, <1>7, <1>8, InvUnfolded DEF Inv, TablesTyped, CountsMatch, Results

-----------------------------------------------------------------------------
(* Insertions and updates change one table *)

\* The tree of a table that a call has found, and its TablePage.
LEMMA TableFound ==
  ASSUME Inv, NEW t \in m_tables
  PROVE  /\ t \in Table /\ t.pageID \in DOMAIN trees /\ t.pageID \in DOMAIN tablePages
         /\ IsTree(trees[t.pageID])
         /\ tablePages[t.pageID] \in TablePage
         /\ Agree(trees[t.pageID], tablePages[t.pageID])
         /\ m_tables = (m_tables \ {t}) \cup {[t EXCEPT !.root = t.root]}
BY InvUnfolded DEF TablesHaveTrees, Table

\* What is known of a split that is possible.
LEMMA SplitTyped ==
  ASSUME Inv, NEW t \in m_tables, NEW s \in Splits(trees[t.pageID])
  PROVE  /\ s.below \in Nat /\ s.root \in BOOLEAN
         /\ PagesFor(s) \in Nat /\ PagesFor(s) \in 0 .. PagesFor(s)
         /\ s.root => PagesFor(s) > s.below
BY TableFound DEF PagesFor, Splits, IsTree

\* A row more, and a new root that was just handed out or none.
LEMMA Grows ==
  ASSUME Inv, NEW t \in m_tables, NEW k \in Key, NEW v \in Value, k \notin DOMAIN RowsOf(t),
         NEW s \in Splits(trees[t.pageID]), NEW taken \in 0 .. PagesFor(s), CanTake(taken),
         NEW moved \in BOOLEAN, moved => taken > s.below
  PROVE  LET old == trees[t.pageID]
             tree == Grown(old, k, v, s, moved)
         IN  /\ taken \in Nat
             /\ allocated + taken \in allocated .. MaxPages
             /\ IsTree(tree)
             /\ tree.root = RootAfter(old, s, moved)
             /\ tree.root \in {old.root} \cup (allocated + 1 .. allocated + taken)
             /\ tree.rows = Bind(old.rows, k, v)
             /\ Cardinality(DOMAIN tree.rows) = Cardinality(DOMAIN old.rows) + 1
             /\ tree.damaged = old.damaged /\ tree.stopped = old.stopped
<1> DEFINE old == trees[t.pageID]
           tree == Grown(old, k, v, s, moved)
<1>1. IsTree(old) /\ k \notin DOMAIN old.rows
  BY TableFound DEF RowsOf
<1>2. s.below \in Nat /\ PagesFor(s) \in Nat
  BY SplitTyped
<1> HIDE DEF old
<1>3. old.height \in Nat
  BY <1>1 DEF IsTree
<1>4. allocated \in Nat /\ allocated + taken \in allocated .. MaxPages /\ taken \in Nat
  BY <1>2, InvUnfolded DEF CanTake, PageID
<1>5. RootAfter(old, s, moved) \in {old.root} \cup (allocated + 1 .. allocated + taken)
  <2>1. CASE moved
    <3>1. RootAfter(old, s, moved) = allocated + (s.below + 1)
      BY <2>1 DEF RootAfter, NewPage
    <3>2. s.below + 1 \in 1 .. taken
      BY <2>1, <1>2, <1>4
    <3> QED BY <3>1, <3>2, <1>4
  <2>2. CASE ~moved
    BY <2>2 DEF RootAfter
  <2> QED BY <2>1, <2>2
<1>6. /\ DOMAIN tree = {"rows", "root", "height", "damaged", "stopped"}
      /\ tree.rows = Bind(old.rows, k, v)
      /\ tree.root = RootAfter(old, s, moved)
      /\ tree.height = IF moved THEN old.height + 1 ELSE old.height
      /\ tree.damaged = old.damaged
      /\ tree.stopped = old.stopped
  BY <1>1 DEF IsTree, Grown
<1> HIDE DEF tree
<1>7. /\ DOMAIN tree.rows = DOMAIN old.rows \cup {k}
      /\ \A z \in DOMAIN tree.rows : tree.rows[z] = IF z = k THEN v ELSE old.rows[z]
  BY <1>6 DEF Bind
<1>8. /\ IsFiniteSet(DOMAIN tree.rows)
       /\ Cardinality(DOMAIN tree.rows) = Cardinality(DOMAIN old.rows) + 1
  <2>1. IsFiniteSet(DOMAIN old.rows)
    BY <1>1 DEF IsTree
  <2>2. IsFiniteSet(DOMAIN old.rows \cup {k})
        /\ Cardinality(DOMAIN old.rows \cup {k}) = Cardinality(DOMAIN old.rows) + 1
    BY <2>1, <1>1, FS_AddElement
  <2> QED BY <2>2, <1>7
<1>9. tree.root \in PageID
  BY <1>1, <1>4, <1>5, <1>6 DEF IsTree, PageID
<1>10. tree.height \in Nat
  BY <1>3, <1>6
<1>11. IsTree(tree)
  <2>1. /\ DOMAIN old.rows \subseteq Key /\ \A z \in DOMAIN old.rows : old.rows[z] \in Value
        /\ old.damaged \in BOOLEAN /\ old.stopped \in BOOLEAN
    BY <1>1 DEF IsTree
  <2>2. DOMAIN tree.rows \subseteq Key /\ \A z \in DOMAIN tree.rows : tree.rows[z] \in Value
    BY <2>1, <1>7
  <2> QED BY <2>1, <2>2, <1>6, <1>8, <1>9, <1>10 DEF IsTree
<1> QED BY <1>4, <1>5, <1>6, <1>8, <1>11 DEF old, tree

\* What an insertTuple of a new key makes of the tree and the TablePage of a table: it
\* returns, or stops when the tuple is in the tree.
InsertOutcome(t, k, v, tree, page) ==
  LET old == trees[t.pageID]
      was == tablePages[t.pageID]
  IN  /\ OneTableStep(t, tree, page, tree.root)
      /\ tree.rows = Bind(old.rows, k, v)
      /\ Cardinality(DOMAIN tree.rows) = Cardinality(DOMAIN old.rows) + 1
      /\ page.types = was.types
      /\ \/ /\ result' = "true"
            /\ tree.stopped = old.stopped /\ tree.damaged = old.damaged
            /\ page.numTuples = was.numTuples + 1
            /\ page.btreePageID = IF tree.root # old.root THEN tree.root ELSE was.btreePageID
         \/ /\ result' = "error"
            /\ tree.stopped /\ (old.damaged => tree.damaged)
            /\ page.numTuples \in {was.numTuples, was.numTuples + 1}

\* An insertTuple that succeeds: the row is counted, and a new root is written into
\* the TablePage.
LEMMA InsertDoneStep ==
  ASSUME Inv, NEW t \in m_tables, AtRoot(t), NEW k \in Key, NEW v \in Value,
         k \notin DOMAIN RowsOf(t), NEW s \in Splits(trees[t.pageID]),
         InsertDone(t, k, v, s)
  PROVE  \E tree, page : InsertOutcome(t, k, v, tree, page)
<1> DEFINE p == t.pageID
           old == trees[p]
           tree == Grown(old, k, v, s, s.root)
           was == tablePages[p]
           page == [types |-> was.types, numTuples |-> was.numTuples + 1,
                    btreePageID |-> IF tree.root # t.root THEN tree.root ELSE was.btreePageID]
<1>1. PagesFor(s) \in 0 .. PagesFor(s) /\ s.root \in BOOLEAN /\ (s.root => PagesFor(s) > s.below)
  BY SplitTyped
<1>2. CanTake(PagesFor(s))
  BY DEF InsertDone
<1>3. /\ PagesFor(s) \in Nat
      /\ allocated + PagesFor(s) \in allocated .. MaxPages
      /\ IsTree(tree)
      /\ tree.root = RootAfter(old, s, s.root)
      /\ tree.root \in {old.root} \cup (allocated + 1 .. allocated + PagesFor(s))
      /\ tree.rows = Bind(old.rows, k, v)
      /\ Cardinality(DOMAIN tree.rows) = Cardinality(DOMAIN old.rows) + 1
      /\ tree.stopped = old.stopped /\ tree.damaged = old.damaged
  BY <1>1, <1>2, Grows
<1>4. /\ t \in Table /\ p \in DOMAIN trees /\ p \in DOMAIN tablePages
      /\ IsTree(old) /\ was \in TablePage /\ Agree(old, was)
      /\ t.root = old.root
  BY TableFound DEF AtRoot
<1>5. /\ trees' = [trees EXCEPT ![p] = tree]
      /\ tablePages' =
           [tablePages EXCEPT ![p].numTuples = @ + 1,
                              ![p].btreePageID = IF tree.root # t.root THEN tree.root ELSE @]
      /\ m_tables' = (m_tables \ {t}) \cup {[t EXCEPT !.root = tree.root]}
      /\ allocated' = allocated + PagesFor(s)
      /\ result' = "true" /\ schema' = schema
  BY <1>3 DEF InsertDone
<1> HIDE DEF tree
<1>6. Replaces(trees', trees, p, tree)
  BY <1>4, <1>5 DEF Replaces
<1>7. Replaces(tablePages', tablePages, p, page)
  <2>1. was.numTuples \in Nat /\ DOMAIN was = {"types", "btreePageID", "numTuples"}
        /\ was = [types |-> was.types, btreePageID |-> was.btreePageID, numTuples |-> was.numTuples]
    BY <1>4 DEF TablePage
  <2>2. tablePages'[p] = [was EXCEPT !.numTuples = @ + 1,
                                     !.btreePageID = IF tree.root # t.root THEN tree.root ELSE @]
    BY <1>4, <1>5
  <2>3. tablePages'[p] = page
    BY <2>1, <2>2
  <2> HIDE DEF page
  <2> QED BY <1>4, <1>5, <2>3 DEF Replaces
<1>8. tree.root \in PageID
  BY <1>3 DEF IsTree
<1>9. /\ was.types \in {types \in Types : Storable(types)}
      /\ was.numTuples \in Nat /\ was.btreePageID \in PageID
  BY <1>4 DEF TablePage
<1>10. page \in TablePage
  BY <1>8, <1>9 DEF TablePage
<1>11. Cardinality(DOMAIN old.rows) \in Nat
  BY <1>4, FS_CardinalityType DEF IsTree
<1>12. Agree(tree, page)
  <2>1. page.numTuples <= Cardinality(DOMAIN tree.rows)
    BY <1>3, <1>4, <1>9, <1>11 DEF Agree
  <2>2. ~tree.stopped => page.numTuples = Cardinality(DOMAIN tree.rows)
    BY <1>3, <1>4, <1>9, <1>11 DEF Agree
  <2>3. ~tree.stopped => page.btreePageID = tree.root
    BY <1>3, <1>4 DEF Agree
  <2> HIDE DEF page
  <2> QED BY <2>1, <2>2, <2>3 DEF Agree
<1>13. page.btreePageID \in {was.btreePageID, old.root} \cup (allocated + 1 .. allocated')
  BY <1>3, <1>5
<1>14. /\ page.types = was.types /\ page.numTuples = was.numTuples + 1
       /\ page.btreePageID = IF tree.root # old.root THEN tree.root ELSE was.btreePageID
  BY <1>4
<1> HIDE DEF page
<1>15. OneTableStep(t, tree, page, tree.root)
  BY <1>3, <1>5, <1>6, <1>7, <1>10, <1>12, <1>13 DEF OneTableStep, Results
<1>16. InsertOutcome(t, k, v, tree, page)
  BY <1>3, <1>5, <1>14, <1>15 DEF InsertOutcome
<1> QED BY <1>16

\* What stands in a tree that an insertTuple has stopped in.
LEMMA StoppedTree ==
  ASSUME NEW tree, IsTree(tree), NEW damaged \in BOOLEAN
  PROVE  LET after == Stopped(tree, damaged)
         IN  /\ IsTree(after) /\ after.root = tree.root /\ after.rows = tree.rows
             /\ after.stopped /\ (tree.damaged => after.damaged)
BY DEF IsTree, Stopped

\* An insertTuple that stops inside split: the TablePage is not written.
LEMMA InsertStopsInSplitStep ==
  ASSUME Inv, NEW t \in m_tables, AtRoot(t), NEW k \in Key, NEW v \in Value,
         k \notin DOMAIN RowsOf(t), NEW s \in Splits(trees[t.pageID]),
         InsertStopsInSplit(t, k, v, s)
  PROVE  \E tree, page : InsertOutcome(t, k, v, tree, page)
<1> DEFINE p == t.pageID
           old == trees[p]
           was == tablePages[p]
<1>1. PICK taken \in 0 .. PagesFor(s), damaged \in BOOLEAN, moved \in BOOLEAN :
        /\ CanTake(taken)
        /\ moved => taken > s.below
        /\ trees' = [trees EXCEPT ![p] = Stopped(Grown(old, k, v, s, moved), damaged)]
        /\ m_tables' = (m_tables \ {t}) \cup {[t EXCEPT !.root = RootAfter(old, s, moved)]}
        /\ allocated' = allocated + taken
        /\ result' = "error"
        /\ UNCHANGED <<schema, tablePages>>
  <2>1. t.pageID \in DOMAIN trees
    BY TableFound
  <2> QED BY <2>1 DEF InsertStopsInSplit
<1> DEFINE tree == Grown(old, k, v, s, moved)
           after == Stopped(tree, damaged)
<1>2. /\ taken \in Nat
      /\ allocated + taken \in allocated .. MaxPages
      /\ IsTree(tree)
      /\ tree.root = RootAfter(old, s, moved)
      /\ tree.root \in {old.root} \cup (allocated + 1 .. allocated + taken)
      /\ tree.rows = Bind(old.rows, k, v)
      /\ Cardinality(DOMAIN tree.rows) = Cardinality(DOMAIN old.rows) + 1
      /\ tree.damaged = old.damaged
  BY <1>1, Grows
<1>3. /\ p \in DOMAIN trees /\ IsTree(old) /\ was \in TablePage /\ Agree(old, was)
  BY TableFound
<1>4. /\ trees' = [trees EXCEPT ![p] = after]
      /\ m_tables' = (m_tables \ {t}) \cup {[t EXCEPT !.root = tree.root]}
      /\ allocated' = allocated + taken
      /\ result' = "error"
      /\ UNCHANGED <<schema, tablePages>>
  BY <1>1, <1>2
<1> HIDE DEF tree
<1>5. /\ IsTree(after) /\ after.root = tree.root /\ after.rows = tree.rows
      /\ after.stopped /\ (tree.damaged => after.damaged)
  BY <1>2, StoppedTree
<1> HIDE DEF after
<1>6. Replaces(trees', trees, p, after) /\ Replaces(tablePages', tablePages, p, was)
  BY <1>3, <1>4 DEF Replaces
<1>7. Agree(after, was)
  <2>1. Cardinality(DOMAIN old.rows) \in Nat
    BY <1>3, FS_CardinalityType DEF IsTree
  <2>2. was.numTuples \in Nat
    BY <1>3 DEF TablePage
  <2> QED BY <1>2, <1>3, <1>5, <2>1, <2>2 DEF Agree
<1>8. OneTableStep(t, after, was, after.root)
  BY <1>2, <1>3, <1>4, <1>5, <1>6, <1>7 DEF OneTableStep, Results
<1>9. InsertOutcome(t, k, v, after, was)
  BY <1>2, <1>4, <1>5, <1>8 DEF InsertOutcome
<1> QED BY <1>9

\* An insertTuple that stops after split: the row may have been counted, and the
\* TablePage does not name the new root.
LEMMA InsertStopsAfterStep ==
  ASSUME Inv, NEW t \in m_tables, AtRoot(t), NEW k \in Key, NEW v \in Value,
         k \notin DOMAIN RowsOf(t), NEW s \in Splits(trees[t.pageID]),
         InsertStopsAfter(t, k, v, s)
  PROVE  \E tree, page : InsertOutcome(t, k, v, tree, page)
<1> DEFINE p == t.pageID
           old == trees[p]
           was == tablePages[p]
           tree == Grown(old, k, v, s, s.root)
           after == Stopped(tree, FALSE)
           page == tablePages'[p]
<1>1. PICK counted \in BOOLEAN :
        /\ CanTake(PagesFor(s))
        /\ trees' = [trees EXCEPT ![p] = after]
        /\ m_tables' = (m_tables \ {t}) \cup {[t EXCEPT !.root = RootAfter(old, s, s.root)]}
        /\ tablePages' = IF counted THEN [tablePages EXCEPT ![p].numTuples = @ + 1]
                         ELSE tablePages
        /\ allocated' = allocated + PagesFor(s)
        /\ result' = "error"
        /\ UNCHANGED schema
  BY DEF InsertStopsAfter
<1>2. PagesFor(s) \in 0 .. PagesFor(s) /\ s.root \in BOOLEAN /\ (s.root => PagesFor(s) > s.below)
  BY SplitTyped
<1>3. /\ PagesFor(s) \in Nat
      /\ allocated + PagesFor(s) \in allocated .. MaxPages
      /\ IsTree(tree)
      /\ tree.root = RootAfter(old, s, s.root)
      /\ tree.root \in {old.root} \cup (allocated + 1 .. allocated + PagesFor(s))
      /\ tree.rows = Bind(old.rows, k, v)
      /\ Cardinality(DOMAIN tree.rows) = Cardinality(DOMAIN old.rows) + 1
      /\ tree.damaged = old.damaged
  BY <1>1, <1>2, Grows
<1>4. /\ p \in DOMAIN trees /\ p \in DOMAIN tablePages
      /\ IsTree(old) /\ was \in TablePage /\ Agree(old, was)
  BY TableFound
<1> HIDE DEF tree
<1>5. /\ IsTree(after) /\ after.root = tree.root /\ after.rows = tree.rows
      /\ after.stopped /\ (tree.damaged => after.damaged)
  BY <1>3, StoppedTree
<1> HIDE DEF after
<1>6. /\ DOMAIN tablePages' = DOMAIN tablePages
      /\ \A q \in DOMAIN tablePages \ {p} : tablePages'[q] = tablePages[q]
      /\ page = IF counted THEN [was EXCEPT !.numTuples = @ + 1] ELSE was
  BY <1>1, <1>4
<1>7. /\ page \in TablePage /\ page.btreePageID = was.btreePageID /\ page.types = was.types
      /\ page.numTuples \in {was.numTuples, was.numTuples + 1}
  <2>1. /\ was = [types |-> was.types, btreePageID |-> was.btreePageID, numTuples |-> was.numTuples]
        /\ was.types \in {x \in Types : Storable(x)}
        /\ was.btreePageID \in PageID /\ was.numTuples \in Nat
    BY <1>4 DEF TablePage
  <2> HIDE DEF page, was
  <2>2. CASE counted
    <3>1. page = [was EXCEPT !.numTuples = was.numTuples + 1]
      BY <1>6, <2>2
    <3>2. page = [types |-> was.types, btreePageID |-> was.btreePageID,
                  numTuples |-> was.numTuples + 1]
      BY <2>1, <3>1
    <3> QED BY <2>1, <3>2 DEF TablePage
  <2>3. CASE ~counted
    BY <1>4, <1>6, <2>3 DEF was
  <2> QED BY <2>2, <2>3
<1> HIDE DEF page
<1>8. Replaces(trees', trees, p, after) /\ Replaces(tablePages', tablePages, p, page)
  BY <1>1, <1>4, <1>6 DEF Replaces, page
<1>9. Agree(after, page)
  <2>1. Cardinality(DOMAIN old.rows) \in Nat
    BY <1>4, FS_CardinalityType DEF IsTree
  <2>2. was.numTuples \in Nat
    BY <1>4 DEF TablePage
  <2> QED BY <1>3, <1>4, <1>5, <1>7, <2>1, <2>2 DEF Agree
<1>10. OneTableStep(t, after, page, after.root)
  BY <1>1, <1>3, <1>5, <1>7, <1>8, <1>9 DEF OneTableStep, Results
<1>11. InsertOutcome(t, k, v, after, page)
  BY <1>1, <1>3, <1>5, <1>7, <1>10 DEF InsertOutcome
<1> QED BY <1>11

\* An insertTuple that finds a table without the key.
LEMMA InsertRowStep ==
  ASSUME Inv, NEW n, NEW types, NEW k \in Key, NEW v \in Value, InsertRow(n, types, k, v)
  PROVE  \E t \in m_tables :
           /\ t.name = n /\ AtRoot(t) /\ Fits(t, types) /\ k \notin DOMAIN RowsOf(t)
           /\ \E tree, page : InsertOutcome(t, k, v, tree, page)
<1>1. PICK t \in m_tables :
        /\ t.name = n /\ AtRoot(t) /\ Fits(t, types) /\ k \notin DOMAIN RowsOf(t)
        /\ \E s \in Splits(trees[t.pageID]) :
             InsertDone(t, k, v, s) \/ InsertStopsInSplit(t, k, v, s) \/ InsertStopsAfter(t, k, v, s)
  BY DEF InsertRow, Named
<1>2. PICK s \in Splits(trees[t.pageID]) :
        InsertDone(t, k, v, s) \/ InsertStopsInSplit(t, k, v, s) \/ InsertStopsAfter(t, k, v, s)
  BY <1>1
<1>3. \E tree, page : InsertOutcome(t, k, v, tree, page)
  <2>1. CASE InsertDone(t, k, v, s)
    BY <1>1, <2>1, InsertDoneStep
  <2>2. CASE InsertStopsInSplit(t, k, v, s)
    BY <1>1, <2>2, InsertStopsInSplitStep
  <2>3. CASE InsertStopsAfter(t, k, v, s)
    BY <1>1, <2>3, InsertStopsAfterStep
  <2> QED BY <1>2, <2>1, <2>2, <2>3
<1> QED BY <1>1, <1>3

\* An updateTuple that finds the row.
LEMMA UpdateStep ==
  ASSUME Inv, NEW t \in m_tables, AtRoot(t), NEW k \in DOMAIN RowsOf(t), NEW v \in Value,
         trees' = [trees EXCEPT ![t.pageID].rows[k] = v], result' = "true",
         UNCHANGED <<m_tables, schema, tablePages, allocated>>
  PROVE  LET tree == [trees[t.pageID] EXCEPT !.rows = [@ EXCEPT ![k] = v]]
         IN  /\ OneTableStep(t, tree, tablePages[t.pageID], t.root)
             /\ tree.root = t.root
             /\ tree.rows = [trees[t.pageID].rows EXCEPT ![k] = v]
             /\ tree.stopped = trees[t.pageID].stopped
             /\ tree.damaged = trees[t.pageID].damaged
<1> DEFINE p == t.pageID
           old == trees[p]
           was == tablePages[p]
           rows == [old.rows EXCEPT ![k] = v]
           tree == [old EXCEPT !.rows = [@ EXCEPT ![k] = v]]
<1>1. /\ p \in DOMAIN trees /\ IsTree(old) /\ was \in TablePage /\ Agree(old, was)
      /\ m_tables = (m_tables \ {t}) \cup {[t EXCEPT !.root = t.root]}
      /\ old.root = t.root /\ k \in DOMAIN old.rows
  BY TableFound DEF AtRoot, RowsOf
<1>2. trees' = [trees EXCEPT ![p] = tree]
  OBVIOUS
<1> HIDE DEF old
<1>3. /\ DOMAIN rows = DOMAIN old.rows
      /\ \A z \in DOMAIN rows : rows[z] = IF z = k THEN v ELSE old.rows[z]
  BY <1>1
<1>4. /\ DOMAIN tree = DOMAIN old
      /\ tree.rows = rows
      /\ tree.root = old.root /\ tree.height = old.height
      /\ tree.damaged = old.damaged /\ tree.stopped = old.stopped
  BY <1>1 DEF IsTree
<1> HIDE DEF rows, tree
<1>5. IsTree(tree)
  BY <1>1, <1>3, <1>4 DEF IsTree
<1>6. Agree(tree, was)
  BY <1>1, <1>3, <1>4 DEF Agree
<1>7. Replaces(trees', trees, p, tree) /\ Replaces(tablePages', tablePages, p, was)
  BY <1>1, <1>2 DEF Replaces
<1>8. allocated' \in allocated .. MaxPages
  BY InvUnfolded DEF PageID
<1>9. m_tables' = (m_tables \ {t}) \cup {[t EXCEPT !.root = t.root]}
  BY <1>1
<1>10. OneTableStep(t, tree, was, t.root)
  BY <1>1, <1>4, <1>5, <1>6, <1>7, <1>8, <1>9 DEF OneTableStep, Results, old
<1> QED BY <1>1, <1>4, <1>10 DEF tree, rows, old

-----------------------------------------------------------------------------
(* The invariant *)

\* Every call that ends with Reply, and every step that changes no table.
LEMMA ReplyInv ==
  ASSUME Inv, NEW r \in Results, Reply(r)
  PROVE  Inv'
<1>1. allocated' \in allocated .. MaxPages
  BY InvUnfolded DEF Reply, PageID
<1> QED BY <1>1, UnchangedStep DEF Reply

\* createTable, whether it is rejected, succeeds, stops early or late, or fails an assertion.
LEMMA CreateTableInv ==
  ASSUME Inv, NEW n \in Names, NEW types \in Types, CreateTable(n, types)
  PROVE  Inv'
<1>1. ~CreateRejected(n) => n \in Name /\ Named(n) = {}
  BY DEF CreateTable, Names
<1>2. allocated \in Nat /\ allocated \in allocated .. MaxPages
  BY InvUnfolded DEF PageID
<1>3. CASE CreateRejected(n)
  BY <1>3, ReplyInv DEF CreateRejected, Results
<1>4. CASE ~CreateRejected(n) /\ CreateDone(n, types)
  <2>1. schema' \in {schema, Bind(schema, n, NewPage(1))}
    BY <1>4 DEF CreateDone
  <2>2. /\ Storable(types) /\ CanTake(2) /\ BuildTable(n, types)
        /\ m_tables' = m_tables \cup {NewTable(n)} /\ result' \in Results
    BY <1>4 DEF CreateDone, Results
  <2> QED BY <1>1, <1>4, <2>1, <2>2, CreateInv
<1>5. CASE CreateStopsEarly(n, types)
  <2>1. allocated' \in allocated .. MaxPages /\ result' \in Results
    BY <1>2, <1>5 DEF CreateStopsEarly, CanTake, Results
  <2> QED BY <1>5, <2>1, UnchangedStep DEF CreateStopsEarly
<1>6. CASE ~CreateRejected(n) /\ CreateStopsLate(n, types)
  <2>1. /\ Storable(types) /\ CanTake(2) /\ BuildTable(n, types)
        /\ m_tables' = m_tables \cup {NewTable(n)} /\ result' \in Results
        /\ schema' \in {schema, Bind(schema, n, NewPage(1))}
    BY <1>6 DEF CreateStopsLate, Results
  <2> QED BY <1>1, <1>6, <2>1, CreateInv
<1>7. CASE CreateDies(n, types)
  <2>1. allocated' \in allocated .. MaxPages /\ result' \in Results
    BY <1>2, <1>7 DEF CreateDies, Results
  <2> QED BY <1>7, <2>1, UnchangedStep DEF CreateDies
<1> QED BY <1>3, <1>4, <1>5, <1>6, <1>7 DEF CreateTable

\* dropTable, whether it finds the table, fails or fails an assertion.
LEMMA DropTableInv ==
  ASSUME Inv, NEW n \in Names, DropTable(n)
  PROVE  Inv'
<1>1. CASE Reply("invalid") \/ Reply("error") \/ Reply("dead")
  BY <1>1, ReplyInv DEF Results
<1>2. CASE /\ n \in DOMAIN schema
           /\ schema' = Without(schema, n)
           /\ m_tables' = m_tables \ Named(n)
           /\ result' = "ok"
           /\ UNCHANGED <<tablePages, trees, allocated>>
  <2>1. result' \in Results
    BY <1>2 DEF Results
  <2> QED BY <1>2, <2>1, DropInv
<1> QED BY <1>1, <1>2 DEF DropTable

\* The calls on tuples that change nothing.
LEMMA UnchangingInv ==
  ASSUME Inv, NEW n, NEW types, NEW k, NEW type,
         \/ NoSuchTable(n) \/ WrongTypes(n, types) \/ StopsUnchanged(n)
         \/ InsertDuplicate(n, types, k) \/ RemoveRow(n, type) \/ DamageFound
  PROVE  Inv'
<1>1. \E r \in Results : Reply(r)
  BY DEF NoSuchTable, WrongTypes, StopsUnchanged, InsertDuplicate, RemoveRow, DamageFound, Results
<1> QED BY <1>1, ReplyInv

\* insertTuple, whether it succeeds or stops.
LEMMA InsertTupleInv ==
  ASSUME Inv, NEW n \in Name, NEW types \in Types, NEW k \in Key, NEW v \in Value,
         InsertTuple(n, types, k, v)
  PROVE  Inv'
<1>1. CASE InsertRow(n, types, k, v)
  <2>1. \E t \in m_tables : \E tree, page : InsertOutcome(t, k, v, tree, page)
    BY <1>1, InsertRowStep
  <2> QED BY <2>1, OneTableInv DEF InsertOutcome
<1> QED BY <1>1, UnchangingInv DEF InsertTuple

\* updateTuple, whether it finds the row or not.
LEMMA UpdateTupleInv ==
  ASSUME Inv, NEW n \in Name, NEW types \in Types, NEW k \in Key, NEW v \in Value,
         UpdateTuple(n, types, k, v)
  PROVE  Inv'
<1>1. CASE UpdateRow(n, types, k, v)
  <2>1. PICK t \in m_tables :
          /\ AtRoot(t)
          /\ \/ /\ k \in DOMAIN RowsOf(t)
                /\ trees' = [trees EXCEPT ![t.pageID].rows[k] = v]
                /\ result' = "true"
                /\ UNCHANGED <<m_tables, schema, tablePages, allocated>>
             \/ Reply("false")
    BY <1>1 DEF UpdateRow, Named
  <2>2. CASE Reply("false")
    BY <2>2, ReplyInv DEF Results
  <2>3. CASE ~Reply("false")
    <3>1. /\ k \in DOMAIN RowsOf(t)
          /\ trees' = [trees EXCEPT ![t.pageID].rows[k] = v]
          /\ result' = "true"
          /\ UNCHANGED <<m_tables, schema, tablePages, allocated>>
      BY <2>1, <2>3
    <3>2. \E tree, page, root : OneTableStep(t, tree, page, root)
      BY <2>1, <3>1, UpdateStep
    <3> QED BY <3>2, OneTableInv
  <2> QED BY <2>2, <2>3
<1> QED BY <1>1, UnchangingInv DEF UpdateTuple

\* Every step keeps the invariant.
LEMMA InvNext == Inv /\ [Next]_vars => Inv'
<1> SUFFICES ASSUME Inv, [Next]_vars PROVE Inv'
  OBVIOUS
<1>1. allocated \in allocated .. MaxPages /\ result \in Results
  BY InvUnfolded DEF PageID
<1>2. ASSUME NEW n \in Names, DropTable(n)
      PROVE  Inv'
  BY <1>2, DropTableInv
<1>3. ASSUME NEW n \in Names, NEW types \in Types, CreateTable(n, types)
      PROVE  Inv'
  BY <1>3, CreateTableInv
<1>4. ASSUME NEW n \in Name, NEW types \in Types, NEW k \in Key, NEW v \in Value,
             InsertTuple(n, types, k, v) \/ UpdateTuple(n, types, k, v)
      PROVE  Inv'
  BY <1>4, InsertTupleInv, UpdateTupleInv
<1>5. ASSUME NEW n \in Name, NEW k \in Key, NEW type \in KeyTypes, RemoveTuple(n, type, k)
      PROVE  Inv'
  BY <1>5, UnchangingInv DEF RemoveTuple
<1>6. CASE DamageFound
  BY <1>6, UnchangingInv
<1>7. CASE Reopen
  BY <1>7, ReopenInv
<1>8. CASE Dead \/ UNCHANGED vars
  BY <1>1, <1>8, UnchangedStep DEF Dead, vars
<1> QED
  BY <1>2, <1>3, <1>4, <1>5, <1>6, <1>7, <1>8 DEF Next

\* The inductive invariant holds in every reachable state.
THEOREM Invariance == Spec => []Inv
<1> QED BY InvInit, InvNext, PTL DEF Spec

\* Table objects, the SchemaPage, TablePages and trees have their types whatever
\* calls are made and wherever they stop.
THEOREM TypeCorrect == Spec => []TypeOK
<1>1. Inv => TablesTyped
  BY DEF Inv
<1>2. Init => call \in Call
  BY DEF Init, Call
<1>3. (call \in Call) /\ [Next]_vars => (call \in Call)'
  <2> SUFFICES ASSUME call \in Call, [Next]_vars PROVE call' \in Call
    BY DEF Call, Names, KeyTypes
  <2>1. ASSUME NEW n \in Names, DropTable(n)
        PROVE  call' \in Call
    <3>1. call' = <<"drop", n>>
      BY <2>1 DEF DropTable
    <3>2. <<"drop", n>> \in {"drop"} \X Names
      OBVIOUS
    <3> QED BY <3>1, <3>2 DEF Call
  <2>2. ASSUME NEW n \in Names, NEW types \in Types, CreateTable(n, types)
        PROVE  call' \in Call
    <3>1. call' = <<"create", n, types>>
      BY <2>2 DEF CreateTable
    <3>2. <<"create", n, types>> \in {"create"} \X Names \X Types
      OBVIOUS
    <3> QED BY <3>1, <3>2 DEF Call
  <2>3. ASSUME NEW n \in Name, NEW types \in Types, NEW k \in Key, NEW v \in Value,
               InsertTuple(n, types, k, v) \/ UpdateTuple(n, types, k, v)
        PROVE  call' \in Call
    <3>1. \E name \in {"insert", "update"} : call' = <<name, n, types, k, v>>
      BY <2>3 DEF InsertTuple, UpdateTuple
    <3>2. \A name \in {"insert", "update"} :
            <<name, n, types, k, v>> \in {"insert", "update"} \X Name \X Types \X Key \X Value
      OBVIOUS
    <3> QED BY <3>1, <3>2 DEF Call
  <2>4. ASSUME NEW n \in Name, NEW k \in Key, NEW type \in KeyTypes, RemoveTuple(n, type, k)
        PROVE  call' \in Call
    <3>1. call' = <<"remove", n, type, k>>
      BY <2>4 DEF RemoveTuple
    <3>2. <<"remove", n, type, k>> \in {"remove"} \X Name \X KeyTypes \X Key
      OBVIOUS
    <3> QED BY <3>1, <3>2 DEF Call
  <2>5. CASE DamageFound \/ Reopen
    BY <2>5 DEF DamageFound, Reopen, Call
  <2>6. CASE Dead \/ UNCHANGED vars
    BY <2>6 DEF Dead, vars
  <2> QED BY <2>1, <2>2, <2>3, <2>4, <2>5, <2>6 DEF Next
<1>4. Spec => [](call \in Call)
  BY <1>2, <1>3, PTL DEF Spec
<1>5. TablesTyped /\ call \in Call => TypeOK
  BY DEF TypeOK
<1> QED BY <1>1, <1>4, <1>5, Invariance, PTL

\* m_tables and the SchemaPage, which createTable and dropTable change one after the
\* other, agree after every call that returns.
THEOREM CatalogMatchesAlways == Spec => []CatalogMatches
<1>1. Inv => CatalogMatches
  BY DEF Inv
<1> QED BY <1>1, Invariance, PTL

\* The number of tuples and the root in a TablePage are those of the tree, unless an
\* insertTuple was stopped between the tree and the TablePage.
THEOREM CountsMatchAlways == Spec => []CountsMatch
<1>1. Inv => CountsMatch
  BY DEF Inv
<1> QED BY <1>1, Invariance, PTL

\* No two tables share a page, whatever calls have failed or were interrupted.
THEOREM PagesApartAlways == Spec => []PagesApart
<1>1. Inv => PagesApart
  <2> SUFFICES ASSUME Inv PROVE PagesApart
    OBVIOUS
  <2> DEFINE pages(t) ==
               {t.pageID, t.root, trees[t.pageID].root, tablePages[t.pageID].btreePageID}
  <2>1. \A t \in m_tables : t.pageID \in DOMAIN trees /\ pages(t) = Owned(t.pageID)
    BY DEF Inv, TablesHaveTrees, Owned
  <2>2. \A t \in m_tables, u \in m_tables : t # u => t.pageID # u.pageID
    BY DEF Inv, TablesHaveTrees
  <2> HIDE DEF pages
  <2>3. \A t \in m_tables :
          /\ pages(t) \subseteq SCHEMA_ID + 1 .. allocated
          /\ \A u \in m_tables \ {t} : pages(t) \cap pages(u) = {}
    BY <2>1, <2>2 DEF Inv, OwnedApart
  <2> QED BY <2>3 DEF PagesApart, pages
<1> QED BY <1>1, Invariance, PTL

-----------------------------------------------------------------------------
(* What a call that stops leaves behind *)

\* A step that changes no tree and no TablePage, and leaves no table out of the SchemaPage.
LEMMA QuietReports ==
  ASSUME UNCHANGED <<tablePages, trees>>, Unlisted' \subseteq Unlisted
  PROVE  Reports
BY DEF Reports, Missing, Stale

\* A call that changes nothing.
LEMMA ReplyReports ==
  ASSUME NEW r, Reply(r)
  PROVE  Reports
BY QuietReports DEF Reply, Unlisted

\* What is in the SchemaPage after a step on one table.
LEMMA OneTableListed ==
  ASSUME Inv, NEW t \in m_tables, NEW tree, NEW page, NEW root,
         OneTableStep(t, tree, page, root)
  PROVE  Unlisted' = Unlisted
<1> DEFINE u == [t EXCEPT !.root = root]
<1>1. u.name = t.name /\ m_tables' = (m_tables \ {t}) \cup {u} /\ schema' = schema
  BY TableFound DEF OneTableStep, Table
<1> HIDE DEF u
<1>2. {a.name : a \in m_tables'} = {a.name : a \in m_tables}
  BY <1>1
<1> QED BY <1>1, <1>2 DEF Unlisted

\* What Missing and Stale are made of.
LEMMA OneTableMissing ==
  ASSUME Inv, NEW t \in m_tables, NEW tree, NEW page, NEW root,
         OneTableStep(t, tree, page, root)
  PROVE  /\ t.pageID \in DOMAIN trees
         /\ trees'[t.pageID] = tree /\ tablePages'[t.pageID] = page
         /\ Missing(t.pageID)' = Cardinality(DOMAIN tree.rows) - page.numTuples
         /\ t.pageID \in Stale' <=> page.btreePageID # tree.root
         /\ \A p \in DOMAIN trees \ {t.pageID} :
              /\ trees'[p] = trees[p]
              /\ Missing(p)' = Missing(p) /\ (p \in Stale' <=> p \in Stale)
<1>1. /\ t.pageID \in DOMAIN trees /\ DOMAIN trees' = DOMAIN trees
      /\ trees'[t.pageID] = tree /\ tablePages'[t.pageID] = page
      /\ \A p \in DOMAIN trees \ {t.pageID} : trees'[p] = trees[p] /\ tablePages'[p] = tablePages[p]
  BY TableFound, InvUnfolded DEF OneTableStep, Replaces
<1> QED BY <1>1 DEF Missing, Stale

\* An insertTuple of a new key.
LEMMA InsertReports ==
  ASSUME Inv, NEW n, NEW types, NEW k \in Key, NEW v \in Value,
         call' = <<"insert", n, types, k, v>>, InsertRow(n, types, k, v)
  PROVE  Reports
<1>1. PICK t \in m_tables :
        /\ t.name = n /\ AtRoot(t) /\ Fits(t, types) /\ k \notin DOMAIN RowsOf(t)
        /\ \E tree, page : InsertOutcome(t, k, v, tree, page)
  BY InsertRowStep
<1>2. PICK tree, page : InsertOutcome(t, k, v, tree, page)
  BY <1>1
<1> DEFINE p == t.pageID
           old == trees[p]
           was == tablePages[p]
<1>3. OneTableStep(t, tree, page, tree.root)
  BY <1>2 DEF InsertOutcome
<1>4. /\ p \in DOMAIN trees /\ trees'[p] = tree
      /\ Missing(p)' = Cardinality(DOMAIN tree.rows) - page.numTuples
      /\ p \in Stale' <=> page.btreePageID # tree.root
      /\ \A q \in DOMAIN trees \ {p} :
           trees'[q] = trees[q] /\ Missing(q)' = Missing(q) /\ (q \in Stale' <=> q \in Stale)
  BY <1>3, OneTableMissing
<1>5. Unlisted' = Unlisted
  BY <1>3, OneTableListed
<1>6. /\ Cardinality(DOMAIN tree.rows) = Cardinality(DOMAIN old.rows) + 1
      /\ \/ /\ result' = "true"
            /\ page.numTuples = was.numTuples + 1
            /\ page.btreePageID = IF tree.root # old.root THEN tree.root ELSE was.btreePageID
         \/ /\ result' = "error"
            /\ page.numTuples \in {was.numTuples, was.numTuples + 1}
  BY <1>2 DEF InsertOutcome
<1>7. Cardinality(DOMAIN old.rows) \in Nat /\ was.numTuples \in Nat
  BY TableFound, FS_CardinalityType DEF IsTree, TablePage
<1>8. Missing(p) = Cardinality(DOMAIN old.rows) - was.numTuples
  BY DEF Missing
<1>9. p \in Stale <=> was.btreePageID # old.root
  BY <1>4 DEF Stale
<1>10. /\ call'[1] = "insert" /\ call'[2] = n
       /\ t \in Named(n)
  BY <1>1 DEF Named
<1> HIDE DEF p, old, was
<1>11. \/ Missing(p)' = Missing(p) /\ (p \in Stale' => p \in Stale)
       \/ Missing(p)' \in Missing(p) .. Missing(p) + 1 /\ result' = "error"
  <2>1. CASE result' = "true"
    BY <2>1, <1>4, <1>6, <1>7, <1>8, <1>9
  <2>2. CASE result' # "true"
    BY <2>2, <1>4, <1>6, <1>7, <1>8
  <2> QED BY <2>1, <2>2
<1>12. result' = "true" /\ trees'[p].root # trees[p].root => p \notin Stale'
  BY <1>4, <1>6 DEF old
<1>13. \A q \in DOMAIN trees :
         result' = "true" /\ trees'[q].root # trees[q].root => q \notin Stale'
  BY <1>4, <1>12
<1>14. ASSUME NEW q \in DOMAIN trees
       PROVE  \/ Missing(q)' = Missing(q) /\ (q \in Stale' => q \in Stale)
              \/ /\ Missing(q)' \in Missing(q) .. Missing(q) + 1
                 /\ call'[1] = "insert" /\ result' = "error"
                 /\ \E u \in Named(call'[2]) : u.pageID = q
  <2>1. CASE q = p
    BY <2>1, <1>10, <1>11 DEF p
  <2>2. CASE q # p
    BY <2>2, <1>4
  <2> QED BY <2>1, <2>2
<1> QED BY <1>5, <1>13, <1>14 DEF Reports

\* An updateTuple that finds its row.
LEMMA UpdateReports ==
  ASSUME Inv, NEW n, NEW types, NEW k \in Key, NEW v \in Value, UpdateRow(n, types, k, v)
  PROVE  Reports
<1>1. PICK t \in m_tables :
        /\ AtRoot(t)
        /\ \/ /\ k \in DOMAIN RowsOf(t)
              /\ trees' = [trees EXCEPT ![t.pageID].rows[k] = v]
              /\ result' = "true"
              /\ UNCHANGED <<m_tables, schema, tablePages, allocated>>
           \/ Reply("false")
  BY DEF UpdateRow, Named
<1>2. CASE Reply("false")
  BY <1>2, QuietReports DEF Reply, Unlisted
<1>3. CASE ~Reply("false")
  <2>1. /\ k \in DOMAIN RowsOf(t)
        /\ trees' = [trees EXCEPT ![t.pageID].rows[k] = v]
        /\ result' = "true"
        /\ UNCHANGED <<m_tables, schema, tablePages, allocated>>
    BY <1>1, <1>3
  <2>2. LET tree == [trees[t.pageID] EXCEPT !.rows = [@ EXCEPT ![k] = v]]
        IN  /\ OneTableStep(t, tree, tablePages[t.pageID], t.root)
            /\ tree.root = t.root
            /\ tree.rows = [trees[t.pageID].rows EXCEPT ![k] = v]
    BY Zenon, <1>1, <2>1, UpdateStep
  <2> DEFINE p == t.pageID
             old == trees[p]
             was == tablePages[p]
             tree == [old EXCEPT !.rows = [@ EXCEPT ![k] = v]]
  <2>3. /\ OneTableStep(t, tree, was, t.root)
        /\ tree.root = t.root /\ tree.rows = [old.rows EXCEPT ![k] = v]
    BY <2>2
  <2> HIDE DEF tree
  <2>4. old.root = t.root /\ DOMAIN tree.rows = DOMAIN old.rows
    BY <1>1, <2>3 DEF AtRoot
  <2>5. /\ p \in DOMAIN trees /\ trees'[p] = tree
        /\ Missing(p)' = Cardinality(DOMAIN tree.rows) - was.numTuples
        /\ p \in Stale' <=> was.btreePageID # tree.root
        /\ \A q \in DOMAIN trees \ {p} :
             trees'[q] = trees[q] /\ Missing(q)' = Missing(q) /\ (q \in Stale' <=> q \in Stale)
    BY <2>3, OneTableMissing
  <2>6. Unlisted' = Unlisted
    BY <2>3, OneTableListed
  <2>7. Missing(p)' = Missing(p) /\ (p \in Stale' <=> p \in Stale) /\ trees'[p].root = trees[p].root
    BY <2>3, <2>4, <2>5 DEF Missing, Stale
  <2> HIDE DEF p, old, was
  <2>8. \A q \in DOMAIN trees :
          /\ Missing(q)' = Missing(q) /\ (q \in Stale' <=> q \in Stale)
          /\ trees'[q].root = trees[q].root
    BY <2>5, <2>7
  <2> QED BY <2>6, <2>8 DEF Reports
<1> QED BY <1>2, <1>3

\* createTable leaves its table out of the SchemaPage only when it throws.
LEMMA CreateReports ==
  ASSUME Inv, NEW n \in Names, NEW types \in Types, CreateTable(n, types)
  PROVE  Reports
<1>1. call'[1] = "create" /\ call'[2] = n
  BY DEF CreateTable
<1>2. CASE UNCHANGED <<m_tables, schema, tablePages, trees>>
  BY <1>2, QuietReports DEF Unlisted
<1>3. CASE CreateDone(n, types) \/ CreateStopsLate(n, types)
  <2>1. allocated \in Nat /\ \A p \in DOMAIN trees : p \in 2 .. allocated
    BY InvUnfolded DEF OwnedApart, Owned, PageID, SCHEMA_ID
  <2>2. NewPage(1) \notin DOMAIN trees
    BY <2>1 DEF NewPage
  <2>3. BuildTable(n, types)
    BY <1>3 DEF CreateDone, CreateStopsLate
  <2>4. \A p \in DOMAIN trees :
          p \in DOMAIN trees' /\ trees'[p] = trees[p] /\ tablePages'[p] = tablePages[p]
    BY <2>2, <2>3, InvUnfolded DEF BuildTable, Bind
  <2>5. \A p \in DOMAIN trees : Missing(p)' = Missing(p) /\ (p \in Stale' <=> p \in Stale)
    BY <2>4 DEF Missing, Stale
  <2>6. m_tables' = m_tables \cup {NewTable(n)} /\ NewTable(n).name = n
    BY <1>3 DEF CreateDone, CreateStopsLate, NewTable
  <2>7. DOMAIN schema' \in {DOMAIN schema, DOMAIN schema \cup {n}}
        /\ (result' # "error" => n \in DOMAIN schema')
    BY <1>3 DEF CreateDone, CreateStopsLate, Bind
  <2>8. \A m \in Unlisted' \ Unlisted : m = n /\ result' = "error"
    BY <2>6, <2>7 DEF Unlisted
  <2> QED BY <1>1, <2>4, <2>5, <2>8 DEF Reports
<1> QED BY <1>2, <1>3
        DEF CreateTable, CreateRejected, CreateStopsEarly, CreateDies, Reply

\* dropTable, and opening the database, leave no table out of the SchemaPage.
LEMMA DropAndOpenReport ==
  ASSUME Inv, NEW n, DropTable(n) \/ Reopen
  PROVE  Reports
<1>1. CASE UNCHANGED <<m_tables, schema, tablePages, trees>>
  BY <1>1, QuietReports DEF Unlisted
<1>2. CASE /\ schema' = Without(schema, n)
           /\ m_tables' = m_tables \ Named(n)
           /\ UNCHANGED <<tablePages, trees, allocated>>
  <2>1. DOMAIN schema' = DOMAIN schema \ {n}
    BY <1>2 DEF Without
  <2>2. Unlisted' \subseteq Unlisted
    BY <1>2, <2>1 DEF Unlisted, Named
  <2> QED BY <1>2, <2>2, QuietReports
<1>3. CASE Reopen
  <2>1. Unlisted' = {}
    BY <1>3 DEF Reopen, Opened, Unlisted
  <2> QED BY <1>3, <2>1, QuietReports DEF Reopen
<1> QED BY <1>1, <1>2, <1>3 DEF DropTable, Reply

\* A table, a tuple or a root is missing from the page that should have it only since a
\* call that named the table and threw, also when other calls have failed on it before.
THEOREM DamageReported == Spec => DamageIsReported
<1>1. ASSUME Inv, [Next]_vars
      PROVE  [Reports]_vars
  <2>1. ASSUME NEW n \in Names, DropTable(n)
        PROVE  Reports
    BY <1>1, <2>1, DropAndOpenReport
  <2>2. ASSUME NEW n \in Names, NEW types \in Types, CreateTable(n, types)
        PROVE  Reports
    BY <1>1, <2>2, CreateReports
  <2>3. ASSUME NEW n \in Name, NEW types \in Types, NEW k \in Key, NEW v \in Value,
               InsertTuple(n, types, k, v) \/ UpdateTuple(n, types, k, v)
        PROVE  Reports
    <3>1. CASE NoSuchTable(n) \/ WrongTypes(n, types) \/ StopsUnchanged(n)
               \/ InsertDuplicate(n, types, k)
      BY <3>1, ReplyReports DEF NoSuchTable, WrongTypes, StopsUnchanged, InsertDuplicate
    <3>2. CASE InsertTuple(n, types, k, v) /\ InsertRow(n, types, k, v)
      BY <1>1, <3>2, InsertReports DEF InsertTuple
    <3>3. CASE UpdateRow(n, types, k, v)
      BY <1>1, <3>3, UpdateReports
    <3> QED BY <2>3, <3>1, <3>2, <3>3 DEF InsertTuple, UpdateTuple
  <2>4. ASSUME NEW n \in Name, NEW k \in Key, NEW type \in KeyTypes, RemoveTuple(n, type, k)
        PROVE  Reports
    BY <2>4, ReplyReports DEF RemoveTuple, NoSuchTable, StopsUnchanged, RemoveRow
  <2>5. CASE DamageFound
    BY <2>5, ReplyReports DEF DamageFound
  <2>6. CASE Reopen
    BY <1>1, <2>6, DropAndOpenReport
  <2>7. CASE Dead
    BY <2>7 DEF Dead
  <2> QED BY <1>1, <2>1, <2>2, <2>3, <2>4, <2>5, <2>6, <2>7 DEF Next
<1> QED BY <1>1, Invariance, PTL DEF Spec, DamageIsReported

-----------------------------------------------------------------------------
(* The engine implements Catalog *)

\* What Catalog sees of a table, and whether it takes it for broken.
Empty == [k \in {} |-> 0]
SeenAs(tree, page, root) ==
  [types |-> page.types, rows |-> IF root = tree.root THEN tree.rows ELSE Empty]
Seen(t) == SeenAs(trees[t.pageID], tablePages[t.pageID], t.root)
Broken(t) == trees[t.pageID].stopped \/ t.name \notin DOMAIN schema

\* The refinement mapping, table by table.
SeenByTable ==
  /\ TablesSeen = [n \in DOMAIN TablesSeen |-> TablesSeen[n]]
  /\ \A n : n \in DOMAIN TablesSeen <=> \E t \in m_tables : t.name = n
  /\ \A t \in m_tables : TablesSeen[t.name] = Seen(t)
  /\ \A n : n \in BrokenTables <=> \E t \in m_tables : t.name = n /\ Broken(t)

\* The CHOOSE in TablesSeen finds the table of the name.
LEMMA SeenFacts == CatalogMatches => SeenByTable
<1> SUFFICES ASSUME CatalogMatches PROVE SeenByTable
  OBVIOUS
<1> DEFINE table(n) == CHOOSE u \in Named(n) : TRUE
           seen(n) == LET t == table(n)
                      IN  [types |-> tablePages[t.pageID].types,
                           rows |-> IF AtRoot(t) THEN RowsOf(t) ELSE Empty]
<1>1. TablesSeen = [n \in {t.name : t \in m_tables} |-> seen(n)]
  BY DEF TablesSeen, Empty
<1>2. ASSUME NEW t \in m_tables
      PROVE  seen(t.name) = Seen(t)
  <2>1. Named(t.name) = {t}
    BY DEF CatalogMatches, Named
  <2>2. table(t.name) = t
    BY <2>1
  <2> HIDE DEF table
  <2>3. seen(t.name) = [types |-> tablePages[t.pageID].types,
                        rows |-> IF AtRoot(t) THEN RowsOf(t) ELSE Empty]
    BY <2>2
  <2> HIDE DEF seen
  <2> QED BY <2>3 DEF Seen, SeenAs, AtRoot, RowsOf
<1> HIDE DEF seen
<1>3. /\ DOMAIN TablesSeen = {t.name : t \in m_tables}
      /\ \A n \in DOMAIN TablesSeen : TablesSeen[n] = seen(n)
      /\ TablesSeen = [n \in DOMAIN TablesSeen |-> TablesSeen[n]]
  BY <1>1
<1>4. \A n : n \in BrokenTables <=> \E t \in m_tables : t.name = n /\ Broken(t)
  BY DEF BrokenTables, Broken
<1> QED BY <1>2, <1>3, <1>4 DEF SeenByTable

\* The same before and after a step.
LEMMA SeenBeforeAfter == Inv /\ Inv' => SeenByTable /\ SeenByTable'
<1>1. Inv => SeenByTable
  BY SeenFacts DEF Inv
<1> QED BY <1>1, PTL

\* A table that a call has found, as Catalog sees it.
LEMMA FoundSeen ==
  ASSUME Inv, NEW n, NEW t \in Named(n)
  PROVE  /\ t \in m_tables /\ t.name = n /\ n \in Name /\ Named(n) = {t}
         /\ n \in DOMAIN TablesSeen
         /\ TablesSeen[n].types = tablePages[t.pageID].types
         /\ AtRoot(t) => TablesSeen[n].rows = RowsOf(t)
         /\ AtRoot(t) => TablesSeen[n] = [types |-> tablePages[t.pageID].types, rows |-> RowsOf(t)]
<1>1. SeenByTable
  BY SeenFacts DEF Inv
<1>2. t \in m_tables /\ t.name = n
  BY DEF Named
<1>3. TablesSeen[n] = Seen(t) /\ n \in DOMAIN TablesSeen
  BY <1>1, <1>2 DEF SeenByTable
<1>4. n \in Name /\ Named(n) = {t}
  BY <1>2, TablesDistinct
<1> QED BY <1>2, <1>3, <1>4 DEF Seen, SeenAs, AtRoot, RowsOf

\* A name that no table has.
LEMMA NotFoundSeen ==
  ASSUME Inv, NEW n
  PROVE  Named(n) = {} <=> n \notin DOMAIN TablesSeen
<1>1. SeenByTable
  BY SeenFacts DEF Inv
<1> QED BY <1>1 DEF SeenByTable, Named

\* There are at least as many tables as the SchemaPage has entries.
LEMMA SchemaFits ==
  ASSUME Inv
  PROVE  /\ Cardinality(DOMAIN schema) \in Nat /\ Cardinality(DOMAIN TablesSeen) \in Nat
         /\ Cardinality(DOMAIN schema) <= Cardinality(DOMAIN TablesSeen)
<1> DEFINE S == DOMAIN TablesSeen
           f == [n \in S |-> (CHOOSE t \in Named(n) : TRUE).pageID]
<1>1. SeenByTable
  BY SeenFacts DEF Inv
<1>2. ASSUME NEW n \in S
      PROVE  \E t \in m_tables : t.name = n /\ f[n] = t.pageID
  <2>1. PICK t \in m_tables : t.name = n
    BY <1>1 DEF SeenByTable
  <2>2. Named(n) = {t}
    BY <2>1, TablesDistinct
  <2> QED BY <2>1, <2>2
<1>3. \A n \in S : f[n] \in 1 .. MaxPages
  BY <1>2, InvUnfolded DEF Table, PageID
<1>4. ASSUME NEW n \in S, NEW m \in S, f[n] = f[m]
      PROVE  n = m
  BY <1>2, <1>4, InvUnfolded DEF TablesHaveTrees
<1>5. f \in Injection(S, 1 .. MaxPages)
  <2> DOMAIN f = S /\ f = [n \in S |-> f[n]]
    OBVIOUS
  <2> HIDE DEF f, S
  <2> QED BY <1>3, <1>4 DEF Injection, IsInjective
<1>6. IsFiniteSet(1 .. MaxPages)
  BY FS_Interval
<1>7. IsFiniteSet(S)
  <2> HIDE DEF f, S
  <2> QED BY <1>5, <1>6, FS_Injection
<1>8. DOMAIN schema \subseteq S
  BY <1>1 DEF Inv, CatalogMatches, SeenByTable
<1> HIDE DEF S
<1>9. /\ IsFiniteSet(DOMAIN schema)
      /\ Cardinality(DOMAIN schema) <= Cardinality(S)
  BY <1>7, <1>8, FS_Subset
<1> QED BY <1>7, <1>9, FS_CardinalityType DEF S

\* A step on one table changes what is seen of that table only.
LEMMA OneTableSeen ==
  ASSUME Inv, Inv', NEW t \in m_tables, NEW tree, NEW page, NEW root,
         OneTableStep(t, tree, page, root)
  PROVE  /\ t.name \in Name /\ t.name \in DOMAIN TablesSeen
         /\ DOMAIN TablesSeen' = DOMAIN TablesSeen
         /\ TablesSeen'[t.name] = SeenAs(tree, page, root)
         /\ \A m \in DOMAIN TablesSeen \ {t.name} : TablesSeen'[m] = TablesSeen[m]
         /\ tree.stopped = trees[t.pageID].stopped => BrokenTables' = BrokenTables
         /\ tree.stopped => BrokenTables' = BrokenTables \cup {t.name}
         /\ tree.damaged = trees[t.pageID].damaged => UNCHANGED Damaged
         /\ (trees[t.pageID].damaged => tree.damaged) => (Damaged => Damaged')
<1> DEFINE p == t.pageID
           u == [t EXCEPT !.root = root]
<1>1. /\ t \in Table /\ p \in DOMAIN trees /\ t.name \in Name
      /\ \A a \in m_tables \ {t} : a.pageID \in DOMAIN trees \ {p} /\ a.name # t.name
  BY TableFound, TablesDistinct DEF Inv, TablesHaveTrees, CatalogMatches
<1>2. /\ trees'[p] = tree /\ tablePages'[p] = page
      /\ \A q \in DOMAIN trees \ {p} : trees'[q] = trees[q] /\ tablePages'[q] = tablePages[q]
      /\ m_tables' = (m_tables \ {t}) \cup {u}
      /\ schema' = schema
  BY InvUnfolded DEF OneTableStep, Replaces
<1>3. u.name = t.name /\ u.pageID = p /\ u.root = root
  BY <1>1 DEF Table
<1> HIDE DEF u
<1>4. SeenByTable /\ SeenByTable'
  BY SeenBeforeAfter
<1>5. Seen(u)' = SeenAs(tree, page, root)
  BY <1>2, <1>3 DEF Seen, u
<1>6. Broken(u)' = (tree.stopped \/ t.name \notin DOMAIN schema)
  BY <1>2, <1>3 DEF Broken, u
<1>7. ASSUME NEW a \in m_tables \ {t}
      PROVE  Seen(a)' = Seen(a) /\ Broken(a)' = Broken(a)
  BY <1>1, <1>2 DEF Seen, Broken
<1>8. DOMAIN TablesSeen' = DOMAIN TablesSeen /\ t.name \in DOMAIN TablesSeen
  BY <1>2, <1>3, <1>4 DEF SeenByTable
<1>9. TablesSeen'[t.name] = SeenAs(tree, page, root)
  BY <1>2, <1>3, <1>4, <1>5 DEF SeenByTable, u
<1>10. ASSUME NEW m \in DOMAIN TablesSeen \ {t.name}
       PROVE  TablesSeen'[m] = TablesSeen[m]
  <2>1. PICK a \in m_tables \ {t} : a.name = m
    BY <1>4 DEF SeenByTable
  <2> QED BY <1>2, <1>4, <1>7, <2>1 DEF SeenByTable
<1>11. ASSUME tree.stopped
       PROVE  BrokenTables' = BrokenTables \cup {t.name}
  <2>1. Broken(u)'
    BY <1>6, <1>11
  <2>2. ASSUME NEW m
        PROVE  (\E a \in m_tables' : a.name = m /\ Broken(a)')
               <=> m = t.name \/ \E a \in m_tables : a.name = m /\ Broken(a)
    <3>1. (\E a \in m_tables' : a.name = m /\ Broken(a)')
          <=> (u.name = m /\ Broken(u)') \/ \E a \in m_tables \ {t} : a.name = m /\ Broken(a)'
      BY <1>2 DEF u
    <3>2. (\E a \in m_tables : a.name = m /\ Broken(a))
          <=> (t.name = m /\ Broken(t)) \/ \E a \in m_tables \ {t} : a.name = m /\ Broken(a)
      OBVIOUS
    <3> QED BY <1>3, <1>7, <2>1, <3>1, <3>2
  <2>3. \A m : m \in BrokenTables' <=> m \in BrokenTables \/ m = t.name
    BY <1>4, <2>2 DEF SeenByTable
  <2> QED BY <2>3
<1>12. ASSUME tree.stopped = trees[p].stopped
       PROVE  BrokenTables' = BrokenTables
  <2>1. Broken(u)' = Broken(t)
    BY <1>6, <1>12 DEF Broken
  <2>2. ASSUME NEW m
        PROVE  (\E a \in m_tables' : a.name = m /\ Broken(a)')
               <=> \E a \in m_tables : a.name = m /\ Broken(a)
    <3>1. (\E a \in m_tables' : a.name = m /\ Broken(a)')
          <=> (u.name = m /\ Broken(u)') \/ \E a \in m_tables \ {t} : a.name = m /\ Broken(a)'
      BY <1>2 DEF u
    <3>2. (\E a \in m_tables : a.name = m /\ Broken(a))
          <=> (t.name = m /\ Broken(t)) \/ \E a \in m_tables \ {t} : a.name = m /\ Broken(a)
      OBVIOUS
    <3> QED BY <1>3, <1>7, <2>1, <3>1, <3>2
  <2>3. \A m : m \in BrokenTables' <=> m \in BrokenTables
    BY <1>4, <2>2 DEF SeenByTable
  <2> QED BY <2>3
<1>13. (trees[p].damaged => tree.damaged) => (Damaged => Damaged')
  <2>1. DOMAIN trees' = DOMAIN trees
    BY DEF OneTableStep, Replaces
  <2> QED BY <1>1, <1>2, <2>1 DEF Damaged
<1>14. (tree.damaged => trees[p].damaged) => (Damaged' => Damaged)
  <2>1. DOMAIN trees' = DOMAIN trees
    BY DEF OneTableStep, Replaces
  <2> QED BY <1>1, <1>2, <2>1 DEF Damaged
<1>15. tree.damaged = trees[p].damaged => UNCHANGED Damaged
  <2>1. Damaged \in BOOLEAN /\ Damaged' \in BOOLEAN
    BY DEF Damaged
  <2> QED BY <1>13, <1>14, <2>1
<1> QED BY <1>1, <1>8, <1>9, <1>10, <1>11, <1>12, <1>13, <1>15

\* A step that changes no table, SchemaPage entry, TablePage or tree is not seen.
LEMMA NothingSeen ==
  ASSUME UNCHANGED <<m_tables, schema, tablePages, trees>>
  PROVE  UNCHANGED <<TablesSeen, BrokenTables, Damaged>>
BY DEF TablesSeen, BrokenTables, Damaged, Named, AtRoot, RowsOf

\* A call that ends with Reply gives that answer.
LEMMA ReplyAnswer ==
  ASSUME NEW r, Reply(r)
  PROVE  Catalog!Answer(r)
BY NothingSeen DEF Reply, Catalog!Answer

\* The rows of one table are replaced.
LEMMA RowsSeen ==
  ASSUME SeenByTable, SeenByTable', NEW m \in DOMAIN TablesSeen, NEW types, NEW rows, NEW new,
         DOMAIN TablesSeen' = DOMAIN TablesSeen,
         TablesSeen[m] = [types |-> types, rows |-> rows],
         TablesSeen'[m] = [types |-> types, rows |-> new],
         \A z \in DOMAIN TablesSeen \ {m} : TablesSeen'[z] = TablesSeen[z]
  PROVE  TablesSeen' = [TablesSeen EXCEPT ![m].rows = new]
<1> DEFINE after == [TablesSeen EXCEPT ![m].rows = new]
<1>1. /\ DOMAIN after = DOMAIN TablesSeen
      /\ \A z \in DOMAIN TablesSeen \ {m} : after[z] = TablesSeen[z]
      /\ after[m] = [TablesSeen[m] EXCEPT !.rows = new]
      /\ after = [z \in DOMAIN TablesSeen |-> after[z]]
  OBVIOUS
<1> HIDE DEF after
<1>2. after[m] = [types |-> types, rows |-> new]
  BY <1>1
<1>3. TablesSeen' = [z \in DOMAIN TablesSeen |-> TablesSeen'[z]]
  BY DEF SeenByTable
<1>4. \A z \in DOMAIN TablesSeen : after[z] = TablesSeen'[z]
  BY <1>1, <1>2
<1>5. TablesSeen' = after
  BY <1>1, <1>3, <1>4
<1> QED BY <1>5 DEF after

\* Trees and TablePages that were there keep what they are when one is added.
LEMMA AddedSeen ==
  ASSUME Inv, Inv', NEW n \in Name, Named(n) = {}, NEW types, BuildTable(n, types),
         m_tables' = m_tables \cup {NewTable(n)},
         schema' \in {schema, Bind(schema, n, NewPage(1))}
  PROVE  /\ n \notin DOMAIN TablesSeen
         /\ DOMAIN TablesSeen' = DOMAIN TablesSeen \cup {n}
         /\ TablesSeen'[n] = [types |-> types, rows |-> Empty]
         /\ \A m \in DOMAIN TablesSeen : TablesSeen'[m] = TablesSeen[m]
         /\ \A m : m # n => (m \in BrokenTables' <=> m \in BrokenTables)
         /\ n \notin BrokenTables
         /\ n \in BrokenTables' <=> n \notin DOMAIN schema'
         /\ UNCHANGED Damaged
<1> DEFINE p == NewPage(1)
           r == NewPage(2)
           u == NewTable(n)
<1>1. /\ u.name = n /\ u.pageID = p /\ u.root = r /\ m_tables' = m_tables \cup {u}
      /\ \A a \in m_tables : a.name # n
  BY DEF NewTable, Named
<1>2. /\ trees'[p].rows = Empty /\ trees'[p].root = r /\ ~trees'[p].stopped
      /\ tablePages'[p].types = types
      /\ \A q : q \in DOMAIN trees /\ q # p =>
                  trees'[q] = trees[q] /\ tablePages'[q] = tablePages[q]
  BY InvUnfolded DEF BuildTable, Bind, Empty
<1>3. /\ allocated \in Nat /\ p = allocated + 1
      /\ \A q \in DOMAIN trees : q \in 2 .. allocated
  BY InvUnfolded DEF OwnedApart, Owned, PageID, NewPage, SCHEMA_ID
<1>4. p \notin DOMAIN trees
  BY <1>3
<1>5. \A m : m # n => (m \in DOMAIN schema' <=> m \in DOMAIN schema)
  BY DEF Bind
<1> HIDE DEF u, p, r
<1>6. SeenByTable /\ SeenByTable'
  BY SeenBeforeAfter
<1>7. ASSUME NEW a \in m_tables
      PROVE  Seen(a)' = Seen(a) /\ Broken(a)' = Broken(a)
  <2>1. a.pageID \in DOMAIN trees /\ a.pageID # p /\ a.name # n
    BY <1>1, <1>4, InvUnfolded DEF TablesHaveTrees
  <2> QED BY <1>2, <1>5, <2>1 DEF Seen, Broken
<1>8. TablesSeen'[n] = [types |-> types, rows |-> Empty]
  <2>1. TablesSeen'[n] = SeenAs(trees'[p], tablePages'[p], r)
    BY <1>1, <1>6 DEF SeenByTable, Seen
  <2> QED BY <1>2, <2>1 DEF SeenAs
<1>9. n \notin DOMAIN schema' <=> (trees'[u.pageID].stopped \/ u.name \notin DOMAIN schema')
  BY <1>1, <1>2
<1>10. n \notin DOMAIN TablesSeen /\ n \notin BrokenTables
  BY <1>1, <1>6 DEF SeenByTable
<1>11. DOMAIN TablesSeen' = DOMAIN TablesSeen \cup {n}
  <2>1. \A m : m \in DOMAIN TablesSeen' <=> m \in DOMAIN TablesSeen \/ m = n
    BY <1>1, <1>6 DEF SeenByTable
  <2> QED BY <2>1
<1>12. ASSUME NEW m \in DOMAIN TablesSeen
       PROVE  TablesSeen'[m] = TablesSeen[m]
  <2>1. PICK a \in m_tables : a.name = m
    BY <1>6 DEF SeenByTable
  <2> QED BY <1>1, <1>6, <1>7, <2>1 DEF SeenByTable
<1>13. ASSUME NEW m, m # n
       PROVE  m \in BrokenTables' <=> m \in BrokenTables
  <2>1. (\E a \in m_tables' : a.name = m /\ Broken(a)')
        <=> \E a \in m_tables : a.name = m /\ Broken(a)
    BY <1>1, <1>7, <1>13
  <2> QED BY <1>6, <2>1 DEF SeenByTable
<1>14. n \in BrokenTables' <=> n \notin DOMAIN schema'
  <2>1. \A a \in m_tables' : a.name = n => a = u
    BY <1>1
  <2>2. \A a \in m_tables' : Broken(a)' = (trees'[a.pageID].stopped \/ a.name \notin DOMAIN schema')
    BY DEF Broken
  <2>3. u \in m_tables' /\ u.name = n
    BY <1>1
  <2>4. (\E a \in m_tables' : a.name = n /\ Broken(a)') <=> n \notin DOMAIN schema'
    BY <1>9, <2>1, <2>2, <2>3
  <2> QED BY <1>6, <2>4 DEF SeenByTable
<1>15. UNCHANGED Damaged
  <2>1. /\ DOMAIN trees' = DOMAIN trees \cup {p} /\ ~trees'[p].damaged
        /\ \A q \in DOMAIN trees : trees'[q] = trees[q]
    BY <1>4 DEF BuildTable, Bind, p
  <2>2. Damaged' <=> Damaged
    BY <1>4, <2>1 DEF Damaged
  <2>3. Damaged \in BOOLEAN /\ Damaged' \in BOOLEAN
    BY DEF Damaged
  <2> QED BY <2>2, <2>3
<1> QED BY <1>8, <1>10, <1>11, <1>12, <1>13, <1>14, <1>15

\* createTable is rejected, adds its table, fails on it, or ends the process where
\* Catalog lets it.
LEMMA CreateTableSeen ==
  ASSUME Inv, Inv', NEW n \in Names, NEW types \in Types, CreateTable(n, types)
  PROVE  Catalog!CreateTable(n, types)
<1>1. call' = <<"create", n, types>>
  BY DEF CreateTable
<1>2. SeenByTable /\ SeenByTable'
  BY SeenBeforeAfter
<1>3. ASSUME ~CreateRejected(n)
      PROVE  n \in Name /\ n # BadName /\ Named(n) = {} /\ n \notin DOMAIN TablesSeen
  BY <1>3, NotFoundSeen DEF CreateTable, Names
<1>4. CASE CreateRejected(n)
  <2>1. n \in DOMAIN TablesSeen \cup {BadName}
    BY <1>4, NotFoundSeen DEF CreateRejected
  <2>2. Catalog!Answer("invalid")
    BY <1>4, ReplyAnswer DEF CreateRejected
  <2> QED BY <1>1, <2>1, <2>2 DEF Catalog!CreateTable
<1>5. CASE /\ ~CreateRejected(n) /\ Storable(types) /\ BuildTable(n, types)
           /\ m_tables' = m_tables \cup {NewTable(n)}
           /\ \/ schema' = Bind(schema, n, NewPage(1)) /\ result' = "ok"
              \/ schema' = schema /\ result' = "error"
  <2>1. /\ DOMAIN TablesSeen' = DOMAIN TablesSeen \cup {n}
        /\ TablesSeen'[n] = [types |-> types, rows |-> Empty]
        /\ \A m \in DOMAIN TablesSeen : TablesSeen'[m] = TablesSeen[m]
        /\ \A m : m # n => (m \in BrokenTables' <=> m \in BrokenTables)
        /\ n \notin BrokenTables
        /\ n \in BrokenTables' <=> n \notin DOMAIN schema'
        /\ UNCHANGED Damaged
    BY <1>3, <1>5, AddedSeen
  <2>2. TablesSeen' = Catalog!Bind(TablesSeen, n, [types |-> types, rows |-> [k \in {} |-> {}]])
    <3>1. Empty = [k \in {} |-> {}]
      BY DEF Empty
    <3>2. TablesSeen' = [m \in DOMAIN TablesSeen \cup {n} |->
                           IF m = n THEN [types |-> types, rows |-> Empty] ELSE TablesSeen[m]]
      <4>1. TablesSeen' = [m \in DOMAIN TablesSeen \cup {n} |-> TablesSeen'[m]]
        BY <1>2, <2>1 DEF SeenByTable
      <4> QED BY <2>1, <4>1
    <3> QED BY <3>1, <3>2 DEF Catalog!Bind
  <2>3. CASE schema' = Bind(schema, n, NewPage(1)) /\ result' = "ok"
    <3>1. n \notin BrokenTables'
      BY <2>1, <2>3 DEF Bind
    <3>2. \A m : m \in BrokenTables' <=> m \in BrokenTables
      BY <2>1, <3>1
    <3>3. BrokenTables' = BrokenTables
      BY <3>2
    <3>4. Catalog!AddTable(n, types)
      BY <1>3, <1>5, <2>1, <2>2, <2>3, <3>3 DEF Catalog!AddTable, Catalog!Storable, Storable
    <3> QED BY <1>1, <3>4 DEF Catalog!CreateTable
  <2>4. CASE schema' = schema /\ result' = "error"
    <3>1. n \notin DOMAIN schema
      BY <1>3, <1>5 DEF Inv, CatalogMatches, Named
    <3>2. \A m : m \in BrokenTables' <=> m \in BrokenTables \/ m = n
      BY <2>1, <2>4, <3>1
    <3>3. BrokenTables' = BrokenTables \cup {n}
      BY <3>2
    <3>4. Catalog!AddTable(n, types)
      BY <1>3, <1>5, <2>1, <2>2, <2>4, <3>3 DEF Catalog!AddTable, Catalog!Storable, Storable
    <3> QED BY <1>1, <3>4 DEF Catalog!CreateTable
  <2> QED BY <1>5, <2>3, <2>4
<1>6. CASE ~CreateRejected(n) /\ CreateStopsEarly(n, types)
  <2>1. Catalog!Answer("error")
    BY <1>6, NothingSeen DEF CreateStopsEarly, Catalog!Answer
  <2> QED BY <1>1, <1>3, <1>6, <2>1 DEF Catalog!CreateTable
<1>7. CASE ~CreateRejected(n) /\ CreateDies(n, types)
  <2>1. Catalog!Answer("dead")
    BY <1>7, NothingSeen DEF CreateDies, Catalog!Answer
  <2>2. ~Storable(types) \/ Cardinality(DOMAIN schema) >= MaxTables
    BY <1>7 DEF CreateDies
  <2>3. ~Catalog!Storable(types) \/ Cardinality(DOMAIN TablesSeen) >= MaxTables
    BY <2>2, SchemaFits DEF Catalog!Storable, Storable
  <2>4. n \notin DOMAIN TablesSeen \cup {BadName}
    BY <1>3, <1>7
  <2>5. \/ ~Catalog!Storable(types) /\ Catalog!Answer("dead")
        \/ Cardinality(DOMAIN TablesSeen) >= MaxTables /\ Catalog!Answer("dead")
    BY <2>1, <2>3
  <2>6. Catalog!Cardinality(DOMAIN TablesSeen) = Cardinality(DOMAIN TablesSeen)
    BY DEF Catalog!Cardinality, Cardinality
  <2> QED BY <1>1, <2>4, <2>5, <2>6 DEF Catalog!CreateTable
<1>8. CASE ~CreateRejected(n) /\ CreateDone(n, types)
  <2>1. n \notin DOMAIN schema
    BY <1>3, <1>8 DEF Inv, CatalogMatches, Named
  <2> QED BY <1>5, <1>8, <2>1 DEF CreateDone
<1>9. CASE ~CreateRejected(n) /\ CreateStopsLate(n, types)
  BY <1>5, <1>9 DEF CreateStopsLate
<1> QED BY <1>4, <1>6, <1>7, <1>8, <1>9 DEF CreateTable

\* dropTable takes its table out, or answers as Catalog does; only a broken table may
\* end the process.
LEMMA DropTableSeen ==
  ASSUME Inv, Inv', NEW n \in Names, DropTable(n)
  PROVE  Catalog!DropTable(n)
<1>1. call' = <<"drop", n>>
  BY DEF DropTable
<1>2. SeenByTable /\ SeenByTable'
  BY SeenBeforeAfter
<1>3. CASE Named(n) = {} /\ Reply("invalid")
  BY <1>1, <1>3, NotFoundSeen, ReplyAnswer DEF Catalog!DropTable
<1>4. CASE Named(n) # {} /\ Reply("error")
  BY <1>1, <1>4, NotFoundSeen, ReplyAnswer DEF Catalog!DropTable
<1>5. CASE Named(n) # {} /\ n \notin DOMAIN schema /\ Reply("dead")
  <2>1. n \in BrokenTables
    BY <1>2, <1>5 DEF SeenByTable, Broken, Named
  <2> QED BY <1>1, <1>5, <2>1, ReplyAnswer DEF Catalog!DropTable
<1>6. CASE /\ n \in DOMAIN schema
           /\ schema' = Without(schema, n)
           /\ m_tables' = m_tables \ Named(n)
           /\ result' = "ok"
           /\ UNCHANGED <<tablePages, trees, allocated>>
  <2>1. n \in DOMAIN TablesSeen
    BY <1>2, <1>6 DEF SeenByTable, Inv, CatalogMatches
  <2>2. m_tables' = {t \in m_tables : t.name # n}
    BY <1>6 DEF Named
  <2>3. \A t \in m_tables' : t \in m_tables /\ Seen(t)' = Seen(t) /\ Broken(t)' = Broken(t)
    BY <1>6, <2>2 DEF Seen, Broken, Without
  <2>4. DOMAIN TablesSeen' = DOMAIN TablesSeen \ {n}
    <3>1. \A m : m \in DOMAIN TablesSeen' <=> m \in DOMAIN TablesSeen /\ m # n
      BY <1>2, <2>2 DEF SeenByTable
    <3> QED BY <3>1
  <2>5. ASSUME NEW m \in DOMAIN TablesSeen'
        PROVE  TablesSeen'[m] = TablesSeen[m]
    <3>1. PICK t \in m_tables' : t.name = m
      BY <1>2 DEF SeenByTable
    <3> QED BY <1>2, <2>3, <3>1 DEF SeenByTable
  <2>6. TablesSeen' = Catalog!Without(TablesSeen, n)
    <3>1. TablesSeen' = [m \in DOMAIN TablesSeen \ {n} |-> TablesSeen'[m]]
      BY <1>2, <2>4 DEF SeenByTable
    <3>2. TablesSeen' = [m \in DOMAIN TablesSeen \ {n} |-> TablesSeen[m]]
      BY <2>4, <2>5, <3>1
    <3> QED BY <3>2 DEF Catalog!Without
  <2>7. BrokenTables' = BrokenTables \ {n}
    <3>1. \A m : (\E t \in m_tables' : t.name = m /\ Broken(t)')
                 <=> m # n /\ \E t \in m_tables : t.name = m /\ Broken(t)
      BY <2>2, <2>3
    <3>2. \A m : m \in BrokenTables' <=> m \in BrokenTables /\ m # n
      BY <1>2, <3>1 DEF SeenByTable
    <3> QED BY <3>2
  <2>8. UNCHANGED Damaged
    BY <1>6 DEF Damaged
  <2> QED BY <1>1, <1>6, <2>1, <2>6, <2>7, <2>8 DEF Catalog!DropTable
<1> QED BY <1>3, <1>4, <1>5, <1>6 DEF DropTable

\* The answers of insertTuple and updateTuple that tell of no key.
LEMMA RejectedSeen ==
  ASSUME Inv, NEW n, NEW types, NoSuchTable(n) \/ WrongTypes(n, types) \/ StopsUnchanged(n)
  PROVE  Catalog!NoSuchTable(n) \/ Catalog!WrongTypes(n, types) \/ Catalog!FailUnchanged(n)
<1>1. CASE NoSuchTable(n)
  BY <1>1, NotFoundSeen, ReplyAnswer DEF NoSuchTable, Catalog!NoSuchTable
<1>2. CASE WrongTypes(n, types)
  <2>1. PICK t \in Named(n) : ~Fits(t, types)
    BY <1>2 DEF WrongTypes
  <2>2. n \in DOMAIN TablesSeen /\ types # TablesSeen[n].types
    BY <2>1, FoundSeen DEF Fits
  <2> QED BY <1>2, <2>2, ReplyAnswer DEF WrongTypes, Catalog!WrongTypes
<1>3. CASE StopsUnchanged(n)
  BY <1>3, NotFoundSeen, ReplyAnswer DEF StopsUnchanged, Catalog!FailUnchanged
<1> QED BY <1>1, <1>2, <1>3

\* insertTuple inserts the row of a new key and only that, or breaks its table; its
\* answer is false only for a key that is there or a table that is not.
LEMMA InsertTupleSeen ==
  ASSUME Inv, Inv', NEW n \in Name, NEW types \in Types, NEW k \in Key, NEW v \in Value,
         InsertTuple(n, types, k, v)
  PROVE  Catalog!InsertTuple(n, types, k, v)
<1>1. call' = <<"insert", n, types, k, v>>
  BY DEF InsertTuple
<1>2. CASE NoSuchTable(n) \/ WrongTypes(n, types) \/ StopsUnchanged(n)
  BY <1>1, <1>2, RejectedSeen DEF Catalog!InsertTuple
<1>3. CASE InsertDuplicate(n, types, k)
  <2>1. PICK t \in Named(n) : AtRoot(t) /\ Fits(t, types) /\ k \in DOMAIN RowsOf(t)
    BY <1>3 DEF InsertDuplicate
  <2>2. /\ n \in DOMAIN TablesSeen /\ types = TablesSeen[n].types
        /\ k \in Catalog!Keys(n)
    BY <2>1, FoundSeen DEF Fits, Catalog!Keys
  <2>3. Catalog!Answer("false")
    BY <1>3, ReplyAnswer DEF InsertDuplicate
  <2> QED BY <1>1, <2>2, <2>3 DEF Catalog!InsertTuple
<1>4. CASE InsertRow(n, types, k, v)
  <2>1. PICK t \in m_tables :
          /\ t.name = n /\ AtRoot(t) /\ Fits(t, types) /\ k \notin DOMAIN RowsOf(t)
          /\ \E tree, page : InsertOutcome(t, k, v, tree, page)
    BY <1>4, InsertRowStep
  <2>2. PICK tree, page : InsertOutcome(t, k, v, tree, page)
    BY <2>1
  <2> DEFINE old == trees[t.pageID]
             was == tablePages[t.pageID]
  <2>3. /\ OneTableStep(t, tree, page, tree.root)
        /\ tree.rows = Bind(old.rows, k, v) /\ page.types = was.types
        /\ \/ result' = "true" /\ tree.stopped = old.stopped /\ tree.damaged = old.damaged
           \/ result' = "error" /\ tree.stopped /\ (old.damaged => tree.damaged)
    BY <2>2 DEF InsertOutcome
  <2>4. t \in Named(n)
    BY <2>1 DEF Named
  <2>5. /\ n \in DOMAIN TablesSeen
        /\ TablesSeen[n] = [types |-> was.types, rows |-> old.rows]
    BY <2>1, <2>4, FoundSeen DEF RowsOf
  <2>6. /\ DOMAIN TablesSeen' = DOMAIN TablesSeen
        /\ TablesSeen'[n] = SeenAs(tree, page, tree.root)
        /\ \A m \in DOMAIN TablesSeen \ {n} : TablesSeen'[m] = TablesSeen[m]
        /\ tree.stopped = old.stopped => BrokenTables' = BrokenTables
        /\ tree.stopped => BrokenTables' = BrokenTables \cup {n}
        /\ tree.damaged = old.damaged => UNCHANGED Damaged
        /\ (old.damaged => tree.damaged) => (Damaged => Damaged')
    BY <2>1, <2>3, OneTableSeen
  <2>7. TablesSeen'[n] = [types |-> was.types, rows |-> Bind(old.rows, k, v)]
    BY <2>3, <2>6 DEF SeenAs
  <2>8. TablesSeen[n].rows = old.rows /\ TablesSeen[n].types = was.types
    BY <2>5
  <2>9. Catalog!Bind(TablesSeen[n].rows, k, v) = Bind(old.rows, k, v)
    BY <2>8 DEF Bind, Catalog!Bind
  <2>10. SeenByTable /\ SeenByTable'
    BY SeenBeforeAfter
  <2>11. TablesSeen' = [TablesSeen EXCEPT ![n].rows = Catalog!Bind(TablesSeen[n].rows, k, v)]
    <3>1. TablesSeen' = [TablesSeen EXCEPT ![n].rows = Bind(old.rows, k, v)]
      <4> HIDE DEF old, was
      <4> QED BY <2>5, <2>6, <2>7, <2>10, RowsSeen
    <3> QED BY <2>9, <3>1
  <2>12. k \notin Catalog!Keys(n) /\ types = TablesSeen[n].types
    BY <2>1, <2>8 DEF Catalog!Keys, Fits, RowsOf
  <2>13. (Damaged => Damaged') => Damaged' \in {Damaged, TRUE}
    <3>1. Damaged \in BOOLEAN /\ Damaged' \in BOOLEAN
      BY DEF Damaged
    <3> QED BY <3>1
  <2>14. Catalog!InsertRow(n, k, v)
    BY <2>3, <2>6, <2>11, <2>12, <2>13 DEF Catalog!InsertRow
  <2> QED BY <1>1, <2>5, <2>12, <2>14 DEF Catalog!InsertTuple
<1> QED BY <1>2, <1>3, <1>4 DEF InsertTuple

\* updateTuple changes the row of a key that is there and only that; its answer is
\* false only for a key or a table that is not there.
LEMMA UpdateTupleSeen ==
  ASSUME Inv, Inv', NEW n \in Name, NEW types \in Types, NEW k \in Key, NEW v \in Value,
         UpdateTuple(n, types, k, v)
  PROVE  Catalog!UpdateTuple(n, types, k, v)
<1>1. call' = <<"update", n, types, k, v>>
  BY DEF UpdateTuple
<1>2. CASE NoSuchTable(n) \/ WrongTypes(n, types) \/ StopsUnchanged(n)
  BY <1>1, <1>2, RejectedSeen DEF Catalog!UpdateTuple
<1>3. CASE UpdateRow(n, types, k, v)
  <2>1. PICK t \in Named(n) :
          /\ AtRoot(t) /\ Fits(t, types)
          /\ \/ /\ k \in DOMAIN RowsOf(t)
                /\ trees' = [trees EXCEPT ![t.pageID].rows[k] = v]
                /\ result' = "true"
                /\ UNCHANGED <<m_tables, schema, tablePages, allocated>>
             \/ k \notin DOMAIN RowsOf(t) /\ Reply("false")
    BY <1>3 DEF UpdateRow
  <2> DEFINE old == trees[t.pageID]
             was == tablePages[t.pageID]
             tree == [old EXCEPT !.rows = [@ EXCEPT ![k] = v]]
  <2>2. /\ t \in m_tables /\ t.name = n /\ n \in DOMAIN TablesSeen
        /\ TablesSeen[n] = [types |-> was.types, rows |-> old.rows]
        /\ TablesSeen[n].types = was.types /\ TablesSeen[n].rows = old.rows
    BY <2>1, FoundSeen DEF RowsOf
  <2>3. types = TablesSeen[n].types /\ Catalog!Keys(n) = DOMAIN old.rows
    BY <2>1, <2>2 DEF Fits, Catalog!Keys
  <2>4. CASE k \notin DOMAIN RowsOf(t) /\ Reply("false")
    BY <1>1, <2>2, <2>3, <2>4, ReplyAnswer DEF RowsOf, Catalog!UpdateTuple
  <2>5. CASE /\ k \in DOMAIN RowsOf(t)
             /\ trees' = [trees EXCEPT ![t.pageID].rows[k] = v]
             /\ result' = "true"
             /\ UNCHANGED <<m_tables, schema, tablePages, allocated>>
    <3>1. /\ OneTableStep(t, tree, was, t.root)
          /\ tree.root = t.root
          /\ tree.rows = [old.rows EXCEPT ![k] = v]
          /\ tree.stopped = old.stopped /\ tree.damaged = old.damaged
      BY <2>1, <2>2, <2>5, UpdateStep
    <3>2. k \in DOMAIN old.rows
      BY <2>5 DEF RowsOf
    <3> HIDE DEF tree
    <3>3. /\ DOMAIN TablesSeen' = DOMAIN TablesSeen
          /\ TablesSeen'[n] = SeenAs(tree, was, t.root)
          /\ \A m \in DOMAIN TablesSeen \ {n} : TablesSeen'[m] = TablesSeen[m]
          /\ BrokenTables' = BrokenTables /\ UNCHANGED Damaged
      BY <2>2, <3>1, OneTableSeen
    <3>4. TablesSeen'[n] = [types |-> was.types, rows |-> [old.rows EXCEPT ![k] = v]]
      BY <3>1, <3>3 DEF SeenAs
    <3>5. SeenByTable /\ SeenByTable'
      BY SeenBeforeAfter
    <3>6. TablesSeen' = [TablesSeen EXCEPT ![n].rows = [old.rows EXCEPT ![k] = v]]
      <4> HIDE DEF old, was
      <4> QED BY <2>2, <3>3, <3>4, <3>5, RowsSeen
    <3>7. TablesSeen' = [TablesSeen EXCEPT ![n].rows[k] = v]
      BY <2>2, <3>6
    <3> QED BY <1>1, <2>2, <2>3, <2>5, <3>2, <3>3, <3>7
            DEF Catalog!UpdateTuple, Catalog!UpdateRow
  <2> QED BY <2>1, <2>4, <2>5
<1> QED BY <1>2, <1>3 DEF UpdateTuple

\* removeTuple answers false for every key of the right type.
LEMMA RemoveTupleSeen ==
  ASSUME Inv, NEW n \in Name, NEW type \in KeyTypes, NEW k \in Key, RemoveTuple(n, type, k)
  PROVE  Catalog!RemoveNothing(n, type, k)
<1>1. call' = <<"remove", n, type, k>>
  BY DEF RemoveTuple
<1>2. CASE NoSuchTable(n)
  BY <1>1, <1>2, NotFoundSeen, ReplyAnswer DEF NoSuchTable, Catalog!NoSuchTable, Catalog!RemoveNothing
<1>3. CASE StopsUnchanged(n)
  BY <1>1, <1>3, NotFoundSeen, ReplyAnswer
  DEF StopsUnchanged, Catalog!FailUnchanged, Catalog!RemoveNothing
<1>4. CASE RemoveRow(n, type)
  <2>1. PICK t \in Named(n) :
          Reply(IF type = tablePages[t.pageID].types[1] THEN "false" ELSE "invalid")
    BY <1>4 DEF RemoveRow
  <2>2. n \in DOMAIN TablesSeen /\ TablesSeen[n].types = tablePages[t.pageID].types
    BY <2>1, FoundSeen
  <2>3. Catalog!Answer(IF type = TablesSeen[n].types[1] THEN "false" ELSE "invalid")
    BY <2>1, <2>2, ReplyAnswer
  <2> QED BY <1>1, <2>2, <2>3 DEF Catalog!WrongKeyType, Catalog!RemoveNothing
<1> QED BY <1>2, <1>3, <1>4 DEF RemoveTuple

\* A table that no call has failed on has the root that its TablePage names, so that
\* it is opened with the rows it had.
LEMMA ReopenSeen ==
  ASSUME Inv, Inv', Reopen
  PROVE  Catalog!Open
<1>1. /\ m_tables' = Opened
      /\ UNCHANGED <<schema, tablePages, trees, allocated>>
      /\ call' = <<"open">> /\ result' = "ok"
  BY DEF Reopen
<1>2. SeenByTable /\ SeenByTable'
  BY SeenBeforeAfter
<1>3. \A t \in m_tables' :
        /\ t.name \in DOMAIN schema /\ t.pageID = schema[t.name]
        /\ t.root = tablePages[t.pageID].btreePageID
  BY <1>1 DEF Opened
<1>4. \A t \in m_tables, n \in DOMAIN schema : t.name = n => t.pageID = schema[n]
  BY InvUnfolded DEF CatalogMatches
<1>5. \A n \in DOMAIN schema :
        (\E t \in m_tables : t.name = n) /\ (\E t \in m_tables' : t.name = n)
  BY <1>1 DEF Inv, CatalogMatches
<1>6. ASSUME NEW n, n \notin BrokenTables
      PROVE  /\ n \in DOMAIN TablesSeen' <=> n \in DOMAIN TablesSeen
             /\ n \in DOMAIN TablesSeen => TablesSeen'[n] = TablesSeen[n]
             /\ n \notin BrokenTables'
  <2>1. CASE n \notin DOMAIN schema
    <3>1. ~\E t \in m_tables : t.name = n
      BY <1>2, <1>6, <2>1 DEF SeenByTable, Broken
    <3>2. ~\E t \in m_tables' : t.name = n
      BY <1>3, <2>1
    <3> QED BY <1>2, <3>1, <3>2 DEF SeenByTable
  <2>2. CASE n \in DOMAIN schema
    <3>1. PICK t \in m_tables : t.name = n
      BY <1>5, <2>2
    <3>2. PICK u \in m_tables' : u.name = n
      BY <1>5, <2>2
    <3>3. u.pageID = t.pageID
      BY <1>3, <1>4, <2>2, <3>1, <3>2
    <3>4. ~trees[t.pageID].stopped
      BY <1>2, <1>6, <3>1 DEF SeenByTable, Broken
    <3>5. /\ tablePages[t.pageID].btreePageID = trees[t.pageID].root
          /\ t.root = trees[t.pageID].root
      BY <3>4, InvUnfolded DEF TablesHaveTrees, Agree
    <3>6. u.root = t.root
      BY <1>3, <3>3, <3>5
    <3>7. Seen(u)' = Seen(t)
      BY <1>1, <3>3, <3>6 DEF Seen
    <3>8. TablesSeen'[n] = TablesSeen[n]
      BY <1>2, <3>1, <3>2, <3>7 DEF SeenByTable
    <3>9. \A a \in m_tables' : a.name = n => ~Broken(a)'
      <4>1. \A a \in m_tables' : a.name = n => a.pageID = t.pageID
        BY <1>3, <1>4, <2>2, <3>1
      <4> QED BY <1>1, <2>2, <3>4, <4>1 DEF Broken
    <3> QED BY <1>2, <3>1, <3>2, <3>8, <3>9 DEF SeenByTable
  <2> QED BY <2>1, <2>2
<1>7. BrokenTables' \subseteq BrokenTables
  BY <1>6
<1>8. DOMAIN TablesSeen' \ BrokenTables = DOMAIN TablesSeen \ BrokenTables
  <2>1. \A n : n \in DOMAIN TablesSeen' \ BrokenTables <=> n \in DOMAIN TablesSeen \ BrokenTables
    BY <1>6
  <2> QED BY <2>1
<1>9. \A n \in DOMAIN TablesSeen \ BrokenTables : TablesSeen'[n] = TablesSeen[n]
  BY <1>6
<1>10. UNCHANGED Damaged
  BY <1>1 DEF Damaged
<1> QED BY <1>1, <1>7, <1>8, <1>9, <1>10 DEF Catalog!Open

\* The engine starts where Catalog starts.
LEMMA CatalogInit == Init => Catalog!Init
<1> SUFFICES ASSUME Init PROVE Catalog!Init
  OBVIOUS
<1>1. m_tables = {} /\ DOMAIN trees = {} /\ call = <<"open">> /\ result = "ok"
  BY DEF Init
<1>2. TablesSeen = [n \in {} |-> {}]
  BY <1>1 DEF TablesSeen
<1>3. BrokenTables = {}
  BY <1>1 DEF BrokenTables
<1>4. Damaged = FALSE
  BY <1>1 DEF Damaged
<1> QED BY <1>1, <1>2, <1>3, <1>4 DEF Catalog!Init

\* Every step of the engine is a step of Catalog, or is not seen.
LEMMA CatalogNext == Inv /\ Inv' /\ [Next]_vars => [Catalog!NextSoFar]_(Catalog!vars)
<1> SUFFICES ASSUME Inv, Inv', [Next]_vars PROVE Catalog!NextSoFar \/ UNCHANGED Catalog!vars
  OBVIOUS
<1>1. ASSUME NEW n \in Names, DropTable(n)
      PROVE  Catalog!NextSoFar
  BY <1>1, DropTableSeen DEF Names, Catalog!NextSoFar, Catalog!NextButRemove
<1>2. ASSUME NEW n \in Names, NEW types \in Types, CreateTable(n, types)
      PROVE  Catalog!NextSoFar
  BY <1>2, CreateTableSeen DEF Names, Catalog!NextSoFar, Catalog!NextButRemove
<1>3. ASSUME NEW n \in Name, NEW types \in Types, NEW k \in Key, NEW v \in Value,
             InsertTuple(n, types, k, v) \/ UpdateTuple(n, types, k, v)
      PROVE  Catalog!NextSoFar
  BY <1>3, InsertTupleSeen, UpdateTupleSeen DEF Catalog!NextSoFar, Catalog!NextButRemove
<1>4. ASSUME NEW n \in Name, NEW k \in Key, NEW type \in KeyTypes, RemoveTuple(n, type, k)
      PROVE  Catalog!NextSoFar
  BY <1>4, RemoveTupleSeen DEF KeyTypes, Catalog!KeyTypes, Catalog!NextSoFar
<1>5. CASE DamageFound
  <2>1. call' = <<"any">> /\ Damaged /\ Catalog!Answer("dead")
    BY <1>5, ReplyAnswer DEF DamageFound, Damaged
  <2> QED BY <2>1 DEF Catalog!Die, Catalog!NextSoFar, Catalog!NextButRemove
<1>6. CASE Reopen
  BY <1>6, ReopenSeen DEF Catalog!NextSoFar, Catalog!NextButRemove
<1>7. CASE Dead \/ UNCHANGED vars
  <2>1. UNCHANGED <<TablesSeen, BrokenTables, Damaged, call, result>>
    BY <1>7, NothingSeen DEF Dead, vars
  <2> QED BY <2>1 DEF Catalog!vars
<1> QED
  BY <1>1, <1>2, <1>3, <1>4, <1>5, <1>6, <1>7 DEF Next

\* Every call but removeTuple has the promised effect on the table it names and on no
\* other, and gives each of its answers only where the headers allow it, whatever pages
\* are refused and wherever the file fails; removeTuple changes nothing.  A table that
\* no call has failed on is the same after the database was closed and opened again.
THEOREM EngineImplementsCatalog == Spec => ImplementsCatalog
<1>1. Spec => Catalog!Init /\ [][Catalog!NextSoFar]_(Catalog!vars)
  BY CatalogInit, CatalogNext, Invariance, PTL DEF Spec
<1> QED BY <1>1 DEF ImplementsCatalog, Catalog!SpecSoFar

=============================================================================
