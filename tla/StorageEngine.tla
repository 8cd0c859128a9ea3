---------------------------- MODULE StorageEngine ----------------------------
(***************************************************************************)
(* StorageEngine with its SchemaPage, and the tables with their TablePages *)
(* (src/src/backend).  What a table is, is kept in several places: in      *)
(* m_tables and in the SchemaPage, its root in Btree and in the TablePage, *)
(* its rows in the tree and their number in the TablePage.  Each call is   *)
(* one action, with an alternative for every place where it may stop: a    *)
(* page is refused, or the file fails below getPage.                       *)
(*                                                                         *)
(* A tree is seen as its rows, its root and its height (module Btree has   *)
(* its nodes).  Pages are numbered in the order in which they are handed   *)
(* out: no code under src frees one.                                       *)
(***************************************************************************)
EXTENDS Integers, Sequences, FiniteSets

CONSTANTS Name,       \* the table names that createTable accepts
          BadName,    \* a name that is empty or too long
          Types,      \* lists of column types
          Key, Value,
          MaxPages,   \* the pages the database can hold
          MaxTables,  \* the entries a SchemaPage has room for
          MaxTypes,   \* the columns a TablePage has room for
          Degree

ASSUME TypesAssumption == \A t \in Types : t \in Seq(STRING)
ASSUME SizesAssumption ==
  /\ MaxPages \in Nat \ {0}
  /\ MaxTables \in Nat
  /\ MaxTypes \in Nat \ {0}
  /\ Degree \in Nat /\ Degree >= 2
ASSUME BadNameAssumption == BadName \notin Name

VARIABLES m_tables,    \* the Table objects
          schema,      \* SchemaPage::m_tables, name -> page id of the table
          tablePages,  \* page id -> TablePage
          trees,       \* page id of a table -> its tree, as it is in the pages
          allocated,   \* how many pages were handed out
          call,        \* the last call, with its arguments
          result       \* how it ended; "dead" is an assertion that failed

vars == <<m_tables, schema, tablePages, trees, allocated, call, result>>

SCHEMA_ID == 1
PGID_INVALID == 0

\* main creates the SchemaPage, and the engine finds it empty.
Init ==
  /\ m_tables = {}
  /\ schema = [n \in {} |-> 0]
  /\ tablePages = [p \in {} |-> 0]
  /\ trees = [p \in {} |-> 0]
  /\ allocated = SCHEMA_ID
  /\ call = <<"open">>
  /\ result = "ok"

-----------------------------------------------------------------------------
(* Pages and tables *)

Bind(f, x, y) == [z \in DOMAIN f \cup {x} |-> IF z = x THEN y ELSE f[z]]
Without(f, x) == [z \in DOMAIN f \ {x} |-> f[z]]

\* The i-th page that the running call is given.
NewPage(i) == allocated + i
CanTake(count) == allocated + count <= MaxPages

Running == result # "dead"
Named(n) == {t \in m_tables : t.name = n}

\* A tree that was opened at a root it no longer has is not followed further.
AtRoot(t) == t.root = trees[t.pageID].root

\* A call that changes nothing.
Reply(r) == result' = r /\ UNCHANGED <<m_tables, schema, tablePages, trees, allocated>>

-----------------------------------------------------------------------------
(* createTable and dropTable *)

\* A bad name, or one that a table has.
CreateRejected(n) == (n = BadName \/ Named(n) # {}) /\ Reply("invalid")

\* The constructor of Table: its TablePage, then the first node of its tree.
NewTable(n) == [name |-> n, pageID |-> NewPage(1), root |-> NewPage(2)]

\* Mutant: setBtreePageID is not called.
BuildTableUnset(n, types) ==
  /\ tablePages' = Bind(tablePages, NewPage(1),
                        [types |-> types, btreePageID |-> PGID_INVALID, numTuples |-> 0])
  /\ trees' = Bind(trees, NewPage(1),
                   [rows |-> [k \in {} |-> 0], root |-> NewPage(2), height |-> 0,
                    damaged |-> FALSE, stopped |-> FALSE])
  /\ allocated' = allocated + 2

\* Mutant: the page of the first node is handed out again.
BuildTableOnePage(n, types) ==
  /\ tablePages' = Bind(tablePages, NewPage(1),
                        [types |-> types, btreePageID |-> NewPage(2), numTuples |-> 0])
  /\ trees' = Bind(trees, NewPage(1),
                   [rows |-> [k \in {} |-> 0], root |-> NewPage(2), height |-> 0,
                    damaged |-> FALSE, stopped |-> FALSE])
  /\ allocated' = allocated + 1

BuildTable(n, types) ==
  /\ tablePages' = Bind(tablePages, NewPage(1),
                        [types |-> types, btreePageID |-> NewPage(2), numTuples |-> 0])
  /\ trees' = Bind(trees, NewPage(1),
                   [rows |-> [k \in {} |-> 0], root |-> NewPage(2), height |-> 0,
                    damaged |-> FALSE, stopped |-> FALSE])
  /\ allocated' = allocated + 2

\* TablePage asserts that it has types, and not too many.
Storable(types) == types # << >> /\ Len(types) <= MaxTypes

\* The assertions of the constructor of TablePage, and of addTable of the SchemaPage.
CreateDies(n, types) ==
  /\ \/ ~Storable(types) /\ CanTake(1)
     \/ Storable(types) /\ Cardinality(DOMAIN schema) >= MaxTables /\ CanTake(2)
  /\ result' = "dead"
  /\ UNCHANGED <<m_tables, schema, tablePages, trees, allocated>>

CreateDone(n, types) ==
  /\ Storable(types) /\ CanTake(2)
  /\ Cardinality(DOMAIN schema) < MaxTables
  /\ BuildTable(n, types)
  /\ m_tables' = m_tables \cup {NewTable(n)}
  /\ schema' = IF n \in DOMAIN schema THEN schema ELSE Bind(schema, n, NewPage(1))
  /\ result' = "ok"

\* The constructor of Table throws: the pages it has taken belong to nobody.
CreateStopsEarly(n, types) ==
  \E taken \in 0 .. 2 :
    /\ CanTake(taken)
    /\ ~Storable(types) => taken = 0
    /\ allocated' = allocated + taken
    /\ result' = "error"
    /\ UNCHANGED <<m_tables, schema, tablePages, trees>>

\* The SchemaPage cannot be retrieved: the table is in m_tables only.
CreateStopsLate(n, types) ==
  /\ Storable(types) /\ CanTake(2)
  /\ BuildTable(n, types)
  /\ m_tables' = m_tables \cup {NewTable(n)}
  /\ result' = "error"
  /\ UNCHANGED schema

CreateTable(n, types) ==
  /\ Running
  /\ call' = <<"create", n, types>>
  /\ \/ CreateRejected(n)
     \/ /\ n # BadName /\ Named(n) = {}
        /\ \/ CreateDone(n, types)
           \/ CreateStopsEarly(n, types)
           \/ CreateStopsLate(n, types)
           \/ CreateDies(n, types)

\* Mutant: the table stays in the SchemaPage.
DropTableListed(n) ==
  /\ Running
  /\ call' = <<"drop", n>>
  /\ Named(n) # {}
  /\ m_tables' = m_tables \ Named(n)
  /\ result' = "ok"
  /\ UNCHANGED <<schema, tablePages, trees, allocated>>

\* removeTable asserts that the SchemaPage has the table; Table::drop is empty.
DropTable(n) ==
  /\ Running
  /\ call' = <<"drop", n>>
  /\ \/ Named(n) = {} /\ Reply("invalid")
     \/ Named(n) # {} /\ Reply("error")
     \/ Named(n) # {} /\ n \notin DOMAIN schema /\ Reply("dead")
     \/ /\ n \in DOMAIN schema
        /\ schema' = Without(schema, n)
        /\ m_tables' = m_tables \ Named(n)
        /\ result' = "ok"
        /\ UNCHANGED <<tablePages, trees, allocated>>

-----------------------------------------------------------------------------
(* The calls on tuples *)

Fits(t, types) == types = tablePages[t.pageID].types
RowsOf(t) == trees[t.pageID].rows

\* No table has the name.
NoSuchTable(n) == Named(n) = {} /\ Reply("false")

WrongTypes(n, types) == (\E t \in Named(n) : ~Fits(t, types)) /\ Reply("invalid")

\* A page cannot be read or evicted before anything has changed.
StopsUnchanged(n) == Named(n) # {} /\ Reply("error")

\* Mutant: addTuple is called for a tuple that was not inserted.
InsertDuplicateCounted(n, types, k) ==
  /\ \E t \in Named(n) :
       /\ AtRoot(t) /\ Fits(t, types) /\ k \in DOMAIN RowsOf(t)
       /\ tablePages' = [tablePages EXCEPT ![t.pageID].numTuples = @ + 1]
  /\ result' = "false"
  /\ UNCHANGED <<m_tables, schema, trees, allocated>>

InsertDuplicate(n, types, k) ==
  /\ \E t \in Named(n) : AtRoot(t) /\ Fits(t, types) /\ k \in DOMAIN RowsOf(t)
  /\ Reply("false")

\* What a split may be: of as many nodes below the root, and of the root or not.
\* The root is split when it is a full leaf, and later only after the levels below;
\* how full nodes are in a higher tree is not kept.
Splits(tree) ==
  LET enough == tree.height > 0 \/ Cardinality(DOMAIN tree.rows) + 1 >= 2 * Degree - 1
      all == {s \in [below : 0 .. tree.height, root : BOOLEAN] :
                s.root => s.below = tree.height}
  IN  IF enough THEN all ELSE {s \in all : s.below = 0 /\ ~s.root}

PagesFor(s) == s.below + IF s.root THEN 2 ELSE 0

\* The root of the tree after a split that has moved it or not: the new root is the
\* page that was taken after those for the levels below.
RootAfter(tree, s, moved) == IF moved THEN NewPage(s.below + 1) ELSE tree.root

\* The tree with a row more after such a split.
Grown(tree, k, v, s, moved) ==
  [tree EXCEPT !.rows = Bind(@, k, v),
               !.root = RootAfter(tree, s, moved),
               !.height = IF moved THEN @ + 1 ELSE @]

\* Mutant: the new root is not written into the TablePage.
InsertDoneUnsaved(t, k, v, s) ==
  LET p == t.pageID
  IN  /\ CanTake(PagesFor(s))
      /\ trees' = [trees EXCEPT ![p] = Grown(@, k, v, s, s.root)]
      /\ m_tables' = (m_tables \ {t}) \cup {[t EXCEPT !.root = RootAfter(trees[p], s, s.root)]}
      /\ tablePages' = [tablePages EXCEPT ![p].numTuples = @ + 1]
      /\ allocated' = allocated + PagesFor(s)
      /\ result' = "true"
      /\ UNCHANGED schema

InsertDone(t, k, v, s) ==
  LET p == t.pageID
      root == RootAfter(trees[p], s, s.root)
  IN  /\ CanTake(PagesFor(s))
      /\ trees' = [trees EXCEPT ![p] = Grown(@, k, v, s, s.root)]
      /\ m_tables' = (m_tables \ {t}) \cup {[t EXCEPT !.root = root]}
      /\ tablePages' =
           [tablePages EXCEPT ![p].numTuples = @ + 1,
                              ![p].btreePageID = IF root # t.root THEN root ELSE @]
      /\ allocated' = allocated + PagesFor(s)
      /\ result' = "true"
      /\ UNCHANGED schema

\* The tree that a call has stopped in.
Stopped(tree, damaged) == [tree EXCEPT !.damaged = @ \/ damaged, !.stopped = TRUE]

\* split stops, after some of its pages: one is refused, or a node cannot be
\* retrieved.  The root has moved once createNewPage has returned the new one.  A new
\* root that has no children yet, or a node that its parent does not list yet, is
\* rejected by the assertions (damaged).
InsertStopsInSplit(t, k, v, s) ==
  LET p == t.pageID
  IN  \E taken \in 0 .. PagesFor(s), damaged, moved \in BOOLEAN :
        /\ CanTake(taken)
        /\ PagesFor(s) > 0
        /\ moved => s.root /\ taken > s.below /\ damaged
        /\ ~moved => taken <= s.below + 1
        /\ trees' = [trees EXCEPT ![p] = Stopped(Grown(@, k, v, s, moved), damaged)]
        /\ m_tables' = (m_tables \ {t}) \cup {[t EXCEPT !.root = RootAfter(trees[p], s, moved)]}
        /\ allocated' = allocated + taken
        /\ result' = "error"
        /\ UNCHANGED <<schema, tablePages>>

\* Mutant: what the call of the TablePage throws is swallowed.
InsertStopsUnnoticed(t, k, v, s) ==
  LET p == t.pageID
      root == RootAfter(trees[p], s, s.root)
  IN  /\ CanTake(PagesFor(s))
      /\ trees' = [trees EXCEPT ![p] = Stopped(Grown(@, k, v, s, s.root), FALSE)]
      /\ m_tables' = (m_tables \ {t}) \cup {[t EXCEPT !.root = root]}
      /\ allocated' = allocated + PagesFor(s)
      /\ result' = "true"
      /\ UNCHANGED <<schema, tablePages>>

\* The TablePage cannot be retrieved, for addTuple or for setBtreePageID.
InsertStopsAfter(t, k, v, s) ==
  LET p == t.pageID
      root == RootAfter(trees[p], s, s.root)
  IN  \E counted \in IF root # t.root THEN BOOLEAN ELSE {FALSE} :
        /\ CanTake(PagesFor(s))
        /\ trees' = [trees EXCEPT ![p] = Stopped(Grown(@, k, v, s, s.root), FALSE)]
        /\ m_tables' = (m_tables \ {t}) \cup {[t EXCEPT !.root = root]}
        /\ tablePages' = IF counted THEN [tablePages EXCEPT ![p].numTuples = @ + 1]
                         ELSE tablePages
        /\ allocated' = allocated + PagesFor(s)
        /\ result' = "error"
        /\ UNCHANGED schema

InsertRow(n, types, k, v) ==
  \E t \in Named(n) :
    /\ AtRoot(t) /\ Fits(t, types) /\ k \notin DOMAIN RowsOf(t)
    /\ \E s \in Splits(trees[t.pageID]) :
         \/ InsertDone(t, k, v, s)
         \/ InsertStopsInSplit(t, k, v, s)
         \/ InsertStopsAfter(t, k, v, s)

InsertTuple(n, types, k, v) ==
  /\ Running
  /\ call' = <<"insert", n, types, k, v>>
  /\ \/ NoSuchTable(n)
     \/ WrongTypes(n, types)
     \/ StopsUnchanged(n)
     \/ InsertDuplicate(n, types, k)
     \/ InsertRow(n, types, k, v)

UpdateRow(n, types, k, v) ==
  \E t \in Named(n) :
    /\ AtRoot(t) /\ Fits(t, types)
    /\ \/ /\ k \in DOMAIN RowsOf(t)
          /\ trees' = [trees EXCEPT ![t.pageID].rows[k] = v]
          /\ result' = "true"
          /\ UNCHANGED <<m_tables, schema, tablePages, allocated>>
       \/ k \notin DOMAIN RowsOf(t) /\ Reply("false")

UpdateTuple(n, types, k, v) ==
  /\ Running
  /\ call' = <<"update", n, types, k, v>>
  /\ \/ NoSuchTable(n)
     \/ WrongTypes(n, types)
     \/ StopsUnchanged(n)
     \/ UpdateRow(n, types, k, v)

\* deleteTuple: Btree::remove finds nothing, so that neither count nor root changes.
RemoveRow(n, type) ==
  \E t \in Named(n) :
    Reply(IF type = tablePages[t.pageID].types[1] THEN "false" ELSE "invalid")

RemoveTuple(n, type, k) ==
  /\ Running
  /\ call' = <<"remove", n, type, k>>
  /\ NoSuchTable(n) \/ StopsUnchanged(n) \/ RemoveRow(n, type)

-----------------------------------------------------------------------------
(* The process *)

\* A node that the assertions reject is searched, or written when it is evicted.
\* Which calls come across it is left open.
DamageFound ==
  /\ Running
  /\ call' = <<"any">>
  /\ \E p \in DOMAIN trees : trees[p].damaged
  /\ Reply("dead")

\* A clean shutdown, which writes every page, and the constructor of
\* StorageEngine, which makes the tables from the SchemaPage and their TablePages.
Opened ==
  {[name |-> n, pageID |-> schema[n], root |-> tablePages[schema[n]].btreePageID] :
     n \in DOMAIN schema}

Reopen ==
  /\ Running
  /\ \A p \in DOMAIN trees : ~trees[p].damaged
  /\ call' = <<"open">>
  /\ m_tables' = Opened
  /\ result' = "ok"
  /\ UNCHANGED <<schema, tablePages, trees, allocated>>

Dead == ~Running /\ UNCHANGED vars

Names == Name \cup {BadName}
KeyTypes == {types[1] : types \in Types \ {<< >>}}

Next ==
  \/ \E n \in Names : DropTable(n) \/ \E types \in Types : CreateTable(n, types)
  \/ \E n \in Name, k \in Key :
       \/ \E types \in Types, v \in Value :
            InsertTuple(n, types, k, v) \/ UpdateTuple(n, types, k, v)
       \/ \E type \in KeyTypes : RemoveTuple(n, type, k)
  \/ DamageFound
  \/ Reopen
  \/ Dead

Spec == Init /\ [][Next]_vars

-----------------------------------------------------------------------------
(* Properties *)

PageID == 1 .. MaxPages
Table == [name : Name, pageID : PageID, root : PageID]
TablePage == [types : {types \in Types : Storable(types)}, btreePageID : PageID, numTuples : Nat]
Call ==
  {<<"open">>, <<"any">>} \cup ({"create"} \X Names \X Types) \cup ({"drop"} \X Names)
    \cup ({"insert", "update"} \X Name \X Types \X Key \X Value)
    \cup ({"remove"} \X Name \X KeyTypes \X Key)

TablesTyped ==
  /\ m_tables \subseteq Table
  /\ DOMAIN schema \subseteq Name /\ \A n \in DOMAIN schema : schema[n] \in PageID
  /\ DOMAIN tablePages \subseteq PageID
  /\ \A p \in DOMAIN tablePages : tablePages[p] \in TablePage
  /\ DOMAIN trees = DOMAIN tablePages
  /\ \A p \in DOMAIN trees :
       /\ DOMAIN trees[p].rows \subseteq Key
       /\ \A k \in DOMAIN trees[p].rows : trees[p].rows[k] \in Value
       /\ trees[p].root \in PageID /\ trees[p].height \in Nat
       /\ trees[p].damaged \in BOOLEAN /\ trees[p].stopped \in BOOLEAN
  /\ allocated \in PageID
  /\ result \in {"ok", "true", "false", "invalid", "error", "dead"}

\* Types of the variables.
TypeOK == TablesTyped /\ call \in Call

\* Table objects have names of their own, and each entry of the SchemaPage
\* belongs to one of them (createTable and dropTable change both in turn).
CatalogMatches ==
  /\ \A t, u \in m_tables : t.name = u.name => t = u
  /\ \A n \in DOMAIN schema : \E t \in m_tables : t.name = n /\ t.pageID = schema[n]

\* numTuples never exceeds the rows of the tree, and it and btreePageID are those of
\* the tree as long as no insertTuple was stopped (Table.cpp:59-65); what a stopped
\* one may leave behind is in DamageIsReported.
CountsMatch ==
  \A p \in DOMAIN trees :
    /\ tablePages[p].numTuples <= Cardinality(DOMAIN trees[p].rows)
    /\ ~trees[p].stopped =>
         /\ tablePages[p].numTuples = Cardinality(DOMAIN trees[p].rows)
         /\ tablePages[p].btreePageID = trees[p].root

\* No two tables share a page, whatever calls have failed before: their
\* TablePages, the roots they have and the roots their TablePages name.
PagesApart ==
  LET pages(t) == {t.pageID, t.root, trees[t.pageID].root, tablePages[t.pageID].btreePageID}
  IN  \A t \in m_tables :
        /\ pages(t) \subseteq SCHEMA_ID + 1 .. allocated
        /\ \A u \in m_tables \ {t} : pages(t) \cap pages(u) = {}

\* The tuples of a tree that its TablePage has not counted, the trees whose TablePage
\* names an old root, and the tables that are in no SchemaPage.
Missing(p) == Cardinality(DOMAIN trees[p].rows) - tablePages[p].numTuples
Stale == {p \in DOMAIN trees : tablePages[p].btreePageID # trees[p].root}
Unlisted == {t.name : t \in m_tables} \ DOMAIN schema

\* Only a call that named this table and threw leaves something behind: an insertion
\* misses one tuple at most, a tuple that was missed stays so, and an insertion that
\* moves the root and returns mends the TablePage.
Reports ==
  /\ \A n \in Unlisted' \ Unlisted : call'[1] = "create" /\ call'[2] = n /\ result' = "error"
  /\ \A p \in DOMAIN trees :
       \/ Missing(p)' = Missing(p) /\ (p \in Stale' => p \in Stale)
       \/ /\ Missing(p)' \in Missing(p) .. Missing(p) + 1
          /\ call'[1] = "insert" /\ result' = "error"
          /\ \E t \in Named(call'[2]) : t.pageID = p
  /\ \A p \in DOMAIN trees :
       result' = "true" /\ trees'[p].root # trees[p].root => p \notin Stale'

\* What calls that stop half way leave behind, also in tables that are damaged already:
\* a table is missing from the SchemaPage, a tuple from numTuples or a root from the
\* TablePage only since a call that named this table and threw (StorageEngine.cpp:32-34,
\* Table.cpp:61-66).
DamageIsReported == [][Reports]_vars

\* Table::drop is said to delete "any Btree Nodes used to store the data"
\* (Table.hpp:40-43): after a dropTable less pages are in use than before.
DropFreesPages ==
  [][(\E n \in DOMAIN schema : n \notin DOMAIN schema') => allocated' < allocated]_vars

-----------------------------------------------------------------------------
(* What Catalog promises *)

\* A table is broken when a call stopped in its insertTuple or its createTable.
BrokenTables ==
  {t.name : t \in {u \in m_tables : trees[u.pageID].stopped \/ u.name \notin DOMAIN schema}}

\* A tree that is opened at an old root has lost rows: none of them are promised.
TablesSeen ==
  [n \in {t.name : t \in m_tables} |->
     LET t == CHOOSE u \in Named(n) : TRUE
     IN  [types |-> tablePages[t.pageID].types,
          rows |-> IF AtRoot(t) THEN RowsOf(t) ELSE [k \in {} |-> 0]]]

Damaged == \E p \in DOMAIN trees : trees[p].damaged

Catalog == INSTANCE Catalog WITH
  tables <- TablesSeen,
  broken <- BrokenTables,
  damage <- Damaged

\* Each call has the effect that its header documents on the table it names, on no
\* other, and answers as documented, but removeTuple, which removes nothing.  A
\* database that is closed and opened again has the same tables with the same rows,
\* except for those that a call has failed on.
ImplementsCatalog == Catalog!SpecSoFar

\* The same with the removal of tuples that StorageEngine.hpp:75-81 and Table.hpp:86-92
\* document: a row that is there is taken out, and the answer is true.
ImplementsDocumentedCatalog == Catalog!Spec
=============================================================================
