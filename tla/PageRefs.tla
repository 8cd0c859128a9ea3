------------------------------ MODULE PageRefs ------------------------------
(***************************************************************************)
(* The references into PageCache that the callers hold (src/src/backend).  *)
(* getPage and createNewPage return a reference to a Page object that the  *)
(* cache owns, and every further retrieval may evict that object.  A call  *)
(* of the StorageEngine is taken here as the sequence of its retrievals,   *)
(* insertions and uses of references, with the names the code gives them.  *)
(*                                                                         *)
(* Which nodes a tree has and which FSM page has a free block is left      *)
(* open: any call may meet any of the pages below.  A call that throws     *)
(* uses no reference after that, and is not followed.                      *)
(***************************************************************************)
EXTENDS Integers, Sequences, LRUList

CONSTANTS Capacity,     \* m_capacity
          Degree,       \* the degree of the trees
          Group,        \* FSMPage::getBlocksInPage()
          MAX_FSMPAGES,
          Schemas,      \* the TablePages of the databases that are opened
          Table,        \* the TablePages of the tables that are called
          Path,         \* from a root to a leaf, as insert finds it
          Halves,       \* the right halves of the children of full nodes
          Fresh,        \* pages in the order in which allocBit finds them
          None          \* the object of a reference is gone

ASSUME NumbersAssumption ==
  /\ Capacity \in Nat /\ Degree \in Nat /\ Group \in Nat \ {0, 1}
  /\ MAX_FSMPAGES \in Nat \ {0}

\* What the capacity has to be for a split of the root, which holds three nodes while
\* it goes through Degree children, and for the constructor of StorageEngine.  The
\* code has room for 100000 pages, degrees up to 333 and up to 31 tables.
ASSUME CapacityAssumption ==
  /\ Capacity >= Degree + MAX_FSMPAGES + 3
  /\ \A tables \in Schemas : Capacity >= Len(tables) + MAX_FSMPAGES + 1

\* The blocks of the largest file, and those of them that are no FSM pages.
Block == 0 .. MAX_FSMPAGES * Group - 1
FSMOf(p) == (p \div Group) * Group
Page == {p \in Block : FSMOf(p) # p}

Distinct(s) == \A i, j \in 1 .. Len(s) : s[i] = s[j] => i = j

ASSUME PagesAssumption ==
  /\ Table \subseteq Page
  /\ \A tables \in Schemas : tables \in Seq(Page)
  /\ \A path \in Path : path \in Seq(Page) /\ path # << >>
  /\ \A kids \in Halves : kids \in Seq(Page) /\ Len(kids) = Degree
  /\ None \notin Block

\* allocBit finds pages that are not in use, and enough of them for a split of every
\* node of a path.
ASSUME FreshAssumption ==
  \A fresh \in Fresh :
    /\ fresh \in Seq(Page) /\ fresh # << >> /\ Distinct(fresh)
    /\ \A path \in Path :
         /\ Len(fresh) > Len(path)
         /\ \A i \in 1 .. Len(fresh), j \in 1 .. Len(path) : fresh[i] # path[j]

VARIABLES m_list, \* page ids of the LRU list, most recently used first
          refs,   \* the references of the current call: name -> page id, or None
          calls   \* what the current call has yet to do

vars == <<m_list, refs, calls>>

SCHEMA_ID == 1

-----------------------------------------------------------------------------
(* The steps of a call *)

Retrieve(name, p) == << [do |-> "retrieve", as |-> name, page |-> p] >>
Insert(p) == << [do |-> "insert", page |-> p] >>
Use(names) == << [do |-> "use", of |-> names] >>

\* The steps of a loop: those of its rounds, one after the other.
Concat(rounds) ==
  LET upTo[i \in 0 .. Len(rounds)] == IF i = 0 THEN << >> ELSE upTo[i - 1] \o rounds[i]
  IN  upTo[Len(rounds)]

\* FreeSpaceMap

isFree(p) == Retrieve("fsm_page", FSMOf(p)) \o Use({"fsm_page"})

isFull == Retrieve("firstFSMPage", 0) \o Use({"firstFSMPage"})

\* The block p is found in the first FSM page or in the next one, which leaves the
\* list when p was its last.
allocBit(p) ==
  isFull \o Retrieve("firstFSMPage", 0) \o Use({"firstFSMPage"})
    \o IF FSMOf(p) = 0 THEN << >>
       ELSE Retrieve("nextFSMPage", FSMOf(p)) \o Use({"nextFSMPage", "firstFSMPage"})

freeBit(p) ==
  isFree(p) \o Retrieve("currFSMPage", FSMOf(p)) \o Retrieve("firstFSMPage", 0)
    \o Use({"currFSMPage", "firstFSMPage"})

linkFSMPage(new) ==
  Retrieve("firstFSMPage", 0) \o Retrieve("newFSMPage", new)
    \o Use({"firstFSMPage", "newFSMPage"})

\* Pager

getPage(name, p) == isFree(p) \o Retrieve(name, p)

\* A page that is retrieved and used.
Visit(name, p) == getPage(name, p) \o Use({name})

\* The first page of a group comes with the group: the file grows.
createNewPage(name, p) ==
  LET grows == p = FSMOf(p) + 1
  IN  (IF p = SCHEMA_ID THEN << >> ELSE isFull)
        \o (IF grows THEN Insert(FSMOf(p)) ELSE << >>)
        \o (IF grows /\ FSMOf(p) # 0 THEN linkFSMPage(FSMOf(p)) ELSE << >>)
        \o allocBit(p) \o Insert(p) \o getPage(name, p)

freePage(p) == isFree(p) \o freeBit(p)

\* Btree

searchRowPtr(path) == Concat([i \in 1 .. Len(path) |-> Visit("node", path[i])])

\* The cells and children of a full node are divided between it and newNode.
MoveRightHalf(kids) ==
  Use({"newNode", "node"})
    \o Concat([i \in 1 .. Len(kids) |->
                 Use({"newNode"}) \o getPage("child", kids[i]) \o Use({"child", "newNode"})])
    \o Use({"node"})

SplitNothing(p) == Visit("node", p)

SplitChild(p, parent, kids, new) ==
  SplitNothing(p)
    \o getPage("parent", parent) \o Use({"parent", "node"})
    \o createNewPage("newNode", new) \o Use({"parent"})
    \o MoveRightHalf(kids)
    \o Use({"parent", "newNode"})

SplitRoot(p, kids, newRoot, new) ==
  SplitNothing(p)
    \o createNewPage("newRoot", newRoot) \o Use({"newRoot", "node"})
    \o getPage("same", p) \o Use({"same", "newRoot"})
    \o createNewPage("newNode", new)
    \o MoveRightHalf(kids)
    \o Use({"newRoot", "newNode"})

\* split of the last n nodes of a path and the early return at the next.  kids is the
\* right half of the children of each but the leaf.
split(path, n, kids, fresh) ==
  LET at(j) == Len(path) + 1 - j
      half(j) == IF j = 1 THEN << >> ELSE kids[j - 1]
  IN  Concat([j \in 1 .. n |->
                IF at(j) = 1 THEN SplitRoot(path[1], half(j), fresh[j], fresh[j + 1])
                ELSE SplitChild(path[at(j)], path[at(j) - 1], half(j), fresh[j])])
        \o SplitNothing(IF n = Len(path) THEN fresh[n] ELSE path[Len(path) - n])

insert(path, n, kids, fresh) ==
  LET leaf == path[Len(path)]
  IN  searchRowPtr(path) \o SplitNothing(leaf) \o Visit("leaf", leaf)
        \o split(path, n, kids, fresh)

\* Table

TablePage(t) == Visit("tablePage", t)

\* The arguments of calculateDegree are references into the TablePage.
DegreeOf(t) == getPage("key", t) \o getPage("values", t) \o Use({"key", "values"})

\* The constructors of a Table that exists and of a new one
LoadTable(t) == DegreeOf(t) \o TablePage(t)

NewTable(t, root) ==
  createNewPage("tablePage", t) \o Use({"tablePage"})
    \o DegreeOf(t)
    \o createNewPage("root", root) \o Use({"root"})
    \o TablePage(t) \o TablePage(t)

\* StorageEngine

CreateDatabase == createNewPage("schema", SCHEMA_ID) \o Use({"schema"})

\* The constructor: the loop goes over the map inside the SchemaPage.
Open(tables) ==
  getPage("schema", SCHEMA_ID)
    \o Concat([i \in 1 .. Len(tables) |-> Use({"schema"}) \o LoadTable(tables[i])])
    \o Use({"schema"})

SchemaPage == Visit("schema", SCHEMA_ID)

createTable(t, root) == NewTable(t, root) \o SchemaPage

\* search and update retrieve the node of the row once more.
getTuple(t, path) == TablePage(t) \o searchRowPtr(path) \o SplitNothing(path[Len(path)])

insertTuple(t, path, n, kids, fresh) ==
  TablePage(t) \o insert(path, n, kids, fresh) \o TablePage(t)
    \o IF n = Len(path) THEN TablePage(t) ELSE << >>

-----------------------------------------------------------------------------
(* The cache *)

\* The references to page p are left without their object.
Without(r, p) == [name \in DOMAIN r |-> IF r[name] = p THEN None ELSE r[name]]

\* updateLRU, after which r are the references: the page at the back is evicted.
UpdateLRU(p, r) ==
  LET l == ToFront(m_list, p)
  IN  IF Len(l) > Capacity
      THEN /\ m_list' = SubSeq(l, 1, Capacity)
           /\ refs' = Without(r, l[Len(l)])
      ELSE m_list' = l /\ refs' = r

NoRefs == [name \in {} |-> None]

Doing(step) == calls # << >> /\ Head(calls).do = step

\* retrievePage: what the name stood for is forgotten.
RetrievePage ==
  /\ Doing("retrieve")
  /\ LET step == Head(calls)
     IN  UpdateLRU(step.page, [name \in DOMAIN refs \cup {step.as} |->
                                 IF name = step.as THEN step.page ELSE refs[name]])
  /\ calls' = Tail(calls)

\* insertPage: an object that the cache had for the page is replaced.
InsertPage ==
  /\ Doing("insert")
  /\ UpdateLRU(Head(calls).page, Without(refs, Head(calls).page))
  /\ calls' = Tail(calls)

UseReferences ==
  /\ Doing("use")
  /\ calls' = Tail(calls)
  /\ UNCHANGED <<m_list, refs>>

-----------------------------------------------------------------------------
(* The calls *)

\* A process starts with an empty cache, on a new database or an existing one.
Init ==
  /\ m_list = << >>
  /\ refs = NoRefs
  /\ \/ calls = CreateDatabase \o Open(<< >>)
     \/ \E tables \in Schemas : calls = Open(tables)

Begin(steps) ==
  /\ calls = << >>
  /\ calls' = steps
  /\ refs' = NoRefs
  /\ UNCHANGED m_list

CreateTable(t) == \E fresh \in Fresh : Begin(createTable(t, fresh[1]))
GetTuple(t) == \E path \in Path : Begin(getTuple(t, path))
InsertTuple(t) ==
  \E path \in Path, fresh \in Fresh :
    \E n \in 0 .. Len(path), kids \in [1 .. Len(path) - 1 -> Halves] :
      Begin(insertTuple(t, path, n, kids, fresh))
DropTable == Begin(SchemaPage)
FreePage == \E path \in Path : Begin(freePage(path[Len(path)]))

Next ==
  \/ RetrievePage \/ InsertPage \/ UseReferences
  \/ \E t \in Table : CreateTable(t) \/ GetTuple(t) \/ InsertTuple(t)
  \/ DropTable
  \/ FreePage

Spec == Init /\ [][Next]_vars

-----------------------------------------------------------------------------
(* Properties *)

\* The list has each page once and no more than its capacity, and what a reference
\* stands for is in it.
TypeOK ==
  /\ Distinct(m_list) /\ Len(m_list) <= Capacity
  /\ \A name \in DOMAIN refs :
       refs[name] = None \/ \E i \in 1 .. Len(m_list) : m_list[i] = refs[name]

\* No reference is used after its page was evicted or replaced: not by split, which
\* holds nodes while it goes through the children, not by the FreeSpaceMap, which
\* holds two FSM pages, and not by the constructor of StorageEngine, which holds the
\* SchemaPage while the tables are loaded.
NoDanglingReference == Doing("use") => \A name \in Head(calls).of : refs[name] # None
=============================================================================
