------------------------------ MODULE PageBytes ------------------------------
(***************************************************************************)
(* How the four classes of pages get to their block and back: toBytes, the *)
(* constructors from bytes and db_serialize and db_deserialize below them  *)
(* (src/src/backend).  One page of a database is followed through changes, *)
(* evictions and loads.  PageCache takes a page that is read for the page  *)
(* that was written; this module says for which pages that is so.          *)
(*                                                                         *)
(* A block is the set of the values written to it, each at its offset and  *)
(* with its width.  A value that is read at another place or with another  *)
(* width than one was written is Noise.                                    *)
(***************************************************************************)
EXTENDS Layout

CONSTANTS Columns,  \* the lists of column types that tables are created with
          Text,     \* kinds of strings that a column can have
          Name,     \* the table names that createTable accepts
          Filled,   \* how many tables a SchemaPage may have at first
          CStr(_),  \* what is left of a string up to its first zero byte
          Noise,    \* bytes that nobody has written there
          Gone,     \* the page is not in the cache
          MaxCells, MaxTuples, MaxBits \* bounds: cells, tuples, bits allocated

ASSUME ColumnsAssumption == \A types \in Columns : types \in Seq(Type)
ASSUME FilledAssumption == \A n \in Filled : n \in Nat /\ SchemaBytes(n) <= PG_SZ
\* An offset_t holds the size of a page, and a u8 the number of the entries of a
\* SchemaPage; they never fill it to the last byte (31 entries take 4094 of 4096).
ASSUME PageAssumption ==
  /\ PG_SZ < U16
  /\ \A n \in 0 .. PG_SZ : SchemaBytes(n) <= PG_SZ => n < U8 /\ SchemaBytes(n) # PG_SZ
ASSUME BitsAssumption == MaxBits \in 0 .. BlocksInPage - 1
ASSUME NoiseAssumption ==
  Noise \notin Text \cup Name /\ Noise \notin Int /\ CStr(Noise) = Noise

VARIABLES columns, \* the column types of the table
          page,    \* the Page object, or Gone
          block,   \* the values in its block
          written, \* the object as toBytes found it last
          status   \* "dead" when an assertion has ended the process

vars == <<columns, page, block, written, status>>

SCHEMA_PAGE == 1
FSM_PAGE == 2
TABLE_PAGE == 3
BTREE_NODE_PAGE == 4
PGID_INVALID == -1

Init ==
  /\ columns \in Columns
  /\ page = Gone
  /\ block = {}
  /\ written = Gone
  /\ status = "up"

-----------------------------------------------------------------------------
(* Values in a block *)

\* variant_to_type_id, and type_id_to_variant, which has no type for other ids
TypeId == [char |-> 1, int |-> 2, bool |-> 3, string |-> 4, float |-> 5, double |-> 6]
IsTypeId(id) == \E t \in Type : TypeId[t] = id
VariantOf(id) == CHOOSE t \in Type : TypeId[t] = id

Put(at, width, value) == [at |-> at, width |-> width, value |-> value]

Get(b, at, width) ==
  LET found == {f \in b : f.at = at /\ f.width = width}
  IN  IF found = {} THEN Noise ELSE (CHOOSE f \in found : TRUE).value

PutVari(at, v) == Put(at, db_sizeof[v.type], v.data)

\* A string has MAX_STR_SZ bytes copied and is read up to a zero byte.  One with
\* no zero among those bytes is read past them.
GetVari(b, at, t) ==
  LET d == Get(b, at, db_sizeof[t])
  IN  [type |-> t, data |-> IF t = "string" THEN CStr(d) ELSE d]

-----------------------------------------------------------------------------
(* BtreeNodePage *)

\* Where the key of the i-th cell, its j-th column and the children begin.
KeyAt(key, types, i) == 15 + Len(types) + (i - 1) * (db_sizeof[key] + RowSize(types))
ColumnAt(key, types, i, j) ==
  KeyAt(key, types, i) + db_sizeof[key] + RowSize(SubSeq(types, 1, j - 1))
ChildAt(key, types, cells, i) == KeyAt(key, types, cells + 1) + 4 * (i - 1)

ColumnTypes(row) == [j \in 1 .. Len(row) |-> row[j].type]

NodeHeader(p) ==
  {Put(0, 1, BTREE_NODE_PAGE), Put(1, 2, p.degree), Put(3, 4, p.parent),
   Put(7, 1, p.leaf), Put(8, 1, p.root), Put(9, 4, Len(p.cells))}

\* Mutant: a child for each cell, and not one more.
ChildForEachCell(p) == IF p.leaf THEN {} ELSE 1 .. Len(p.cells)

WrittenChildren(p) == IF p.leaf THEN {} ELSE 1 .. Len(p.cells) + 1

NodeBlock(p) ==
  IF p.cells = << >> THEN NodeHeader(p)
  ELSE LET key == p.cells[1].key.type
           types == ColumnTypes(p.cells[1].value)
           cells == Len(p.cells)
       IN  NodeHeader(p)
             \cup {Put(13, 1, TypeId[key]), Put(14, 1, Len(types) % U8)}
             \cup {Put(14 + j, 1, TypeId[types[j]]) : j \in 1 .. Len(types)}
             \cup {PutVari(KeyAt(key, types, i), p.cells[i].key) : i \in 1 .. cells}
             \cup {PutVari(ColumnAt(key, types, x[1], x[2]), p.cells[x[1]].value[x[2]]) :
                     x \in (1 .. cells) \X (1 .. Len(types))}
             \cup {Put(ChildAt(key, types, cells, i), 4, p.children[i]) :
                     i \in WrittenChildren(p)}

\* What toBytes asserts of a node.
NodeAsserts(p) ==
  IF p.leaf THEN p.children = << >>
  ELSE \/ p.root /\ p.cells = << >>
       \/ p.cells # << >> /\ Len(p.children) = Len(p.cells) + 1

\* The constructor reads the ids of the types before it uses them.
NodeReadable(b) ==
  Get(b, 9, 4) # 0 => /\ IsTypeId(Get(b, 13, 1))
                      /\ \A j \in 1 .. Get(b, 14, 1) : IsTypeId(Get(b, 14 + j, 1))

NodeFrom(b) ==
  LET cells == Get(b, 9, 4)
      key == VariantOf(Get(b, 13, 1))
      types == [j \in 1 .. Get(b, 14, 1) |-> VariantOf(Get(b, 14 + j, 1))]
      leaf == Get(b, 7, 1)
  IN  [class |-> "node", degree |-> Get(b, 1, 2), parent |-> Get(b, 3, 4),
       leaf |-> leaf, root |-> Get(b, 8, 1),
       cells |-> [i \in 1 .. cells |->
                    [key |-> GetVari(b, KeyAt(key, types, i), key),
                     value |-> [j \in 1 .. Len(types) |->
                                  GetVari(b, ColumnAt(key, types, i, j), types[j])]]],
       children |-> IF cells = 0 \/ leaf THEN << >>
                    ELSE [i \in 1 .. cells + 1 |-> Get(b, ChildAt(key, types, cells, i), 4)]]

-----------------------------------------------------------------------------
(* TablePage, SchemaPage and FSMPage *)

TableBlock(p) ==
  LET n == Len(p.types)
  IN  {Put(0, 1, TABLE_PAGE), Put(1, 2, n % U16)}
        \cup {Put(2 + j, 1, TypeId[p.types[j]]) : j \in 1 .. n}
        \cup {Put(3 + n, 4, p.btreePageID), Put(7 + n, 8, p.numTuples)}

TableFrom(b) ==
  LET n == Get(b, 1, 2)
  IN  [class |-> "table", types |-> [j \in 1 .. n |-> VariantOf(Get(b, 2 + j, 1))],
       btreePageID |-> Get(b, 3 + n, 4), numTuples |-> Get(b, 7 + n, 8)]

\* tables lists the entries of the map in the order in which it is iterated.
SchemaBlock(p) ==
  {Put(0, 1, SCHEMA_PAGE), Put(1, 1, Len(p.tables) % U8)}
    \cup UNION {{Put(2 + (i - 1) * EntrySize, MAX_STR_SZ, p.tables[i].name),
                 Put(2 + (i - 1) * EntrySize + MAX_STR_SZ, 4, p.tables[i].pageID)} :
                  i \in 1 .. Len(p.tables)}

\* Mutant: the entries are taken as they are, whether their names differ or not.
AllEntries(entry) == DOMAIN entry

\* emplace keeps the first of two entries that read as the same name.
KeptEntries(entry) ==
  {i \in DOMAIN entry : \A j \in 1 .. i - 1 : entry[j].name # entry[i].name}

SchemaFrom(b) ==
  LET entry == [i \in 1 .. Get(b, 1, 1) |->
                  [name |-> CStr(Get(b, 2 + (i - 1) * EntrySize, MAX_STR_SZ)),
                   pageID |-> Get(b, 2 + (i - 1) * EntrySize + MAX_STR_SZ, 4)]]
      kept == KeptEntries(entry)
      place(i) == Cardinality({j \in kept : j <= i})
  IN  [class |-> "schema",
       tables |-> [k \in 1 .. Cardinality(kept) |->
                     entry[CHOOSE i \in kept : place(i) = k]]]

FSMBlock(p) ==
  {Put(0, 1, FSM_PAGE), Put(1, 4, p.next), Put(5, 4, p.free), Put(9, p.size \div 8, p.used)}

\* The bitmap is what is left of the block behind the header; the bits past
\* those that were written are what the buffer held.
FSMFrom(b, garbage) ==
  LET bitmap == CHOOSE f \in b : f.at = 9
      size == 8 * (PG_SZ - 9)
  IN  [class |-> "fsm", next |-> Get(b, 1, 4), free |-> Get(b, 5, 4), size |-> size,
       used |-> bitmap.value \cup (garbage \cap 8 * bitmap.width .. size - 1)]

-----------------------------------------------------------------------------
(* Any page *)

Bytes(p) ==
  IF p.class = "node"
  THEN LET row == IF p.cells = << >> THEN << >> ELSE ColumnTypes(p.cells[1].value)
           key == IF p.cells = << >> THEN 0 ELSE db_sizeof[p.cells[1].key.type]
       IN  NodeBytes(Len(row), key + RowSize(row), Len(p.cells), p.leaf)
  ELSE IF p.class = "table" THEN TableBytes(Len(p.types))
  ELSE IF p.class = "schema" THEN SchemaBytes(Len(p.tables))
  ELSE FSMBytes(p.size)

\* What toBytes and the constructors assert of their offset_t, which has 16 bits.
InBounds(p) == Bytes(p) % U16 <= PG_SZ

BlockOf(p) ==
  IF p.class = "node" THEN NodeBlock(p)
  ELSE IF p.class = "table" THEN TableBlock(p)
  ELSE IF p.class = "schema" THEN SchemaBlock(p)
  ELSE FSMBlock(p)

Up == status = "up"
Cached(class) == Up /\ page # Gone /\ page.class = class
Unused == Up /\ page = Gone /\ block = {}

Become(p) == page' = p /\ UNCHANGED <<columns, block, written, status>>

\* While the page is cached its block is not looked at, and is left out.
Load(p) == page' = p /\ block' = {} /\ written' = Gone /\ UNCHANGED <<columns, status>>
Die == status' = "dead" /\ UNCHANGED <<columns, page, block, written>>

\* PageCache evicts the page: toBytes, and writeBlock of the buffer.  A page that
\* does not fit is written past the buffer before toBytes asserts that it does.
Evict ==
  /\ Up /\ page # Gone
  /\ IF InBounds(page) /\ (page.class = "node" => NodeAsserts(page))
     THEN /\ block' = BlockOf(page)
          /\ written' = page
          /\ page' = Gone
          /\ UNCHANGED <<columns, status>>
     ELSE Die

IsClass(id) == Up /\ page = Gone /\ Get(block, 0, 1) = id

\* retrievePage of the page: the constructor from bytes, with its assertions.
LoadNode ==
  /\ IsClass(BTREE_NODE_PAGE)
  /\ IF NodeReadable(block) /\ InBounds(NodeFrom(block))
     THEN Load(NodeFrom(block))
     ELSE Die

LoadTable ==
  /\ IsClass(TABLE_PAGE)
  /\ IF Get(block, 1, 2) > 0 /\ TableBytes(Get(block, 1, 2)) <= PG_SZ
     THEN Load(TableFrom(block))
     ELSE Die

LoadSchema ==
  /\ IsClass(SCHEMA_PAGE)
  /\ IF SchemaBytes(Get(block, 1, 1)) < PG_SZ THEN Load(SchemaFrom(block)) ELSE Die

LoadFSM ==
  /\ IsClass(FSM_PAGE)
  /\ \E garbage \in {{}, BlocksInPage .. 8 * PG_SZ} : Load(FSMFrom(block, garbage))

-----------------------------------------------------------------------------
(* What the callers do with a page *)

\* The i-th row of a node, with strings of kind s.
Row(i, s) ==
  [j \in 1 .. Len(columns) |->
     [type |-> columns[j], data |-> IF columns[j] = "string" THEN <<s, i, j>> ELSE <<i, j>>]]
Cell(i, s) == [key |-> Row(i, s)[1], value |-> Row(i, s)]

\* Page ids: those of the children of a node, in the order of their creation,
\* and that of its parent.
Child(i) == 10 + i
Parent == 2

NewNode(leaf, cells, children) ==
  [class |-> "node", degree |-> calculateDegree(columns), parent |-> PGID_INVALID,
   leaf |-> leaf, root |-> TRUE, cells |-> cells, children |-> children]

\* A table begins with an empty leaf.
CreateLeaf == Unused /\ columns # << >> /\ Become(NewNode(TRUE, << >>, << >>))

\* split of a root creates a new root, which gets its cell and its children when the
\* second new node is there.
CreateRoot == Unused /\ columns # << >> /\ Become(NewNode(FALSE, << >>, << >>))

FillRoot(s) ==
  /\ Cached("node") /\ page.root /\ ~page.leaf /\ page.cells = << >>
  /\ Become(NewNode(FALSE, <<Cell(1, s)>>, <<Child(1), Child(2)>>))

\* A node that was not read as it was written is not followed further.
Regular ==
  \A i \in 1 .. Len(page.cells) : ColumnTypes(page.cells[i].value) = columns

\* insert into a leaf, or split of a child, which hands its median to this node
\* with a new child.  A full node is split next, but the split of a root may be
\* refused in a full database, and then the root keeps what it has.
InsertCell(s) ==
  /\ Cached("node") /\ Regular
  /\ page.leaf \/ page.cells # << >>
  /\ \/ Len(page.cells) < maxKeys(page.degree)
     \/ page.leaf /\ page.root
  /\ Len(page.cells) < MaxCells
  /\ Become([page EXCEPT !.cells = Append(@, Cell(Len(page.cells) + 1, s)),
                         !.children = IF page.leaf THEN @
                                      ELSE Append(@, Child(Len(page.cells) + 2))])

\* split leaves the left half in the node; the right half is a node like it.
Split ==
  /\ Cached("node") /\ Regular
  /\ Len(page.cells) = maxKeys(page.degree)
  /\ LET median == Len(page.cells) \div 2
     IN  Become([page EXCEPT !.root = FALSE, !.parent = Parent,
                             !.cells = SubSeq(@, 1, median),
                             !.children = IF page.leaf THEN @ ELSE SubSeq(@, 1, median + 1)])

\* createTable: the TablePage asserts that it has types, and not too many.
CreateTablePage ==
  /\ Unused
  /\ IF columns # << >> /\ Len(columns) <= PG_SZ - 100
     THEN Become([class |-> "table", types |-> columns, btreePageID |-> PGID_INVALID,
                  numTuples |-> 0])
     ELSE Die

SetBtreePageID(id) == Cached("table") /\ Become([page EXCEPT !.btreePageID = id])
AddTuple ==
  Cached("table") /\ page.numTuples < MaxTuples /\ Become([page EXCEPT !.numTuples = @ + 1])

\* A SchemaPage after a number of createTable calls.
CreateSchemaPage ==
  /\ Unused
  /\ \E n \in Filled :
       Become([class |-> "schema", tables |-> [i \in 1 .. n |-> [name |-> <<i>>, pageID |-> i]]])

HasTable(n) == \E i \in 1 .. Len(page.tables) : page.tables[i].name = n

\* freeSpace
FreeSpace == PG_SZ - SchemaBytes(Len(page.tables))

\* Mutant: addTable does not ask for free space.
AddTableUnchecked(n) ==
  /\ Cached("schema") /\ ~HasTable(n)
  /\ Become([page EXCEPT !.tables = Append(@, [name |-> n, pageID |-> Parent])])

AddTable(n) ==
  /\ Cached("schema") /\ ~HasTable(n)
  /\ IF FreeSpace >= EntrySize
     THEN Become([page EXCEPT !.tables = Append(@, [name |-> n, pageID |-> Parent])])
     ELSE Die

RemoveTable(n) ==
  /\ Cached("schema")
  /\ \E i \in 1 .. Len(page.tables) :
       /\ page.tables[i].name = n
       /\ Become([page EXCEPT !.tables = SubSeq(@, 1, i - 1) \o SubSeq(@, i + 1, Len(@))])

CreateFSMPage ==
  /\ Unused
  /\ Become([class |-> "fsm", next |-> PGID_INVALID, free |-> BlocksInPage - 1,
             size |-> BlocksInPage, used |-> {0}])

FSMAlloc ==
  /\ Cached("fsm") /\ Cardinality(page.used \cap 0 .. MaxBits) <= MaxBits
  /\ LET i == CHOOSE i \in 0 .. MaxBits : i \notin page.used /\ \A j \in 0 .. i - 1 : j \in page.used
     IN  Become([page EXCEPT !.used = @ \cup {i}, !.free = @ - 1])

FSMFree(i) ==
  /\ Cached("fsm") /\ i \in page.used
  /\ Become([page EXCEPT !.used = @ \ {i}, !.free = @ + 1])

SetNextPageID(id) == Cached("fsm") /\ Become([page EXCEPT !.next = id])

Dead == ~Up /\ UNCHANGED vars

Next ==
  \/ Evict
  \/ LoadNode \/ LoadTable \/ LoadSchema \/ LoadFSM
  \/ CreateLeaf \/ CreateRoot \/ Split
  \/ \E s \in Text : FillRoot(s) \/ InsertCell(s)
  \/ CreateTablePage \/ SetBtreePageID(Parent) \/ AddTuple
  \/ CreateSchemaPage
  \/ \E n \in Name : AddTable(n) \/ RemoveTable(n)
  \/ CreateFSMPage \/ FSMAlloc \/ SetNextPageID(BlocksInPage)
  \/ \E i \in 1 .. MaxBits : FSMFree(i)
  \/ Dead

Spec == Init /\ [][Next]_vars

-----------------------------------------------------------------------------
(* Properties *)

NodeOK ==
  /\ page.degree \in 0 .. U16 - 1
  /\ page.leaf \in BOOLEAN /\ page.root \in BOOLEAN
  /\ page.parent = IF page.root THEN PGID_INVALID ELSE Parent
  /\ page.leaf => page.children = << >>
  /\ page.cells # << >> /\ ~page.leaf => Len(page.children) = Len(page.cells) + 1

FSMOK ==
  /\ page.size \in {BlocksInPage, BlocksInPage + 24}
  /\ page.used \subseteq 0 .. page.size - 1
  /\ page.free = Cardinality((0 .. MaxBits) \ page.used) + BlocksInPage - 1 - MaxBits

\* Each variable has its type, and a page what its class promises of it.
TypeOK ==
  /\ columns \in Columns
  /\ status \in {"up", "dead"}
  /\ page = Gone \/ page.class \in {"node", "table", "schema", "fsm"}
  /\ Cached("node") => NodeOK
  /\ Cached("fsm") => FSMOK
  /\ Cached("schema") =>
       \A i, j \in 1 .. Len(page.tables) : page.tables[i].name = page.tables[j].name => i = j

\* A string that ends where its bytes say it does.
Plain(s) == s # Noise /\ CStr(s) = s

\* What has to hold of a page for it to be kept: the tables have less than 256
\* columns, and the strings less than MAX_STR_SZ characters and no zero byte.
Kept(p) ==
  /\ p.class = "node" =>
       /\ Len(columns) < U8
       /\ \A i \in 1 .. Len(p.cells) : \A j \in 1 .. Len(p.cells[i].value) :
            p.cells[i].value[j].type = "string" => Plain(p.cells[i].value[j].data)
  /\ p.class = "schema" => \A i \in 1 .. Len(p.tables) : Plain(p.tables[i].name)

\* The order of the entries is not kept, nor are the bits past the blocks.
Same(p, q) ==
  IF p.class = "schema"
  THEN {p.tables[i] : i \in 1 .. Len(p.tables)} = {q.tables[i] : i \in 1 .. Len(q.tables)}
  ELSE IF p.class = "fsm"
  THEN /\ q.next = p.next /\ q.free = p.free
       /\ q.used \cap 0 .. BlocksInPage - 1 = p.used \cap 0 .. BlocksInPage - 1
       /\ q.size >= p.size
  ELSE q = p

\* A page that is read is the page that was written, for each class, in any state
\* it is evicted in, and no constructor rejects it: what PageCache builds on.
RoundTrip ==
  [][page = Gone /\ block # {} /\ Kept(written) => status' = "up" /\ Same(written, page')]_vars

Cells == Len(page.cells)

\* calculateDegree makes the nodes fit: a node at rest has 2 t - 2 cells at most
\* and always fits its page; one that is being split has one more, and fits if the
\* types of the columns do not take more than the rest of the metadataBuffer.
NodesFit ==
  Cached("node") /\ Regular /\ CellSize(columns) < U16 =>
    \/ Cells > 2 * page.degree - 2 /\ Len(columns) > metadataBuffer - 15
    \/ Cells > 2 * page.degree - 1
    \/ Bytes(page) <= PG_SZ

\* The other pages always fit: what addTable and the constructor of TablePage
\* check is enough, and the bitmap fills its page when it was read back.
PagesFit == Up /\ page # Gone /\ page.class # "node" => Bytes(page) <= PG_SZ

\* "Offset out of bounds" (BtreeNodePage.tpp:164): what a node holds between two
\* calls fits its page, whatever table was created.
NodesAlwaysFit == Cached("node") /\ Cells < maxKeys(page.degree) => Bytes(page) <= PG_SZ
=============================================================================
