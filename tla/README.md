# A TLA+ model of KNDB

KNDB is a small relational storage engine in C++: tables of typed tuples, one B-tree for each
table, in a file of 4 KiB pages behind an LRU page cache. This directory holds TLA+ modules that
model its layers, TLC configurations that check them on small instances, and proofs, checked by
TLAPS, of what holds for every size. Paths below are relative to the root of the repository, whose
code is under `src/src/`.

    cd tla
    tlc -workers 2 -config MCPager.cfg MCPager      # the same for every MC*.cfg
    tlapm PagerProofs.tla                           # the same for every *Proofs.tla

## 1. Inventory

The program has one thread. It is a stack of objects, each called by the one above it only; there
are no messages and no callbacks. What makes it hard is not interleaving but state that is kept
twice, references into a cache that evicts, calls that throw half way, and what a file holds when
the process has ended without running its destructors.

| Component | State | Operations | Calls |
|---|---|---|---|
| `IOHandler` | the file, `m_blocks` | `createMultipleBlocks`, `createNewBlock` (tests only), `readBlock`, `writeBlock` | the OS |
| `PageCache` | `m_list` (LRU order, owns the pages), `m_map` | `insertPage`, `retrievePage<T>`, `writePage`, destructor | `IOHandler` |
| `FSMPage` | bitmap, `m_freeBlocks`, `m_nextPageID` | `allocBit`, `freeBit`, `findNextFree`, `toBytes` | - |
| `FreeSpaceMap` | none: page 0 is the head of a list of FSM pages | `allocBit`, `freeBit`, `isFree`, `isFull`, `linkFSMPage` | `PageCache` |
| `Pager` | none | `createNewPage<T>`, `getPage<T>`, `freePage` (tests only), `isFree` | `FreeSpaceMap`, `IOHandler`, `PageCache` |
| `Btree`, `BtreeNodePage` | nodes; `m_rootPageID`, `m_degree` | `search`, `insert`, `update`, `split`; `remove` and `deleteTree` are empty | `Pager` |
| `Table`, `TablePage` | types, `numTuples`, `btreePageID` | insert, read, update, delete a tuple; `drop` is empty | `Btree`, `Pager` |
| `StorageEngine`, `SchemaPage` | `m_tables`; name -> page of the table | create and drop tables, tuple calls by table name | `Table`, `Pager` |
| `utility.hpp`, `constants.hpp` | - | encoding of values, `calculateDegree` | - |
| `main.cpp`, `assume.hpp` | - | a run that fills a table; assertions that abort | all |

What makes each correct, and what is hard about it:

- **IOHandler and PageCache**: a page is what was last put into it, whether it is cached, evicted or
  read back; list and map agree; a clean shutdown loses nothing; a reference that was returned lives
  as long as the callers rely on. Hard: a write that throws inside an eviction, the process that
  ends between two writes of the destructor, a page requested as the wrong class.
- **FreeSpaceMap and Pager**: nobody gets a page that somebody has; every free page can be found;
  "full" is the truth. Hard: three records of the same fact (bits, counts, list), failures between
  growing the file, linking and allocating, and bitmaps that are longer when read back.
- **Btree**: search finds every key, the tree stays balanced, nodes stay within their bounds.
  Hard: split over several levels and its parent ids; a page that is refused in the middle.
- **The references of the callers**: `getPage` returns a reference into the cache, and every further
  retrieval may evict what it refers to. Hard: nothing counts or pins pages; what keeps `split` and
  the constructor of `StorageEngine` sound is only that the cache is large enough.
- **utility.hpp and the bytes of the pages**: a page that is read is the page that was written, and
  it fits its block. Hard: the degree that makes nodes fit is computed from estimates in 16-bit
  integers, and the counts of types and columns are stored in one byte.
- **Table, StorageEngine**: counts and root ids agree with the trees, pages belong to one table.
  Hard: errors between two updates, a restart in between, tables that are dropped.

`PROJECT.json` lists the hazards line by line with the properties that cover them.

## 2. Plan

Done, in this order:

1. `PageStore` (abstract), `LRUList` and `PageCache` (IOHandler and PageCache), `MCPageCache`,
   `PageCacheProofs`
2. `Allocator` (abstract), `Pager` (FSMPage, FreeSpaceMap, Pager), `MCPager`, `PagerProofs`
3. `Dictionary` (abstract), `Btree`, `MCBtree`, `BtreeProofs`
4. `Catalog` (abstract), `StorageEngine` (with Table, TablePage and SchemaPage), `MCStorageEngine`,
   `StorageEngineProofs`
5. `Layout`, `LayoutProofs`, `PageBytes`, `MCPageBytes`, `PageBytesProofs`: the sizes of pages and
   `calculateDegree`, the bytes of the four classes of pages and what reading makes of them
6. `PageRefs`, `MCPageRefs`, `PageRefsProofs`: the references that calls hold over the LRU list of
   `PageCache`
7. `SharedProofs`, the lemmas that several of the proofs need: `Minimum` (a set of numbers has a
   least element), `SetInduction`, `Digits` (numbers with the same digits are the same), and what
   `ToFront` does to the list

A crash is modelled where the code has something to say about it, in `PageCache` and `PageStore`: the
file has some earlier content of each page. There is no log and no recovery above, and so no module
for it is planned: after a crash the upper layers promise nothing (section 7).

## 3. The modules

### PageCache, PageStore

`PageCache` has the LRU list (`m_list`, ids in order), the map (`m_map`, here from ids to the pages
themselves), the file as a function from block number to content, and the phase of the process. One
action for each call: `CreateMultipleBlocks`, `InsertPage`, `RetrieveHit`, `RetrieveMiss`,
`RetrieveAborts` (the block holds another class of page and the constructor's assertion ends the
process), `Mutate` (a caller writes through a reference), and the destructor block by block
(`BeginClose`, `Flush`, `EndClose`). `UpdateLRU` is `updateLRU` with its eviction. In `EvictBack`
the page is written and forgotten, or the write throws, in `pwrite` or, with the block written, in
`fsync`, and list and map stay one page above the capacity. The new order of the list, without the
eviction, is `ToFront` of `LRUList`, which `PageRefs` shares. `Crash` ends the process at any moment,
`Reopen` starts it again.

A page is a record of its class and its data. Reading back what was written gives the same page:
`PageBytes` shows for which pages that is so. The file keeps the order of the
writes (the code calls `fsync` after each), and a block is written whole.

`PageStore` is what the layer promises: a store in which any page may become durable at any moment,
a clean shutdown happens when all are, and a crash goes back to the durable content.
`ImplementsPageStore` is the refinement, with `View` (the cached page, else the block) as the store.

### Pager, Allocator

The file grows by groups of `B` blocks; block 0 of each group is its `FSMPage`. `groups` is the size
of the file, `fsm[k]` the FSM page of group k: the used bits, the length of the bitmap, the count of
free blocks that all decisions use, and the link. Links are group numbers. `live` and `lost` are
history: the pages callers own, and those that no call can return because a call failed.

`CreateNewPage` is the whole of `createNewPage` (grow, insert, link, find and take a bit),
`RefuseNewPage` its exception at the size limit, `FreePage` the call by an owner of the page. Every
other call that may throw in between, because it evicts a page or reads one, is one of four actions
named for what was done before: `FailUnchanged`, `FailBeforeLink` (the new FSM page is in no list, so
that its group is lost), `FailBeforeAlloc`, `FailAfterAlloc` (one page is lost). `Reload` is an
eviction of an FSM page and its return: the header takes 9 bytes in the file but 12 in the
constructor, and the bitmap that is read back has `TailBits` more bits with whatever the buffer
held. That the counts are never corrected is what keeps these bits from being handed out.

The module takes the pages as their last content: this is what `CacheIsTransparent` allows.

`Allocator` is the promise: `Alloc` of a page nobody has, `Refuse` when nothing is left, `Free`, and
`Fail`, which may cost pages.

### Btree, Dictionary

`nodes` is a function from page ids to nodes with the fields of `BtreeNodePage`. A call of `insert`
puts its cell into the leaf (`InsertCell`), and the recursion of `split` that follows is one step
for each level: `SplitNothing` (the early return), `SplitChild`, `SplitRoot`. `splitting` is the
argument of the next `split`; no other call starts before it is done, so that the states between the
steps are those a page eviction may write. `RefuseChild`, `RefuseRoot` and `RefuseSibling` are the
three places where `createNewPage` throws; pages are shared with other tables and never freed, so
that any call may be the first refused one and all later ones are refused as well (`refused`).
`AssertsHold` is what the code asserts of a node when it is searched (`Btree.tpp:39-55`) and when it
is written; a search that meets another node ends the process (`Abort`). `searchRowPtr` is a
recursive function over the pages, and `AtNode` is its body: what the search returns at one node.

`Dictionary` is the promise: unique keys, `insert` and `update` with the results the header
documents, and nothing any more after a refused page.

### StorageEngine, Catalog

`m_tables` is the set of Table objects (name, page of the table, root as `Btree` has it), `schema`
the map of the SchemaPage, `tablePages` the TablePages and `trees` what is really in the pages of
each tree: its rows, its root and its height, with two marks that are history. `damaged` says that
the tree has a node the assertions reject, as `Btree` shows it after a refused page, and `stopped`
that an `insertTuple` has thrown after its row was in the tree. Pages are numbered as they are
handed out, since no code frees one, and `MaxPages` is where the database is full. `call` and
`result` are the last call with its arguments and how it ended: the properties that speak of answers
need both, and no guard reads more of them than whether the process is still there (`Running`).

One action is one call, and its alternatives are the places where it can stop. `createTable` is
`CreateRejected`, `CreateDone`, `CreateStopsEarly` (the constructor of Table throws, its pages are
lost), `CreateStopsLate` (the table is in `m_tables`, but not in the SchemaPage) and `CreateDies`
(no columns, more than a TablePage has room for, or no room in the SchemaPage, all of which are
assertions). `dropTable` is `DropTable`. `insertTuple` is `NoSuchTable`, `WrongTypes`,
`StopsUnchanged`, `InsertDuplicate`, and `InsertRow` with `InsertDone`, `InsertStopsInSplit` and
`InsertStopsAfter` (before `addTuple`, or between it and `setBtreePageID`); `updateTuple` has
`UpdateRow`, and `removeTuple` has `RemoveRow`, which changes nothing because `Btree::remove` is not
written. A split is the number of nodes it divides below the root, and whether it divides the root:
it takes a page for each of the first and two for the root, in this order. When it stops in the root,
the root has moved if `createNewPage` has returned the new one, and has not if that call threw after
its page was taken. `Reopen` is a clean shutdown and the constructor that makes the tables from the
SchemaPage; it needs trees without damage, since the destructor of the cache writes every node and
`toBytes` asserts. `DamageFound` is the assertion that meets a damaged node; which call meets it is
left open, so that calls on a damaged tree may also succeed. The model takes a tree that was opened
at an old root (`AtRoot` is false) no further.

`Catalog` is the promise: named tables of rows with unique keys, and for each call the answers the
headers document, each under its condition. `insertTuple` answers false when no table has the name or
a row has the key, and in no other case; it throws for wrong types; it ends with an error and changes
nothing, or has its effect and breaks the table it names. Restarts change nothing that is not
broken. A broken table still answers for the rows it has, but its next restart may make anything of
it; the process may end later (`damage`) only if an insertion has failed. `Spec` is the whole
promise. `SpecSoFar` is the same with `RemoveNothing` in the place of `RemoveTuple`, and differs in
nothing else: it is what the code implements (`ImplementsCatalog`), and `engine_remove` shows that it
does not implement `Spec` (`ImplementsDocumentedCatalog`).

What a broken table may look like is the business of `DamageIsReported`: `CountsMatch` and `Catalog`
exempt broken tables from most of what they say, and so a property of the steps says what calls may
leave behind in any table, broken or not. A table comes to be missing from the SchemaPage, a tuple
from `numTuples`, one at a time, or a root from the TablePage only by a call that named this table and
threw; nothing but an insertion that throws changes how many tuples are missing; and an insertion
that moves the root and returns mends a TablePage that an earlier one has left with an old root.

### Layout, PageBytes

`Layout` has the numbers: `db_sizeof`, the size of a row and of a cell, `calculateDegree` with its
16-bit wrap, and the number of bytes `toBytes` writes for each class of page. It has no state.

`PageBytes` follows one page of a database, of any of the four classes, through what its callers do
to it, its evictions and its loads. A block is the set of the values that were written to it, each
with its offset and width, as `db_serialize` copies them; `Get` is `db_deserialize`, and a value
that was written nowhere at this offset with this width is `Noise`. So a reader whose offsets,
widths or counts differ from those of the writer does not get the page back. `NodeBlock` and
`NodeFrom`, `TableBlock` and `TableFrom`, `SchemaBlock` and `SchemaFrom`, `FSMBlock` and `FSMFrom`
are `toBytes` and the constructors from bytes; `NodeAsserts`, `NodeReadable`, `InBounds` and the
guards of the `Load` actions are their assertions, and `status = "dead"` is a failed one. Strings
are model values, and `CStr` says what is left of one when it is read up to its first zero byte.

The other actions are what the callers do to a page: `CreateLeaf`, `CreateRoot`, `FillRoot`,
`InsertCell`, `Split` for a node, `CreateTablePage`, `SetBtreePageID`, `AddTuple`,
`CreateSchemaPage`, `AddTable`, `RemoveTable`, and `CreateFSMPage`, `FSMAlloc`, `FSMFree`,
`SetNextPageID`. What the trees and the lists are made of is the business of the other modules;
here only the shape of a page matters.

`RoundTrip` says that what is read is what was written, with the exact conditions as `Kept`: a table
of less than 256 columns (their number is stored in one byte), and strings that are shorter than
`MAX_STR_SZ` and have no zero byte. It is what `PageCache` takes for granted, and its treatment of
the FSM page is the one that `Reload` of `Pager` has.

### PageRefs

`PageRefs` takes a call of the StorageEngine as a sequence of steps over `m_list`: a retrieval of a
page under the name the code gives to the reference, the insertion of a new page, and a use of
references. The operators are the functions of the code (`getPage`, `createNewPage`, `allocBit`,
`linkFSMPage`, `searchRowPtr`, `SplitChild`, `SplitRoot`, ...), and a call is the concatenation of the
steps of the functions it calls, in the order of the source; `Concat` puts the rounds of a loop
together, and `Visit` is a page that is retrieved and used at once. `refs` maps names to pages, and to
`None` once the page was evicted or replaced.

Which pages a call meets is left open: any path, any right half of the children, any fresh pages,
with or without growth of the file. This includes calls no tree allows, and all that it allows with
these numbers of pages. A call that throws in the middle uses no reference afterwards and is not
followed; a shorter call is in the model anyway.

## 4. The runs

| Run | Instance | What it shows |
|---|---|---|
| `pagecache` | capacity 2, up to 3 blocks, 2 classes, 2 contents | `TypeOK`, `ListMatchesMap`, `ReferencesSurvive`, `ImplementsPageStore` |
| `pager` | 3 groups of 3 blocks, 1 tail bit | `TypeOK`, `CountsRealBits`, `BitmapsMatchOwners`, `ListIsAvailable`, `GrowsOnlyWhenFull`, `ImplementsAllocator` |
| `btree` | degree 2, keys 1..7, 2 values | `TypeOK`, `WellFormedUnlessRefused`, `EveryCellFound`, `ParentsMatchChildren`, `Balanced`, `Occupancy`, `ImplementsDictionary`, `InsertReturns` |
| `btree_deep` | degree 2, keys 1..11, 1 value | the four properties of the shape of the tree |
| `btree_degree1` | degree 1, keys 1..3 | violates `WellFormedUnlessRefused` (section 6) |
| `btree_full` | degree 2, keys 1..7 | violates `NodesWellFormed` (section 6) |
| `engine` | 2 names, 4 keys, 6 pages, degree 2 | `TypeOK`, `CatalogMatches`, `CountsMatch`, `PagesApart`, `DamageIsReported`, `ImplementsCatalog` |
| `engine_remove` | 1 name, 2 keys, 6 pages, degree 2 | violates `ImplementsDocumentedCatalog` (section 6) |
| `engine_drop` | 2 names, 3 keys, 6 pages, degree 2 | violates `DropFreesPages` (section 6) |
| `pagebytes` | the sizes of the code, nine tables, 5 cells | `TypeOK`, `NodesFit`, `PagesFit`, `RoundTrip` |
| `pagebytes_wide` | a table of 31 strings | violates `NodesAlwaysFit` (section 6) |
| `pagerefs` | capacity 8, degree 3, 5 tables, 2 groups of 20 | `TypeOK`, `NoDanglingReference` |

Bounds. The cache has one block more than places, so that each page can be evicted, read back and
overtaken, and a failed write can leave it above its capacity; contents and classes are symmetric
sets, since no definition tells two of them apart. Three groups give a list of two FSM pages in both
orders, and two usable blocks in a group the states full, half and free; one tail bit that may be
read back as 0 or 1 is enough to be found by mistake. With degree 2 a node is split at three cells:
five keys split a leaf below the root, seven an inner root, eleven an inner node below the root, the
deepest branch of `split`; the trees of every order of insertion are explored. Two values tell an
update from its absence. In `StorageEngine` six pages hold the SchemaPage, two tables and one page
more, so that the database runs full between the two pages of a root split, or one table whose root
splits and then a leaf below it; a table can be dropped and created again under the same name. A
TablePage has room for one column there, and one of the lists of columns has two. Keys and names are
symmetric sets. There is one value: `Btree` has updates. The calls on tuples are made with the names
of `Name` only, as `BadName` is one that no table has. The view `Core` has the state without `call` and
`result`, which no guard reads beyond `Running`: each step is checked with the call it makes and its
answer, and no property asks for those of the step before. That the SchemaPage is full after 31 tables is a case of
`pagebytes`.

`PageBytes` has the real sizes (4096, 128, 100), and tables around each of its boundaries: every
type, no column, degree 2 with cells that fill the page to the edge, degree 2 with so many columns
that their types outgrow the `metadataBuffer`, degree 1, and 255, 256 and 257 columns around the
byte that stores their number. Nodes get at most five cells: a degree of 2 is full at three, and
wider nodes differ from these in their count only, which `LayoutProofs` has for all. A SchemaPage
begins with none or 30 tables, so that the next but one does not fit. In `pagerefs` the capacity is
the least that is sound: a split of a root needs `Degree + MAX_FSMPAGES + 3` places (the node, the
new root, the new node, the children that it goes through, and the FSM pages), and the constructor
needs one place for each table besides the SchemaPage and the FSM pages. With a capacity of 7 TLC
finds both violated. The code has 100000 places, degrees up to 333 and at most 31 tables, which is
why it is sound there. Only one table is called, since calls share nothing but the list; the list
may begin with any content that calls leave.

The bounds the code does not have are `MaxBlocks` of `PageCache`, `MaxCells`, `MaxTuples` and
`MaxBits` of `PageBytes`, and the sets of keys, paths and fresh pages.

Nothing is excluded by a constraint, and deadlock is checked in every run: the cache can always be
reopened, `Aborted` and `Dead` stand for a process that has ended, and a tree that has all keys still
answers.

Every property has a mutant, an operator marked as such beside the definition it replaces, that
changes the code as a plausible slip would; TLC finds the property violated by it.

Fairness. Only `Btree` has any: `WF_vars(Split)`. There is one thread, a call that has started is
not waiting for anything, and so the next step of `split` happens; no new call is assumed to come.
The other modules state safety only, as nothing in them runs by itself.

## 5. The proofs

`PageCacheProofs` proves for every capacity, every number of blocks, and any classes and contents
the type invariant, `ListMatchesMap`, `ReferencesSurvive` and the refinement of `PageStore`. The
inductive invariant `Inv` is the conjunction of the two invariants with `FlushedIsWritten`, which says
that the pages the destructor has gone through are in the file as they are in the cache, and two facts
about the phases: nothing is flushed while the cache is open, and nothing is cached when it is closed.
`Shutdown` of `PageStore` needs them. The lemmas `ToFrontProperties` and `UpdateLRUProperties` say once what a use of a page does
to the list (no page twice, no other page moves back by more than one place) and to the view of the
pages (nothing but the page that was put); the proofs of the actions cite them.

`PagerProofs` proves for every size of the groups, every length of the tail and every number of
groups all properties of the run `pager`. A step of `createNewPage` passes through FSM pages that
are no state of the module, and so the invariant is stated for a function `f` from `n` groups to
their FSM pages, the owned pages `L` and the lost pages `X`: `Good(f, n, L, X)`. It strengthens the
checked properties by `LostWhole`: a block that is lost while its bit is still free was lost with
its whole group, which is never group 0. Without it a lost page could share a group with free
blocks, and the list could not be characterized by them. `PushList`, `PopList` and `SameLinks` say
how the list changes; `TakeGood`, `ReturnGood`, `ExtendGood`, `FirstGroupGood` and `ReloadGood` that
the parts of the calls keep `Good`; `FullIsFull` that `isFull` tells the truth, from which
`GrowthIsNeeded` and the refusal of the allocator follow. `findNextFree` needs the least element of
a set of numbers; the lemma `Minimum` of `SharedProofs`, which the searches of `Btree` and the bit
that is set first in `PageBytes` need as well, takes it from the well-foundedness of strict
inclusion.

`LayoutProofs` proves what `calculateDegree` is for, for every list of column types, every size of
page and string, and every reserve of at least 10 bytes: between two calls a node has at most
`2 t - 2` cells and fits its page (`NodeAtRestFits`); a full node, with one cell more, fits if its
table has at most `metadataBuffer - 15` columns (`FullNodeFits`). `DegreeBound` bounds the product of
the quotient that the degree is, and `RowSizeBound` says that a row has a byte for each column: that
is what pays for the types in the header of a node at rest, which the code does not count.

`PageBytesProofs` carries this over to what a database does: all four properties of the run
`pagebytes` hold for every set of tables, all sizes and any number of cells, tuples and bits.

- That a node was created with the right degree says nothing of a node that was read, and so the
  inductive invariant `Inv` has the shape of the page in the cache and of the page the block was
  written from. `ReadHeader` shows that the fields of the header are read where they were written,
  since `NodeFields` keeps all others at offset 15 and behind; `ReadNode`, `ReadTable`, `ReadSchema`
  and `ReadFSM` that a page is read in its shape, and `ReadClass` that it is read as its class.
  `NodesFit` and `PagesFit` follow from `Inv` and `LayoutProofs`.
- `TypeOK` and `RoundTrip` need more than the shape: `WholeInv` adds what the callers rely on
  (`NodeWhole`, `TableWhole`, `SchemaWhole`, `FSMWhole`) for the page in the cache and for the page
  the block was written from, and that the latter passed the assertions of `toBytes`. Without the
  second half nothing could be said of a page that is read.
- The heart of it is that no two values of a page share an offset, as a later one would replace the
  earlier one. The keys of a node, its values and its children are put at sums of products, which
  are different because their digits are (`Digits` of `SharedProofs`, `CellPlaces`, `NodeParts`,
  `PartPlaces`), so that each is read where it was written (`ReadBack`). `ReadWhole` says that a node
  that is read is one the callers could have kept, even when its strings were cut or its columns are
  256 or more, and `ReadKept` that it is the same node when they were not; `ReadTableWhole`,
  `ReadSchemaWhole` and `ReadFSMWhole` are the two together for the other classes.
- The assumptions are that the columns of a table are a sequence of types, that the size of a page
  fits 16 bits, that a SchemaPage begins with no more tables than fit, has less than 256 of them and
  never fills its page to the last byte, that less bits are allocated than a group has blocks, and
  that `Noise` is none of the values that are written. The last byte matters because `toBytes`
  asserts `offset <= PG_SZ` (`SchemaPage.cpp:105`) and the constructor from bytes `offset < PG_SZ`
  (line 50): a page that is filled to the last byte could be written and not read. With the sizes of
  the code 31 entries take 4094 of the 4096 bytes and 32 do not fit.

`BtreeProofs` proves, for any keys and values and every degree from 2 to 32768, all safety
properties of the runs `btree` and `btree_deep` and the refinement of `Dictionary`. The bounds on the
degree are a hypothesis of each theorem, `DegreeFits`, and no assumption of the module, since TLC
checks it with degree 1 too, for which the properties are false (`btree_degree1`). Above 32768
`maxKeys` wraps, and no page has room for such a degree.

- The invariant has two parts. `Whole` is the tree as long as every page was granted: there are
  heights `h` and key sets `b`, one for each node, such that a child is one lower than its parent
  and names it, the key set of the root is all integers, a node holds keys of its set in order, and
  the sets of its children are the parts of its own between them; and each node has as many cells as
  the code wants of it, whether it is the root or about to be split (`Sizes`). `Linked` is what is
  left when a split is refused a page half way: the links and the heights, so that the recursions of
  search and of `split` still end, but not the order of the keys. Inductive is `Inv`, which is
  `TypeOK` and `Linked`, and `Whole` unless `refused`.
- The heights and key sets are not in the code. They are quantified in the invariant, so that each
  step has to give new ones: a split gives the new node the height of the old one and divides its
  key set at the median (`DividedTree`), a new root is one higher than the old root and has the set
  of all keys (`AddRootTree`), and a new cell in a leaf changes neither (`CellsTree`), as its key
  was in the set of the leaf already. That no two nodes hold the same key follows from the sets, and
  needs no clause of its own.
- The search goes down by one in height, so that the function by which `searchRowPtr` is defined
  exists and is unique (`WalkEquation`, with `SetInduction` on the height). From it follow what the
  search may return at all (`WalkSound`), that it finds the leaf to whose key set a key belongs
  (`WalkOrdered`), and, with an argument from each child to its parent, that it returns each cell
  from the root (`CellFound`). `AlwaysBalanced` has the depth of a node as the difference of its
  height to that of the root (`DepthIs`).
- `split` is two parts in the proof as in the code: the median goes up (`InsertedCells`) and the
  node becomes two (`Halves`, `Adopt`); the split of a root is that of a child below a new, empty
  root (`SplitRootIs`). For `Dictionary` it is a stutter, as the cells of all nodes together stay
  the same (`DividedCells`, `SplitSeen`).

`StorageEngineProofs` proves all properties of the run `engine`, for any names, columns, keys and
values, every number of pages, any room in the SchemaPage and in a TablePage, and every degree from 2
on.

- `PagesApart` alone is not inductive: `Reopen` takes the roots from the TablePages, and a name that
  was dropped may come back. The invariant has therefore for every tree that was ever created,
  dropped or not, the pages that belong to it (`Owned`: its TablePage, its root and the root that the
  TablePage names), and that they are apart (`OwnedApart`), as well as that each Table object has a
  tree of its own (`TablesHaveTrees`).
- All calls on one table are instances of `OneTableStep`, a change of one tree, its TablePage and the
  root in its Table object, whose lemmas (`OneTableInv`, `OneTableMissing`, `OneTableSeen`) are used by
  insert, by both of its failures, and by update. `InsertOutcome` is what the three ways an insertion
  can end have in common: a row more, whether the root has moved, and which answer goes with which
  TablePage. The invariant, `Reports` and `Catalog` are shown of it, each once.
- `DamageReported` needs the invariant for one thing: that the Table objects with one name are one, so
  that the table whose record gets worse is the one that was named. All other calls leave the record
  of each table as it is (`QuietReports`).
- For `Catalog` each answer is given under its condition, and for that the rows and types of the
  promise have to be those in the tree: `SeenByTable` says what a name stands for, and `RowsSeen`,
  `FoundSeen` and `NotFoundSeen` what the search may answer. A call that fails half way may break the
  one table it names: that it breaks no other is where `PagesApart` and the names of `CatalogMatches`
  are needed. A full SchemaPage ends the process only with `MaxTables` tables in the promise, since
  each entry has its Table object (`SchemaFits`). The theorem is about `SpecSoFar`, and so it says of
  `removeTuple` only that it changes nothing and answers false for keys of the right type.

`PageRefsProofs` proves both properties of the run `pagerefs` for every degree, size and number of
groups, databases, paths and fresh pages, and for every capacity that `CapacityAssumption` allows.

- A call is a list of steps that is known when it begins, so that the argument has two halves: what
  the lists are, and what the cache makes of them. For the first, `Leads(S, B, c, D)` says of the
  steps `c` that they touch the pages of `S` only and that, on a cache that evicts nothing, each
  reference they use stands for a page if those of `B` do before, and those of `D` do after. There is
  a rule for each kind of step and one for steps in sequence (`LeadsThen`), and with them a lemma for
  each function of the code (`LeadsAllocBit`, `LeadsCreateNewPage`, `LeadsSplitRoot`, ...), whose
  statement is what the function may rely on: `createNewPage` keeps the references of its callers
  (`Others`), since the FreeSpaceMap has names of its own. Loops go through `ConcatIn`, which is
  `SetInduction` on the number of rounds.
- `Grounded` says what a list of steps needs on a cache that does evict: each use has its retrieval
  before it, with at most `Capacity` different pages touched in between. What touches few pages in
  all is grounded (`GroundedFrom`), and one grounded list after another is grounded: so each level of
  a split, each visit of `searchRowPtr` and the loop of the constructor is counted for itself, however
  high the tree is. The counting (`Room`, `RoomForSplit`, `RoomToOpen`) is where the capacity is
  used: the FSM pages, the children of a full node, the node, its new sibling and the new root; and
  the FSM pages, the TablePages and the SchemaPage. That a new page replaces none of those a split
  holds is `FreshAssumption`: `allocBit` finds pages that are not in use, which is what
  `BitmapsMatchOwners` and the refinement of `Allocator` say of `Pager`.
- The inductive invariant `Inv` is `TypeOK` and, for every use that is still to come, one of two
  things: its retrieval is to come (`Grounds`), or its name stands for a page already, and the pages
  in front of it in the list together with those touched before the use are no more than the capacity
  (`Lasts`). `TypeOK` is in it because a page is evicted when the list, without repetition, is longer
  than the capacity (`UpdateLRUKeeps`, with `DistinctSize`); `NextStep` turns the first into the
  second.

The assumptions are those on the constants: a capacity of at least 1 (with 0 the code evicts the
page it is about to return), a blank block that is no page, groups of at least two blocks and at
least one group, integers as keys of a tree (the code compares them with `<`), pages of tables and
trees that are blocks of the file and no FSM pages, and the sizes and capacities as just said.

Only model-checked: `InsertReturns`, which is liveness under fairness and out of reach of the prover.

## 6. What the runs found

- **Degree 1** (`btree_degree1`). `calculateDegree` gives 1 for a table of ten string columns. A
  node is then full with one cell; `split` moves that cell into a new root, which is full again, and
  so on without end. On the way an inner node has no cells, which the assertion at
  `BtreeNodePage.tpp:114-118` rejects when the page is written.
- **A refused sibling** (`btree_full`). `split` of the root makes the new root the root of the tree
  before it creates the sibling. If the second page is refused, the root has a cell and no children,
  and the next call aborts with "Root node has incorrect number of cells" (`Btree.tpp:45-49`).
- **Dropped tables** (`engine_drop`). `Table::drop` is empty, although `Table.hpp:40-43` says that
  it deletes the nodes: the pages of a dropped table stay allocated.
- **Rows that stay** (`engine_remove`). `removeTuple` answers false for a row that is in the table and
  leaves it there, since `Btree::remove` only returns false (`Btree.tpp:211`). `StorageEngine.hpp:79`
  and `Table.hpp:89` give false to a missing table or key, and `src/README.md:13` promises full delete
  support. The trace creates a table, inserts a row and removes it.
- **Wide rows** (`pagebytes_wide`). `createTable` accepts a table of 31 string columns, for which
  `calculateDegree` gives 0 (`utility.hpp:152`). `maxKeys` is then 65535, and one row takes more
  than a page: when the node is evicted, `toBytes` writes past its buffer and then fails "Offset out
  of bounds" (`BtreeNodePage.tpp:164`).

## 7. Not modelled

- A crash of the process above the PageCache: there is no log, no check and no recovery at the next
  start, so that no state after it is promised or excluded. In `StorageEngine` a process that ends
  in an assertion does not come back.
- The getters, `getTuple` included, change nothing; `Btree` checks what a search returns.
- What `Btree::remove` and `Btree::deleteTree` are to do: there is no code yet (section 6 has what a
  caller sees of the first). `removeTuple` of `TablePage` is behind a `remove` that always fails.
  `MAX_TABLES` is used nowhere.
- The bytes of a single number: `PageBytes` takes the copy of a value as a whole. Rows whose size
  wraps at 2^16 in `calculateDegree` (512 string columns) are excluded from `NodesFit`; they fit no
  page.
- Requesting a cached page as the wrong class: the cast throws when the list is already updated,
  which is `RetrieveHit`; no code under `src/src` does it.
- `createNewBlock`, called by tests only, and the Windows half of `IOHandler`.
- Short reads and writes, and a file changed by somebody else.
- The bytes of the page of a freed block: `freePage` leaves the page in the cache, and what becomes
  of it there is the business of `PageCache`, where it is a page like any other.
