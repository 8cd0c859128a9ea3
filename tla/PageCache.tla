------------------------------ MODULE PageCache ------------------------------
(***************************************************************************)
(* class PageCache over the file of class IOHandler (src/src/backend): an  *)
(* LRU list of Page objects, written to their block when they are evicted  *)
(* and when the cache is destroyed.                                        *)
(*                                                                         *)
(* A Page object is a record of its class and its data.  toBytes and the   *)
(* constructor from bytes are inverse on it; what the constructor checks   *)
(* is the page type id, so a block decodes as one class only, and a block  *)
(* that was never written (Blank, zeros) as none.                          *)
(***************************************************************************)
EXTENDS Integers, Sequences, LRUList

CONSTANTS Capacity,   \* m_capacity: pages the cache may hold
          MaxBlocks,  \* bound of the model: blocks the file may grow to
          Class,      \* the page classes (SchemaPage, FSMPage, ...)
          Data,       \* what a page can hold
          Blank       \* content of a block that was never written

ASSUME CapacityAssumption == Capacity \in Nat \ {0}
ASSUME BlocksAssumption == MaxBlocks \in Nat

Page == [class : Class, data : Data]
PageID == 0 .. MaxBlocks - 1

ASSUME BlankAssumption == Blank \notin Page

VARIABLES phase,     \* "open", "closing" (in ~PageCache), "closed", "crashed"
          m_list,    \* page ids of the LRU list, most recently used first
          m_map,     \* page id -> Page object, for the ids of the list
          m_blocks,  \* IOHandler::m_blocks
          file,      \* block number -> content
          flushed    \* ids ~PageCache has written so far

vars == <<phase, m_list, m_map, m_blocks, file, flushed>>

Cached == DOMAIN m_map
NoPages == [p \in {} |-> Blank]

Init ==
  /\ phase = "open"
  /\ m_list = << >>
  /\ m_map = NoPages
  /\ m_blocks = 0
  /\ file = NoPages
  /\ flushed = {}

-----------------------------------------------------------------------------
(* IOHandler *)

\* Mutant: createMultipleBlocks forgets m_blocks += n.
CreateUncountedBlocks(n) ==
  /\ phase = "open"
  /\ m_blocks + n <= MaxBlocks
  /\ file' = [p \in 0 .. m_blocks + n - 1 |-> IF p < m_blocks THEN file[p] ELSE Blank]
  /\ UNCHANGED <<phase, m_list, m_map, m_blocks, flushed>>

\* createMultipleBlocks: the file is extended with zeroed blocks.
CreateMultipleBlocks(n) ==
  /\ phase = "open"
  /\ m_blocks + n <= MaxBlocks
  /\ m_blocks' = m_blocks + n
  /\ file' = [p \in 0 .. m_blocks + n - 1 |-> IF p < m_blocks THEN file[p] ELSE Blank]
  /\ UNCHANGED <<phase, m_list, m_map, flushed>>

\* writeBlock of the page the map m holds for p.
WriteBlock(m, p) == file' = [file EXCEPT ![p] = m[p]]

-----------------------------------------------------------------------------
(* The LRU list *)

\* Mutant: the evicted page is not written.
EvictBackUnwritten(l, m) ==
  /\ m_list' = SubSeq(l, 1, Len(l) - 1)
  /\ m_map' = [q \in DOMAIN m \ {l[Len(l)]} |-> m[q]]
  /\ UNCHANGED file

\* Size above capacity: write the back page, then forget it.  When writeBlock
\* throws, in pwrite or, with the block written, in fsync, the list and the map
\* stay one page above the capacity.
EvictBack(l, m) ==
  LET back == l[Len(l)]
  IN  \/ /\ WriteBlock(m, back)
         /\ m_list' = SubSeq(l, 1, Len(l) - 1)
         /\ m_map' = [q \in DOMAIN m \ {back} |-> m[q]]
      \/ /\ WriteBlock(m, back) \/ UNCHANGED file
         /\ m_list' = l
         /\ m_map' = m

\* Mutant: the cache evicts one page too early.
UpdateLRUTight(p, c) ==
  LET l == ToFront(m_list, p)
      m == [q \in Cached \cup {p} |-> IF q = p THEN c ELSE m_map[q]]
  IN  IF Len(l) >= Capacity
      THEN EvictBack(l, m)
      ELSE /\ m_list' = l
           /\ m_map' = m
           /\ UNCHANGED file

UpdateLRU(p, c) ==
  LET l == ToFront(m_list, p)
      m == [q \in Cached \cup {p} |-> IF q = p THEN c ELSE m_map[q]]
  IN  IF Len(l) > Capacity
      THEN EvictBack(l, m)
      ELSE /\ m_list' = l
           /\ m_map' = m
           /\ UNCHANGED file

-----------------------------------------------------------------------------
(* PageCache *)

\* insertPage: a new object for the id, replacing one that is cached.
InsertPage(p, c) ==
  /\ phase = "open"
  /\ p < m_blocks
  /\ UpdateLRU(p, c)
  /\ UNCHANGED <<phase, m_blocks, flushed>>

\* retrievePage<T> of a cached page.  For another class than T the cast of
\* the last line throws, when the list is already updated.
RetrieveHit(p) ==
  /\ phase = "open"
  /\ p \in Cached
  /\ UpdateLRU(p, m_map[p])
  /\ UNCHANGED <<phase, m_blocks, flushed>>

\* retrievePage<T> of a page that has to be read.  readBlock throws when p is
\* out of bounds, and nothing changes.
RetrieveMiss(T, p) ==
  /\ phase = "open"
  /\ p \notin Cached
  /\ p < m_blocks
  /\ file[p] \in Page
  /\ file[p].class = T
  /\ UpdateLRU(p, file[p])
  /\ UNCHANGED <<phase, m_blocks, flushed>>

\* The process ends with no destructor run: what is only cached is lost.
ProcessDies ==
  /\ phase' = "crashed"
  /\ m_list' = << >>
  /\ m_map' = NoPages
  /\ flushed' = {}
  /\ UNCHANGED <<m_blocks, file>>

\* The constructor of T asserts its page type id, and the block has another.
RetrieveAborts(T, p) ==
  /\ phase = "open"
  /\ p \notin Cached
  /\ p < m_blocks
  /\ file[p] \in Page => file[p].class # T
  /\ ProcessDies

\* A caller changes a page in place, through a reference that is still valid.
Mutate(p, d) ==
  /\ phase = "open"
  /\ p \in Cached
  /\ m_map' = [m_map EXCEPT ![p].data = d]
  /\ UNCHANGED <<phase, m_list, m_blocks, file, flushed>>

\* ~PageCache writes the pages of the map, in the order of the hash table.
BeginClose ==
  /\ phase = "open"
  /\ phase' = "closing"
  /\ flushed' = {}
  /\ UNCHANGED <<m_list, m_map, m_blocks, file>>

Flush(p) ==
  /\ phase = "closing"
  /\ p \in Cached \ flushed
  /\ WriteBlock(m_map, p)
  /\ flushed' = flushed \cup {p}
  /\ UNCHANGED <<phase, m_list, m_map, m_blocks>>

EndClose ==
  /\ phase = "closing"
  /\ flushed = Cached
  /\ phase' = "closed"
  /\ m_list' = << >>
  /\ m_map' = NoPages
  /\ flushed' = {}
  /\ UNCHANGED <<m_blocks, file>>

\* The process is killed, or a write that throws inside ~PageCache ends it; if the
\* block was written before fsync threw, this is the step after its Flush.
Crash ==
  /\ phase \in {"open", "closing"}
  /\ ProcessDies

\* A new IOHandler takes the number of blocks from the size of the file.
Reopen ==
  /\ phase \in {"closed", "crashed"}
  /\ phase' = "open"
  /\ UNCHANGED <<m_list, m_map, m_blocks, file, flushed>>

Next ==
  \/ \E n \in 1 .. MaxBlocks : CreateMultipleBlocks(n)
  \/ \E p \in PageID, c \in Page : InsertPage(p, c)
  \/ \E p \in PageID : RetrieveHit(p)
  \/ \E p \in PageID, T \in Class : RetrieveMiss(T, p)
  \/ \E p \in PageID, T \in Class : RetrieveAborts(T, p)
  \/ \E p \in PageID, d \in Data : Mutate(p, d)
  \/ BeginClose
  \/ \E p \in PageID : Flush(p)
  \/ EndClose
  \/ Crash
  \/ Reopen

Spec == Init /\ [][Next]_vars

-----------------------------------------------------------------------------
(* Properties *)

\* Each variable has its type: cached ids are blocks of the file, and the
\* file has as many blocks as m_blocks says.
TypeOK ==
  /\ phase \in {"open", "closing", "closed", "crashed"}
  /\ m_blocks \in 0 .. MaxBlocks
  /\ file \in [0 .. m_blocks - 1 -> Page \cup {Blank}]
  /\ Cached \subseteq 0 .. m_blocks - 1
  /\ m_map \in [Cached -> Page]
  /\ m_list \in Seq(Cached)
  /\ flushed \subseteq Cached

\* The list and the map of PageCache always speak of the same pages: every
\* mapped page has exactly one place in the list, also after a failed write.
ListMatchesMap ==
  /\ \A i, j \in 1 .. Len(m_list) : m_list[i] = m_list[j] => i = j
  /\ \A p \in Cached : \E i \in 1 .. Len(m_list) : m_list[i] = p

\* How long a reference returned by retrievePage may be held: a page in the
\* first Capacity - 1 places stays cached through any call and moves back by
\* one place at most, so it survives Capacity - 1 calls for other pages.
ReferencesSurvive ==
  [][phase = "open" /\ phase' = "open" =>
       \A i \in 1 .. Len(m_list) : i < Capacity =>
         \E j \in 1 .. Len(m_list') : j <= i + 1 /\ m_list'[j] = m_list[i]]_vars

\* What reading each page of the file gives.
View == [p \in DOMAIN file |-> IF p \in Cached THEN m_map[p] ELSE file[p]]

\* The cache is transparent: with any capacity, evictions, failed writes,
\* shutdowns and crashes it implements the page store.
Store == INSTANCE PageStore WITH
  store <- View,
  durable <- file,
  mode <- IF phase = "crashed" THEN "crashed"
          ELSE IF phase = "closed" THEN "clean" ELSE "up"

ImplementsPageStore == Store!Spec
=============================================================================
