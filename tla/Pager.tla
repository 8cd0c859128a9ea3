-------------------------------- MODULE Pager --------------------------------
(***************************************************************************)
(* Pager's createNewPage and freePage over FreeSpaceMap and FSMPage        *)
(* (src/src/backend).  The file grows by groups of B blocks; the first     *)
(* block of group k is the FSMPage with page id k * B, whose bitmap says   *)
(* which blocks of the group are used.  The FSMPage of group 0 also holds  *)
(* the head of a linked list of the other FSM pages that have free blocks. *)
(* A link is the number of the group here, its page id in the code.        *)
(*                                                                         *)
(* The cache is transparent (PageCache implements PageStore), so that an   *)
(* FSM page is its last content; what evicting and reading it back does to *)
(* the bitmap is the action Reload, and what a failed write in the cache   *)
(* leaves of a call that throws half way are the Fail actions.             *)
(***************************************************************************)
EXTENDS Integers, FiniteSets

CONSTANTS B,      \* FSMPage::getBlocksInPage(), 32672 in the code
          TailBits, \* bits a bitmap has more once it was read back, 24 in the code
          MaxFSM  \* cts::MAX_FSMPAGES

ASSUME SizesAssumption == B \in Nat /\ B > 1 /\ TailBits \in Nat /\ MaxFSM \in Nat \ {0}

VARIABLES groups, \* IOHandler::getNumBlocks() / B
          fsm,    \* group -> its FSMPage
          live,   \* page ids createNewPage returned and freePage has not taken
          lost,   \* page ids no call can return because of a call that failed
          result  \* how the last call ended

vars == <<groups, fsm, live, lost, result>>

PGID_INVALID == -1
PageNo(k, b) == k * B + b
UsableIn(k) == {PageNo(k, b) : b \in 1 .. B - 1}
Usable == UNION {UsableIn(k) : k \in 0 .. MaxFSM - 1}

Init ==
  /\ groups = 0
  /\ fsm = [k \in {} |-> PGID_INVALID]
  /\ live = {}
  /\ lost = {}
  /\ result = "ok"

-----------------------------------------------------------------------------
(* FSMPage: used is m_bitmap, size its length in bits, free m_freeBlocks.  *)

\* Mutant: the FSM page counts its own block as free.
NewFSMPageMiscounted == [used |-> {0}, size |-> B, free |-> B, next |-> PGID_INVALID]

NewFSMPage == [used |-> {0}, size |-> B, free |-> B - 1, next |-> PGID_INVALID]

FindNextFree(pg) ==
  CHOOSE i \in (0 .. pg.size - 1) \ pg.used :
    \A j \in (0 .. pg.size - 1) \ pg.used : i <= j

\* Mutant: the count is changed but not the bitmap.
AllocBitUnset(pg, i) == [pg EXCEPT !.free = @ - 1]
AllocBit(pg, i) == [pg EXCEPT !.used = @ \cup {i}, !.free = @ - 1]
\* Mutants: freeBit forgets the count, or the bitmap.
FreeBitUncounted(pg, i) == [pg EXCEPT !.used = @ \ {i}]
FreeBitUncleared(pg, i) == [pg EXCEPT !.free = @ + 1]
FreeBit(pg, i) == [pg EXCEPT !.used = @ \ {i}, !.free = @ + 1]

-----------------------------------------------------------------------------
(* FreeSpaceMap *)

\* Mutant: the list is forgotten.
IsFullUnlisted(f) == f[0].free = 0
IsFull(f) == f[0].free = 0 /\ f[0].next = PGID_INVALID

\* linkFSMPage of group n
LinkFSMPage(f, n) == [f EXCEPT ![0].next = n, ![n].next = f[0].next]

\* allocBit: group 0 first, then the head of the list, which leaves the list
\* when its last bit is taken.
AllocGroup(f) == IF f[0].free # 0 THEN 0 ELSE f[0].next

TakeBit(f) ==
  LET k == AllocGroup(f)
      pg == AllocBit(f[k], FindNextFree(f[k]))
      g == [f EXCEPT ![k] = pg]
  IN  IF k # 0 /\ pg.free = 0 THEN [g EXCEPT ![0].next = pg.next] ELSE g

TakenPage(f) == PageNo(AllocGroup(f), FindNextFree(f[AllocGroup(f)]))

\* Mutant: a page that was full stays out of the list.
ReturnBitUnlinked(f, p) == [f EXCEPT ![p \div B] = FreeBit(f[p \div B], p % B)]

\* freeBit: a page that was full returns to the head of the list.
ReturnBit(f, p) ==
  LET k == p \div B
      pg == FreeBit(f[k], p % B)
      g == [f EXCEPT ![k] = pg]
  IN  IF k # 0 /\ pg.free = 1 THEN LinkFSMPage(g, k) ELSE g

-----------------------------------------------------------------------------
(* Pager *)

NeedsFSMPage == groups = 0 \/ IsFull(fsm)

\* createMultipleBlocks and insertPage of the new FSM page, not linked yet
Extended == [k \in 0 .. groups |-> IF k < groups THEN fsm[k] ELSE NewFSMPage]

WithRoom ==
  IF ~NeedsFSMPage THEN fsm
  ELSE IF groups = 0 THEN Extended ELSE LinkFSMPage(Extended, groups)

MayGrow == NeedsFSMPage => groups # MaxFSM
Grow == groups' = IF NeedsFSMPage THEN groups + 1 ELSE groups

CreateNewPage ==
  /\ MayGrow
  /\ Grow
  /\ fsm' = TakeBit(WithRoom)
  /\ live' = live \cup {TakenPage(WithRoom)}
  /\ result' = "ok"
  /\ UNCHANGED lost

\* "DB has reached maximum size limit"
RefuseNewPage ==
  /\ ~MayGrow
  /\ result' = "full"
  /\ UNCHANGED <<groups, fsm, live, lost>>

\* freePage, by the owner of the page
FreePage(p) ==
  /\ fsm' = ReturnBit(fsm, p)
  /\ live' = live \ {p}
  /\ result' = "ok"
  /\ UNCHANGED <<groups, lost>>

\* Any call: a read, an eviction or the growth of the file throws before
\* anything was changed.
FailUnchanged ==
  /\ result' = "error"
  /\ UNCHANGED <<groups, fsm, live, lost>>

\* createNewPage: inserting the new FSM page evicts another page, whose write
\* throws.  The file has grown, and the FSM page is in no list.
FailBeforeLink ==
  /\ groups \notin {0, MaxFSM}
  /\ IsFull(fsm)
  /\ Grow
  /\ fsm' = Extended
  /\ lost' = lost \cup UsableIn(groups)
  /\ result' = "error"
  /\ UNCHANGED live

\* createNewPage: one of the calls between linkFSMPage and allocBit throws.
FailBeforeAlloc ==
  /\ groups \notin {0, MaxFSM}
  /\ IsFull(fsm)
  /\ Grow
  /\ fsm' = WithRoom
  /\ result' = "error"
  /\ UNCHANGED <<live, lost>>

\* createNewPage: insertPage or getPage of the new page throws when its bit is
\* taken already; the caller never learns the page id.
FailAfterAlloc ==
  /\ MayGrow
  /\ Grow
  /\ fsm' = TakeBit(WithRoom)
  /\ lost' = lost \cup {TakenPage(WithRoom)}
  /\ result' = "error"
  /\ UNCHANGED live

\* The header is shorter on disk than the constructor reserves for it: the
\* bitmap that is read back is longer than the one that was written, and its
\* last bits are what the buffer of the first write held.
Reload(k) ==
  /\ fsm[k].size = B
  /\ \E garbage \in SUBSET (B .. B + TailBits - 1) :
       fsm' = [fsm EXCEPT ![k].size = B + TailBits, ![k].used = @ \cup garbage]
  /\ UNCHANGED <<groups, live, lost, result>>

Next ==
  \/ CreateNewPage
  \/ RefuseNewPage
  \/ \E p \in live : FreePage(p)
  \/ FailUnchanged
  \/ FailBeforeLink
  \/ FailBeforeAlloc
  \/ FailAfterAlloc
  \/ \E k \in DOMAIN fsm : Reload(k)

Spec == Init /\ [][Next]_vars

-----------------------------------------------------------------------------
(* Properties *)

FSMPage == [used : SUBSET (0 .. B + TailBits - 1), size : {B, B + TailBits}, free : 0 .. B - 1,
            next : 1 .. MaxFSM - 1 \cup {PGID_INVALID}]

\* Each variable has its type.
TypeOK ==
  /\ groups \in 0 .. MaxFSM
  /\ fsm \in [0 .. groups - 1 -> FSMPage]
  /\ live \subseteq Usable
  /\ lost \subseteq Usable
  /\ result \in {"ok", "full", "error"}

\* m_freeBlocks of FSMPage, which every decision is made by, counts the free
\* bits that stand for blocks and none of the bits past them, whatever the
\* page read back there.
CountsRealBits ==
  \A k \in DOMAIN fsm : fsm[k].free = Cardinality((0 .. B - 1) \ fsm[k].used)

\* A group whose FSM page was never linked: none of its blocks was handed out.
NeverLinked(k) ==
  /\ k # 0
  /\ UsableIn(k) \subseteq lost
  /\ \A b \in 1 .. B - 1 : b \notin fsm[k].used

\* The bitmaps and the callers agree: the used bits of a group are those of the
\* pages that callers own, as getPage and freePage assert of a page, and of the
\* pages that a failed createNewPage took and never returned (Pager.tpp:42), and
\* bit 0 of the FSM page.  Only the blocks of a group that createNewPage did not
\* come to link are lost with clear bits, and then all of them (Pager.tpp:36).
BitmapsMatchOwners ==
  /\ live \cap lost = {}
  /\ \A k \in DOMAIN fsm :
       /\ 0 \in fsm[k].used
       /\ \/ NeverLinked(k)
          \/ \A b \in 1 .. B - 1 : b \in fsm[k].used <=> PageNo(k, b) \in live \cup lost

\* The groups allocBit has to be able to find.
Available == {k \in DOMAIN fsm \ {0} : \E b \in 1 .. B - 1 :
                b \notin fsm[k].used /\ PageNo(k, b) \notin lost}

\* s lists the linked FSM pages, the head of the list last.
IsList(s, n) ==
  /\ \A i, j \in 1 .. n : s[i] = s[j] => i = j
  /\ {s[i] : i \in 1 .. n} = Available
  /\ \A i \in 1 .. n : fsm[s[i]].next = IF i = 1 THEN PGID_INVALID ELSE s[i - 1]
  /\ fsm[0].next = IF n = 0 THEN PGID_INVALID ELSE s[n]

\* The linked list of FreeSpaceMap holds every FSM page with a free block once
\* and no other, in any order of allocations, frees and failures.
ListIsAvailable ==
  groups > 0 => \E n \in 0 .. MaxFSM - 1 : \E s \in [1 .. n -> 1 .. MaxFSM - 1] : IsList(s, n)

\* The file grows only when no block of it is free (Pager.hpp: createNewPage).
GrowsOnlyWhenFull ==
  [][groups' # groups => \A k \in DOMAIN fsm : UsableIn(k) \subseteq live \cup lost]_vars

\* createNewPage and freePage implement the allocator: no page has two owners
\* and "full" is the truth.
Pages == INSTANCE Allocator
ImplementsAllocator == Pages!Spec
=============================================================================
