----------------------------- MODULE PagerProofs -----------------------------
(***************************************************************************)
(* Proofs about Pager for every size of the bitmaps and every number of    *)
(* FSM pages.  createNewPage works on FSM pages that are no state of the   *)
(* model (the new FSM page is inserted, linked and allocated from in one   *)
(* step), and so the invariant is about any function f from n groups to    *)
(* their FSM pages, with the live pages L and the lost pages X.            *)
(***************************************************************************)
EXTENDS Pager, SharedProofs, FiniteSetTheorems, TLAPS

USE SizesAssumption

FreeBits(pg) == (0 .. B - 1) \ pg.used
PagesOf(n) == UNION {UsableIn(k) : k \in 0 .. n - 1}

Typed(f, n) == f \in [0 .. n - 1 -> FSMPage]

Counted(f, n) == \A k \in 0 .. n - 1 : f[k].free = Cardinality(FreeBits(f[k]))

Owned(f, n, L, X) ==
  \A k \in 0 .. n - 1 :
    /\ 0 \in f[k].used
    /\ \A b \in 1 .. B - 1 :
         /\ PageNo(k, b) \in L => b \in f[k].used
         /\ b \in f[k].used => PageNo(k, b) \in L \cup X

\* A free bit is lost only together with the whole group, which has no used bit then
\* and is never group 0.
LostWhole(f, n, X) ==
  \A k \in 0 .. n - 1 : \A b \in 1 .. B - 1 :
    b \notin f[k].used /\ PageNo(k, b) \in X =>
      k # 0 /\ UsableIn(k) \subseteq X /\ \A c \in 1 .. B - 1 : c \notin f[k].used

Avail(f, n, X) ==
  {k \in 1 .. n - 1 : \E b \in 1 .. B - 1 : b \notin f[k].used /\ PageNo(k, b) \notin X}

ListOf(f, A, s, m) ==
  /\ \A i, j \in 1 .. m : s[i] = s[j] => i = j
  /\ {s[i] : i \in 1 .. m} = A
  /\ \A i \in 1 .. m : f[s[i]].next = IF i = 1 THEN PGID_INVALID ELSE s[i - 1]
  /\ f[0].next = IF m = 0 THEN PGID_INVALID ELSE s[m]

Listed(f, A) == \E m \in 0 .. MaxFSM - 1 : \E s \in [1 .. m -> 1 .. MaxFSM - 1] : ListOf(f, A, s, m)

Apart(n, L, X) == L \subseteq PagesOf(n) /\ X \subseteq PagesOf(n) /\ L \cap X = {}

Good(f, n, L, X) ==
  /\ Typed(f, n)
  /\ Counted(f, n)
  /\ Owned(f, n, L, X)
  /\ LostWhole(f, n, X)
  /\ Listed(f, Avail(f, n, X))
  /\ Apart(n, L, X)

-----------------------------------------------------------------------------
(* Numbers *)

\* The size of an interval that starts with 1.
LEMMA IntervalSize ==
  ASSUME NEW n \in Nat
  PROVE  IsFiniteSet(1 .. n) /\ Cardinality(1 .. n) = n
<1>1. 1 \in Int /\ n \in Int
  OBVIOUS
<1>2. IsFiniteSet(1 .. n) /\ Cardinality(1 .. n) = IF 1 > n THEN 0 ELSE n - 1 + 1
  BY <1>1, FS_Interval
<1>3. (IF 1 > n THEN 0 ELSE n - 1 + 1) = n
  OBVIOUS
<1> QED BY <1>2, <1>3

\* A page id tells its group and its bit.
LEMMA PageNoUnique ==
  ASSUME NEW k \in Nat, NEW b \in 0 .. B - 1
  PROVE  /\ PageNo(k, b) \in Nat
         /\ PageNo(k, b) \div B = k
         /\ PageNo(k, b) % B = b
         /\ \A j \in Nat, c \in 0 .. B - 1 : PageNo(k, b) = PageNo(j, c) => k = j /\ b = c
<1>1. k * B + b \in Nat /\ (k * B + b) \div B = k /\ (k * B + b) % B = b
  OBVIOUS
<1>2. ASSUME NEW j \in Nat, NEW c \in 0 .. B - 1
      PROVE  (j * B + c) \div B = j /\ (j * B + c) % B = c
  OBVIOUS
<1> QED BY <1>1, <1>2 DEF PageNo

LEMMA PagesOfMember ==
  ASSUME NEW n \in Nat, NEW p
  PROVE  p \in PagesOf(n) <=> \E k \in 0 .. n - 1, b \in 1 .. B - 1 : p = PageNo(k, b)
BY DEF PagesOf, UsableIn

\* findNextFree of a page with a free bit returns one that stands for a block.
LEMMA FindNextFreeIsReal ==
  ASSUME NEW pg \in FSMPage, 0 \in pg.used, FreeBits(pg) # {}
  PROVE  FindNextFree(pg) \in FreeBits(pg) /\ FindNextFree(pg) \in 1 .. B - 1
<1> DEFINE U == (0 .. pg.size - 1) \ pg.used
<1>1. pg.size \in Nat /\ B <= pg.size
  BY DEF FSMPage
<1>2. FreeBits(pg) \subseteq U
  BY <1>1 DEF FreeBits
<1>3. PICK i \in U : \A j \in U : i <= j
  <2>1. pg.size - 1 \in Nat /\ U \in SUBSET (0 .. pg.size - 1) /\ U # {}
    BY <1>1, <1>2
  <2> HIDE DEF U
  <2> QED BY <2>1, Minimum
<1>4. FindNextFree(pg) \in U /\ \A j \in U : FindNextFree(pg) <= j
  BY <1>3 DEF FindNextFree
<1>5. PICK c : c \in FreeBits(pg)
  OBVIOUS
<1>6. FindNextFree(pg) <= c /\ c <= B - 1
  BY <1>2, <1>4, <1>5 DEF FreeBits
<1> QED BY <1>1, <1>4, <1>6 DEF FreeBits

-----------------------------------------------------------------------------
(* The linked list *)

\* Pushing a group that is not in the list.
LEMMA PushList ==
  ASSUME NEW f, NEW g, NEW A, NEW k \in (1 .. MaxFSM - 1) \ A, Listed(f, A),
         g[0].next = k, g[k].next = f[0].next,
         \A j \in A : g[j].next = f[j].next
  PROVE  Listed(g, A \cup {k})
<1>0. PICK m \in 0 .. MaxFSM - 1 : \E s \in [1 .. m -> 1 .. MaxFSM - 1] : ListOf(f, A, s, m)
  BY DEF Listed
<1>1. PICK s \in [1 .. m -> 1 .. MaxFSM - 1] : ListOf(f, A, s, m)
  BY <1>0
<1> DEFINE t == [i \in 1 .. m + 1 |-> IF i = m + 1 THEN k ELSE s[i]]
<1>2. /\ t \in [1 .. m + 1 -> 1 .. MaxFSM - 1]
      /\ t[m + 1] = k
      /\ \A i \in 1 .. m : t[i] = s[i] /\ s[i] \in A
  BY <1>1 DEF ListOf
<1> HIDE DEF t
<1>3. ASSUME NEW i \in 1 .. m + 1, NEW j \in 1 .. m + 1, t[i] = t[j]
      PROVE  i = j
  <2>1. CASE i = m + 1 \/ j = m + 1
    BY <1>2, <1>3, <2>1
  <2>2. CASE i \in 1 .. m /\ j \in 1 .. m
    <3>1. s[i] = s[j]
      BY <1>2, <1>3, <2>2
    <3> QED BY <1>1, <2>2, <3>1 DEF ListOf
  <2> QED BY <2>1, <2>2
<1>4. {t[i] : i \in 1 .. m + 1} = A \cup {k}
  <2>1. A = {s[i] : i \in 1 .. m}
    BY <1>1 DEF ListOf
  <2>2. ASSUME NEW x \in A
        PROVE  \E i \in 1 .. m + 1 : x = t[i]
    <3>1. PICK i \in 1 .. m : x = s[i]
      BY <2>1
    <3> QED BY <3>1, <1>2
  <2>3. \E i \in 1 .. m + 1 : k = t[i]
    BY <1>2
  <2>4. ASSUME NEW i \in 1 .. m + 1
        PROVE  t[i] \in A \cup {k}
    <3>1. i = m + 1 \/ i \in 1 .. m
      OBVIOUS
    <3> QED BY <1>2, <3>1
  <2> QED BY <2>2, <2>3, <2>4
<1>5. m + 1 \in 0 .. MaxFSM - 1
  <2>1. /\ IsFiniteSet(1 .. m + 1) /\ Cardinality(1 .. m + 1) = m + 1
        /\ IsFiniteSet(1 .. MaxFSM - 1) /\ Cardinality(1 .. MaxFSM - 1) = MaxFSM - 1
    <3>1. m + 1 \in Nat /\ MaxFSM - 1 \in Nat
      OBVIOUS
    <3> QED BY <3>1, IntervalSize
  <2> DEFINE S == 1 .. m + 1
             T == 1 .. MaxFSM - 1
  <2>2. t \in [S -> T] /\ \A x, y \in S : t[x] = t[y] => x = y
    BY <1>2, <1>3
  <2>3. ~ (Cardinality(T) < Cardinality(S))
    <3>1. IsFiniteSet(S) /\ IsFiniteSet(T)
      BY <2>1
    <3> HIDE DEF S, T
    <3> QED BY <2>2, <3>1, FS_PigeonHole
  <2> QED BY <2>1, <2>3
<1>6. \A i \in 1 .. m + 1 : g[t[i]].next = IF i = 1 THEN PGID_INVALID ELSE t[i - 1]
  <2>1. ASSUME NEW i \in 1 .. m
        PROVE  g[t[i]].next = IF i = 1 THEN PGID_INVALID ELSE t[i - 1]
    <3>1. g[t[i]].next = f[s[i]].next
      BY <1>2
    <3> QED BY <1>1, <1>2, <3>1 DEF ListOf
  <2>2. g[t[m + 1]].next = IF m + 1 = 1 THEN PGID_INVALID ELSE t[m]
    BY <1>1, <1>2 DEF ListOf
  <2> QED BY <2>1, <2>2
<1>7. ListOf(g, A \cup {k}, t, m + 1)
  BY <1>2, <1>3, <1>4, <1>6 DEF ListOf
<1> QED BY <1>2, <1>5, <1>7 DEF Listed

\* Popping the head.
LEMMA PopList ==
  ASSUME NEW f, NEW g, NEW A, Listed(f, A), f[0].next # PGID_INVALID,
         g[0].next = f[f[0].next].next,
         \A j \in A \ {f[0].next} : g[j].next = f[j].next
  PROVE  Listed(g, A \ {f[0].next})
<1>0. PICK m \in 0 .. MaxFSM - 1 : \E s \in [1 .. m -> 1 .. MaxFSM - 1] : ListOf(f, A, s, m)
  BY DEF Listed
<1>1. PICK s \in [1 .. m -> 1 .. MaxFSM - 1] : ListOf(f, A, s, m)
  BY <1>0
<1>2. m # 0 /\ f[0].next = s[m]
  BY <1>1 DEF ListOf
<1> DEFINE t == [i \in 1 .. m - 1 |-> s[i]]
<1>3. /\ t \in [1 .. m - 1 -> 1 .. MaxFSM - 1]
      /\ \A i \in 1 .. m - 1 : t[i] = s[i] /\ s[i] # s[m] /\ s[i] \in A
  BY <1>1 DEF ListOf
<1> HIDE DEF t
<1>4. {t[i] : i \in 1 .. m - 1} = A \ {s[m]}
  <2>1. A = {s[i] : i \in 1 .. m}
    BY <1>1 DEF ListOf
  <2>2. ASSUME NEW x \in A \ {s[m]}
        PROVE  \E i \in 1 .. m - 1 : x = t[i]
    <3>1. PICK i \in 1 .. m : x = s[i]
      BY <2>1
    <3>2. i \in 1 .. m - 1
      BY <2>2, <3>1
    <3> QED BY <3>1, <3>2, <1>3
  <2> QED BY <1>3, <2>2
<1>5. \A i, j \in 1 .. m - 1 : t[i] = t[j] => i = j
  BY <1>1, <1>3 DEF ListOf
<1>6. \A i \in 1 .. m - 1 : g[t[i]].next = IF i = 1 THEN PGID_INVALID ELSE t[i - 1]
  <2>1. ASSUME NEW i \in 1 .. m - 1
        PROVE  g[t[i]].next = IF i = 1 THEN PGID_INVALID ELSE t[i - 1]
    <3>1. /\ i \in 1 .. m
          /\ i # 1 => i - 1 \in 1 .. m - 1
      OBVIOUS
    <3>2. g[t[i]].next = f[s[i]].next
      BY <1>2, <1>3
    <3>3. f[s[i]].next = IF i = 1 THEN PGID_INVALID ELSE s[i - 1]
      BY <1>1, <3>1 DEF ListOf
    <3> QED BY <1>3, <3>1, <3>2, <3>3
  <2> QED BY <2>1
<1>7. g[0].next = IF m - 1 = 0 THEN PGID_INVALID ELSE t[m - 1]
  BY <1>1, <1>2, <1>3 DEF ListOf
<1>8. ListOf(g, A \ {s[m]}, t, m - 1)
  BY <1>4, <1>5, <1>6, <1>7 DEF ListOf
<1>9. m - 1 \in 0 .. MaxFSM - 1
  BY <1>2
<1> QED BY <1>2, <1>3, <1>8, <1>9 DEF Listed

\* The head of the list is one of its groups, and there is none only when the
\* list is empty.
LEMMA HeadOfList ==
  ASSUME NEW f, NEW A, Listed(f, A)
  PROVE  IF f[0].next = PGID_INVALID THEN A = {} ELSE f[0].next \in A
<1>0. PICK m \in 0 .. MaxFSM - 1 : \E s \in [1 .. m -> 1 .. MaxFSM - 1] : ListOf(f, A, s, m)
  BY DEF Listed
<1>1. PICK s \in [1 .. m -> 1 .. MaxFSM - 1] : ListOf(f, A, s, m)
  BY <1>0
<1>2. CASE m = 0
  BY <1>1, <1>2 DEF ListOf
<1>3. CASE m # 0
  BY <1>1, <1>3 DEF ListOf, PGID_INVALID
<1> QED BY <1>2, <1>3

\* Only the links matter.
LEMMA SameLinks ==
  ASSUME NEW f, NEW g, NEW A, Listed(f, A), g[0].next = f[0].next,
         \A j \in A : g[j].next = f[j].next
  PROVE  Listed(g, A)
<1>0. PICK m \in 0 .. MaxFSM - 1 : \E s \in [1 .. m -> 1 .. MaxFSM - 1] : ListOf(f, A, s, m)
  BY DEF Listed
<1>1. PICK s \in [1 .. m -> 1 .. MaxFSM - 1] : ListOf(f, A, s, m)
  BY <1>0
<1>2. \A i \in 1 .. m : g[s[i]].next = f[s[i]].next
  BY <1>1 DEF ListOf
<1>3. ListOf(g, A, s, m)
  BY <1>1, <1>2 DEF ListOf
<1> QED BY <1>3 DEF Listed

-----------------------------------------------------------------------------
(* What the calls do to good FSM pages *)

\* The bits of one page when one is taken or returned.
LEMMA OneBit ==
  ASSUME NEW pg \in FSMPage, pg.free = Cardinality(FreeBits(pg)), NEW b \in 1 .. B - 1
  PROVE  /\ b \notin pg.used =>
              /\ AllocBit(pg, b) \in FSMPage
              /\ AllocBit(pg, b).used = pg.used \cup {b}
              /\ AllocBit(pg, b).next = pg.next
              /\ AllocBit(pg, b).free = Cardinality(FreeBits(AllocBit(pg, b)))
              /\ AllocBit(pg, b).free = 0 <=> FreeBits(AllocBit(pg, b)) = {}
         /\ b \in pg.used /\ 0 \in pg.used =>
              /\ FreeBit(pg, b) \in FSMPage
              /\ FreeBit(pg, b).used = pg.used \ {b}
              /\ FreeBit(pg, b).next = pg.next
              /\ FreeBit(pg, b).free = Cardinality(FreeBits(FreeBit(pg, b)))
              /\ FreeBit(pg, b).free = 1 <=> FreeBits(pg) = {}
<1> DEFINE F == FreeBits(pg)
<1>1. /\ IsFiniteSet(F)
      /\ Cardinality(F) \in Nat
      /\ Cardinality(F) = 0 <=> F = {}
  <2>1. IsFiniteSet(0 .. B - 1) /\ F \in SUBSET (0 .. B - 1)
    BY FS_Interval DEF FreeBits
  <2> QED BY <2>1, FS_Subset, FS_CardinalityType, FS_EmptySet
<1>2. ASSUME b \notin pg.used
      PROVE  /\ AllocBit(pg, b) \in FSMPage
             /\ AllocBit(pg, b).used = pg.used \cup {b}
             /\ AllocBit(pg, b).next = pg.next
             /\ AllocBit(pg, b).free = Cardinality(FreeBits(AllocBit(pg, b)))
             /\ AllocBit(pg, b).free = 0 <=> FreeBits(AllocBit(pg, b)) = {}
  <2>1. /\ AllocBit(pg, b).used = pg.used \cup {b}
        /\ AllocBit(pg, b).free = pg.free - 1
        /\ AllocBit(pg, b).next = pg.next
    BY DEF AllocBit, FSMPage
  <2>2. FreeBits(AllocBit(pg, b)) = F \ {b} /\ b \in F
    BY <1>2, <2>1 DEF FreeBits
  <2>3. /\ IsFiniteSet(F \ {b})
        /\ Cardinality(F \ {b}) = Cardinality(F) - 1
        /\ Cardinality(F \ {b}) \in Nat
        /\ Cardinality(F \ {b}) = 0 <=> F \ {b} = {}
    <3> HIDE DEF F
    <3>1. IsFiniteSet(F \ {b}) /\ Cardinality(F \ {b}) = Cardinality(F) - 1
      BY <1>1, <2>2, FS_RemoveElement
    <3> QED BY <3>1, FS_CardinalityType, FS_EmptySet
  <2>4. AllocBit(pg, b) \in FSMPage
    <3> DEFINE q == [pg EXCEPT !.used = pg.used \cup {b}]
    <3>1. q \in FSMPage /\ q.free = pg.free
      BY DEF FSMPage
    <3>2. pg.free - 1 \in 0 .. B - 1
      BY <1>1, <2>2, <2>3 DEF FSMPage
    <3>3. AllocBit(pg, b) = [q EXCEPT !.free = pg.free - 1]
      BY DEF AllocBit
    <3> HIDE DEF q
    <3> QED BY <3>1, <3>2, <3>3 DEF FSMPage
  <2> QED BY <2>1, <2>2, <2>3, <2>4
<1>3. ASSUME b \in pg.used, 0 \in pg.used
      PROVE  /\ FreeBit(pg, b) \in FSMPage
             /\ FreeBit(pg, b).used = pg.used \ {b}
             /\ FreeBit(pg, b).next = pg.next
             /\ FreeBit(pg, b).free = Cardinality(FreeBits(FreeBit(pg, b)))
             /\ FreeBit(pg, b).free = 1 <=> FreeBits(pg) = {}
  <2>1. /\ FreeBit(pg, b).used = pg.used \ {b}
        /\ FreeBit(pg, b).free = pg.free + 1
        /\ FreeBit(pg, b).next = pg.next
    BY DEF FreeBit, FSMPage
  <2>2. FreeBits(FreeBit(pg, b)) = F \cup {b} /\ b \notin F
    BY <1>3, <2>1 DEF FreeBits
  <2>3. /\ IsFiniteSet(F \cup {b})
        /\ Cardinality(F \cup {b}) = Cardinality(F) + 1
    <3> HIDE DEF F
    <3> QED BY <1>1, <2>2, FS_AddElement
  <2>4. Cardinality(F \cup {b}) <= B - 1
    <3>1. F \cup {b} \in SUBSET (1 .. B - 1)
      BY <1>3 DEF FreeBits
    <3>2. IsFiniteSet(1 .. B - 1) /\ Cardinality(1 .. B - 1) = B - 1
      <4>1. B - 1 \in Nat
        OBVIOUS
      <4> QED BY <4>1, IntervalSize
    <3> HIDE DEF F
    <3>3. Cardinality(F \cup {b}) <= Cardinality(1 .. B - 1)
      BY <3>1, <3>2, FS_Subset
    <3> QED BY <3>2, <3>3
  <2>5. FreeBit(pg, b) \in FSMPage
    <3> DEFINE q == [pg EXCEPT !.used = pg.used \ {b}]
    <3>1. q \in FSMPage /\ q.free = pg.free
      BY DEF FSMPage
    <3>2. pg.free + 1 \in 0 .. B - 1
      BY <1>1, <2>3, <2>4 DEF FSMPage
    <3>3. FreeBit(pg, b) = [q EXCEPT !.free = pg.free + 1]
      BY DEF FreeBit
    <3> HIDE DEF q
    <3> QED BY <3>1, <3>2, <3>3 DEF FSMPage
  <2>6. FreeBit(pg, b).free = 1 <=> FreeBits(pg) = {}
    <3> HIDE DEF F
    <3>1. pg.free = Cardinality(F)
      BY DEF F
    <3>2. FreeBit(pg, b).free = 1 <=> F = {}
      BY <1>1, <2>1, <3>1
    <3> QED BY <3>2 DEF F
  <2> QED BY <2>1, <2>2, <2>3, <2>5, <2>6
<1> QED BY <1>2, <1>3

\* FreeSpaceMap's allocBit finds a page that nobody has, and leaves good FSM
\* pages, whether the caller gets the page or loses it.
LEMMA TakeGood ==
  ASSUME NEW n \in 1 .. MaxFSM, NEW f, NEW L, NEW X, Good(f, n, L, X), ~IsFull(f)
  PROVE  /\ TakenPage(f) \in PagesOf(n) \ (L \cup X)
         /\ Good(TakeBit(f), n, L \cup {TakenPage(f)}, X)
         /\ Good(TakeBit(f), n, L, X \cup {TakenPage(f)})
<1> DEFINE k == AllocGroup(f)
           pg == f[k]
           b == FindNextFree(pg)
           p == PageNo(k, b)
           new == AllocBit(pg, b)
           g == TakeBit(f)
           A == Avail(f, n, X)
<1>1. /\ Typed(f, n) /\ Counted(f, n) /\ Owned(f, n, L, X)
      /\ LostWhole(f, n, X) /\ Listed(f, A) /\ Apart(n, L, X)
  BY DEF Good
<1>2. /\ k \in 0 .. n - 1
      /\ k # 0 => k = f[0].next /\ k \in A
  <2>1. CASE f[0].free # 0
    BY <2>1 DEF AllocGroup
  <2>2. CASE f[0].free = 0
    <3>1. k = f[0].next /\ f[0].next # PGID_INVALID
      BY <2>2 DEF AllocGroup, IsFull
    <3>2. k \in A
      BY <1>1, <3>1, HeadOfList
    <3> QED BY <3>1, <3>2 DEF Avail
  <2> QED BY <2>1, <2>2
<1> HIDE DEF k
<1>3. pg \in FSMPage /\ pg.free = Cardinality(FreeBits(pg)) /\ 0 \in pg.used
  BY <1>1, <1>2 DEF Typed, Counted, Owned
<1>4. FreeBits(pg) # {}
  <2>1. CASE k = 0
    <3>1. pg.free # 0
      <4>1. f[0].next = PGID_INVALID \/ f[0].next # 0
        BY <1>1, HeadOfList DEF Avail
      <4> QED BY <2>1, <4>1 DEF AllocGroup, IsFull, k, PGID_INVALID
    <3> QED BY <1>3, <3>1, FS_EmptySet
  <2>2. CASE k # 0
    BY <1>2, <2>2 DEF Avail, FreeBits
  <2> QED BY <2>1, <2>2
<1> HIDE DEF pg
<1>5. b \in FreeBits(pg) /\ b \in 1 .. B - 1 /\ b \notin pg.used
  BY <1>3, <1>4, FindNextFreeIsReal DEF FreeBits
<1> HIDE DEF b
<1>6. /\ new \in FSMPage
      /\ new.used = pg.used \cup {b}
      /\ new.next = pg.next
      /\ new.free = Cardinality(FreeBits(new))
      /\ new.free = 0 <=> FreeBits(new) = {}
  BY <1>3, <1>5, OneBit
<1>7. p = TakenPage(f)
  BY DEF TakenPage, p, k, b, pg
<1> HIDE DEF p, A
<1>8. \A j \in 0 .. n - 1, c \in 1 .. B - 1 : PageNo(j, c) = p <=> j = k /\ c = b
  <2>1. k \in Nat /\ b \in 0 .. B - 1
    BY <1>2, <1>5
  <2>2. \A j \in Nat, c \in 0 .. B - 1 : p = PageNo(j, c) => k = j /\ b = c
    BY <2>1, PageNoUnique DEF p
  <2> QED BY <2>2 DEF p
<1>9. k # 0 => ~ (UsableIn(k) \subseteq X)
  BY <1>2 DEF A, Avail, UsableIn
<1>10. p \in PagesOf(n) \ (L \cup X)
  <2>1. p \in PagesOf(n)
    BY <1>2, <1>5, PagesOfMember DEF p
  <2>2. p \notin L
    BY <1>1, <1>2, <1>5 DEF Owned, p, pg
  <2>3. p \notin X
    BY <1>1, <1>2, <1>5, <1>9 DEF LostWhole, p, pg
  <2> QED BY <2>1, <2>2, <2>3
\* The new FSM pages
<1> HIDE DEF new
<1> DEFINE h == [f EXCEPT ![k] = new]
           next == IF k # 0 /\ new.free = 0 THEN new.next ELSE h[0].next
<1>11. g = IF k # 0 /\ new.free = 0 THEN [h EXCEPT ![0].next = new.next] ELSE h
  BY DEF g, TakeBit, k, b, pg, new, h
<1>12. /\ h \in [0 .. n - 1 -> FSMPage]
       /\ h[k] = new
       /\ \A j \in (0 .. n - 1) \ {k} : h[j] = f[j]
  BY <1>1, <1>2, <1>6 DEF Typed
<1>13. h[0] \in FSMPage /\ new.next \in 1 .. MaxFSM - 1 \cup {PGID_INVALID}
  BY <1>6, <1>12 DEF FSMPage
<1> HIDE DEF h, g
<1>15. ASSUME NEW x \in FSMPage, NEW y \in 1 .. MaxFSM - 1 \cup {PGID_INVALID}
       PROVE  /\ [x EXCEPT !.next = y] \in FSMPage
              /\ [x EXCEPT !.next = y].used = x.used
              /\ [x EXCEPT !.next = y].free = x.free
              /\ [x EXCEPT !.next = y].next = y
  BY DEF FSMPage
<1>16. /\ g \in [0 .. n - 1 -> FSMPage]
       /\ \A j \in 0 .. n - 1 : g[j].used = h[j].used /\ g[j].free = h[j].free
       /\ \A j \in 1 .. n - 1 : g[j] = h[j]
       /\ g[0].next = next
  <2>1. CASE k # 0 /\ new.free = 0
    <3> DEFINE q == [h[0] EXCEPT !.next = new.next]
    <3>1. g = [h EXCEPT ![0] = q]
      BY <1>11, <2>1
    <3>2. q \in FSMPage /\ q.used = h[0].used /\ q.free = h[0].free /\ q.next = next
      BY <1>13, <1>15, <2>1
    <3> HIDE DEF q, next
    <3> QED BY <1>12, <3>1, <3>2
  <2>2. CASE ~ (k # 0 /\ new.free = 0)
    BY <1>11, <1>12, <2>2
  <2> QED BY <2>1, <2>2
<1> HIDE DEF next
<1>17. /\ \A j \in (0 .. n - 1) \ {k} : g[j].used = f[j].used /\ g[j].free = f[j].free
       /\ g[k].used = pg.used \cup {b}
       /\ g[k].free = new.free
  BY <1>2, <1>6, <1>12, <1>16
<1>18. \A j \in 1 .. n - 1 : g[j].next = f[j].next
  BY <1>6, <1>12, <1>16 DEF pg
<1>19. Typed(g, n)
  BY <1>16 DEF Typed
<1>20. Counted(g, n)
  <2>1. ASSUME NEW j \in (0 .. n - 1) \ {k}
        PROVE  g[j].free = Cardinality(FreeBits(g[j]))
    BY <1>1, <1>17 DEF Counted, FreeBits
  <2>2. g[k].free = Cardinality(FreeBits(g[k]))
    BY <1>6, <1>17 DEF FreeBits
  <2> QED BY <2>1, <2>2 DEF Counted
<1>21. ASSUME NEW L2, NEW X2, L2 \cup X2 = L \cup X \cup {p}, L2 \subseteq L \cup {p},
              X \subseteq X2, X2 \subseteq X \cup {p}, L2 \cap X2 = {}
       PROVE  Good(g, n, L2, X2)
  <2>1. Owned(g, n, L2, X2)
    <3>1. ASSUME NEW j \in 0 .. n - 1
          PROVE  0 \in g[j].used
      BY <1>1, <1>3, <1>17 DEF Owned
    <3>2. ASSUME NEW j \in 0 .. n - 1, NEW c \in 1 .. B - 1
          PROVE  /\ PageNo(j, c) \in L2 => c \in g[j].used
                 /\ c \in g[j].used => PageNo(j, c) \in L2 \cup X2
      <4>1. CASE j = k /\ c = b
        BY <1>8, <1>17, <1>21, <4>1
      <4>2. CASE ~ (j = k /\ c = b)
        <5>1. PageNo(j, c) # p /\ (c \in g[j].used <=> c \in f[j].used)
          BY <1>8, <1>17, <4>2 DEF pg
        <5> QED BY <1>1, <1>21, <5>1 DEF Owned
      <4> QED BY <4>1, <4>2
    <3> QED BY <3>1, <3>2 DEF Owned
  <2>2. ASSUME NEW j \in 0 .. n - 1, NEW c \in 1 .. B - 1, c \notin g[j].used
        PROVE  /\ c \notin f[j].used
               /\ PageNo(j, c) \in X2 <=> PageNo(j, c) \in X
    BY <1>8, <1>17, <1>21, <2>2 DEF pg
  <2>3. LostWhole(g, n, X2)
    <3> SUFFICES ASSUME NEW j \in 0 .. n - 1, NEW c \in 1 .. B - 1,
                        c \notin g[j].used, PageNo(j, c) \in X2
                 PROVE  /\ j # 0 /\ UsableIn(j) \subseteq X2
                        /\ \A d \in 1 .. B - 1 : d \notin g[j].used
      BY DEF LostWhole
    <3>1. j # 0 /\ UsableIn(j) \subseteq X /\ \A d \in 1 .. B - 1 : d \notin f[j].used
      BY <1>1, <2>2 DEF LostWhole
    <3>2. j # k
      BY <1>9, <3>1
    <3>3. \A d \in 1 .. B - 1 : d \in g[j].used <=> d \in f[j].used
      BY <1>17, <3>2
    <3>4. X \subseteq X2
      BY <1>21
    <3> QED BY <3>1, <3>3, <3>4
  <2>4. Avail(g, n, X2) = IF k # 0 /\ new.free = 0 THEN A \ {k} ELSE A
    <3>1. ASSUME NEW j \in (1 .. n - 1) \ {k}
          PROVE  j \in Avail(g, n, X2) <=> j \in A
      <4>1. \A c \in 1 .. B - 1 : PageNo(j, c) \in X2 <=> PageNo(j, c) \in X
        BY <1>8, <1>21
      <4> QED BY <1>17, <4>1 DEF Avail, A
    <3>2. CASE k # 0 /\ new.free = 0
      <4>1. k \notin Avail(g, n, X2)
        BY <1>6, <1>17, <3>2 DEF Avail, FreeBits
      <4> QED BY <3>1, <3>2, <4>1 DEF Avail, A
    <3>3. CASE k # 0 /\ new.free # 0
      <4>1. PICK c : c \in FreeBits(new)
        BY <1>6, <3>3
      <4>2. c \in 1 .. B - 1 /\ c \notin g[k].used
        BY <1>3, <1>6, <1>17, <4>1 DEF FreeBits
      <4>3. PageNo(k, c) \notin X2
        BY <1>1, <1>2, <1>9, <2>2, <4>2 DEF LostWhole
      <4>4. k \in Avail(g, n, X2) /\ k \in A
        BY <1>2, <3>3, <4>2, <4>3 DEF Avail
      <4> QED BY <3>1, <3>3, <4>4 DEF Avail, A
    <3>4. CASE k = 0
      BY <3>1, <3>4 DEF Avail, A
    <3> QED BY <3>2, <3>3, <3>4
  <2>5. Listed(g, Avail(g, n, X2))
    <3>1. \A j \in A : j \in 1 .. n - 1
      BY DEF A, Avail
    <3>2. CASE k # 0 /\ new.free = 0
      <4>1. f[0].next = k /\ k # PGID_INVALID /\ g[0].next = f[k].next
        BY <1>2, <1>6, <1>16, <3>2 DEF next, pg, PGID_INVALID
      <4> QED BY <1>1, <1>18, <2>4, <3>1, <3>2, <4>1, PopList
    <3>3. CASE ~ (k # 0 /\ new.free = 0)
      <4>1. g[0].next = f[0].next
        <5>1. g[0].next = h[0].next
          BY <1>16, <3>3 DEF next
        <5>2. CASE k = 0
          BY <1>6, <1>12, <5>1, <5>2 DEF pg
        <5>3. CASE k # 0
          BY <1>12, <5>1, <5>3
        <5> QED BY <5>2, <5>3
      <4> QED BY <1>1, <1>18, <2>4, <3>1, <3>3, <4>1, SameLinks
    <3> QED BY <3>2, <3>3
  <2>6. Apart(n, L2, X2)
    BY <1>1, <1>10, <1>21 DEF Apart
  <2> QED BY <1>19, <1>20, <2>1, <2>3, <2>5, <2>6 DEF Good
<1>22. Good(g, n, L \cup {p}, X) /\ Good(g, n, L, X \cup {p})
  <2>1. L \cap X = {}
    BY <1>1 DEF Apart
  <2>2. Good(g, n, L \cup {p}, X)
    BY <1>10, <1>21, <2>1
  <2>3. Good(g, n, L, X \cup {p})
    BY <1>10, <1>21, <2>1
  <2> QED BY <2>2, <2>3
<1> QED BY <1>7, <1>10, <1>22 DEF g

\* linkFSMPage writes two links and nothing else.
LEMMA LinkProperties ==
  ASSUME NEW n \in 1 .. MaxFSM, NEW f \in [0 .. n - 1 -> FSMPage], NEW k \in 1 .. n - 1,
         NEW g, g = LinkFSMPage(f, k)
  PROVE  /\ g \in [0 .. n - 1 -> FSMPage]
         /\ \A j \in 0 .. n - 1 : g[j].used = f[j].used /\ g[j].free = f[j].free
         /\ g[0].next = k
         /\ g[k].next = f[0].next
         /\ \A j \in (1 .. n - 1) \ {k} : g[j] = f[j]
<1> DEFINE x == [f[0] EXCEPT !.next = k]
           y == [f[k] EXCEPT !.next = f[0].next]
<1>1. f[0] \in FSMPage /\ f[k] \in FSMPage /\ k \in 1 .. MaxFSM - 1
  OBVIOUS
<1>2. x \in FSMPage /\ x.used = f[0].used /\ x.free = f[0].free /\ x.next = k
  BY <1>1 DEF FSMPage
<1>3. y \in FSMPage /\ y.used = f[k].used /\ y.free = f[k].free /\ y.next = f[0].next
  BY <1>1 DEF FSMPage
<1>4. g = [f EXCEPT ![0] = x, ![k] = y]
  BY DEF LinkFSMPage
<1> HIDE DEF x, y
<1>5. /\ g \in [0 .. n - 1 -> FSMPage]
      /\ g[0] = x /\ g[k] = y
      /\ \A j \in (1 .. n - 1) \ {k} : g[j] = f[j]
  BY <1>2, <1>3, <1>4
<1>6. ASSUME NEW j \in 0 .. n - 1
      PROVE  g[j].used = f[j].used /\ g[j].free = f[j].free
  <2>1. j = 0 \/ j = k \/ j \in (1 .. n - 1) \ {k}
    OBVIOUS
  <2> QED BY <1>2, <1>3, <1>5, <2>1
<1> QED BY <1>2, <1>3, <1>5, <1>6

\* What the constructor of a new FSM page leaves.
LEMMA NewPageProperties ==
  /\ NewFSMPage \in FSMPage
  /\ NewFSMPage.used = {0} /\ NewFSMPage.free # 0
  /\ NewFSMPage.free = Cardinality(FreeBits(NewFSMPage))
<1>1. FreeBits(NewFSMPage) = 1 .. B - 1
  BY DEF NewFSMPage, FreeBits
<1>2. Cardinality(1 .. B - 1) = B - 1
  <2>1. B - 1 \in Nat
    OBVIOUS
  <2> QED BY <2>1, IntervalSize
<1>3. NewFSMPage \in FSMPage
  BY DEF NewFSMPage, FSMPage, PGID_INVALID
<1> QED BY <1>1, <1>2, <1>3 DEF NewFSMPage

ExtendedBy(f, n) == [k \in 0 .. n |-> IF k < n THEN f[k] ELSE NewFSMPage]

\* The first group.
LEMMA FirstGroupGood ==
  ASSUME NEW f
  PROVE  Good(ExtendedBy(f, 0), 1, {}, {}) /\ ~IsFull(ExtendedBy(f, 0))
<1> DEFINE g == ExtendedBy(f, 0)
<1>1. g \in [0 .. 0 -> FSMPage] /\ g[0] = NewFSMPage
  BY NewPageProperties DEF ExtendedBy
<1>2. g[0].next = PGID_INVALID
  BY <1>1 DEF NewFSMPage
<1> HIDE DEF g
<1>3. Typed(g, 1) /\ Counted(g, 1)
  BY <1>1, NewPageProperties DEF Typed, Counted
<1>4. Owned(g, 1, {}, {}) /\ LostWhole(g, 1, {}) /\ Apart(1, {}, {})
  BY <1>1, NewPageProperties DEF Owned, LostWhole, Apart
<1>5. Listed(g, Avail(g, 1, {}))
  <2>1. Avail(g, 1, {}) = {}
    BY DEF Avail
  <2> DEFINE s == [i \in 1 .. 0 |-> 1]
  <2>2. s \in [1 .. 0 -> 1 .. MaxFSM - 1] /\ ListOf(g, {}, s, 0)
    BY <1>2 DEF ListOf
  <2> HIDE DEF s
  <2>3. 0 \in 0 .. MaxFSM - 1
    OBVIOUS
  <2> QED BY <2>1, <2>2, <2>3 DEF Listed
<1>6. ~IsFull(g)
  BY <1>1, NewPageProperties DEF IsFull
<1> QED BY <1>3, <1>4, <1>5, <1>6 DEF Good, g

\* A new FSM page, linked by linkFSMPage or forgotten by a failed call.
LEMMA ExtendGood ==
  ASSUME NEW n \in 1 .. MaxFSM - 1, NEW f, NEW L, NEW X, Good(f, n, L, X)
  PROVE  /\ Good(ExtendedBy(f, n), n + 1, L, X \cup UsableIn(n))
         /\ Good(LinkFSMPage(ExtendedBy(f, n), n), n + 1, L, X)
         /\ ~IsFull(LinkFSMPage(ExtendedBy(f, n), n))
         /\ UsableIn(n) \cap (L \cup X) = {}
<1> DEFINE e == ExtendedBy(f, n)
           g == LinkFSMPage(e, n)
           A == Avail(f, n, X)
<1>1. /\ Typed(f, n) /\ Counted(f, n) /\ Owned(f, n, L, X)
      /\ LostWhole(f, n, X) /\ Listed(f, A) /\ Apart(n, L, X)
  BY DEF Good
<1>2. /\ e \in [0 .. n -> FSMPage]
      /\ e[n] = NewFSMPage
      /\ \A j \in 0 .. n - 1 : e[j] = f[j]
  BY <1>1, NewPageProperties DEF Typed, ExtendedBy
<1> HIDE DEF e
<1>3. UsableIn(n) \cap PagesOf(n) = {}
  <2>1. ASSUME NEW b \in 1 .. B - 1, PageNo(n, b) \in PagesOf(n)
        PROVE  FALSE
    <3>1. PICK k \in 0 .. n - 1, c \in 1 .. B - 1 : PageNo(n, b) = PageNo(k, c)
      BY <2>1, PagesOfMember
    <3>2. \A j \in Nat, d \in 0 .. B - 1 : PageNo(n, b) = PageNo(j, d) => n = j /\ b = d
      BY PageNoUnique
    <3> QED BY <3>1, <3>2
  <2> QED BY <2>1 DEF UsableIn
<1>4. \A b \in 1 .. B - 1 : PageNo(n, b) \notin L \cup X
  BY <1>1, <1>3 DEF Apart, UsableIn
<1>5. \A j \in 0 .. n - 1, b \in 1 .. B - 1 : PageNo(j, b) \notin UsableIn(n)
  <2>1. ASSUME NEW j \in 0 .. n - 1, NEW b \in 1 .. B - 1
        PROVE  PageNo(j, b) \in PagesOf(n)
    BY PagesOfMember
  <2> QED BY <1>3, <2>1
<1>6. PagesOf(n + 1) = PagesOf(n) \cup UsableIn(n)
  <2>1. 0 .. n + 1 - 1 = (0 .. n - 1) \cup {n}
    OBVIOUS
  <2> QED BY <2>1 DEF PagesOf
<1>7. /\ g \in [0 .. n -> FSMPage]
      /\ \A j \in 0 .. n : g[j].used = e[j].used /\ g[j].free = e[j].free
      /\ g[0].next = n
      /\ g[n].next = e[0].next
      /\ \A j \in (1 .. n) \ {n} : g[j] = e[j]
  <2> DEFINE m == n + 1
  <2>1. m \in 1 .. MaxFSM /\ m - 1 = n /\ n \in 1 .. m - 1
    OBVIOUS
  <2> HIDE DEF m
  <2>2. e \in [0 .. m - 1 -> FSMPage]
    BY <1>2, <2>1
  <2>3. /\ g \in [0 .. m - 1 -> FSMPage]
        /\ \A j \in 0 .. m - 1 : g[j].used = e[j].used /\ g[j].free = e[j].free
        /\ g[0].next = n
        /\ g[n].next = e[0].next
        /\ \A j \in (1 .. m - 1) \ {n} : g[j] = e[j]
    <3> HIDE DEF g
    <3>1. g = LinkFSMPage(e, n)
      BY DEF g
    <3> HIDE DEF e
    <3>2. m \in 1 .. MaxFSM /\ n \in 1 .. m - 1
      BY <2>1
    <3> QED BY <2>2, <3>1, <3>2, LinkProperties
  <2> HIDE DEF g
  <2> QED BY <2>1, <2>3
<1> HIDE DEF g, A
<1>8. \A j \in 0 .. n - 1 : /\ e[j].used = f[j].used /\ e[j].free = f[j].free
                             /\ g[j].used = f[j].used /\ g[j].free = f[j].free
  BY <1>2, <1>7
<1>9. e[n].used = {0} /\ g[n].used = {0}
  BY <1>2, <1>7, NewPageProperties
<1>10. \A j \in A : j \in 1 .. n - 1
  BY DEF A, Avail
<1>11. ASSUME NEW h, h = e \/ h = g, NEW Y, Y = X \cup UsableIn(n) \/ Y = X
       PROVE  /\ Typed(h, n + 1) /\ Counted(h, n + 1) /\ Owned(h, n + 1, L, Y)
              /\ LostWhole(h, n + 1, Y) /\ Apart(n + 1, L, Y)
              /\ Avail(h, n + 1, Y) = IF Y = X THEN A \cup {n} ELSE A
  <2>1. \A j \in 0 .. n : j \in 0 .. n - 1 \/ j = n
    OBVIOUS
  <2>2. /\ \A j \in 0 .. n - 1 : h[j].used = f[j].used /\ h[j].free = f[j].free
        /\ h[n].used = {0} /\ h[n].free = NewFSMPage.free
    BY <1>2, <1>7, <1>8, <1>9, <1>11
  <2>3. Typed(h, n + 1)
    BY <1>2, <1>7, <1>11 DEF Typed
  <2>4. Counted(h, n + 1)
    <3>1. \A j \in 0 .. n - 1 : h[j].free = Cardinality(FreeBits(h[j]))
      BY <1>1, <2>2 DEF Counted, FreeBits
    <3>2. h[n].free = Cardinality(FreeBits(h[n]))
      BY <2>2, NewPageProperties DEF FreeBits
    <3> QED BY <2>1, <3>1, <3>2 DEF Counted
  <2>5. \A j \in 0 .. n - 1, b \in 1 .. B - 1 : PageNo(j, b) \in Y <=> PageNo(j, b) \in X
    BY <1>5, <1>11
  <2>6. Owned(h, n + 1, L, Y)
    <3>1. ASSUME NEW j \in 0 .. n - 1
          PROVE  /\ 0 \in h[j].used
                 /\ \A b \in 1 .. B - 1 :
                      /\ PageNo(j, b) \in L => b \in h[j].used
                      /\ b \in h[j].used => PageNo(j, b) \in L \cup Y
      BY <1>1, <2>2, <2>5 DEF Owned
    <3>2. /\ 0 \in h[n].used
          /\ \A b \in 1 .. B - 1 :
               /\ PageNo(n, b) \in L => b \in h[n].used
               /\ b \in h[n].used => PageNo(n, b) \in L \cup Y
      BY <1>4, <2>2
    <3> QED BY <2>1, <3>1, <3>2 DEF Owned
  <2>7. LostWhole(h, n + 1, Y)
    <3>1. ASSUME NEW j \in 0 .. n - 1, NEW b \in 1 .. B - 1,
                 b \notin h[j].used, PageNo(j, b) \in Y
          PROVE  /\ j # 0 /\ UsableIn(j) \subseteq Y
                 /\ \A c \in 1 .. B - 1 : c \notin h[j].used
      BY <1>1, <1>11, <2>2, <2>5, <3>1 DEF LostWhole
    <3>2. ASSUME NEW b \in 1 .. B - 1, PageNo(n, b) \in Y
          PROVE  n # 0 /\ UsableIn(n) \subseteq Y
      BY <1>4, <1>11, <3>2
    <3>3. \A c \in 1 .. B - 1 : c \notin h[n].used
      BY <2>2
    <3> QED BY <2>1, <3>1, <3>2, <3>3 DEF LostWhole
  <2>8. Apart(n + 1, L, Y)
    BY <1>1, <1>3, <1>6, <1>11 DEF Apart
  <2>9. Avail(h, n + 1, Y) = IF Y = X THEN A \cup {n} ELSE A
    <3>1. \A j \in 1 .. n - 1 : j \in Avail(h, n + 1, Y) <=> j \in A
      BY <2>2, <2>5 DEF Avail, A
    <3>2. n \in Avail(h, n + 1, Y) <=> Y = X
      <4>1. 1 \in 1 .. B - 1 /\ 1 \notin h[n].used
        BY <2>2
      <4>2. PageNo(n, 1) \in UsableIn(n) /\ PageNo(n, 1) \notin X
        BY <1>4, <4>1 DEF UsableIn
      <4>3. CASE Y = X
        BY <4>1, <4>2, <4>3 DEF Avail
      <4>4. CASE Y # X
        BY <1>11, <4>4 DEF Avail, UsableIn
      <4> QED BY <4>3, <4>4
    <3> DEFINE V == Avail(h, n + 1, Y)
    <3>3. V \subseteq 1 .. n /\ A \subseteq 1 .. n - 1
      BY DEF Avail, A
    <3>4. \A j \in 1 .. n : j \in 1 .. n - 1 \/ j = n
      OBVIOUS
    <3>5. n \in 1 .. n /\ n \notin 1 .. n - 1 /\ 1 .. n - 1 \subseteq 1 .. n
      OBVIOUS
    <3> HIDE DEF V
    <3>6. CASE Y = X
      <4>1. V \subseteq A \cup {n}
        BY <3>1, <3>3, <3>4 DEF V
      <4>2. A \cup {n} \subseteq V
        BY <3>1, <3>2, <3>3, <3>6 DEF V
      <4> QED BY <3>6, <4>1, <4>2 DEF V
    <3>7. CASE Y # X
      <4>1. V \subseteq A
        BY <3>1, <3>2, <3>3, <3>4, <3>7 DEF V
      <4>2. A \subseteq V
        BY <3>1, <3>3 DEF V
      <4> QED BY <3>7, <4>1, <4>2 DEF V
    <3> QED BY <3>6, <3>7
  <2> QED BY <2>3, <2>4, <2>6, <2>7, <2>8, <2>9
<1>12. Good(e, n + 1, L, X \cup UsableIn(n))
  <2>1. X \cup UsableIn(n) # X
    <3>1. PageNo(n, 1) \in UsableIn(n) /\ PageNo(n, 1) \notin X
      BY <1>4 DEF UsableIn
    <3> QED BY <3>1
  <2>2. Listed(e, A)
    BY <1>1, <1>2, <1>10, SameLinks
  <2> QED BY <1>11, <2>1, <2>2 DEF Good
<1>13. Good(g, n + 1, L, X)
  <2>1. Listed(g, A \cup {n})
    <3>1. n \in (1 .. MaxFSM - 1) \ A
      BY <1>10
    <3>2. g[n].next = f[0].next
      BY <1>2, <1>7
    <3>3. \A j \in A : g[j].next = f[j].next
      BY <1>2, <1>7, <1>10
    <3> QED BY <1>1, <1>7, <3>1, <3>2, <3>3, PushList
  <2> QED BY <1>11, <2>1 DEF Good
<1>14. ~IsFull(g)
  BY <1>7 DEF IsFull, PGID_INVALID
<1> QED BY <1>1, <1>3, <1>12, <1>13, <1>14 DEF Apart, e, g

\* freeBit of a page that somebody owns.
LEMMA ReturnGood ==
  ASSUME NEW n \in 1 .. MaxFSM, NEW f, NEW L, NEW X, Good(f, n, L, X), NEW p \in L
  PROVE  Good(ReturnBit(f, p), n, L \ {p}, X)
<1>1. /\ Typed(f, n) /\ Counted(f, n) /\ Owned(f, n, L, X)
      /\ LostWhole(f, n, X) /\ Listed(f, Avail(f, n, X)) /\ Apart(n, L, X)
  BY DEF Good
<1>2. PICK k \in 0 .. n - 1 : \E c \in 1 .. B - 1 : p = PageNo(k, c)
  BY <1>1, PagesOfMember DEF Apart
<1>3. PICK b \in 1 .. B - 1 : p = PageNo(k, b)
  BY <1>2
<1>4. /\ p \div B = k /\ p % B = b
      /\ \A j \in 0 .. n - 1, c \in 1 .. B - 1 : PageNo(j, c) = p <=> j = k /\ c = b
  <2>1. k \in Nat /\ b \in 0 .. B - 1
    OBVIOUS
  <2>2. /\ PageNo(k, b) \div B = k /\ PageNo(k, b) % B = b
        /\ \A j \in Nat, c \in 0 .. B - 1 : PageNo(k, b) = PageNo(j, c) => k = j /\ b = c
    BY <2>1, PageNoUnique
  <2> QED BY <1>3, <2>2
<1> DEFINE pg == f[k]
           new == FreeBit(pg, b)
           A == Avail(f, n, X)
<1>5. /\ pg \in FSMPage /\ pg.free = Cardinality(FreeBits(pg))
      /\ 0 \in pg.used /\ b \in pg.used /\ p \notin X
  BY <1>1, <1>3 DEF Typed, Counted, Owned, Apart
<1> HIDE DEF pg
<1>6. /\ new \in FSMPage
      /\ new.used = pg.used \ {b}
      /\ new.next = pg.next
      /\ new.free = Cardinality(FreeBits(new))
      /\ new.free = 1 <=> FreeBits(pg) = {}
  BY <1>5, OneBit
<1> HIDE DEF new, A
<1> DEFINE h == [f EXCEPT ![k] = new]
           push == k # 0 /\ new.free = 1
           g == IF push THEN LinkFSMPage(h, k) ELSE h
<1>7. ReturnBit(f, p) = g
  BY <1>4 DEF ReturnBit, new, pg
<1>8. /\ h \in [0 .. n - 1 -> FSMPage]
      /\ h[k] = new
      /\ \A j \in (0 .. n - 1) \ {k} : h[j] = f[j]
      /\ \A j \in 0 .. n - 1 : h[j].next = f[j].next
  BY <1>1, <1>6 DEF Typed, pg
<1> HIDE DEF h
<1>9. push => /\ g \in [0 .. n - 1 -> FSMPage]
              /\ \A j \in 0 .. n - 1 : g[j].used = h[j].used /\ g[j].free = h[j].free
              /\ g[0].next = k
              /\ g[k].next = h[0].next
              /\ \A j \in (1 .. n - 1) \ {k} : g[j] = h[j]
  <2> SUFFICES ASSUME push
               PROVE  /\ g \in [0 .. n - 1 -> FSMPage]
                      /\ \A j \in 0 .. n - 1 : g[j].used = h[j].used /\ g[j].free = h[j].free
                      /\ g[0].next = k
                      /\ g[k].next = h[0].next
                      /\ \A j \in (1 .. n - 1) \ {k} : g[j] = h[j]
    OBVIOUS
  <2>1. k \in 1 .. n - 1 /\ g = LinkFSMPage(h, k)
    OBVIOUS
  <2> HIDE DEF g
  <2>2. h \in [0 .. n - 1 -> FSMPage]
    BY <1>8
  <2> QED BY <2>1, <2>2, LinkProperties
<1>10. /\ g \in [0 .. n - 1 -> FSMPage]
       /\ \A j \in (0 .. n - 1) \ {k} : g[j].used = f[j].used /\ g[j].free = f[j].free
       /\ g[k].used = pg.used \ {b} /\ g[k].free = new.free
  BY <1>6, <1>8, <1>9
<1>11. /\ push => g[0].next = k /\ g[k].next = f[0].next
       /\ ~push => g[0].next = f[0].next
       /\ \A j \in (1 .. n - 1) \ {k} : g[j].next = f[j].next
       /\ ~push => \A j \in 1 .. n - 1 : g[j].next = f[j].next
  <2>1. 0 \in 0 .. n - 1
    OBVIOUS
  <2> QED BY <1>8, <1>9, <2>1
<1> HIDE DEF g, push
<1>12. \A j \in 0 .. n - 1, c \in 1 .. B - 1 :
         /\ c \notin g[j].used <=> c \notin f[j].used \/ PageNo(j, c) = p
         /\ 0 \in f[j].used => 0 \in g[j].used
  BY <1>4, <1>10 DEF pg
<1>13. Typed(g, n)
  BY <1>10 DEF Typed
<1>14. Counted(g, n)
  <2>1. ASSUME NEW j \in (0 .. n - 1) \ {k}
        PROVE  g[j].free = Cardinality(FreeBits(g[j]))
    BY <1>1, <1>10 DEF Counted, FreeBits
  <2>2. g[k].free = Cardinality(FreeBits(g[k]))
    BY <1>6, <1>10 DEF FreeBits
  <2> QED BY <2>1, <2>2 DEF Counted
<1>15. Owned(g, n, L \ {p}, X)
  <2>1. \A j \in 0 .. n - 1 : 0 \in f[j].used => 0 \in g[j].used
    BY <1>10 DEF pg
  <2> QED BY <1>1, <1>12, <2>1 DEF Owned
<1>16. LostWhole(g, n, X)
  BY <1>1, <1>5, <1>12 DEF LostWhole
<1>17. Avail(g, n, X) = IF k # 0 THEN A \cup {k} ELSE A
  <2> DEFINE V == Avail(g, n, X)
  <2>1. V \subseteq 1 .. n - 1 /\ A \subseteq 1 .. n - 1
    BY DEF Avail, A
  <2>2. \A j \in (1 .. n - 1) \ {k} : j \in V <=> j \in A
    BY <1>10 DEF Avail, A
  <2>3. k # 0 => k \in V
    BY <1>3, <1>5, <1>10 DEF Avail
  <2> HIDE DEF V
  <2>4. CASE k = 0
    <3>1. (1 .. n - 1) \ {k} = 1 .. n - 1
      BY <2>4
    <3> QED BY <2>1, <2>2, <2>4, <3>1 DEF V
  <2>5. CASE k # 0
    <3>1. V \subseteq A \cup {k}
      BY <2>1, <2>2
    <3>2. A \cup {k} \subseteq V
      BY <2>1, <2>2, <2>3, <2>5
    <3> QED BY <2>5, <3>1, <3>2 DEF V
  <2> QED BY <2>4, <2>5
<1>18. /\ push => k # 0 /\ k \notin A
       /\ k # 0 /\ ~push => k \in A
  <2>1. ASSUME push
        PROVE  k # 0 /\ k \notin A
    <3>1. k # 0 /\ FreeBits(pg) = {}
      BY <1>6, <2>1 DEF push
    <3> QED BY <3>1 DEF A, Avail, FreeBits, pg
  <2>2. ASSUME k # 0, ~push
        PROVE  k \in A
    <3>1. PICK c : c \in FreeBits(pg)
      BY <1>6, <2>2 DEF push
    <3>2. c \in 1 .. B - 1 /\ c \notin f[k].used
      BY <1>5, <3>1 DEF FreeBits, pg
    <3>3. PageNo(k, c) \notin X
      <4>1. p \in UsableIn(k)
        BY <1>3 DEF UsableIn
      <4> QED BY <1>1, <1>5, <3>2, <4>1 DEF LostWhole
    <3> QED BY <2>2, <3>2, <3>3 DEF A, Avail
  <2> QED BY <2>1, <2>2
<1>19. Listed(g, Avail(g, n, X))
  <2>1. \A j \in A : j \in 1 .. n - 1
    BY DEF A, Avail
  <2>2. Listed(f, A)
    BY <1>1 DEF A
  <2>3. CASE push
    <3>1. k \in (1 .. MaxFSM - 1) \ A
      BY <1>18, <2>3
    <3>2. \A j \in A : g[j].next = f[j].next
      BY <1>11, <1>18, <2>1, <2>3
    <3>3. Listed(g, A \cup {k})
      BY <1>11, <2>2, <2>3, <3>1, <3>2, PushList
    <3> QED BY <1>17, <1>18, <2>3, <3>3
  <2>4. CASE ~push
    <3>1. Listed(g, A)
      BY <1>11, <2>1, <2>2, <2>4, SameLinks
    <3>2. Avail(g, n, X) = A
      BY <1>17, <1>18, <2>4
    <3> QED BY <3>1, <3>2
  <2> QED BY <2>3, <2>4
<1>20. Apart(n, L \ {p}, X)
  BY <1>1 DEF Apart
<1> QED BY <1>7, <1>13, <1>14, <1>15, <1>16, <1>19, <1>20 DEF Good

\* Evicting an FSM page and reading it back: only bits past the group change.
LEMMA ReloadGood ==
  ASSUME NEW n \in 1 .. MaxFSM, NEW f, NEW L, NEW X, Good(f, n, L, X), NEW k \in 0 .. n - 1,
         NEW garbage \in SUBSET (B .. B + TailBits - 1)
  PROVE  Good([f EXCEPT ![k].size = B + TailBits, ![k].used = @ \cup garbage], n, L, X)
<1> DEFINE new == [f[k] EXCEPT !.size = B + TailBits, !.used = @ \cup garbage]
           g == [f EXCEPT ![k].size = B + TailBits, ![k].used = @ \cup garbage]
<1>1. /\ Typed(f, n) /\ Counted(f, n) /\ Owned(f, n, L, X)
      /\ LostWhole(f, n, X) /\ Listed(f, Avail(f, n, X)) /\ Apart(n, L, X)
  BY DEF Good
<1>2. f \in [0 .. n - 1 -> FSMPage] /\ f[k] \in FSMPage
  BY <1>1 DEF Typed
<1>3. /\ new \in FSMPage
      /\ new.used = f[k].used \cup garbage
      /\ new.free = f[k].free /\ new.next = f[k].next
  <2>1. f[k].used \cup garbage \in SUBSET (0 .. B + TailBits - 1)
    <3>1. f[k].used \in SUBSET (0 .. B + TailBits - 1)
      BY <1>2 DEF FSMPage
    <3>2. \A i \in B .. B + TailBits - 1 : i \in 0 .. B + TailBits - 1
      OBVIOUS
    <3> QED BY <3>1, <3>2
  <2> DEFINE u == f[k].used \cup garbage
  <2>2. new = [f[k] EXCEPT !.size = B + TailBits, !.used = u]
    OBVIOUS
  <2> HIDE DEF u, new
  <2>3. [f[k] EXCEPT !.size = B + TailBits] \in FSMPage
    BY <1>2 DEF FSMPage
  <2>4. [f[k] EXCEPT !.size = B + TailBits, !.used = u] \in FSMPage
    BY <1>2, <2>1, <2>3 DEF FSMPage, u
  <2>5. new.used = u /\ new.free = f[k].free /\ new.next = f[k].next
    BY <1>2, <2>2 DEF FSMPage
  <2> QED BY <2>2, <2>4, <2>5 DEF u
<1>4. g = [f EXCEPT ![k] = new]
  BY <1>2
<1> HIDE DEF new, g
<1>5. /\ g \in [0 .. n - 1 -> FSMPage]
      /\ g[k] = new
      /\ \A j \in (0 .. n - 1) \ {k} : g[j] = f[j]
  BY <1>2, <1>3, <1>4
<1>6. /\ \A j \in 0 .. n - 1 : g[j].free = f[j].free /\ g[j].next = f[j].next
      /\ \A j \in 0 .. n - 1 : FreeBits(g[j]) = FreeBits(f[j])
      /\ \A j \in 0 .. n - 1, b \in 0 .. B - 1 : b \in g[j].used <=> b \in f[j].used
  BY <1>3, <1>5 DEF FreeBits
<1>7. Typed(g, n) /\ Counted(g, n)
  BY <1>1, <1>5, <1>6 DEF Typed, Counted
<1>8. Owned(g, n, L, X)
  <2>1. 0 \in 0 .. B - 1 /\ \A b \in 1 .. B - 1 : b \in 0 .. B - 1
    OBVIOUS
  <2> QED BY <1>1, <1>6, <2>1 DEF Owned
<1>9. LostWhole(g, n, X)
  BY <1>1, <1>6 DEF LostWhole
<1>10. Avail(g, n, X) = Avail(f, n, X)
  BY <1>6 DEF Avail
<1>11. Listed(g, Avail(g, n, X))
  <2>1. \A j \in Avail(f, n, X) : j \in 0 .. n - 1
    BY DEF Avail
  <2> QED BY <1>1, <1>6, <1>10, <2>1, SameLinks
<1> QED BY <1>1, <1>7, <1>8, <1>9, <1>11 DEF Good, g

\* isFull is the truth: nothing is left that could be handed out.
LEMMA FullIsFull ==
  ASSUME NEW n \in 1 .. MaxFSM, NEW f, NEW L, NEW X, Good(f, n, L, X), IsFull(f)
  PROVE  PagesOf(n) = L \cup X
<1>1. /\ Typed(f, n) /\ Counted(f, n) /\ Owned(f, n, L, X)
      /\ LostWhole(f, n, X) /\ Listed(f, Avail(f, n, X)) /\ Apart(n, L, X)
  BY DEF Good
<1>2. Avail(f, n, X) = {}
  BY <1>1, HeadOfList DEF IsFull
<1>3. FreeBits(f[0]) = {}
  <2>1. f[0].free = 0 /\ f[0].free = Cardinality(FreeBits(f[0]))
    BY <1>1 DEF IsFull, Counted
  <2>2. IsFiniteSet(0 .. B - 1) /\ FreeBits(f[0]) \in SUBSET (0 .. B - 1)
    BY FS_Interval DEF FreeBits
  <2> QED BY <2>1, <2>2, FS_Subset, FS_EmptySet
<1>4. ASSUME NEW k \in 0 .. n - 1, NEW b \in 1 .. B - 1
      PROVE  PageNo(k, b) \in L \cup X
  <2>1. CASE b \in f[k].used
    BY <1>1, <2>1 DEF Owned
  <2>2. CASE b \notin f[k].used
    <3>1. k # 0
      BY <1>3, <2>2 DEF FreeBits
    <3> QED BY <1>2, <2>2, <3>1 DEF Avail
  <2> QED BY <2>1, <2>2
<1>5. PagesOf(n) \subseteq L \cup X
  BY <1>4, PagesOfMember
<1> QED BY <1>1, <1>5 DEF Apart

-----------------------------------------------------------------------------
(* The invariant of the specification *)

Inv ==
  /\ groups \in 0 .. MaxFSM
  /\ result \in {"ok", "full", "error"}
  /\ groups = 0 => fsm \in [{} -> FSMPage] /\ live = {} /\ lost = {}
  /\ groups # 0 => Good(fsm, groups, live, lost)

LEMMA PagesAreUsable ==
  ASSUME NEW n \in 0 .. MaxFSM
  PROVE  PagesOf(n) \subseteq Usable /\ Usable = PagesOf(MaxFSM)
<1>1. \A k \in 0 .. n - 1 : k \in 0 .. MaxFSM - 1
  OBVIOUS
<1> QED BY <1>1 DEF PagesOf, Usable

\* createNewPage allocates from good FSM pages that are not full.
LEMMA RoomGood ==
  ASSUME Inv, MayGrow, Grow
  PROVE  /\ groups' \in 1 .. MaxFSM /\ groups <= groups'
         /\ Good(WithRoom, groups', live, lost)
         /\ ~IsFull(WithRoom)
<1>1. CASE ~NeedsFSMPage
  <2>1. WithRoom = fsm /\ groups' = groups /\ groups # 0 /\ ~IsFull(fsm)
    BY <1>1 DEF WithRoom, Grow, NeedsFSMPage
  <2> QED BY <2>1 DEF Inv
<1>2. CASE NeedsFSMPage /\ groups = 0
  <2>1. WithRoom = ExtendedBy(fsm, 0) /\ groups' = 1
    BY <1>2 DEF WithRoom, Grow, Extended, ExtendedBy
  <2>2. live = {} /\ lost = {} /\ groups = 0
    BY <1>2 DEF Inv
  <2>3. Good(WithRoom, 1, live, lost) /\ ~IsFull(WithRoom)
    BY <2>1, <2>2, FirstGroupGood
  <2> QED BY <2>1, <2>2, <2>3
<1>3. CASE NeedsFSMPage /\ groups # 0
  <2>1. WithRoom = LinkFSMPage(ExtendedBy(fsm, groups), groups) /\ groups' = groups + 1
    BY <1>3 DEF WithRoom, Grow, Extended, ExtendedBy
  <2>2. groups \in 1 .. MaxFSM - 1 /\ Good(fsm, groups, live, lost)
    BY <1>3 DEF Inv, MayGrow
  <2>3. groups + 1 \in 1 .. MaxFSM /\ groups <= groups + 1
    BY <2>2
  <2>4. Good(WithRoom, groups + 1, live, lost) /\ ~IsFull(WithRoom)
    BY <2>1, <2>2, ExtendGood
  <2> QED BY <2>1, <2>3, <2>4
<1> QED BY <1>1, <1>2, <1>3

\* The FSM page of a new group that is inserted and not linked.
LEMMA UnlinkedGood ==
  ASSUME Inv, FailBeforeLink
  PROVE  /\ groups' \in 1 .. MaxFSM
         /\ Good(fsm', groups', live', lost')
         /\ UsableIn(groups) \subseteq Usable \ (live \cup lost)
<1>1. groups \in 1 .. MaxFSM - 1 /\ Good(fsm, groups, live, lost)
  BY DEF Inv, FailBeforeLink
<1>2. groups' = groups + 1
  BY DEF FailBeforeLink, Grow, NeedsFSMPage
<1>3. fsm' = ExtendedBy(fsm, groups) /\ live' = live /\ lost' = lost \cup UsableIn(groups)
  BY DEF FailBeforeLink, Extended, ExtendedBy
<1>4. groups + 1 \in 1 .. MaxFSM /\ UsableIn(groups) \subseteq Usable
  BY <1>1 DEF Usable
<1> QED BY <1>1, <1>2, <1>3, <1>4, ExtendGood

LEMMA InvInit == Init => Inv
BY DEF Init, Inv

LEMMA InvNext == Inv /\ [Next]_vars => Inv'
<1> SUFFICES ASSUME Inv, [Next]_vars
             PROVE  Inv'
  OBVIOUS
<1> USE DEF Inv
<1>1. CASE CreateNewPage
  <2>1. /\ groups' \in 1 .. MaxFSM
        /\ Good(fsm', groups', live', lost')
    BY <1>1, RoomGood, TakeGood DEF CreateNewPage
  <2> QED BY <1>1, <2>1 DEF CreateNewPage
<1>2. CASE RefuseNewPage
  BY <1>2 DEF RefuseNewPage
<1>3. ASSUME NEW p \in live, FreePage(p)
      PROVE  Inv'
  <2>1. groups # 0 /\ groups \in 1 .. MaxFSM
    OBVIOUS
  <2>2. Good(fsm', groups', live', lost')
    BY <1>3, <2>1, ReturnGood DEF FreePage
  <2> QED BY <1>3, <2>1, <2>2 DEF FreePage
<1>4. CASE FailUnchanged
  BY <1>4 DEF FailUnchanged
<1>5. CASE FailBeforeLink
  <2>1. groups' \in 1 .. MaxFSM /\ Good(fsm', groups', live', lost')
    BY <1>5, UnlinkedGood
  <2> QED BY <1>5, <2>1 DEF FailBeforeLink
<1>6. CASE FailBeforeAlloc
  <2>1. MayGrow
    BY <1>6 DEF FailBeforeAlloc, MayGrow
  <2>2. groups' \in 1 .. MaxFSM /\ Good(fsm', groups', live', lost')
    BY <1>6, <2>1, RoomGood DEF FailBeforeAlloc
  <2> QED BY <1>6, <2>2 DEF FailBeforeAlloc
<1>7. CASE FailAfterAlloc
  <2>1. /\ groups' \in 1 .. MaxFSM
        /\ Good(fsm', groups', live', lost')
    BY <1>7, RoomGood, TakeGood DEF FailAfterAlloc
  <2> QED BY <1>7, <2>1 DEF FailAfterAlloc
<1>8. ASSUME NEW k \in DOMAIN fsm, Reload(k)
      PROVE  Inv'
  <2>1. groups \in 1 .. MaxFSM /\ k \in 0 .. groups - 1
    <3>1. groups # 0
      BY <1>8
    <3> QED BY <1>8, <3>1 DEF Good, Typed
  <2>2. PICK garbage \in SUBSET (B .. B + TailBits - 1) :
          fsm' = [fsm EXCEPT ![k].size = B + TailBits, ![k].used = @ \cup garbage]
    BY <1>8 DEF Reload
  <2>3. Good([fsm EXCEPT ![k].size = B + TailBits, ![k].used = @ \cup garbage], groups, live, lost)
    BY <2>1, ReloadGood
  <2>4. Good(fsm', groups, live, lost)
    BY <2>2, <2>3, Zenon
  <2> QED BY <1>8, <2>1, <2>4 DEF Reload
<1>9. CASE UNCHANGED vars
  BY <1>9 DEF vars
<1> QED BY <1>1, <1>2, <1>3, <1>4, <1>5, <1>6, <1>7, <1>8, <1>9 DEF Next

LEMMA InvAlways == Spec => []Inv
BY InvInit, InvNext, PTL DEF Spec

-----------------------------------------------------------------------------
(* Theorems *)

\* Each variable has its type: no count of free blocks and no link of a
\* FSMPage ever leaves its range.
THEOREM TypeCorrect == Spec => []TypeOK
<1>1. Inv => TypeOK
  <2> SUFFICES ASSUME Inv
               PROVE  TypeOK
    OBVIOUS
  <2>1. CASE groups = 0
    BY <2>1 DEF Inv, TypeOK
  <2>2. CASE groups # 0
    <3>1. PagesOf(groups) \subseteq Usable
      BY PagesAreUsable DEF Inv
    <3> QED BY <2>2, <3>1 DEF Inv, TypeOK, Good, Typed, Apart
  <2> QED BY <2>1, <2>2
<1> QED BY <1>1, InvAlways, PTL

\* m_freeBlocks counts the free bits of the blocks of the group, and none of
\* the bits that reading the page back adds.
THEOREM FreeBlocksAreCounted == Spec => []CountsRealBits
<1>1. Inv => CountsRealBits
  BY DEF Inv, CountsRealBits, Good, Typed, Counted, FreeBits
<1> QED BY <1>1, InvAlways, PTL

\* A bit is set for the pages that callers own, for those that failed calls of
\* createNewPage took, and for no others; but where the new FSM page of a group was
\* not linked, its bits are clear but for its own, and all its pages are lost.
THEOREM BitmapsAreRight == Spec => []BitmapsMatchOwners
<1>1. Inv => BitmapsMatchOwners
  <2> SUFFICES ASSUME Inv PROVE BitmapsMatchOwners
    OBVIOUS
  <2>1. /\ DOMAIN fsm = 0 .. groups - 1
        /\ Owned(fsm, groups, live, lost) /\ LostWhole(fsm, groups, lost)
        /\ live \cap lost = {}
    <3>1. CASE groups = 0
      BY <3>1 DEF Inv, Owned, LostWhole
    <3>2. CASE groups # 0
      BY <3>2 DEF Inv, Good, Typed, Apart
    <3> QED BY <3>1, <3>2
  <2>2. ASSUME NEW k \in DOMAIN fsm, ~NeverLinked(k), NEW b \in 1 .. B - 1
        PROVE  b \in fsm[k].used <=> PageNo(k, b) \in live \cup lost
    <3>1. b \notin fsm[k].used => PageNo(k, b) \notin lost
      BY <2>1, <2>2 DEF LostWhole, NeverLinked
    <3> QED BY <2>1, <3>1 DEF Owned
  <2>3. \A k \in DOMAIN fsm : 0 \in fsm[k].used
    BY <2>1 DEF Owned
  <2> QED BY <2>1, <2>2, <2>3 DEF BitmapsMatchOwners
<1> QED BY <1>1, InvAlways, PTL

\* The linked list of FreeSpaceMap holds exactly the FSM pages with a free
\* block, once each, after any calls and failures.
THEOREM ListIsRight == Spec => []ListIsAvailable
<1>1. Inv => ListIsAvailable
  <2> SUFFICES ASSUME Inv, groups > 0
               PROVE  \E n \in 0 .. MaxFSM - 1 :
                        \E s \in [1 .. n -> 1 .. MaxFSM - 1] : IsList(s, n)
    BY DEF ListIsAvailable
  <2>1. Good(fsm, groups, live, lost)
    BY DEF Inv
  <2>2. Available = Avail(fsm, groups, lost)
    <3>1. DOMAIN fsm \ {0} = 1 .. groups - 1
      BY <2>1 DEF Good, Typed
    <3> QED BY <3>1 DEF Available, Avail
  <2>3. PICK n \in 0 .. MaxFSM - 1 :
          \E s \in [1 .. n -> 1 .. MaxFSM - 1] : ListOf(fsm, Available, s, n)
    BY <2>1, <2>2 DEF Good, Listed
  <2>4. PICK s \in [1 .. n -> 1 .. MaxFSM - 1] : ListOf(fsm, Available, s, n)
    BY <2>3
  <2>5. IsList(s, n)
    BY <2>4 DEF ListOf, IsList
  <2> QED BY <2>5
<1> QED BY <1>1, InvAlways, PTL

LEMMA FullStep ==
  ASSUME Inv, groups # 0, IsFull(fsm)
  PROVE  PagesOf(groups) = live \cup lost
<1>1. groups \in 1 .. MaxFSM /\ Good(fsm, groups, live, lost)
  BY DEF Inv
<1> QED BY <1>1, FullIsFull

\* createNewPage grows the file only when every block of it belongs to a
\* caller or was lost.
THEOREM GrowthIsNeeded == Spec => GrowsOnlyWhenFull
<1>1. Inv /\ [Next]_vars
      => [groups' # groups => \A k \in DOMAIN fsm : UsableIn(k) \subseteq live \cup lost]_vars
  <2> SUFFICES ASSUME Inv, [Next]_vars, groups' # groups
               PROVE  \A k \in DOMAIN fsm : UsableIn(k) \subseteq live \cup lost
    BY DEF vars
  <2>1. NeedsFSMPage
    BY DEF Next, vars, CreateNewPage, RefuseNewPage, FreePage, FailUnchanged, FailBeforeLink,
           FailBeforeAlloc, FailAfterAlloc, Reload, Grow
  <2>2. CASE groups = 0
    BY <2>2 DEF Inv
  <2>3. CASE groups # 0
    <3>1. PagesOf(groups) = live \cup lost
      BY <2>1, <2>3, FullStep DEF NeedsFSMPage
    <3>2. DOMAIN fsm = 0 .. groups - 1
      BY <2>3 DEF Inv, Good, Typed
    <3> QED BY <3>1, <3>2 DEF PagesOf
  <2> QED BY <2>2, <2>3
<1> QED BY <1>1, InvAlways, PTL DEF Spec, GrowsOnlyWhenFull

LEMMA AllocatorInit == Init => Pages!Init
BY DEF Init, Pages!Init

LEMMA AllocatorNext == Inv /\ [Next]_vars => [Pages!Next]_(Pages!vars)
<1> SUFFICES ASSUME Inv, [Next]_vars
             PROVE  [Pages!Next]_(Pages!vars)
  OBVIOUS
<1>0. live \cup lost \subseteq Usable
  <2>1. groups = 0 => live \cup lost = {}
    BY DEF Inv
  <2>2. groups # 0 => live \cup lost \subseteq PagesOf(groups)
    BY DEF Inv, Good, Apart
  <2> QED BY <2>1, <2>2, PagesAreUsable DEF Inv
<1>1. ASSUME MayGrow, Grow
      PROVE  TakenPage(WithRoom) \in Usable \ (live \cup lost)
  <2>1. groups' \in 1 .. MaxFSM /\ Good(WithRoom, groups', live, lost) /\ ~IsFull(WithRoom)
    BY <1>1, RoomGood
  <2>2. TakenPage(WithRoom) \in PagesOf(groups') \ (live \cup lost)
    BY <2>1, TakeGood
  <2>3. groups' \in 0 .. MaxFSM
    BY <2>1
  <2> QED BY <2>2, <2>3, PagesAreUsable
<1>2. CASE CreateNewPage
  BY <1>1, <1>2 DEF CreateNewPage, Pages!Next, Pages!Alloc
<1>3. CASE RefuseNewPage
  <2>1. groups = MaxFSM /\ groups # 0 /\ IsFull(fsm)
    BY <1>3 DEF RefuseNewPage, MayGrow, NeedsFSMPage
  <2>2. Usable = live \cup lost
    BY <2>1, FullStep, PagesAreUsable DEF Inv
  <2> QED BY <1>3, <2>2 DEF RefuseNewPage, Pages!Next, Pages!Refuse
<1>4. ASSUME NEW p \in live, FreePage(p)
      PROVE  [Pages!Next]_(Pages!vars)
  BY <1>4 DEF FreePage, Pages!Next, Pages!Free
<1>5. CASE FailUnchanged
  <2>1. Pages!Fail({})
    BY <1>5 DEF FailUnchanged, Pages!Fail
  <2> QED BY <2>1 DEF Pages!Next
<1>6. CASE FailBeforeLink
  <2>1. UsableIn(groups) \subseteq Usable \ (live \cup lost)
    BY <1>6, UnlinkedGood
  <2>2. Pages!Fail(UsableIn(groups))
    BY <1>6 DEF FailBeforeLink, Pages!Fail
  <2> QED BY <2>1, <2>2 DEF Pages!Next
<1>7. CASE FailBeforeAlloc
  <2>1. Pages!Fail({})
    BY <1>7 DEF FailBeforeAlloc, Pages!Fail
  <2> QED BY <2>1 DEF Pages!Next
<1>8. CASE FailAfterAlloc
  <2>1. {TakenPage(WithRoom)} \in SUBSET (Usable \ (live \cup lost))
    BY <1>1, <1>8 DEF FailAfterAlloc
  <2>2. Pages!Fail({TakenPage(WithRoom)})
    BY <1>8 DEF FailAfterAlloc, Pages!Fail
  <2> QED BY <2>1, <2>2 DEF Pages!Next
<1>9. ASSUME NEW k \in DOMAIN fsm, Reload(k)
      PROVE  UNCHANGED Pages!vars
  BY <1>9 DEF Reload, Pages!vars
<1>10. CASE UNCHANGED vars
  BY <1>10 DEF vars, Pages!vars
<1> QED BY <1>2, <1>3, <1>4, <1>5, <1>6, <1>7, <1>8, <1>9, <1>10 DEF Next

\* createNewPage never hands out a page that somebody owns, and refuses only
\* when every page of the largest file is owned or lost, whatever calls and
\* failures came before.
THEOREM PagerImplementsAllocator == Spec => ImplementsAllocator
<1>1. Spec => Pages!Init /\ [][Pages!Next]_(Pages!vars)
  BY AllocatorInit, AllocatorNext, InvAlways, PTL DEF Spec
<1> QED BY <1>1 DEF ImplementsAllocator, Pages!Spec
=============================================================================
