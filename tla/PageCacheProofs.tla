--------------------------- MODULE PageCacheProofs ---------------------------
(***************************************************************************)
(* Proofs about PageCache for every capacity, every number of blocks and   *)
(* every set of classes and data.                                          *)
(***************************************************************************)
EXTENDS PageCache, SharedProofs, SequenceTheorems, TLAPS

USE CapacityAssumption, BlocksAssumption, BlankAssumption

\* What ~PageCache counts as written is in the file.
FlushedIsWritten == \A p \in flushed : p \in Cached /\ file[p] = m_map[p]

\* The invariant that is inductive: pages are counted as written only while
\* the cache is being closed, and a cache that is gone holds nothing.
Inv ==
  /\ TypeOK
  /\ ListMatchesMap
  /\ FlushedIsWritten
  /\ phase # "closing" => flushed = {}
  /\ phase \in {"closed", "crashed"} => Cached = {}

\* What updateLRU does to a sound cache, whether the write of an eviction
\* succeeds or throws.
LEMMA UpdateLRUProperties ==
  ASSUME Inv, NEW p \in 0 .. m_blocks - 1, NEW c \in Page, UpdateLRU(p, c), phase = "open"
  PROVE  /\ Cached' \subseteq 0 .. m_blocks - 1
         /\ m_map' \in [Cached' -> Page]
         /\ file' \in [0 .. m_blocks - 1 -> Page \cup {Blank}]
         /\ m_list' \in Seq(Cached')
         /\ ListMatchesMap'
         /\ \A i \in 1 .. Len(m_list) : i < Capacity =>
              \E j \in 1 .. Len(m_list') : j <= i + 1 /\ m_list'[j] = m_list[i]
         /\ View' = [View EXCEPT ![p] = c]
         /\ file' = file \/ \E q \in DOMAIN file : file' = [file EXCEPT ![q] = View'[q]]
<1> DEFINE S == Cached \cup {p}
           l == ToFront(m_list, p)
           m == [q \in S |-> IF q = p THEN c ELSE m_map[q]]
           back == l[Len(l)]
<1>1. /\ m_list \in Seq(Cached)
      /\ m_map \in [Cached -> Page]
      /\ Cached \subseteq 0 .. m_blocks - 1
      /\ m_blocks \in Nat
      /\ file \in [0 .. m_blocks - 1 -> Page \cup {Blank}]
      /\ \A i, j \in 1 .. Len(m_list) : m_list[i] = m_list[j] => i = j
      /\ \A q \in Cached : \E i \in 1 .. Len(m_list) : m_list[i] = q
  BY DEF Inv, TypeOK, ListMatchesMap
<1>2. m_list \in Seq(S)
  BY <1>1, SeqMonotonic
<1>3. /\ l \in Seq(S)
      /\ Len(l) >= 1
      /\ l[1] = p
      /\ \A i, j \in 1 .. Len(l) : l[i] = l[j] => i = j
      /\ \A i \in 1 .. Len(l) : l[i] = p \/ \E j \in 1 .. Len(m_list) : l[i] = m_list[j]
      /\ \A i \in 1 .. Len(m_list) : \E j \in 1 .. Len(l) : j <= i + 1 /\ l[j] = m_list[i]
  <2> HIDE DEF S
  <2>1. p \in S
    BY DEF S
  <2>2. /\ l \in Seq(S)
        /\ Len(l) >= 1
        /\ l[1] = p
        /\ \A i, j \in 1 .. Len(l) : l[i] = l[j] => i = j
        /\ \A i \in 1 .. Len(l) : l[i] = p \/ \E j \in 1 .. Len(m_list) : l[i] = m_list[j]
    BY <1>1, <1>2, <2>1, ToFrontProperties, SMTT(30)
  <2>3. ASSUME NEW i \in 1 .. Len(m_list)
        PROVE  \E j \in 1 .. Len(l) : j <= i + 1 /\ l[j] = m_list[i]
    BY ONLY <1>2, <2>1, ToFrontKeeps, SMTT(30)
  <2> QED BY <2>2, <2>3
<1> HIDE DEF l
<1>4. /\ Len(l) \in Nat \ {0}
      /\ \A i \in 1 .. Len(l) : l[i] \in S
      /\ Len(m_list) \in Nat
  BY <1>1, <1>3, LenProperties
<1>5. /\ S \subseteq 0 .. m_blocks - 1
      /\ m \in [S -> Page]
      /\ m[p] = c
      /\ \A q \in Cached \ {p} : m[q] = m_map[q]
  BY <1>1
<1>6. \A q \in S : \E i \in 1 .. Len(l) : l[i] = q
  <2>1. \E i \in 1 .. Len(l) : l[i] = p
    BY <1>3, <1>4
  <2>2. ASSUME NEW q \in Cached
        PROVE  \E i \in 1 .. Len(l) : l[i] = q
    <3>1. PICK i \in 1 .. Len(m_list) : m_list[i] = q
      BY <1>1
    <3> QED BY <1>3, <3>1
  <2> QED BY <2>1, <2>2
<1>7. DOMAIN m = S
  BY <1>5
<1> HIDE DEF m
\* Without eviction, or when its write throws with the block unchanged
<1>8. CASE m_list' = l /\ m_map' = m /\ file' = file
  <2>1. Cached' = S
    BY <1>7, <1>8 DEF Cached
  <2>2. ListMatchesMap'
    BY <1>3, <1>6, <1>8, <2>1 DEF ListMatchesMap
  <2>3. View' = [View EXCEPT ![p] = c]
    BY <1>1, <1>5, <1>8, <2>1 DEF View
  <2> QED BY <1>1, <1>3, <1>5, <1>8, <2>1, <2>2, <2>3
\* With eviction
<1>9. CASE /\ Len(l) > Capacity
           /\ file' = [file EXCEPT ![back] = m[back]]
           /\ m_list' = SubSeq(l, 1, Len(l) - 1)
           /\ m_map' = [q \in DOMAIN m \ {back} |-> m[q]]
  <2>1. back \in S /\ back # p
    BY <1>3, <1>4, <1>9
  <2>2. /\ Cached' = S \ {back}
        /\ m_map' \in [S \ {back} -> Page]
        /\ \A q \in S \ {back} : m_map'[q] = m[q]
    BY <1>5, <1>7, <1>9 DEF Cached
  <2>3. \A i \in 1 .. Len(l) - 1 : l[i] \in S \ {back}
    BY <1>3, <1>4
  <2>4. /\ m_list' \in Seq(S \ {back})
        /\ Len(m_list') = Len(l) - 1
        /\ \A i \in 1 .. Len(l) - 1 : m_list'[i] = l[i]
    <3> DEFINE n == Len(l) - 1
    <3>1. n \in Nat /\ n >= 1
      BY <1>4, <1>9
    <3>2. m_list' = SubSeq(l, 1, n)
      BY <1>9
    <3>3. \A i \in 1 .. n : l[i] \in S \ {back}
      BY <2>3
    <3> HIDE DEF n
    <3>4. /\ SubSeq(l, 1, n) \in Seq(S \ {back})
          /\ Len(SubSeq(l, 1, n)) = n
          /\ \A i \in 1 .. n : SubSeq(l, 1, n)[i] = l[i]
      <4>1. 1 \in Int /\ n \in Int /\ 1 <= n
        BY <3>1
      <4>2. /\ SubSeq(l, 1, n) \in Seq(S \ {back})
            /\ Len(SubSeq(l, 1, n)) = IF 1 <= n THEN n - 1 + 1 ELSE 0
            /\ \A i \in 1 .. n - 1 + 1 : SubSeq(l, 1, n)[i] = l[1 + i - 1]
        BY <3>3, <4>1, SubSeqProperties
      <4> QED BY <3>1, <4>2
    <3> QED BY <3>2, <3>4 DEF n
  <2>5. ASSUME NEW q \in S \ {back}
        PROVE  \E i \in 1 .. Len(l) - 1 : l[i] = q
    <3>1. PICK i \in 1 .. Len(l) : l[i] = q
      BY <1>6
    <3>2. i # Len(l) /\ Len(l) \in Nat
      BY <1>4, <3>1
    <3>3. i \in 1 .. Len(l) - 1
      BY <3>2
    <3> QED BY <3>1, <3>3
  <2>6. ListMatchesMap'
    <3>1. ASSUME NEW i \in 1 .. Len(l) - 1, NEW j \in 1 .. Len(l) - 1,
                 m_list'[i] = m_list'[j]
          PROVE  i = j
      <4>1. i \in 1 .. Len(l) /\ j \in 1 .. Len(l) /\ l[i] = l[j]
        BY <1>4, <2>4, <3>1
      <4> QED BY <1>3, <4>1
    <3>2. \A q \in Cached' : \E i \in 1 .. Len(m_list') : m_list'[i] = q
      BY <2>2, <2>4, <2>5
    <3> QED BY <2>4, <3>1, <3>2 DEF ListMatchesMap
  <2>7. ASSUME NEW i \in 1 .. Len(m_list), i < Capacity
        PROVE  \E j \in 1 .. Len(m_list') : j <= i + 1 /\ m_list'[j] = m_list[i]
    <3>1. PICK j \in 1 .. Len(l) : j <= i + 1 /\ l[j] = m_list[i]
      BY <1>3
    <3>2. j \in 1 .. Len(l) - 1
      BY <1>4, <1>9, <2>7, <3>1
    <3> QED BY <2>4, <3>1, <3>2
  <2>8. /\ file' \in [0 .. m_blocks - 1 -> Page \cup {Blank}]
        /\ back \in DOMAIN file
        /\ DOMAIN file' = DOMAIN file
    BY <1>1, <1>5, <1>9, <2>1
  <2>9. View' = [View EXCEPT ![p] = c]
    <3>1. ASSUME NEW q \in DOMAIN file
          PROVE  View'[q] = IF q = p THEN c ELSE View[q]
      BY <1>1, <1>5, <1>9, <2>1, <2>2, <2>8 DEF View
    <3> QED BY <1>1, <2>8, <3>1 DEF View
  <2>10. file' = [file EXCEPT ![back] = View'[back]]
    BY <1>9, <2>2, <2>8 DEF View
  <2> QED BY <1>5, <2>2, <2>4, <2>6, <2>7, <2>8, <2>9, <2>10
\* When the write throws with the block written
<1>10. CASE m_list' = l /\ m_map' = m /\ file' = [file EXCEPT ![back] = m[back]]
  <2>1. Cached' = S
    BY <1>7, <1>10 DEF Cached
  <2>2. ListMatchesMap'
    BY <1>3, <1>6, <1>10, <2>1 DEF ListMatchesMap
  <2>3. back \in S
    BY <1>4
  <2>4. /\ file' \in [0 .. m_blocks - 1 -> Page \cup {Blank}]
        /\ back \in DOMAIN file
        /\ DOMAIN file' = DOMAIN file
    BY <1>1, <1>5, <1>10, <2>3
  <2>5. View' = [View EXCEPT ![p] = c]
    <3>1. ASSUME NEW q \in DOMAIN file
          PROVE  View'[q] = IF q = p THEN c ELSE View[q]
      BY <1>1, <1>5, <1>10, <2>1, <2>3, <2>4 DEF View
    <3> QED BY <1>1, <2>4, <3>1 DEF View
  <2>6. file' = [file EXCEPT ![back] = View'[back]]
    BY <1>10, <2>1, <2>3, <2>4 DEF View
  <2> QED BY <1>3, <1>5, <1>10, <2>1, <2>2, <2>4, <2>5, <2>6
<1>11. \/ m_list' = l /\ m_map' = m /\ file' = file
       \/ m_list' = l /\ m_map' = m /\ file' = [file EXCEPT ![back] = m[back]]
       \/ /\ Len(l) > Capacity
          /\ file' = [file EXCEPT ![back] = m[back]]
          /\ m_list' = SubSeq(l, 1, Len(l) - 1)
          /\ m_map' = [q \in DOMAIN m \ {back} |-> m[q]]
  BY DEF UpdateLRU, EvictBack, WriteBlock, l, m
<1> QED BY <1>8, <1>9, <1>10, <1>11

-----------------------------------------------------------------------------
(* The steps that only go through updateLRU *)

CacheStep(p, c) ==
  /\ phase = "open"
  /\ p \in 0 .. m_blocks - 1
  /\ c \in Page
  /\ UpdateLRU(p, c)
  /\ UNCHANGED <<phase, m_blocks, flushed>>

\* insertPage and retrievePage are such steps; what retrievePage puts in
\* front is what the page was before.
LEMMA CacheSteps ==
  ASSUME Inv, NEW p \in PageID
  PROVE  /\ \A c \in Page : InsertPage(p, c) => CacheStep(p, c)
         /\ RetrieveHit(p) => CacheStep(p, View[p])
         /\ \A T \in Class : RetrieveMiss(T, p) => CacheStep(p, View[p])
<1>1. /\ m_map \in [Cached -> Page]
      /\ Cached \subseteq 0 .. m_blocks - 1
      /\ m_blocks \in Nat
      /\ DOMAIN file = 0 .. m_blocks - 1
      /\ p \in Nat
  BY DEF Inv, TypeOK, PageID
<1>2. ASSUME NEW c \in Page, InsertPage(p, c)
      PROVE  CacheStep(p, c)
  BY <1>1, <1>2 DEF InsertPage, CacheStep
<1>3. ASSUME RetrieveHit(p)
      PROVE  CacheStep(p, View[p])
  <2>1. p \in Cached /\ View[p] = m_map[p] /\ m_map[p] \in Page
    BY <1>1, <1>3 DEF RetrieveHit, View
  <2> QED BY <1>1, <1>3, <2>1 DEF RetrieveHit, CacheStep
<1>4. ASSUME NEW T \in Class, RetrieveMiss(T, p)
      PROVE  CacheStep(p, View[p])
  <2>1. View[p] = file[p]
    BY <1>1, <1>4 DEF RetrieveMiss, View
  <2> QED BY <1>1, <1>4, <2>1 DEF RetrieveMiss, CacheStep
<1> QED BY <1>2, <1>3, <1>4

LEMMA InvInit == Init => Inv
<1> SUFFICES ASSUME Init
             PROVE  Inv
  OBVIOUS
<1>1. /\ Cached = {}
      /\ m_map \in [Cached -> Page]
      /\ m_list \in Seq(Cached)
      /\ Len(m_list) = 0
      /\ file \in [0 .. m_blocks - 1 -> Page \cup {Blank}]
  BY EmptySeq DEF Init, NoPages, Cached
<1> QED BY <1>1 DEF Init, Inv, TypeOK, ListMatchesMap, FlushedIsWritten

\* Every step preserves the invariant.
LEMMA InvNext == Inv /\ [Next]_vars => Inv'
<1> SUFFICES ASSUME Inv, [Next]_vars
             PROVE  Inv'
  OBVIOUS
<1> USE DEF Inv
<1>1. ASSUME NEW p, NEW c, CacheStep(p, c)
      PROVE  Inv'
  <2>1. /\ Cached' \subseteq 0 .. m_blocks - 1
        /\ m_map' \in [Cached' -> Page]
        /\ file' \in [0 .. m_blocks - 1 -> Page \cup {Blank}]
        /\ m_list' \in Seq(Cached')
        /\ ListMatchesMap'
    BY <1>1, UpdateLRUProperties DEF CacheStep
  <2> QED BY <1>1, <2>1 DEF CacheStep, TypeOK, FlushedIsWritten
<1>2. ASSUME NEW n \in 1 .. MaxBlocks, CreateMultipleBlocks(n)
      PROVE  Inv'
  <2>1. file' \in [0 .. m_blocks' - 1 -> Page \cup {Blank}]
    BY <1>2 DEF CreateMultipleBlocks, TypeOK
  <2> QED BY <1>2, <2>1 DEF CreateMultipleBlocks, TypeOK, ListMatchesMap, FlushedIsWritten, Cached
<1>3. ASSUME ProcessDies
      PROVE  Inv'
  <2>1. Cached' = {} /\ m_map' \in [Cached' -> Page] /\ m_list' \in Seq(Cached') /\ Len(m_list') = 0
    BY <1>3, EmptySeq DEF ProcessDies, NoPages, Cached
  <2> QED BY <1>3, <2>1 DEF ProcessDies, TypeOK, ListMatchesMap, FlushedIsWritten
<1>4. ASSUME NEW p \in PageID, NEW d \in Data, Mutate(p, d)
      PROVE  Inv'
  <2>1. Cached' = Cached /\ m_map' \in [Cached' -> Page]
    BY <1>4 DEF Mutate, TypeOK, Cached, Page
  <2> QED BY <1>4, <2>1 DEF Mutate, TypeOK, ListMatchesMap, FlushedIsWritten
<1>5. CASE BeginClose
  BY <1>5 DEF BeginClose, TypeOK, ListMatchesMap, FlushedIsWritten, Cached
<1>6. ASSUME NEW p \in PageID, Flush(p)
      PROVE  Inv'
  <2>1. /\ p \in DOMAIN file
        /\ m_map[p] \in Page
        /\ Cached' = Cached
        /\ file' = [file EXCEPT ![p] = m_map[p]]
    BY <1>6 DEF Flush, WriteBlock, TypeOK, Cached
  <2>2. FlushedIsWritten'
    BY <1>6, <2>1 DEF Flush, TypeOK, FlushedIsWritten
  <2> QED BY <1>6, <2>1, <2>2 DEF Flush, TypeOK, ListMatchesMap
<1>7. CASE EndClose
  <2>1. Cached' = {} /\ m_map' \in [Cached' -> Page] /\ m_list' \in Seq(Cached') /\ Len(m_list') = 0
    BY <1>7, EmptySeq DEF EndClose, NoPages, Cached
  <2> QED BY <1>7, <2>1 DEF EndClose, TypeOK, ListMatchesMap, FlushedIsWritten
<1>8. CASE Reopen
  BY <1>8 DEF Reopen, TypeOK, ListMatchesMap, FlushedIsWritten, Cached
<1>9. CASE UNCHANGED vars
  BY <1>9 DEF vars, TypeOK, ListMatchesMap, FlushedIsWritten, Cached
<1>10. ASSUME NEW p \in PageID, NEW c \in Page, InsertPage(p, c)
       PROVE  Inv'
  BY <1>1, <1>10, CacheSteps
<1>11. ASSUME NEW p \in PageID, RetrieveHit(p)
       PROVE  Inv'
  BY <1>1, <1>11, CacheSteps
<1>12. ASSUME NEW p \in PageID, NEW T \in Class, RetrieveMiss(T, p)
       PROVE  Inv'
  BY <1>1, <1>12, CacheSteps
<1>13. ASSUME NEW p \in PageID, NEW T \in Class, RetrieveAborts(T, p)
       PROVE  Inv'
  BY <1>3, <1>13 DEF RetrieveAborts
<1>14. CASE Crash
  BY <1>3, <1>14 DEF Crash
<1> QED
  BY <1>2, <1>4, <1>5, <1>6, <1>7, <1>8, <1>9, <1>10, <1>11, <1>12, <1>13, <1>14 DEF Next

LEMMA InvAlways == Spec => []Inv
  BY InvInit, InvNext, PTL DEF Spec

\* The types hold for every capacity and number of blocks: a cached id is a
\* block of the file, which is as long as m_blocks says.
THEOREM TypeCorrect == Spec => []TypeOK
<1>1. Inv => TypeOK
  BY DEF Inv
<1> QED BY <1>1, InvAlways, PTL

\* The list and the map of PageCache speak of the same pages after every call,
\* those included whose eviction could not be written.
THEOREM ListAndMapAgree == Spec => []ListMatchesMap
<1>1. Inv => ListMatchesMap
  BY DEF Inv
<1> QED BY <1>1, InvAlways, PTL

-----------------------------------------------------------------------------
(* How long a page stays cached *)

Survive ==
  phase = "open" /\ phase' = "open" =>
    \A i \in 1 .. Len(m_list) : i < Capacity =>
      \E j \in 1 .. Len(m_list') : j <= i + 1 /\ m_list'[j] = m_list[i]

LEMMA SurviveStep == Inv /\ [Next]_vars => [Survive]_vars
<1> SUFFICES ASSUME Inv, Next, phase = "open", phase' = "open"
             PROVE  Survive
  BY DEF Survive
<1>1. Len(m_list) \in Nat
  BY LenProperties DEF Inv, TypeOK
<1>2. ASSUME m_list' = m_list
      PROVE  Survive
  BY <1>1, <1>2 DEF Survive
<1>3. ASSUME NEW p, NEW c, CacheStep(p, c)
      PROVE  Survive
  BY <1>3, UpdateLRUProperties DEF CacheStep, Survive
<1>4. CASE \E n \in 1 .. MaxBlocks : CreateMultipleBlocks(n)
  BY <1>2, <1>4 DEF CreateMultipleBlocks
<1>5. CASE \E p \in PageID, d \in Data : Mutate(p, d)
  BY <1>2, <1>5 DEF Mutate
<1>6. CASE \E p \in PageID, c \in Page : InsertPage(p, c)
  BY <1>3, <1>6, CacheSteps
<1>7. CASE \E p \in PageID : RetrieveHit(p)
  BY <1>3, <1>7, CacheSteps
<1>8. CASE \E p \in PageID, T \in Class : RetrieveMiss(T, p)
  BY <1>3, <1>8, CacheSteps
<1>9. CASE \E p \in PageID, T \in Class : RetrieveAborts(T, p)
  BY <1>9 DEF RetrieveAborts, ProcessDies
<1>10. ~ (BeginClose \/ (\E p \in PageID : Flush(p)) \/ EndClose \/ Crash \/ Reopen)
  BY DEF BeginClose, Flush, EndClose, Crash, ProcessDies, Reopen
<1> QED BY <1>4, <1>5, <1>6, <1>7, <1>8, <1>9, <1>10 DEF Next

\* For every capacity, a page survives Capacity - 1 retrievals or insertions of
\* other pages: each moves it back by one place at most, and only the page in
\* a place beyond Capacity is ever evicted.
THEOREM CachedPagesSurvive == Spec => ReferencesSurvive
<1>1. Spec => [][Survive]_vars
  BY InvAlways, SurviveStep, PTL DEF Spec
<1> QED BY <1>1 DEF ReferencesSurvive, Survive

-----------------------------------------------------------------------------
(* The cache implements the page store *)

LEMMA StoreInit == Init => Store!Init
<1> SUFFICES ASSUME Init
             PROVE  Store!Init
  OBVIOUS
<1>1. View = [p \in {} |-> Blank]
  BY DEF Init, NoPages, View
<1> QED BY <1>1 DEF Init, NoPages, Store!Init

LEMMA StoreNext == Inv /\ [Next]_vars => [Store!Next]_(Store!vars)
<1> SUFFICES ASSUME Inv, [Next]_vars
             PROVE  Store!Next \/ UNCHANGED Store!vars
  OBVIOUS
<1> DEFINE mode == IF phase = "crashed" THEN "crashed"
                   ELSE IF phase = "closed" THEN "clean" ELSE "up"
<1>1. /\ m_blocks \in 0 .. MaxBlocks
      /\ DOMAIN file = 0 .. m_blocks - 1
      /\ DOMAIN View = DOMAIN file
      /\ m_map \in [Cached -> Page]
      /\ Cached \subseteq DOMAIN file
      /\ file = [p \in DOMAIN file |-> file[p]]
  BY DEF Inv, TypeOK, View
<1>2. ASSUME NEW p, NEW c, CacheStep(p, c)
      PROVE  Store!Next
  <2>1. /\ View' = [View EXCEPT ![p] = c]
        /\ file' = file \/ \E q \in DOMAIN file : file' = [file EXCEPT ![q] = View'[q]]
    BY <1>2, UpdateLRUProperties DEF CacheStep
  <2>2. p \in DOMAIN View /\ c \in Page
    BY <1>1, <1>2 DEF CacheStep
  <2>3. Store!Put(p, c)
    BY <1>2, <2>1 DEF CacheStep, Store!Put, Store!WriteBack
  <2> QED BY <2>2, <2>3 DEF Store!Next
<1>3. ASSUME NEW n \in 1 .. MaxBlocks, CreateMultipleBlocks(n)
      PROVE  Store!Next
  <2>1. /\ file' = [p \in 0 .. m_blocks + n - 1 |-> IF p \in DOMAIN file THEN file[p] ELSE Blank]
        /\ m_blocks + n \in 0 .. MaxBlocks
        /\ Cached' = Cached
        /\ m_map' = m_map
    BY <1>1, <1>3 DEF CreateMultipleBlocks, Cached
  <2>2. View' = [p \in 0 .. m_blocks + n - 1 |-> IF p \in DOMAIN View THEN View[p] ELSE Blank]
    <3>1. View' = [p \in 0 .. m_blocks + n - 1 |-> IF p \in Cached THEN m_map[p] ELSE file'[p]]
      BY <2>1 DEF View
    <3>2. ASSUME NEW p \in 0 .. m_blocks + n - 1
          PROVE  (IF p \in Cached THEN m_map[p] ELSE file'[p])
                   = IF p \in DOMAIN View THEN View[p] ELSE Blank
      BY <1>1, <2>1 DEF View
    <3> QED BY <3>1, <3>2
  <2>3. phase = "open" /\ phase' = "open"
    BY <1>3 DEF CreateMultipleBlocks
  <2> DEFINE k == m_blocks + n
  <2>4. k \in 0 .. MaxBlocks /\ m_blocks + n - 1 = k - 1
    BY <1>1, <2>1
  <2> HIDE DEF k
  <2>5. Store!Grow(k)
    BY <2>1, <2>2, <2>3, <2>4 DEF Store!Grow
  <2> QED BY <2>4, <2>5 DEF Store!Next
<1>4. ASSUME ProcessDies, phase \in {"open", "closing"}
      PROVE  Store!Next
  <2>1. View' = file
    BY <1>1, <1>4 DEF ProcessDies, NoPages, View, Cached
  <2>2. Store!Crash
    BY <1>4, <2>1 DEF ProcessDies, Store!Crash
  <2> QED BY <2>2 DEF Store!Next
<1>5. ASSUME NEW p \in PageID, NEW d \in Data, Mutate(p, d)
      PROVE  Store!Next
  <2> DEFINE c == [m_map[p] EXCEPT !.data = d]
  <2>1. p \in DOMAIN View /\ c \in Page
    BY <1>1, <1>5 DEF Mutate, Page
  <2>2. Cached' = Cached /\ m_map' = [m_map EXCEPT ![p] = c] /\ file' = file
    BY <1>5 DEF Mutate, Cached
  <2> HIDE DEF c
  <2>3. View' = [View EXCEPT ![p] = c]
    <3>1. ASSUME NEW q \in DOMAIN file
          PROVE  View'[q] = IF q = p THEN c ELSE View[q]
      BY <1>1, <1>5, <2>2 DEF View, Mutate
    <3> QED BY <1>1, <2>2, <3>1 DEF View
  <2>4. Store!Put(p, c)
    BY <1>5, <2>2, <2>3 DEF Mutate, Store!Put, Store!WriteBack
  <2> QED BY <2>1, <2>4 DEF Store!Next
<1>6. ASSUME NEW p \in PageID, Flush(p)
      PROVE  Store!Next
  <2>1. /\ p \in DOMAIN file
        /\ file' = [file EXCEPT ![p] = View[p]]
        /\ Cached' = Cached
        /\ m_map' = m_map
    BY <1>1, <1>6 DEF Flush, WriteBlock, View, Cached
  <2>2. View' = View
    BY <1>1, <2>1 DEF View
  <2>3. Store!Read
    BY <1>6, <2>1, <2>2 DEF Flush, Store!Read, Store!WriteBack
  <2> QED BY <2>3 DEF Store!Next
<1>7. CASE EndClose
  <2>1. View = file
    BY <1>1, <1>7 DEF Inv, FlushedIsWritten, EndClose, View
  <2>2. View' = file
    BY <1>1, <1>7 DEF EndClose, NoPages, View, Cached
  <2>3. Store!Shutdown
    BY <1>7, <2>1, <2>2 DEF EndClose, Store!Shutdown
  <2> QED BY <2>3 DEF Store!Next
<1>8. ASSUME file' = file, m_map' = m_map
      PROVE  View' = View
  BY <1>8 DEF View, Cached
<1>9. CASE Reopen
  <2>1. Store!Restart
    BY <1>8, <1>9 DEF Reopen, Store!Restart
  <2> QED BY <2>1 DEF Store!Next
<1>10. CASE BeginClose
  BY <1>8, <1>10 DEF BeginClose, Store!vars
<1>11. CASE UNCHANGED vars
  BY <1>8, <1>11 DEF vars, Store!vars
<1>12. CASE \E p \in PageID, c \in Page : InsertPage(p, c)
  BY <1>2, <1>12, CacheSteps
<1>13. CASE \E p \in PageID : RetrieveHit(p)
  BY <1>2, <1>13, CacheSteps
<1>14. CASE \E p \in PageID, T \in Class : RetrieveMiss(T, p)
  BY <1>2, <1>14, CacheSteps
<1>15. CASE \E p \in PageID, T \in Class : RetrieveAborts(T, p)
  BY <1>4, <1>15 DEF RetrieveAborts
<1>16. CASE Crash
  BY <1>4, <1>16 DEF Crash
<1> QED
  BY <1>3, <1>5, <1>6, <1>7, <1>9, <1>10, <1>11, <1>12, <1>13, <1>14, <1>15, <1>16 DEF Next

\* For every capacity the cache is transparent: with evictions, writes that
\* throw, shutdowns and crashes it does what a store of pages with no cache
\* could do, a clean shutdown included.
THEOREM CacheIsTransparent == Spec => ImplementsPageStore
<1>1. Spec => Store!Init /\ [][Store!Next]_(Store!vars)
  BY InvAlways, StoreInit, StoreNext, PTL DEF Spec
<1> QED BY <1>1 DEF ImplementsPageStore, Store!Spec
=============================================================================
