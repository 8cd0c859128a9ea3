---------------------------- MODULE SharedProofs ----------------------------
(***************************************************************************)
(* What the proofs about several modules need: a set of naturals has a     *)
(* least element, where the searches for a free bit and for a key end, and *)
(* has all naturals by induction; the places in a page are different when  *)
(* their digits are; and what a use of a page does to the LRU list.        *)
(***************************************************************************)
EXTENDS LRUList, FiniteSetTheorems, SequenceTheorems, WellFoundedInduction, TLAPS

\* Every set of naturals below a bound that is not empty has a least element.
LEMMA Minimum ==
  ASSUME NEW n \in Nat, NEW U \in SUBSET (0 .. n), U # {}
  PROVE  \E i \in U : \A j \in U : i <= j
<1> DEFINE S == 0 .. n
           R == StrictSubsetOrdering(S)
           T == {0 .. i : i \in U}
<1>1. IsWellFoundedOn(R, SUBSET S)
  <2>1. IsFiniteSet(S)
    BY FS_Interval
  <2> HIDE DEF S
  <2>2. FiniteSubsetsOf(S) = SUBSET S
    BY <2>1, FS_FiniteSubsetsOfFinite
  <2> QED BY <2>2, FS_StrictSubsetOrderingWellFounded
<1>2. T \subseteq SUBSET S /\ T # {}
  <2>1. \A i \in U : 0 .. i \subseteq 0 .. n
    OBVIOUS
  <2> QED BY <2>1
<1>3. PICK x \in T : \A y \in T : ~ (<<y, x>> \in R)
  <2> HIDE DEF R, S, T
  <2> QED BY <1>1, <1>2, WFMin
<1>4. PICK i \in U : x = 0 .. i
  BY <1>3
<1>5. ASSUME NEW j \in U
      PROVE  i <= j
  <2> SUFFICES ASSUME j < i PROVE FALSE
    OBVIOUS
  <2>1. 0 .. j \in T /\ 0 .. j \in SUBSET S /\ x \in SUBSET S
    BY <1>2, <1>3
  <2>2. 0 .. j \subseteq x /\ 0 .. j # x
    <3>1. i \in x /\ i \notin 0 .. j
      BY <1>4
    <3> QED BY <1>4, <3>1
  <2>3. <<0 .. j, x>> \in R
    BY <2>1, <2>2 DEF StrictSubsetOrdering
  <2> QED BY <1>3, <2>1, <2>3
<1> QED BY <1>5

\* A set with 0 and the successors of its naturals holds them all.
LEMMA SetInduction ==
  ASSUME NEW S, 0 \in S, \A n \in Nat : n \in S => n + 1 \in S
  PROVE  \A n \in Nat : n \in S
<1> SUFFICES ASSUME NEW n \in Nat, n \notin S
             PROVE  FALSE
  OBVIOUS
<1> DEFINE U == {m \in 0 .. n : m \notin S}
<1>1. U \in SUBSET (0 .. n) /\ U # {}
  OBVIOUS
<1>2. PICK i \in U : \A j \in U : i <= j
  <2> HIDE DEF U
  <2> QED BY <1>1, Minimum
<1>3. i \in Nat /\ i \in 0 .. n /\ i # 0 /\ i - 1 \in 0 .. n
  OBVIOUS
<1>4. i - 1 \in S
  BY <1>2, <1>3
<1> QED BY <1>3, <1>4

\* Two numbers with the same digits to a base are the same, digit by digit.
LEMMA Digits ==
  ASSUME NEW C \in Nat, NEW a \in Nat, NEW b \in Nat, NEW x \in 0 .. C - 1, NEW y \in 0 .. C - 1,
         a * C + x = b * C + y
  PROVE  a = b /\ x = y
<1>1. ASSUME NEW c \in Nat, NEW d \in Nat, NEW z \in 0 .. C - 1, NEW w \in 0 .. C - 1,
             c * C + z = d * C + w, c < d
      PROVE  FALSE
  <2>1. PICK e \in Nat : d = c + 1 + e
    <3>1. d - c - 1 \in Nat /\ d = c + 1 + (d - c - 1)
      BY <1>1
    <3> QED BY <3>1
  <2>2. d * C = c * C + C + e * C
    BY <2>1
  <2>3. c * C \in Nat /\ d * C \in Nat /\ e * C \in Nat
    OBVIOUS
  <2> DEFINE cc == c * C
             dc == d * C
             ec == e * C
  <2>4. dc = cc + C + ec /\ cc \in Nat /\ ec \in Nat /\ cc + z = dc + w
    BY <2>2, <2>3, <1>1
  <2> HIDE DEF cc, dc, ec
  <2> QED BY <2>4
<1>2. a = b
  BY <1>1
<1>3. a * C = b * C /\ a * C \in Nat
  BY <1>2
<1> QED BY <1>2, <1>3

\* l is s after p came from the place pos, or from behind its end, to the front.
Moved(l, s, p, pos) ==
  /\ pos \in 1 .. Len(l) /\ l[1] = p
  /\ \/ Len(l) = Len(s) /\ s[pos] = p
     \/ Len(l) = Len(s) + 1 /\ pos = Len(l) /\ \A i \in 1 .. Len(s) : s[i] # p
  /\ \A i \in 2 .. Len(l) : l[i] = IF i <= pos THEN s[i - 1] ELSE s[i]

\* What ToFront returns.
LEMMA ToFrontMoves ==
  ASSUME NEW S, NEW s \in Seq(S), NEW p \in S
  PROVE  /\ ToFront(s, p) \in Seq(S)
         /\ \E pos : Moved(ToFront(s, p), s, p, pos)
<1> DEFINE present == \E i \in 1 .. Len(s) : s[i] = p
           pos == IF present THEN CHOOSE i \in 1 .. Len(s) : s[i] = p ELSE Len(s) + 1
           n == IF present THEN Len(s) ELSE Len(s) + 1
           l == ToFront(s, p)
<1>1. /\ Len(s) \in Nat
      /\ \A i \in 1 .. Len(s) : s[i] \in S
  BY LenProperties
<1>2. /\ n \in Nat \ {0}
      /\ pos \in 1 .. n
      /\ n = Len(s) => s[pos] = p
      /\ n # Len(s) => n = Len(s) + 1 /\ pos = n /\ \A i \in 1 .. Len(s) : s[i] # p
      /\ n = Len(s) \/ n = Len(s) + 1
  BY <1>1
<1>3. l = [i \in 1 .. n |-> IF i = 1 THEN p ELSE IF i <= pos THEN s[i - 1] ELSE s[i]]
  BY DEF ToFront
<1> HIDE DEF n, pos, l
<1>4. l \in [1 .. n -> S]
  BY <1>1, <1>2, <1>3
<1>5. l \in Seq(S) /\ Len(l) = n
  BY <1>2, <1>4, SeqDef, LenProperties
<1>6. l[1] = p /\ \A i \in 2 .. n : l[i] = IF i <= pos THEN s[i - 1] ELSE s[i]
  BY <1>2, <1>3
<1>7. Moved(l, s, p, pos)
  BY <1>2, <1>5, <1>6 DEF Moved
<1> QED BY <1>5, <1>7 DEF l

\* ToFront puts p first and keeps every page once.
LEMMA ToFrontProperties ==
  ASSUME NEW S, NEW s \in Seq(S), NEW p \in S,
         \A i, j \in 1 .. Len(s) : s[i] = s[j] => i = j
  PROVE  LET l == ToFront(s, p)
         IN  /\ l \in Seq(S)
             /\ Len(l) >= 1 /\ Len(l) <= Len(s) + 1
             /\ l[1] = p
             /\ \A i, j \in 1 .. Len(l) : l[i] = l[j] => i = j
             /\ \A i \in 1 .. Len(l) : l[i] = p \/ \E j \in 1 .. Len(s) : l[i] = s[j]
<1> DEFINE l == ToFront(s, p)
           n == Len(l)
<1>1. PICK pos : Moved(l, s, p, pos)
  BY ToFrontMoves
<1>2. l \in Seq(S)
  BY ToFrontMoves
<1> HIDE DEF l
<1>3. Len(s) \in Nat /\ n \in Nat \ {0}
  BY <1>1, <1>2, LenProperties DEF Moved
<1>4. /\ pos \in 1 .. n /\ l[1] = p
      /\ \/ n = Len(s) /\ s[pos] = p
         \/ n = Len(s) + 1 /\ pos = n /\ \A i \in 1 .. Len(s) : s[i] # p
      /\ \A i \in 2 .. n : l[i] = IF i <= pos THEN s[i - 1] ELSE s[i]
  BY <1>1 DEF Moved
<1> HIDE DEF n
<1>5. ASSUME NEW i \in 2 .. n
      PROVE  l[i] # p
  <2>1. CASE n = Len(s) /\ s[pos] = p
    <3>1. /\ l[i] = s[IF i <= pos THEN i - 1 ELSE i]
          /\ (IF i <= pos THEN i - 1 ELSE i) \in 1 .. Len(s)
          /\ (IF i <= pos THEN i - 1 ELSE i) # pos
      BY <2>1, <1>3, <1>4, <1>5
    <3> QED BY <2>1, <3>1, <1>4
  <2>2. CASE n = Len(s) + 1 /\ pos = n /\ \A j \in 1 .. Len(s) : s[j] # p
    <3>1. l[i] = s[i - 1] /\ i - 1 \in 1 .. Len(s)
      BY <2>2, <1>3, <1>4, <1>5
    <3> QED BY <2>2, <3>1
  <2> QED BY <2>1, <2>2, <1>4
<1>6. ASSUME NEW i \in 1 .. n, NEW j \in 1 .. n, l[i] = l[j]
      PROVE  i = j
  <2>1. CASE i = 1 \/ j = 1
    BY <2>1, <1>3, <1>4, <1>5, <1>6
  <2>2. CASE i # 1 /\ j # 1
    <3>1. /\ l[i] = s[IF i <= pos THEN i - 1 ELSE i]
          /\ l[j] = s[IF j <= pos THEN j - 1 ELSE j]
      BY <2>2, <1>3, <1>4
    <3>2. /\ (IF i <= pos THEN i - 1 ELSE i) \in 1 .. Len(s)
          /\ (IF j <= pos THEN j - 1 ELSE j) \in 1 .. Len(s)
      BY <2>2, <1>3, <1>4
    <3>3. (IF i <= pos THEN i - 1 ELSE i) = (IF j <= pos THEN j - 1 ELSE j)
      BY <3>1, <3>2, <1>6
    <3>4. i \in Nat /\ j \in Nat /\ pos \in Nat
      BY <1>3, <1>4
    <3> HIDE DEF n
    <3> QED BY <3>3, <3>4
  <2> QED BY <2>1, <2>2
<1>7. ASSUME NEW i \in 1 .. n
      PROVE  l[i] = p \/ \E j \in 1 .. Len(s) : l[i] = s[j]
  BY <1>3, <1>4
<1>8. n >= 1 /\ n <= Len(s) + 1
  BY <1>3, <1>4
<1> QED BY <1>2, <1>4, <1>6, <1>7, <1>8 DEF l, n

\* ToFront loses no page, and moves each back by one place at most.
LEMMA ToFrontKeeps ==
  ASSUME NEW S, NEW s \in Seq(S), NEW p \in S, NEW i \in 1 .. Len(s)
  PROVE  \E j \in 1 .. Len(ToFront(s, p)) : j <= i + 1 /\ ToFront(s, p)[j] = s[i]
<1> DEFINE l == ToFront(s, p)
           n == Len(l)
<1>1. PICK pos : Moved(l, s, p, pos)
  BY ToFrontMoves
<1>2. l \in Seq(S)
  BY ToFrontMoves
<1> HIDE DEF l
<1>3. Len(s) \in Nat /\ n \in Nat \ {0}
  BY <1>1, <1>2, LenProperties DEF Moved
<1>4. /\ pos \in 1 .. n /\ l[1] = p
      /\ \/ n = Len(s) /\ s[pos] = p
         \/ n = Len(s) + 1 /\ pos = n
      /\ \A h \in 2 .. n : l[h] = IF h <= pos THEN s[h - 1] ELSE s[h]
  BY <1>1 DEF Moved
<1> HIDE DEF n
<1>5. CASE i < pos
  <2>1. i + 1 \in 2 .. n /\ l[i + 1] = s[i]
    BY <1>5, <1>3, <1>4
  <2> QED BY <2>1 DEF l, n
<1>6. CASE i = pos
  <2>1. 1 \in 1 .. n /\ l[1] = s[i]
    BY <1>6, <1>3, <1>4
  <2> QED BY <2>1 DEF l, n
<1>7. CASE i > pos
  <2>1. i \in 2 .. n /\ l[i] = s[i]
    BY <1>7, <1>3, <1>4
  <2> QED BY <2>1 DEF l, n
<1> QED BY <1>3, <1>4, <1>5, <1>6, <1>7

\* The pages in front of another page are those that were in front of it, and p.
LEMMA ToFrontOrder ==
  ASSUME NEW S, NEW s \in Seq(S), NEW p \in S,
         \A i, j \in 1 .. Len(s) : s[i] = s[j] => i = j,
         NEW k \in 1 .. Len(ToFront(s, p)), NEW j \in 1 .. Len(s), ToFront(s, p)[k] = s[j],
         NEW i \in 1 .. k
  PROVE  ToFront(s, p)[i] = p \/ \E m \in 1 .. j : ToFront(s, p)[i] = s[m]
<1> DEFINE l == ToFront(s, p)
           n == Len(l)
<1>1. Len(s) \in Nat
  BY LenProperties
<1>2. k \in 1 .. n /\ l[k] = s[j]
  OBVIOUS
<1> HIDE DEF l
<1>3. PICK pos : Moved(l, s, p, pos)
  BY ToFrontMoves DEF l
<1>4. /\ pos \in 1 .. n /\ l[1] = p
      /\ \/ n = Len(s)
         \/ n = Len(s) + 1 /\ pos = n
      /\ \A h \in 2 .. n : l[h] = IF h <= pos THEN s[h - 1] ELSE s[h]
  BY <1>3 DEF Moved
<1>5. n \in Nat \ {0}
  BY <1>1, <1>4
<1> HIDE DEF n
<1>6. CASE i = 1
  BY <1>4, <1>6 DEF l
<1>7. CASE i # 1 /\ k <= pos
  <2>1. l[k] = s[k - 1] /\ k - 1 \in 1 .. Len(s) /\ l[i] = s[i - 1] /\ i - 1 \in 1 .. k - 1
    BY <1>1, <1>2, <1>4, <1>5, <1>7
  <2>2. j = k - 1
    BY <1>2, <2>1
  <2> QED BY <2>1, <2>2 DEF l
<1>8. CASE i # 1 /\ k > pos
  <2>1. l[k] = s[k] /\ k \in 1 .. Len(s)
    BY <1>1, <1>2, <1>4, <1>5, <1>8
  <2>2. j = k
    BY <1>2, <2>1
  <2>3. \/ l[i] = s[i - 1] /\ i - 1 \in 1 .. k
        \/ l[i] = s[i] /\ i \in 1 .. k
    BY <1>1, <1>2, <1>4, <1>5, <1>8
  <2> QED BY <2>2, <2>3 DEF l
<1> QED BY <1>2, <1>4, <1>5, <1>6, <1>7, <1>8
=============================================================================
