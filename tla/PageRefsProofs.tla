---------------------------- MODULE PageRefsProofs ----------------------------
(***************************************************************************)
(* Proofs about PageRefs for every degree, every number of groups and      *)
(* their size, every capacity that CapacityAssumption allows, and any      *)
(* databases, paths and fresh pages.                                       *)
(***************************************************************************)
EXTENDS PageRefs, SharedProofs, SequenceTheorems, FiniteSetTheorems, TLAPS

\* The names that the FreeSpaceMap gives to its references, and the others.
FSMNames == {"fsm_page", "firstFSMPage", "nextFSMPage", "currFSMPage", "newFSMPage"}
OtherNames == {"node", "leaf", "parent", "child", "same", "newNode", "newRoot",
               "schema", "tablePage", "key", "values", "root"}
Names == FSMNames \cup OtherNames

\* The steps that touch no pages but those of S.
Step(S) == [do : {"retrieve"}, as : Names, page : S]
             \cup [do : {"insert"}, page : S]
             \cup [do : {"use"}, of : SUBSET Names]

\* After step s the name x still stands for page q, as far as s itself is concerned.
Keeps(s, x, q) == /\ ~(s.do = "retrieve" /\ s.as = x)
                  /\ ~(s.do = "insert" /\ s.page = q)

\* After n steps of c the name x stands for page q, if the references before them were
\* B (pairs of a name and a page) and nothing was evicted.
Stands(B, c, n, x, q) ==
  \/ \E j \in 1 .. n : /\ c[j] = [do |-> "retrieve", as |-> x, page |-> q]
                       /\ \A k \in j + 1 .. n : Keeps(c[k], x, q)
  \/ <<x, q>> \in B /\ \A k \in 1 .. n : Keeps(c[k], x, q)

\* What the steps c do on a cache that evicts nothing: they touch pages of S only, each
\* reference that they use stands for a page if those of B did before, and at the end
\* those of D do.
Leads(S, B, c, D) ==
  /\ c \in Seq(Step(S))
  /\ \A i \in 1 .. Len(c) : c[i].do = "use" =>
       \A x \in c[i].of : \E q : Stands(B, c, i - 1, x, q)
  /\ \A x, q : <<x, q>> \in D => Stands(B, c, Len(c), x, q)

-----------------------------------------------------------------------------
(* Steps one after the other *)

\* The kinds of steps.
LEMMA StepKinds ==
  ASSUME NEW S, NEW s \in Step(S)
  PROVE  /\ s.do \in {"retrieve", "insert", "use"}
         /\ s.do # "use" => s.page \in S
         /\ s.do = "retrieve" => s = [do |-> "retrieve", as |-> s.as, page |-> s.page]
                                 /\ s.as \in Names
         /\ s.do = "use" => s.of \subseteq Names
BY DEF Step

\* Where the steps of c and of d are in c \o d.
LEMMA ConcatPlaces ==
  ASSUME NEW T, NEW c \in Seq(T), NEW d \in Seq(T)
  PROVE  /\ c \o d \in Seq(T)
         /\ Len(c) \in Nat /\ Len(d) \in Nat
         /\ Len(c \o d) = Len(c) + Len(d)
         /\ \A i \in 1 .. Len(c) : (c \o d)[i] = c[i]
         /\ \A i \in 1 .. Len(d) : (c \o d)[Len(c) + i] = d[i]
BY LenProperties, ConcatProperties

\* What stands after the first steps stands there in a longer sequence as well.
LEMMA StandsFirst ==
  ASSUME NEW T, NEW c \in Seq(T), NEW d \in Seq(T), NEW B, NEW x, NEW q,
         NEW n \in 0 .. Len(c)
  PROVE  Stands(B, c, n, x, q) <=> Stands(B, c \o d, n, x, q)
<1>1. \A i \in 1 .. n : (c \o d)[i] = c[i]
  BY ConcatPlaces
<1>2. \A j \in 1 .. n : \A k \in j + 1 .. n : k \in 1 .. n
  OBVIOUS
<1> DEFINE e == c \o d
<1> HIDE DEF e
<1>3. \A i \in 1 .. n : e[i] = c[i]
  BY <1>1 DEF e
<1>4. Stands(B, c, n, x, q) <=> Stands(B, e, n, x, q)
  BY <1>2, <1>3 DEF Stands
<1> QED BY <1>4 DEF e

\* What stands after n steps of d if D did before stands after c \o d, if D does after c.
LEMMA StandsThen ==
  ASSUME NEW T, NEW c \in Seq(T), NEW d \in Seq(T), NEW B, NEW D, NEW x, NEW q,
         NEW n \in 0 .. Len(d), Stands(D, d, n, x, q),
         \A y, r : <<y, r>> \in D => Stands(B, c, Len(c), y, r)
  PROVE  Stands(B, c \o d, Len(c) + n, x, q)
<1> DEFINE e == c \o d
           m == Len(c)
<1>1. /\ m \in Nat /\ Len(d) \in Nat
      /\ \A i \in 1 .. m : e[i] = c[i]
      /\ \A i \in 1 .. Len(d) : e[m + i] = d[i]
  BY ConcatPlaces
<1>2. <<x, q>> \in D => Stands(B, c, m, x, q)
  OBVIOUS
<1> HIDE DEF e, m
<1>3. CASE \E j \in 1 .. n : /\ d[j] = [do |-> "retrieve", as |-> x, page |-> q]
                             /\ \A k \in j + 1 .. n : Keeps(d[k], x, q)
  <2>1. PICK j \in 1 .. n : /\ d[j] = [do |-> "retrieve", as |-> x, page |-> q]
                            /\ \A k \in j + 1 .. n : Keeps(d[k], x, q)
    BY <1>3
  <2>2. m + j \in 1 .. m + n /\ e[m + j] = d[j]
    BY <1>1
  <2>3. ASSUME NEW k \in m + j + 1 .. m + n PROVE Keeps(e[k], x, q)
    <3>1. k - m \in j + 1 .. n /\ k - m \in 1 .. Len(d) /\ k = m + (k - m)
      BY <1>1
    <3> QED BY <1>1, <2>1, <3>1
  <2> QED BY <2>1, <2>2, <2>3 DEF Stands, e, m
<1>4. CASE <<x, q>> \in D /\ \A k \in 1 .. n : Keeps(d[k], x, q)
  <2>1. ASSUME NEW k \in m + 1 .. m + n PROVE Keeps(e[k], x, q)
    <3>1. k - m \in 1 .. n /\ k - m \in 1 .. Len(d) /\ k = m + (k - m)
      BY <1>1
    <3> QED BY <1>1, <1>4, <3>1
  <2>2. Stands(B, c, m, x, q)
    BY <1>2, <1>4
  <2>3. CASE <<x, q>> \in B /\ \A k \in 1 .. m : Keeps(c[k], x, q)
    <3>1. ASSUME NEW k \in 1 .. m + n PROVE Keeps(e[k], x, q)
      <4>1. k \in 1 .. m \/ k \in m + 1 .. m + n
        BY <1>1
      <4> QED BY <1>1, <2>1, <2>3, <4>1
    <3> QED BY <2>3, <3>1 DEF Stands, e, m
  <2>4. CASE \E j \in 1 .. m : /\ c[j] = [do |-> "retrieve", as |-> x, page |-> q]
                               /\ \A k \in j + 1 .. m : Keeps(c[k], x, q)
    <3>1. PICK j \in 1 .. m : /\ c[j] = [do |-> "retrieve", as |-> x, page |-> q]
                              /\ \A k \in j + 1 .. m : Keeps(c[k], x, q)
      BY <2>4
    <3>2. ASSUME NEW k \in j + 1 .. m + n PROVE Keeps(e[k], x, q)
      <4>1. k \in j + 1 .. m \/ k \in m + 1 .. m + n
        BY <1>1
      <4>2. \A i \in j + 1 .. m : i \in 1 .. m
        BY <1>1
      <4> QED BY <1>1, <2>1, <3>1, <4>1, <4>2
    <3>3. j \in 1 .. m + n /\ e[j] = c[j]
      BY <1>1
    <3> QED BY <3>1, <3>2, <3>3 DEF Stands, e, m
  <2> QED BY <2>2, <2>3, <2>4 DEF Stands
<1> QED BY <1>3, <1>4 DEF Stands

\* Steps that lead from B to D, and then steps that lead from D to E.
LEMMA LeadsThen ==
  ASSUME NEW S, NEW B, NEW D, NEW E, NEW c, NEW d, Leads(S, B, c, D), Leads(S, D, d, E)
  PROVE  Leads(S, B, c \o d, E)
<1>1. /\ c \in Seq(Step(S)) /\ d \in Seq(Step(S))
      /\ \A x, q : <<x, q>> \in D => Stands(B, c, Len(c), x, q)
      /\ \A x, q : <<x, q>> \in E => Stands(D, d, Len(d), x, q)
  BY DEF Leads
<1> DEFINE e == c \o d
           m == Len(c)
<1>2. /\ e \in Seq(Step(S))
      /\ m \in Nat /\ Len(d) \in Nat /\ Len(e) = m + Len(d)
      /\ \A i \in 1 .. m : e[i] = c[i]
      /\ \A i \in 1 .. Len(d) : e[m + i] = d[i]
  BY <1>1, ConcatPlaces
<1>3. ASSUME NEW n \in 0 .. m, NEW x, NEW q, Stands(B, c, n, x, q)
      PROVE  Stands(B, e, n, x, q)
  BY <1>1, <1>3, StandsFirst
<1>4. ASSUME NEW n \in 0 .. Len(d), NEW x, NEW q, Stands(D, d, n, x, q)
      PROVE  Stands(B, e, m + n, x, q)
  BY <1>1, <1>4, StandsThen
<1> HIDE DEF e, m
<1>5. ASSUME NEW i \in 1 .. Len(e), e[i].do = "use", NEW x \in e[i].of
      PROVE  \E q : Stands(B, e, i - 1, x, q)
  <2>1. CASE i \in 1 .. m
    <3>1. e[i] = c[i] /\ i \in 1 .. Len(c) /\ i - 1 \in 0 .. m
      BY <2>1, <1>2 DEF m
    <3>2. PICK q : Stands(B, c, i - 1, x, q)
      BY <1>5, <3>1 DEF Leads
    <3> QED BY <1>3, <3>1, <3>2
  <2>2. CASE i \notin 1 .. m
    <3>1. PICK k \in 1 .. Len(d) : i = m + k
      <4>1. i - m \in 1 .. Len(d) /\ i = m + (i - m)
        BY <2>2, <1>2
      <4> QED BY <4>1
    <3>2. e[i] = d[k] /\ k - 1 \in 0 .. Len(d) /\ i - 1 = m + (k - 1)
      BY <1>2, <3>1
    <3>3. PICK q : Stands(D, d, k - 1, x, q)
      BY <1>5, <3>2 DEF Leads
    <3> QED BY <1>4, <3>2, <3>3
  <2> QED BY <2>1, <2>2
<1>6. ASSUME NEW x, NEW q, <<x, q>> \in E
      PROVE  Stands(B, e, Len(e), x, q)
  <2>1. Len(d) \in 0 .. Len(d) /\ Stands(D, d, Len(d), x, q)
    BY <1>1, <1>2, <1>6
  <2> QED BY <1>2, <1>4, <2>1
<1>7. Leads(S, B, e, E)
  BY <1>2, <1>5, <1>6 DEF Leads
<1> QED BY <1>7 DEF e

\* No steps.
LEMMA LeadsNowhere ==
  ASSUME NEW S, NEW B, NEW D, \A y, r : <<y, r>> \in D => <<y, r>> \in B
  PROVE  Leads(S, B, << >>, D)
<1>1. Len(<< >>) = 0 /\ << >> \in Seq(Step(S))
  OBVIOUS
<1>2. \A y, r : <<y, r>> \in D => Stands(B, << >>, 0, y, r)
  BY DEF Stands
<1> QED BY <1>1, <1>2 DEF Leads

\* A single step is a sequence of length 1.
LEMMA OneStep ==
  ASSUME NEW T, NEW s \in T
  PROVE  << s >> \in Seq(T) /\ Len(<< s >>) = 1 /\ << s >>[1] = s
OBVIOUS

\* retrievePage: the name stands for the page, and every other for what it did.
LEMMA LeadsRetrieve ==
  ASSUME NEW S, NEW B, NEW D, NEW x \in Names, NEW q \in S,
         \A y, r : <<y, r>> \in D => (y = x /\ r = q) \/ (<<y, r>> \in B /\ y # x)
  PROVE  Leads(S, B, Retrieve(x, q), D)
<1> DEFINE s == [do |-> "retrieve", as |-> x, page |-> q]
           c == << s >>
<1>1. s \in Step(S)
  BY DEF Step
<1>2. c \in Seq(Step(S)) /\ Len(c) = 1 /\ c[1] = s
  BY <1>1, OneStep
<1>3. s.do = "retrieve" /\ s.as = x
  OBVIOUS
<1>4. c = Retrieve(x, q)
  BY DEF Retrieve
<1> HIDE DEF c
<1>5. ASSUME NEW y, NEW r, <<y, r>> \in D
      PROVE  Stands(B, c, 1, y, r)
  <2>1. CASE y = x /\ r = q
    BY <2>1, <1>2 DEF Stands
  <2>2. CASE <<y, r>> \in B /\ y # x
    <3>1. Keeps(s, y, r)
      BY <2>2, <1>3 DEF Keeps
    <3> HIDE DEF s
    <3> QED BY <2>2, <3>1, <1>2 DEF Stands
  <2> QED BY <2>1, <2>2, <1>5
<1>6. \A i \in 1 .. Len(c) : c[i].do # "use"
  BY <1>2, <1>3
<1>7. Leads(S, B, c, D)
  BY <1>2, <1>5, <1>6 DEF Leads
<1> QED BY <1>4, <1>7

\* insertPage: no name stands for the page that it replaces.
LEMMA LeadsInsert ==
  ASSUME NEW S, NEW B, NEW D, NEW q \in S,
         \A y, r : <<y, r>> \in D => <<y, r>> \in B /\ r # q
  PROVE  Leads(S, B, Insert(q), D)
<1> DEFINE s == [do |-> "insert", page |-> q]
           c == << s >>
<1>1. s \in Step(S)
  BY DEF Step
<1>2. c \in Seq(Step(S)) /\ Len(c) = 1 /\ c[1] = s
  BY <1>1, OneStep
<1>3. s.do = "insert" /\ s.page = q
  OBVIOUS
<1>4. c = Insert(q)
  BY DEF Insert
<1> HIDE DEF c, s
<1>5. ASSUME NEW y, NEW r, <<y, r>> \in D
      PROVE  Stands(B, c, 1, y, r)
  <2>1. Keeps(s, y, r)
    BY <1>3, <1>5 DEF Keeps
  <2> QED BY <2>1, <1>2, <1>5 DEF Stands
<1>6. \A i \in 1 .. Len(c) : c[i].do # "use"
  BY <1>2, <1>3
<1>7. Leads(S, B, c, D)
  BY <1>2, <1>5, <1>6 DEF Leads
<1> QED BY <1>4, <1>7

\* A use of references that all stand for a page.
LEMMA LeadsUse ==
  ASSUME NEW S, NEW B, NEW D, NEW N \in SUBSET Names,
         \A x \in N : \E q : <<x, q>> \in B,
         \A y, r : <<y, r>> \in D => <<y, r>> \in B
  PROVE  Leads(S, B, Use(N), D)
<1> DEFINE s == [do |-> "use", of |-> N]
           c == << s >>
<1>1. s \in Step(S)
  BY DEF Step
<1>2. c \in Seq(Step(S)) /\ Len(c) = 1 /\ c[1] = s
  BY <1>1, OneStep
<1>3. s.do = "use" /\ s.of = N
  OBVIOUS
<1>4. c = Use(N)
  BY DEF Use
<1> HIDE DEF c, s
<1>5. ASSUME NEW y, NEW r, <<y, r>> \in B
      PROVE  Stands(B, c, 1, y, r) /\ Stands(B, c, 0, y, r)
  <2>1. Keeps(s, y, r)
    BY <1>3 DEF Keeps
  <2> QED BY <2>1, <1>2, <1>5 DEF Stands
<1>6. ASSUME NEW i \in 1 .. Len(c), NEW x \in c[i].of
      PROVE  \E q : Stands(B, c, i - 1, x, q)
  <2>1. i - 1 = 0 /\ x \in N
    BY <1>2, <1>3, <1>6
  <2>2. PICK q : <<x, q>> \in B
    BY <2>1
  <2>3. Stands(B, c, 0, x, q)
    BY <2>2, <1>5
  <2> QED BY <2>1, <2>3
<1>7. Leads(S, B, c, D)
  BY <1>2, <1>5, <1>6 DEF Leads
<1> QED BY <1>4, <1>7

-----------------------------------------------------------------------------
(* FreeSpaceMap and Pager *)

\* The first blocks of the groups, where the FSM pages are.
Files == {FSMOf(p) : p \in Block}

\* The references of D are among those of B, and none is the FreeSpaceMap's.
Others(B, D) == \A y, r : <<y, r>> \in D => <<y, r>> \in B /\ y \notin FSMNames

\* What the FreeSpaceMap calls its references.
LEMMA FSMNamesAre ==
  /\ FSMNames \subseteq Names
  /\ "fsm_page" \in FSMNames /\ "firstFSMPage" \in FSMNames /\ "nextFSMPage" \in FSMNames
  /\ "currFSMPage" \in FSMNames /\ "newFSMPage" \in FSMNames
BY DEF Names, FSMNames

\* A block is in the group that its FSM page begins, and block 0 begins the first.
LEMMA Groups ==
  /\ Group \in Nat \ {0, 1} /\ MAX_FSMPAGES \in Nat \ {0} /\ MAX_FSMPAGES * Group \in Nat
  /\ Files \subseteq Block
  /\ 0 \in Files
  /\ \A p \in Block : FSMOf(p) \in Files
  /\ \A p \in Files : FSMOf(p) = p
  /\ Page \subseteq Block /\ SCHEMA_ID \in Page
  /\ \A p \in Page : p \notin Files
<1>1. Group \in Nat \ {0, 1} /\ MAX_FSMPAGES \in Nat \ {0}
  BY NumbersAssumption
<1>2. MAX_FSMPAGES * Group \in Nat /\ MAX_FSMPAGES * Group >= Group
  <2>1. \A m \in Nat : m * Group \in Nat
    BY <1>1
  <2>2. MAX_FSMPAGES - 1 \in Nat /\ MAX_FSMPAGES * Group = (MAX_FSMPAGES - 1) * Group + Group
    BY <1>1
  <2> DEFINE a == MAX_FSMPAGES * Group
             b == (MAX_FSMPAGES - 1) * Group
  <2>3. a = b + Group /\ a \in Nat /\ b \in Nat
    BY <2>1, <2>2, <1>1
  <2> HIDE DEF a, b
  <2>4. a >= Group
    BY <2>3, <1>1
  <2> QED BY <2>3, <2>4 DEF a
<1>3. ASSUME NEW p \in Nat
      PROVE  /\ p \div Group \in Nat /\ p % Group \in 0 .. Group - 1
             /\ p = (p \div Group) * Group + (p % Group)
             /\ FSMOf(p) \in Nat /\ FSMOf(p) <= p
  <2>1. p \div Group \in Nat /\ p % Group \in 0 .. Group - 1 /\ p = (p \div Group) * Group + (p % Group)
    BY <1>1
  <2>2. \A m \in Nat : m * Group \in Nat
    BY <1>1
  <2> DEFINE f == (p \div Group) * Group
             z == p % Group
  <2>3. f \in Nat /\ z \in Nat /\ p = f + z
    BY <2>1, <2>2, <1>1
  <2> HIDE DEF f, z
  <2>4. f <= p
    BY <2>3
  <2> QED BY <2>1, <2>3, <2>4 DEF FSMOf, f
<1>4. ASSUME NEW m \in Nat
      PROVE  FSMOf(m * Group) = m * Group
  <2> DEFINE p == m * Group
             d == p \div Group
  <2>1. p \in Nat
    BY <1>1
  <2>2. d \in Nat /\ p % Group \in 0 .. Group - 1 /\ p = d * Group + (p % Group)
    <3> HIDE DEF p
    <3> QED BY <1>3, <2>1
  <2>3. m * Group + 0 = d * Group + (p % Group) /\ 0 \in 0 .. Group - 1
    <3>1. m * Group + 0 = p
      BY <2>1
    <3>2. 0 \in 0 .. Group - 1
      BY <1>1
    <3> HIDE DEF p, d
    <3> QED BY <2>2, <3>1, <3>2
  <2>4. m = d
    <3> HIDE DEF d
    <3> QED BY <2>2, <2>3, <1>1, Digits
  <2> QED BY <2>4 DEF FSMOf
<1>5. Block \subseteq Nat /\ 0 \in Block /\ 1 \in Block
  <2> DEFINE a == MAX_FSMPAGES * Group
  <2>1. a \in Nat /\ a >= Group /\ Block = 0 .. a - 1
    BY <1>2 DEF Block
  <2> HIDE DEF a
  <2> QED BY <2>1, <1>1
<1>6. ASSUME NEW p \in Block PROVE FSMOf(p) \in Block
  <2> DEFINE a == MAX_FSMPAGES * Group
  <2>1. a \in Nat /\ Block = 0 .. a - 1
    BY <1>2 DEF Block
  <2> HIDE DEF a
  <2>2. FSMOf(p) \in Nat /\ FSMOf(p) <= p /\ p \in Nat
    BY <1>3, <1>5
  <2> QED BY <2>1, <2>2
<1>7. FSMOf(0) = 0
  <2>1. FSMOf(0 * Group) = 0 * Group
    BY <1>4
  <2> QED BY <2>1, <1>1
<1>8. FSMOf(1) = 0
  <2>1. 1 \div Group = 0
    <3>1. 1 \div Group \in Nat /\ 1 % Group \in 0 .. Group - 1 /\ 1 = (1 \div Group) * Group + (1 % Group)
      BY <1>3
    <3>2. 0 * Group + 1 = (1 \div Group) * Group + (1 % Group) /\ 1 \in 0 .. Group - 1
      BY <3>1, <1>1
    <3> DEFINE d == 1 \div Group
               z == 1 % Group
    <3>3. d \in Nat /\ z \in 0 .. Group - 1 /\ 0 * Group + 1 = d * Group + z
      BY <3>1, <3>2, Zenon
    <3> HIDE DEF d, z
    <3>4. 0 = d
      BY <3>2, <3>3, <1>1, Digits
    <3> QED BY <3>4 DEF d
  <2> QED BY <2>1, <1>1 DEF FSMOf
<1>9. ASSUME NEW p \in Files PROVE FSMOf(p) = p
  <2>1. PICK b \in Block : p = FSMOf(b)
    BY DEF Files
  <2>2. b \div Group \in Nat
    BY <1>3, <1>5
  <2> QED BY <2>1, <2>2, <1>4 DEF FSMOf
<1>10. 0 \in Files /\ Files \subseteq Block /\ \A p \in Block : FSMOf(p) \in Files
  BY <1>5, <1>6, <1>7 DEF Files
<1>11. Page \subseteq Block /\ SCHEMA_ID \in Page
  BY <1>5, <1>8 DEF Page, SCHEMA_ID
<1>12. \A p \in Page : p \notin Files
  BY <1>9 DEF Page
<1> QED BY <1>1, <1>2, <1>9, <1>10, <1>11, <1>12

\* isFree uses the FSM page that it retrieves.
LEMMA LeadsIsFree ==
  ASSUME NEW S, NEW B, NEW D, NEW p \in Block, Files \subseteq S, Others(B, D)
  PROVE  Leads(S, B, isFree(p), D)
<1> DEFINE f == FSMOf(p)
           M == D \cup {<<"fsm_page", f>>}
<1>1. f \in S
  BY Groups
<1>2. \A y, r : <<y, r>> \in M <=> <<y, r>> \in D \/ (y = "fsm_page" /\ r = f)
  OBVIOUS
<1>3. isFree(p) = Retrieve("fsm_page", f) \o Use({"fsm_page"})
  BY DEF isFree
<1>4. \A y, r : <<y, r>> \in D => <<y, r>> \in B /\ y # "fsm_page"
  BY DEF Others, FSMNames
<1> HIDE DEF f, M
<1>5. Leads(S, B, Retrieve("fsm_page", f), M)
  BY <1>1, <1>2, <1>4, FSMNamesAre, LeadsRetrieve
<1>6. Leads(S, M, Use({"fsm_page"}), D)
  BY <1>2, FSMNamesAre, LeadsUse
<1> QED BY <1>3, <1>5, <1>6, LeadsThen

\* isFull uses the first FSM page.
LEMMA LeadsIsFull ==
  ASSUME NEW S, NEW B, NEW D, Files \subseteq S, Others(B, D)
  PROVE  Leads(S, B, isFull, D)
<1> DEFINE M == D \cup {<<"firstFSMPage", 0>>}
<1>1. 0 \in S
  BY Groups
<1>2. \A y, r : <<y, r>> \in M <=> <<y, r>> \in D \/ (y = "firstFSMPage" /\ r = 0)
  OBVIOUS
<1>4. \A y, r : <<y, r>> \in D => <<y, r>> \in B /\ y # "firstFSMPage"
  BY DEF Others, FSMNames
<1> HIDE DEF M
<1>5. Leads(S, B, Retrieve("firstFSMPage", 0), M)
  BY <1>1, <1>2, <1>4, FSMNamesAre, LeadsRetrieve
<1>6. Leads(S, M, Use({"firstFSMPage"}), D)
  BY <1>2, FSMNamesAre, LeadsUse
<1> QED BY <1>5, <1>6, LeadsThen DEF isFull

\* allocBit uses the first FSM page, and the next one while it holds the first.
LEMMA LeadsAllocBit ==
  ASSUME NEW S, NEW B, NEW D, NEW p \in Block, Files \subseteq S, Others(B, D)
  PROVE  Leads(S, B, allocBit(p), D)
<1> DEFINE f == FSMOf(p)
           M == D \cup {<<"firstFSMPage", 0>>}
           N == M \cup {<<"nextFSMPage", f>>}
           last == IF f = 0 THEN << >>
                   ELSE Retrieve("nextFSMPage", f) \o Use({"nextFSMPage", "firstFSMPage"})
<1>1. f \in S /\ 0 \in S
  BY Groups
<1>2. /\ \A y, r : <<y, r>> \in M <=> <<y, r>> \in D \/ (y = "firstFSMPage" /\ r = 0)
      /\ \A y, r : <<y, r>> \in N <=> <<y, r>> \in M \/ (y = "nextFSMPage" /\ r = f)
  OBVIOUS
<1>3. allocBit(p) = ((isFull \o Retrieve("firstFSMPage", 0)) \o Use({"firstFSMPage"})) \o last
  BY DEF allocBit
<1>4. \A y, r : <<y, r>> \in D =>
        <<y, r>> \in B /\ y # "firstFSMPage" /\ y # "nextFSMPage"
  BY DEF Others, FSMNames
<1>5. Others(B, D) /\ Others(D, D)
  BY DEF Others
<1> HIDE DEF M, N
<1>6. Leads(S, B, isFull, D)
  BY LeadsIsFull
<1>7. Leads(S, D, Retrieve("firstFSMPage", 0), M)
  BY <1>1, <1>2, <1>4, FSMNamesAre, LeadsRetrieve
<1>8. Leads(S, M, Use({"firstFSMPage"}), M)
  BY <1>2, FSMNamesAre, LeadsUse
<1>9. Leads(S, M, last, D)
  <2>1. CASE f = 0
    BY <2>1, <1>2, LeadsNowhere
  <2>2. CASE f # 0
    <3> HIDE DEF f
    <3>1. Leads(S, M, Retrieve("nextFSMPage", f), N)
      <4>1. \A y, r : <<y, r>> \in M => y # "nextFSMPage"
        BY <1>2, <1>4
      <4> QED BY <1>1, <1>2, <4>1, FSMNamesAre, LeadsRetrieve
    <3>2. Leads(S, N, Use({"nextFSMPage", "firstFSMPage"}), D)
      <4>1. \A x \in {"nextFSMPage", "firstFSMPage"} : \E q : <<x, q>> \in N
        BY <1>2
      <4> QED BY <1>2, <4>1, FSMNamesAre, LeadsUse
    <3> QED BY <2>2, <3>1, <3>2, LeadsThen
  <2> QED BY <2>1, <2>2
<1> HIDE DEF last
<1> QED BY <1>3, <1>6, <1>7, <1>8, <1>9, LeadsThen

\* linkFSMPage holds two FSM pages.
LEMMA LeadsLinkFSMPage ==
  ASSUME NEW S, NEW B, NEW D, NEW new \in Files, Files \subseteq S, Others(B, D)
  PROVE  Leads(S, B, linkFSMPage(new), D)
<1> DEFINE M == D \cup {<<"firstFSMPage", 0>>}
           N == M \cup {<<"newFSMPage", new>>}
<1>1. new \in S /\ 0 \in S
  BY Groups
<1>2. /\ \A y, r : <<y, r>> \in M <=> <<y, r>> \in D \/ (y = "firstFSMPage" /\ r = 0)
      /\ \A y, r : <<y, r>> \in N <=> <<y, r>> \in M \/ (y = "newFSMPage" /\ r = new)
  OBVIOUS
<1>4. \A y, r : <<y, r>> \in D =>
        <<y, r>> \in B /\ y # "firstFSMPage" /\ y # "newFSMPage"
  BY DEF Others, FSMNames
<1> HIDE DEF M, N
<1>5. Leads(S, B, Retrieve("firstFSMPage", 0), M)
  BY <1>1, <1>2, <1>4, FSMNamesAre, LeadsRetrieve
<1>6. Leads(S, M, Retrieve("newFSMPage", new), N)
  <2>1. \A y, r : <<y, r>> \in M => y # "newFSMPage"
    BY <1>2, <1>4
  <2> QED BY <1>1, <1>2, <2>1, FSMNamesAre, LeadsRetrieve
<1>7. Leads(S, N, Use({"firstFSMPage", "newFSMPage"}), D)
  <2>1. \A x \in {"firstFSMPage", "newFSMPage"} : \E q : <<x, q>> \in N
    BY <1>2
  <2> QED BY <1>2, <2>1, FSMNamesAre, LeadsUse
<1> QED BY <1>5, <1>6, <1>7, LeadsThen DEF linkFSMPage

\* freeBit holds the FSM page of the block and the first one.
LEMMA LeadsFreeBit ==
  ASSUME NEW S, NEW B, NEW D, NEW p \in Block, Files \subseteq S, Others(B, D)
  PROVE  Leads(S, B, freeBit(p), D)
<1> DEFINE f == FSMOf(p)
           M == D \cup {<<"currFSMPage", f>>}
           N == M \cup {<<"firstFSMPage", 0>>}
<1>1. f \in S /\ 0 \in S
  BY Groups
<1>2. /\ \A y, r : <<y, r>> \in M <=> <<y, r>> \in D \/ (y = "currFSMPage" /\ r = f)
      /\ \A y, r : <<y, r>> \in N <=> <<y, r>> \in M \/ (y = "firstFSMPage" /\ r = 0)
  OBVIOUS
<1>3. freeBit(p) = ((isFree(p) \o Retrieve("currFSMPage", f)) \o Retrieve("firstFSMPage", 0))
                     \o Use({"currFSMPage", "firstFSMPage"})
  BY DEF freeBit
<1>4. \A y, r : <<y, r>> \in D =>
        <<y, r>> \in B /\ y # "firstFSMPage" /\ y # "currFSMPage"
  BY DEF Others, FSMNames
<1> HIDE DEF f, M, N
<1>5. Leads(S, B, isFree(p), D)
  BY LeadsIsFree
<1>6. Leads(S, D, Retrieve("currFSMPage", f), M)
  BY <1>1, <1>2, <1>4, FSMNamesAre, LeadsRetrieve
<1>7. Leads(S, M, Retrieve("firstFSMPage", 0), N)
  <2>1. \A y, r : <<y, r>> \in M => y # "firstFSMPage"
    BY <1>2, <1>4
  <2> QED BY <1>1, <1>2, <2>1, FSMNamesAre, LeadsRetrieve
<1>8. Leads(S, N, Use({"currFSMPage", "firstFSMPage"}), D)
  <2>1. \A x \in {"currFSMPage", "firstFSMPage"} : \E q : <<x, q>> \in N
    BY <1>2
  <2> QED BY <1>2, <2>1, FSMNamesAre, LeadsUse
<1> QED BY <1>3, <1>5, <1>6, <1>7, <1>8, LeadsThen

\* getPage: the name stands for the page; references that have other names, and not
\* those of the FreeSpaceMap, are kept.
LEMMA LeadsGetPage ==
  ASSUME NEW S, NEW B, NEW D, NEW name \in Names, NEW p \in Block, Files \subseteq S, p \in S,
         \A y, r : <<y, r>> \in D =>
           \/ y = name /\ r = p
           \/ <<y, r>> \in B /\ y # name /\ y \notin FSMNames
  PROVE  Leads(S, B, getPage(name, p), D)
<1> DEFINE M == {b \in B : b[1] \notin FSMNames}
<1>1. \A y, r : <<y, r>> \in M <=> <<y, r>> \in B /\ y \notin FSMNames
  OBVIOUS
<1> HIDE DEF M
<1>2. Leads(S, B, isFree(p), M)
  <2>1. Others(B, M)
    BY <1>1 DEF Others
  <2> QED BY <2>1, LeadsIsFree
<1>3. Leads(S, M, Retrieve(name, p), D)
  BY <1>1, LeadsRetrieve
<1> QED BY <1>2, <1>3, LeadsThen DEF getPage

\* createNewPage: the same, but a reference to another object for the page is lost.
LEMMA LeadsCreateNewPage ==
  ASSUME NEW S, NEW B, NEW D, NEW name \in Names, NEW p \in Page, Files \subseteq S, p \in S,
         \A y, r : <<y, r>> \in D =>
           \/ y = name /\ r = p
           \/ <<y, r>> \in B /\ y # name /\ y \notin FSMNames /\ r \in Page /\ r # p
  PROVE  Leads(S, B, createNewPage(name, p), D)
<1> DEFINE f == FSMOf(p)
           grows == p = f + 1
           M == {b \in B : b[1] \notin FSMNames /\ b[2] \in Page /\ b[2] # p}
           checks == IF p = SCHEMA_ID THEN << >> ELSE isFull
           inserts == IF grows THEN Insert(f) ELSE << >>
           links == IF grows /\ f # 0 THEN linkFSMPage(f) ELSE << >>
<1>1. \A y, r : <<y, r>> \in M <=> <<y, r>> \in B /\ y \notin FSMNames /\ r \in Page /\ r # p
  OBVIOUS
<1>2. p \in Block /\ f \in S /\ f \in Files /\ \A r \in Page : r # f
  BY Groups
<1>3. createNewPage(name, p) =
        ((((checks \o inserts) \o links) \o allocBit(p)) \o Insert(p)) \o getPage(name, p)
  BY DEF createNewPage
<1> HIDE DEF M, f
<1>4. Others(B, M) /\ Others(M, M)
  BY <1>1 DEF Others
<1>5. \A y, r : <<y, r>> \in M => <<y, r>> \in B
  BY <1>1
<1>6. Leads(S, B, checks, M)
  BY <1>4, <1>5, LeadsNowhere, LeadsIsFull
<1>7. Leads(S, M, inserts, M)
  <2>1. \A y, r : <<y, r>> \in M => r # f
    BY <1>1, <1>2
  <2> QED BY <1>2, <2>1, LeadsNowhere, LeadsInsert
<1>8. Leads(S, M, links, M)
  BY <1>2, <1>4, LeadsNowhere, LeadsLinkFSMPage
<1>9. Leads(S, M, allocBit(p), M)
  BY <1>2, <1>4, LeadsAllocBit
<1>10. Leads(S, M, Insert(p), M)
  BY <1>1, LeadsInsert
<1>11. Leads(S, M, getPage(name, p), D)
  <2>1. ASSUME NEW y, NEW r, <<y, r>> \in D
        PROVE  \/ y = name /\ r = p
               \/ <<y, r>> \in M /\ y # name /\ y \notin FSMNames
    BY <1>1, <2>1
  <2> QED BY <1>2, <2>1, LeadsGetPage
<1> HIDE DEF checks, inserts, links
<1> QED BY <1>3, <1>6, <1>7, <1>8, <1>9, <1>10, <1>11, LeadsThen

-----------------------------------------------------------------------------
(* Loops *)

\* The function by which Concat is defined.
UpTo(rounds) ==
  CHOOSE f : f = [i \in 0 .. Len(rounds) |-> IF i = 0 THEN << >> ELSE f[i - 1] \o rounds[i]]

\* It exists.
LEMMA UpToEquation ==
  ASSUME NEW T, NEW rounds \in Seq(T)
  PROVE  /\ Concat(rounds) = UpTo(rounds)[Len(rounds)]
         /\ UpTo(rounds)[0] = << >>
         /\ \A i \in 1 .. Len(rounds) : UpTo(rounds)[i] = UpTo(rounds)[i - 1] \o rounds[i]
<1> DEFINE n == Len(rounds)
           Round(u, i) == IF i = 0 THEN << >> ELSE u[i - 1] \o rounds[i]
           S == {m \in Nat : \E u : \A i \in 0 .. m : u[i] = Round(u, i)}
<1>1. n \in Nat
  BY LenProperties
<1>2. 0 \in S
  <2>1. \A i \in 0 .. 0 : [j \in {0} |-> << >>][i] = Round([j \in {0} |-> << >>], i)
    OBVIOUS
  <2> HIDE DEF Round
  <2> QED BY <2>1
<1>3. ASSUME NEW m \in Nat, m \in S PROVE m + 1 \in S
  <2>1. PICK u : \A i \in 0 .. m : u[i] = Round(u, i)
    BY <1>3
  <2> DEFINE v == [i \in 0 .. m + 1 |-> IF i = m + 1 THEN u[m] \o rounds[m + 1] ELSE u[i]]
  <2>2. /\ \A i \in 0 .. m : v[i] = u[i]
        /\ v[m + 1] = u[m] \o rounds[m + 1]
    OBVIOUS
  <2> HIDE DEF v
  <2>3. ASSUME NEW i \in 0 .. m + 1 PROVE v[i] = Round(v, i)
    <3>1. CASE i = m + 1
      <4>1. i # 0 /\ i - 1 = m /\ m \in 0 .. m
        BY <3>1
      <4> QED BY <3>1, <4>1, <2>2
    <3>2. CASE i = 0
      BY <3>2, <2>1, <2>2
    <3>3. CASE i # m + 1 /\ i # 0
      <4>1. i \in 0 .. m /\ i - 1 \in 0 .. m
        BY <3>3
      <4> QED BY <3>3, <4>1, <2>1, <2>2
    <3> QED BY <3>1, <3>2, <3>3
  <2> HIDE DEF Round
  <2> QED BY <2>3
<1>4. n \in S
  <2> HIDE DEF S
  <2> QED BY <1>1, <1>2, <1>3, SetInduction
<1>5. PICK u : \A i \in 0 .. n : u[i] = Round(u, i)
  BY <1>4
<1> DEFINE w == [i \in 0 .. n |-> u[i]]
<1>6. ASSUME NEW i \in 0 .. n PROVE w[i] = Round(w, i)
  <2>1. i # 0 => i - 1 \in 0 .. n
    BY <1>1
  <2> QED BY <1>5, <2>1
<1>7. w = [i \in 0 .. n |-> w[i]]
  OBVIOUS
<1> HIDE DEF w
<1>8. w = [i \in 0 .. n |-> Round(w, i)]
  BY <1>6, <1>7
<1>9. UpTo(rounds) = [i \in 0 .. n |-> Round(UpTo(rounds), i)]
  BY <1>8 DEF UpTo
<1>10. Concat(rounds) = UpTo(rounds)[n]
  BY DEF Concat, UpTo
<1>11. 0 \in 0 .. n /\ \A i \in 1 .. n : i \in 0 .. n /\ i # 0
  BY <1>1
<1>12. \A i \in 0 .. n : UpTo(rounds)[i] = Round(UpTo(rounds), i)
  <2> DEFINE f == UpTo(rounds)
  <2>1. f = [i \in 0 .. n |-> Round(f, i)]
    BY <1>9
  <2> HIDE DEF f, Round
  <2>2. \A i \in 0 .. n : f[i] = Round(f, i)
    BY <2>1
  <2> QED BY <2>2 DEF f
<1> QED BY <1>10, <1>11, <1>12

\* A set of sequences of steps that has the empty one, and each longer by one round, has
\* those of the loop.
LEMMA ConcatIn ==
  ASSUME NEW T, NEW rounds \in Seq(T), NEW Q, << >> \in Q,
         \A c \in Q : \A i \in 1 .. Len(rounds) : c \o rounds[i] \in Q
  PROVE  Concat(rounds) \in Q
<1> DEFINE n == Len(rounds)
           f == UpTo(rounds)
           S == {m \in Nat : m <= n => f[m] \in Q}
<1>1. /\ n \in Nat
      /\ Concat(rounds) = f[n] /\ f[0] = << >>
      /\ \A i \in 1 .. n : f[i] = f[i - 1] \o rounds[i]
  BY LenProperties, UpToEquation
<1> HIDE DEF f, n
<1>2. 0 \in S
  BY <1>1
<1>3. ASSUME NEW m \in Nat, m \in S PROVE m + 1 \in S
  <2>1. SUFFICES ASSUME m + 1 <= n PROVE f[m + 1] \in Q
    OBVIOUS
  <2>2. m + 1 \in 1 .. n /\ m <= n /\ (m + 1) - 1 = m
    BY <1>1, <2>1
  <2>3. f[m] \in Q
    BY <1>3, <2>2
  <2>4. f[m + 1] = f[m] \o rounds[m + 1]
    BY <1>1, <2>2
  <2> QED BY <2>2, <2>3, <2>4 DEF n
<1>4. n \in S
  <2> HIDE DEF S
  <2> QED BY <1>1, <1>2, <1>3, SetInduction
<1> QED BY <1>1, <1>4

\* A loop whose rounds keep the references B keeps them.
LEMMA LeadsConcat ==
  ASSUME NEW S, NEW B, NEW n \in Nat, NEW rounds, rounds = [i \in 1 .. n |-> rounds[i]],
         \A i \in 1 .. n : Leads(S, B, rounds[i], B)
  PROVE  Leads(S, B, Concat(rounds), B)
<1> DEFINE T == Seq(Step(S))
           Q == {c \in T : Leads(S, B, c, B)}
<1>1. \A i \in 1 .. n : rounds[i] \in T
  BY DEF Leads
<1>2. rounds \in Seq(T) /\ Len(rounds) = n
  <2> HIDE DEF T
  <2>1. rounds \in [1 .. n -> T]
    BY <1>1
  <2> QED BY <2>1, SeqDef, LenProperties
<1>3. << >> \in Q
  BY LeadsNowhere
<1>4. ASSUME NEW c \in Q, NEW i \in 1 .. Len(rounds)
      PROVE  c \o rounds[i] \in Q
  <2>1. Leads(S, B, c, B) /\ Leads(S, B, rounds[i], B)
    BY <1>2, <1>4
  <2>2. Leads(S, B, c \o rounds[i], B)
    BY <2>1, LeadsThen
  <2> QED BY <2>2 DEF Leads
<1> HIDE DEF Q, T
<1>5. Concat(rounds) \in Q
  BY <1>2, <1>3, <1>4, ConcatIn
<1> QED BY <1>5 DEF Q

-----------------------------------------------------------------------------
(* Btree, Table and StorageEngine *)

\* The names of the other modules are not those of the FreeSpaceMap.
LEMMA OtherNamesAre ==
  /\ OtherNames \subseteq Names
  /\ \A x \in OtherNames : x \notin FSMNames
  /\ "node" \in OtherNames /\ "leaf" \in OtherNames /\ "parent" \in OtherNames
  /\ "child" \in OtherNames /\ "same" \in OtherNames /\ "newNode" \in OtherNames
  /\ "newRoot" \in OtherNames /\ "schema" \in OtherNames /\ "tablePage" \in OtherNames
  /\ "key" \in OtherNames /\ "values" \in OtherNames /\ "root" \in OtherNames
BY DEF Names, OtherNames, FSMNames

\* Visit needs nothing, and after it the name stands for the page.
LEMMA LeadsVisit ==
  ASSUME NEW S, NEW B, NEW D, NEW name \in OtherNames, NEW p \in Page, Files \subseteq S, p \in S,
         \A y, r : <<y, r>> \in D =>
           (y = name /\ r = p) \/ (<<y, r>> \in B /\ y # name /\ y \in OtherNames)
  PROVE  Leads(S, B, Visit(name, p), D)
<1> DEFINE M == D \cup {<<name, p>>}
<1>1. \A y, r : <<y, r>> \in M <=> <<y, r>> \in D \/ (y = name /\ r = p)
  OBVIOUS
<1>2. p \in Block /\ name \in Names
  BY Groups, OtherNamesAre
<1> HIDE DEF M
<1>3. Leads(S, B, getPage(name, p), M)
  <2>1. ASSUME NEW y, NEW r, <<y, r>> \in M
        PROVE  \/ y = name /\ r = p
               \/ <<y, r>> \in B /\ y # name /\ y \notin FSMNames
    BY <1>1, <2>1, OtherNamesAre
  <2> QED BY <1>2, <2>1, LeadsGetPage
<1>4. Leads(S, M, Use({name}), D)
  BY <1>1, <1>2, LeadsUse
<1> QED BY <1>3, <1>4, LeadsThen DEF Visit

\* The loop of split goes through the children while it holds the node and the new node.
LEMMA LeadsMoveRightHalf ==
  ASSUME NEW S, NEW B, NEW kids \in Seq(Page), Files \subseteq S,
         \A i \in 1 .. Len(kids) : kids[i] \in S,
         \E q : <<"node", q>> \in B, \E q : <<"newNode", q>> \in B,
         \A y, r : <<y, r>> \in B => y \in OtherNames /\ y # "child"
  PROVE  Leads(S, B, MoveRightHalf(kids), B)
<1> DEFINE Round(i) == (Use({"newNode"}) \o getPage("child", kids[i])) \o Use({"child", "newNode"})
           rounds == [i \in 1 .. Len(kids) |-> Round(i)]
<1>1. ASSUME NEW i \in 1 .. Len(kids) PROVE Leads(S, B, Round(i), B)
  <2> DEFINE k == kids[i]
             M == B \cup {<<"child", k>>}
  <2>1. \A y, r : <<y, r>> \in M <=> <<y, r>> \in B \/ (y = "child" /\ r = k)
    OBVIOUS
  <2>2. k \in S /\ k \in Page /\ k \in Block
    BY Groups, LenProperties
  <2> HIDE DEF M, k
  <2>3. Leads(S, B, Use({"newNode"}), B)
    BY OtherNamesAre, LeadsUse
  <2>4. Leads(S, B, getPage("child", k), M)
    <3>1. ASSUME NEW y, NEW r, <<y, r>> \in M
          PROVE  \/ y = "child" /\ r = k
                 \/ <<y, r>> \in B /\ y # "child" /\ y \notin FSMNames
      BY <2>1, <3>1, OtherNamesAre
    <3> QED BY <2>2, <3>1, OtherNamesAre, LeadsGetPage
  <2>5. Leads(S, M, Use({"child", "newNode"}), B)
    <3>1. \A x \in {"child", "newNode"} : \E q : <<x, q>> \in M
      BY <2>1
    <3> QED BY <2>1, <3>1, OtherNamesAre, LeadsUse
  <2>6. Leads(S, B, (Use({"newNode"}) \o getPage("child", k)) \o Use({"child", "newNode"}), B)
    BY <2>3, <2>4, <2>5, LeadsThen
  <2> QED BY <2>6 DEF k
<1>2. Len(kids) \in Nat
  BY LenProperties
<1>3. Leads(S, B, Concat(rounds), B)
  <2>1. \A i \in 1 .. Len(kids) : Leads(S, B, rounds[i], B)
    <3>1. \A i \in 1 .. Len(kids) : rounds[i] = Round(i)
      OBVIOUS
    <3> HIDE DEF Round, rounds
    <3> QED BY <1>1, <3>1
  <2>2. rounds = [i \in 1 .. Len(kids) |-> rounds[i]]
    OBVIOUS
  <2> HIDE DEF rounds
  <2> QED BY <1>2, <2>1, <2>2, LeadsConcat
<1>4. MoveRightHalf(kids) = (Use({"newNode", "node"}) \o Concat(rounds)) \o Use({"node"})
  BY DEF MoveRightHalf
<1> HIDE DEF rounds
<1>5. Leads(S, B, Use({"newNode", "node"}), B)
  <2>1. \A x \in {"newNode", "node"} : \E q : <<x, q>> \in B
    OBVIOUS
  <2> QED BY <2>1, OtherNamesAre, LeadsUse
<1>6. Leads(S, B, Use({"node"}), B)
  BY OtherNamesAre, LeadsUse
<1> QED BY <1>3, <1>4, <1>5, <1>6, LeadsThen

\* The split of a node below the root holds the node, its parent and the new node; allocBit
\* finds another page than the first two.
LEMMA LeadsSplitChild ==
  ASSUME NEW S, NEW p \in Page, NEW parent \in Page, NEW kids \in Seq(Page), NEW new \in Page,
         new # p, new # parent,
         Files \subseteq S, p \in S, parent \in S, new \in S,
         \A i \in 1 .. Len(kids) : kids[i] \in S
  PROVE  Leads(S, {}, SplitChild(p, parent, kids, new), {})
<1> DEFINE B1 == {<<"node", p>>}
           B2 == {<<"node", p>>, <<"parent", parent>>}
           B3 == {<<"node", p>>, <<"parent", parent>>, <<"newNode", new>>}
<1>1. /\ \A y, r : <<y, r>> \in B1 <=> y = "node" /\ r = p
      /\ \A y, r : <<y, r>> \in B2 <=> <<y, r>> \in B1 \/ (y = "parent" /\ r = parent)
      /\ \A y, r : <<y, r>> \in B3 <=> <<y, r>> \in B2 \/ (y = "newNode" /\ r = new)
  OBVIOUS
<1>2. SplitChild(p, parent, kids, new) =
        ((((((SplitNothing(p) \o getPage("parent", parent)) \o Use({"parent", "node"}))
              \o createNewPage("newNode", new)) \o Use({"parent"}))
              \o MoveRightHalf(kids)) \o Use({"parent", "newNode"}))
  BY DEF SplitChild
<1> HIDE DEF B1, B2, B3
<1>3. Leads(S, {}, SplitNothing(p), B1)
  BY <1>1, OtherNamesAre, LeadsVisit DEF SplitNothing
<1>4. Leads(S, B1, getPage("parent", parent), B2)
  <2>1. ASSUME NEW y, NEW r, <<y, r>> \in B2
        PROVE  \/ y = "parent" /\ r = parent
               \/ <<y, r>> \in B1 /\ y # "parent" /\ y \notin FSMNames
    BY <1>1, <2>1, OtherNamesAre
  <2> QED BY <2>1, Groups, OtherNamesAre, LeadsGetPage
<1>5. Leads(S, B2, Use({"parent", "node"}), B2)
  <2>1. \A x \in {"parent", "node"} : \E q : <<x, q>> \in B2
    BY <1>1
  <2> QED BY <2>1, OtherNamesAre, LeadsUse
<1>6. Leads(S, B2, createNewPage("newNode", new), B3)
  <2>1. ASSUME NEW y, NEW r, <<y, r>> \in B3
        PROVE  \/ y = "newNode" /\ r = new
               \/ /\ <<y, r>> \in B2 /\ y # "newNode" /\ y \notin FSMNames
                  /\ r \in Page /\ r # new
    BY <1>1, <2>1, OtherNamesAre
  <2> QED BY <2>1, OtherNamesAre, LeadsCreateNewPage
<1>7. Leads(S, B3, Use({"parent"}), B3)
  <2>1. \A x \in {"parent"} : \E q : <<x, q>> \in B3
    BY <1>1
  <2> QED BY <2>1, OtherNamesAre, LeadsUse
<1>8. Leads(S, B3, MoveRightHalf(kids), B3)
  <2>1. <<"node", p>> \in B3 /\ <<"newNode", new>> \in B3
    BY <1>1
  <2>2. \A y, r : <<y, r>> \in B3 => y \in OtherNames /\ y # "child"
    BY <1>1, OtherNamesAre
  <2> QED BY <2>1, <2>2, LeadsMoveRightHalf
<1>9. Leads(S, B3, Use({"parent", "newNode"}), {})
  <2>1. \A x \in {"parent", "newNode"} : \E q : <<x, q>> \in B3
    BY <1>1
  <2> QED BY <2>1, OtherNamesAre, LeadsUse
<1> QED BY <1>2, <1>3, <1>4, <1>5, <1>6, <1>7, <1>8, <1>9, LeadsThen

\* The split of the root holds the node, the new root and the new node.
LEMMA LeadsSplitRoot ==
  ASSUME NEW S, NEW p \in Page, NEW kids \in Seq(Page), NEW newRoot \in Page, NEW new \in Page,
         newRoot # p, new # p, new # newRoot,
         Files \subseteq S, p \in S, newRoot \in S, new \in S,
         \A i \in 1 .. Len(kids) : kids[i] \in S
  PROVE  Leads(S, {}, SplitRoot(p, kids, newRoot, new), {})
<1> DEFINE B1 == {<<"node", p>>}
           B2 == {<<"node", p>>, <<"newRoot", newRoot>>}
           B3 == {<<"node", p>>, <<"newRoot", newRoot>>, <<"same", p>>}
           B4 == {<<"node", p>>, <<"newRoot", newRoot>>, <<"newNode", new>>}
<1>1. /\ \A y, r : <<y, r>> \in B1 <=> y = "node" /\ r = p
      /\ \A y, r : <<y, r>> \in B2 <=> <<y, r>> \in B1 \/ (y = "newRoot" /\ r = newRoot)
      /\ \A y, r : <<y, r>> \in B3 <=> <<y, r>> \in B2 \/ (y = "same" /\ r = p)
      /\ \A y, r : <<y, r>> \in B4 <=> <<y, r>> \in B2 \/ (y = "newNode" /\ r = new)
  OBVIOUS
<1>2. SplitRoot(p, kids, newRoot, new) =
        (((((((SplitNothing(p) \o createNewPage("newRoot", newRoot)) \o Use({"newRoot", "node"}))
              \o getPage("same", p)) \o Use({"same", "newRoot"}))
              \o createNewPage("newNode", new))
              \o MoveRightHalf(kids)) \o Use({"newRoot", "newNode"}))
  BY DEF SplitRoot
<1> HIDE DEF B1, B2, B3, B4
<1>3. Leads(S, {}, SplitNothing(p), B1)
  BY <1>1, OtherNamesAre, LeadsVisit DEF SplitNothing
<1>4. Leads(S, B1, createNewPage("newRoot", newRoot), B2)
  <2>1. ASSUME NEW y, NEW r, <<y, r>> \in B2
        PROVE  \/ y = "newRoot" /\ r = newRoot
               \/ /\ <<y, r>> \in B1 /\ y # "newRoot" /\ y \notin FSMNames
                  /\ r \in Page /\ r # newRoot
    BY <1>1, <2>1, OtherNamesAre
  <2> QED BY <2>1, OtherNamesAre, LeadsCreateNewPage
<1>5. Leads(S, B2, Use({"newRoot", "node"}), B2)
  <2>1. \A x \in {"newRoot", "node"} : \E q : <<x, q>> \in B2
    BY <1>1
  <2> QED BY <2>1, OtherNamesAre, LeadsUse
<1>6. Leads(S, B2, getPage("same", p), B3)
  <2>1. ASSUME NEW y, NEW r, <<y, r>> \in B3
        PROVE  \/ y = "same" /\ r = p
               \/ <<y, r>> \in B2 /\ y # "same" /\ y \notin FSMNames
    BY <1>1, <2>1, OtherNamesAre
  <2> QED BY <2>1, Groups, OtherNamesAre, LeadsGetPage
<1>7. Leads(S, B3, Use({"same", "newRoot"}), B2)
  <2>1. \A x \in {"same", "newRoot"} : \E q : <<x, q>> \in B3
    BY <1>1
  <2>2. \A y, r : <<y, r>> \in B2 => <<y, r>> \in B3
    BY <1>1
  <2> QED BY <2>1, <2>2, OtherNamesAre, LeadsUse
<1>8. Leads(S, B2, createNewPage("newNode", new), B4)
  <2>1. ASSUME NEW y, NEW r, <<y, r>> \in B4
        PROVE  \/ y = "newNode" /\ r = new
               \/ /\ <<y, r>> \in B2 /\ y # "newNode" /\ y \notin FSMNames
                  /\ r \in Page /\ r # new
    BY <1>1, <2>1, OtherNamesAre
  <2> QED BY <2>1, OtherNamesAre, LeadsCreateNewPage
<1>9. Leads(S, B4, MoveRightHalf(kids), B4)
  <2>1. <<"node", p>> \in B4 /\ <<"newNode", new>> \in B4
    BY <1>1
  <2>2. \A y, r : <<y, r>> \in B4 => y \in OtherNames /\ y # "child"
    BY <1>1, OtherNamesAre
  <2> QED BY <2>1, <2>2, LeadsMoveRightHalf
<1>10. Leads(S, B4, Use({"newRoot", "newNode"}), {})
  <2>1. \A x \in {"newRoot", "newNode"} : \E q : <<x, q>> \in B4
    BY <1>1
  <2> QED BY <2>1, OtherNamesAre, LeadsUse
<1> QED BY <1>2, <1>3, <1>4, <1>5, <1>6, <1>7, <1>8, <1>9, <1>10, LeadsThen

\* The constructor of a Table needs no reference of its caller, and takes none away.
LEMMA LeadsDegreeOf ==
  ASSUME NEW S, NEW B, NEW t \in Page, Files \subseteq S, t \in S,
         \A y, r : <<y, r>> \in B => y \in OtherNames /\ y # "key" /\ y # "values"
  PROVE  Leads(S, B, DegreeOf(t), B)
<1> DEFINE M == B \cup {<<"key", t>>}
           N == M \cup {<<"values", t>>}
<1>1. /\ \A y, r : <<y, r>> \in M <=> <<y, r>> \in B \/ (y = "key" /\ r = t)
      /\ \A y, r : <<y, r>> \in N <=> <<y, r>> \in M \/ (y = "values" /\ r = t)
  OBVIOUS
<1>2. DegreeOf(t) = (getPage("key", t) \o getPage("values", t)) \o Use({"key", "values"})
  BY DEF DegreeOf
<1>3. t \in Block
  BY Groups
<1> HIDE DEF M, N
<1>4. Leads(S, B, getPage("key", t), M)
  <2>1. ASSUME NEW y, NEW r, <<y, r>> \in M
        PROVE  \/ y = "key" /\ r = t
               \/ <<y, r>> \in B /\ y # "key" /\ y \notin FSMNames
    BY <1>1, <2>1, OtherNamesAre
  <2> QED BY <1>3, <2>1, OtherNamesAre, LeadsGetPage
<1>5. Leads(S, M, getPage("values", t), N)
  <2>1. ASSUME NEW y, NEW r, <<y, r>> \in N
        PROVE  \/ y = "values" /\ r = t
               \/ <<y, r>> \in M /\ y # "values" /\ y \notin FSMNames
    BY <1>1, <2>1, OtherNamesAre
  <2> QED BY <1>3, <2>1, OtherNamesAre, LeadsGetPage
<1>6. Leads(S, N, Use({"key", "values"}), B)
  <2>1. \A x \in {"key", "values"} : \E q : <<x, q>> \in N
    BY <1>1
  <2> QED BY <1>1, <2>1, OtherNamesAre, LeadsUse
<1> QED BY <1>2, <1>4, <1>5, <1>6, LeadsThen

\* The constructor of StorageEngine holds the SchemaPage while it loads the tables.
LEMMA LeadsOpen ==
  ASSUME NEW S, NEW tables \in Seq(Page), Files \subseteq S, SCHEMA_ID \in S,
         \A i \in 1 .. Len(tables) : tables[i] \in S
  PROVE  Leads(S, {}, Open(tables), {})
<1> DEFINE B == {<<"schema", SCHEMA_ID>>}
           Round(i) == Use({"schema"}) \o LoadTable(tables[i])
           rounds == [i \in 1 .. Len(tables) |-> Round(i)]
<1>1. \A y, r : <<y, r>> \in B <=> y = "schema" /\ r = SCHEMA_ID
  OBVIOUS
<1> HIDE DEF B
<1>2. \A y, r : <<y, r>> \in B =>
        y \in OtherNames /\ y # "key" /\ y # "values" /\ y # "tablePage"
  BY <1>1, OtherNamesAre
<1>3. ASSUME NEW i \in 1 .. Len(tables) PROVE Leads(S, B, Round(i), B)
  <2> DEFINE t == tables[i]
  <2>1. t \in Page /\ t \in S
    BY LenProperties
  <2> HIDE DEF t
  <2>2. Leads(S, B, Use({"schema"}), B)
    BY <1>1, OtherNamesAre, LeadsUse
  <2>3. Leads(S, B, DegreeOf(t), B)
    BY <1>2, <2>1, LeadsDegreeOf
  <2>4. Leads(S, B, TablePage(t), B)
    BY <1>2, <2>1, OtherNamesAre, LeadsVisit DEF TablePage
  <2>5. Leads(S, B, Use({"schema"}) \o LoadTable(t), B)
    BY <2>2, <2>3, <2>4, LeadsThen DEF LoadTable
  <2> QED BY <2>5 DEF t
<1>4. Leads(S, B, Concat(rounds), B)
  <2>1. \A i \in 1 .. Len(tables) : Leads(S, B, rounds[i], B)
    <3>1. \A i \in 1 .. Len(tables) : rounds[i] = Round(i)
      OBVIOUS
    <3> HIDE DEF Round, rounds
    <3> QED BY <1>3, <3>1
  <2>2. rounds = [i \in 1 .. Len(tables) |-> rounds[i]]
    OBVIOUS
  <2>3. Len(tables) \in Nat
    BY LenProperties
  <2> HIDE DEF rounds
  <2> QED BY <2>1, <2>2, <2>3, LeadsConcat
<1>5. Open(tables) = (getPage("schema", SCHEMA_ID) \o Concat(rounds)) \o Use({"schema"})
  BY DEF Open
<1> HIDE DEF rounds
<1>6. Leads(S, {}, getPage("schema", SCHEMA_ID), B)
  BY <1>1, Groups, OtherNamesAre, LeadsGetPage
<1>7. Leads(S, B, Use({"schema"}), {})
  BY <1>1, OtherNamesAre, LeadsUse
<1> QED BY <1>4, <1>5, <1>6, <1>7, LeadsThen

\* createTable, in the constructor of a new Table.
LEMMA LeadsNewTable ==
  ASSUME NEW S, NEW t \in Page, NEW root \in Page, Files \subseteq S, t \in S, root \in S
  PROVE  Leads(S, {}, NewTable(t, root), {})
<1> DEFINE B1 == {<<"tablePage", t>>}
           B2 == {<<"root", root>>}
<1>1. /\ \A y, r : <<y, r>> \in B1 <=> y = "tablePage" /\ r = t
      /\ \A y, r : <<y, r>> \in B2 <=> y = "root" /\ r = root
  OBVIOUS
<1>2. NewTable(t, root) =
        (((((createNewPage("tablePage", t) \o Use({"tablePage"})) \o DegreeOf(t))
             \o createNewPage("root", root)) \o Use({"root"})) \o TablePage(t)) \o TablePage(t)
  BY DEF NewTable
<1> HIDE DEF B1, B2
<1>3. Leads(S, {}, createNewPage("tablePage", t), B1)
  BY <1>1, OtherNamesAre, LeadsCreateNewPage
<1>4. Leads(S, B1, Use({"tablePage"}), {})
  BY <1>1, OtherNamesAre, LeadsUse
<1>5. Leads(S, {}, DegreeOf(t), {})
  BY LeadsDegreeOf
<1>6. Leads(S, {}, createNewPage("root", root), B2)
  BY <1>1, OtherNamesAre, LeadsCreateNewPage
<1>7. Leads(S, B2, Use({"root"}), {})
  BY <1>1, OtherNamesAre, LeadsUse
<1>8. Leads(S, {}, TablePage(t), {})
  BY OtherNamesAre, LeadsVisit DEF TablePage
<1> QED BY <1>2, <1>3, <1>4, <1>5, <1>6, <1>7, <1>8, LeadsThen

-----------------------------------------------------------------------------
(* A cache that evicts *)

\* As many blocks as the cache has room for.
Small(S) == S \subseteq Block /\ IsFiniteSet(S) /\ Cardinality(S) <= Capacity

\* Step j of c retrieves the page that x stands for at step i, and the steps between them
\* touch few pages.
Grounds(c, j, i, x) ==
  /\ c[j].do = "retrieve" /\ c[j].as = x
  /\ \A k \in j + 1 .. i - 1 : Keeps(c[k], x, c[j].page)
  /\ \E S : Small(S) /\ \A k \in j .. i - 1 : c[k].do # "use" => c[k].page \in S

\* The steps of calls that use only references which they have retrieved, and not long ago.
Grounded(c) ==
  /\ c \in Seq(Step(Block))
  /\ \A i \in 1 .. Len(c) : c[i].do = "use" =>
       \A x \in c[i].of : \E j \in 1 .. i - 1 : Grounds(c, j, i, x)

\* Steps that touch few pages, and need no references that are there already.
LEMMA GroundedFrom ==
  ASSUME NEW S, NEW c, Small(S), Leads(S, {}, c, {})
  PROVE  Grounded(c)
<1>1. c \in Seq(Step(S)) /\ S \subseteq Block
  BY DEF Leads, Small
<1>2. c \in Seq(Step(Block))
  <2>1. Step(S) \subseteq Step(Block)
    BY <1>1 DEF Step
  <2> QED BY <1>1, <2>1, SeqMonotonic
<1>3. Len(c) \in Nat /\ \A k \in 1 .. Len(c) : c[k] \in Step(S)
  BY <1>1, LenProperties
<1>4. ASSUME NEW i \in 1 .. Len(c), c[i].do = "use", NEW x \in c[i].of
      PROVE  \E j \in 1 .. i - 1 : Grounds(c, j, i, x)
  <2>1. PICK q : Stands({}, c, i - 1, x, q)
    BY <1>4 DEF Leads
  <2>2. PICK j \in 1 .. i - 1 : /\ c[j] = [do |-> "retrieve", as |-> x, page |-> q]
                                /\ \A k \in j + 1 .. i - 1 : Keeps(c[k], x, q)
    BY <2>1 DEF Stands
  <2>3. c[j].do = "retrieve" /\ c[j].as = x /\ c[j].page = q
    BY <2>2
  <2>4. ASSUME NEW k \in j .. i - 1, c[k].do # "use" PROVE c[k].page \in S
    <3>1. k \in 1 .. Len(c)
      BY <1>3
    <3> QED BY <1>3, <2>4, <3>1, StepKinds
  <2> QED BY <2>2, <2>3, <2>4 DEF Grounds
<1> QED BY <1>2, <1>4 DEF Grounded

\* One after the other.
LEMMA GroundedThen ==
  ASSUME NEW c, NEW d, Grounded(c), Grounded(d)
  PROVE  Grounded(c \o d)
<1> DEFINE e == c \o d
           m == Len(c)
<1>1. /\ e \in Seq(Step(Block))
      /\ m \in Nat /\ Len(d) \in Nat /\ Len(e) = m + Len(d)
      /\ \A i \in 1 .. m : e[i] = c[i]
      /\ \A i \in 1 .. Len(d) : e[m + i] = d[i]
  BY ConcatPlaces DEF Grounded
<1> HIDE DEF e, m
<1>2. ASSUME NEW i \in 1 .. Len(e), e[i].do = "use", NEW x \in e[i].of
      PROVE  \E j \in 1 .. i - 1 : Grounds(e, j, i, x)
  <2>1. CASE i \in 1 .. m
    <3>1. e[i] = c[i]
      BY <2>1, <1>1
    <3>2. PICK j \in 1 .. i - 1 : Grounds(c, j, i, x)
      BY <1>2, <2>1, <3>1 DEF Grounded, m
    <3>3. \A k \in j .. i - 1 : e[k] = c[k]
      BY <1>1, <2>1
    <3>4. e[j] = c[j] /\ \A k \in j + 1 .. i - 1 : k \in j .. i - 1
      BY <1>1, <2>1
    <3> QED BY <3>2, <3>3, <3>4 DEF Grounds
  <2>2. CASE i \notin 1 .. m
    <3>1. PICK h \in 1 .. Len(d) : i = m + h
      <4>1. i - m \in 1 .. Len(d) /\ i = m + (i - m)
        BY <2>2, <1>1
      <4> QED BY <4>1
    <3>2. e[i] = d[h]
      BY <1>1, <3>1
    <3>3. PICK j \in 1 .. h - 1 : Grounds(d, j, h, x)
      BY <1>2, <3>2 DEF Grounded
    <3>4. m + j \in 1 .. i - 1 /\ e[m + j] = d[j]
      BY <1>1, <3>1
    <3>5. ASSUME NEW k \in m + j .. i - 1
          PROVE  k - m \in j .. h - 1 /\ e[k] = d[k - m]
      <4>1. k - m \in j .. h - 1 /\ k - m \in 1 .. Len(d) /\ k = m + (k - m)
        BY <1>1, <3>1
      <4> QED BY <1>1, <4>1
    <3>6. ASSUME NEW k \in m + j + 1 .. i - 1
          PROVE  Keeps(e[k], x, e[m + j].page)
      <4>1. k \in m + j .. i - 1 /\ k - m \in j + 1 .. h - 1
        BY <1>1, <3>1
      <4> QED BY <3>3, <3>4, <3>5, <4>1 DEF Grounds
    <3>7. PICK S : Small(S) /\ \A k \in j .. h - 1 : d[k].do # "use" => d[k].page \in S
      BY <3>3 DEF Grounds
    <3>8. \A k \in m + j .. i - 1 : e[k].do # "use" => e[k].page \in S
      BY <3>5, <3>7
    <3>9. Grounds(e, m + j, i, x)
      BY <3>3, <3>4, <3>6, <3>7, <3>8 DEF Grounds
    <3> QED BY <3>4, <3>9
  <2> QED BY <2>1, <2>2
<1>3. Grounded(e)
  BY <1>1, <1>2 DEF Grounded
<1> QED BY <1>3 DEF e

\* No steps.
LEMMA GroundedNowhere == Grounded(<< >>)
<1>1. << >> \in Seq(Step(Block)) /\ Len(<< >>) = 0
  OBVIOUS
<1> QED BY <1>1 DEF Grounded

\* The rounds of a loop.
LEMMA GroundedConcat ==
  ASSUME NEW n \in Nat, NEW rounds, rounds = [i \in 1 .. n |-> rounds[i]],
         \A i \in 1 .. n : Grounded(rounds[i])
  PROVE  Grounded(Concat(rounds))
<1> DEFINE T == Seq(Step(Block))
           Q == {c \in T : Grounded(c)}
<1>1. \A i \in 1 .. n : rounds[i] \in T
  BY DEF Grounded
<1>2. rounds \in Seq(T) /\ Len(rounds) = n
  <2> HIDE DEF T
  <2>1. rounds \in [1 .. n -> T]
    BY <1>1
  <2> QED BY <2>1, SeqDef, LenProperties
<1>3. << >> \in Q
  BY GroundedNowhere DEF Grounded
<1>4. ASSUME NEW c \in Q, NEW i \in 1 .. Len(rounds)
      PROVE  c \o rounds[i] \in Q
  <2>1. Grounded(c) /\ Grounded(rounds[i])
    BY <1>2, <1>4
  <2>2. Grounded(c \o rounds[i])
    BY <2>1, GroundedThen
  <2> QED BY <2>2 DEF Grounded
<1> HIDE DEF Q, T
<1>5. Concat(rounds) \in Q
  BY <1>2, <1>3, <1>4, ConcatIn
<1> QED BY <1>5 DEF Q

-----------------------------------------------------------------------------
(* The capacity *)

\* The places of a sequence of length n are n.
LEMMA Places ==
  ASSUME NEW n \in Nat
  PROVE  IsFiniteSet(1 .. n) /\ Cardinality(1 .. n) = n
<1>1. 1 \in Int /\ n \in Int
  OBVIOUS
<1>2. IsFiniteSet(1 .. n) /\ Cardinality(1 .. n) = IF 1 > n THEN 0 ELSE n - 1 + 1
  BY ONLY <1>1, FS_Interval
<1>3. (IF 1 > n THEN 0 ELSE n - 1 + 1) = n
  OBVIOUS
<1> QED BY <1>2, <1>3

\* The elements of a sequence are no more than its length.
LEMMA RangeSize ==
  ASSUME NEW s \in Seq(Page)
  PROVE  LET R == {s[i] : i \in 1 .. Len(s)}
         IN  R \subseteq Page /\ IsFiniteSet(R) /\ Cardinality(R) <= Len(s)
<1> DEFINE n == Len(s)
           R == {s[i] : i \in 1 .. n}
           f == [i \in 1 .. n |-> s[i]]
<1>1. n \in Nat /\ \A i \in 1 .. n : s[i] \in Page
  BY LenProperties
<1>2. f \in Surjection(1 .. n, R)
  BY DEF Surjection
<1>3. IsFiniteSet(1 .. n) /\ Cardinality(1 .. n) = n
  BY <1>1, Places
<1>4. R \subseteq Page
  BY <1>1
<1> HIDE DEF R, f
<1>5. IsFiniteSet(R) /\ Cardinality(R) <= Cardinality(1 .. n)
  BY <1>2, <1>3, FS_Surjection
<1> QED BY <1>3, <1>4, <1>5 DEF R

\* The file has at most MAX_FSMPAGES FSM pages.
LEMMA FilesSize == IsFiniteSet(Files) /\ Cardinality(Files) <= MAX_FSMPAGES
<1> DEFINE n == MAX_FSMPAGES
           f == [i \in 1 .. n |-> (i - 1) * Group]
           R == {f[i] : i \in 1 .. n}
<1>1. n \in Nat
  BY Groups
<1>2. Files \subseteq R
  <2> SUFFICES ASSUME NEW p \in Block PROVE FSMOf(p) \in R
    BY DEF Files
  <2> DEFINE d == p \div Group
             a == n * Group
  <2>1. p \in Nat /\ a \in Nat /\ p < a
    <3>1. a \in Nat /\ Block = 0 .. a - 1
      BY Groups DEF Block
    <3> HIDE DEF a
    <3> QED BY <3>1
  <2>2. d \in Nat /\ p % Group \in 0 .. Group - 1 /\ p = d * Group + (p % Group)
    BY <2>1, Groups
  <2>3. d < n
    <3> SUFFICES ASSUME n <= d PROVE FALSE
      BY <1>1, <2>2
    <3>1. PICK k \in Nat : d = n + k
      <4>1. d - n \in Nat /\ d = n + (d - n)
        BY <1>1, <2>2
      <4> QED BY <4>1
    <3> DEFINE b == k * Group
               r == p % Group
    <3>2. d * Group = a + b /\ b \in Nat
      <4> HIDE DEF d
      <4>1. \A x, y \in Nat : (x + y) * Group = x * Group + y * Group
        BY Groups
      <4>2. \A x \in Nat : x * Group \in Nat
        BY Groups
      <4> HIDE DEF n
      <4> QED BY <1>1, <3>1, <4>1, <4>2
    <3>3. p = (a + b) + r /\ r \in Nat
      <4>1. r \in Nat
        BY <2>2, Groups
      <4> HIDE DEF d, a, b
      <4> QED BY <2>2, <3>2, <4>1
    <3> HIDE DEF a, b, r, n
    <3> QED BY <2>1, <3>2, <3>3
  <2>4. d + 1 \in 1 .. n /\ (d + 1) - 1 = d
    BY <1>1, <2>2, <2>3
  <2>5. f[d + 1] = d * Group
    <3> HIDE DEF d
    <3> QED BY <2>4
  <2>6. FSMOf(p) = d * Group
    BY DEF FSMOf
  <2> HIDE DEF f, d, n
  <2> QED BY <2>4, <2>5, <2>6
<1>3. f \in Surjection(1 .. n, R)
  BY DEF Surjection
<1>4. IsFiniteSet(1 .. n) /\ Cardinality(1 .. n) = n
  BY <1>1, Places
<1> HIDE DEF R, f, n
<1>5. IsFiniteSet(R) /\ Cardinality(R) <= n
  BY <1>3, <1>4, FS_Surjection
<1>6. IsFiniteSet(Files) /\ Cardinality(Files) <= Cardinality(R)
  BY <1>2, <1>5, FS_Subset
<1>7. Cardinality(Files) \in Nat /\ Cardinality(R) \in Nat
  BY <1>5, <1>6, FS_CardinalityType
<1> QED BY <1>1, <1>5, <1>6, <1>7 DEF n

\* The cache has room for the FSM pages and some pages more.
LEMMA Room ==
  ASSUME NEW P \in SUBSET Page, IsFiniteSet(P), NEW k \in Nat, Cardinality(P) <= k,
         MAX_FSMPAGES + k <= Capacity
  PROVE  Small(Files \cup P)
<1> DEFINE F == Cardinality(Files)
           p == Cardinality(P)
           i == Cardinality(Files \cap P)
           u == Cardinality(Files \cup P)
<1>1. IsFiniteSet(Files \cup P) /\ u = F + p - i
  BY FilesSize, FS_Union
<1>2. IsFiniteSet(Files \cap P)
  BY FilesSize, FS_Subset
<1>3. F \in Nat /\ p \in Nat /\ i \in Nat /\ F <= MAX_FSMPAGES
  BY FilesSize, <1>2, FS_CardinalityType
<1>4. Files \cup P \subseteq Block
  BY Groups
<1> HIDE DEF F, i
<1>5. u <= Capacity
  <2>1. MAX_FSMPAGES \in Nat /\ Capacity \in Nat /\ p <= k
    BY NumbersAssumption
  <2> HIDE DEF u, p
  <2> QED BY <1>1, <1>3, <2>1
<1> QED BY <1>1, <1>4, <1>5 DEF Small

\* A page more.
LEMMA OneMore ==
  ASSUME NEW P \in SUBSET Page, IsFiniteSet(P), NEW k \in Nat, Cardinality(P) <= k, NEW p \in Page
  PROVE  /\ P \cup {p} \in SUBSET Page /\ IsFiniteSet(P \cup {p})
         /\ k + 1 \in Nat /\ Cardinality(P \cup {p}) <= k + 1
<1>1. IsFiniteSet(P \cup {p})
  BY FS_AddElement
<1>2. Cardinality(P \cup {p}) = IF p \in P THEN Cardinality(P) ELSE Cardinality(P) + 1
  BY FS_AddElement
<1>3. Cardinality(P) \in Nat
  BY FS_CardinalityType
<1>4. Cardinality(P \cup {p}) <= k + 1
  <2> DEFINE c == Cardinality(P)
             d == Cardinality(P \cup {p})
  <2>1. d = c \/ d = c + 1
    BY <1>2
  <2>2. c \in Nat /\ c <= k
    BY <1>3
  <2> HIDE DEF c, d
  <2>3. d <= k + 1
    BY <2>1, <2>2
  <2> QED BY <2>3 DEF d
<1> QED BY <1>1, <1>4

\* It has room for the FSM pages, half of the children of a node, and three pages more.
LEMMA RoomForSplit ==
  ASSUME NEW kids \in Seq(Page), Len(kids) <= Degree, NEW a \in Page, NEW b \in Page, NEW c \in Page
  PROVE  Small(Files \cup ((({kids[i] : i \in 1 .. Len(kids)} \cup {a}) \cup {b}) \cup {c}))
<1> DEFINE R == {kids[i] : i \in 1 .. Len(kids)}
<1>1. Degree \in Nat /\ MAX_FSMPAGES \in Nat /\ Capacity \in Nat
      /\ Capacity >= Degree + MAX_FSMPAGES + 3
  BY NumbersAssumption, CapacityAssumption
<1>2. R \in SUBSET Page /\ IsFiniteSet(R) /\ Cardinality(R) <= Len(kids)
  BY RangeSize
<1> HIDE DEF R
<1>3. Cardinality(R) <= Degree
  <2>1. Cardinality(R) \in Nat /\ Len(kids) \in Nat
    BY <1>2, FS_CardinalityType, LenProperties
  <2> QED BY <1>1, <1>2, <2>1
<1> DEFINE A == R \cup {a}
           B == A \cup {b}
           C == B \cup {c}
<1>4. A \in SUBSET Page /\ IsFiniteSet(A) /\ Cardinality(A) <= Degree + 1 /\ Degree + 1 \in Nat
  BY <1>1, <1>2, <1>3, OneMore
<1> HIDE DEF A
<1>5. B \in SUBSET Page /\ IsFiniteSet(B) /\ Cardinality(B) <= Degree + 1 + 1
      /\ Degree + 1 + 1 \in Nat
  BY <1>4, OneMore
<1> HIDE DEF B
<1>6. C \in SUBSET Page /\ IsFiniteSet(C) /\ Cardinality(C) <= Degree + 1 + 1 + 1
      /\ Degree + 1 + 1 + 1 \in Nat
  BY <1>5, OneMore
<1> HIDE DEF C
<1>7. MAX_FSMPAGES + (Degree + 1 + 1 + 1) <= Capacity
  BY <1>1
<1>8. Small(Files \cup C)
  BY <1>6, <1>7, Room
<1> QED BY <1>8 DEF C, B, A, R

\* It has room for the FSM pages, the SchemaPage, and the TablePages of a database.
LEMMA RoomToOpen ==
  ASSUME NEW tables \in Seq(Page), Capacity >= Len(tables) + MAX_FSMPAGES + 1
  PROVE  Small(Files \cup ({tables[i] : i \in 1 .. Len(tables)} \cup {SCHEMA_ID}))
<1> DEFINE R == {tables[i] : i \in 1 .. Len(tables)}
           A == R \cup {SCHEMA_ID}
           n == Len(tables)
<1>1. n \in Nat /\ MAX_FSMPAGES \in Nat /\ Capacity \in Nat
  BY NumbersAssumption, LenProperties
<1>2. R \in SUBSET Page /\ IsFiniteSet(R) /\ Cardinality(R) <= n
  BY RangeSize
<1> HIDE DEF R, n
<1>3. A \in SUBSET Page /\ IsFiniteSet(A) /\ Cardinality(A) <= n + 1 /\ n + 1 \in Nat
  BY <1>1, <1>2, Groups, OneMore
<1> HIDE DEF A
<1>4. MAX_FSMPAGES + (n + 1) <= Capacity
  BY <1>1 DEF n
<1>5. Small(Files \cup A)
  BY <1>3, <1>4, Room
<1> QED BY <1>5 DEF A, R

-----------------------------------------------------------------------------
(* The calls *)

\* A page that is retrieved and used.
LEMMA GroundedVisit ==
  ASSUME NEW name \in OtherNames, NEW p \in Page
  PROVE  Grounded(Visit(name, p))
<1>1. << >> \in Seq(Page) /\ Len(<< >>) <= Degree /\ Len(<< >>) = 0
  BY NumbersAssumption
<1> DEFINE S == Files \cup ((({<< >>[i] : i \in 1 .. Len(<< >>)} \cup {p}) \cup {p}) \cup {p})
<1>2. Small(S)
  BY <1>1, RoomForSplit
<1>3. Files \subseteq S /\ p \in S
  OBVIOUS
<1> HIDE DEF S
<1>4. Leads(S, {}, Visit(name, p), {})
  BY <1>3, LeadsVisit
<1> QED BY <1>2, <1>4, GroundedFrom

\* The split of a node, whose parts are different pages.
LEMMA GroundedSplits ==
  ASSUME NEW p \in Page, NEW q \in Page, NEW kids \in Seq(Page), Len(kids) <= Degree,
         NEW new \in Page, new # p, new # q
  PROVE  /\ Grounded(SplitChild(p, q, kids, new))
         /\ q # p => Grounded(SplitRoot(p, kids, q, new))
<1> DEFINE R == {kids[i] : i \in 1 .. Len(kids)}
           S == Files \cup (((R \cup {p}) \cup {q}) \cup {new})
<1>1. Small(S)
  BY RoomForSplit
<1>2. Files \subseteq S /\ p \in S /\ q \in S /\ new \in S
  OBVIOUS
<1>3. \A i \in 1 .. Len(kids) : kids[i] \in S
  OBVIOUS
<1> HIDE DEF S, R
<1>4. Leads(S, {}, SplitChild(p, q, kids, new), {})
  BY <1>2, <1>3, LeadsSplitChild
<1>5. q # p => Leads(S, {}, SplitRoot(p, kids, q, new), {})
  BY <1>2, <1>3, LeadsSplitRoot
<1> QED BY <1>1, <1>4, <1>5, GroundedFrom

\* What the assumptions say of the pages of a path.
LEMMA PathPages ==
  ASSUME NEW path \in Path
  PROVE  /\ Len(path) \in Nat \ {0}
         /\ \A i \in 1 .. Len(path) : path[i] \in Page
         /\ path[Len(path)] \in Page
<1>1. path \in Seq(Page) /\ path # << >>
  BY PagesAssumption
<1>2. Len(path) \in Nat /\ Len(path) # 0
  BY <1>1, EmptySeq, LenProperties
<1>3. \A i \in 1 .. Len(path) : path[i] \in Page
  BY <1>1, LenProperties
<1> QED BY <1>2, <1>3

\* The search of a row.
LEMMA GroundedSearch ==
  ASSUME NEW path \in Path
  PROVE  Grounded(searchRowPtr(path))
<1> DEFINE rounds == [i \in 1 .. Len(path) |-> Visit("node", path[i])]
<1>1. \A i \in 1 .. Len(path) : Grounded(rounds[i])
  BY PathPages, OtherNamesAre, GroundedVisit
<1>2. rounds = [i \in 1 .. Len(path) |-> rounds[i]] /\ Len(path) \in Nat
  BY PathPages
<1>3. searchRowPtr(path) = Concat(rounds)
  BY DEF searchRowPtr
<1> HIDE DEF rounds
<1> QED BY <1>1, <1>2, <1>3, GroundedConcat

\* The recursion of split, from the leaf to where it ends.
LEMMA GroundedSplit ==
  ASSUME NEW path \in Path, NEW fresh \in Fresh, NEW n \in 0 .. Len(path),
         NEW kids \in [1 .. Len(path) - 1 -> Halves]
  PROVE  Grounded(split(path, n, kids, fresh))
<1> DEFINE m == Len(path)
           at(j) == m + 1 - j
           half(j) == IF j = 1 THEN << >> ELSE kids[j - 1]
           rounds == [j \in 1 .. n |->
                        IF at(j) = 1 THEN SplitRoot(path[1], half(j), fresh[j], fresh[j + 1])
                        ELSE SplitChild(path[at(j)], path[at(j) - 1], half(j), fresh[j])]
           last == IF n = m THEN fresh[n] ELSE path[m - n]
<1>1. m \in Nat \ {0} /\ \A i \in 1 .. m : path[i] \in Page
  BY PathPages
<1>2. /\ fresh \in Seq(Page) /\ Distinct(fresh) /\ Len(fresh) > m
      /\ \A i \in 1 .. Len(fresh), j \in 1 .. m : fresh[i] # path[j]
  BY FreshAssumption
<1>3. Len(fresh) \in Nat /\ \A i \in 1 .. Len(fresh) : fresh[i] \in Page
  BY <1>2, LenProperties
<1>4. ASSUME NEW j \in 1 .. n PROVE half(j) \in Seq(Page) /\ Len(half(j)) <= Degree
  <2>1. CASE j = 1
    BY <2>1, NumbersAssumption
  <2>2. CASE j # 1
    <3>1. kids[j - 1] \in Halves
      BY <2>2, <1>1
    <3>2. kids[j - 1] \in Seq(Page) /\ Len(kids[j - 1]) = Degree
      BY <3>1, PagesAssumption
    <3> QED BY <2>2, <3>2, NumbersAssumption
  <2> QED BY <2>1, <2>2
<1> HIDE DEF half, m
<1>5. ASSUME NEW j \in 1 .. n PROVE Grounded(rounds[j])
  <2>1. /\ j \in 1 .. Len(fresh) /\ j + 1 \in 1 .. Len(fresh)
        /\ at(j) \in 1 .. m /\ 1 \in 1 .. m
        /\ at(j) # 1 => at(j) - 1 \in 1 .. m
    BY <1>1, <1>2, <1>3 DEF m
  <2>2. fresh[j] \in Page /\ fresh[j + 1] \in Page /\ fresh[j] # fresh[j + 1]
    BY <1>2, <1>3, <2>1 DEF Distinct
  <2>3. CASE at(j) = 1
    <3>1. rounds[j] = SplitRoot(path[1], half(j), fresh[j], fresh[j + 1])
      BY <2>3
    <3>2. path[1] \in Page /\ fresh[j] # path[1] /\ fresh[j + 1] # path[1]
      BY <1>1, <1>2, <2>1
    <3> HIDE DEF rounds
    <3>3. Grounded(SplitRoot(path[1], half(j), fresh[j], fresh[j + 1]))
      BY <1>4, <2>2, <3>2, GroundedSplits
    <3> QED BY <3>1, <3>3
  <2>4. CASE at(j) # 1
    <3>1. rounds[j] = SplitChild(path[at(j)], path[at(j) - 1], half(j), fresh[j])
      BY <2>4
    <3>2. /\ path[at(j)] \in Page /\ path[at(j) - 1] \in Page
          /\ fresh[j] # path[at(j)] /\ fresh[j] # path[at(j) - 1]
      BY <1>1, <1>2, <2>1, <2>4
    <3> HIDE DEF rounds, at
    <3>3. Grounded(SplitChild(path[at(j)], path[at(j) - 1], half(j), fresh[j]))
      BY <1>4, <2>2, <3>2, GroundedSplits
    <3> QED BY <3>1, <3>3
  <2> QED BY <2>3, <2>4
<1>6. Grounded(Concat(rounds))
  <2>1. rounds = [j \in 1 .. n |-> rounds[j]] /\ n \in Nat
    BY <1>1 DEF m
  <2> HIDE DEF rounds
  <2> QED BY <1>5, <2>1, GroundedConcat
<1>7. last \in Page
  <2>1. CASE n = m
    <3>1. n \in 1 .. Len(fresh)
      BY <2>1, <1>1, <1>2, <1>3
    <3> QED BY <2>1, <3>1, <1>3
  <2>2. CASE n # m
    <3>1. m - n \in 1 .. m
      BY <2>2, <1>1 DEF m
    <3> QED BY <2>2, <3>1, <1>1
  <2> QED BY <2>1, <2>2
<1>8. split(path, n, kids, fresh) = Concat(rounds) \o SplitNothing(last)
  BY DEF split, m, half
<1> HIDE DEF rounds, last
<1>9. Grounded(SplitNothing(last))
  BY <1>7, OtherNamesAre, GroundedVisit DEF SplitNothing
<1> QED BY <1>6, <1>8, <1>9, GroundedThen

\* insertTuple.
LEMMA GroundedInsertTuple ==
  ASSUME NEW t \in Table, NEW path \in Path, NEW fresh \in Fresh, NEW n \in 0 .. Len(path),
         NEW kids \in [1 .. Len(path) - 1 -> Halves]
  PROVE  Grounded(insertTuple(t, path, n, kids, fresh))
<1> DEFINE leaf == path[Len(path)]
           again == IF n = Len(path) THEN TablePage(t) ELSE << >>
<1>1. leaf \in Page /\ t \in Page
  BY PathPages, PagesAssumption
<1> HIDE DEF leaf
<1>2. Grounded(TablePage(t)) /\ Grounded(SplitNothing(leaf)) /\ Grounded(Visit("leaf", leaf))
  BY <1>1, OtherNamesAre, GroundedVisit DEF TablePage, SplitNothing
<1>3. insert(path, n, kids, fresh) =
        ((searchRowPtr(path) \o SplitNothing(leaf)) \o Visit("leaf", leaf))
          \o split(path, n, kids, fresh)
  BY DEF insert, leaf
<1>4. Grounded(insert(path, n, kids, fresh))
  BY <1>2, <1>3, GroundedSearch, GroundedSplit, GroundedThen
<1>5. Grounded(again)
  BY <1>2, GroundedNowhere
<1>6. insertTuple(t, path, n, kids, fresh) =
        ((TablePage(t) \o insert(path, n, kids, fresh)) \o TablePage(t)) \o again
  BY DEF insertTuple
<1> HIDE DEF again
<1> QED BY <1>2, <1>4, <1>5, <1>6, GroundedThen

\* getTuple.
LEMMA GroundedGetTuple ==
  ASSUME NEW t \in Table, NEW path \in Path
  PROVE  Grounded(getTuple(t, path))
<1> DEFINE leaf == path[Len(path)]
<1>1. leaf \in Page /\ t \in Page
  BY PathPages, PagesAssumption
<1>2. getTuple(t, path) = (TablePage(t) \o searchRowPtr(path)) \o SplitNothing(leaf)
  BY DEF getTuple
<1> HIDE DEF leaf
<1>3. Grounded(TablePage(t)) /\ Grounded(SplitNothing(leaf))
  BY <1>1, OtherNamesAre, GroundedVisit DEF TablePage, SplitNothing
<1> QED BY <1>2, <1>3, GroundedSearch, GroundedThen

\* createTable and what is left of dropTable.
LEMMA GroundedCreateTable ==
  ASSUME NEW t \in Table, NEW root \in Page
  PROVE  Grounded(createTable(t, root)) /\ Grounded(SchemaPage)
<1>1. t \in Page /\ << >> \in Seq(Page) /\ Len(<< >>) <= Degree
  BY PagesAssumption, NumbersAssumption
<1> DEFINE S == Files \cup ((({<< >>[i] : i \in 1 .. Len(<< >>)} \cup {t}) \cup {root}) \cup {root})
<1>2. Small(S)
  BY <1>1, RoomForSplit
<1>3. Files \subseteq S /\ t \in S /\ root \in S
  OBVIOUS
<1> HIDE DEF S
<1>4. Leads(S, {}, NewTable(t, root), {})
  BY <1>1, <1>3, LeadsNewTable
<1>5. Grounded(NewTable(t, root))
  BY <1>2, <1>4, GroundedFrom
<1>6. Grounded(SchemaPage)
  BY Groups, OtherNamesAre, GroundedVisit DEF SchemaPage
<1> QED BY <1>5, <1>6, GroundedThen DEF createTable

\* freePage.
LEMMA GroundedFreePage ==
  ASSUME NEW p \in Page
  PROVE  Grounded(freePage(p))
<1>1. << >> \in Seq(Page) /\ Len(<< >>) <= Degree
  BY NumbersAssumption
<1> DEFINE S == Files \cup ((({<< >>[i] : i \in 1 .. Len(<< >>)} \cup {p}) \cup {p}) \cup {p})
<1>2. Small(S)
  BY <1>1, RoomForSplit
<1>3. Files \subseteq S /\ p \in Block /\ Others({}, {})
  BY Groups DEF Others
<1> HIDE DEF S
<1>4. Leads(S, {}, isFree(p), {}) /\ Leads(S, {}, freeBit(p), {})
  BY <1>3, LeadsIsFree, LeadsFreeBit
<1>5. Leads(S, {}, freePage(p), {})
  BY <1>4, LeadsThen DEF freePage
<1> QED BY <1>2, <1>5, GroundedFrom

\* A new database and one that exists.
LEMMA GroundedOpen ==
  /\ Grounded(CreateDatabase \o Open(<< >>))
  /\ \A tables \in Schemas : Grounded(Open(tables))
<1>1. ASSUME NEW tables \in Seq(Page), Capacity >= Len(tables) + MAX_FSMPAGES + 1
      PROVE  Grounded(Open(tables))
  <2> DEFINE S == Files \cup ({tables[i] : i \in 1 .. Len(tables)} \cup {SCHEMA_ID})
  <2>1. Small(S)
    BY <1>1, RoomToOpen
  <2>2. Files \subseteq S /\ SCHEMA_ID \in S /\ \A i \in 1 .. Len(tables) : tables[i] \in S
    OBVIOUS
  <2> HIDE DEF S
  <2>3. Leads(S, {}, Open(tables), {})
    BY <2>2, LeadsOpen
  <2> QED BY <2>1, <2>3, GroundedFrom
<1>2. << >> \in Seq(Page) /\ Len(<< >>) <= Degree /\ Capacity >= Len(<< >>) + MAX_FSMPAGES + 1
  BY NumbersAssumption, CapacityAssumption
<1>3. Grounded(Open(<< >>))
  BY <1>1, <1>2
<1>4. Grounded(CreateDatabase)
  <2> DEFINE p == SCHEMA_ID
             S == Files \cup ((({<< >>[i] : i \in 1 .. Len(<< >>)} \cup {p}) \cup {p}) \cup {p})
             B == {<<"schema", p>>}
  <2>1. p \in Page
    BY Groups
  <2>2. Small(S)
    BY <1>2, <2>1, RoomForSplit
  <2>3. Files \subseteq S /\ p \in S
    OBVIOUS
  <2>4. \A y, r : <<y, r>> \in B <=> y = "schema" /\ r = p
    OBVIOUS
  <2> HIDE DEF S, B
  <2>5. Leads(S, {}, createNewPage("schema", p), B)
    BY <2>1, <2>3, <2>4, OtherNamesAre, LeadsCreateNewPage
  <2>6. Leads(S, B, Use({"schema"}), {})
    BY <2>4, OtherNamesAre, LeadsUse
  <2>7. Leads(S, {}, CreateDatabase, {})
    BY <2>5, <2>6, LeadsThen DEF CreateDatabase
  <2> QED BY <2>2, <2>7, GroundedFrom
<1>5. \A tables \in Schemas : Grounded(Open(tables))
  BY <1>1, PagesAssumption, CapacityAssumption
<1> QED BY <1>3, <1>4, <1>5, GroundedThen

-----------------------------------------------------------------------------
(* The invariant *)

\* The pages of the list l from its front to page q are in S.
Front(l, q, S) ==
  \A n \in 1 .. Len(l) : l[n] = q => \A m \in 1 .. n : l[m] \in S

\* The page that x stands for is not retrieved anew and not replaced before step i of the
\* call, and the pages that are in front of it then will have room.
Lasts(x, i) ==
  /\ x \in DOMAIN refs /\ refs[x] # None
  /\ \A k \in 1 .. i - 1 : Keeps(calls[k], x, refs[x])
  /\ \E S : /\ Small(S) /\ Front(m_list, refs[x], S)
            /\ \A k \in 1 .. i - 1 : calls[k].do # "use" => calls[k].page \in S

\* The inductive invariant: TypeOK, and each use that is to come finds its references,
\* those that will be retrieved before it and those that have been.
Inv ==
  /\ m_list \in Seq(Block)
  /\ TypeOK
  /\ calls \in Seq(Step(Block))
  /\ \A i \in 1 .. Len(calls) : calls[i].do = "use" =>
       \A x \in calls[i].of :
         Lasts(x, i) \/ \E j \in 1 .. i - 1 : Grounds(calls, j, i, x)

\* The steps of a call that begins.
LEMMA InvOfCall ==
  ASSUME NEW c, Grounded(c), m_list' \in Seq(Block), TypeOK', calls' = c
  PROVE  Inv'
<1>1. calls' \in Seq(Step(Block))
  BY DEF Grounded
<1>2. \A i \in 1 .. Len(calls') : calls'[i].do = "use" =>
        \A x \in calls'[i].of : \E j \in 1 .. i - 1 : Grounds(calls', j, i, x)
  BY DEF Grounded
<1> QED BY <1>1, <1>2 DEF Inv

\* The first steps of a process.
LEMMA InvInit == Init => Inv
<1> SUFFICES ASSUME Init PROVE Inv
  OBVIOUS
<1>1. m_list = << >> /\ refs = NoRefs
  BY DEF Init
<1>2. Grounded(calls)
  BY GroundedOpen DEF Init
<1>3. TypeOK
  <2>1. Len(m_list) = 0 /\ DOMAIN refs = {} /\ Capacity \in Nat
    BY <1>1, NumbersAssumption DEF NoRefs
  <2> QED BY <2>1 DEF TypeOK, Distinct
<1>4. m_list \in Seq(Block)
  BY <1>1
<1> QED BY <1>2, <1>3, <1>4 DEF Inv, Grounded

\* A list without repetitions whose pages are in S is no longer than S has pages.
LEMMA DistinctSize ==
  ASSUME NEW l \in Seq(Block), Distinct(l), NEW S, IsFiniteSet(S),
         \A i \in 1 .. Len(l) : l[i] \in S
  PROVE  Len(l) <= Cardinality(S)
<1> DEFINE n == Len(l)
           f == [i \in 1 .. n |-> l[i]]
<1>1. n \in Nat
  BY LenProperties
<1>2. f \in Injection(1 .. n, S)
  <2>1. f \in [1 .. n -> S]
    OBVIOUS
  <2>2. \A i, j \in 1 .. n : f[i] = f[j] => i = j
    BY DEF Distinct
  <2> HIDE DEF f, n
  <2> QED BY <2>1, <2>2 DEF Injection, IsInjective
<1>3. Cardinality(1 .. n) <= Cardinality(S)
  <2> HIDE DEF f, n
  <2> QED BY <1>2, FS_Injection
<1>4. Cardinality(1 .. n) = n
  BY <1>1, Places
<1> QED BY <1>3, <1>4

\* updateLRU, after which r are the references: the list is sound, and a reference is
\* kept if the pages in front of its page and p are few.
LEMMA UpdateLRUKeeps ==
  ASSUME m_list \in Seq(Block), TypeOK, NEW p \in Block, NEW r, UpdateLRU(p, r),
         \A x \in DOMAIN r : \/ r[x] = None \/ r[x] = p
                             \/ \E i \in 1 .. Len(m_list) : m_list[i] = r[x]
  PROVE  /\ m_list' \in Seq(Block) /\ TypeOK' /\ DOMAIN refs' = DOMAIN r
         /\ \A x, S : /\ x \in DOMAIN r /\ r[x] # None
                      /\ Small(S) /\ p \in S
                      /\ r[x] = p \/ Front(m_list, r[x], S)
                      => refs'[x] = r[x] /\ Front(m_list', r[x], S)
<1> DEFINE l == ToFront(m_list, p)
           C == Capacity
           back == l[Len(l)]
<1>1. /\ C \in Nat \ {0}
      /\ Len(m_list) \in Nat /\ Len(m_list) <= C
      /\ \A i, j \in 1 .. Len(m_list) : m_list[i] = m_list[j] => i = j
  BY NumbersAssumption, CapacityAssumption, LenProperties DEF TypeOK, Distinct
<1>2. /\ l \in Seq(Block)
      /\ Len(l) >= 1 /\ Len(l) <= Len(m_list) + 1
      /\ l[1] = p
      /\ \A i, j \in 1 .. Len(l) : l[i] = l[j] => i = j
      /\ \A i \in 1 .. Len(m_list) : \E j \in 1 .. Len(l) : l[j] = m_list[i]
      /\ \A k \in 1 .. Len(l), j \in 1 .. Len(m_list) : l[k] = m_list[j] =>
           \A i \in 1 .. k : l[i] = p \/ \E m \in 1 .. j : l[i] = m_list[m]
  <2> HIDE DEF l
  <2>1. l = ToFront(m_list, p)
    BY DEF l
  <2>2. m_list \in Seq(Block) /\ p \in Block
    OBVIOUS
  <2>3. \A i, j \in 1 .. Len(m_list) : m_list[i] = m_list[j] => i = j
    BY <1>1
  <2>4. /\ l \in Seq(Block)
        /\ Len(l) >= 1 /\ Len(l) <= Len(m_list) + 1
        /\ l[1] = p
    BY ONLY <2>1, <2>2, <2>3, ToFrontProperties
  <2>5. \A i, j \in 1 .. Len(l) : l[i] = l[j] => i = j
    BY ONLY <2>1, <2>2, <2>3, ToFrontProperties, SMTT(30)
  <2>6. ASSUME NEW i \in 1 .. Len(m_list)
        PROVE  \E j \in 1 .. Len(l) : l[j] = m_list[i]
    BY ONLY <2>1, <2>2, <2>6, ToFrontKeeps
  <2>7. ASSUME NEW k \in 1 .. Len(l), NEW j \in 1 .. Len(m_list), l[k] = m_list[j],
               NEW i \in 1 .. k
        PROVE  l[i] = p \/ \E m \in 1 .. j : l[i] = m_list[m]
    BY ONLY <2>1, <2>2, <2>3, <2>7, ToFrontOrder
  <2> QED BY <2>4, <2>5, <2>6, <2>7
<1>3. /\ Len(l) > C => m_list' = SubSeq(l, 1, C) /\ refs' = Without(r, back)
      /\ ~(Len(l) > C) => m_list' = l /\ refs' = r
  BY DEF UpdateLRU
<1> HIDE DEF l, C
<1>4. Len(l) \in Nat \ {0} /\ \A i \in 1 .. Len(l) : l[i] \in Block
  BY <1>2, LenProperties
<1>5. \A x \in DOMAIN r : r[x] = None \/ \E i \in 1 .. Len(l) : l[i] = r[x]
  <2> TAKE x \in DOMAIN r
  <2>1. 1 \in 1 .. Len(l)
    BY <1>4
  <2>2. ASSUME NEW i \in 1 .. Len(m_list), m_list[i] = r[x]
        PROVE  \E j \in 1 .. Len(l) : l[j] = r[x]
    BY <1>2, <2>2
  <2> QED BY <1>2, <2>1, <2>2
<1>6. DOMAIN refs' = DOMAIN r
  BY <1>3 DEF Without
<1>7. Len(l) > C =>
        /\ Len(l) = C + 1
        /\ Len(m_list') = C /\ m_list' \in Seq(Block)
        /\ \A i \in 1 .. C : m_list'[i] = l[i]
        /\ \A x \in DOMAIN r : refs'[x] = IF r[x] = back THEN None ELSE r[x]
  <2> SUFFICES ASSUME Len(l) > C
               PROVE  /\ Len(l) = C + 1
                      /\ Len(m_list') = C /\ m_list' \in Seq(Block)
                      /\ \A i \in 1 .. C : m_list'[i] = l[i]
                      /\ \A x \in DOMAIN r : refs'[x] = IF r[x] = back THEN None ELSE r[x]
    OBVIOUS
  <2>1. Len(l) = C + 1
    BY <1>1, <1>2, <1>4
  <2>2. m_list' = [i \in 1 .. C |-> l[i]]
    BY <1>1, <1>2, <1>3, <2>1
  <2>3. m_list' \in Seq(Block) /\ Len(m_list') = C
    <3>1. m_list' \in [1 .. C -> Block]
      BY <1>1, <1>4, <2>1, <2>2
    <3> QED BY <1>1, <3>1, SeqDef, LenProperties
  <2>4. \A x \in DOMAIN r : refs'[x] = IF r[x] = back THEN None ELSE r[x]
    BY <1>3 DEF Without
  <2> HIDE DEF back
  <2> QED BY <2>1, <2>2, <2>3, <2>4
<1>8. /\ m_list' \in Seq(Block) /\ Len(m_list') \in Nat
      /\ Len(m_list') <= C /\ Len(m_list') <= Len(l)
      /\ \A i \in 1 .. Len(m_list') : m_list'[i] = l[i]
  BY <1>1, <1>2, <1>3, <1>4, <1>7
<1>9. TypeOK'
  <2>1. Distinct(m_list') /\ Len(m_list') <= Capacity
    <3>1. \A i \in 1 .. Len(m_list') : i \in 1 .. Len(l)
      BY <1>4, <1>8
    <3>2. ASSUME NEW i \in 1 .. Len(m_list'), NEW j \in 1 .. Len(m_list'),
                 m_list'[i] = m_list'[j]
          PROVE  i = j
      BY <1>2, <1>8, <3>1, <3>2
    <3> QED BY <1>8, <3>2 DEF Distinct, C
  <2>2. ASSUME NEW x \in DOMAIN refs'
        PROVE  refs'[x] = None \/ \E i \in 1 .. Len(m_list') : m_list'[i] = refs'[x]
    <3>1. CASE Len(l) > C
      <4>1. refs'[x] = IF r[x] = back THEN None ELSE r[x]
        BY <1>6, <1>7, <2>2, <3>1
      <4>2. CASE r[x] # back /\ r[x] # None
        <5>1. PICK i \in 1 .. Len(l) : l[i] = r[x]
          BY <1>5, <1>6, <2>2, <4>2
        <5>2. i # Len(l)
          BY <4>2, <5>1
        <5>3. i \in 1 .. C
          BY <1>4, <1>7, <3>1, <5>1, <5>2
        <5> HIDE DEF back
        <5> QED BY <1>7, <3>1, <4>1, <4>2, <5>1, <5>3
      <4> QED BY <4>1, <4>2
    <3>2. CASE ~(Len(l) > C)
      BY <1>3, <1>5, <2>2, <3>2
    <3> QED BY <3>1, <3>2
  <2> QED BY <2>1, <2>2 DEF TypeOK
<1>10. ASSUME NEW x \in DOMAIN r, NEW S, r[x] # None, Small(S), p \in S,
              r[x] = p \/ Front(m_list, r[x], S)
       PROVE  refs'[x] = r[x] /\ Front(m_list', r[x], S)
  <2>1. Front(l, r[x], S)
    <3> SUFFICES ASSUME NEW n \in 1 .. Len(l), l[n] = r[x], NEW m \in 1 .. n
                 PROVE  l[m] \in S
      BY DEF Front
    <3>1. CASE r[x] = p
      <4>1. n = 1
        BY <1>2, <1>4, <3>1
      <4>2. m = 1
        BY <4>1
      <4> QED BY <1>2, <1>10, <4>2
    <3>2. CASE r[x] # p
      <4>1. PICK j \in 1 .. Len(m_list) : m_list[j] = r[x]
        BY <1>10, <3>2
      <4>2. l[m] = p \/ \E i \in 1 .. j : l[m] = m_list[i]
        <5>1. l[n] = m_list[j]
          BY <4>1
        <5> QED BY ONLY <1>2, <5>1
      <4>3. \A i \in 1 .. j : m_list[i] \in S
        BY <1>10, <3>2, <4>1 DEF Front
      <4> QED BY <1>10, <4>2, <4>3
    <3> QED BY <3>1, <3>2
  <2>2. Front(m_list', r[x], S)
    <3> SUFFICES ASSUME NEW n \in 1 .. Len(m_list'), m_list'[n] = r[x], NEW m \in 1 .. n
                 PROVE  m_list'[m] \in S
      BY DEF Front
    <3>1. n \in 1 .. Len(l) /\ m \in 1 .. Len(m_list')
      BY <1>4, <1>8
    <3>2. l[n] = r[x] /\ m_list'[m] = l[m]
      BY <1>8, <3>1
    <3> QED BY <2>1, <3>1, <3>2 DEF Front
  <2>3. ASSUME Len(l) > C PROVE r[x] # back
    <3> SUFFICES ASSUME r[x] = back PROVE FALSE
      OBVIOUS
    <3>1. Len(l) \in 1 .. Len(l)
      BY <1>4
    <3>2. \A m \in 1 .. Len(l) : l[m] \in S
      BY <2>1, <3>1 DEF Front
    <3>3. Distinct(l)
      BY <1>2 DEF Distinct
    <3>4. Len(l) <= Cardinality(S)
      BY <1>2, <1>10, <3>2, <3>3, DistinctSize DEF Small
    <3>5. Cardinality(S) <= C /\ Cardinality(S) \in Nat
      BY <1>10, FS_CardinalityType DEF Small, C
    <3> HIDE DEF back
    <3> QED BY <1>1, <1>4, <2>3, <3>4, <3>5
  <2>4. refs'[x] = r[x]
    <3> HIDE DEF back
    <3> QED BY <1>3, <1>7, <2>3
  <2> QED BY <2>2, <2>4
<1> QED BY <1>6, <1>8, <1>9, <1>10

-----------------------------------------------------------------------------
(* The steps *)

\* The invariant goes from a step of a call to the next, when the reference that the step
\* retrieves, and those that it keeps, have the pages in front of them that they need.
LEMMA NextStep ==
  ASSUME Inv, calls # << >>, calls' = Tail(calls), m_list' \in Seq(Block), TypeOK',
         \A x, S :
           /\ calls[1].do = "retrieve" /\ calls[1].as = x
           /\ Small(S) /\ calls[1].page \in S
           => /\ x \in DOMAIN refs' /\ refs'[x] = calls[1].page
              /\ Front(m_list', calls[1].page, S),
         \A x, S :
           /\ x \in DOMAIN refs /\ refs[x] # None /\ Keeps(calls[1], x, refs[x])
           /\ Small(S) /\ (calls[1].do # "use" => calls[1].page \in S)
           /\ Front(m_list, refs[x], S)
           => x \in DOMAIN refs' /\ refs'[x] = refs[x] /\ Front(m_list', refs[x], S)
  PROVE  Inv'
<1> DEFINE c == calls
           d == Tail(calls)
<1>1. /\ c \in Seq(Step(Block))
      /\ \A i \in 1 .. Len(c) : c[i].do = "use" =>
           \A x \in c[i].of : Lasts(x, i) \/ \E j \in 1 .. i - 1 : Grounds(c, j, i, x)
  BY DEF Inv
<1>2. /\ d \in Seq(Step(Block))
      /\ Len(c) \in Nat \ {0} /\ Len(d) \in Nat /\ Len(d) = Len(c) - 1
      /\ \A k \in 1 .. Len(d) : d[k] = c[k + 1]
      /\ \A k \in 1 .. Len(c) : c[k] \in Step(Block)
  <2> HIDE DEF c
  <2>1. c \in Seq(Step(Block)) /\ c # << >> /\ d = Tail(c)
    BY <1>1 DEF c
  <2> HIDE DEF d
  <2> QED BY <2>1, HeadTailProperties, EmptySeq, LenProperties
<1>3. calls' = d
  OBVIOUS
<1> HIDE DEF c, d
<1>4. ASSUME NEW i \in 1 .. Len(d), d[i].do = "use", NEW x \in d[i].of
      PROVE  Lasts(x, i)' \/ \E j \in 1 .. i - 1 : Grounds(d, j, i, x)
  <2>1. /\ i + 1 \in 1 .. Len(c) /\ d[i] = c[i + 1]
        /\ \A k \in 1 .. i - 1 : d[k] = c[k + 1] /\ k + 1 \in 2 .. i
        /\ 1 \in 1 .. i
    BY <1>2
  <2>2. Lasts(x, i + 1) \/ \E j \in 1 .. i : Grounds(c, j, i + 1, x)
    <3>1. (i + 1) - 1 = i
      OBVIOUS
    <3>2. Lasts(x, i + 1) \/ \E j \in 1 .. (i + 1) - 1 : Grounds(c, j, i + 1, x)
      BY <1>1, <1>4, <2>1
    <3> QED BY <3>1, <3>2
  <2>3. CASE Lasts(x, i + 1)
    <3>1. /\ x \in DOMAIN refs /\ refs[x] # None
          /\ \A k \in 1 .. i : Keeps(c[k], x, refs[x])
      BY <2>3 DEF Lasts, c
    <3>2. PICK S : /\ Small(S) /\ Front(m_list, refs[x], S)
                   /\ \A k \in 1 .. i : c[k].do # "use" => c[k].page \in S
      BY <2>3 DEF Lasts, c
    <3>3. x \in DOMAIN refs' /\ refs'[x] = refs[x] /\ Front(m_list', refs[x], S)
      BY <2>1, <3>1, <3>2 DEF c
    <3>4. ASSUME NEW k \in 1 .. i - 1
          PROVE  Keeps(d[k], x, refs[x]) /\ (d[k].do # "use" => d[k].page \in S)
      <4>1. d[k] = c[k + 1] /\ k + 1 \in 1 .. i
        BY <2>1
      <4> QED BY <3>1, <3>2, <4>1
    <3>5. Lasts(x, i)'
      BY <1>3, <3>1, <3>2, <3>3, <3>4 DEF Lasts
    <3> QED BY <3>5
  <2>4. ASSUME NEW j \in 1 .. i, Grounds(c, j, i + 1, x)
        PROVE  Lasts(x, i)' \/ \E h \in 1 .. i - 1 : Grounds(d, h, i, x)
    <3>1. /\ c[j].do = "retrieve" /\ c[j].as = x
          /\ \A k \in j + 1 .. i : Keeps(c[k], x, c[j].page)
      BY <2>4 DEF Grounds
    <3>2. PICK S : Small(S) /\ \A k \in j .. i : c[k].do # "use" => c[k].page \in S
      BY <2>4 DEF Grounds
    <3>3. CASE j = 1
      <4>1. c[1].page \in S
        BY <2>1, <3>1, <3>2, <3>3
      <4>2. x \in DOMAIN refs' /\ refs'[x] = c[1].page /\ Front(m_list', c[1].page, S)
        BY <3>1, <3>2, <3>3, <4>1 DEF c
      <4>3. c[1].page # None
        BY <3>2, <4>1, PagesAssumption DEF Small
      <4>4. ASSUME NEW k \in 1 .. i - 1
            PROVE  Keeps(d[k], x, c[1].page) /\ (d[k].do # "use" => d[k].page \in S)
        <5>1. d[k] = c[k + 1] /\ k + 1 \in j + 1 .. i
          BY ONLY <1>2, <2>1, <3>3
        <5> QED BY <3>1, <3>2, <3>3, <5>1
      <4>5. Lasts(x, i)'
        BY <1>3, <3>2, <4>2, <4>3, <4>4 DEF Lasts
      <4> QED BY <4>5
    <3>4. CASE j # 1
      <4>1. j - 1 \in 1 .. i - 1 /\ (j - 1) + 1 = j
        BY <3>4
      <4>2. d[j - 1] = c[j]
        BY <2>1, <4>1
      <4>3. ASSUME NEW k \in (j - 1) + 1 .. i - 1 PROVE Keeps(d[k], x, c[j].page)
        <5>1. k \in 1 .. i - 1 /\ k + 1 \in j + 1 .. i
          BY <4>1, <4>3
        <5> QED BY <2>1, <3>1, <5>1
      <4>4. ASSUME NEW k \in j - 1 .. i - 1, d[k].do # "use" PROVE d[k].page \in S
        <5>1. k \in 1 .. i - 1 /\ k + 1 \in j .. i
          BY <4>1, <4>4
        <5> QED BY <2>1, <3>2, <4>4, <5>1
      <4>5. Grounds(d, j - 1, i, x)
        BY <3>1, <3>2, <4>2, <4>3, <4>4 DEF Grounds
      <4> QED BY <4>1, <4>5
    <3> QED BY <3>3, <3>4
  <2> QED BY <2>2, <2>3, <2>4
<1>5. calls' \in Seq(Step(Block))
  BY <1>2, <1>3
<1>6. ASSUME NEW i \in 1 .. Len(calls'), calls'[i].do = "use", NEW x \in calls'[i].of
      PROVE  Lasts(x, i)' \/ \E j \in 1 .. i - 1 : Grounds(calls', j, i, x)
  BY <1>3, <1>4, <1>6
<1> QED BY <1>5, <1>6 DEF Inv

\* The first step of a call.
LEMMA FirstStep ==
  ASSUME Inv, NEW do, Doing(do)
  PROVE  /\ calls # << >> /\ Head(calls) = calls[1] /\ calls[1].do = do
         /\ calls[1] \in Step(Block)
<1>1. calls # << >> /\ calls \in Seq(Step(Block)) /\ Head(calls).do = do
  BY DEF Inv, Doing
<1> QED BY <1>1, HeadTailProperties, EmptySeq, LenProperties

\* retrievePage.
LEMMA RetrieveStep ==
  ASSUME Inv, RetrievePage
  PROVE  Inv'
<1> DEFINE s == calls[1]
           r == [name \in DOMAIN refs \cup {s.as} |->
                   IF name = s.as THEN s.page ELSE refs[name]]
<1>1. calls # << >> /\ Head(calls) = s /\ s.do = "retrieve" /\ s \in Step(Block)
  BY FirstStep DEF RetrievePage
<1>2. UpdateLRU(s.page, r) /\ calls' = Tail(calls)
  BY <1>1 DEF RetrievePage
<1>3. s.page \in Block
  BY <1>1, StepKinds
<1>4. /\ DOMAIN r = DOMAIN refs \cup {s.as} /\ r[s.as] = s.page
      /\ \A x \in DOMAIN refs : x # s.as => r[x] = refs[x]
  OBVIOUS
<1> HIDE DEF r, s
<1>5. m_list \in Seq(Block) /\ TypeOK
  BY DEF Inv
<1>6. \A x \in DOMAIN r : \/ r[x] = None \/ r[x] = s.page
                          \/ \E i \in 1 .. Len(m_list) : m_list[i] = r[x]
  BY <1>4, <1>5 DEF TypeOK
<1>7. /\ m_list' \in Seq(Block) /\ TypeOK' /\ DOMAIN refs' = DOMAIN r
      /\ \A x, S : /\ x \in DOMAIN r /\ r[x] # None
                   /\ Small(S) /\ s.page \in S
                   /\ r[x] = s.page \/ Front(m_list, r[x], S)
                   => refs'[x] = r[x] /\ Front(m_list', r[x], S)
  BY <1>2, <1>3, <1>5, <1>6, UpdateLRUKeeps
<1>8. s.page # None
  BY <1>3, PagesAssumption
<1>9. ASSUME NEW x, NEW S, s.as = x, Small(S), s.page \in S
      PROVE  x \in DOMAIN refs' /\ refs'[x] = s.page /\ Front(m_list', s.page, S)
  BY <1>4, <1>7, <1>8, <1>9
<1>10. ASSUME NEW x, NEW S, x \in DOMAIN refs, refs[x] # None, Keeps(s, x, refs[x]),
              Small(S), s.page \in S, Front(m_list, refs[x], S)
       PROVE  x \in DOMAIN refs' /\ refs'[x] = refs[x] /\ Front(m_list', refs[x], S)
  <2>1. x # s.as
    BY <1>1, <1>10 DEF Keeps
  <2> QED BY <1>4, <1>7, <1>10, <2>1
<1> QED BY <1>1, <1>2, <1>7, <1>9, <1>10, NextStep DEF s

\* insertPage.
LEMMA InsertStep ==
  ASSUME Inv, InsertPage
  PROVE  Inv'
<1> DEFINE s == calls[1]
           r == Without(refs, s.page)
<1>1. calls # << >> /\ Head(calls) = s /\ s.do = "insert" /\ s \in Step(Block)
  BY FirstStep DEF InsertPage
<1>2. UpdateLRU(s.page, r) /\ calls' = Tail(calls)
  BY <1>1 DEF InsertPage
<1>3. s.page \in Block
  BY <1>1, StepKinds
<1>4. /\ DOMAIN r = DOMAIN refs
      /\ \A x \in DOMAIN refs : r[x] = IF refs[x] = s.page THEN None ELSE refs[x]
  BY DEF Without
<1> HIDE DEF r, s
<1>5. m_list \in Seq(Block) /\ TypeOK
  BY DEF Inv
<1>6. \A x \in DOMAIN r : \/ r[x] = None \/ r[x] = s.page
                          \/ \E i \in 1 .. Len(m_list) : m_list[i] = r[x]
  BY <1>4, <1>5 DEF TypeOK
<1>7. /\ m_list' \in Seq(Block) /\ TypeOK' /\ DOMAIN refs' = DOMAIN r
      /\ \A x, S : /\ x \in DOMAIN r /\ r[x] # None
                   /\ Small(S) /\ s.page \in S
                   /\ r[x] = s.page \/ Front(m_list, r[x], S)
                   => refs'[x] = r[x] /\ Front(m_list', r[x], S)
  BY <1>2, <1>3, <1>5, <1>6, UpdateLRUKeeps
<1>8. ASSUME NEW x, NEW S, x \in DOMAIN refs, refs[x] # None, Keeps(s, x, refs[x]),
             Small(S), s.page \in S, Front(m_list, refs[x], S)
      PROVE  x \in DOMAIN refs' /\ refs'[x] = refs[x] /\ Front(m_list', refs[x], S)
  <2>1. refs[x] # s.page
    BY <1>1, <1>8 DEF Keeps
  <2> QED BY <1>4, <1>7, <1>8, <2>1
<1>9. s.do # "retrieve" /\ s.do # "use"
  BY <1>1
<1> QED BY <1>1, <1>2, <1>7, <1>8, <1>9, NextStep DEF s

\* A use changes nothing.
LEMMA UseStep ==
  ASSUME Inv, UseReferences
  PROVE  Inv'
<1>1. calls # << >> /\ calls[1].do = "use"
  BY FirstStep DEF UseReferences
<1>2. calls' = Tail(calls) /\ m_list' = m_list /\ refs' = refs
  BY DEF UseReferences
<1>3. m_list' \in Seq(Block) /\ TypeOK'
  BY <1>2 DEF Inv, TypeOK
<1>4. calls[1].do # "retrieve"
  BY <1>1
<1> QED BY <1>1, <1>2, <1>3, <1>4, NextStep

\* A call begins with no references.
LEMMA BeginStep ==
  ASSUME Inv, NEW c, Grounded(c), Begin(c)
  PROVE  Inv'
<1>1. calls' = c /\ m_list' = m_list /\ refs' = NoRefs
  BY DEF Begin
<1>2. DOMAIN refs' = {}
  BY <1>1 DEF NoRefs
<1>3. m_list' \in Seq(Block) /\ TypeOK'
  BY <1>1, <1>2 DEF Inv, TypeOK
<1> QED BY <1>1, <1>3, InvOfCall

\* Every step keeps the invariant.
LEMMA InvStep ==
  ASSUME Inv, [Next]_vars
  PROVE  Inv'
<1>1. CASE RetrievePage
  BY <1>1, RetrieveStep
<1>2. CASE InsertPage
  BY <1>2, InsertStep
<1>3. CASE UseReferences
  BY <1>3, UseStep
<1>4. ASSUME NEW t \in Table, CreateTable(t) PROVE Inv'
  <2>1. PICK fresh \in Fresh : Begin(createTable(t, fresh[1]))
    BY <1>4 DEF CreateTable
  <2>2. fresh[1] \in Page
    <3>1. fresh \in Seq(Page) /\ fresh # << >>
      BY FreshAssumption
    <3> QED BY <3>1, EmptySeq, LenProperties
  <2>3. Grounded(createTable(t, fresh[1]))
    BY <2>2, GroundedCreateTable
  <2> QED BY <2>1, <2>3, BeginStep
<1>5. ASSUME NEW t \in Table, GetTuple(t) PROVE Inv'
  BY <1>5, GroundedGetTuple, BeginStep DEF GetTuple
<1>6. ASSUME NEW t \in Table, InsertTuple(t) PROVE Inv'
  BY <1>6, GroundedInsertTuple, BeginStep DEF InsertTuple
<1>7. CASE DropTable
  <2>1. Grounded(SchemaPage)
    BY Groups, OtherNamesAre, GroundedVisit DEF SchemaPage
  <2> QED BY <1>7, <2>1, BeginStep DEF DropTable
<1>8. CASE FreePage
  BY <1>8, PathPages, GroundedFreePage, BeginStep DEF FreePage
<1>9. CASE UNCHANGED vars
  BY <1>9 DEF vars, Inv, TypeOK, Lasts
<1> QED BY <1>1, <1>2, <1>3, <1>4, <1>5, <1>6, <1>7, <1>8, <1>9 DEF Next

\* Each use that is to come will find its references, in every state that is reached.
THEOREM Invariance == Spec => []Inv
BY InvInit, InvStep, PTL DEF Spec

\* The list has each page once and is no longer than its capacity, and a reference whose
\* page is still there stands for a page of the list, whatever calls are made.
THEOREM TypeCorrect == Spec => []TypeOK
<1>1. Inv => TypeOK
  BY DEF Inv
<1> QED BY <1>1, Invariance, PTL

\* No call uses a reference after its page was evicted or replaced, for every degree, every
\* number of FSM pages and tables, and every capacity that has room for a split of a root
\* and for the TablePages that the constructor of StorageEngine reads.
THEOREM ReferencesStayAlive == Spec => []NoDanglingReference
<1>1. Inv => NoDanglingReference
  <2> SUFFICES ASSUME Inv, Doing("use"), NEW x \in Head(calls).of
               PROVE  refs[x] # None
    BY DEF NoDanglingReference
  <2>1. calls # << >> /\ Head(calls) = calls[1] /\ calls[1].do = "use"
    BY FirstStep
  <2>2. calls \in Seq(Step(Block))
    BY DEF Inv
  <2>3. 1 \in 1 .. Len(calls)
    BY <2>1, <2>2, EmptySeq, LenProperties
  <2>4. ~ \E j \in 1 .. 1 - 1 : Grounds(calls, j, 1, x)
    OBVIOUS
  <2>5. Lasts(x, 1)
    BY <2>1, <2>3, <2>4 DEF Inv
  <2> QED BY <2>5 DEF Lasts
<1> QED BY <1>1, Invariance, PTL
=============================================================================
