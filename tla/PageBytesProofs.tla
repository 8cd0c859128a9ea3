--------------------------- MODULE PageBytesProofs ---------------------------
(***************************************************************************)
(* Proofs about PageBytes for every size of page, every set of tables and  *)
(* any number of cells, tuples and bits: what stands in a page fits it, a  *)
(* page keeps what its class promises, and it is read as it was written.   *)
(***************************************************************************)
EXTENDS PageBytes, LayoutProofs, SharedProofs, SequenceTheorems

IsList(s) == s \in Seq({s[i] : i \in 1 .. Len(s)})

\* The pages of each class.  types are the columns of the table.
NodeShape(types, p) ==
  /\ p.class = "node"
  /\ DOMAIN p = {"class", "degree", "parent", "leaf", "root", "cells", "children"}
  /\ types # << >>
  /\ p.degree = calculateDegree(types)
  /\ p.leaf \in BOOLEAN
  /\ IsList(p.cells)
  /\ p.cells # << >> =>
       /\ p.cells[1].key.type = types[1]
       /\ ColumnTypes(p.cells[1].value) \in Seq(Type)

TableShape(p) ==
  /\ p.class = "table"
  /\ DOMAIN p = {"class", "types", "btreePageID", "numTuples"}
  /\ Len(p.types) \in Nat
  /\ TableBytes(Len(p.types)) <= PG_SZ

SchemaShape(p) ==
  /\ p.class = "schema"
  /\ DOMAIN p = {"class", "tables"}
  /\ IsList(p.tables)
  /\ SchemaBytes(Len(p.tables)) <= PG_SZ

FSMShape(p) ==
  /\ p.class = "fsm"
  /\ DOMAIN p = {"class", "next", "free", "size", "used"}
  /\ p.size \in {BlocksInPage, 8 * (PG_SZ - 9)}

Shape(types, p) ==
  NodeShape(types, p) \/ TableShape(p) \/ SchemaShape(p) \/ FSMShape(p)

\* The inductive invariant: a page has the shape of its class, and so had the page
\* that is in the block.
Inv ==
  /\ columns \in Columns
  /\ page # Gone => Shape(columns, page)
  /\ block # {} => Shape(columns, written) /\ block = BlockOf(written)

-----------------------------------------------------------------------------
(* Lists *)

\* A sequence is the list of its elements.
LEMMA SeqIsList ==
  ASSUME NEW S, NEW s \in Seq(S)
  PROVE  IsList(s)
<1>1. s \in [1 .. Len(s) -> S] /\ Len(s) \in Nat
  BY LenProperties
<1>2. s \in [1 .. Len(s) -> {s[i] : i \in 1 .. Len(s)}]
  BY <1>1
<1> QED
  BY <1>1, <1>2, SeqDef DEF IsList

\* A function on the numbers up to n is a list of length n.
LEMMA FunctionIsList ==
  ASSUME NEW n \in Nat, NEW f, f = [i \in 1 .. n |-> f[i]]
  PROVE  f \in Seq({f[i] : i \in 1 .. n}) /\ IsList(f) /\ Len(f) = n
<1>1. f \in [1 .. n -> {f[i] : i \in 1 .. n}]
  OBVIOUS
<1>2. f \in Seq({f[i] : i \in 1 .. n})
  BY <1>1, SeqDef
<1>3. Len(f) = n
  BY <1>1, <1>2, LenProperties
<1> QED
  BY <1>2, <1>3, SeqIsList

\* The lists that remain when an element is added at the end, or a part is taken.
LEMMA AppendIsList ==
  ASSUME NEW s, IsList(s), NEW e
  PROVE  /\ IsList(Append(s, e))
         /\ Len(s) \in Nat
         /\ Len(Append(s, e)) = Len(s) + 1
         /\ Append(s, e) # << >>
         /\ Append(s, e)[1] = IF s = << >> THEN e ELSE s[1]
<1> DEFINE S == {s[i] : i \in 1 .. Len(s)} \cup {e}
<1>1. s \in Seq(S) /\ e \in S
  <2>1. s \in [1 .. Len(s) -> S] /\ Len(s) \in Nat
    BY LenProperties DEF IsList
  <2> QED
    BY <2>1, SeqDef
<1> HIDE DEF S
<1>2. /\ Append(s, e) \in Seq(S) /\ Len(s) \in Nat
      /\ Len(Append(s, e)) = Len(s) + 1
      /\ \A i \in 1 .. Len(s) : Append(s, e)[i] = s[i]
      /\ Append(s, e)[Len(s) + 1] = e
  BY <1>1, AppendProperties
<1>3. s = << >> <=> Len(s) = 0
  BY <1>1, EmptySeq
<1>4. Append(s, e) # << >>
  BY <1>2, EmptySeq
<1>5. IsList(Append(s, e))
  BY <1>2, SeqIsList
<1> QED
  BY <1>2, <1>3, <1>4, <1>5

\* The first n elements of a list.
LEMMA PartIsList ==
  ASSUME NEW s, IsList(s), NEW n \in 0 .. Len(s)
  PROVE  /\ IsList(SubSeq(s, 1, n))
         /\ SubSeq(s, 1, n) # << >> => s # << >> /\ SubSeq(s, 1, n)[1] = s[1]
<1> DEFINE S == {s[i] : i \in 1 .. Len(s)}
<1>1. /\ Len(s) \in Nat /\ n \in Nat
      /\ \A i \in 1 .. n : s[i] \in S
  BY LenProperties DEF IsList
<1>2. s \in Seq(S)
  BY DEF IsList
<1> HIDE DEF S
<1>3. /\ SubSeq(s, 1, n) \in Seq(S)
      /\ Len(SubSeq(s, 1, n)) = IF 1 <= n THEN n - 1 + 1 ELSE 0
      /\ \A i \in 1 .. n - 1 + 1 : SubSeq(s, 1, n)[i] = s[1 + i - 1]
  BY <1>1, SubSeqProperties
<1>4. SubSeq(s, 1, n) # << >> => n >= 1
  BY <1>1, <1>3, EmptySeq
<1>5. ASSUME n >= 1 PROVE s # << >> /\ SubSeq(s, 1, n)[1] = s[1]
  <2>1. Len(s) # 0
    BY <1>1, <1>5
  <2>2. s # << >>
    BY <1>2, <2>1, EmptySeq
  <2> QED
    BY <1>1, <1>3, <1>5, <2>2
<1>6. IsList(SubSeq(s, 1, n))
  BY <1>3, SeqIsList
<1> QED
  BY <1>4, <1>5, <1>6

\* What is left of a list without its i-th element.
LEMMA RemovedIsList ==
  ASSUME NEW s, IsList(s), NEW i \in 1 .. Len(s)
  PROVE  /\ IsList(SubSeq(s, 1, i - 1) \o SubSeq(s, i + 1, Len(s)))
         /\ Len(SubSeq(s, 1, i - 1) \o SubSeq(s, i + 1, Len(s))) = Len(s) - 1
         /\ Len(s) \in Nat
<1> DEFINE S == {s[j] : j \in 1 .. Len(s)}
           n == Len(s)
           a == SubSeq(s, 1, i - 1)
           b == SubSeq(s, i + 1, n)
<1>1. n \in Nat
  BY LenProperties DEF IsList
<1>2. /\ \A j \in 1 .. i - 1 : s[j] \in S
      /\ \A j \in i + 1 .. n : s[j] \in S
  BY <1>1
<1> HIDE DEF S
<1>3. a \in Seq(S) /\ Len(a) = i - 1
  <2>1. a \in Seq(S) /\ Len(a) = IF 1 <= i - 1 THEN i - 1 - 1 + 1 ELSE 0
    BY <1>1, <1>2, SubSeqProperties
  <2> QED
    BY <1>1, <2>1
<1>4. b \in Seq(S) /\ Len(b) = n - i
  <2>1. b \in Seq(S) /\ Len(b) = IF i + 1 <= n THEN n - (i + 1) + 1 ELSE 0
    BY <1>1, <1>2, SubSeqProperties
  <2> QED
    BY <1>1, <2>1
<1>5. a \o b \in Seq(S) /\ Len(a \o b) = Len(a) + Len(b)
  BY <1>3, <1>4, ConcatProperties
<1>6. IsList(a \o b)
  BY <1>5, SeqIsList
<1> HIDE DEF n, a, b
<1>7. Len(a \o b) = n - 1
  BY <1>1, <1>3, <1>4, <1>5
<1> QED
  BY <1>1, <1>6, <1>7 DEF n, a, b

-----------------------------------------------------------------------------
(* What is read of a block *)

\* A value that was written and that no other overlaps at its place is read back.
LEMMA GetWritten ==
  ASSUME NEW b, NEW at, NEW width, NEW v, Put(at, width, v) \in b,
         \A f \in b : f.at = at /\ f.width = width => f = Put(at, width, v)
  PROVE  Get(b, at, width) = v
<1> DEFINE found == {f \in b : f.at = at /\ f.width = width}
<1>1. Put(at, width, v).at = at /\ Put(at, width, v).width = width
      /\ Put(at, width, v).value = v
  BY DEF Put
<1>2. found = {Put(at, width, v)}
  BY <1>1
<1>3. found # {} /\ (CHOOSE f \in found : TRUE) = Put(at, width, v)
  BY <1>2
<1> QED
  BY <1>1, <1>3 DEF Get

\* Nothing is read of an empty block.
LEMMA GetEmpty ==
  ASSUME NEW at, NEW width
  PROVE  Get({}, at, width) = Noise
  BY DEF Get

\* The place where values of a node begin, and the sizes of the values.
LEMMA PlacesInNode ==
  ASSUME NEW key \in Type, NEW types \in Seq(Type), NEW i \in Nat \ {0}
  PROVE  /\ KeyAt(key, types, i) \in Int /\ KeyAt(key, types, i) >= 15
         /\ \A j \in 1 .. Len(types) :
              ColumnAt(key, types, i, j) \in Int /\ ColumnAt(key, types, i, j) >= 15
<1>1. db_sizeof[key] \in Nat
  BY SizesAssumption DEF db_sizeof, Type
<1>2. Len(types) \in Nat /\ RowSize(types) \in Nat
  BY RowSizeBound
<1>3. (i - 1) * (db_sizeof[key] + RowSize(types)) \in Nat
  BY <1>1, <1>2
<1>4. KeyAt(key, types, i) \in Int /\ KeyAt(key, types, i) >= 15
  BY <1>2, <1>3 DEF KeyAt
<1>5. ASSUME NEW j \in 1 .. Len(types)
      PROVE  ColumnAt(key, types, i, j) \in Int /\ ColumnAt(key, types, i, j) >= 15
  <2>1. \A k \in 1 .. j - 1 : types[k] \in Type
    BY <1>2
  <2>2. SubSeq(types, 1, j - 1) \in Seq(Type)
    BY <2>1, <1>2, SubSeqProperties
  <2>3. RowSize(SubSeq(types, 1, j - 1)) \in Nat
    BY <2>2, RowSizeBound
  <2> QED
    BY <1>1, <1>4, <2>3 DEF ColumnAt
<1> QED
  BY <1>4, <1>5

\* The fields of a node before its cells stand at their place once.
LEMMA NodeFields ==
  ASSUME NEW types, NEW p, NodeShape(types, p), types[1] \in Type
  PROVE  \A f \in NodeBlock(p) :
           \/ f \in NodeHeader(p)
           \/ p.cells # << >> /\ f = Put(13, 1, TypeId[types[1]])
           \/ /\ p.cells # << >>
              /\ f = Put(14, 1, Len(ColumnTypes(p.cells[1].value)) % U8)
           \/ f.at \in Int /\ f.at >= 15
<1>1. SUFFICES ASSUME p.cells # << >>,
                      NEW f \in NodeBlock(p)
               PROVE  \/ f \in NodeHeader(p)
                      \/ f = Put(13, 1, TypeId[types[1]])
                      \/ f = Put(14, 1, Len(ColumnTypes(p.cells[1].value)) % U8)
                      \/ f.at \in Int /\ f.at >= 15
  BY DEF NodeBlock
<1> DEFINE key == types[1]
           row == ColumnTypes(p.cells[1].value)
           cells == Len(p.cells)
<1>2. p.cells[1].key.type = key /\ key \in Type /\ row \in Seq(Type)
  BY <1>1 DEF NodeShape
<1>3. cells \in Nat /\ Len(row) \in Nat
  BY <1>2, LenProperties DEF NodeShape, IsList
<1> HIDE DEF key, row, cells
<1>4. \/ f \in NodeHeader(p)
      \/ f = Put(13, 1, TypeId[key])
      \/ f = Put(14, 1, Len(row) % U8)
      \/ \E j \in 1 .. Len(row) : f = Put(14 + j, 1, TypeId[row[j]])
      \/ \E i \in 1 .. cells : f = PutVari(KeyAt(key, row, i), p.cells[i].key)
      \/ \E x \in (1 .. cells) \X (1 .. Len(row)) :
           f = PutVari(ColumnAt(key, row, x[1], x[2]), p.cells[x[1]].value[x[2]])
      \/ \E i \in WrittenChildren(p) : f = Put(ChildAt(key, row, cells, i), 4, p.children[i])
  BY <1>1, <1>2 DEF NodeBlock, key, row, cells
<1>5. ASSUME NEW j \in 1 .. Len(row), f = Put(14 + j, 1, TypeId[row[j]])
      PROVE  f.at \in Int /\ f.at >= 15
  BY <1>3, <1>5 DEF Put
<1>6. ASSUME NEW i \in 1 .. cells, f = PutVari(KeyAt(key, row, i), p.cells[i].key)
      PROVE  f.at \in Int /\ f.at >= 15
  <2>1. f.at = KeyAt(key, row, i)
    BY <1>6 DEF PutVari, Put
  <2> QED
    BY <2>1, <1>2, <1>3, PlacesInNode
<1>7. ASSUME NEW x \in (1 .. cells) \X (1 .. Len(row)),
             f = PutVari(ColumnAt(key, row, x[1], x[2]), p.cells[x[1]].value[x[2]])
      PROVE  f.at \in Int /\ f.at >= 15
  <2>1. f.at = ColumnAt(key, row, x[1], x[2])
    BY <1>7 DEF PutVari, Put
  <2>2. x[1] \in Nat \ {0} /\ x[2] \in 1 .. Len(row)
    BY <1>3
  <2> QED
    BY <2>1, <2>2, <1>2, PlacesInNode
<1>8. ASSUME NEW i \in WrittenChildren(p), f = Put(ChildAt(key, row, cells, i), 4, p.children[i])
      PROVE  f.at \in Int /\ f.at >= 15
  <2>1. f.at = KeyAt(key, row, cells + 1) + 4 * (i - 1)
    BY <1>8 DEF Put, ChildAt
  <2>2. i \in Nat \ {0}
    BY <1>3 DEF WrittenChildren, cells
  <2>3. KeyAt(key, row, cells + 1) \in Int /\ KeyAt(key, row, cells + 1) >= 15
    <3>1. cells + 1 \in Nat \ {0}
      BY <1>3
    <3> QED
      BY <3>1, <1>2, PlacesInNode
  <2> QED
    BY <2>1, <2>2, <2>3
<1> QED
  BY <1>4, <1>5, <1>6, <1>7, <1>8 DEF key, row

\* What the constructor of a node reads before the cells.
LEMMA ReadHeader ==
  ASSUME NEW types, NEW p, NodeShape(types, p), types[1] \in Type
  PROVE  LET b == NodeBlock(p)
         IN  /\ Get(b, 0, 1) = BTREE_NODE_PAGE
             /\ Get(b, 1, 2) = p.degree
             /\ Get(b, 7, 1) = p.leaf
             /\ Get(b, 9, 4) = Len(p.cells)
             /\ p.cells # << >> =>
                  /\ Get(b, 13, 1) = TypeId[types[1]]
                  /\ Get(b, 14, 1) = Len(ColumnTypes(p.cells[1].value)) % U8
<1> DEFINE b == NodeBlock(p)
           key == TypeId[types[1]]
           n == Len(ColumnTypes(p.cells[1].value)) % U8
<1>1. \A f \in b :
        \/ f \in NodeHeader(p)
        \/ p.cells # << >> /\ f = Put(13, 1, key)
        \/ p.cells # << >> /\ f = Put(14, 1, n)
        \/ f.at \in Int /\ f.at >= 15
  BY NodeFields
<1>2. NodeHeader(p) \subseteq b
  BY DEF NodeBlock
<1>3. p.cells # << >> => Put(13, 1, key) \in b /\ Put(14, 1, n) \in b
  <2>1. ASSUME p.cells # << >> PROVE p.cells[1].key.type = types[1]
    BY <2>1 DEF NodeShape
  <2> QED
    BY <2>1 DEF NodeBlock
<1> HIDE DEF b, key, n
<1>4. Get(b, 0, 1) = BTREE_NODE_PAGE
  <2>1. Put(0, 1, BTREE_NODE_PAGE) \in b
    BY <1>2 DEF NodeHeader
  <2>2. \A f \in b : f.at = 0 /\ f.width = 1 => f = Put(0, 1, BTREE_NODE_PAGE)
    BY <1>1 DEF NodeHeader, Put
  <2> QED
    BY <2>1, <2>2, GetWritten
<1>5. Get(b, 1, 2) = p.degree
  <2>1. Put(1, 2, p.degree) \in b
    BY <1>2 DEF NodeHeader
  <2>2. \A f \in b : f.at = 1 /\ f.width = 2 => f = Put(1, 2, p.degree)
    BY <1>1 DEF NodeHeader, Put
  <2> QED
    BY <2>1, <2>2, GetWritten
<1>6. Get(b, 7, 1) = p.leaf
  <2>1. Put(7, 1, p.leaf) \in b
    BY <1>2 DEF NodeHeader
  <2>2. \A f \in b : f.at = 7 /\ f.width = 1 => f = Put(7, 1, p.leaf)
    BY <1>1 DEF NodeHeader, Put
  <2> QED
    BY <2>1, <2>2, GetWritten
<1>7. Get(b, 9, 4) = Len(p.cells)
  <2>1. Put(9, 4, Len(p.cells)) \in b
    BY <1>2 DEF NodeHeader
  <2>2. \A f \in b : f.at = 9 /\ f.width = 4 => f = Put(9, 4, Len(p.cells))
    BY <1>1 DEF NodeHeader, Put
  <2> QED
    BY <2>1, <2>2, GetWritten
<1>8. ASSUME p.cells # << >> PROVE Get(b, 13, 1) = key /\ Get(b, 14, 1) = n
  <2>1. \A f \in b : f.at = 13 /\ f.width = 1 => f = Put(13, 1, key)
    BY <1>1 DEF NodeHeader, Put
  <2>2. \A f \in b : f.at = 14 /\ f.width = 1 => f = Put(14, 1, n)
    BY <1>1 DEF NodeHeader, Put
  <2> QED
    BY <2>1, <2>2, <1>3, <1>8, GetWritten
<1> QED
  BY <1>4, <1>5, <1>6, <1>7, <1>8 DEF b, key, n

\* The type ids are different.
LEMMA TypeIds ==
  /\ \A t \in Type : VariantOf(TypeId[t]) = t
  /\ \A id : IsTypeId(id) => VariantOf(id) \in Type
<1>1. \A t, u \in Type : TypeId[t] = TypeId[u] => t = u
  BY DEF Type, TypeId
<1> QED
  BY <1>1 DEF VariantOf, IsTypeId

\* A node that is read has the shape of the node that was written.
LEMMA ReadNode ==
  ASSUME NEW types, NEW p, NodeShape(types, p), types[1] \in Type,
         NodeReadable(NodeBlock(p))
  PROVE  NodeShape(types, NodeFrom(NodeBlock(p)))
<1> DEFINE b == NodeBlock(p)
           q == NodeFrom(b)
           cells == Len(p.cells)
           n == Get(b, 14, 1)
           key == VariantOf(Get(b, 13, 1))
           row == [j \in 1 .. n |-> VariantOf(Get(b, 14 + j, 1))]
           cell(i) == [key |-> GetVari(b, KeyAt(key, row, i), key),
                       value |-> [j \in 1 .. Len(row) |->
                                    GetVari(b, ColumnAt(key, row, i, j), row[j])]]
<1>1. /\ Get(b, 1, 2) = p.degree /\ Get(b, 7, 1) = p.leaf /\ Get(b, 9, 4) = cells
      /\ p.cells # << >> => /\ Get(b, 13, 1) = TypeId[types[1]]
                            /\ n = Len(ColumnTypes(p.cells[1].value)) % U8
  BY ReadHeader
<1>2. cells \in Nat /\ (cells # 0 <=> p.cells # << >>)
  BY LenProperties, EmptySeq DEF NodeShape, IsList
<1>3. /\ q.class = "node" /\ q.degree = p.degree /\ q.leaf = p.leaf
      /\ DOMAIN q = {"class", "degree", "parent", "leaf", "root", "cells", "children"}
      /\ q.cells = [i \in 1 .. cells |-> cell(i)]
  BY <1>1 DEF NodeFrom
<1>4. IsList(q.cells) /\ Len(q.cells) = cells
  BY <1>2, <1>3, FunctionIsList
<1>5. ASSUME q.cells # << >>
      PROVE  q.cells[1].key.type = types[1] /\ ColumnTypes(q.cells[1].value) \in Seq(Type)
  <2>1. p.cells # << >> /\ cells # 0 /\ q.cells[1] = cell(1)
    <3>1. cells # 0
      BY <1>4, <1>5, EmptySeq DEF IsList
    <3>2. 1 \in 1 .. cells
      BY <1>2, <3>1
    <3> QED
      BY <1>2, <1>3, <3>1, <3>2
  <2>2. key = types[1]
    BY <1>1, <2>1, TypeIds
  <2>3. n \in Nat
    <3>1. Len(ColumnTypes(p.cells[1].value)) \in Nat
      BY <2>1, LenProperties DEF NodeShape
    <3> QED
      BY <3>1, <2>1, <1>1 DEF U8
  <2>4. \A j \in 1 .. n : IsTypeId(Get(b, 14 + j, 1))
    BY <1>1, <2>1 DEF NodeReadable
  <2>5. \A j \in 1 .. n : VariantOf(Get(b, 14 + j, 1)) \in Type
    BY <2>4, TypeIds
  <2>6. Len(row) = n /\ \A j \in 1 .. n : row[j] \in Type
    BY <2>3, <2>5, FunctionIsList
  <2> HIDE DEF n, row, key, b
  <2>7. q.cells[1].key.type = key
    BY <2>1 DEF GetVari
  <2>8. ColumnTypes(q.cells[1].value) = [j \in 1 .. n |-> row[j]]
    <3> DEFINE v == [j \in 1 .. n |-> GetVari(b, ColumnAt(key, row, 1, j), row[j])]
    <3>1. q.cells[1].value = v
      BY <2>1, <2>6
    <3>2. Len(v) = n
      BY <2>3, FunctionIsList
    <3>3. \A j \in 1 .. n : v[j].type = row[j]
      BY DEF GetVari
    <3> HIDE DEF v
    <3> QED
      BY <3>1, <3>2, <3>3 DEF ColumnTypes
  <2>9. [j \in 1 .. n |-> row[j]] \in Seq(Type)
    <3>1. [j \in 1 .. n |-> row[j]] \in [1 .. n -> Type]
      BY <2>6
    <3> QED
      BY <3>1, <2>3, SeqDef
  <2> QED
    BY <2>2, <2>7, <2>8, <2>9
<1> HIDE DEF q
<1>6. NodeShape(types, q)
  BY <1>3, <1>4, <1>5 DEF NodeShape
<1> QED
  BY <1>6 DEF q

\* A TablePage that is read fits its block, as the constructor asserts.
LEMMA ReadTable ==
  ASSUME NEW p, TableShape(p)
  PROVE  LET b == TableBlock(p)
         IN  /\ Get(b, 0, 1) = TABLE_PAGE
             /\ TableBytes(Get(b, 1, 2)) <= PG_SZ => TableShape(TableFrom(b))
<1> DEFINE b == TableBlock(p)
           n == Len(p.types) % U16
<1>1. Len(p.types) \in Nat /\ n \in Nat
  BY DEF TableShape, U16
<1>2. \A f \in b : \/ f = Put(0, 1, TABLE_PAGE) \/ f = Put(1, 2, n)
                   \/ f.at \in Int /\ f.at >= 2
  BY <1>1 DEF TableBlock, Put
<1>3. Put(0, 1, TABLE_PAGE) \in b /\ Put(1, 2, n) \in b
  BY DEF TableBlock
<1> HIDE DEF b, n
<1>4. Get(b, 0, 1) = TABLE_PAGE
  <2>1. \A f \in b : f.at = 0 /\ f.width = 1 => f = Put(0, 1, TABLE_PAGE)
    BY <1>2 DEF Put
  <2> QED
    BY <2>1, <1>3, GetWritten
<1>5. Get(b, 1, 2) = n
  <2>1. \A f \in b : f.at = 1 /\ f.width = 2 => f = Put(1, 2, n)
    BY <1>2 DEF Put
  <2> QED
    BY <2>1, <1>3, GetWritten
<1>6. ASSUME TableBytes(n) <= PG_SZ
      PROVE  TableShape(TableFrom(b))
  <2> DEFINE types == [j \in 1 .. n |-> VariantOf(Get(b, 2 + j, 1))]
  <2>1. /\ TableFrom(b).class = "table" /\ TableFrom(b).types = types
        /\ DOMAIN TableFrom(b) = {"class", "types", "btreePageID", "numTuples"}
    BY <1>5 DEF TableFrom
  <2>2. Len(types) = n
    BY <1>1, FunctionIsList
  <2> QED
    BY <2>1, <2>2, <1>1, <1>6 DEF TableShape
<1> QED
  BY <1>4, <1>5, <1>6 DEF b

\* More entries take more bytes.
LEMMA SchemaBytesGrow ==
  ASSUME NEW m \in Nat, NEW n \in Nat, m <= n
  PROVE  SchemaBytes(m) \in Nat /\ SchemaBytes(m) <= SchemaBytes(n)
<1>1. EntrySize \in Nat
  BY SizesAssumption DEF EntrySize
<1>2. \A a, c, e \in Nat : a <= c => a * e \in Nat /\ a * e <= c * e
  OBVIOUS
<1>3. m * EntrySize \in Nat /\ n * EntrySize \in Nat /\ m * EntrySize <= n * EntrySize
  BY <1>1, <1>2
<1> QED
  BY <1>3 DEF SchemaBytes

\* A SchemaPage that is read has at most the entries that were written.
LEMMA ReadSchema ==
  ASSUME NEW p, SchemaShape(p)
  PROVE  LET b == SchemaBlock(p)
         IN  /\ Get(b, 0, 1) = SCHEMA_PAGE
             /\ SchemaBytes(Get(b, 1, 1)) < PG_SZ => SchemaShape(SchemaFrom(b))
<1> DEFINE b == SchemaBlock(p)
           n == Len(p.tables) % U8
<1>1. Len(p.tables) \in Nat /\ n \in Nat
  BY LenProperties DEF SchemaShape, IsList, U8
<1>2. \A f \in b : \/ f = Put(0, 1, SCHEMA_PAGE) \/ f = Put(1, 1, n)
                   \/ f.at \in Int /\ f.at >= 2
  <2>1. EntrySize \in Nat /\ MAX_STR_SZ \in Nat
    BY SizesAssumption DEF EntrySize
  <2>2. \A i \in 1 .. Len(p.tables) : (i - 1) * EntrySize \in Nat
    BY <2>1, <1>1
  <2>3. \A i \in 1 .. Len(p.tables) :
          /\ Put(2 + (i - 1) * EntrySize, MAX_STR_SZ, p.tables[i].name).at
               = 2 + (i - 1) * EntrySize
          /\ Put(2 + (i - 1) * EntrySize + MAX_STR_SZ, 4, p.tables[i].pageID).at
               = 2 + (i - 1) * EntrySize + MAX_STR_SZ
    BY DEF Put
  <2>4. ASSUME NEW f \in b, f # Put(0, 1, SCHEMA_PAGE), f # Put(1, 1, n)
        PROVE  f.at \in Int /\ f.at >= 2
    <3>1. PICK i \in 1 .. Len(p.tables) :
            \/ f = Put(2 + (i - 1) * EntrySize, MAX_STR_SZ, p.tables[i].name)
            \/ f = Put(2 + (i - 1) * EntrySize + MAX_STR_SZ, 4, p.tables[i].pageID)
      BY <2>4 DEF SchemaBlock
    <3>2. \/ f.at = 2 + (i - 1) * EntrySize
          \/ f.at = 2 + (i - 1) * EntrySize + MAX_STR_SZ
      BY <2>3, <3>1
    <3>3. (i - 1) * EntrySize \in Nat
      BY <2>2
    <3> QED
      BY <2>1, <3>2, <3>3
  <2> QED
    BY <2>4
<1>3. Put(0, 1, SCHEMA_PAGE) \in b /\ Put(1, 1, n) \in b
  BY DEF SchemaBlock
<1> HIDE DEF b, n
<1>4. Get(b, 0, 1) = SCHEMA_PAGE
  <2>1. \A f \in b : f.at = 0 /\ f.width = 1 => f = Put(0, 1, SCHEMA_PAGE)
    BY <1>2 DEF Put
  <2> QED
    BY <2>1, <1>3, GetWritten
<1>5. Get(b, 1, 1) = n
  <2>1. \A f \in b : f.at = 1 /\ f.width = 1 => f = Put(1, 1, n)
    BY <1>2 DEF Put
  <2> QED
    BY <2>1, <1>3, GetWritten
<1>6. ASSUME SchemaBytes(n) < PG_SZ
      PROVE  SchemaShape(SchemaFrom(b))
  <2> DEFINE entry == [i \in 1 .. Get(b, 1, 1) |->
                         [name |-> CStr(Get(b, 2 + (i - 1) * EntrySize, MAX_STR_SZ)),
                          pageID |-> Get(b, 2 + (i - 1) * EntrySize + MAX_STR_SZ, 4)]]
             kept == KeptEntries(entry)
             place(i) == Cardinality({j \in kept : j <= i})
             list == [k \in 1 .. Cardinality(kept) |-> entry[CHOOSE i \in kept : place(i) = k]]
             c == Cardinality(kept)
  <2>1. c \in Nat /\ c <= n
    <3>1. kept \in SUBSET (1 .. n)
      BY <1>5 DEF KeptEntries
    <3>2. IsFiniteSet(1 .. n) /\ Cardinality(1 .. n) = n
      BY <1>1, FS_Interval, IntervalCount
    <3> HIDE DEF kept
    <3>3. IsFiniteSet(kept) /\ c <= n
      BY <3>1, <3>2, FS_Subset
    <3> QED
      BY <3>3, FS_CardinalityType
  <2>2. SchemaFrom(b) = [class |-> "schema", tables |-> list]
    BY DEF SchemaFrom
  <2>3. IsList(list) /\ Len(list) = c
    <3>1. list = [k \in 1 .. c |-> list[k]]
      OBVIOUS
    <3> HIDE DEF list, c
    <3> QED
      BY <2>1, <3>1, FunctionIsList
  <2> HIDE DEF entry, kept, list, c
  <2>4. SchemaBytes(c) <= PG_SZ
    <3>1. SchemaBytes(c) \in Nat /\ SchemaBytes(n) \in Nat /\ SchemaBytes(c) <= SchemaBytes(n)
      BY <1>1, <2>1, SchemaBytesGrow
    <3> QED
      BY <3>1, <1>6, SizesAssumption
  <2> QED
    BY <2>2, <2>3, <2>4 DEF SchemaShape
<1> QED
  BY <1>4, <1>5, <1>6 DEF b

\* An FSM page that is read has the bits that its block has room for.
LEMMA ReadFSM ==
  ASSUME NEW p, FSMShape(p)
  PROVE  /\ Get(FSMBlock(p), 0, 1) = FSM_PAGE
         /\ \A garbage : FSMShape(FSMFrom(FSMBlock(p), garbage))
<1> DEFINE b == FSMBlock(p)
<1>1. Put(0, 1, FSM_PAGE) \in b
  BY DEF FSMBlock
<1>2. \A f \in b : f.at = 0 /\ f.width = 1 => f = Put(0, 1, FSM_PAGE)
  BY DEF FSMBlock, Put
<1> HIDE DEF b
<1>3. Get(b, 0, 1) = FSM_PAGE
  BY <1>1, <1>2, GetWritten
<1>4. \A garbage : FSMShape(FSMFrom(b, garbage))
  BY DEF FSMShape, FSMFrom
<1> QED
  BY <1>3, <1>4 DEF b

-----------------------------------------------------------------------------
(* The invariant *)

\* The first byte of a block tells the class of the page that was written there.
LEMMA ReadClass ==
  ASSUME NEW types, NEW p, Shape(types, p), types # << >> => types[1] \in Type
  PROVE  LET b == BlockOf(p)
             id == Get(b, 0, 1)
         IN  /\ id = BTREE_NODE_PAGE => NodeShape(types, p) /\ b = NodeBlock(p)
             /\ id = TABLE_PAGE => TableShape(p) /\ b = TableBlock(p)
             /\ id = SCHEMA_PAGE => SchemaShape(p) /\ b = SchemaBlock(p)
             /\ id = FSM_PAGE => FSMShape(p) /\ b = FSMBlock(p)
<1>1. CASE NodeShape(types, p)
  <2>1. p.class = "node" /\ types[1] \in Type
    BY <1>1 DEF NodeShape
  <2>2. BlockOf(p) = NodeBlock(p)
    BY <2>1 DEF BlockOf
  <2>3. Get(NodeBlock(p), 0, 1) = BTREE_NODE_PAGE
    BY <1>1, <2>1, ReadHeader
  <2> QED
    BY <1>1, <2>2, <2>3 DEF BTREE_NODE_PAGE, TABLE_PAGE, SCHEMA_PAGE, FSM_PAGE
<1>2. CASE TableShape(p)
  <2>1. BlockOf(p) = TableBlock(p)
    BY <1>2 DEF TableShape, BlockOf
  <2>2. Get(TableBlock(p), 0, 1) = TABLE_PAGE
    BY <1>2, ReadTable
  <2> QED
    BY <1>2, <2>1, <2>2 DEF BTREE_NODE_PAGE, TABLE_PAGE, SCHEMA_PAGE, FSM_PAGE
<1>3. CASE SchemaShape(p)
  <2>1. BlockOf(p) = SchemaBlock(p)
    BY <1>3 DEF SchemaShape, BlockOf
  <2>2. Get(SchemaBlock(p), 0, 1) = SCHEMA_PAGE
    BY <1>3, ReadSchema
  <2> QED
    BY <1>3, <2>1, <2>2 DEF BTREE_NODE_PAGE, TABLE_PAGE, SCHEMA_PAGE, FSM_PAGE
<1>4. CASE FSMShape(p)
  <2>1. BlockOf(p) = FSMBlock(p)
    BY <1>4 DEF FSMShape, BlockOf
  <2>2. Get(FSMBlock(p), 0, 1) = FSM_PAGE
    BY <1>4, ReadFSM
  <2> QED
    BY <1>4, <2>1, <2>2 DEF BTREE_NODE_PAGE, TABLE_PAGE, SCHEMA_PAGE, FSM_PAGE
<1> QED
  BY <1>1, <1>2, <1>3, <1>4 DEF Shape

\* The rows that are inserted have the columns of the table.
LEMMA NewCell ==
  ASSUME NEW types \in Seq(Type), columns = types, types # << >>, NEW i, NEW s
  PROVE  Cell(i, s).key.type = types[1] /\ ColumnTypes(Cell(i, s).value) \in Seq(Type)
<1> DEFINE n == Len(types)
           row == Row(i, s)
<1>1. n \in Nat /\ 1 \in 1 .. n /\ \A j \in 1 .. n : types[j] \in Type
  BY LenProperties, EmptySeq
<1>2. row = [j \in 1 .. n |-> row[j]] /\ \A j \in 1 .. n : row[j].type = types[j]
  BY DEF Row
<1> HIDE DEF n
<1>3. Len(row) = n
  <2> HIDE DEF row
  <2> QED
    BY <1>1, <1>2, FunctionIsList
<1>4. Cell(i, s).key.type = types[1]
  BY <1>1, <1>2 DEF Cell
<1>5. ColumnTypes(row) \in [1 .. n -> Type]
  <2> HIDE DEF row
  <2> QED
    BY <1>1, <1>2, <1>3 DEF ColumnTypes
<1>6. ColumnTypes(row) \in Seq(Type)
  BY <1>1, <1>5, SeqDef
<1> QED
  BY <1>4, <1>6 DEF Cell

\* A page that does not exist yet has no shape to keep.
LEMMA InvInit == Init => Inv
  BY DEF Init, Inv

\* What the callers do to a page leaves it in its shape.
LEMMA BecomeInv ==
  ASSUME Inv, NEW p, Shape(columns, p), Become(p)
  PROVE  Inv'
  BY DEF Inv, Become

\* So does a constructor from bytes, if it returns a page in its shape.
LEMMA LoadInv ==
  ASSUME Inv, NEW p, Shape(columns, p), Load(p)
  PROVE  Inv'
  BY DEF Inv, Load

\* Every call, eviction and load keeps the invariant.
LEMMA InvStep == Inv /\ [Next]_vars => Inv'
<1> SUFFICES ASSUME Inv, [Next]_vars PROVE Inv'
  OBVIOUS
<1>1. columns \in Seq(Type) /\ (columns # << >> => columns[1] \in Type)
  <2>1. columns \in Seq(Type)
    BY ColumnsAssumption DEF Inv
  <2> QED
    BY <2>1, LenProperties, EmptySeq
<1>2. page # Gone => Shape(columns, page)
  BY DEF Inv
<1>3. ASSUME NEW id \in {SCHEMA_PAGE, FSM_PAGE, TABLE_PAGE, BTREE_NODE_PAGE}, IsClass(id)
      PROVE  /\ Shape(columns, written) /\ block = BlockOf(written)
             /\ Get(BlockOf(written), 0, 1) = id
  <2>1. Get(block, 0, 1) = id /\ id \in Int
    BY <1>3 DEF IsClass, SCHEMA_PAGE, FSM_PAGE, TABLE_PAGE, BTREE_NODE_PAGE
  <2>2. block # {}
    BY <2>1, GetEmpty, NoiseAssumption
  <2> QED
    BY <2>1, <2>2 DEF Inv
<1>4. ASSUME Cached("node") PROVE NodeShape(columns, page)
  BY <1>2, <1>4 DEF Cached, Shape, TableShape, SchemaShape, FSMShape
<1>5. ASSUME Cached("table") PROVE TableShape(page)
  BY <1>2, <1>5 DEF Cached, Shape, NodeShape, SchemaShape, FSMShape
<1>6. ASSUME Cached("schema") PROVE SchemaShape(page)
  BY <1>2, <1>6 DEF Cached, Shape, NodeShape, TableShape, FSMShape
<1>7. ASSUME Cached("fsm") PROVE FSMShape(page)
  BY <1>2, <1>7 DEF Cached, Shape, NodeShape, TableShape, SchemaShape
<1>8. Die => Inv'
  BY DEF Die, Inv
<1>9. CASE Evict
  <2>1. CASE Die
    BY <1>8, <2>1
  <2>2. CASE block' = BlockOf(page) /\ written' = page /\ page' = Gone /\ columns' = columns
    BY <1>2, <1>9, <2>2 DEF Evict, Inv
  <2> QED
    BY <1>9, <2>1, <2>2 DEF Evict
<1>10. CASE LoadNode
  <2>1. NodeShape(columns, written) /\ block = NodeBlock(written)
    BY <1>1, <1>3, <1>10, ReadClass DEF LoadNode
  <2>2. ASSUME NodeReadable(block) PROVE Shape(columns, NodeFrom(block))
    BY <1>1, <2>1, <2>2, ReadNode DEF Shape, NodeShape
  <2> QED
    BY <1>8, <1>10, <2>2, LoadInv DEF LoadNode
<1>11. CASE LoadTable
  <2>1. TableShape(written) /\ block = TableBlock(written)
    BY <1>1, <1>3, <1>11, ReadClass DEF LoadTable
  <2>2. ASSUME TableBytes(Get(block, 1, 2)) <= PG_SZ PROVE Shape(columns, TableFrom(block))
    BY <2>1, <2>2, ReadTable DEF Shape
  <2> QED
    BY <1>8, <1>11, <2>2, LoadInv DEF LoadTable
<1>12. CASE LoadSchema
  <2>1. SchemaShape(written) /\ block = SchemaBlock(written)
    BY <1>1, <1>3, <1>12, ReadClass DEF LoadSchema
  <2>2. ASSUME SchemaBytes(Get(block, 1, 1)) < PG_SZ PROVE Shape(columns, SchemaFrom(block))
    BY <2>1, <2>2, ReadSchema DEF Shape
  <2> QED
    BY <1>8, <1>12, <2>2, LoadInv DEF LoadSchema
<1>13. CASE LoadFSM
  <2>1. FSMShape(written) /\ block = FSMBlock(written)
    BY <1>1, <1>3, <1>13, ReadClass DEF LoadFSM
  <2>2. \A garbage : Shape(columns, FSMFrom(block, garbage))
    BY <2>1, ReadFSM DEF Shape
  <2> QED
    BY <1>13, <2>2, LoadInv DEF LoadFSM
<1>14. ASSUME columns # << >>, NEW leaf \in BOOLEAN
       PROVE  Shape(columns, NewNode(leaf, << >>, << >>))
  <2>1. IsList(<< >>)
    BY EmptySeq, SeqIsList
  <2> QED
    BY <1>14, <2>1 DEF Shape, NodeShape, NewNode
<1>15. CASE CreateLeaf
  BY <1>14, <1>15, BecomeInv DEF CreateLeaf
<1>16. CASE CreateRoot
  BY <1>14, <1>16, BecomeInv DEF CreateRoot
<1>17. ASSUME NEW s \in Text, FillRoot(s) PROVE Inv'
  <2> DEFINE cells == <<Cell(1, s)>>
             p == NewNode(FALSE, cells, <<Child(1), Child(2)>>)
  <2>1. NodeShape(columns, page) /\ Become(p)
    BY <1>4, <1>17 DEF FillRoot
  <2>2. IsList(cells) /\ cells # << >> /\ cells[1] = Cell(1, s)
    <3>1. cells \in Seq({Cell(1, s)})
      OBVIOUS
    <3> QED
      BY <3>1, SeqIsList
  <2>3. Cell(1, s).key.type = columns[1] /\ ColumnTypes(Cell(1, s).value) \in Seq(Type)
    BY <1>1, <2>1, NewCell DEF NodeShape
  <2> HIDE DEF cells
  <2>4. NodeShape(columns, p)
    BY <2>1, <2>2, <2>3 DEF NodeShape, NewNode
  <2> QED
    BY <2>1, <2>4, BecomeInv DEF Shape
<1>18. ASSUME NEW s \in Text, InsertCell(s) PROVE Inv'
  <2> DEFINE new == Cell(Len(page.cells) + 1, s)
             p == [page EXCEPT !.cells = Append(@, new),
                               !.children = IF page.leaf THEN @
                                            ELSE Append(@, Child(Len(page.cells) + 2))]
  <2>1. NodeShape(columns, page) /\ Become(p)
    BY <1>4, <1>18 DEF InsertCell
  <2>2. new.key.type = columns[1] /\ ColumnTypes(new.value) \in Seq(Type)
    BY <1>1, <2>1, NewCell DEF NodeShape
  <2> HIDE DEF new
  <2>3. /\ IsList(Append(page.cells, new))
        /\ Append(page.cells, new)[1] = IF page.cells = << >> THEN new ELSE page.cells[1]
    BY <2>1, AppendIsList DEF NodeShape
  <2>4. NodeShape(columns, p)
    BY <2>1, <2>2, <2>3 DEF NodeShape
  <2> QED
    BY <2>1, <2>4, BecomeInv DEF Shape
<1>19. CASE Split
  <2> DEFINE median == Len(page.cells) \div 2
             p == [page EXCEPT !.root = FALSE, !.parent = Parent,
                               !.cells = SubSeq(@, 1, median),
                               !.children = IF page.leaf THEN @ ELSE SubSeq(@, 1, median + 1)]
  <2>1. NodeShape(columns, page) /\ Become(p)
    BY <1>4, <1>19 DEF Split
  <2>2. median \in 0 .. Len(page.cells)
    <3>1. Len(page.cells) \in Nat
      BY <2>1, LenProperties DEF NodeShape, IsList
    <3>2. \A n \in Nat : n \div 2 \in 0 .. n
      OBVIOUS
    <3> QED
      BY <3>1, <3>2
  <2> HIDE DEF median
  <2>3. /\ IsList(SubSeq(page.cells, 1, median))
        /\ SubSeq(page.cells, 1, median) # << >> =>
             page.cells # << >> /\ SubSeq(page.cells, 1, median)[1] = page.cells[1]
    BY <2>1, <2>2, PartIsList DEF NodeShape
  <2>4. NodeShape(columns, p)
    BY <2>1, <2>3 DEF NodeShape
  <2> QED
    BY <2>1, <2>4, BecomeInv DEF Shape
<1>20. CASE CreateTablePage
  <2> DEFINE p == [class |-> "table", types |-> columns, btreePageID |-> PGID_INVALID,
                   numTuples |-> 0]
  <2>1. ASSUME Len(columns) <= PG_SZ - 100 PROVE TableShape(p)
    BY <1>1, <2>1, SizesAssumption, LenProperties DEF TableShape, TableBytes
  <2>2. Die \/ (Len(columns) <= PG_SZ - 100 /\ Become(p))
    BY <1>20 DEF CreateTablePage
  <2> QED
    BY <1>8, <2>1, <2>2, BecomeInv DEF Shape
<1>21. CASE SetBtreePageID(Parent)
  <2>1. TableShape([page EXCEPT !.btreePageID = Parent])
    BY <1>5, <1>21 DEF SetBtreePageID, TableShape
  <2> QED
    BY <1>21, <2>1, BecomeInv DEF SetBtreePageID, Shape
<1>22. CASE AddTuple
  <2>1. TableShape([page EXCEPT !.numTuples = @ + 1])
    BY <1>5, <1>22 DEF AddTuple, TableShape
  <2> QED
    BY <1>22, <2>1, BecomeInv DEF AddTuple, Shape
<1>23. CASE CreateSchemaPage
  <2>1. PICK n \in Filled :
          Become([class |-> "schema",
                  tables |-> [i \in 1 .. n |-> [name |-> <<i>>, pageID |-> i]]])
    BY <1>23 DEF CreateSchemaPage
  <2> DEFINE tables == [i \in 1 .. n |-> [name |-> <<i>>, pageID |-> i]]
  <2>2. n \in Nat /\ SchemaBytes(n) <= PG_SZ
    BY FilledAssumption
  <2>3. IsList(tables) /\ Len(tables) = n
    BY <2>2, FunctionIsList
  <2> HIDE DEF tables
  <2>4. SchemaShape([class |-> "schema", tables |-> tables])
    BY <2>2, <2>3 DEF SchemaShape
  <2> QED
    BY <2>1, <2>4, BecomeInv DEF Shape, tables
<1>24. ASSUME NEW n \in Name, AddTable(n) PROVE Inv'
  <2> DEFINE new == [name |-> n, pageID |-> Parent]
             p == [page EXCEPT !.tables = Append(@, new)]
             k == Len(page.tables)
  <2>1. SchemaShape(page)
    BY <1>6, <1>24 DEF AddTable
  <2> HIDE DEF new
  <2>2. /\ IsList(Append(page.tables, new)) /\ k \in Nat
        /\ Len(Append(page.tables, new)) = k + 1
    BY <2>1, AppendIsList DEF SchemaShape
  <2>3. ASSUME FreeSpace >= EntrySize PROVE SchemaBytes(k + 1) <= PG_SZ
    <3>1. EntrySize \in Nat
      BY SizesAssumption DEF EntrySize
    <3>2. (k + 1) * EntrySize = k * EntrySize + EntrySize /\ k * EntrySize \in Nat
      BY <2>2, <3>1
    <3> QED
      BY <2>3, <3>1, <3>2, SizesAssumption DEF FreeSpace, SchemaBytes
  <2>4. ASSUME FreeSpace >= EntrySize PROVE SchemaShape(p)
    BY <2>1, <2>2, <2>3, <2>4 DEF SchemaShape
  <2>5. Die \/ (FreeSpace >= EntrySize /\ Become(p))
    BY <1>24 DEF AddTable, new
  <2> QED
    BY <1>8, <2>4, <2>5, BecomeInv DEF Shape
<1>25. ASSUME NEW n \in Name, RemoveTable(n) PROVE Inv'
  <2>1. PICK i \in 1 .. Len(page.tables) :
          Become([page EXCEPT !.tables = SubSeq(@, 1, i - 1) \o SubSeq(@, i + 1, Len(@))])
    BY <1>25 DEF RemoveTable
  <2> DEFINE rest == SubSeq(page.tables, 1, i - 1)
                       \o SubSeq(page.tables, i + 1, Len(page.tables))
             k == Len(page.tables)
  <2>2. SchemaShape(page)
    BY <1>6, <1>25 DEF RemoveTable
  <2>3. IsList(rest) /\ Len(rest) = k - 1 /\ k \in Nat
    BY <2>2, RemovedIsList DEF SchemaShape
  <2>4. SchemaBytes(k - 1) <= PG_SZ
    <3>1. SchemaBytes(k) <= PG_SZ
      BY <2>2 DEF SchemaShape
    <3> HIDE DEF k, rest
    <3>2. k - 1 \in Nat
      BY <2>3, <2>1 DEF k
    <3>3. /\ SchemaBytes(k - 1) \in Nat /\ SchemaBytes(k - 1) <= SchemaBytes(k)
          /\ SchemaBytes(k) \in Nat
      BY <2>3, <3>2, SchemaBytesGrow
    <3> QED
      BY <3>1, <3>3, SizesAssumption
  <2>5. SchemaShape([page EXCEPT !.tables = rest])
    <3> HIDE DEF rest
    <3> QED
      BY <2>2, <2>3, <2>4 DEF SchemaShape
  <2> QED
    BY <2>1, <2>5, BecomeInv DEF Shape
<1>26. CASE CreateFSMPage
  BY <1>26, BecomeInv DEF CreateFSMPage, Shape, FSMShape
<1>27. CASE FSMAlloc
  <2>1. PICK i : Become([page EXCEPT !.used = @ \cup {i}, !.free = @ - 1])
    BY <1>27 DEF FSMAlloc
  <2>2. FSMShape([page EXCEPT !.used = @ \cup {i}, !.free = @ - 1])
    BY <1>7, <1>27 DEF FSMAlloc, FSMShape
  <2> QED
    BY <2>1, <2>2, BecomeInv DEF Shape
<1>28. CASE SetNextPageID(BlocksInPage)
  <2>1. FSMShape([page EXCEPT !.next = BlocksInPage])
    BY <1>7, <1>28 DEF SetNextPageID, FSMShape
  <2> QED
    BY <1>28, <2>1, BecomeInv DEF SetNextPageID, Shape
<1>29. ASSUME NEW i \in 1 .. MaxBits, FSMFree(i) PROVE Inv'
  <2>1. FSMShape([page EXCEPT !.used = @ \ {i}, !.free = @ + 1])
    BY <1>7, <1>29 DEF FSMFree, FSMShape
  <2> QED
    BY <1>29, <2>1, BecomeInv DEF FSMFree, Shape
<1>30. CASE Dead \/ UNCHANGED vars
  BY <1>30 DEF Dead, vars, Inv
<1> QED
  BY <1>9, <1>10, <1>11, <1>12, <1>13, <1>15, <1>16, <1>17, <1>18, <1>19, <1>20, <1>21,
     <1>22, <1>23, <1>24, <1>25, <1>26, <1>27, <1>28, <1>29, <1>30 DEF Next

\* A page has the shape of its class in every state that is reached, and what the
\* block has of it was written from such a page.
THEOREM InvAlways == Spec => []Inv
  BY InvInit, InvStep, PTL DEF Spec

-----------------------------------------------------------------------------
(* What fits *)

\* A TablePage, a SchemaPage and an FSM page fit their block, however many tables are
\* created and dropped, and however often the page is evicted and read: what the
\* constructors and addTable check is enough.
THEOREM OtherPagesFit == Spec => []PagesFit
<1>1. Inv => PagesFit
  <2> SUFFICES ASSUME Inv, Up /\ page # Gone, page.class # "node"
               PROVE  Bytes(page) <= PG_SZ
    BY DEF PagesFit
  <2>1. TableShape(page) \/ SchemaShape(page) \/ FSMShape(page)
    BY DEF Inv, Shape, NodeShape
  <2>2. CASE TableShape(page)
    BY <2>2 DEF TableShape, Bytes
  <2>3. CASE SchemaShape(page)
    BY <2>3 DEF SchemaShape, Bytes
  <2>4. CASE FSMShape(page)
    <3>1. BlocksInPage = 8 * (PG_SZ - 12)
      BY SizesAssumption DEF BlocksInPage
    <3>2. \A k \in Int : (8 * k) \div 8 = k
      OBVIOUS
    <3>3. page.size \div 8 \in {PG_SZ - 12, PG_SZ - 9}
      BY <2>4, <3>1, <3>2, SizesAssumption DEF FSMShape
    <3>4. Bytes(page) = 9 + page.size \div 8
      BY <2>4 DEF FSMShape, Bytes, FSMBytes
    <3> QED
      BY <3>3, <3>4, SizesAssumption
  <2> QED
    BY <2>1, <2>2, <2>3, <2>4
<1> QED
  BY <1>1, InvAlways, PTL

\* calculateDegree keeps the nodes of every table within their page, whatever is
\* inserted and split, evicted and read: between two calls always, and when full if
\* the table has at most metadataBuffer - 15 columns.
THEOREM NodesFitAlways == Spec => []NodesFit
<1>1. Inv => NodesFit
  <2> SUFFICES ASSUME Inv, Cached("node"), Regular, CellSize(columns) < U16,
                      ~(Cells > 2 * page.degree - 1),
                      ~(Cells > 2 * page.degree - 2 /\ Len(columns) > metadataBuffer - 15)
               PROVE  Bytes(page) <= PG_SZ
    BY DEF NodesFit
  <2> DEFINE n == Len(columns)
             c == CellSize(columns)
             t == calculateDegree(columns)
  <2>1. /\ NodeShape(columns, page) /\ columns # << >> /\ columns \in Seq(Type)
        /\ page.leaf \in BOOLEAN
    BY ColumnsAssumption DEF Inv, Cached, Shape, NodeShape, TableShape, SchemaShape, FSMShape
  <2>2. Cells \in Nat /\ n \in Nat
    BY <2>1, LenProperties DEF Cells, NodeShape, IsList
  <2>3. page.degree = t /\ t \in Nat
    <3>1. c \in Nat
      BY <2>1, CellSizeBound
    <3>2. c % U16 \in Nat
      BY <3>1 DEF U16
    <3> QED
      BY <2>1, <3>2, DegreeBound DEF NodeShape, calculateDegree
  <2>4. Bytes(page) = NodeBytes(n, c, Cells, page.leaf)
    <3>1. CASE Cells = 0
      <4>1. page.cells = << >> /\ page.class = "node"
        BY <2>1, <3>1, EmptySeq DEF NodeShape, IsList, Cells
      <4> QED
        BY <3>1, <4>1 DEF Bytes, NodeBytes, Cells
    <3>2. CASE Cells # 0
      <4>1. page.cells # << >> /\ page.class = "node" /\ page.cells[1].key.type = columns[1]
        BY <2>1, <3>2, EmptySeq DEF NodeShape, IsList, Cells
      <4>2. ColumnTypes(page.cells[1].value) = columns
        BY <2>2, <3>2 DEF Regular, Cells
      <4> QED
        BY <4>1, <4>2 DEF Bytes, CellSize, Cells
    <3> QED
      BY <3>1, <3>2
  <2> HIDE DEF n, c, t
  <2>5. CASE Cells <= 2 * t - 2
    BY <2>1, <2>2, <2>3, <2>4, <2>5, NodeAtRestFits DEF n, c, t
  <2>6. CASE Cells <= 2 * t - 1 /\ n <= metadataBuffer - 15
    BY <2>1, <2>2, <2>3, <2>4, <2>6, FullNodeFits DEF n, c, t
  <2>7. \/ Cells <= 2 * t - 2
        \/ Cells <= 2 * t - 1 /\ n <= metadataBuffer - 15
    BY <2>2, <2>3, SizesAssumption DEF n
  <2> QED
    BY <2>5, <2>6, <2>7
<1> QED
  BY <1>1, InvAlways, PTL

-----------------------------------------------------------------------------
(* Where the values of a node stand *)

\* The size of the first m columns.
Prefix(types, m) == RowSize(SubSeq(types, 1, m))

\* More columns take more bytes.
LEMMA PrefixGrows ==
  ASSUME NEW types \in Seq(Type), NEW n \in 0 .. Len(types), NEW m \in 0 .. n - 1
  PROVE  Prefix(types, m) \in Nat /\ Prefix(types, n) \in Nat /\ Prefix(types, m) < Prefix(types, n)
<1> DEFINE s == SubSeq(types, 1, m)
           t == SubSeq(types, 1, n)
           x == types[n]
<1>1. Len(types) \in Nat /\ \A j \in 1 .. Len(types) : types[j] \in Type
  OBVIOUS
<1>2. s \in Seq(Type) /\ Len(s) = m /\ \A j \in 1 .. m : s[j] = types[j]
  <2>1. /\ s \in Seq(Type) /\ Len(s) = IF 1 <= m THEN m - 1 + 1 ELSE 0
        /\ \A j \in 1 .. m - 1 + 1 : s[j] = types[1 + j - 1]
    <3>1. \A j \in 1 .. m : types[j] \in Type
      BY <1>1
    <3> QED BY <1>1, <3>1, SubSeqProperties
  <2> HIDE DEF s
  <2> QED BY <1>1, <2>1
<1>3. t \in Seq(Type) /\ Len(t) = n /\ \A j \in 1 .. n : t[j] = types[j]
  <2>1. /\ t \in Seq(Type) /\ Len(t) = IF 1 <= n THEN n - 1 + 1 ELSE 0
        /\ \A j \in 1 .. n - 1 + 1 : t[j] = types[1 + j - 1]
    <3>1. \A j \in 1 .. n : types[j] \in Type
      BY <1>1
    <3> QED BY <1>1, <3>1, SubSeqProperties
  <2> HIDE DEF t
  <2> QED BY <1>1, <2>1
<1> HIDE DEF s, t
<1>4. x \in Type /\ n \in 1 .. Len(types)
  BY <1>1
<1>5. ASSUME NEW u
      PROVE  /\ Count(s, u) \in Nat /\ Count(t, u) \in Nat
             /\ Count(s, u) <= Count(t, u)
             /\ u = x => Count(s, u) < Count(t, u)
  <2> DEFINE A == {j \in 1 .. Len(s) : s[j] = u}
             B == {j \in 1 .. Len(t) : t[j] = u}
  <2>1. IsFiniteSet(B) /\ Count(s, u) \in Nat /\ Count(t, u) \in Nat
    BY <1>2, <1>3, CountType
  <2>2. A \in SUBSET B
    BY <1>1, <1>2, <1>3
  <2>3. u = x => n \in B /\ n \notin A
    BY <1>1, <1>2, <1>3, <1>4
  <2>4. Count(s, u) = Cardinality(A) /\ Count(t, u) = Cardinality(B)
    BY DEF Count
  <2> HIDE DEF A, B
  <2>5. /\ Cardinality(A) <= Cardinality(B)
        /\ Cardinality(A) = Cardinality(B) => A = B
    BY <2>1, <2>2, FS_Subset
  <2> QED BY <2>1, <2>3, <2>4, <2>5
<1> DEFINE a(u) == Count(s, u)
           b(u) == Count(t, u)
           aS == MAX_STR_SZ * a("string")
           bS == MAX_STR_SZ * b("string")
<1>6. aS \in Nat /\ bS \in Nat /\ aS <= bS /\ (x = "string" => aS < bS)
  <2>1. /\ a("string") \in Nat /\ b("string") \in Nat /\ a("string") <= b("string")
        /\ x = "string" => a("string") < b("string")
    BY <1>5
  <2>2. ASSUME NEW M \in Nat \ {0}, NEW c \in Nat, NEW d \in Nat, c <= d
        PROVE  M * c \in Nat /\ M * d \in Nat /\ M * c <= M * d /\ (c < d => M * c < M * d)
    <3>1. PICK e \in Nat : d = c + e
      <4>1. d - c \in Nat /\ d = c + (d - c)
        BY <2>2
      <4> QED BY <4>1
    <3>2. M * d = M * c + M * e /\ M * c \in Nat /\ M * e \in Nat /\ M * d \in Nat
      BY <3>1
    <3>3. e # 0 => M * e > 0
      OBVIOUS
    <3> QED BY <3>1, <3>2, <3>3
  <2> HIDE DEF a, b
  <2> QED BY <2>1, <2>2, SizesAssumption
<1>7. /\ RowSize(s) = 4 * a("int") + a("char") + a("bool") + 4 * a("float") + 8 * a("double") + aS
      /\ RowSize(t) = 4 * b("int") + b("char") + b("bool") + 4 * b("float") + 8 * b("double") + bS
  BY DEF RowSize
<1>8. \A u : a(u) \in Nat /\ b(u) \in Nat /\ a(u) <= b(u) /\ (u = x => a(u) < b(u))
  BY <1>5
<1> HIDE DEF a, b, aS, bS
<1>9. RowSize(s) < RowSize(t) /\ RowSize(s) \in Nat /\ RowSize(t) \in Nat
  <2> DEFINE a1 == a("int")
             b1 == b("int")
             a2 == a("char")
             b2 == b("char")
             a3 == a("bool")
             b3 == b("bool")
             a4 == a("float")
             b4 == b("float")
             a5 == a("double")
             b5 == b("double")
  <2>1. /\ a1 \in Nat /\ b1 \in Nat /\ a1 <= b1 /\ a2 \in Nat /\ b2 \in Nat /\ a2 <= b2
        /\ a3 \in Nat /\ b3 \in Nat /\ a3 <= b3 /\ a4 \in Nat /\ b4 \in Nat /\ a4 <= b4
        /\ a5 \in Nat /\ b5 \in Nat /\ a5 <= b5
    BY <1>8
  <2>2. a1 < b1 \/ a2 < b2 \/ a3 < b3 \/ a4 < b4 \/ a5 < b5 \/ aS < bS
    BY <1>4, <1>6, <1>8 DEF Type
  <2>3. /\ RowSize(s) = 4 * a1 + a2 + a3 + 4 * a4 + 8 * a5 + aS
        /\ RowSize(t) = 4 * b1 + b2 + b3 + 4 * b4 + 8 * b5 + bS
    BY <1>7
  <2> HIDE DEF a1, b1, a2, b2, a3, b3, a4, b4, a5, b5
  <2> QED BY <1>6, <2>1, <2>2, <2>3
<1> QED BY <1>9 DEF Prefix, s, t

\* The first columns, from none to all.
LEMMA PrefixEnds ==
  ASSUME NEW types \in Seq(Type)
  PROVE  Prefix(types, Len(types)) = RowSize(types) /\ Prefix(types, 0) = 0
<1>1. Len(types) \in Nat /\ \A j \in 1 .. Len(types) : types[j] \in Type
  OBVIOUS
<1>2. SubSeq(types, 1, Len(types)) = types
  BY SubSeqFull
<1>3. Prefix(types, 0) = 0
  <2>1. SubSeq(types, 1, 0) = << >>
    BY SubSeqEmpty
  <2>2. \A u : Count(<< >>, u) = 0
    <3> TAKE u
    <3>1. {j \in 1 .. Len(<< >>) : << >>[j] = u} = {}
      OBVIOUS
    <3> QED BY <3>1, FS_EmptySet DEF Count
  <2>3. MAX_STR_SZ * 0 = 0
    BY SizesAssumption
  <2>4. RowSize(<< >>) = 4 * 0 + 0 + 0 + 4 * 0 + 8 * 0 + MAX_STR_SZ * 0
    BY <2>2 DEF RowSize
  <2>5. RowSize(<< >>) = 0
    BY <2>3, <2>4
  <2> QED BY <2>1, <2>5 DEF Prefix
<1> QED BY <1>2, <1>3 DEF Prefix

\* The key of the i-th cell (j = 0) and the columns of its row, one after the other.
InCell(types, j) == IF j = 0 THEN 0 ELSE db_sizeof[types[1]] + Prefix(types, j - 1)
CellPlace(types, i, j) == 15 + Len(types) + (i - 1) * CellSize(types) + InCell(types, j)

\* The places of a cell are different, and within its bytes.
LEMMA InCellGrows ==
  ASSUME NEW types \in Seq(Type), types # << >>
  PROVE  /\ CellSize(types) \in Nat
         /\ \A j \in 0 .. Len(types) : InCell(types, j) \in 0 .. CellSize(types) - 1
         /\ \A j, k \in 0 .. Len(types) : InCell(types, j) = InCell(types, k) => j = k
<1> DEFINE n == Len(types)
           d == db_sizeof[types[1]]
           R == RowSize(types)
<1>1. n \in Nat /\ types[1] \in Type
  OBVIOUS
<1>2. d \in Nat \ {0}
  BY <1>1, SizesAssumption DEF db_sizeof, Type
<1>3. CellSize(types) = d + R /\ R \in Nat
  BY RowSizeBound DEF CellSize
<1>4. ASSUME NEW j \in 1 .. n
      PROVE  Prefix(types, j - 1) \in Nat /\ Prefix(types, j - 1) < R
  <2>1. n \in 0 .. Len(types) /\ j - 1 \in 0 .. n - 1
    BY <1>1
  <2>2. Prefix(types, n) = R
    BY PrefixEnds
  <2> HIDE DEF n, R
  <2> QED BY <2>1, <2>2, PrefixGrows
<1>5. ASSUME NEW j \in 1 .. n, NEW k \in 1 .. n, j < k
      PROVE  Prefix(types, j - 1) < Prefix(types, k - 1)
  <2>1. k - 1 \in 0 .. Len(types) /\ j - 1 \in 0 .. (k - 1) - 1
    BY <1>1, <1>5
  <2> QED BY <2>1, PrefixGrows
<1>6. /\ InCell(types, 0) = 0
      /\ \A j \in 1 .. n : InCell(types, j) = d + Prefix(types, j - 1)
  BY <1>1 DEF InCell
<1> HIDE DEF d, R, n
<1>7. ASSUME NEW j \in 0 .. n
      PROVE  InCell(types, j) \in 0 .. d + R - 1
  <2>1. CASE j = 0
    BY <2>1, <1>2, <1>3, <1>6
  <2>2. CASE j # 0
    <3>1. j \in 1 .. n
      BY <2>2, <1>1
    <3> QED BY <3>1, <1>2, <1>3, <1>4, <1>6
  <2> QED BY <2>1, <2>2
<1>8. ASSUME NEW j \in 0 .. n, NEW k \in 0 .. n, j < k
      PROVE  InCell(types, j) < InCell(types, k)
  <2>1. k \in 1 .. n
    BY <1>1, <1>8
  <2>2. InCell(types, k) = d + Prefix(types, k - 1) /\ Prefix(types, k - 1) \in Nat
    BY <2>1, <1>4, <1>6
  <2>3. CASE j = 0
    BY <2>2, <2>3, <1>2, <1>6
  <2>4. CASE j # 0
    <3>1. j \in 1 .. n
      BY <2>4, <1>1
    <3>2. InCell(types, j) = d + Prefix(types, j - 1) /\ Prefix(types, j - 1) \in Nat
      BY <3>1, <1>4, <1>6
    <3>3. Prefix(types, j - 1) < Prefix(types, k - 1)
      BY <2>1, <3>1, <1>5, <1>8
    <3> QED BY <2>2, <3>2, <3>3, <1>2
  <2> QED BY <2>3, <2>4
<1>9. ASSUME NEW j \in 0 .. n, NEW k \in 0 .. n, InCell(types, j) = InCell(types, k)
      PROVE  j = k
  <2>1. ~(j < k) /\ ~(k < j)
    BY <1>7, <1>8, <1>9
  <2> QED BY <2>1, <1>1
<1> QED BY <1>2, <1>3, <1>7, <1>9 DEF n

\* No two values of the cells stand at the same place, and the children behind them.
LEMMA CellPlaces ==
  ASSUME NEW types \in Seq(Type), types # << >>, NEW cells \in Nat
  PROVE  /\ \A i \in 1 .. cells, j \in 0 .. Len(types) :
              /\ CellPlace(types, i, j) \in Int
              /\ CellPlace(types, i, j) >= 15 + Len(types)
              /\ CellPlace(types, i, j) < CellPlace(types, cells + 1, 0)
         /\ \A i, k \in 1 .. cells, j, l \in 0 .. Len(types) :
              CellPlace(types, i, j) = CellPlace(types, k, l) => i = k /\ j = l
         /\ CellPlace(types, cells + 1, 0) \in Int
         /\ CellPlace(types, cells + 1, 0) >= 15 + Len(types)
<1> DEFINE C == CellSize(types)
           n == Len(types)
           in(j) == InCell(types, j)
<1>1. /\ C \in Nat /\ n \in Nat
      /\ \A j \in 0 .. n : in(j) \in 0 .. C - 1
      /\ \A j, k \in 0 .. n : in(j) = in(k) => j = k
  BY InCellGrows
<1>2. in(0) = 0
  BY DEF InCell
<1>3. \A i, j : CellPlace(types, i, j) = 15 + n + (i - 1) * C + in(j)
  BY DEF CellPlace
<1> HIDE DEF C, n, in
<1>4. ASSUME NEW i \in 1 .. cells
      PROVE  (i - 1) * C \in Nat /\ (i - 1) * C + C <= cells * C /\ cells * C \in Nat
  <2>1. PICK e \in Nat : cells = i + e
    <3>1. cells - i \in Nat /\ cells = i + (cells - i)
      OBVIOUS
    <3> QED BY <3>1
  <2>2. i - 1 \in Nat
    OBVIOUS
  <2>3. cells * C = (i - 1) * C + C + e * C
    BY <1>1, <2>1, <2>2
  <2>4. (i - 1) * C \in Nat /\ e * C \in Nat /\ cells * C \in Nat
    BY <1>1, <2>2
  <2> DEFINE x == (i - 1) * C
             y == e * C
             z == cells * C
  <2>5. z = x + C + y /\ x \in Nat /\ y \in Nat /\ z \in Nat
    BY <2>3, <2>4
  <2> HIDE DEF x, y, z
  <2>6. x \in Nat /\ x + C <= z /\ z \in Nat
    BY <1>1, <2>5
  <2> QED BY <2>6 DEF x, z
<1>5. cells * C \in Nat /\ CellPlace(types, cells + 1, 0) = 15 + n + cells * C
  <2>1. (cells + 1) - 1 = cells /\ cells * C \in Nat
    BY <1>1
  <2> QED BY <1>1, <1>2, <1>3, <2>1
<1>6. ASSUME NEW i \in 1 .. cells, NEW j \in 0 .. n
      PROVE  /\ CellPlace(types, i, j) \in Int
             /\ CellPlace(types, i, j) >= 15 + n
             /\ CellPlace(types, i, j) < CellPlace(types, cells + 1, 0)
  <2> DEFINE x == (i - 1) * C
             z == cells * C
             y == in(j)
  <2>1. x \in Nat /\ x + C <= z /\ z \in Nat /\ y \in 0 .. C - 1
    BY <1>1, <1>4
  <2>2. CellPlace(types, i, j) = 15 + n + x + y /\ CellPlace(types, cells + 1, 0) = 15 + n + z
    BY <1>3, <1>5
  <2> HIDE DEF x, y, z
  <2> QED BY <1>1, <2>1, <2>2
<1>7. ASSUME NEW i \in 1 .. cells, NEW k \in 1 .. cells, NEW j \in 0 .. n, NEW l \in 0 .. n,
             CellPlace(types, i, j) = CellPlace(types, k, l)
      PROVE  i = k /\ j = l
  <2> DEFINE a == i - 1
             b == k - 1
             x == in(j)
             y == in(l)
  <2>1. a \in Nat /\ b \in Nat /\ x \in 0 .. C - 1 /\ y \in 0 .. C - 1
    BY <1>1
  <2>2. a * C + x = b * C + y
    <3>1. /\ CellPlace(types, i, j) = 15 + n + a * C + x
          /\ CellPlace(types, k, l) = 15 + n + b * C + y
      BY <1>3
    <3>2. a * C \in Nat /\ b * C \in Nat
      BY <1>1, <2>1
    <3> DEFINE u == a * C
               v == b * C
    <3>3. 15 + n + u + x = 15 + n + v + y /\ u \in Nat /\ v \in Nat
      BY <1>7, <3>1, <3>2
    <3> HIDE DEF a, b, x, y, u, v
    <3>4. u + x = v + y
      BY <1>1, <2>1, <3>3
    <3> QED BY <3>4 DEF u, v
  <2> HIDE DEF a, b, x, y
  <2>3. a = b /\ x = y
    BY <1>1, <2>1, <2>2, Digits
  <2>4. in(j) = in(l)
    BY <2>3 DEF x, y
  <2> QED BY <2>3, <2>4, <1>1 DEF a, b
<1> QED BY <1>1, <1>5, <1>6, <1>7 DEF n

\* The places of the key and the columns in the code.
LEMMA PlacesAre ==
  ASSUME NEW types \in Seq(Type), types # << >>, NEW i \in Nat
  PROVE  /\ KeyAt(types[1], types, i) = CellPlace(types, i, 0)
         /\ \A j \in 1 .. Len(types) : ColumnAt(types[1], types, i, j) = CellPlace(types, i, j)
<1> DEFINE C == db_sizeof[types[1]] + RowSize(types)
<1>1. CellSize(types) = C
  BY DEF CellSize
<1>2. KeyAt(types[1], types, i) = 15 + Len(types) + (i - 1) * C
  BY DEF KeyAt
<1>3. /\ CellPlace(types, i, 0) = 15 + Len(types) + (i - 1) * C + 0
      /\ \A j \in 1 .. Len(types) :
           CellPlace(types, i, j)
             = 15 + Len(types) + (i - 1) * C + (db_sizeof[types[1]] + Prefix(types, j - 1))
  BY <1>1 DEF CellPlace, InCell
<1>4. \A j \in 1 .. Len(types) :
        ColumnAt(types[1], types, i, j)
          = 15 + Len(types) + (i - 1) * C + db_sizeof[types[1]] + Prefix(types, j - 1)
  BY <1>2 DEF ColumnAt, Prefix
<1>5. (i - 1) * C \in Int /\ Len(types) \in Nat /\ db_sizeof[types[1]] \in Nat
  <2>1. types[1] \in Type
    OBVIOUS
  <2>2. db_sizeof[types[1]] \in Nat
    BY <2>1, SizesAssumption DEF db_sizeof, Type
  <2>3. C \in Nat
    BY <2>2, RowSizeBound
  <2> HIDE DEF C
  <2> QED BY <2>2, <2>3
<1>6. ASSUME NEW j \in 1 .. Len(types)
      PROVE  Prefix(types, j - 1) \in Nat
  <2>1. Len(types) \in 0 .. Len(types) /\ j - 1 \in 0 .. Len(types) - 1
    BY <1>5
  <2> QED BY <2>1, PrefixGrows
<1> DEFINE x == (i - 1) * C
           d == db_sizeof[types[1]]
<1>7. /\ KeyAt(types[1], types, i) = 15 + Len(types) + x
      /\ CellPlace(types, i, 0) = 15 + Len(types) + x + 0
      /\ \A j \in 1 .. Len(types) :
           /\ CellPlace(types, i, j) = 15 + Len(types) + x + (d + Prefix(types, j - 1))
           /\ ColumnAt(types[1], types, i, j) = 15 + Len(types) + x + d + Prefix(types, j - 1)
  BY <1>2, <1>3, <1>4
<1>8. x \in Int /\ d \in Nat
  BY <1>5
<1> HIDE DEF x, d
<1> QED BY <1>5, <1>6, <1>7, <1>8

-----------------------------------------------------------------------------
(* The parts of a node *)

\* A cell of a table with these columns: its key is its first column.
CellOver(types, c) ==
  /\ c = [key |-> c.value[1], value |-> c.value]
  /\ c.value = [j \in 1 .. Len(types) |-> [type |-> types[j], data |-> c.value[j].data]]

\* What the callers keep of a node.  The columns of a node that has 256 or more are not
\* what they were when it was read.
NodeWhole(types, p) ==
  /\ NodeShape(types, p)
  /\ p = [class |-> "node", degree |-> p.degree, parent |-> p.parent, leaf |-> p.leaf,
          root |-> p.root, cells |-> p.cells, children |-> p.children]
  /\ p.root \in BOOLEAN
  /\ p.parent = IF p.root THEN PGID_INVALID ELSE Parent
  /\ p.leaf => p.children = << >>
  /\ p.root /\ p.cells = << >> => p.children = << >>
  /\ ~p.leaf /\ p.cells # << >> => IsList(p.children) /\ Len(p.children) = Len(p.cells) + 1
  /\ Len(types) < U8 => \A i \in 1 .. Len(p.cells) : CellOver(types, p.cells[i])

\* The key of a cell is its column 0 here, as it is in CellPlace.
ValueOf(c, j) == IF j = 0 THEN c.key ELSE c.value[j]
TypeOf(types, j) == IF j = 0 THEN types[1] ELSE types[j]

\* A cell has the columns of its table.
LEMMA CellFields ==
  ASSUME NEW types \in Seq(Type), types # << >>, NEW c, CellOver(types, c)
  PROVE  /\ ColumnTypes(c.value) = types
         /\ Len(c.value) = Len(types)
         /\ \A j \in 0 .. Len(types) :
              ValueOf(c, j) = [type |-> TypeOf(types, j), data |-> ValueOf(c, j).data]
         /\ c.key = c.value[1]
<1>1. Len(types) \in Nat /\ 1 \in 1 .. Len(types)
  BY EmptySeq
<1>2. c.value = [j \in 1 .. Len(types) |-> c.value[j]]
      /\ \A j \in 1 .. Len(types) : c.value[j] = [type |-> types[j], data |-> c.value[j].data]
  BY DEF CellOver
<1>3. Len(c.value) = Len(types)
  BY <1>1, <1>2, FunctionIsList
<1>4. c.key = c.value[1]
  BY DEF CellOver
<1>5. ColumnTypes(c.value) = types
  <2>1. types = [j \in 1 .. Len(types) |-> types[j]]
    OBVIOUS
  <2>2. ColumnTypes(c.value) = [j \in 1 .. Len(types) |-> c.value[j].type]
    BY <1>3 DEF ColumnTypes
  <2>3. \A j \in 1 .. Len(types) : c.value[j].type = types[j]
    <3> TAKE j \in 1 .. Len(types)
    <3>1. c.value[j] = [type |-> types[j], data |-> c.value[j].data]
      BY <1>2
    <3> QED BY <3>1
  <2> QED BY <2>1, <2>2, <2>3
<1>6. ASSUME NEW j \in 0 .. Len(types)
      PROVE  ValueOf(c, j) = [type |-> TypeOf(types, j), data |-> ValueOf(c, j).data]
  <2>1. CASE j = 0
    BY <2>1, <1>1, <1>2, <1>4 DEF ValueOf, TypeOf
  <2>2. CASE j # 0
    BY <2>2, <1>1, <1>2 DEF ValueOf, TypeOf
  <2> QED BY <2>1, <2>2
<1> QED BY <1>3, <1>4, <1>5, <1>6

\* What is written of a node.
Header(types, p, f) ==
  f \in NodeHeader(p) \/ f = Put(13, 1, TypeId[types[1]]) \/ f = Put(14, 1, Len(types))
TypeAt(types, j) == Put(14 + j, 1, TypeId[types[j]])
ValueAt(types, p, i, j) == PutVari(CellPlace(types, i, j), ValueOf(p.cells[i], j))
ChildPlace(types, p, i) == CellPlace(types, Len(p.cells) + 1, 0) + 4 * (i - 1)

\* p is a node with cells and less than 256 columns.
HasCells(types, p) ==
  /\ types \in Seq(Type) /\ types # << >> /\ Len(types) < U8
  /\ NodeWhole(types, p) /\ p.cells # << >>

\* The columns and the cells of such a node.
LEMMA HasCellsFields ==
  ASSUME NEW types, NEW p, HasCells(types, p)
  PROVE  /\ Len(types) \in Nat \ {0} /\ Len(types) % U8 = Len(types)
         /\ Len(p.cells) \in Nat \ {0}
         /\ \A j \in 0 .. Len(types) : TypeOf(types, j) \in Type
         /\ \A i \in 1 .. Len(p.cells) : CellOver(types, p.cells[i])
<1>1. Len(types) \in Nat \ {0} /\ \A j \in 1 .. Len(types) : types[j] \in Type
  BY EmptySeq DEF HasCells
<1>2. Len(types) % U8 = Len(types)
  BY <1>1 DEF HasCells, U8
<1>3. Len(p.cells) \in Nat \ {0}
  <2>1. Len(p.cells) \in Nat
    BY LenProperties DEF HasCells, NodeWhole, NodeShape, IsList
  <2>2. Len(p.cells) # 0
    BY EmptySeq DEF HasCells, NodeWhole, NodeShape, IsList
  <2> QED BY <2>1, <2>2
<1> QED BY <1>1, <1>2, <1>3 DEF HasCells, NodeWhole, TypeOf

\* NodeBlock, with the values of the cells by their places.
LEMMA NodeParts ==
  ASSUME NEW types, NEW p, HasCells(types, p)
  PROVE  /\ \A f \in NodeBlock(p) :
              \/ Header(types, p, f)
              \/ \E j \in 1 .. Len(types) : f = TypeAt(types, j)
              \/ \E i \in 1 .. Len(p.cells), j \in 0 .. Len(types) : f = ValueAt(types, p, i, j)
              \/ \E i \in WrittenChildren(p) : f = Put(ChildPlace(types, p, i), 4, p.children[i])
         /\ \A j \in 1 .. Len(types) : TypeAt(types, j) \in NodeBlock(p)
         /\ \A i \in 1 .. Len(p.cells), j \in 0 .. Len(types) :
              ValueAt(types, p, i, j) \in NodeBlock(p)
         /\ \A i \in WrittenChildren(p) :
              Put(ChildPlace(types, p, i), 4, p.children[i]) \in NodeBlock(p)
<1> DEFINE n == Len(types)
           cells == Len(p.cells)
           key == types[1]
           child(i) == Put(ChildPlace(types, p, i), 4, p.children[i])
           row == ColumnTypes(p.cells[1].value)
<1>1. n \in Nat \ {0} /\ n % U8 = n /\ cells \in Nat \ {0} /\ types \in Seq(Type) /\ types # << >>
  BY HasCellsFields DEF HasCells
<1>2. CellOver(types, p.cells[1]) /\ p.cells # << >>
  <2>1. 1 \in 1 .. cells
    BY <1>1
  <2> QED BY <2>1, HasCellsFields DEF HasCells
<1>3. row = types /\ p.cells[1].key.type = key
  <2>1. row = types
    BY <1>1, <1>2, CellFields
  <2> HIDE DEF row, key
  <2>2. p.cells[1].key.type = key
    BY <1>2 DEF HasCells, NodeWhole, NodeShape, key
  <2> QED BY <2>1, <2>2
<1>4. /\ \A i \in 1 .. cells : KeyAt(key, types, i) = CellPlace(types, i, 0)
      /\ \A i \in 1 .. cells, j \in 1 .. n : ColumnAt(key, types, i, j) = CellPlace(types, i, j)
  BY <1>1, PlacesAre
<1>5. \A i : ChildAt(key, types, cells, i) = ChildPlace(types, p, i)
  <2>1. KeyAt(key, types, cells + 1) = CellPlace(types, cells + 1, 0)
    BY <1>1, PlacesAre
  <2> QED BY <2>1 DEF ChildAt, ChildPlace
<1>6. NodeBlock(p)
        = NodeHeader(p)
            \cup {Put(13, 1, TypeId[key]), Put(14, 1, n)}
            \cup {TypeAt(types, j) : j \in 1 .. n}
            \cup {PutVari(KeyAt(key, types, i), p.cells[i].key) : i \in 1 .. cells}
            \cup {PutVari(ColumnAt(key, types, x[1], x[2]), p.cells[x[1]].value[x[2]]) :
                    x \in (1 .. cells) \X (1 .. n)}
            \cup {Put(ChildAt(key, types, cells, i), 4, p.children[i]) : i \in WrittenChildren(p)}
  <2> HIDE DEF n, cells, key, row
  <2>1. p.cells # << >>
    BY <1>2
  <2> QED BY <1>1, <1>3, <2>1 DEF NodeBlock, TypeAt, n, cells, key, row
<1>7. \A i \in 1 .. cells : PutVari(KeyAt(key, types, i), p.cells[i].key) = ValueAt(types, p, i, 0)
  BY <1>4 DEF ValueAt, ValueOf
<1>8. \A i \in 1 .. cells, j \in 1 .. n :
        PutVari(ColumnAt(key, types, i, j), p.cells[i].value[j]) = ValueAt(types, p, i, j)
  BY <1>4 DEF ValueAt, ValueOf
<1>9. \A i \in WrittenChildren(p) :
        Put(ChildAt(key, types, cells, i), 4, p.children[i]) = child(i)
  BY <1>5
<1> DEFINE b == NodeBlock(p)
           header == NodeHeader(p) \cup {Put(13, 1, TypeId[key]), Put(14, 1, n)}
           K(i) == PutVari(KeyAt(key, types, i), p.cells[i].key)
           V(i, j) == PutVari(ColumnAt(key, types, i, j), p.cells[i].value[j])
           W(i) == Put(ChildAt(key, types, cells, i), 4, p.children[i])
           T(j) == TypeAt(types, j)
           kids == WrittenChildren(p)
<1>10. b = header \cup {T(j) : j \in 1 .. n} \cup {K(i) : i \in 1 .. cells}
             \cup {V(x[1], x[2]) : x \in (1 .. cells) \X (1 .. n)} \cup {W(i) : i \in kids}
  BY <1>6
<1>11. /\ \A i \in 1 .. cells : K(i) = ValueAt(types, p, i, 0)
       /\ \A i \in 1 .. cells, j \in 1 .. n : V(i, j) = ValueAt(types, p, i, j)
       /\ \A i \in kids : W(i) = child(i)
  BY <1>7, <1>8, <1>9
<1>12. \A f : f \in header <=> Header(types, p, f)
  BY DEF Header
<1> HIDE DEF b, header, K, V, W, T, kids, n, cells, child
<1>13. ASSUME NEW f \in b
       PROVE  \/ Header(types, p, f)
              \/ \E j \in 1 .. n : f = T(j)
              \/ \E i \in 1 .. cells, j \in 0 .. n : f = ValueAt(types, p, i, j)
              \/ \E i \in kids : f = child(i)
  <2>1. CASE f \in header
    BY <2>1, <1>12
  <2>2. CASE f \in {K(i) : i \in 1 .. cells}
    <3>1. PICK i \in 1 .. cells : f = ValueAt(types, p, i, 0)
      BY <2>2, <1>11
    <3>2. 0 \in 0 .. n
      BY <1>1
    <3> QED BY <3>1, <3>2
  <2>3. CASE f \in {V(x[1], x[2]) : x \in (1 .. cells) \X (1 .. n)}
    <3>1. PICK x \in (1 .. cells) \X (1 .. n) : f = V(x[1], x[2])
      BY <2>3
    <3>2. x[1] \in 1 .. cells /\ x[2] \in 1 .. n /\ x[2] \in 0 .. n
      BY <1>1, <3>1
    <3>3. f = ValueAt(types, p, x[1], x[2])
      BY <1>11, <3>1, <3>2
    <3> QED BY <3>2, <3>3
  <2>4. CASE f \in {W(i) : i \in kids}
    BY <2>4, <1>11
  <2>5. CASE f \in {T(j) : j \in 1 .. n}
    BY <2>5
  <2> QED BY <1>10, <2>1, <2>2, <2>3, <2>4, <2>5
<1>14. ASSUME NEW i \in 1 .. cells, NEW j \in 0 .. n
       PROVE  ValueAt(types, p, i, j) \in b
  <2>1. CASE j = 0
    BY <2>1, <1>10, <1>11
  <2>2. CASE j # 0
    <3>1. j \in 1 .. n
      BY <2>2, <1>1
    <3>2. <<i, j>> \in (1 .. cells) \X (1 .. n) /\ <<i, j>>[1] = i /\ <<i, j>>[2] = j
      BY <3>1
    <3>3. V(i, j) \in {V(x[1], x[2]) : x \in (1 .. cells) \X (1 .. n)}
      BY <3>2
    <3> QED BY <1>10, <1>11, <3>1, <3>3
  <2> QED BY <2>1, <2>2
<1>15. /\ \A j \in 1 .. n : T(j) \in b
       /\ \A i \in kids : child(i) \in b
  BY <1>10, <1>11
<1> QED BY <1>13, <1>14, <1>15 DEF b, T, kids, n, cells, child

\* Where the parts of a node stand.
LEMMA PartPlaces ==
  ASSUME NEW types, NEW p, HasCells(types, p)
  PROVE  /\ \A f : Header(types, p, f) => f.at \in 0 .. 14
         /\ \A j \in 1 .. Len(types) :
              TypeAt(types, j).at = 14 + j /\ TypeAt(types, j).at \in 15 .. 14 + Len(types)
         /\ \A i \in 1 .. Len(p.cells), j \in 0 .. Len(types) :
              /\ ValueAt(types, p, i, j).at = CellPlace(types, i, j)
              /\ CellPlace(types, i, j) \in Int /\ CellPlace(types, i, j) >= 15 + Len(types)
              /\ CellPlace(types, i, j) < ChildPlace(types, p, 1)
         /\ \A i \in Nat \ {0} :
              /\ ChildPlace(types, p, i) \in Int
              /\ ChildPlace(types, p, i) >= ChildPlace(types, p, 1)
              /\ ChildPlace(types, p, i) >= 15 + Len(types)
              /\ ChildPlace(types, p, i) = ChildPlace(types, p, 1) + 4 * (i - 1)
<1>1. /\ Len(types) \in Nat /\ Len(p.cells) \in Nat /\ types \in Seq(Type) /\ types # << >>
  BY HasCellsFields DEF HasCells
<1>2. ASSUME NEW f, Header(types, p, f)
      PROVE  f.at \in 0 .. 14
  <2>1. \A at, width, v : Put(at, width, v).at = at
    BY DEF Put
  <2>2. \E at \in {0, 1, 3, 7, 8, 9, 13, 14} : \E width, v : f = Put(at, width, v)
    BY <1>2 DEF Header, NodeHeader
  <2> QED BY <2>1, <2>2
<1>3. \A j \in 1 .. Len(types) : TypeAt(types, j).at = 14 + j
  BY DEF TypeAt, Put
<1>4. \A i, j : ValueAt(types, p, i, j).at = CellPlace(types, i, j)
  BY DEF ValueAt, PutVari, Put
<1> DEFINE end == CellPlace(types, Len(p.cells) + 1, 0)
<1>5. /\ \A i \in 1 .. Len(p.cells), j \in 0 .. Len(types) :
           /\ CellPlace(types, i, j) \in Int
           /\ CellPlace(types, i, j) >= 15 + Len(types)
           /\ CellPlace(types, i, j) < end
      /\ end \in Int /\ end >= 15 + Len(types)
  BY <1>1, CellPlaces
<1>6. \A i : ChildPlace(types, p, i) = end + 4 * (i - 1)
  BY DEF ChildPlace
<1> HIDE DEF end
<1>7. ChildPlace(types, p, 1) = end
  BY <1>5, <1>6
<1>8. ASSUME NEW i \in Nat \ {0}
      PROVE  /\ ChildPlace(types, p, i) \in Int
             /\ ChildPlace(types, p, i) >= end
             /\ ChildPlace(types, p, i) >= 15 + Len(types)
             /\ ChildPlace(types, p, i) = end + 4 * (i - 1)
  <2>1. ChildPlace(types, p, i) = end + 4 * (i - 1)
    BY <1>6
  <2> QED BY <1>1, <1>5, <2>1
<1>9. \A j \in 1 .. Len(types) : 14 + j \in 15 .. 14 + Len(types)
  BY <1>1
<1> QED BY <1>2, <1>3, <1>4, <1>5, <1>7, <1>8, <1>9

-----------------------------------------------------------------------------
(* The values of a node that is read *)

\* The types of the columns are read as they were written.
LEMMA ReadTypes ==
  ASSUME NEW types, NEW p, HasCells(types, p)
  PROVE  \A j \in 1 .. Len(types) : Get(NodeBlock(p), 14 + j, 1) = TypeId[types[j]]
<1> SUFFICES ASSUME NEW j \in 1 .. Len(types)
             PROVE  Get(NodeBlock(p), 14 + j, 1) = TypeId[types[j]]
  OBVIOUS
<1> DEFINE b == NodeBlock(p)
           v == TypeId[types[j]]
<1>1. TypeAt(types, j) = Put(14 + j, 1, v)
  BY DEF TypeAt
<1>2. Put(14 + j, 1, v) \in b
  BY <1>1, NodeParts
<1>3. Len(types) \in Nat
  BY HasCellsFields
<1>4. ASSUME NEW f \in b, f.at = 14 + j, f.width = 1
      PROVE  f = Put(14 + j, 1, v)
  <2>1. CASE Header(types, p, f)
    <3>1. f.at \in 0 .. 14
      BY <2>1, PartPlaces
    <3> QED BY <3>1, <1>3, <1>4
  <2>2. ASSUME NEW k \in 1 .. Len(types), f = TypeAt(types, k)
        PROVE  f = Put(14 + j, 1, v)
    <3>1. f.at = 14 + k
      BY <2>2, PartPlaces
    <3>2. k = j
      BY <3>1, <1>3, <1>4
    <3> QED BY <2>2, <3>2, <1>1
  <2>3. ASSUME NEW i \in 1 .. Len(p.cells), NEW k \in 0 .. Len(types), f = ValueAt(types, p, i, k)
        PROVE  FALSE
    <3>1. f.at = CellPlace(types, i, k) /\ CellPlace(types, i, k) \in Int
          /\ CellPlace(types, i, k) >= 15 + Len(types)
      BY <2>3, PartPlaces
    <3> QED BY <3>1, <1>3, <1>4
  <2>4. ASSUME NEW i \in WrittenChildren(p), f = Put(ChildPlace(types, p, i), 4, p.children[i])
        PROVE  FALSE
    <3>1. f.width = 4
      BY <2>4 DEF Put
    <3> QED BY <3>1, <1>4
  <2> QED BY <2>1, <2>2, <2>3, <2>4, NodeParts
<1> HIDE DEF b, v
<1>5. Get(b, 14 + j, 1) = v
  BY <1>2, <1>4, GetWritten
<1> QED BY <1>5 DEF b, v

\* So are the keys and the columns of its cells.
LEMMA ReadValues ==
  ASSUME NEW types, NEW p, HasCells(types, p)
  PROVE  \A i \in 1 .. Len(p.cells), j \in 0 .. Len(types) :
           Get(NodeBlock(p), CellPlace(types, i, j), db_sizeof[TypeOf(types, j)])
             = ValueOf(p.cells[i], j).data
<1> SUFFICES ASSUME NEW i \in 1 .. Len(p.cells), NEW j \in 0 .. Len(types)
             PROVE  Get(NodeBlock(p), CellPlace(types, i, j), db_sizeof[TypeOf(types, j)])
                      = ValueOf(p.cells[i], j).data
  OBVIOUS
<1> DEFINE b == NodeBlock(p)
           at == CellPlace(types, i, j)
           width == db_sizeof[TypeOf(types, j)]
           v == ValueOf(p.cells[i], j).data
<1>1. Len(types) \in Nat /\ Len(p.cells) \in Nat /\ types \in Seq(Type) /\ types # << >>
      /\ CellOver(types, p.cells[i])
  BY HasCellsFields DEF HasCells
<1>2. ValueAt(types, p, i, j) = Put(at, width, v)
  <2>1. ValueOf(p.cells[i], j).type = TypeOf(types, j)
    <3>1. ValueOf(p.cells[i], j) = [type |-> TypeOf(types, j), data |-> v]
      BY <1>1, CellFields
    <3> QED BY <3>1
  <2> QED BY <2>1 DEF ValueAt, PutVari
<1>3. Put(at, width, v) \in b
  <2>1. ValueAt(types, p, i, j) \in b
    BY NodeParts
  <2> QED BY <1>2, <2>1
<1>4. at \in Int /\ at >= 15 + Len(types) /\ at < ChildPlace(types, p, 1)
  BY PartPlaces
<1>5. ASSUME NEW f \in b, f.at = at
      PROVE  f = Put(at, width, v)
  <2>1. CASE Header(types, p, f)
    <3>1. f.at \in 0 .. 14
      BY <2>1, PartPlaces
    <3> DEFINE n == Len(types)
    <3>2. n \in Nat /\ at \in Int /\ at >= 15 + n /\ at \in 0 .. 14
      BY <3>1, <1>1, <1>4, <1>5
    <3> HIDE DEF n, at
    <3>3. FALSE
      BY <3>2
    <3> QED BY <3>3
  <2>2. ASSUME NEW k \in 1 .. Len(types), f = TypeAt(types, k)
        PROVE  FALSE
    <3>1. f.at = 14 + k
      BY <2>2, PartPlaces
    <3> HIDE DEF at
    <3> QED BY <3>1, <1>1, <1>4, <1>5
  <2>3. ASSUME NEW k \in 1 .. Len(p.cells), NEW l \in 0 .. Len(types), f = ValueAt(types, p, k, l)
        PROVE  f = Put(at, width, v)
    <3>1. f.at = CellPlace(types, k, l)
      BY <2>3, PartPlaces
    <3>2. CellPlace(types, k, l) = CellPlace(types, i, j)
      BY <3>1, <1>5
    <3> DEFINE cells == Len(p.cells)
    <3>3. cells \in Nat /\ i \in 1 .. cells /\ k \in 1 .. cells
      BY <1>1
    <3> HIDE DEF cells
    <3>4. \A x, y \in 1 .. cells, u, w \in 0 .. Len(types) :
            CellPlace(types, x, u) = CellPlace(types, y, w) => x = y /\ u = w
      BY <1>1, <3>3, CellPlaces
    <3>5. k = i /\ l = j
      BY <3>2, <3>3, <3>4
    <3> QED BY <2>3, <3>5, <1>2
  <2>4. ASSUME NEW k \in WrittenChildren(p), f = Put(ChildPlace(types, p, k), 4, p.children[k])
        PROVE  FALSE
    <3>1. f.at = ChildPlace(types, p, k)
      BY <2>4 DEF Put
    <3>2. k \in Nat \ {0}
      BY <1>1 DEF WrittenChildren
    <3>3. /\ ChildPlace(types, p, k) \in Int /\ ChildPlace(types, p, 1) \in Int
          /\ ChildPlace(types, p, k) >= ChildPlace(types, p, 1)
      <4>1. 1 \in Nat \ {0}
        OBVIOUS
      <4> QED BY <3>2, <4>1, PartPlaces
    <3> HIDE DEF at
    <3> QED BY <3>1, <3>3, <1>4, <1>5
  <2> QED BY <2>1, <2>2, <2>3, <2>4, NodeParts
<1> HIDE DEF b, at, width, v
<1>6. Get(b, at, width) = v
  BY <1>3, <1>5, GetWritten
<1> QED BY <1>6 DEF b, at, width, v

\* And its children.
LEMMA ReadChildren ==
  ASSUME NEW types, NEW p, HasCells(types, p)
  PROVE  \A i \in WrittenChildren(p) :
           Get(NodeBlock(p), ChildPlace(types, p, i), 4) = p.children[i]
<1> SUFFICES ASSUME NEW i \in WrittenChildren(p)
             PROVE  Get(NodeBlock(p), ChildPlace(types, p, i), 4) = p.children[i]
  OBVIOUS
<1> DEFINE b == NodeBlock(p)
           at == ChildPlace(types, p, i)
           v == p.children[i]
<1>1. Len(types) \in Nat /\ Len(p.cells) \in Nat
  BY HasCellsFields
<1>2. Put(at, 4, v) \in b
  BY NodeParts
<1>3. \A k \in WrittenChildren(p) : k \in Nat \ {0}
  BY <1>1 DEF WrittenChildren
<1>4. /\ at \in Int /\ at >= 15 + Len(types)
      /\ ChildPlace(types, p, 1) \in Int /\ at >= ChildPlace(types, p, 1)
      /\ at = ChildPlace(types, p, 1) + 4 * (i - 1)
  <2>1. 1 \in Nat \ {0} /\ i \in Nat \ {0}
    BY <1>3
  <2> QED BY <2>1, PartPlaces
<1>5. ASSUME NEW f \in b, f.at = at
      PROVE  f = Put(at, 4, v)
  <2>1. CASE Header(types, p, f)
    <3>1. f.at \in 0 .. 14
      BY <2>1, PartPlaces
    <3> HIDE DEF at
    <3> QED BY <3>1, <1>1, <1>4, <1>5
  <2>2. ASSUME NEW k \in 1 .. Len(types), f = TypeAt(types, k)
        PROVE  FALSE
    <3>1. f.at = 14 + k
      BY <2>2, PartPlaces
    <3> HIDE DEF at
    <3> QED BY <3>1, <1>1, <1>4, <1>5
  <2>3. ASSUME NEW k \in 1 .. Len(p.cells), NEW l \in 0 .. Len(types), f = ValueAt(types, p, k, l)
        PROVE  FALSE
    <3>1. f.at = CellPlace(types, k, l) /\ CellPlace(types, k, l) \in Int
          /\ CellPlace(types, k, l) < ChildPlace(types, p, 1)
      BY <2>3, PartPlaces
    <3> HIDE DEF at
    <3> QED BY <3>1, <1>4, <1>5
  <2>4. ASSUME NEW k \in WrittenChildren(p), f = Put(ChildPlace(types, p, k), 4, p.children[k])
        PROVE  f = Put(at, 4, v)
    <3>1. f.at = ChildPlace(types, p, k)
      BY <2>4 DEF Put
    <3>2. ChildPlace(types, p, k) = ChildPlace(types, p, 1) + 4 * (k - 1)
      BY <1>3, PartPlaces
    <3>3. k \in Nat /\ i \in Nat
      BY <1>3
    <3> DEFINE c == ChildPlace(types, p, 1)
    <3>4. c + 4 * (k - 1) = c + 4 * (i - 1) /\ c \in Int
      BY <3>1, <3>2, <1>4, <1>5
    <3> HIDE DEF c
    <3>5. k = i
      BY <3>3, <3>4
    <3> QED BY <2>4, <3>5
  <2> QED BY <2>1, <2>2, <2>3, <2>4, NodeParts
<1> HIDE DEF b, at, v
<1>6. Get(b, at, 4) = v
  BY <1>2, <1>5, GetWritten
<1> QED BY <1>6 DEF b, at, v

\* The parent and the mark of the root are read as they were written.
LEMMA ReadLinks ==
  ASSUME NEW types, NEW p, NodeShape(types, p), types[1] \in Type
  PROVE  Get(NodeBlock(p), 3, 4) = p.parent /\ Get(NodeBlock(p), 8, 1) = p.root
<1> DEFINE b == NodeBlock(p)
           key == TypeId[types[1]]
           n == Len(ColumnTypes(p.cells[1].value)) % U8
<1>1. \A f \in b :
        \/ f \in NodeHeader(p)
        \/ p.cells # << >> /\ f = Put(13, 1, key)
        \/ p.cells # << >> /\ f = Put(14, 1, n)
        \/ f.at \in Int /\ f.at >= 15
  BY NodeFields
<1>2. NodeHeader(p) \subseteq b
  BY DEF NodeBlock
<1> HIDE DEF b, key, n
<1>3. Get(b, 3, 4) = p.parent
  <2>1. Put(3, 4, p.parent) \in b
    BY <1>2 DEF NodeHeader
  <2>2. \A f \in b : f.at = 3 /\ f.width = 4 => f = Put(3, 4, p.parent)
    BY <1>1 DEF NodeHeader, Put
  <2> QED BY <2>1, <2>2, GetWritten
<1>4. Get(b, 8, 1) = p.root
  <2>1. Put(8, 1, p.root) \in b
    BY <1>2 DEF NodeHeader
  <2>2. \A f \in b : f.at = 8 /\ f.width = 1 => f = Put(8, 1, p.root)
    BY <1>1 DEF NodeHeader, Put
  <2> QED BY <2>1, <2>2, GetWritten
<1> QED BY <1>3, <1>4 DEF b

-----------------------------------------------------------------------------
(* A node that is read *)

\* A value of type t as it is read: a string is cut off at its first zero byte.
Clip(t, v) == [type |-> t, data |-> IF t = "string" THEN CStr(v.data) ELSE v.data]
ClipCell(types, c) ==
  [key |-> Clip(types[1], c.key), value |-> [j \in 1 .. Len(types) |-> Clip(types[j], c.value[j])]]
ClipNode(types, p) ==
  [class |-> "node", degree |-> p.degree, parent |-> p.parent, leaf |-> p.leaf, root |-> p.root,
   cells |-> [i \in 1 .. Len(p.cells) |-> ClipCell(types, p.cells[i])],
   children |-> IF p.leaf THEN << >> ELSE p.children]

\* A cell keeps its columns when its strings are cut off.
LEMMA ClipCellOver ==
  ASSUME NEW types \in Seq(Type), types # << >>, NEW c, CellOver(types, c)
  PROVE  CellOver(types, ClipCell(types, c))
<1> DEFINE d == ClipCell(types, c)
           n == Len(types)
<1>1. n \in Nat /\ 1 \in 1 .. n
  BY EmptySeq
<1>2. d = [key |-> d.key, value |-> d.value]
      /\ d.key = Clip(types[1], c.key)
      /\ d.value = [j \in 1 .. n |-> Clip(types[j], c.value[j])]
  BY DEF ClipCell
<1>3. c.key = c.value[1]
  BY CellFields
<1> HIDE DEF d, n
<1>4. d.key = d.value[1]
  BY <1>1, <1>2, <1>3
<1>5. \A j \in 1 .. n : d.value[j] = [type |-> types[j], data |-> d.value[j].data]
  <2> TAKE j \in 1 .. n
  <2>1. d.value[j] = Clip(types[j], c.value[j])
    BY <1>2
  <2> QED BY <2>1 DEF Clip
<1>6. d.value = [j \in 1 .. n |-> [type |-> types[j], data |-> d.value[j].data]]
  BY <1>2, <1>5
<1>7. d = [key |-> d.value[1], value |-> d.value]
  BY <1>2, <1>4
<1> QED BY <1>6, <1>7 DEF CellOver, d, n

\* The types of its columns are what the constructor finds.
LEMMA ReadColumns ==
  ASSUME NEW types, NEW p, HasCells(types, p)
  PROVE  LET b == NodeBlock(p)
         IN  /\ Get(b, 9, 4) = Len(p.cells)
             /\ VariantOf(Get(b, 13, 1)) = types[1] /\ IsTypeId(Get(b, 13, 1))
             /\ Get(b, 14, 1) = Len(types)
             /\ [j \in 1 .. Len(types) |-> VariantOf(Get(b, 14 + j, 1))] = types
             /\ \A j \in 1 .. Len(types) : IsTypeId(Get(b, 14 + j, 1))
<1> DEFINE b == NodeBlock(p)
           n == Len(types)
<1>1. /\ n \in Nat \ {0} /\ n % U8 = n /\ Len(p.cells) \in Nat \ {0}
      /\ types \in Seq(Type) /\ types # << >> /\ p.cells # << >> /\ NodeShape(types, p)
      /\ CellOver(types, p.cells[1])
  BY HasCellsFields DEF HasCells, NodeWhole
<1>2. \A j \in 1 .. n : types[j] \in Type
  BY <1>1
<1>3. types[1] \in Type
  BY <1>1, <1>2
<1>4. ColumnTypes(p.cells[1].value) = types
  BY <1>1, CellFields
<1>5. /\ Get(b, 9, 4) = Len(p.cells)
      /\ Get(b, 13, 1) = TypeId[types[1]]
      /\ Get(b, 14, 1) = n
  BY <1>1, <1>3, <1>4, ReadHeader
<1>6. \A j \in 1 .. n : Get(b, 14 + j, 1) = TypeId[types[j]]
  BY ReadTypes
<1> HIDE DEF b, n
<1>7. \A t \in Type : VariantOf(TypeId[t]) = t /\ IsTypeId(TypeId[t])
  BY TypeIds DEF IsTypeId
<1>8. VariantOf(Get(b, 13, 1)) = types[1] /\ IsTypeId(Get(b, 13, 1))
  BY <1>3, <1>5, <1>7
<1>9. \A j \in 1 .. n : VariantOf(Get(b, 14 + j, 1)) = types[j] /\ IsTypeId(Get(b, 14 + j, 1))
  BY <1>2, <1>6, <1>7
<1>10. types = [j \in 1 .. n |-> types[j]]
  BY <1>1 DEF n
<1>11. [j \in 1 .. n |-> VariantOf(Get(b, 14 + j, 1))] = types
  BY <1>9, <1>10
<1> QED BY <1>5, <1>8, <1>9, <1>11 DEF b, n

\* What the constructor makes of a block of a node, once it knows how many cells it
\* has, the types of its columns, and whether it is a leaf.
NodeOf(b, cells, key, types, leaf) ==
  [class |-> "node", degree |-> Get(b, 1, 2), parent |-> Get(b, 3, 4), leaf |-> leaf,
   root |-> Get(b, 8, 1),
   cells |-> [i \in 1 .. cells |->
                [key |-> GetVari(b, KeyAt(key, types, i), key),
                 value |-> [j \in 1 .. Len(types) |->
                              GetVari(b, ColumnAt(key, types, i, j), types[j])]]],
   children |-> IF cells = 0 \/ leaf THEN << >>
                ELSE [i \in 1 .. cells + 1 |-> Get(b, ChildAt(key, types, cells, i), 4)]]

\* A node with cells is read as it was written, but for what its strings lose.
LEMMA ReadBack ==
  ASSUME NEW types, NEW p, HasCells(types, p)
  PROVE  /\ NodeFrom(NodeBlock(p)) = ClipNode(types, p)
         /\ NodeReadable(NodeBlock(p))
<1> DEFINE b == NodeBlock(p)
           n == Len(types)
           cells == Len(p.cells)
           key == types[1]
<1>1. /\ n \in Nat \ {0} /\ cells \in Nat \ {0} /\ types \in Seq(Type) /\ types # << >>
      /\ \A i \in 1 .. cells : CellOver(types, p.cells[i])
      /\ NodeShape(types, p) /\ types[1] \in Type
      /\ ~p.leaf => IsList(p.children) /\ Len(p.children) = cells + 1
      /\ p.leaf \in BOOLEAN
  <2>1. types[1] \in Type
    BY HasCellsFields DEF HasCells
  <2> QED BY <2>1, HasCellsFields DEF HasCells, NodeWhole, NodeShape
<1>2. /\ Get(b, 9, 4) = cells
      /\ VariantOf(Get(b, 13, 1)) = key /\ IsTypeId(Get(b, 13, 1))
      /\ Get(b, 14, 1) = n
      /\ [j \in 1 .. n |-> VariantOf(Get(b, 14 + j, 1))] = types
      /\ \A j \in 1 .. n : IsTypeId(Get(b, 14 + j, 1))
  BY ReadColumns
<1>3. /\ Get(b, 1, 2) = p.degree /\ Get(b, 7, 1) = p.leaf
      /\ Get(b, 3, 4) = p.parent /\ Get(b, 8, 1) = p.root
  BY <1>1, ReadHeader, ReadLinks
<1>4. \A i \in 1 .. cells, j \in 0 .. n :
        Get(b, CellPlace(types, i, j), db_sizeof[TypeOf(types, j)]) = ValueOf(p.cells[i], j).data
  BY ReadValues
<1>5. /\ \A i \in 1 .. cells + 1 : KeyAt(key, types, i) = CellPlace(types, i, 0)
      /\ \A i \in 1 .. cells, j \in 1 .. n : ColumnAt(key, types, i, j) = CellPlace(types, i, j)
  BY <1>1, PlacesAre
<1>6. ~p.leaf => \A i \in 1 .. cells + 1 : Get(b, ChildAt(key, types, cells, i), 4) = p.children[i]
  <2>1. \A i : ChildAt(key, types, cells, i) = ChildPlace(types, p, i)
    <3>1. KeyAt(key, types, cells + 1) = CellPlace(types, cells + 1, 0)
      BY <1>1, PlacesAre
    <3> QED BY <3>1 DEF ChildAt, ChildPlace
  <2>2. ~p.leaf => WrittenChildren(p) = 1 .. cells + 1
    BY DEF WrittenChildren
  <2>3. \A i \in WrittenChildren(p) : Get(b, ChildPlace(types, p, i), 4) = p.children[i]
    BY ReadChildren
  <2> HIDE DEF b, cells, key
  <2> QED BY <2>1, <2>2, <2>3
<1> HIDE DEF b, cells, key, n
<1>7. \A i \in 1 .. cells : GetVari(b, KeyAt(key, types, i), key) = Clip(key, p.cells[i].key)
  <2> TAKE i \in 1 .. cells
  <2>1. TypeOf(types, 0) = key /\ ValueOf(p.cells[i], 0) = p.cells[i].key
    BY DEF TypeOf, ValueOf, key
  <2>2. Get(b, KeyAt(key, types, i), db_sizeof[key]) = p.cells[i].key.data
    <3>1. i \in 1 .. cells + 1 /\ 0 \in 0 .. n
      BY <1>1
    <3>2. KeyAt(key, types, i) = CellPlace(types, i, 0)
      BY <1>5, <3>1
    <3> QED BY <1>4, <2>1, <3>1, <3>2
  <2> QED BY <2>2 DEF GetVari, Clip
<1>8. \A i \in 1 .. cells, j \in 1 .. n :
        GetVari(b, ColumnAt(key, types, i, j), types[j]) = Clip(types[j], p.cells[i].value[j])
  <2> TAKE i \in 1 .. cells, j \in 1 .. n
  <2>1. TypeOf(types, j) = types[j] /\ ValueOf(p.cells[i], j) = p.cells[i].value[j]
    BY DEF TypeOf, ValueOf
  <2>2. Get(b, ColumnAt(key, types, i, j), db_sizeof[types[j]]) = p.cells[i].value[j].data
    <3>1. j \in 0 .. n
      BY <1>1
    <3>2. ColumnAt(key, types, i, j) = CellPlace(types, i, j)
      BY <1>5
    <3> QED BY <1>4, <2>1, <3>1, <3>2
  <2> QED BY <2>2 DEF GetVari, Clip
<1> DEFINE read == [i \in 1 .. cells |->
                      [key |-> GetVari(b, KeyAt(key, types, i), key),
                       value |-> [j \in 1 .. Len(types) |->
                                    GetVari(b, ColumnAt(key, types, i, j), types[j])]]]
           kids == IF cells = 0 \/ p.leaf THEN << >>
                   ELSE [i \in 1 .. cells + 1 |-> Get(b, ChildAt(key, types, cells, i), 4)]
<1>9. NodeFrom(b) = [class |-> "node", degree |-> p.degree, parent |-> p.parent, leaf |-> p.leaf,
                     root |-> p.root, cells |-> read, children |-> kids]
  <2>1. NodeFrom(b) = NodeOf(b, Get(b, 9, 4), VariantOf(Get(b, 13, 1)),
                             [j \in 1 .. Get(b, 14, 1) |-> VariantOf(Get(b, 14 + j, 1))],
                             Get(b, 7, 1))
    BY DEF NodeFrom, NodeOf
  <2>2. [j \in 1 .. Get(b, 14, 1) |-> VariantOf(Get(b, 14 + j, 1))] = types
    BY <1>2
  <2>3. NodeFrom(b) = NodeOf(b, cells, key, types, p.leaf)
    BY <1>2, <1>3, <2>1, <2>2
  <2> QED BY <1>3, <2>3 DEF NodeOf
<1>10. read = [i \in 1 .. cells |-> ClipCell(types, p.cells[i])]
  <2>1. ASSUME NEW i \in 1 .. cells
        PROVE  read[i] = ClipCell(types, p.cells[i])
    <3>1. read[i] = [key |-> Clip(key, p.cells[i].key),
                     value |-> [j \in 1 .. n |-> Clip(types[j], p.cells[i].value[j])]]
      BY <1>7, <1>8 DEF n
    <3> QED BY <3>1 DEF ClipCell, key, n
  <2>2. read = [i \in 1 .. cells |-> read[i]]
    OBVIOUS
  <2> HIDE DEF read
  <2> QED BY <2>1, <2>2
<1>11. kids = IF p.leaf THEN << >> ELSE p.children
  <2>1. CASE p.leaf
    BY <2>1
  <2>2. CASE ~p.leaf
    <3>1. p.children = [i \in 1 .. cells + 1 |-> p.children[i]]
      <4>1. p.children \in Seq({p.children[i] : i \in 1 .. Len(p.children)})
        BY <1>1, <2>2 DEF IsList
      <4> QED BY <4>1, <1>1, <2>2, LenProperties
    <3>2. cells # 0
      BY <1>1
    <3> QED BY <1>6, <2>2, <3>1, <3>2
  <2> QED BY <2>1, <2>2
<1> HIDE DEF read, kids
<1>12. NodeFrom(b) = ClipNode(types, p)
  BY <1>9, <1>10, <1>11 DEF ClipNode, cells
<1>13. NodeReadable(b)
  BY <1>2 DEF NodeReadable
<1> QED BY <1>12, <1>13 DEF b

\* No string of the node is cut off when it is read.
PlainCells(p) ==
  \A i \in 1 .. Len(p.cells) : \A j \in 1 .. Len(p.cells[i].value) :
    p.cells[i].value[j].type = "string" => Plain(p.cells[i].value[j].data)

\* A cell whose strings are not cut off is kept.
LEMMA ClipPlain ==
  ASSUME NEW types \in Seq(Type), types # << >>, NEW c, CellOver(types, c),
         \A j \in 1 .. Len(c.value) : c.value[j].type = "string" => Plain(c.value[j].data)
  PROVE  ClipCell(types, c) = c
<1> DEFINE n == Len(types)
<1>1. n \in Nat /\ 1 \in 1 .. n
  BY EmptySeq
<1>2. Len(c.value) = n /\ c.key = c.value[1]
  BY CellFields
<1>3. c = [key |-> c.value[1], value |-> c.value]
      /\ c.value = [j \in 1 .. n |-> [type |-> types[j], data |-> c.value[j].data]]
  BY DEF CellOver
<1>4. ClipCell(types, c)
        = [key |-> Clip(types[1], c.key), value |-> [j \in 1 .. n |-> Clip(types[j], c.value[j])]]
  BY DEF ClipCell
<1> HIDE DEF n
<1>5. ASSUME NEW j \in 1 .. n
      PROVE  Clip(types[j], c.value[j]) = c.value[j]
  <2>1. c.value[j] = [type |-> types[j], data |-> c.value[j].data]
    BY <1>3
  <2>2. c.value[j].type = types[j]
    BY <2>1
  <2>3. types[j] = "string" => CStr(c.value[j].data) = c.value[j].data
    BY <1>2, <2>2 DEF Plain
  <2>4. Clip(types[j], c.value[j]) = [type |-> types[j], data |-> c.value[j].data]
    BY <2>3 DEF Clip
  <2> QED BY <2>1, <2>4
<1>6. [j \in 1 .. n |-> Clip(types[j], c.value[j])] = c.value
  <2>1. c.value = [j \in 1 .. n |-> c.value[j]]
    BY <1>3
  <2> QED BY <2>1, <1>5
<1>7. Clip(types[1], c.key) = c.value[1]
  BY <1>1, <1>2, <1>5
<1> QED BY <1>3, <1>4, <1>6, <1>7

\* A node that has no cells is read as it was written.
LEMMA ReadEmpty ==
  ASSUME NEW types \in Seq(Type), types # << >>, NEW p, NodeWhole(types, p), NodeAsserts(p),
         p.cells = << >>
  PROVE  NodeFrom(NodeBlock(p)) = p /\ NodeReadable(NodeBlock(p))
<1> DEFINE b == NodeBlock(p)
<1>1. types[1] \in Type /\ NodeShape(types, p) /\ Len(p.cells) = 0
  BY EmptySeq DEF NodeWhole
<1>2. /\ Get(b, 9, 4) = 0 /\ Get(b, 1, 2) = p.degree /\ Get(b, 7, 1) = p.leaf
      /\ Get(b, 3, 4) = p.parent /\ Get(b, 8, 1) = p.root
  BY <1>1, ReadHeader, ReadLinks
<1>3. p.children = << >>
  BY DEF NodeAsserts, NodeWhole
<1>4. p = [class |-> "node", degree |-> p.degree, parent |-> p.parent, leaf |-> p.leaf,
           root |-> p.root, cells |-> << >>, children |-> << >>]
  BY <1>3 DEF NodeWhole
<1> HIDE DEF b
<1> DEFINE key == VariantOf(Get(b, 13, 1))
           row == [j \in 1 .. Get(b, 14, 1) |-> VariantOf(Get(b, 14 + j, 1))]
           read == [i \in 1 .. 0 |->
                      [key |-> GetVari(b, KeyAt(key, row, i), key),
                       value |-> [j \in 1 .. Len(row) |->
                                    GetVari(b, ColumnAt(key, row, i, j), row[j])]]]
<1>5. NodeFrom(b) = [class |-> "node", degree |-> p.degree, parent |-> p.parent,
                     leaf |-> p.leaf, root |-> p.root, cells |-> read, children |-> << >>]
  <2>1. NodeFrom(b) = NodeOf(b, Get(b, 9, 4), key, row, Get(b, 7, 1))
    BY DEF NodeFrom, NodeOf
  <2> HIDE DEF key, row
  <2>2. NodeFrom(b) = NodeOf(b, 0, key, row, p.leaf)
    BY <1>2, <2>1
  <2> QED BY <1>2, <2>2 DEF NodeOf
<1>6. read = << >>
  <2>1. read = [i \in 1 .. 0 |-> read[i]]
    OBVIOUS
  <2> HIDE DEF read
  <2>2. Len(read) = 0 /\ read \in Seq({read[i] : i \in 1 .. 0})
    BY <2>1, FunctionIsList
  <2> QED BY <2>2, EmptySeq
<1> HIDE DEF read
<1>7. NodeReadable(b)
  BY <1>2 DEF NodeReadable
<1> QED BY <1>4, <1>5, <1>6, <1>7 DEF b

\* A node that is read is like the nodes that the callers keep.
LEMMA ReadWhole ==
  ASSUME NEW types \in Seq(Type), types # << >>, NEW p, NodeWhole(types, p), NodeAsserts(p),
         NodeReadable(NodeBlock(p))
  PROVE  NodeWhole(types, NodeFrom(NodeBlock(p)))
<1> DEFINE b == NodeBlock(p)
           q == NodeFrom(b)
           n == Len(p.cells)
<1>1. types[1] \in Type /\ NodeShape(types, p)
  BY EmptySeq DEF NodeWhole
<1>2. n \in Nat
  BY <1>1, LenProperties DEF NodeShape, IsList
<1>3. NodeShape(types, q)
  BY <1>1, ReadNode
<1>4. /\ Get(b, 9, 4) = n /\ Get(b, 1, 2) = p.degree /\ Get(b, 7, 1) = p.leaf
      /\ Get(b, 3, 4) = p.parent /\ Get(b, 8, 1) = p.root
  BY <1>1, ReadHeader, ReadLinks
<1>5. q = [class |-> "node", degree |-> q.degree, parent |-> q.parent, leaf |-> q.leaf,
           root |-> q.root, cells |-> q.cells, children |-> q.children]
  BY DEF NodeFrom
<1> DEFINE key == VariantOf(Get(b, 13, 1))
           row == [j \in 1 .. Get(b, 14, 1) |-> VariantOf(Get(b, 14 + j, 1))]
           kids == [i \in 1 .. n + 1 |-> Get(b, ChildAt(key, row, n, i), 4)]
           cell(i) == [key |-> GetVari(b, KeyAt(key, row, i), key),
                       value |-> [j \in 1 .. Len(row) |->
                                    GetVari(b, ColumnAt(key, row, i, j), row[j])]]
           read == [i \in 1 .. n |-> cell(i)]
<1>6. /\ q.parent = p.parent /\ q.leaf = p.leaf /\ q.root = p.root
      /\ q.children = IF n = 0 \/ p.leaf THEN << >> ELSE kids
      /\ q.cells = read
  <2>1. q = NodeOf(b, Get(b, 9, 4), key, row, Get(b, 7, 1))
    BY DEF NodeFrom, NodeOf
  <2> HIDE DEF key, row, n, q, b
  <2>2. q = NodeOf(b, n, key, row, p.leaf)
    BY <1>4, <2>1
  <2> QED BY <1>4, <2>2 DEF NodeOf
<1>7. Len(q.cells) = n /\ (q.cells = << >> <=> n = 0)
  <2>1. read = [i \in 1 .. n |-> read[i]]
    OBVIOUS
  <2> HIDE DEF read
  <2>2. Len(read) = n /\ read \in Seq({read[i] : i \in 1 .. n})
    BY <1>2, <2>1, FunctionIsList
  <2> QED BY <1>6, <2>2, EmptySeq
<1>8. IsList(kids) /\ Len(kids) = n + 1
  <2>1. kids = [i \in 1 .. n + 1 |-> kids[i]] /\ n + 1 \in Nat
    BY <1>2
  <2> HIDE DEF kids
  <2> QED BY <2>1, FunctionIsList
<1>9. ASSUME Len(types) < U8
      PROVE  \A i \in 1 .. Len(q.cells) : CellOver(types, q.cells[i])
  <2>1. CASE p.cells = << >>
    <3>1. n = 0
      BY <2>1
    <3> HIDE DEF n
    <3> QED BY <1>7, <3>1
  <2>2. CASE p.cells # << >>
    <3>1. HasCells(types, p)
      BY <1>9, <2>2 DEF HasCells
    <3>2. q = ClipNode(types, p)
      BY <3>1, ReadBack
    <3>3. /\ q.cells = [i \in 1 .. n |-> ClipCell(types, p.cells[i])]
          /\ \A i \in 1 .. n : CellOver(types, p.cells[i])
      BY <3>1, <3>2, HasCellsFields DEF ClipNode
    <3> HIDE DEF q, n
    <3>4. \A i \in 1 .. n : CellOver(types, ClipCell(types, p.cells[i]))
      BY <3>3, ClipCellOver
    <3> QED BY <1>7, <3>3, <3>4
  <2> QED BY <2>1, <2>2
<1>10. p.root \in BOOLEAN /\ p.parent = (IF p.root THEN PGID_INVALID ELSE Parent)
  BY DEF NodeWhole
<1>11. q.leaf => q.children = << >>
  BY <1>6
<1>12. q.root /\ q.cells = << >> => q.children = << >>
  <2> HIDE DEF q, kids, n
  <2> QED BY <1>6, <1>7
<1>13. ~q.leaf /\ q.cells # << >> => IsList(q.children) /\ Len(q.children) = Len(q.cells) + 1
  <2> HIDE DEF q, kids, n
  <2> QED BY <1>6, <1>7, <1>8
<1> HIDE DEF q
<1> QED BY <1>3, <1>5, <1>6, <1>9, <1>10, <1>11, <1>12, <1>13 DEF NodeWhole, q

\* A node of a table with less than 256 columns whose strings are not cut off is read
\* as it was written.
LEMMA ReadKept ==
  ASSUME NEW types \in Seq(Type), types # << >>, NEW p, NodeWhole(types, p), NodeAsserts(p),
         Len(types) < U8, PlainCells(p)
  PROVE  NodeFrom(NodeBlock(p)) = p /\ NodeReadable(NodeBlock(p))
<1>1. CASE p.cells = << >>
  BY <1>1, ReadEmpty
<1>2. CASE p.cells # << >>
  <2>1. HasCells(types, p)
    BY <1>2 DEF HasCells
  <2>2. NodeFrom(NodeBlock(p)) = ClipNode(types, p) /\ NodeReadable(NodeBlock(p))
    BY <2>1, ReadBack
  <2>3. \A i \in 1 .. Len(p.cells) : ClipCell(types, p.cells[i]) = p.cells[i]
    <3> TAKE i \in 1 .. Len(p.cells)
    <3>1. CellOver(types, p.cells[i])
      BY <2>1, HasCellsFields
    <3> QED BY <3>1, ClipPlain DEF PlainCells
  <2>4. p.cells = [i \in 1 .. Len(p.cells) |-> p.cells[i]]
    BY LenProperties DEF NodeWhole, NodeShape, IsList
  <2>5. p.leaf => p.children = << >>
    BY DEF NodeWhole
  <2>6. [i \in 1 .. Len(p.cells) |-> ClipCell(types, p.cells[i])] = p.cells
    BY <2>3, <2>4
  <2>7. p = [class |-> "node", degree |-> p.degree, parent |-> p.parent, leaf |-> p.leaf,
             root |-> p.root, cells |-> p.cells, children |-> p.children]
        /\ p.leaf \in BOOLEAN
    BY DEF NodeWhole, NodeShape
  <2>8. ClipNode(types, p) = p
    BY <2>5, <2>6, <2>7 DEF ClipNode
  <2> QED BY <2>2, <2>8
<1> QED BY <1>1, <1>2

-----------------------------------------------------------------------------
(* A TablePage and an FSM page that are read *)

\* What the callers keep of the TablePage.
TableWhole(types, p) ==
  /\ types # << >>
  /\ p = [class |-> "table", types |-> types, btreePageID |-> p.btreePageID,
          numTuples |-> p.numTuples]
  /\ TableBytes(Len(types)) <= PG_SZ

\* A TablePage is read as it was written, and its constructor takes it.
LEMMA ReadTableWhole ==
  ASSUME NEW types \in Seq(Type), NEW p, TableWhole(types, p)
  PROVE  LET b == TableBlock(p)
         IN  Get(b, 1, 2) = Len(types) /\ Len(types) > 0 /\ TableFrom(b) = p
<1> DEFINE b == TableBlock(p)
           n == Len(types)
           T(j) == Put(2 + j, 1, TypeId[types[j]])
<1>1. n \in Nat \ {0} /\ n % U16 = n /\ \A j \in 1 .. n : types[j] \in Type
  <2>1. n \in Nat \ {0} /\ \A j \in 1 .. n : types[j] \in Type
    BY EmptySeq DEF TableWhole
  <2>2. n < U16
    <3>1. PG_SZ < 65536 /\ PG_SZ \in Nat
      BY PageAssumption, SizesAssumption DEF U16
    <3>2. 15 + n <= PG_SZ
      BY DEF TableWhole, TableBytes
    <3> HIDE DEF n
    <3> QED BY <2>1, <3>1, <3>2 DEF U16
  <2> HIDE DEF n
  <2> QED BY <2>1, <2>2 DEF U16
<1>2. p.types = types
  BY DEF TableWhole
<1>3. b = {Put(0, 1, TABLE_PAGE), Put(1, 2, n)} \cup {T(j) : j \in 1 .. n}
            \cup {Put(3 + n, 4, p.btreePageID), Put(7 + n, 8, p.numTuples)}
  BY <1>1, <1>2 DEF TableBlock
<1> HIDE DEF b, n
<1>4. ASSUME NEW f \in b
      PROVE  \/ f = Put(0, 1, TABLE_PAGE) \/ f = Put(1, 2, n)
             \/ \E j \in 1 .. n : f = T(j)
             \/ f = Put(3 + n, 4, p.btreePageID) \/ f = Put(7 + n, 8, p.numTuples)
  BY <1>3
<1>5. \A at, width, v : Put(at, width, v).at = at /\ Put(at, width, v).width = width
  BY DEF Put
<1>6. \A j : T(j).at = 2 + j /\ T(j).width = 1
  BY <1>5
<1>7. Get(b, 1, 2) = n
  <2>1. Put(1, 2, n) \in b
    BY <1>3
  <2>2. ASSUME NEW f \in b, f.at = 1, f.width = 2
        PROVE  f = Put(1, 2, n)
    <3> HIDE DEF T
    <3> QED BY <1>1, <1>4, <1>5, <1>6, <2>2
  <2> QED BY <2>1, <2>2, GetWritten
<1>8. ASSUME NEW j \in 1 .. n
      PROVE  Get(b, 2 + j, 1) = TypeId[types[j]]
  <2>1. T(j) \in b
    BY <1>3
  <2>2. ASSUME NEW f \in b, f.at = 2 + j, f.width = 1
        PROVE  f = T(j)
    <3> HIDE DEF T
    <3>1. ASSUME NEW k \in 1 .. n, f = T(k)
          PROVE  f = T(j)
      <4>1. 2 + k = 2 + j
        BY <1>6, <2>2, <3>1
      <4>2. k = j
        BY <1>1, <4>1
      <4> QED BY <3>1, <4>2
    <3>2. f # Put(0, 1, TABLE_PAGE)
      BY <1>1, <1>5, <2>2
    <3>3. f # Put(1, 2, n) /\ f # Put(3 + n, 4, p.btreePageID) /\ f # Put(7 + n, 8, p.numTuples)
      BY <1>5, <2>2
    <3> QED BY <1>4, <3>1, <3>2, <3>3
  <2> QED BY <2>1, <2>2, GetWritten
<1>9. Get(b, 3 + n, 4) = p.btreePageID
  <2>1. Put(3 + n, 4, p.btreePageID) \in b
    BY <1>3
  <2>2. ASSUME NEW f \in b, f.at = 3 + n, f.width = 4
        PROVE  f = Put(3 + n, 4, p.btreePageID)
    <3> HIDE DEF T
    <3> QED BY <1>4, <1>5, <1>6, <2>2
  <2> QED BY <2>1, <2>2, GetWritten
<1>10. Get(b, 7 + n, 8) = p.numTuples
  <2>1. Put(7 + n, 8, p.numTuples) \in b
    BY <1>3
  <2>2. ASSUME NEW f \in b, f.at = 7 + n, f.width = 8
        PROVE  f = Put(7 + n, 8, p.numTuples)
    <3> HIDE DEF T
    <3> QED BY <1>4, <1>5, <1>6, <2>2
  <2> QED BY <2>1, <2>2, GetWritten
<1>11. [j \in 1 .. n |-> VariantOf(Get(b, 2 + j, 1))] = types
  <2>1. \A j \in 1 .. n : VariantOf(Get(b, 2 + j, 1)) = types[j]
    BY <1>1, <1>8, TypeIds
  <2>2. types = [j \in 1 .. n |-> types[j]]
    BY DEF n
  <2> QED BY <2>1, <2>2
<1>12. TableFrom(b) = [class |-> "table", types |-> types, btreePageID |-> p.btreePageID,
                       numTuples |-> p.numTuples]
  BY <1>7, <1>9, <1>10, <1>11 DEF TableFrom
<1>13. TableFrom(b) = p
  BY <1>12 DEF TableWhole
<1> QED BY <1>1, <1>7, <1>13 DEF b, n

\* The bits from 0 to MaxBits that are free, and the others behind them.
FreeBits(used) == Cardinality((0 .. MaxBits) \ used) + BlocksInPage - 1 - MaxBits

\* What FSMPage keeps: bits of the bitmap, and the number of those that are free.
FSMWhole(p) ==
  /\ p = [class |-> "fsm", next |-> p.next, free |-> p.free, size |-> p.size, used |-> p.used]
  /\ p.size \in {BlocksInPage, 8 * (PG_SZ - 9)}
  /\ p.used \subseteq 0 .. p.size - 1
  /\ p.free = FreeBits(p.used)

\* The sizes of the bitmap.
LEMMA BitSizes ==
  /\ BlocksInPage \in Nat \ {0} /\ MaxBits \in Nat /\ MaxBits < BlocksInPage
  /\ 8 * (PG_SZ - 9) = BlocksInPage + 24
  /\ 8 * (BlocksInPage \div 8) = BlocksInPage
  /\ 8 * ((8 * (PG_SZ - 9)) \div 8) = 8 * (PG_SZ - 9)
<1>1. PG_SZ \in Nat /\ BlocksInPage = (PG_SZ - 12) * 8 /\ MaxBits \in 0 .. BlocksInPage - 1
  BY SizesAssumption, BitsAssumption DEF BlocksInPage
<1>2. BlocksInPage \in Int
  BY <1>1
<1>3. \A k \in Int : (8 * k) \div 8 = k /\ (k * 8) \div 8 = k
  OBVIOUS
<1>4. (8 * (PG_SZ - 9)) \div 8 = PG_SZ - 9 /\ ((PG_SZ - 12) * 8) \div 8 = PG_SZ - 12
  <2>1. PG_SZ - 9 \in Int /\ PG_SZ - 12 \in Int
    BY <1>1
  <2> QED BY <1>3, <2>1
<1>5. 8 * (BlocksInPage \div 8) = BlocksInPage
  BY <1>1, <1>4
<1>6. 8 * (PG_SZ - 9) = BlocksInPage + 24
  BY <1>1
<1> QED BY <1>1, <1>2, <1>4, <1>5, <1>6

\* An FSM page is read with the bits and the counter that were written, whatever
\* the buffer holds behind them.
LEMMA ReadFSMWhole ==
  ASSUME NEW p, FSMWhole(p), NEW garbage
  PROVE  LET q == FSMFrom(FSMBlock(p), garbage)
         IN  /\ FSMWhole(q)
             /\ q.next = p.next /\ q.free = p.free /\ q.size >= p.size
             /\ q.used \cap 0 .. BlocksInPage - 1 = p.used \cap 0 .. BlocksInPage - 1
<1> DEFINE b == FSMBlock(p)
           w == p.size \div 8
           bits == Put(9, w, p.used)
           size == 8 * (PG_SZ - 9)
           B == BlocksInPage
           q == FSMFrom(b, garbage)
<1>1. b = {Put(0, 1, FSM_PAGE), Put(1, 4, p.next), Put(5, 4, p.free), bits}
  BY DEF FSMBlock
<1>2. \A at, width, v : /\ Put(at, width, v).at = at /\ Put(at, width, v).width = width
                        /\ Put(at, width, v).value = v
  BY DEF Put
<1>3. /\ B \in Nat \ {0} /\ MaxBits \in Nat /\ MaxBits < B /\ size = B + 24
      /\ p.size \in {B, size} /\ 8 * w = p.size
      /\ p.used \subseteq 0 .. p.size - 1 /\ p.free = FreeBits(p.used)
  <2>1. p.size \in {B, size} /\ p.used \subseteq 0 .. p.size - 1 /\ p.free = FreeBits(p.used)
    BY DEF FSMWhole
  <2>2. 8 * (B \div 8) = B /\ 8 * (size \div 8) = size
    BY BitSizes
  <2>3. 8 * w = p.size
    <3> HIDE DEF B, size
    <3> QED BY <2>1, <2>2
  <2> QED BY <2>1, <2>3, BitSizes
<1> HIDE DEF b, w, size, B
<1>4. Get(b, 1, 4) = p.next
  <2>1. Put(1, 4, p.next) \in b /\ \A f \in b : f.at = 1 /\ f.width = 4 => f = Put(1, 4, p.next)
    BY <1>1, <1>2
  <2> QED BY <2>1, GetWritten
<1>5. Get(b, 5, 4) = p.free
  <2>1. Put(5, 4, p.free) \in b /\ \A f \in b : f.at = 5 /\ f.width = 4 => f = Put(5, 4, p.free)
    BY <1>1, <1>2
  <2> QED BY <2>1, GetWritten
<1>6. (CHOOSE f \in b : f.at = 9) = bits
  <2>1. bits \in b /\ bits.at = 9 /\ \A f \in b : f.at = 9 => f = bits
    BY <1>1, <1>2
  <2> HIDE DEF bits
  <2> QED BY <2>1
<1> DEFINE more == garbage \cap 8 * w .. size - 1
<1>7. q = [class |-> "fsm", next |-> p.next, free |-> p.free, size |-> size,
           used |-> p.used \cup more]
  <2>1. bits.value = p.used /\ bits.width = w
    BY <1>2
  <2> HIDE DEF bits
  <2> QED BY <1>4, <1>5, <1>6, <2>1 DEF FSMFrom, size
<1>8. \A i \in more : i \in B .. size - 1
  BY <1>3
<1> HIDE DEF more, q
<1>9. q.used \subseteq 0 .. q.size - 1
  BY <1>3, <1>7, <1>8
<1>10. (0 .. MaxBits) \ q.used = (0 .. MaxBits) \ p.used
  BY <1>3, <1>7, <1>8
<1>11. q.free = FreeBits(q.used)
  BY <1>3, <1>7, <1>10 DEF FreeBits
<1>12. q.used \cap 0 .. B - 1 = p.used \cap 0 .. B - 1
  BY <1>3, <1>7, <1>8
<1>13. q.size >= p.size
  BY <1>3, <1>7
<1>14. q = [class |-> "fsm", next |-> q.next, free |-> q.free, size |-> q.size, used |-> q.used]
       /\ q.next = p.next /\ q.free = p.free /\ q.size = size
  BY <1>7
<1>15. FSMWhole(q)
  BY <1>9, <1>11, <1>14 DEF FSMWhole, size
<1> QED BY <1>12, <1>13, <1>14, <1>15 DEF q, b, B

-----------------------------------------------------------------------------
(* A SchemaPage that is read *)

\* The k-th of the numbers in kept.
Place(kept, i) == Cardinality({j \in kept : j <= i})
Nth(kept, k) == CHOOSE i \in kept : Place(kept, i) = k

\* Each number in kept is the k-th for one k.
LEMMA InOrder ==
  ASSUME NEW n \in Nat, NEW kept \in SUBSET (1 .. n)
  PROVE  /\ Cardinality(kept) \in Nat /\ Cardinality(kept) <= n
         /\ \A k \in 1 .. Cardinality(kept) : Nth(kept, k) \in kept
         /\ \A k, l \in 1 .. Cardinality(kept) : Nth(kept, k) = Nth(kept, l) => k = l
         /\ \A i \in kept : \E k \in 1 .. Cardinality(kept) : Nth(kept, k) = i
<1> DEFINE C == Cardinality(kept)
           P(i) == Place(kept, i)
<1>1. IsFiniteSet(kept) /\ C \in Nat /\ C <= n
  <2>1. IsFiniteSet(1 .. n) /\ Cardinality(1 .. n) = n
    BY FS_Interval, IntervalCount
  <2>2. IsFiniteSet(kept) /\ C <= n
    BY <2>1, FS_Subset
  <2> QED BY <2>2, FS_CardinalityType
<1>2. ASSUME NEW i \in kept
      PROVE  P(i) \in 1 .. C
  <2> DEFINE U == {j \in kept : j <= i}
  <2>1. U \in SUBSET kept /\ i \in U
    BY <1>1
  <2> HIDE DEF U
  <2>2. IsFiniteSet(U) /\ Cardinality(U) <= C
    BY <1>1, <2>1, FS_Subset
  <2>3. Cardinality(U) \in Nat
    BY <2>2, FS_CardinalityType
  <2>4. Cardinality(U) # 0
    BY <2>1, <2>2, FS_EmptySet
  <2>5. P(i) = Cardinality(U)
    BY DEF Place, U
  <2> HIDE DEF C, P
  <2> QED BY <1>1, <2>2, <2>3, <2>4, <2>5
<1>3. ASSUME NEW i \in kept, NEW k \in kept, i < k
      PROVE  P(i) # P(k)
  <2> DEFINE U == {j \in kept : j <= i}
             V == {j \in kept : j <= k}
  <2>1. U \in SUBSET V /\ k \in V /\ k \notin U /\ V \in SUBSET kept
    <3>1. i \in Int /\ k \in Int /\ \A j \in kept : j \in Int
      OBVIOUS
    <3>2. \A j \in kept : j <= i => j <= k
      BY <1>3, <3>1
    <3>3. k <= k /\ ~(k <= i)
      BY <1>3, <3>1
    <3> QED BY <3>2, <3>3
  <2> HIDE DEF U, V
  <2>2. IsFiniteSet(V)
    BY <1>1, <2>1, FS_Subset
  <2>3. Cardinality(V) = Cardinality(U) => V = U
    BY <2>1, <2>2, FS_Subset
  <2>4. Cardinality(U) # Cardinality(V)
    BY <2>1, <2>3
  <2> QED BY <2>4 DEF Place, U, V
<1>4. \A i, k \in kept : P(i) = P(k) => i = k
  <2> SUFFICES ASSUME NEW i \in kept, NEW k \in kept, P(i) = P(k)
               PROVE  i = k
    OBVIOUS
  <2> HIDE DEF P
  <2>1. ~(i < k) /\ ~(k < i)
    BY <1>3
  <2>2. i \in Int /\ k \in Int
    OBVIOUS
  <2> QED BY <2>1, <2>2
<1> DEFINE f == [i \in kept |-> P(i)]
<1>5. f \in Injection(kept, 1 .. C)
  <2>1. f \in [kept -> 1 .. C]
    BY <1>2
  <2>2. \A i, k \in kept : f[i] = f[k] => i = k
    BY <1>4
  <2> HIDE DEF f, P, C
  <2> QED BY <2>1, <2>2 DEF Injection, IsInjective
<1>6. \A k \in 1 .. C : \E i \in kept : P(i) = k
  <2>1. IsFiniteSet(1 .. C) /\ Cardinality(1 .. C) = C
    <3> HIDE DEF C
    <3> QED BY <1>1, FS_Interval, IntervalCount
  <2>2. f \in Surjection(kept, 1 .. C)
    <3> HIDE DEF f
    <3>1. Cardinality(kept) = Cardinality(1 .. C)
      BY <2>1
    <3> HIDE DEF C
    <3> QED BY <1>5, <2>1, <3>1, FS_Injection
  <2>3. \A k \in 1 .. C : \E i \in kept : f[i] = k
    <3> HIDE DEF f, C
    <3> QED BY <2>2 DEF Surjection
  <2> HIDE DEF C, P
  <2> QED BY <2>3
<1>7. \A k \in 1 .. C : Nth(kept, k) \in kept /\ P(Nth(kept, k)) = k
  <2> TAKE k \in 1 .. C
  <2>1. \E i \in kept : Place(kept, i) = k
    BY <1>6
  <2> QED BY <2>1 DEF Nth
<1>8. \A i \in kept : Nth(kept, P(i)) = i
  <2> TAKE i \in kept
  <2>1. P(i) \in 1 .. C
    BY <1>2
  <2>2. Nth(kept, P(i)) \in kept /\ P(Nth(kept, P(i))) = P(i)
    <3> HIDE DEF P, C
    <3> QED BY <1>7, <2>1
  <2> HIDE DEF P
  <2> QED BY <1>4, <2>2
<1> HIDE DEF P, C
<1>9. \A k, l \in 1 .. C : Nth(kept, k) = Nth(kept, l) => k = l
  BY <1>7
<1>10. \A i \in kept : \E k \in 1 .. C : Nth(kept, k) = i
  BY <1>2, <1>8
<1> QED BY <1>1, <1>7, <1>9, <1>10 DEF C

\* An entry of the SchemaPage.
EntryOver(e) == e = [name |-> e.name, pageID |-> e.pageID]

\* What the SchemaPage keeps: it has room for its entries, and their names are different.
SchemaWhole(p) ==
  /\ p = [class |-> "schema", tables |-> p.tables]
  /\ IsList(p.tables)
  /\ SchemaBytes(Len(p.tables)) <= PG_SZ
  /\ \A i \in 1 .. Len(p.tables) : EntryOver(p.tables[i])
  /\ \A i, j \in 1 .. Len(p.tables) : p.tables[i].name = p.tables[j].name => i = j

\* A SchemaPage has less than 256 entries and does not fill its page.
LEMMA SchemaNumbers ==
  ASSUME NEW n \in Nat, SchemaBytes(n) <= PG_SZ
  PROVE  n % U8 = n /\ SchemaBytes(n) < PG_SZ
<1>1. PG_SZ \in Nat /\ EntrySize \in Nat /\ EntrySize >= 1
  BY SizesAssumption DEF EntrySize
<1>2. n * EntrySize \in Nat /\ n <= n * EntrySize
  BY <1>1
<1> DEFINE x == n * EntrySize
<1>3. SchemaBytes(n) = 2 + x /\ x \in Nat /\ n <= x
  BY <1>2 DEF SchemaBytes
<1> HIDE DEF x
<1>4. n \in 0 .. PG_SZ
  BY <1>1, <1>3
<1>5. n < U8 /\ SchemaBytes(n) # PG_SZ
  BY <1>4, PageAssumption
<1> QED BY <1>1, <1>3, <1>5 DEF U8

\* Its entries are found where they were written.
LEMMA ReadEntries ==
  ASSUME NEW p, SchemaWhole(p)
  PROVE  LET b == SchemaBlock(p)
         IN  /\ Len(p.tables) \in Nat
             /\ Get(b, 1, 1) = Len(p.tables)
             /\ \A i \in 1 .. Len(p.tables) :
                  /\ Get(b, 2 + (i - 1) * EntrySize, MAX_STR_SZ) = p.tables[i].name
                  /\ Get(b, 2 + (i - 1) * EntrySize + MAX_STR_SZ, 4) = p.tables[i].pageID
<1> DEFINE b == SchemaBlock(p)
           n == Len(p.tables)
           E == EntrySize
           M == MAX_STR_SZ
           N(i) == Put(2 + (i - 1) * E, M, p.tables[i].name)
           I(i) == Put(2 + (i - 1) * E + M, 4, p.tables[i].pageID)
<1>1. n \in Nat /\ n % U8 = n
  <2>1. n \in Nat
    BY LenProperties DEF SchemaWhole, IsList
  <2>2. SchemaBytes(n) <= PG_SZ
    BY DEF SchemaWhole
  <2> HIDE DEF n
  <2> QED BY <2>1, <2>2, SchemaNumbers
<1>2. b = {Put(0, 1, SCHEMA_PAGE), Put(1, 1, n)} \cup UNION {{N(i), I(i)} : i \in 1 .. n}
  BY <1>1 DEF SchemaBlock
<1>3. /\ M \in Nat \ {0} /\ E = M + 4
      /\ \A i \in 1 .. n : (i - 1) * E \in Nat
  <2>1. M \in Nat \ {0} /\ E = M + 4 /\ E \in Nat
    BY SizesAssumption DEF EntrySize
  <2>2. \A i \in 1 .. n : i - 1 \in Nat
    BY <1>1
  <2>3. \A x, y \in Nat : x * y \in Nat
    OBVIOUS
  <2> HIDE DEF M, E, n
  <2> QED BY <2>1, <2>2, <2>3
<1>4. \A at, width, v : Put(at, width, v).at = at /\ Put(at, width, v).width = width
  BY DEF Put
<1>5. \A i : N(i).at = 2 + (i - 1) * E /\ I(i).at = 2 + (i - 1) * E + M
  BY <1>4
<1> HIDE DEF b, n, N, I, E, M
<1>6. ASSUME NEW f \in b
      PROVE  \/ f = Put(0, 1, SCHEMA_PAGE) \/ f = Put(1, 1, n)
             \/ \E i \in 1 .. n : f = N(i) \/ f = I(i)
  BY <1>2
<1>7. \A i \in 1 .. n : N(i) \in b /\ I(i) \in b
  BY <1>2
<1>8. \A i \in 1 .. n : /\ N(i).at \in Int /\ N(i).at >= 2
                        /\ I(i).at \in Int /\ I(i).at >= 2
  <2> TAKE i \in 1 .. n
  <2> DEFINE x == (i - 1) * E
  <2>1. x \in Nat /\ N(i).at = 2 + x /\ I(i).at = 2 + x + M
    BY <1>3, <1>5
  <2> HIDE DEF x
  <2> QED BY <1>3, <2>1
<1>9. ASSUME NEW i \in 1 .. n, NEW k \in 1 .. n
      PROVE  /\ N(i).at = N(k).at => i = k
             /\ I(i).at = I(k).at => i = k
             /\ N(i).at # I(k).at
  <2> DEFINE a == i - 1
             c == k - 1
             x == a * E
             y == c * E
  <2>1. /\ N(i).at = 2 + x /\ I(i).at = 2 + x + M /\ N(k).at = 2 + y /\ I(k).at = 2 + y + M
        /\ x \in Nat /\ y \in Nat /\ a \in Nat /\ c \in Nat
    BY <1>1, <1>3, <1>5
  <2>2. E \in Nat /\ 0 \in 0 .. E - 1 /\ M \in 0 .. E - 1 /\ M # 0
    BY <1>3
  <2>3. x = y => i = k
    <3> SUFFICES ASSUME x = y
                 PROVE  i = k
      OBVIOUS
    <3>1. a * E + 0 = c * E + 0
      BY <2>1
    <3> HIDE DEF a, c
    <3>2. a = c
      BY <2>1, <2>2, <3>1, Digits
    <3> QED BY <3>2, <1>1 DEF a, c
  <2>4. x + 0 # y + M
    <3> HIDE DEF a, c
    <3> SUFFICES ASSUME x + 0 = y + M
                 PROVE  FALSE
      OBVIOUS
    <3>1. a * E + 0 = c * E + M
      OBVIOUS
    <3>2. a \in Nat /\ c \in Nat
      BY <2>1
    <3> HIDE DEF E, M
    <3>3. 0 = M
      BY <2>2, <3>1, <3>2, Digits
    <3> QED BY <2>2, <3>3
  <2> HIDE DEF x, y
  <2>5. 2 + x # 2 + y + M
    BY <1>3, <2>1, <2>4
  <2>6. 2 + x = 2 + y => i = k
    BY <2>1, <2>3
  <2>7. 2 + x + M = 2 + y + M => i = k
    BY <1>3, <2>1, <2>3
  <2> QED BY <2>1, <2>5, <2>6, <2>7
<1>10. Get(b, 1, 1) = n
  <2>1. Put(1, 1, n) \in b
    BY <1>2
  <2>2. ASSUME NEW f \in b, f.at = 1
        PROVE  f = Put(1, 1, n)
    <3>1. f # Put(0, 1, SCHEMA_PAGE)
      BY <1>4, <2>2
    <3>2. ASSUME NEW i \in 1 .. n, f = N(i) \/ f = I(i)
          PROVE  FALSE
      BY <1>8, <2>2, <3>2
    <3> QED BY <1>6, <3>1, <3>2
  <2> QED BY <2>1, <2>2, GetWritten
<1>11. ASSUME NEW i \in 1 .. n, NEW f \in b
       PROVE  /\ f.at = N(i).at => f = N(i)
              /\ f.at = I(i).at => f = I(i)
  <2>1. CASE f = Put(0, 1, SCHEMA_PAGE) \/ f = Put(1, 1, n)
    <3>1. f.at = 0 \/ f.at = 1
      BY <1>4, <2>1
    <3> QED BY <1>8, <3>1
  <2>2. ASSUME NEW k \in 1 .. n, f = N(k) \/ f = I(k)
        PROVE  /\ f.at = N(i).at => f = N(i)
               /\ f.at = I(i).at => f = I(i)
    BY <1>9, <2>2
  <2> QED BY <1>6, <2>1, <2>2
<1>12. ASSUME NEW i \in 1 .. n
       PROVE  /\ Get(b, 2 + (i - 1) * E, M) = p.tables[i].name
              /\ Get(b, 2 + (i - 1) * E + M, 4) = p.tables[i].pageID
  <2> DEFINE x == 2 + (i - 1) * E
             y == 2 + (i - 1) * E + M
             u == p.tables[i].name
             v == p.tables[i].pageID
  <2>1. N(i) = Put(x, M, u) /\ I(i) = Put(y, 4, v) /\ N(i).at = x /\ I(i).at = y
    BY <1>5 DEF N, I
  <2> HIDE DEF x, y, u, v
  <2>2. Put(x, M, u) \in b /\ \A f \in b : f.at = x /\ f.width = M => f = Put(x, M, u)
    BY <1>7, <1>11, <2>1
  <2>3. Put(y, 4, v) \in b /\ \A f \in b : f.at = y /\ f.width = 4 => f = Put(y, 4, v)
    BY <1>7, <1>11, <2>1
  <2>4. Get(b, x, M) = u
    BY <2>2, GetWritten
  <2>5. Get(b, y, 4) = v
    BY <2>3, GetWritten
  <2> QED BY <2>4, <2>5 DEF x, y, u, v
<1> QED BY <1>1, <1>10, <1>12 DEF b, n, E, M

\* A SchemaPage is read with different names, and with the entries that were written if
\* no name is cut off.
LEMMA ReadSchemaWhole ==
  ASSUME NEW p, SchemaWhole(p)
  PROVE  LET b == SchemaBlock(p)
             q == SchemaFrom(b)
         IN  /\ SchemaBytes(Get(b, 1, 1)) < PG_SZ
             /\ SchemaWhole(q)
             /\ (\A i \in 1 .. Len(p.tables) : CStr(p.tables[i].name) = p.tables[i].name) =>
                  {p.tables[i] : i \in 1 .. Len(p.tables)} = {q.tables[i] : i \in 1 .. Len(q.tables)}
<1> DEFINE b == SchemaBlock(p)
           q == SchemaFrom(b)
           n == Len(p.tables)
           name(i) == CStr(p.tables[i].name)
           entry == [i \in 1 .. n |-> [name |-> name(i), pageID |-> p.tables[i].pageID]]
           kept == KeptEntries(entry)
           C == Cardinality(kept)
           list == [k \in 1 .. C |-> entry[Nth(kept, k)]]
<1>1. n \in Nat /\ SchemaBytes(n) <= PG_SZ /\ Get(b, 1, 1) = n
  BY ReadEntries DEF SchemaWhole
<1>2. q = [class |-> "schema", tables |-> list]
  <2> DEFINE found == [i \in 1 .. Get(b, 1, 1) |->
                         [name |-> CStr(Get(b, 2 + (i - 1) * EntrySize, MAX_STR_SZ)),
                          pageID |-> Get(b, 2 + (i - 1) * EntrySize + MAX_STR_SZ, 4)]]
             from(e) == [class |-> "schema",
                         tables |-> [k \in 1 .. Cardinality(KeptEntries(e)) |->
                                       e[Nth(KeptEntries(e), k)]]]
  <2>1. q = from(found)
    BY DEF SchemaFrom, Nth, Place
  <2>2. found = entry
    <3>1. \A i \in 1 .. n :
            /\ Get(b, 2 + (i - 1) * EntrySize, MAX_STR_SZ) = p.tables[i].name
            /\ Get(b, 2 + (i - 1) * EntrySize + MAX_STR_SZ, 4) = p.tables[i].pageID
      BY ReadEntries
    <3> HIDE DEF b, n
    <3> QED BY <1>1, <3>1
  <2>3. from(entry) = [class |-> "schema", tables |-> list]
    OBVIOUS
  <2> HIDE DEF found, entry, from, list
  <2> QED BY <2>1, <2>2, <2>3
<1>13. \A i \in 1 .. n : entry[i] = [name |-> name(i), pageID |-> p.tables[i].pageID]
  OBVIOUS
<1>3. kept \in SUBSET (1 .. n)
      /\ \A i, j \in kept : entry[i].name = entry[j].name => i = j
  <2>1. DOMAIN entry = 1 .. n
    OBVIOUS
  <2> HIDE DEF entry, n
  <2>2. kept \in SUBSET (1 .. n)
    BY <2>1 DEF KeptEntries
  <2>3. ASSUME NEW i \in kept, NEW j \in kept, i < j
        PROVE  entry[i].name # entry[j].name
    <3>1. i \in 1 .. j - 1
      BY <1>1, <2>2, <2>3
    <3> QED BY <3>1 DEF KeptEntries
  <2>4. \A i, j \in kept : entry[i].name = entry[j].name => i = j
    <3> HIDE DEF kept
    <3> SUFFICES ASSUME NEW i \in kept, NEW j \in kept, entry[i].name = entry[j].name
                 PROVE  i = j
      OBVIOUS
    <3>1. ~(i < j) /\ ~(j < i)
      BY <2>3
    <3>2. i \in Int /\ j \in Int
      BY <1>1, <2>2
    <3> QED BY <3>1, <3>2
  <2> QED BY <2>1, <2>2, <2>4
<1> HIDE DEF kept
<1>4. /\ C \in Nat /\ C <= n
      /\ \A k \in 1 .. C : Nth(kept, k) \in kept
      /\ \A k, l \in 1 .. C : Nth(kept, k) = Nth(kept, l) => k = l
      /\ \A i \in kept : \E k \in 1 .. C : Nth(kept, k) = i
  <2> HIDE DEF n
  <2> QED BY <1>1, <1>3, InOrder
<1>5. \A k \in 1 .. C : list[k] = entry[Nth(kept, k)]
  OBVIOUS
<1>6. IsList(list) /\ Len(list) = C
  <2>1. list = [k \in 1 .. C |-> list[k]]
    OBVIOUS
  <2> HIDE DEF list, C
  <2> QED BY <1>4, <2>1, FunctionIsList
<1> HIDE DEF q, n, entry, C, list, b, name
<1>7. SchemaBytes(n) < PG_SZ
  BY <1>1, SchemaNumbers
<1>8. SchemaBytes(C) <= PG_SZ
  <2>1. SchemaBytes(C) <= SchemaBytes(n) /\ SchemaBytes(C) \in Nat /\ SchemaBytes(n) \in Nat
    BY <1>1, <1>4, SchemaBytesGrow
  <2> QED BY <1>1, <2>1, SizesAssumption
<1>9. \A k \in 1 .. C : EntryOver(list[k])
  <2> TAKE k \in 1 .. C
  <2>1. Nth(kept, k) \in 1 .. n
    BY <1>3, <1>4
  <2>2. list[k] = entry[Nth(kept, k)]
    BY <1>5
  <2> DEFINE i == Nth(kept, k)
  <2> HIDE DEF i
  <2>3. i \in 1 .. n /\ list[k] = entry[i]
    BY <2>1, <2>2 DEF i
  <2>4. list[k] = [name |-> name(i), pageID |-> p.tables[i].pageID]
    BY <1>13, <2>3
  <2> QED BY <2>4 DEF EntryOver
<1>10. \A k, l \in 1 .. C : list[k].name = list[l].name => k = l
  <2> SUFFICES ASSUME NEW k \in 1 .. C, NEW l \in 1 .. C, list[k].name = list[l].name
               PROVE  k = l
    OBVIOUS
  <2>1. Nth(kept, k) \in kept /\ Nth(kept, l) \in kept
    BY <1>4
  <2>2. list[k] = entry[Nth(kept, k)] /\ list[l] = entry[Nth(kept, l)]
    BY <1>5
  <2>3. Nth(kept, k) = Nth(kept, l)
    BY <1>3, <2>1, <2>2
  <2> QED BY <1>4, <2>3
<1>11. SchemaWhole(q)
  BY <1>2, <1>6, <1>8, <1>9, <1>10 DEF SchemaWhole
<1>12. ASSUME \A i \in 1 .. n : CStr(p.tables[i].name) = p.tables[i].name
       PROVE  {p.tables[i] : i \in 1 .. n} = {q.tables[i] : i \in 1 .. Len(q.tables)}
  <2>1. \A i \in 1 .. n : entry[i] = p.tables[i]
    <3> TAKE i \in 1 .. n
    <3>1. EntryOver(p.tables[i])
      BY DEF SchemaWhole, n
    <3>3. name(i) = p.tables[i].name
      BY <1>12 DEF name
    <3>2. entry[i] = [name |-> p.tables[i].name, pageID |-> p.tables[i].pageID]
      BY <1>13, <3>3
    <3> QED BY <3>1, <3>2 DEF EntryOver
  <2>2. kept = 1 .. n
    <3>1. \A i, j \in 1 .. n : p.tables[i].name = p.tables[j].name => i = j
      BY DEF SchemaWhole, n
    <3>2. ASSUME NEW i \in 1 .. n
          PROVE  i \in kept
      <4>1. \A j \in 1 .. i - 1 : j \in 1 .. n /\ j # i
        BY <1>1
      <4>2. \A j \in 1 .. i - 1 : entry[j].name # entry[i].name
        BY <2>1, <3>1, <4>1
      <4>3. DOMAIN entry = 1 .. n
        BY DEF entry
      <4> QED BY <4>2, <4>3 DEF kept, KeptEntries
    <3> QED BY <1>3, <3>2
  <2>3. q.tables = list /\ Len(list) = C
    BY <1>2, <1>6
  <2>4. \A k \in 1 .. C : Nth(kept, k) \in 1 .. n /\ list[k] = p.tables[Nth(kept, k)]
    BY <1>3, <1>4, <1>5, <2>1
  <2>5. \A i \in 1 .. n : \E k \in 1 .. C : list[k] = p.tables[i]
    BY <1>4, <2>2, <2>4
  <2> DEFINE A == {p.tables[i] : i \in 1 .. n}
             B == {list[k] : k \in 1 .. C}
  <2>6. ASSUME NEW e \in A
        PROVE  e \in B
    <3>1. PICK i \in 1 .. n : e = p.tables[i]
      OBVIOUS
    <3>2. PICK k \in 1 .. C : list[k] = p.tables[i]
      BY <2>5
    <3> QED BY <3>1, <3>2
  <2>7. ASSUME NEW e \in B
        PROVE  e \in A
    <3>1. PICK k \in 1 .. C : e = list[k]
      OBVIOUS
    <3> QED BY <2>4, <3>1
  <2>8. {q.tables[i] : i \in 1 .. Len(q.tables)} = B
    BY <2>3
  <2> HIDE DEF A, B
  <2>9. A = B
    BY <2>6, <2>7
  <2> QED BY <2>8, <2>9 DEF A
<1> QED BY <1>1, <1>7, <1>11, <1>12 DEF b, q, n

-----------------------------------------------------------------------------
(* The pages that the callers keep *)

\* The pages of any class, with all that their class promises.
Whole(types, p) ==
  NodeWhole(types, p) \/ TableWhole(types, p) \/ SchemaWhole(p) \/ FSMWhole(p)

\* The assertions of toBytes hold of a page that is in its block.
Passed(p) == InBounds(p) /\ (p.class = "node" => NodeAsserts(p))

\* The inductive invariant for what is read: Inv, and a page has all that its callers
\* rely on, in the cache and in its block.
WholeInv ==
  /\ Inv
  /\ status \in {"up", "dead"}
  /\ page # Gone => Whole(columns, page)
  /\ block # {} => Whole(columns, written) /\ Passed(written)

\* The class of a page tells what it keeps.
LEMMA WholeClass ==
  ASSUME NEW types, NEW p, Whole(types, p)
  PROVE  /\ p.class = "node" => NodeWhole(types, p)
         /\ p.class = "table" => TableWhole(types, p)
         /\ p.class = "schema" => SchemaWhole(p)
         /\ p.class = "fsm" => FSMWhole(p)
         /\ p.class \in {"node", "table", "schema", "fsm"}
<1>1. NodeWhole(types, p) => p.class = "node"
  BY DEF NodeWhole, NodeShape
<1>2. TableWhole(types, p) => p.class = "table"
  BY DEF TableWhole
<1>3. SchemaWhole(p) => p.class = "schema"
  BY DEF SchemaWhole
<1>4. FSMWhole(p) => p.class = "fsm"
  BY DEF FSMWhole
<1>5. NodeWhole(types, p) \/ TableWhole(types, p) \/ SchemaWhole(p) \/ FSMWhole(p)
  BY DEF Whole
<1> QED BY <1>1, <1>2, <1>3, <1>4, <1>5

\* A row that is inserted has the columns of its table.
LEMMA NewCellOver ==
  ASSUME NEW types \in Seq(Type), columns = types, NEW i, NEW s
  PROVE  CellOver(types, Cell(i, s))
<1> DEFINE data(j) == IF types[j] = "string" THEN <<s, i, j>> ELSE <<i, j>>
           row == [j \in 1 .. Len(types) |-> [type |-> types[j], data |-> data(j)]]
           c == Cell(i, s)
<1>1. Row(i, s) = row
  BY DEF Row
<1>2. c = [key |-> row[1], value |-> row]
  BY <1>1 DEF Cell
<1> HIDE DEF data, c
<1>3. row = [j \in 1 .. Len(types) |-> [type |-> types[j], data |-> row[j].data]]
  OBVIOUS
<1> HIDE DEF row
<1>4. c.value = row /\ c = [key |-> c.value[1], value |-> c.value]
  BY <1>2
<1> QED BY <1>3, <1>4 DEF CellOver, c

\* A node that has the fields that NodeWhole asks for.
LEMMA NodeWholeIs ==
  ASSUME NEW types, NEW leaf \in BOOLEAN, NEW root \in BOOLEAN, NEW cells, NEW children,
         NEW parent, parent = IF root THEN PGID_INVALID ELSE Parent,
         NodeShape(types, [class |-> "node", degree |-> calculateDegree(types),
                           parent |-> parent, leaf |-> leaf, root |-> root,
                           cells |-> cells, children |-> children]),
         leaf => children = << >>,
         root /\ cells = << >> => children = << >>,
         ~leaf /\ cells # << >> => IsList(children) /\ Len(children) = Len(cells) + 1,
         Len(types) < U8 => \A i \in 1 .. Len(cells) : CellOver(types, cells[i])
  PROVE  NodeWhole(types, [class |-> "node", degree |-> calculateDegree(types),
                           parent |-> parent, leaf |-> leaf, root |-> root,
                           cells |-> cells, children |-> children])
<1> DEFINE p == [class |-> "node", degree |-> calculateDegree(types), parent |-> parent,
                 leaf |-> leaf, root |-> root, cells |-> cells, children |-> children]
<1>1. /\ p.class = "node" /\ p.degree = calculateDegree(types) /\ p.parent = parent
      /\ p.leaf = leaf /\ p.root = root /\ p.cells = cells /\ p.children = children
  OBVIOUS
<1>2. p = [class |-> "node", degree |-> p.degree, parent |-> p.parent, leaf |-> p.leaf,
           root |-> p.root, cells |-> p.cells, children |-> p.children]
  OBVIOUS
<1>3. NodeShape(types, p)
  OBVIOUS
<1> HIDE DEF p
<1> QED BY <1>1, <1>2, <1>3 DEF NodeWhole, p

-----------------------------------------------------------------------------
(* What the callers do with a node *)

\* A node without cells, as createTable and the split of a root make it.
LEMMA EmptyNodeWhole ==
  ASSUME NEW types, NEW leaf \in BOOLEAN, columns = types,
         NodeShape(types, NewNode(leaf, << >>, << >>))
  PROVE  NodeWhole(types, NewNode(leaf, << >>, << >>))
<1>1. NewNode(leaf, << >>, << >>)
      = [class |-> "node", degree |-> calculateDegree(types), parent |-> PGID_INVALID,
         leaf |-> leaf, root |-> TRUE, cells |-> << >>, children |-> << >>]
  BY DEF NewNode
<1>2. \A i \in 1 .. Len(<< >>) : CellOver(types, << >>[i])
  OBVIOUS
<1> DEFINE none == << >>
<1>3. none = << >> /\ \A i \in 1 .. Len(none) : CellOver(types, none[i])
  BY <1>2
<1>4. NewNode(leaf, none, none)
      = [class |-> "node", degree |-> calculateDegree(types), parent |-> PGID_INVALID,
         leaf |-> leaf, root |-> TRUE, cells |-> none, children |-> none]
  BY <1>1
<1> HIDE DEF none
<1> QED BY <1>3, <1>4, NodeWholeIs

\* The new root gets its first cell and two children.
LEMMA RootWhole ==
  ASSUME NEW types \in Seq(Type), columns = types, NEW s, NEW a, NEW b,
         NodeShape(types, NewNode(FALSE, <<Cell(1, s)>>, <<a, b>>))
  PROVE  NodeWhole(types, NewNode(FALSE, <<Cell(1, s)>>, <<a, b>>))
<1> DEFINE cells == <<Cell(1, s)>>
           children == <<a, b>>
<1>1. Len(cells) = 1 /\ cells[1] = Cell(1, s) /\ cells # << >>
  OBVIOUS
<1>2. IsList(children) /\ Len(children) = 2
  <2>1. children \in Seq({a, b}) /\ Len(children) = 2
    OBVIOUS
  <2> HIDE DEF children
  <2> QED BY <2>1, SeqIsList
<1>3. CellOver(types, Cell(1, s))
  BY NewCellOver
<1>4. NewNode(FALSE, cells, children)
      = [class |-> "node", degree |-> calculateDegree(types), parent |-> PGID_INVALID,
         leaf |-> FALSE, root |-> TRUE, cells |-> cells, children |-> children]
  BY DEF NewNode
<1>5. NodeShape(types, NewNode(FALSE, cells, children))
  OBVIOUS
<1> HIDE DEF cells, children
<1>6. \A i \in 1 .. Len(cells) : CellOver(types, cells[i])
  BY <1>1, <1>3
<1>7. Len(children) = Len(cells) + 1
  BY <1>1, <1>2
<1>8. NodeWhole(types, NewNode(FALSE, cells, children))
  BY <1>1, <1>2, <1>4, <1>5, <1>6, <1>7, NodeWholeIs
<1> QED BY <1>8 DEF cells, children

\* A node with other cells and children.
With(p, root, parent, cells, children) ==
  [class |-> "node", degree |-> p.degree, parent |-> parent, leaf |-> p.leaf, root |-> root,
   cells |-> cells, children |-> children]

\* The fields of a node that change when it gets a cell.
LEMMA CellFieldsChange ==
  ASSUME NEW types, NEW p, NodeWhole(types, p), NEW new, NEW kids
  PROVE  [p EXCEPT !.cells = new, !.children = kids] = With(p, p.root, p.parent, new, kids)
<1> DEFINE d == p.degree
           pa == p.parent
           l == p.leaf
           r == p.root
           ce == p.cells
           ch == p.children
<1>1. p = [class |-> "node", degree |-> d, parent |-> pa, leaf |-> l, root |-> r, cells |-> ce,
           children |-> ch]
  BY DEF NodeWhole
<1>2. With(p, r, pa, new, kids)
      = [class |-> "node", degree |-> d, parent |-> pa, leaf |-> l, root |-> r,
         cells |-> new, children |-> kids]
  BY DEF With
<1> HIDE DEF d, pa, l, r, ce, ch
<1> DEFINE q == [p EXCEPT !.cells = new, !.children = kids]
<1>3. /\ q.class = "node" /\ q.degree = d /\ q.parent = pa /\ q.leaf = l
      /\ q.root = r /\ q.cells = new /\ q.children = kids
  BY <1>1
<1>4. DOMAIN q = {"class", "degree", "parent", "leaf", "root", "cells", "children"}
  BY <1>1
<1>5. q = [f \in {"class", "degree", "parent", "leaf", "root", "cells", "children"} |-> q[f]]
  BY <1>4
<1> HIDE DEF q
<1>6. q = [class |-> q.class, degree |-> q.degree, parent |-> q.parent, leaf |-> q.leaf,
           root |-> q.root, cells |-> q.cells, children |-> q.children]
  BY <1>5
<1>7. q = [class |-> "node", degree |-> d, parent |-> pa, leaf |-> l, root |-> r,
           cells |-> new, children |-> kids]
  BY <1>3, <1>6
<1> QED BY <1>2, <1>7 DEF q, pa, r

\* The fields of a node that change when it is split.
LEMMA SplitFieldsChange ==
  ASSUME NEW types, NEW p, NodeWhole(types, p), NEW new, NEW kids
  PROVE  [p EXCEPT !.root = FALSE, !.parent = Parent, !.cells = new, !.children = kids]
         = With(p, FALSE, Parent, new, kids)
<1> DEFINE d == p.degree
           pa == p.parent
           l == p.leaf
           r == p.root
           ce == p.cells
           ch == p.children
<1>1. p = [class |-> "node", degree |-> d, parent |-> pa, leaf |-> l, root |-> r, cells |-> ce,
           children |-> ch]
  BY DEF NodeWhole
<1>2. With(p, FALSE, Parent, new, kids)
      = [class |-> "node", degree |-> d, parent |-> Parent, leaf |-> l, root |-> FALSE,
         cells |-> new, children |-> kids]
  BY DEF With
<1> HIDE DEF d, pa, l, r, ce, ch
<1> DEFINE q == [p EXCEPT !.root = FALSE, !.parent = Parent, !.cells = new,
                       !.children = kids]
<1>3. /\ q.class = "node" /\ q.degree = d /\ q.parent = Parent /\ q.leaf = l
      /\ q.root = FALSE /\ q.cells = new /\ q.children = kids
  BY <1>1
<1>4. DOMAIN q = {"class", "degree", "parent", "leaf", "root", "cells", "children"}
  BY <1>1
<1>5. q = [f \in {"class", "degree", "parent", "leaf", "root", "cells", "children"} |-> q[f]]
  BY <1>4
<1> HIDE DEF q
<1>6. q = [class |-> q.class, degree |-> q.degree, parent |-> q.parent, leaf |-> q.leaf,
           root |-> q.root, cells |-> q.cells, children |-> q.children]
  BY <1>5
<1>7. q = [class |-> "node", degree |-> d, parent |-> Parent, leaf |-> l, root |-> FALSE,
           cells |-> new, children |-> kids]
  BY <1>3, <1>6
<1> QED BY <1>2, <1>7 DEF q

\* The children of a node that has cells.
LEMMA Children ==
  ASSUME NEW types, NEW p, NodeWhole(types, p), ~p.leaf, p.cells # << >>
  PROVE  IsList(p.children) /\ Len(p.children) = Len(p.cells) + 1
BY DEF NodeWhole

\* A node gets one more cell, and one more child unless it is a leaf.
LEMMA InsertedWhole ==
  ASSUME NEW types, NEW p, NodeWhole(types, p), p.leaf \/ p.cells # << >>,
         NEW c, CellOver(types, c), NEW child, NEW children,
         children = IF p.leaf THEN p.children ELSE Append(p.children, child),
         NodeShape(types, With(p, p.root, p.parent, Append(p.cells, c), children))
  PROVE  NodeWhole(types, With(p, p.root, p.parent, Append(p.cells, c), children))
<1> DEFINE cells == Append(p.cells, c)
           n == Len(p.cells)
<1>1. /\ IsList(p.cells) /\ p.degree = calculateDegree(types) /\ p.leaf \in BOOLEAN
      /\ p.root \in BOOLEAN /\ p.parent = IF p.root THEN PGID_INVALID ELSE Parent
      /\ p.leaf => p.children = << >>
      /\ Len(types) < U8 => \A i \in 1 .. n : CellOver(types, p.cells[i])
  BY DEF NodeWhole, NodeShape
<1>2. /\ IsList(cells) /\ n \in Nat /\ Len(cells) = n + 1 /\ cells # << >>
  BY <1>1, AppendIsList
<1>3. /\ \A i \in 1 .. n : cells[i] = p.cells[i]
      /\ cells[n + 1] = c
  <2> DEFINE S == {p.cells[i] : i \in 1 .. n} \cup {c}
             q == p.cells
  <2>1. q \in Seq(S) /\ c \in S
    <3>1. q \in [1 .. n -> S]
      BY <1>1, <1>2, LenProperties DEF IsList
    <3> QED BY <1>2, <3>1, SeqDef
  <2>2. n = Len(q) /\ cells = Append(q, c)
    OBVIOUS
  <2> HIDE DEF S, q, n, cells
  <2>3. /\ \A i \in 1 .. Len(q) : Append(q, c)[i] = q[i]
        /\ Append(q, c)[Len(q) + 1] = c
    BY <2>1, AppendProperties
  <2>4. (\A i \in 1 .. n : cells[i] = q[i]) /\ cells[n + 1] = c
    BY <2>2, <2>3
  <2> QED BY <2>4 DEF q
<1>4. ASSUME Len(types) < U8 PROVE \A i \in 1 .. Len(cells) : CellOver(types, cells[i])
  <2> HIDE DEF cells, n
  <2> TAKE i \in 1 .. Len(cells)
  <2>1. i \in 1 .. n \/ i = n + 1
    BY <1>2
  <2>2. i \in 1 .. n => CellOver(types, cells[i])
    BY <1>1, <1>3, <1>4
  <2>3. i = n + 1 => CellOver(types, cells[i])
    BY <1>3
  <2> QED BY <2>1, <2>2, <2>3
<1>5. ASSUME ~p.leaf PROVE IsList(children) /\ Len(children) = Len(cells) + 1
  <2>1. IsList(p.children) /\ Len(p.children) = n + 1
    BY <1>5, Children
  <2>2. IsList(children) /\ Len(children) = Len(p.children) + 1
    <3>1. children = Append(p.children, child)
      BY <1>5
    <3> QED BY <2>1, <3>1, AppendIsList
  <2> QED BY <1>2, <2>1, <2>2
<1>6. p.leaf => children = << >>
  BY <1>1
<1>7. NodeShape(types, With(p, p.root, p.parent, cells, children))
  OBVIOUS
<1> HIDE DEF cells, n
<1> DEFINE root == p.root
           parent == p.parent
           leaf == p.leaf
           new == [class |-> "node", degree |-> calculateDegree(types), parent |-> parent,
                   leaf |-> leaf, root |-> root, cells |-> cells, children |-> children]
<1>8. With(p, root, parent, cells, children) = new
  BY <1>1 DEF With
<1>9. /\ leaf \in BOOLEAN /\ root \in BOOLEAN
      /\ parent = IF root THEN PGID_INVALID ELSE Parent
      /\ leaf => children = << >>
      /\ ~leaf => IsList(children) /\ Len(children) = Len(cells) + 1
      /\ NodeShape(types, new)
  BY <1>1, <1>5, <1>6, <1>7, <1>8
<1> HIDE DEF root, parent, leaf
<1>10. NodeWhole(types, new)
  BY <1>2, <1>4, <1>9, NodeWholeIs
<1>11. NodeWhole(types, With(p, root, parent, cells, children))
  BY <1>8, <1>10
<1> QED BY <1>11 DEF cells, root, parent

\* A node keeps its first cells, and the children before and between them.
LEMMA HalfWhole ==
  ASSUME NEW types, NEW p, NodeWhole(types, p), NEW m \in 0 .. Len(p.cells), NEW children,
         children = IF p.leaf THEN p.children ELSE SubSeq(p.children, 1, m + 1),
         NodeShape(types, With(p, FALSE, Parent, SubSeq(p.cells, 1, m), children))
  PROVE  NodeWhole(types, With(p, FALSE, Parent, SubSeq(p.cells, 1, m), children))
<1> DEFINE cells == SubSeq(p.cells, 1, m)
           n == Len(p.cells)
<1>1. /\ IsList(p.cells) /\ p.degree = calculateDegree(types) /\ p.leaf \in BOOLEAN
      /\ p.leaf => p.children = << >>
      /\ Len(types) < U8 => \A i \in 1 .. n : CellOver(types, p.cells[i])
  BY DEF NodeWhole, NodeShape
<1>2. n \in Nat /\ m \in Nat /\ m <= n
  BY <1>1, LenProperties DEF IsList
<1>3. ASSUME NEW q, IsList(q), NEW k \in 0 .. Len(q)
      PROVE  /\ Len(SubSeq(q, 1, k)) = k
             /\ \A i \in 1 .. k : SubSeq(q, 1, k)[i] = q[i]
  <2> DEFINE S == {q[i] : i \in 1 .. Len(q)}
  <2>1. Len(q) \in Nat /\ k \in Nat /\ \A i \in 1 .. k : q[i] \in S
    BY <1>3, LenProperties DEF IsList
  <2> HIDE DEF S
  <2>2. /\ Len(SubSeq(q, 1, k)) = IF 1 <= k THEN k - 1 + 1 ELSE 0
        /\ \A i \in 1 .. k - 1 + 1 : SubSeq(q, 1, k)[i] = q[1 + i - 1]
    BY <2>1, SubSeqProperties
  <2> DEFINE t == SubSeq(q, 1, k)
  <2> HIDE DEF t
  <2>3. /\ Len(t) = IF 1 <= k THEN k - 1 + 1 ELSE 0
        /\ \A i \in 1 .. k - 1 + 1 : t[i] = q[1 + i - 1]
    BY <2>2 DEF t
  <2>4. Len(t) = k /\ \A i \in 1 .. k : t[i] = q[i]
    BY <2>1, <2>3
  <2> QED BY <2>4 DEF t
<1>4. Len(cells) = m /\ \A i \in 1 .. m : cells[i] = p.cells[i]
  BY <1>1, <1>3
<1>5. cells # << >> => p.cells # << >>
  BY <1>1, PartIsList
<1> HIDE DEF cells
<1>6. ASSUME Len(types) < U8 PROVE \A i \in 1 .. Len(cells) : CellOver(types, cells[i])
  BY <1>1, <1>2, <1>4, <1>6
<1>7. ASSUME ~p.leaf, cells # << >> PROVE IsList(children) /\ Len(children) = Len(cells) + 1
  <2>1. IsList(p.children) /\ Len(p.children) = n + 1
    BY <1>5, <1>7, Children
  <2>2. m + 1 \in 0 .. Len(p.children) /\ children = SubSeq(p.children, 1, m + 1)
    BY <1>2, <1>7, <2>1
  <2>3. IsList(children) /\ Len(children) = m + 1
    BY <1>3, <2>1, <2>2, PartIsList
  <2> QED BY <1>4, <2>3
<1>8. p.leaf => children = << >>
  BY <1>1
<1>9. NodeShape(types, With(p, FALSE, Parent, cells, children))
  BY DEF cells
<1> DEFINE leaf == p.leaf
           new == [class |-> "node", degree |-> calculateDegree(types), parent |-> Parent,
                   leaf |-> leaf, root |-> FALSE, cells |-> cells, children |-> children]
<1>10. With(p, FALSE, Parent, cells, children) = new
  BY <1>1 DEF With
<1>11. /\ leaf \in BOOLEAN
       /\ leaf => children = << >>
       /\ ~leaf /\ cells # << >> => IsList(children) /\ Len(children) = Len(cells) + 1
       /\ NodeShape(types, new)
  BY <1>1, <1>7, <1>8, <1>9, <1>10
<1> HIDE DEF leaf
<1>12. NodeWhole(types, new)
  BY <1>6, <1>11, NodeWholeIs
<1>13. NodeWhole(types, With(p, FALSE, Parent, cells, children))
  BY <1>10, <1>12
<1> QED BY <1>13 DEF cells

-----------------------------------------------------------------------------
(* What the callers do with an FSM page *)

\* The bits that are free when one is allocated or freed.
LEMMA FreeBitsChange ==
  ASSUME NEW used, NEW i \in 0 .. MaxBits
  PROVE  /\ FreeBits(used) \in Int
         /\ i \notin used => FreeBits(used \cup {i}) = FreeBits(used) - 1
         /\ i \in used => FreeBits(used \ {i}) = FreeBits(used) + 1
<1> DEFINE F == (0 .. MaxBits) \ used
           c == Cardinality(F)
           B == BlocksInPage
<1>1. MaxBits \in Nat /\ B \in Nat
  BY BitSizes
<1>2. IsFiniteSet(F) /\ c \in Nat
  <2>1. IsFiniteSet(0 .. MaxBits)
    BY <1>1, FS_Interval
  <2>2. F \in SUBSET (0 .. MaxBits)
    OBVIOUS
  <2> HIDE DEF F
  <2>3. IsFiniteSet(F)
    BY <2>1, <2>2, FS_Subset
  <2> QED BY <2>3, FS_CardinalityType
<1>3. FreeBits(used) = c + B - 1 - MaxBits
  BY DEF FreeBits
<1>4. ASSUME i \notin used PROVE FreeBits(used \cup {i}) = c - 1 + B - 1 - MaxBits
  <2>1. (0 .. MaxBits) \ (used \cup {i}) = F \ {i} /\ i \in F
    BY <1>4
  <2>2. FreeBits(used \cup {i}) = Cardinality(F \ {i}) + B - 1 - MaxBits
    BY <2>1 DEF FreeBits
  <2> HIDE DEF F
  <2>3. Cardinality(F \ {i}) = c - 1
    BY <1>2, <2>1, FS_RemoveElement
  <2> QED BY <2>2, <2>3
<1>5. ASSUME i \in used PROVE FreeBits(used \ {i}) = c + 1 + B - 1 - MaxBits
  <2>1. (0 .. MaxBits) \ (used \ {i}) = F \cup {i} /\ i \notin F
    BY <1>5
  <2>2. FreeBits(used \ {i}) = Cardinality(F \cup {i}) + B - 1 - MaxBits
    BY <2>1 DEF FreeBits
  <2> HIDE DEF F
  <2>3. Cardinality(F \cup {i}) = c + 1
    BY <1>2, <2>1, FS_AddElement
  <2> QED BY <2>2, <2>3
<1> HIDE DEF c, B
<1>6. FreeBits(used) \in Int
  BY <1>1, <1>2, <1>3
<1>7. i \notin used => FreeBits(used \cup {i}) = FreeBits(used) - 1
  BY <1>1, <1>2, <1>3, <1>4
<1>8. i \in used => FreeBits(used \ {i}) = FreeBits(used) + 1
  BY <1>1, <1>2, <1>3, <1>5
<1> QED BY <1>6, <1>7, <1>8

\* A new FSM page has all its bits free but the first.
LEMMA FreeBitsAtFirst == FreeBits({0}) = BlocksInPage - 1
<1>1. MaxBits \in Nat /\ BlocksInPage \in Nat
  BY BitSizes
<1>2. (0 .. MaxBits) \ {0} = 1 .. MaxBits
  BY <1>1
<1>3. Cardinality(1 .. MaxBits) = MaxBits
  BY <1>1, IntervalCount
<1>4. Cardinality((0 .. MaxBits) \ {0}) = MaxBits
  BY <1>2, <1>3
<1> DEFINE c == Cardinality((0 .. MaxBits) \ {0})
           B == BlocksInPage
<1>5. FreeBits({0}) = c + B - 1 - MaxBits
  BY DEF FreeBits
<1>6. c = MaxBits /\ B \in Nat
  BY <1>1, <1>4
<1> HIDE DEF c, B
<1>7. FreeBits({0}) = B - 1
  BY <1>1, <1>5, <1>6
<1> QED BY <1>7 DEF B

\* An FSM page with these fields.
FSMPage(next, free, size, used) ==
  [class |-> "fsm", next |-> next, free |-> free, size |-> size, used |-> used]

\* The fields of an FSM page that change when a bit does.
LEMMA FSMFields ==
  ASSUME NEW p, FSMWhole(p), NEW fr, NEW bits
  PROVE  [p EXCEPT !.used = bits, !.free = fr] = FSMPage(p.next, fr, p.size, bits)
<1> DEFINE a == p.next
           f == p.free
           z == p.size
           u == p.used
<1>1. p = [class |-> "fsm", next |-> a, free |-> f, size |-> z, used |-> u]
  BY DEF FSMWhole
<1> HIDE DEF a, f, z, u
<1> DEFINE q == [p EXCEPT !.used = bits, !.free = fr]
<1>2. q.class = "fsm" /\ q.next = a /\ q.free = fr /\ q.size = z /\ q.used = bits
  BY <1>1
<1>3. DOMAIN q = {"class", "next", "free", "size", "used"}
  BY <1>1
<1>4. q = [g \in {"class", "next", "free", "size", "used"} |-> q[g]]
  BY <1>3
<1> HIDE DEF q
<1>5. q = [class |-> q.class, next |-> q.next, free |-> q.free, size |-> q.size, used |-> q.used]
  BY <1>4
<1>6. q = FSMPage(a, fr, z, bits)
  BY <1>2, <1>5 DEF FSMPage
<1> QED BY <1>6 DEF q, a, z

\* The field of an FSM page that changes when another page is linked to it.
LEMMA FSMNext ==
  ASSUME NEW p, FSMWhole(p), NEW next
  PROVE  [p EXCEPT !.next = next] = FSMPage(next, p.free, p.size, p.used)
<1> DEFINE a == p.next
           f == p.free
           z == p.size
           u == p.used
<1>1. p = [class |-> "fsm", next |-> a, free |-> f, size |-> z, used |-> u]
  BY DEF FSMWhole
<1> HIDE DEF a, f, z, u
<1>2. [p EXCEPT !.next = next] = FSMPage(next, f, z, u)
  BY <1>1 DEF FSMPage
<1> QED BY <1>2 DEF f, z, u

\* An FSM page whose counter is right.
LEMMA FSMWholeIs ==
  ASSUME NEW next, NEW size \in {BlocksInPage, 8 * (PG_SZ - 9)},
         NEW used \in SUBSET (0 .. size - 1), NEW free, free = FreeBits(used)
  PROVE  FSMWhole(FSMPage(next, free, size, used))
<1> DEFINE p == FSMPage(next, free, size, used)
<1>1. p.class = "fsm" /\ p.next = next /\ p.free = free /\ p.size = size /\ p.used = used
  BY DEF FSMPage
<1>2. p = [class |-> "fsm", next |-> p.next, free |-> p.free, size |-> p.size, used |-> p.used]
  BY DEF FSMPage
<1> HIDE DEF p
<1> QED BY <1>1, <1>2 DEF FSMWhole, p

\* The bits of an FSM page are from 0 on, and its counter is right after each call.
LEMMA FSMCallsWhole ==
  ASSUME NEW p, FSMWhole(p)
  PROVE  /\ \A i \in 0 .. MaxBits : i \notin p.used =>
              FSMWhole([p EXCEPT !.used = p.used \cup {i}, !.free = p.free - 1])
         /\ \A i \in 0 .. MaxBits : i \in p.used =>
              FSMWhole([p EXCEPT !.used = p.used \ {i}, !.free = p.free + 1])
         /\ \A next : FSMWhole([p EXCEPT !.next = next])
<1>1. /\ p.size \in {BlocksInPage, 8 * (PG_SZ - 9)} /\ p.used \in SUBSET (0 .. p.size - 1)
      /\ p.free = FreeBits(p.used)
  BY DEF FSMWhole
<1>2. 0 .. MaxBits \subseteq 0 .. p.size - 1
  <2>1. /\ MaxBits \in Nat /\ BlocksInPage \in Nat /\ MaxBits < BlocksInPage
        /\ p.size = BlocksInPage \/ p.size = BlocksInPage + 24
    BY <1>1, BitSizes
  <2> QED BY <2>1
<1>3. ASSUME NEW i \in 0 .. MaxBits, i \notin p.used
      PROVE  FSMWhole([p EXCEPT !.used = p.used \cup {i}, !.free = p.free - 1])
  <2>1. p.free - 1 = FreeBits(p.used \cup {i})
    BY <1>1, <1>3, FreeBitsChange
  <2>2. p.used \cup {i} \in SUBSET (0 .. p.size - 1)
    BY <1>1, <1>2
  <2>3. FSMWhole(FSMPage(p.next, p.free - 1, p.size, p.used \cup {i}))
    BY <1>1, <2>1, <2>2, FSMWholeIs
  <2> DEFINE fr == p.free - 1
             bits == p.used \cup {i}
  <2>4. FSMWhole(FSMPage(p.next, fr, p.size, bits))
    BY <2>3
  <2> HIDE DEF fr, bits
  <2>5. [p EXCEPT !.used = bits, !.free = fr] = FSMPage(p.next, fr, p.size, bits)
    BY FSMFields
  <2>6. FSMWhole([p EXCEPT !.used = bits, !.free = fr])
    BY <2>4, <2>5
  <2> QED BY <2>6 DEF fr, bits
<1>4. ASSUME NEW i \in 0 .. MaxBits, i \in p.used
      PROVE  FSMWhole([p EXCEPT !.used = p.used \ {i}, !.free = p.free + 1])
  <2>1. p.free + 1 = FreeBits(p.used \ {i})
    BY <1>1, <1>4, FreeBitsChange
  <2>2. p.used \ {i} \in SUBSET (0 .. p.size - 1)
    BY <1>1
  <2>3. FSMWhole(FSMPage(p.next, p.free + 1, p.size, p.used \ {i}))
    BY <1>1, <2>1, <2>2, FSMWholeIs
  <2> DEFINE fr == p.free + 1
             bits == p.used \ {i}
  <2>4. FSMWhole(FSMPage(p.next, fr, p.size, bits))
    BY <2>3
  <2> HIDE DEF fr, bits
  <2>5. [p EXCEPT !.used = bits, !.free = fr] = FSMPage(p.next, fr, p.size, bits)
    BY FSMFields
  <2>6. FSMWhole([p EXCEPT !.used = bits, !.free = fr])
    BY <2>4, <2>5
  <2> QED BY <2>6 DEF fr, bits
<1>5. ASSUME NEW next PROVE FSMWhole([p EXCEPT !.next = next])
  <2>1. FSMWhole(FSMPage(next, p.free, p.size, p.used))
    BY <1>1, FSMWholeIs
  <2> QED BY <2>1, FSMNext
<1> QED BY <1>3, <1>4, <1>5

\* A new FSM page.
LEMMA NewFSMWhole == FSMWhole(FSMPage(PGID_INVALID, BlocksInPage - 1, BlocksInPage, {0}))
<1>1. {0} \in SUBSET (0 .. BlocksInPage - 1)
  BY BitSizes
<1> QED BY <1>1, FreeBitsAtFirst, FSMWholeIs

\* findNextFree finds the first bit that is free, when there is one.
LEMMA FirstFree ==
  ASSUME NEW used, Cardinality(used \cap 0 .. MaxBits) <= MaxBits
  PROVE  \E i \in 0 .. MaxBits : i \notin used /\ \A j \in 0 .. i - 1 : j \in used
<1> DEFINE U == (0 .. MaxBits) \ used
<1>1. MaxBits \in Nat
  BY BitSizes
<1>2. U # {}
  <2> SUFFICES ASSUME U = {} PROVE FALSE
    OBVIOUS
  <2>1. used \cap 0 .. MaxBits = 0 .. MaxBits
    OBVIOUS
  <2>2. Cardinality(0 .. MaxBits) = MaxBits + 1
    <3>1. Cardinality(0 .. MaxBits) = IF 0 > MaxBits THEN 0 ELSE MaxBits - 0 + 1
      BY <1>1, FS_Interval
    <3> QED BY <1>1, <3>1
  <2> DEFINE c == Cardinality(0 .. MaxBits)
  <2>3. Cardinality(used \cap 0 .. MaxBits) = c
    BY <2>1
  <2>4. c <= MaxBits /\ c = MaxBits + 1
    BY <2>2, <2>3
  <2> HIDE DEF c
  <2> QED BY <1>1, <2>4
<1>3. U \in SUBSET (0 .. MaxBits)
  OBVIOUS
<1>4. PICK i \in U : \A j \in U : i <= j
  <2> HIDE DEF U
  <2> QED BY <1>1, <1>2, <1>3, Minimum
<1>5. \A j \in 0 .. i - 1 : j \in used
  BY <1>1, <1>4
<1> QED BY <1>4, <1>5

-----------------------------------------------------------------------------
(* What the callers do with a SchemaPage and a TablePage *)

\* A SchemaPage with these entries.
SchemaPage(tables) == [class |-> "schema", tables |-> tables]

\* A SchemaPage with other entries.
LEMMA SchemaFields ==
  ASSUME NEW p, SchemaWhole(p), NEW tables
  PROVE  [p EXCEPT !.tables = tables] = SchemaPage(tables)
<1> DEFINE t == p.tables
<1>1. p = [class |-> "schema", tables |-> t]
  BY DEF SchemaWhole
<1> HIDE DEF t
<1> QED BY <1>1 DEF SchemaPage

\* A SchemaPage whose names are different.
LEMMA SchemaWholeIs ==
  ASSUME NEW tables, SchemaShape(SchemaPage(tables)),
         \A i \in 1 .. Len(tables) : EntryOver(tables[i]),
         \A i, j \in 1 .. Len(tables) : tables[i].name = tables[j].name => i = j
  PROVE  SchemaWhole(SchemaPage(tables))
<1> DEFINE p == SchemaPage(tables)
<1>1. p.tables = tables /\ p = [class |-> "schema", tables |-> p.tables]
  BY DEF SchemaPage
<1>2. IsList(p.tables) /\ SchemaBytes(Len(p.tables)) <= PG_SZ
  BY DEF SchemaShape
<1> HIDE DEF p
<1>3. /\ \A i \in 1 .. Len(p.tables) : EntryOver(p.tables[i])
      /\ \A i, j \in 1 .. Len(p.tables) : p.tables[i].name = p.tables[j].name => i = j
  BY <1>1
<1>4. SchemaWhole(p)
  BY <1>1, <1>2, <1>3 DEF SchemaWhole
<1> QED BY <1>4 DEF p

\* A SchemaPage is made with one entry for each name.
LEMMA NewSchemaWhole ==
  ASSUME NEW n \in Nat, NEW tables, tables = [i \in 1 .. n |-> [name |-> <<i>>, pageID |-> i]],
         SchemaShape(SchemaPage(tables))
  PROVE  SchemaWhole(SchemaPage(tables))
<1>1. Len(tables) = n
  <2>1. tables = [i \in 1 .. n |-> tables[i]]
    OBVIOUS
  <2> QED BY <2>1, FunctionIsList
<1>2. \A i \in 1 .. n : tables[i] = [name |-> <<i>>, pageID |-> i]
  OBVIOUS
<1>3. ASSUME NEW i \in 1 .. n PROVE EntryOver(tables[i]) /\ tables[i].name = <<i>>
  BY <1>2 DEF EntryOver
<1>4. \A i, j : <<i>> = <<j>> => i = j
  OBVIOUS
<1>5. ASSUME NEW i \in 1 .. n, NEW j \in 1 .. n, tables[i].name = tables[j].name PROVE i = j
  BY <1>3, <1>4, <1>5
<1> QED BY <1>1, <1>3, <1>5, SchemaWholeIs

\* addTable adds an entry with a name that the page does not have.
LEMMA AddedWhole ==
  ASSUME NEW p, SchemaWhole(p), NEW e, EntryOver(e),
         \A i \in 1 .. Len(p.tables) : p.tables[i].name # e.name,
         SchemaShape(SchemaPage(Append(p.tables, e)))
  PROVE  SchemaWhole(SchemaPage(Append(p.tables, e)))
<1> DEFINE s == p.tables
           n == Len(s)
           t == Append(s, e)
<1>1. /\ IsList(s)
      /\ \A i \in 1 .. n : EntryOver(s[i])
      /\ \A i, j \in 1 .. n : s[i].name = s[j].name => i = j
      /\ \A i \in 1 .. n : s[i].name # e.name
  BY DEF SchemaWhole
<1>2. SchemaShape(SchemaPage(t))
  OBVIOUS
<1> HIDE DEF s
<1>3. n \in Nat /\ Len(t) = n + 1
  BY <1>1, AppendIsList
<1>4. (\A i \in 1 .. n : t[i] = s[i]) /\ t[n + 1] = e
  <2> DEFINE S == {s[i] : i \in 1 .. n} \cup {e}
  <2>1. s \in Seq(S) /\ e \in S
    <3>1. s \in [1 .. n -> S]
      BY <1>1, <1>3, LenProperties DEF IsList
    <3> QED BY <1>3, <3>1, SeqDef
  <2> HIDE DEF S
  <2> QED BY <2>1, AppendProperties
<1> HIDE DEF n, t
<1>5. ASSUME NEW i \in 1 .. Len(t)
      PROVE  (i \in 1 .. n /\ t[i] = s[i]) \/ (i = n + 1 /\ t[i] = e)
  <2>1. i \in 1 .. n \/ i = n + 1
    BY <1>3
  <2> QED BY <1>4, <2>1
<1>6. ASSUME NEW i \in 1 .. Len(t) PROVE EntryOver(t[i])
  BY <1>1, <1>5
<1>7. ASSUME NEW i \in 1 .. Len(t), NEW j \in 1 .. Len(t), t[i].name = t[j].name PROVE i = j
  <2>1. (i \in 1 .. n /\ t[i] = s[i]) \/ (i = n + 1 /\ t[i] = e)
    BY <1>5
  <2>2. (j \in 1 .. n /\ t[j] = s[j]) \/ (j = n + 1 /\ t[j] = e)
    BY <1>5
  <2> QED BY <2>1, <2>2, <1>1, <1>7
<1>8. SchemaWhole(SchemaPage(t))
  BY <1>2, <1>6, <1>7, SchemaWholeIs
<1> QED BY <1>8 DEF t, s

\* removeTable leaves the other entries.
LEMMA RemovedWhole ==
  ASSUME NEW p, SchemaWhole(p), NEW i \in 1 .. Len(p.tables), NEW t,
         t = SubSeq(p.tables, 1, i - 1) \o SubSeq(p.tables, i + 1, Len(p.tables)),
         SchemaShape(SchemaPage(t))
  PROVE  SchemaWhole(SchemaPage(t))
<1> DEFINE s == p.tables
           n == Len(s)
           a == SubSeq(s, 1, i - 1)
           b == SubSeq(s, i + 1, n)
<1>1. /\ IsList(s)
      /\ \A k \in 1 .. n : EntryOver(s[k])
      /\ \A k, l \in 1 .. n : s[k].name = s[l].name => k = l
  BY DEF SchemaWhole
<1>2. t = a \o b /\ i \in 1 .. n
  OBVIOUS
<1> HIDE DEF s
<1>3. n \in Nat /\ Len(a \o b) = n - 1
  BY <1>1, <1>2, RemovedIsList
<1> DEFINE S == {s[k] : k \in 1 .. n}
<1>4. \A k \in 1 .. n : s[k] \in S
  OBVIOUS
<1> HIDE DEF S, n
<1>5. a \in Seq(S) /\ Len(a) = i - 1 /\ \A k \in 1 .. i - 1 : a[k] = s[k]
  <2>1. /\ a \in Seq(S) /\ Len(a) = IF 1 <= i - 1 THEN i - 1 - 1 + 1 ELSE 0
        /\ \A k \in 1 .. i - 1 - 1 + 1 : a[k] = s[1 + k - 1]
    <3>1. 1 \in Int /\ i - 1 \in Int /\ \A k \in 1 .. i - 1 : s[k] \in S
      BY <1>2, <1>3, <1>4
    <3> QED BY <3>1, SubSeqProperties
  <2> HIDE DEF a
  <2> QED BY <1>2, <1>3, <2>1
<1>6. b \in Seq(S) /\ Len(b) = n - i /\ \A k \in 1 .. n - i : b[k] = s[i + k]
  <2>1. /\ b \in Seq(S) /\ Len(b) = IF i + 1 <= n THEN n - (i + 1) + 1 ELSE 0
        /\ \A k \in 1 .. n - (i + 1) + 1 : b[k] = s[i + 1 + k - 1]
    <3>1. i + 1 \in Int /\ n \in Int /\ \A k \in i + 1 .. n : s[k] \in S
      BY <1>2, <1>3, <1>4
    <3> QED BY <3>1, SubSeqProperties
  <2> HIDE DEF b
  <2>2. \A k \in 1 .. n - i : i + 1 + k - 1 = i + k
    BY <1>2, <1>3
  <2> QED BY <1>2, <1>3, <2>1, <2>2
<1> HIDE DEF a, b
<1>7. \A k \in 1 .. Len(a) + Len(b) : t[k] = IF k <= Len(a) THEN a[k] ELSE b[k - Len(a)]
  <2>1. \A k \in 1 .. Len(a) + Len(b) :
          (a \o b)[k] = IF k <= Len(a) THEN a[k] ELSE b[k - Len(a)]
    BY <1>5, <1>6, ConcatProperties
  <2> DEFINE c == a \o b
  <2>2. t = c /\ \A k \in 1 .. Len(a) + Len(b) :
                   c[k] = IF k <= Len(a) THEN a[k] ELSE b[k - Len(a)]
    BY <1>2, <2>1
  <2> HIDE DEF c
  <2> QED BY <2>2
<1>8. Len(t) = n - 1
  BY <1>2, <1>3
<1> DEFINE at(k) == IF k < i THEN k ELSE k + 1
<1>9. ASSUME NEW k \in 1 .. n - 1 PROVE at(k) \in 1 .. n /\ t[k] = s[at(k)]
  <2>1. t[k] = IF k <= i - 1 THEN a[k] ELSE b[k - (i - 1)]
    <3>1. k \in 1 .. Len(a) + Len(b)
      BY <1>2, <1>3, <1>5, <1>6
    <3>2. t[k] = IF k <= Len(a) THEN a[k] ELSE b[k - Len(a)]
      BY <1>7, <3>1
    <3> QED BY <1>5, <3>2
  <2>2. CASE k < i
    <3>1. k \in 1 .. i - 1 /\ k <= i - 1
      BY <1>2, <1>3, <2>2
    <3>2. t[k] = s[k]
      BY <1>5, <2>1, <3>1
    <3>3. at(k) = k
      BY <2>2
    <3>4. k \in 1 .. n
      BY <1>3
    <3> HIDE DEF at
    <3> QED BY <3>2, <3>3, <3>4
  <2>3. CASE ~(k < i)
    <3>1. k - (i - 1) \in 1 .. n - i /\ ~(k <= i - 1) /\ i + (k - (i - 1)) = k + 1
      BY <1>2, <1>3, <2>3
    <3>2. t[k] = s[k + 1]
      BY <1>6, <2>1, <3>1
    <3>3. at(k) = k + 1
      BY <2>3
    <3>4. k + 1 \in 1 .. n
      BY <1>3
    <3> HIDE DEF at
    <3> QED BY <3>2, <3>3, <3>4
  <2> QED BY <2>2, <2>3
<1>10. \A k, l \in 1 .. n - 1 : at(k) = at(l) => k = l
  BY <1>2, <1>3
<1> HIDE DEF at
<1>11. ASSUME NEW k \in 1 .. Len(t) PROVE EntryOver(t[k])
  BY <1>1, <1>8, <1>9 DEF n
<1>12. ASSUME NEW k \in 1 .. Len(t), NEW l \in 1 .. Len(t), t[k].name = t[l].name PROVE k = l
  <2>1. s[at(k)].name = s[at(l)].name /\ at(k) \in 1 .. n /\ at(l) \in 1 .. n
    BY <1>8, <1>9, <1>12
  <2>2. at(k) = at(l)
    BY <1>1, <2>1 DEF n
  <2> QED BY <1>8, <1>10, <2>2
<1> QED BY <1>11, <1>12, SchemaWholeIs

\* The fields of a TablePage that change in a call.
LEMMA TableCallsWhole ==
  ASSUME NEW types, NEW p, TableWhole(types, p), NEW v
  PROVE  /\ TableWhole(types, [p EXCEPT !.btreePageID = v])
         /\ TableWhole(types, [p EXCEPT !.numTuples = v])
<1> DEFINE id == p.btreePageID
           n == p.numTuples
           Page(x, y) == [class |-> "table", types |-> types, btreePageID |-> x, numTuples |-> y]
<1>1. p = Page(id, n) /\ types # << >> /\ TableBytes(Len(types)) <= PG_SZ
  BY DEF TableWhole
<1> HIDE DEF id, n
<1>2. [p EXCEPT !.btreePageID = v] = Page(v, n) /\ [p EXCEPT !.numTuples = v] = Page(id, v)
  BY <1>1
<1>3. ASSUME NEW x, NEW y PROVE TableWhole(types, Page(x, y))
  BY <1>1 DEF TableWhole
<1> QED BY <1>2, <1>3

-----------------------------------------------------------------------------
(* Every step keeps the pages whole *)

\* There is no page at first.
LEMMA WholeInit == Init => WholeInv
  BY InvInit DEF Init, WholeInv

\* What the callers do to a page leaves it whole, if it has all that its class promises.
LEMMA BecomeWhole ==
  ASSUME WholeInv, Inv', NEW p, Become(p), Shape(columns, p) => Whole(columns, p)
  PROVE  WholeInv'
<1>1. page' = p /\ columns' = columns /\ block' = block /\ written' = written
      /\ status' = status
  BY DEF Become
<1>2. page' # Gone => Shape(columns, p)
  BY <1>1 DEF Inv
<1>3. page' # Gone => Whole(columns', page')
  BY <1>1, <1>2
<1>4. status' \in {"up", "dead"} /\ (block' # {} => Whole(columns', written') /\ Passed(written'))
  BY <1>1 DEF WholeInv
<1> QED BY <1>3, <1>4 DEF WholeInv

\* So does a constructor from bytes.
LEMMA LoadWhole ==
  ASSUME WholeInv, Inv', NEW p, Load(p), Whole(columns, p)
  PROVE  WholeInv'
  BY DEF WholeInv, Load

\* The first byte of the block tells what page is read.
LEMMA BlockClass ==
  ASSUME WholeInv
  PROVE  /\ columns \in Seq(Type)
         /\ IsClass(BTREE_NODE_PAGE) =>
              /\ NodeWhole(columns, written) /\ block = NodeBlock(written)
              /\ NodeAsserts(written) /\ InBounds(written) /\ columns # << >>
         /\ IsClass(TABLE_PAGE) => TableWhole(columns, written) /\ block = TableBlock(written)
         /\ IsClass(SCHEMA_PAGE) => SchemaWhole(written) /\ block = SchemaBlock(written)
         /\ IsClass(FSM_PAGE) => FSMWhole(written) /\ block = FSMBlock(written)
<1>1. columns \in Seq(Type) /\ (columns # << >> => columns[1] \in Type)
  <2>1. columns \in Seq(Type)
    BY ColumnsAssumption DEF WholeInv, Inv
  <2> QED BY <2>1, LenProperties, EmptySeq
<1>2. ASSUME NEW id \in {SCHEMA_PAGE, FSM_PAGE, TABLE_PAGE, BTREE_NODE_PAGE}, IsClass(id)
      PROVE  /\ Shape(columns, written) /\ block = BlockOf(written)
             /\ Get(BlockOf(written), 0, 1) = id
             /\ Whole(columns, written) /\ Passed(written)
  <2>1. Get(block, 0, 1) = id /\ id \in Int
    BY <1>2 DEF IsClass, SCHEMA_PAGE, FSM_PAGE, TABLE_PAGE, BTREE_NODE_PAGE
  <2>2. block # {}
    BY <2>1, GetEmpty, NoiseAssumption
  <2> QED BY <2>1, <2>2 DEF WholeInv, Inv
<1>3. ASSUME IsClass(BTREE_NODE_PAGE)
      PROVE  /\ NodeWhole(columns, written) /\ block = NodeBlock(written)
             /\ NodeAsserts(written) /\ InBounds(written) /\ columns # << >>
  <2>1. /\ Shape(columns, written) /\ block = BlockOf(written)
        /\ Get(BlockOf(written), 0, 1) = BTREE_NODE_PAGE
        /\ Whole(columns, written) /\ Passed(written)
    BY <1>2, <1>3
  <2>2. NodeShape(columns, written) /\ block = NodeBlock(written)
    BY <1>1, <2>1, ReadClass
  <2>3. written.class = "node" /\ columns # << >>
    BY <2>2 DEF NodeShape
  <2> QED BY <2>1, <2>2, <2>3, WholeClass DEF Passed
<1>4. ASSUME IsClass(TABLE_PAGE)
      PROVE  TableWhole(columns, written) /\ block = TableBlock(written)
  <2>1. /\ Shape(columns, written) /\ block = BlockOf(written)
        /\ Get(BlockOf(written), 0, 1) = TABLE_PAGE
        /\ Whole(columns, written)
    BY <1>2, <1>4
  <2>2. TableShape(written) /\ block = TableBlock(written)
    BY <1>1, <2>1, ReadClass
  <2>3. written.class = "table"
    BY <2>2 DEF TableShape
  <2> QED BY <2>1, <2>2, <2>3, WholeClass
<1>5. ASSUME IsClass(SCHEMA_PAGE)
      PROVE  SchemaWhole(written) /\ block = SchemaBlock(written)
  <2>1. /\ Shape(columns, written) /\ block = BlockOf(written)
        /\ Get(BlockOf(written), 0, 1) = SCHEMA_PAGE
        /\ Whole(columns, written)
    BY <1>2, <1>5
  <2>2. SchemaShape(written) /\ block = SchemaBlock(written)
    BY <1>1, <2>1, ReadClass
  <2>3. written.class = "schema"
    BY <2>2 DEF SchemaShape
  <2> QED BY <2>1, <2>2, <2>3, WholeClass
<1>6. ASSUME IsClass(FSM_PAGE)
      PROVE  FSMWhole(written) /\ block = FSMBlock(written)
  <2>1. /\ Shape(columns, written) /\ block = BlockOf(written)
        /\ Get(BlockOf(written), 0, 1) = FSM_PAGE
        /\ Whole(columns, written)
    BY <1>2, <1>6
  <2>2. FSMShape(written) /\ block = FSMBlock(written)
    BY <1>1, <2>1, ReadClass
  <2>3. written.class = "fsm"
    BY <2>2 DEF FSMShape
  <2> QED BY <2>1, <2>2, <2>3, WholeClass
<1> QED BY <1>1, <1>3, <1>4, <1>5, <1>6

\* The page in the cache has all that its class promises.
LEMMA CachedWhole ==
  ASSUME WholeInv
  PROVE  /\ Cached("node") => NodeWhole(columns, page)
         /\ Cached("table") => TableWhole(columns, page)
         /\ Cached("schema") => SchemaWhole(page)
         /\ Cached("fsm") => FSMWhole(page)
<1>1. page # Gone => Whole(columns, page)
  BY DEF WholeInv
<1>2. page # Gone => /\ page.class = "node" => NodeWhole(columns, page)
                     /\ page.class = "table" => TableWhole(columns, page)
                     /\ page.class = "schema" => SchemaWhole(page)
                     /\ page.class = "fsm" => FSMWhole(page)
  BY <1>1, WholeClass
<1> QED BY <1>2 DEF Cached

\* A shape of a class is the shape of that class.
LEMMA ShapeClass ==
  ASSUME NEW types, NEW p, Shape(types, p)
  PROVE  /\ p.class = "node" => NodeShape(types, p)
         /\ p.class = "schema" => SchemaShape(p)
  BY DEF Shape, NodeShape, TableShape, SchemaShape, FSMShape

\* Every call that changes a node.
LEMMA NodeStep ==
  ASSUME WholeInv, Inv',
         \/ CreateLeaf \/ CreateRoot \/ Split
         \/ \E s \in Text : FillRoot(s) \/ InsertCell(s)
  PROVE  WholeInv'
<1>1. columns \in Seq(Type)
  BY BlockClass
<1>2. ASSUME NEW leaf \in BOOLEAN, Become(NewNode(leaf, << >>, << >>)) PROVE WholeInv'
  <2> DEFINE p == NewNode(leaf, << >>, << >>)
  <2>1. p.class = "node"
    BY DEF NewNode
  <2>2. Shape(columns, p) => NodeWhole(columns, p)
    BY <2>1, ShapeClass, EmptyNodeWhole
  <2>3. Become(p)
    BY <1>2
  <2> HIDE DEF p
  <2> QED BY <2>2, <2>3, BecomeWhole DEF Whole
<1>3. CASE CreateLeaf
  BY <1>2, <1>3 DEF CreateLeaf
<1>4. CASE CreateRoot
  BY <1>2, <1>4 DEF CreateRoot
<1>5. ASSUME NEW s \in Text, FillRoot(s) PROVE WholeInv'
  <2> DEFINE p == NewNode(FALSE, <<Cell(1, s)>>, <<Child(1), Child(2)>>)
  <2>1. p.class = "node"
    BY DEF NewNode
  <2>2. Shape(columns, p) => NodeWhole(columns, p)
    BY <1>1, <2>1, ShapeClass, RootWhole
  <2>3. Become(p)
    BY <1>5 DEF FillRoot
  <2> HIDE DEF p
  <2> QED BY <2>2, <2>3, BecomeWhole DEF Whole
<1>6. ASSUME NEW s \in Text, InsertCell(s) PROVE WholeInv'
  <2> DEFINE c == Cell(Len(page.cells) + 1, s)
             child == Child(Len(page.cells) + 2)
             cells == Append(page.cells, c)
             children == IF page.leaf THEN page.children ELSE Append(page.children, child)
             p == With(page, page.root, page.parent, cells, children)
  <2>1. NodeWhole(columns, page) /\ (page.leaf \/ page.cells # << >>)
    BY <1>6, CachedWhole DEF InsertCell
  <2>2. CellOver(columns, c)
    BY <1>1, NewCellOver
  <2>3. Become([page EXCEPT !.cells = cells, !.children = children])
    BY <1>6 DEF InsertCell
  <2>4. Become(p)
    <3> HIDE DEF cells, children
    <3> QED BY <2>1, <2>3, CellFieldsChange
  <2>5. p.class = "node"
    BY DEF With
  <2> HIDE DEF c, child
  <2>6. NodeShape(columns, p) => NodeWhole(columns, p)
    BY <2>1, <2>2, InsertedWhole
  <2> HIDE DEF p
  <2> QED BY <2>4, <2>5, <2>6, ShapeClass, BecomeWhole DEF Whole
<1>7. CASE Split
  <2> DEFINE m == Len(page.cells) \div 2
             cells == SubSeq(page.cells, 1, m)
             children == IF page.leaf THEN page.children ELSE SubSeq(page.children, 1, m + 1)
             p == With(page, FALSE, Parent, cells, children)
  <2>1. NodeWhole(columns, page)
    BY <1>7, CachedWhole DEF Split
  <2>2. m \in 0 .. Len(page.cells)
    <3>1. Len(page.cells) \in Nat
      BY <2>1, LenProperties DEF NodeWhole, NodeShape, IsList
    <3>2. \A n \in Nat : n \div 2 \in 0 .. n
      OBVIOUS
    <3> QED BY <3>1, <3>2
  <2>3. Become([page EXCEPT !.root = FALSE, !.parent = Parent, !.cells = cells,
                            !.children = children])
    BY <1>7 DEF Split
  <2> HIDE DEF m
  <2>4. Become(p)
    <3> HIDE DEF cells, children
    <3> QED BY <2>1, <2>3, SplitFieldsChange
  <2>5. p.class = "node"
    BY DEF With
  <2>6. NodeShape(columns, p) => NodeWhole(columns, p)
    BY <2>1, <2>2, HalfWhole
  <2> HIDE DEF p
  <2> QED BY <2>4, <2>5, <2>6, ShapeClass, BecomeWhole DEF Whole
<1> QED BY <1>3, <1>4, <1>5, <1>6, <1>7

\* Every call that changes a TablePage.
LEMMA TableStep ==
  ASSUME WholeInv, Inv', ~Die,
         CreateTablePage \/ SetBtreePageID(Parent) \/ AddTuple
  PROVE  WholeInv'
<1>1. CASE CreateTablePage
  <2> DEFINE p == [class |-> "table", types |-> columns, btreePageID |-> PGID_INVALID,
                   numTuples |-> 0]
  <2>1. columns # << >> /\ Len(columns) <= PG_SZ - 100 /\ Become(p)
    BY <1>1 DEF CreateTablePage
  <2>2. TableBytes(Len(columns)) <= PG_SZ
    <3>1. Len(columns) \in Nat /\ PG_SZ \in Nat
      BY BlockClass, SizesAssumption
    <3> QED BY <2>1, <3>1 DEF TableBytes
  <2>3. TableWhole(columns, p)
    BY <2>1, <2>2 DEF TableWhole
  <2> HIDE DEF p
  <2> QED BY <2>1, <2>3, BecomeWhole DEF Whole
<1>2. CASE SetBtreePageID(Parent)
  <2>1. TableWhole(columns, page) /\ Become([page EXCEPT !.btreePageID = Parent])
    BY <1>2, CachedWhole DEF SetBtreePageID
  <2> DEFINE p == [page EXCEPT !.btreePageID = Parent]
  <2>2. TableWhole(columns, p) /\ Become(p)
    BY <2>1, TableCallsWhole
  <2> HIDE DEF p
  <2> QED BY <2>2, BecomeWhole DEF Whole
<1>3. CASE AddTuple
  <2> DEFINE n == page.numTuples + 1
             p == [page EXCEPT !.numTuples = n]
  <2>1. TableWhole(columns, page) /\ Become(p)
    BY <1>3, CachedWhole DEF AddTuple
  <2>2. TableWhole(columns, p)
    <3> HIDE DEF n
    <3> QED BY <2>1, TableCallsWhole
  <2> HIDE DEF p
  <2> QED BY <2>1, <2>2, BecomeWhole DEF Whole
<1> QED BY <1>1, <1>2, <1>3

\* Every call that changes the SchemaPage.
LEMMA SchemaStep ==
  ASSUME WholeInv, Inv', ~Die,
         CreateSchemaPage \/ \E n \in Name : AddTable(n) \/ RemoveTable(n)
  PROVE  WholeInv'
<1>1. CASE CreateSchemaPage
  <2>1. PICK n \in Filled :
          Become([class |-> "schema",
                  tables |-> [i \in 1 .. n |-> [name |-> <<i>>, pageID |-> i]]])
    BY <1>1 DEF CreateSchemaPage
  <2> DEFINE tables == [i \in 1 .. n |-> [name |-> <<i>>, pageID |-> i]]
             p == SchemaPage(tables)
  <2>2. n \in Nat
    BY FilledAssumption
  <2>3. Become(p) /\ p.class = "schema"
    BY <2>1 DEF SchemaPage
  <2>4. SchemaShape(p) => SchemaWhole(p)
    <3>1. tables = [i \in 1 .. n |-> [name |-> <<i>>, pageID |-> i]]
      OBVIOUS
    <3> HIDE DEF tables
    <3> QED BY <2>2, <3>1, NewSchemaWhole
  <2> HIDE DEF p
  <2> QED BY <2>3, <2>4, ShapeClass, BecomeWhole DEF Whole
<1>2. ASSUME NEW n \in Name, AddTable(n) PROVE WholeInv'
  <2> DEFINE e == [name |-> n, pageID |-> Parent]
             tables == Append(page.tables, e)
             p == SchemaPage(tables)
  <2>1. SchemaWhole(page) /\ \A i \in 1 .. Len(page.tables) : page.tables[i].name # n
    BY <1>2, CachedWhole DEF AddTable, HasTable
  <2>2. EntryOver(e) /\ e.name = n
    BY DEF EntryOver
  <2>3. Become([page EXCEPT !.tables = tables])
    BY <1>2 DEF AddTable
  <2> HIDE DEF e
  <2>4. Become(p)
    <3> HIDE DEF tables
    <3> QED BY <2>1, <2>3, SchemaFields
  <2>5. SchemaShape(p) => SchemaWhole(p)
    BY <2>1, <2>2, AddedWhole
  <2>6. p.class = "schema"
    BY DEF SchemaPage
  <2> HIDE DEF p
  <2> QED BY <2>4, <2>5, <2>6, ShapeClass, BecomeWhole DEF Whole
<1>3. ASSUME NEW n \in Name, RemoveTable(n) PROVE WholeInv'
  <2>1. PICK i \in 1 .. Len(page.tables) :
          Become([page EXCEPT !.tables = SubSeq(page.tables, 1, i - 1)
                                           \o SubSeq(page.tables, i + 1, Len(page.tables))])
    BY <1>3 DEF RemoveTable
  <2> DEFINE tables == SubSeq(page.tables, 1, i - 1)
                         \o SubSeq(page.tables, i + 1, Len(page.tables))
             p == SchemaPage(tables)
  <2>2. SchemaWhole(page)
    BY <1>3, CachedWhole DEF RemoveTable
  <2>3. Become([page EXCEPT !.tables = tables])
    BY <2>1
  <2>4. tables = SubSeq(page.tables, 1, i - 1) \o SubSeq(page.tables, i + 1, Len(page.tables))
    OBVIOUS
  <2> HIDE DEF tables
  <2>5. Become(p)
    BY <2>2, <2>3, SchemaFields
  <2>6. SchemaShape(p) => SchemaWhole(p)
    BY <2>2, <2>4, RemovedWhole
  <2>7. p.class = "schema"
    BY DEF SchemaPage
  <2> HIDE DEF p
  <2> QED BY <2>5, <2>6, <2>7, ShapeClass, BecomeWhole DEF Whole
<1> QED BY <1>1, <1>2, <1>3

\* Every call that changes an FSM page.
LEMMA FSMStep ==
  ASSUME WholeInv, Inv',
         \/ CreateFSMPage \/ FSMAlloc \/ SetNextPageID(BlocksInPage)
         \/ \E i \in 1 .. MaxBits : FSMFree(i)
  PROVE  WholeInv'
<1>1. CASE CreateFSMPage
  <2> DEFINE p == FSMPage(PGID_INVALID, BlocksInPage - 1, BlocksInPage, {0})
  <2>1. Become(p)
    BY <1>1 DEF CreateFSMPage, FSMPage
  <2>2. FSMWhole(p)
    BY NewFSMWhole
  <2> HIDE DEF p
  <2> QED BY <2>1, <2>2, BecomeWhole DEF Whole
<1>2. CASE FSMAlloc
  <2> DEFINE i == CHOOSE i \in 0 .. MaxBits :
                    i \notin page.used /\ \A j \in 0 .. i - 1 : j \in page.used
             p == [page EXCEPT !.used = page.used \cup {i}, !.free = page.free - 1]
  <2>1. FSMWhole(page) /\ Cardinality(page.used \cap 0 .. MaxBits) <= MaxBits
    BY <1>2, CachedWhole DEF FSMAlloc
  <2>2. i \in 0 .. MaxBits /\ i \notin page.used
    <3>1. \E k \in 0 .. MaxBits : k \notin page.used /\ \A j \in 0 .. k - 1 : j \in page.used
      BY <2>1, FirstFree
    <3> QED BY <3>1
  <2>3. Become(p)
    BY <1>2 DEF FSMAlloc
  <2> HIDE DEF i
  <2>4. FSMWhole(p)
    BY <2>1, <2>2, FSMCallsWhole
  <2> HIDE DEF p
  <2> QED BY <2>3, <2>4, BecomeWhole DEF Whole
<1>3. CASE SetNextPageID(BlocksInPage)
  <2> DEFINE p == [page EXCEPT !.next = BlocksInPage]
  <2>1. FSMWhole(page) /\ Become(p)
    BY <1>3, CachedWhole DEF SetNextPageID
  <2>2. FSMWhole(p)
    BY <2>1, FSMCallsWhole
  <2> HIDE DEF p
  <2> QED BY <2>1, <2>2, BecomeWhole DEF Whole
<1>4. ASSUME NEW i \in 1 .. MaxBits, FSMFree(i) PROVE WholeInv'
  <2> DEFINE p == [page EXCEPT !.used = page.used \ {i}, !.free = page.free + 1]
  <2>1. FSMWhole(page) /\ Become(p) /\ i \in page.used
    BY <1>4, CachedWhole DEF FSMFree
  <2>2. i \in 0 .. MaxBits
    BY BitSizes
  <2>3. FSMWhole(p)
    BY <2>1, <2>2, FSMCallsWhole
  <2> HIDE DEF p
  <2> QED BY <2>1, <2>3, BecomeWhole DEF Whole
<1> QED BY <1>1, <1>2, <1>3, <1>4

\* Every load.
LEMMA LoadStep ==
  ASSUME WholeInv, Inv', ~Die, LoadNode \/ LoadTable \/ LoadSchema \/ LoadFSM
  PROVE  WholeInv'
<1>1. columns \in Seq(Type)
  BY BlockClass
<1>2. CASE LoadNode
  <2>1. IsClass(BTREE_NODE_PAGE) /\ NodeReadable(block) /\ Load(NodeFrom(block))
    BY <1>2 DEF LoadNode
  <2>2. /\ NodeWhole(columns, written) /\ block = NodeBlock(written) /\ NodeAsserts(written)
        /\ columns # << >>
    BY <2>1, BlockClass
  <2>3. NodeWhole(columns, NodeFrom(NodeBlock(written)))
    BY <1>1, <2>1, <2>2, ReadWhole
  <2>4. NodeWhole(columns, NodeFrom(block))
    BY <2>2, <2>3
  <2> QED BY <2>1, <2>4, LoadWhole DEF Whole
<1>3. CASE LoadTable
  <2>1. IsClass(TABLE_PAGE) /\ Load(TableFrom(block))
    BY <1>3 DEF LoadTable
  <2>2. TableWhole(columns, written) /\ block = TableBlock(written)
    BY <2>1, BlockClass
  <2>3. TableFrom(TableBlock(written)) = written
    BY <1>1, <2>2, ReadTableWhole
  <2>4. TableWhole(columns, TableFrom(block))
    BY <2>2, <2>3
  <2> QED BY <2>1, <2>4, LoadWhole DEF Whole
<1>4. CASE LoadSchema
  <2>1. IsClass(SCHEMA_PAGE) /\ Load(SchemaFrom(block))
    BY <1>4 DEF LoadSchema
  <2>2. SchemaWhole(written) /\ block = SchemaBlock(written)
    BY <2>1, BlockClass
  <2>3. SchemaWhole(SchemaFrom(SchemaBlock(written)))
    BY <2>2, ReadSchemaWhole
  <2>4. SchemaWhole(SchemaFrom(block))
    BY <2>2, <2>3
  <2> QED BY <2>1, <2>4, LoadWhole DEF Whole
<1>5. CASE LoadFSM
  <2>1. IsClass(FSM_PAGE) /\ \E garbage : Load(FSMFrom(block, garbage))
    BY <1>5 DEF LoadFSM
  <2>2. PICK garbage : Load(FSMFrom(block, garbage))
    BY <2>1
  <2>3. FSMWhole(written) /\ block = FSMBlock(written)
    BY <2>1, BlockClass
  <2>4. FSMWhole(FSMFrom(FSMBlock(written), garbage))
    BY <2>3, ReadFSMWhole
  <2>5. FSMWhole(FSMFrom(block, garbage))
    BY <2>3, <2>4
  <2> QED BY <2>2, <2>5, LoadWhole DEF Whole
<1> QED BY <1>2, <1>3, <1>4, <1>5

\* Every step keeps the pages whole.
LEMMA WholeStep == WholeInv /\ [Next]_vars => WholeInv'
<1> SUFFICES ASSUME WholeInv, [Next]_vars PROVE WholeInv'
  OBVIOUS
<1>1. Inv'
  BY InvStep DEF WholeInv
<1>2. CASE Die
  BY <1>1, <1>2 DEF Die, WholeInv
<1>3. CASE Evict
  <2>1. CASE /\ InBounds(page) /\ (page.class = "node" => NodeAsserts(page))
             /\ written' = page /\ page' = Gone /\ columns' = columns /\ status' = status
    <3>1. Whole(columns, page)
      BY <1>3 DEF WholeInv, Evict
    <3> QED BY <1>1, <2>1, <3>1 DEF WholeInv, Passed
  <2>2. Die \/ /\ InBounds(page) /\ (page.class = "node" => NodeAsserts(page))
               /\ written' = page /\ page' = Gone /\ columns' = columns /\ status' = status
    BY <1>3 DEF Evict
  <2> QED BY <1>2, <2>1, <2>2
<1>4. CASE Dead \/ UNCHANGED vars
  BY <1>1, <1>4 DEF Dead, vars, WholeInv
<1>5. ASSUME LoadNode \/ LoadTable \/ LoadSchema \/ LoadFSM, ~Die PROVE WholeInv'
  BY <1>1, <1>5, LoadStep
<1>6. ASSUME CreateLeaf \/ CreateRoot \/ Split \/ \E s \in Text : FillRoot(s) \/ InsertCell(s)
      PROVE  WholeInv'
  BY <1>1, <1>6, NodeStep
<1>7. ASSUME CreateTablePage \/ SetBtreePageID(Parent) \/ AddTuple, ~Die PROVE WholeInv'
  BY <1>1, <1>7, TableStep
<1>8. ASSUME CreateSchemaPage \/ \E n \in Name : AddTable(n) \/ RemoveTable(n), ~Die
      PROVE  WholeInv'
  BY <1>1, <1>8, SchemaStep
<1>9. ASSUME \/ CreateFSMPage \/ FSMAlloc \/ SetNextPageID(BlocksInPage)
             \/ \E i \in 1 .. MaxBits : FSMFree(i)
      PROVE  WholeInv'
  BY <1>1, <1>9, FSMStep
<1> QED BY <1>2, <1>3, <1>4, <1>5, <1>6, <1>7, <1>8, <1>9 DEF Next

\* In every state that is reached a page has all that its callers rely on, and the page
\* in the block was such a page when it was written.
THEOREM WholeAlways == Spec => []WholeInv
  BY WholeInit, WholeStep, PTL DEF Spec

-----------------------------------------------------------------------------
(* What is kept *)

\* The degree of a node is an offset_t.
LEMMA DegreeIsU16 ==
  ASSUME NEW types \in Seq(Type), types # << >>
  PROVE  calculateDegree(types) \in 0 .. U16 - 1
<1> DEFINE c == CellSize(types) % U16
           d == Degree(c)
           x == d * c
<1>1. c \in Nat
  <2>1. CellSize(types) \in Nat
    BY CellSizeBound
  <2> QED BY <2>1 DEF U16
<1>2. d \in Nat /\ 2 * (d * (c + 4)) <= PG_SZ - metadataBuffer + c
  <2> HIDE DEF c
  <2> QED BY <1>1, DegreeBound
<1>3. PG_SZ < 65536 /\ PG_SZ \in Nat /\ metadataBuffer \in Nat
  <2>1. PG_SZ < 65536
    BY PageAssumption DEF U16
  <2> QED BY <2>1, SizesAssumption
<1>4. calculateDegree(types) = d
  BY DEF calculateDegree
<1> HIDE DEF c, d
<1>5. d * (c + 4) = x + 4 * d
  BY <1>1, <1>2
<1>6. x \in Nat /\ (d = 0 \/ c <= x)
  <2>1. \A a, b \in Nat : a * b \in Nat /\ (a = 0 \/ b <= a * b)
    OBVIOUS
  <2> QED BY <1>1, <1>2, <2>1
<1> HIDE DEF x
<1>7. d = 0 \/ 2 * x + 8 * d <= PG_SZ + c
  BY <1>1, <1>2, <1>3, <1>5, <1>6
<1>8. d <= 65535
  <2>1. d \in Nat
    BY <1>2
  <2> QED BY <2>1, <1>1, <1>3, <1>6, <1>7
<1>9. d \in Nat /\ U16 \in Nat /\ d < U16
  <2>1. d \in Nat
    BY <1>2
  <2> QED BY <2>1, <1>8 DEF U16
<1>10. d \in 0 .. U16 - 1
  BY <1>9
<1> QED BY <1>4, <1>10

\* Nodes keep their degree, their kind, their parent and one child more than cells, and
\* FSM pages the number of their free bits, through every call, eviction and load; and
\* the names of the tables stay different, also when a name is cut off.
THEOREM TypeCorrect == Spec => []TypeOK
<1>1. ASSUME WholeInv PROVE TypeOK
  <2>1. columns \in Columns /\ status \in {"up", "dead"} /\ columns \in Seq(Type)
    BY <1>1, BlockClass DEF WholeInv, Inv
  <2>2. page = Gone \/ page.class \in {"node", "table", "schema", "fsm"}
    BY <1>1, WholeClass DEF WholeInv
  <2>3. ASSUME Cached("node") PROVE NodeOK
    <3>1. NodeWhole(columns, page)
      BY <1>1, <2>3, CachedWhole
    <3>2. /\ page.degree = calculateDegree(columns) /\ columns # << >>
          /\ page.leaf \in BOOLEAN /\ page.root \in BOOLEAN
          /\ page.parent = IF page.root THEN PGID_INVALID ELSE Parent
          /\ page.leaf => page.children = << >>
      BY <3>1 DEF NodeWhole, NodeShape
    <3>3. page.cells # << >> /\ ~page.leaf => Len(page.children) = Len(page.cells) + 1
      BY <3>1, Children
    <3>4. page.degree \in 0 .. U16 - 1
      BY <2>1, <3>2, DegreeIsU16
    <3> QED BY <3>2, <3>3, <3>4 DEF NodeOK
  <2>4. ASSUME Cached("fsm") PROVE FSMOK
    <3>1. FSMWhole(page)
      BY <1>1, <2>4, CachedWhole
    <3>2. /\ page.size \in {BlocksInPage, 8 * (PG_SZ - 9)}
          /\ page.used \subseteq 0 .. page.size - 1
          /\ page.free = Cardinality((0 .. MaxBits) \ page.used) + BlocksInPage - 1 - MaxBits
      BY <3>1 DEF FSMWhole, FreeBits
    <3>3. page.size \in {BlocksInPage, BlocksInPage + 24}
      BY <3>2, BitSizes
    <3> QED BY <3>2, <3>3 DEF FSMOK
  <2>5. ASSUME Cached("schema")
        PROVE  \A i, j \in 1 .. Len(page.tables) :
                 page.tables[i].name = page.tables[j].name => i = j
    <3>1. SchemaWhole(page)
      BY <1>1, <2>5, CachedWhole
    <3> QED BY <3>1 DEF SchemaWhole
  <2> QED BY <2>1, <2>2, <2>3, <2>4, <2>5 DEF TypeOK
<1> QED BY <1>1, WholeAlways, PTL

\* The constructor takes the block of a node whose columns are counted in a byte and whose
\* strings end, and returns the node.
LEMMA LoadsNode ==
  ASSUME WholeInv, IsClass(BTREE_NODE_PAGE), LoadNode, Kept(written)
  PROVE  status' = "up" /\ page' = written /\ written.class = "node"
<1>1. /\ NodeWhole(columns, written) /\ block = NodeBlock(written)
      /\ NodeAsserts(written) /\ InBounds(written) /\ columns # << >>
      /\ columns \in Seq(Type)
  BY BlockClass
<1>2. written.class = "node"
  BY <1>1 DEF NodeWhole, NodeShape
<1>3. Len(columns) < U8 /\ PlainCells(written)
  BY <1>2 DEF Kept, PlainCells
<1>4. NodeFrom(NodeBlock(written)) = written /\ NodeReadable(NodeBlock(written))
  BY <1>1, <1>3, ReadKept
<1>5. NodeReadable(block) /\ NodeFrom(block) = written /\ InBounds(NodeFrom(block))
  BY <1>1, <1>4
<1>6. Load(NodeFrom(block))
  BY <1>5 DEF LoadNode
<1> QED BY <1>2, <1>5, <1>6 DEF Load, IsClass, Up

\* The constructor of a TablePage takes every block and returns the page.
LEMMA LoadsTable ==
  ASSUME WholeInv, LoadTable
  PROVE  status' = "up" /\ page' = written /\ written.class = "table"
<1>1. columns \in Seq(Type) /\ TableWhole(columns, written) /\ block = TableBlock(written)
  BY BlockClass DEF LoadTable
<1>2. /\ Get(TableBlock(written), 1, 2) = Len(columns) /\ Len(columns) > 0
      /\ TableFrom(TableBlock(written)) = written
  BY <1>1, ReadTableWhole
<1>3. TableBytes(Len(columns)) <= PG_SZ /\ written.class = "table"
  BY <1>1 DEF TableWhole
<1>4. Get(block, 1, 2) > 0 /\ TableBytes(Get(block, 1, 2)) <= PG_SZ /\ TableFrom(block) = written
  BY <1>1, <1>2, <1>3
<1>5. Load(TableFrom(block))
  BY <1>4 DEF LoadTable
<1> QED BY <1>3, <1>4, <1>5 DEF Load, LoadTable, IsClass, Up

\* The constructor of a SchemaPage takes every block, and returns the entries if no name
\* is cut off.
LEMMA LoadsSchema ==
  ASSUME WholeInv, LoadSchema, Kept(written)
  PROVE  status' = "up" /\ Same(written, page')
<1>1. SchemaWhole(written) /\ block = SchemaBlock(written)
  BY BlockClass DEF LoadSchema
<1>2. written.class = "schema"
  BY <1>1 DEF SchemaWhole
<1>3. \A i \in 1 .. Len(written.tables) : CStr(written.tables[i].name) = written.tables[i].name
  BY <1>2 DEF Kept, Plain
<1> DEFINE b == SchemaBlock(written)
           q == SchemaFrom(b)
<1>4. /\ SchemaBytes(Get(b, 1, 1)) < PG_SZ
      /\ (\A i \in 1 .. Len(written.tables) :
            CStr(written.tables[i].name) = written.tables[i].name) =>
           {written.tables[i] : i \in 1 .. Len(written.tables)}
             = {q.tables[i] : i \in 1 .. Len(q.tables)}
  BY <1>1, ReadSchemaWhole
<1>5. {written.tables[i] : i \in 1 .. Len(written.tables)}
      = {q.tables[i] : i \in 1 .. Len(q.tables)}
  BY <1>3, <1>4
<1>6. Load(q)
  BY <1>1, <1>4 DEF LoadSchema
<1> HIDE DEF q
<1>7. page' = q /\ status' = "up"
  BY <1>6 DEF Load, LoadSchema, IsClass, Up
<1> QED BY <1>2, <1>5, <1>7 DEF Same

\* An FSM page is read with its bits and its counter.
LEMMA LoadsFSM ==
  ASSUME WholeInv, LoadFSM
  PROVE  status' = "up" /\ Same(written, page')
<1>1. FSMWhole(written) /\ block = FSMBlock(written)
  BY BlockClass DEF LoadFSM
<1>2. written.class = "fsm"
  BY <1>1 DEF FSMWhole
<1>3. PICK garbage : Load(FSMFrom(block, garbage))
  BY DEF LoadFSM
<1> DEFINE q == FSMFrom(block, garbage)
<1>4. /\ q.next = written.next /\ q.free = written.free /\ q.size >= written.size
      /\ q.used \cap 0 .. BlocksInPage - 1 = written.used \cap 0 .. BlocksInPage - 1
  <2> DEFINE r == FSMFrom(FSMBlock(written), garbage)
  <2>1. /\ r.next = written.next /\ r.free = written.free /\ r.size >= written.size
        /\ r.used \cap 0 .. BlocksInPage - 1 = written.used \cap 0 .. BlocksInPage - 1
    BY <1>1, ReadFSMWhole
  <2>2. q = r
    BY <1>1
  <2> HIDE DEF q, r
  <2> QED BY <2>1, <2>2
<1>5. Load(q)
  BY <1>3
<1> HIDE DEF q
<1>6. page' = q /\ status' = "up"
  BY <1>5 DEF Load, LoadFSM, IsClass, Up
<1> QED BY <1>2, <1>4, <1>6 DEF Same

\* Every page whose strings end and whose columns are counted in a byte is read as it was
\* written, whatever it went through before, and no constructor rejects it: what PageCache
\* builds on.
THEOREM PagesAreKept == Spec => RoundTrip
<1> DEFINE A == page = Gone /\ block # {} /\ Kept(written) =>
                  status' = "up" /\ Same(written, page')
<1>1. ASSUME WholeInv, [Next]_vars PROVE [A]_vars
  <2> SUFFICES ASSUME Next, ~UNCHANGED vars, page = Gone, block # {}, Kept(written)
               PROVE  status' = "up" /\ Same(written, page')
    BY <1>1
  <2>1. LoadNode \/ LoadTable \/ LoadSchema \/ LoadFSM
    BY DEF Next, Evict, CreateLeaf, CreateRoot, Split, FillRoot, InsertCell, CreateTablePage,
           SetBtreePageID, AddTuple, CreateSchemaPage, AddTable, RemoveTable, CreateFSMPage,
           FSMAlloc, FSMFree, SetNextPageID, Dead, Cached, Unused
  <2>2. CASE LoadNode
    <3>1. page' = written /\ status' = "up" /\ written.class = "node"
      BY <1>1, <2>2, LoadsNode DEF LoadNode
    <3> QED BY <3>1 DEF Same
  <2>3. CASE LoadTable
    <3>1. page' = written /\ status' = "up" /\ written.class = "table"
      BY <1>1, <2>3, LoadsTable
    <3> QED BY <3>1 DEF Same
  <2>4. CASE LoadSchema
    BY <1>1, <2>4, LoadsSchema
  <2>5. CASE LoadFSM
    BY <1>1, <2>5, LoadsFSM
  <2> QED BY <2>1, <2>2, <2>3, <2>4, <2>5
<1>2. Spec => [][A]_vars
  BY <1>1, WholeAlways, PTL DEF Spec
<1> QED BY <1>2 DEF RoundTrip
=============================================================================
