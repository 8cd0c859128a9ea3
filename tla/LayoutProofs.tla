---------------------------- MODULE LayoutProofs ----------------------------
(***************************************************************************)
(* That the nodes fit their pages, for every table and every size of page: *)
(* what calculateDegree is for.                                            *)
(***************************************************************************)
EXTENDS Layout, FiniteSetTheorems, TLAPS

\* The quotient of two numbers times the divisor is not more than the dividend.
LEMMA QuotientBound ==
  ASSUME NEW a \in Nat, NEW b \in Nat \ {0}
  PROVE  /\ a \div b \in Nat
         /\ (a \div b) * b <= a
  OBVIOUS

\* calculateDegree returns a degree with which 2 t cells, each with a page id of a
\* child, take no more than the page without the header and one cell.
LEMMA DegreeBound ==
  ASSUME NEW c \in Nat
  PROVE  /\ Degree(c) \in Nat
         /\ 2 * (Degree(c) * (c + 4)) <= PG_SZ - metadataBuffer + c
<1> DEFINE a == PG_SZ - metadataBuffer + c
           b == 2 * (c + 4)
<1>1. a \in Nat /\ b \in Nat \ {0}
  BY SizesAssumption
<1>2. a \div b \in Nat /\ (a \div b) * b <= a
  BY <1>1, QuotientBound
<1>3. Degree(c) = a \div b
  BY DEF Degree
<1>4. ASSUME NEW d \in Nat PROVE d * b = 2 * (d * (c + 4))
  OBVIOUS
<1> QED
  BY <1>2, <1>3, <1>4

\* The columns of one type can be counted.
LEMMA CountType ==
  ASSUME NEW types \in Seq(Type), NEW t
  PROVE  /\ IsFiniteSet({j \in 1 .. Len(types) : types[j] = t})
         /\ Count(types, t) \in Nat
<1>1. IsFiniteSet(1 .. Len(types))
  BY FS_Interval
<1>2. {j \in 1 .. Len(types) : types[j] = t} \in SUBSET (1 .. Len(types))
  OBVIOUS
<1>3. IsFiniteSet({j \in 1 .. Len(types) : types[j] = t})
  BY <1>1, <1>2, FS_Subset
<1> QED
  BY <1>3, FS_CardinalityType DEF Count

\* The cardinality of a union is at most the sum of those of its parts.
LEMMA UnionBound ==
  ASSUME NEW A, NEW B, IsFiniteSet(A), IsFiniteSet(B)
  PROVE  /\ IsFiniteSet(A \cup B)
         /\ Cardinality(A \cup B) <= Cardinality(A) + Cardinality(B)
<1>1. IsFiniteSet(A \cap B)
  BY FS_Intersection
<1>2. Cardinality(A) \in Nat /\ Cardinality(B) \in Nat /\ Cardinality(A \cap B) \in Nat
  BY <1>1, FS_CardinalityType
<1>3. /\ IsFiniteSet(A \cup B)
      /\ Cardinality(A \cup B) = Cardinality(A) + Cardinality(B) - Cardinality(A \cap B)
  BY FS_Union
<1> QED
  BY <1>2, <1>3

\* The first n numbers are n.
LEMMA IntervalCount ==
  ASSUME NEW n \in Nat
  PROVE  Cardinality(1 .. n) = n
<1>1. Cardinality(1 .. n) = IF 1 > n THEN 0 ELSE n - 1 + 1
  BY FS_Interval
<1> QED
  BY <1>1

\* A number is at most its product with a positive one.
LEMMA ProductBound ==
  ASSUME NEW a \in Nat \ {0}, NEW b \in Nat
  PROVE  a * b \in Nat /\ b <= a * b
  OBVIOUS

\* A row has a byte for each of its columns at least.
LEMMA RowSizeBound ==
  ASSUME NEW types \in Seq(Type)
  PROVE  /\ RowSize(types) \in Nat
         /\ Len(types) <= RowSize(types)
<1> DEFINE C(t) == {j \in 1 .. Len(types) : types[j] = t}
           N(t) == Count(types, t)
           n == Len(types)
<1>1. \A t : IsFiniteSet(C(t)) /\ Cardinality(C(t)) = N(t) /\ N(t) \in Nat
  BY CountType DEF Count
<1>2. /\ n \in Nat
      /\ 1 .. n = C("int") \cup C("char") \cup C("bool") \cup C("float") \cup C("double")
                   \cup C("string")
  <2>1. \A j \in 1 .. Len(types) : types[j] \in Type
    OBVIOUS
  <2> QED
    BY <2>1 DEF Type
<1>3. RowSize(types) = 4 * N("int") + N("char") + N("bool") + 4 * N("float")
                         + 8 * N("double") + MAX_STR_SZ * N("string")
  BY DEF RowSize
<1> HIDE DEF C, N, n
<1> DEFINE U2 == C("int") \cup C("char")
           U3 == U2 \cup C("bool")
           U4 == U3 \cup C("float")
           U5 == U4 \cup C("double")
           U6 == U5 \cup C("string")
<1>4. IsFiniteSet(U2) /\ Cardinality(U2) <= N("int") + N("char")
  BY <1>1, UnionBound
<1>5. IsFiniteSet(U3) /\ Cardinality(U3) <= Cardinality(U2) + N("bool")
  BY <1>1, <1>4, UnionBound
<1>6. IsFiniteSet(U4) /\ Cardinality(U4) <= Cardinality(U3) + N("float")
  BY <1>1, <1>5, UnionBound
<1>7. IsFiniteSet(U5) /\ Cardinality(U5) <= Cardinality(U4) + N("double")
  BY <1>1, <1>6, UnionBound
<1>8. IsFiniteSet(U6) /\ Cardinality(U6) <= Cardinality(U5) + N("string")
  BY <1>1, <1>7, UnionBound
<1>9. Cardinality(U6) = n
  BY <1>2, IntervalCount
<1> DEFINE u2 == Cardinality(U2)
           u3 == Cardinality(U3)
           u4 == Cardinality(U4)
           u5 == Cardinality(U5)
           i == N("int")
           c == N("char")
           b == N("bool")
           f == N("float")
           d == N("double")
           s == N("string")
           i4 == 4 * i
           f4 == 4 * f
           d8 == 8 * d
           sm == MAX_STR_SZ * s
<1>10. u2 \in Nat /\ u3 \in Nat /\ u4 \in Nat /\ u5 \in Nat
  BY <1>4, <1>5, <1>6, <1>7, FS_CardinalityType
<1>11. i \in Nat /\ c \in Nat /\ b \in Nat /\ f \in Nat /\ d \in Nat /\ s \in Nat
  BY <1>1
<1>12. u2 <= i + c /\ u3 <= u2 + b /\ u4 <= u3 + f /\ u5 <= u4 + d /\ n <= u5 + s
  BY <1>4, <1>5, <1>6, <1>7, <1>8, <1>9
<1>13. /\ i4 \in Nat /\ i <= i4
       /\ f4 \in Nat /\ f <= f4
       /\ d8 \in Nat /\ d <= d8
  BY <1>11
<1>14. sm \in Nat /\ s <= sm
  <2>1. s \in Nat /\ MAX_STR_SZ \in Nat \ {0}
    BY <1>11, SizesAssumption
  <2> HIDE DEF s
  <2> QED
    BY <2>1, ProductBound
<1>15. RowSize(types) = i4 + c + b + f4 + d8 + sm
  BY <1>3
<1> HIDE DEF U2, U3, U4, U5, U6, u2, u3, u4, u5, i, c, b, f, d, s, i4, f4, d8, sm
<1>16. n <= i + c + b + f + d + s
  BY <1>2, <1>10, <1>11, <1>12
<1>17. n <= i4 + c + b + f4 + d8 + sm
  BY <1>2, <1>11, <1>13, <1>14, <1>16
<1>18. i4 + c + b + f4 + d8 + sm \in Nat
  BY <1>11, <1>13, <1>14
<1> QED
  BY <1>15, <1>17, <1>18 DEF n

\* A cell has a byte for each column at least, and one for its key.
LEMMA CellSizeBound ==
  ASSUME NEW types \in Seq(Type), types # << >>
  PROVE  /\ CellSize(types) \in Nat
         /\ Len(types) < CellSize(types)
<1>1. types[1] \in Type
  OBVIOUS
<1>2. db_sizeof[types[1]] \in Nat \ {0}
  BY <1>1, SizesAssumption DEF db_sizeof, Type
<1> QED
  BY <1>2, RowSizeBound DEF CellSize

-----------------------------------------------------------------------------
\* calculateDegree makes nodes fit.  A node with cells of c bytes in n columns has at
\* most 2 t - 2 cells between two calls, and then fits its page with its header and
\* the page ids of its children, whatever c is.
THEOREM NodeAtRestFits ==
  ASSUME NEW types \in Seq(Type), types # << >>, CellSize(types) < U16,
         NEW cells \in Nat, cells <= 2 * calculateDegree(types) - 2,
         NEW leaf \in BOOLEAN
  PROVE  NodeBytes(Len(types), CellSize(types), cells, leaf) <= PG_SZ
<1> DEFINE n == Len(types)
           c == CellSize(types)
           t == Degree(c)
<1>1. c \in Nat /\ n \in Nat /\ n < c
  BY CellSizeBound
<1>2. calculateDegree(types) = t
  BY <1>1 DEF calculateDegree, U16
<1>3. t \in Nat /\ 2 * (t * (c + 4)) <= PG_SZ - metadataBuffer + c
  BY <1>1, DegreeBound
<1> HIDE DEF n, c, t
<1>4. cells * (c + 4) <= 2 * (t * (c + 4)) - 2 * (c + 4)
  <2>1. \A x, y, d \in Nat : x <= 2 * y - 2 => x * d <= 2 * (y * d) - 2 * d
    OBVIOUS
  <2> QED
    BY <1>1, <1>2, <1>3, <2>1
<1>5. cells * (c + 4) = cells * c + 4 * cells /\ cells * c \in Nat
  BY <1>1
<1>6. NodeBytes(n, c, cells, leaf) <= PG_SZ
  BY <1>1, <1>3, <1>4, <1>5, SizesAssumption DEF NodeBytes
<1> QED
  BY <1>6 DEF n, c

\* A full node, on its way to its split, has one cell more.  It fits for any cells, as
\* long as the types of its columns have room in what the header leaves of the
\* metadataBuffer: 85 columns in the code.
THEOREM FullNodeFits ==
  ASSUME NEW types \in Seq(Type), types # << >>, CellSize(types) < U16,
         Len(types) <= metadataBuffer - 15,
         NEW cells \in Nat, cells <= 2 * calculateDegree(types) - 1,
         NEW leaf \in BOOLEAN
  PROVE  NodeBytes(Len(types), CellSize(types), cells, leaf) <= PG_SZ
<1> DEFINE n == Len(types)
           c == CellSize(types)
           t == Degree(c)
<1>1. c \in Nat /\ n \in Nat /\ n < c /\ n <= metadataBuffer - 15
  BY CellSizeBound
<1>2. calculateDegree(types) = t
  BY <1>1 DEF calculateDegree, U16
<1>3. t \in Nat /\ 2 * (t * (c + 4)) <= PG_SZ - metadataBuffer + c
  BY <1>1, DegreeBound
<1> HIDE DEF n, c, t
<1>4. cells * (c + 4) <= 2 * (t * (c + 4)) - (c + 4)
  <2>1. \A x, y, d \in Nat : x <= 2 * y - 1 => x * d <= 2 * (y * d) - d
    OBVIOUS
  <2> QED
    BY <1>1, <1>2, <1>3, <2>1
<1>5. cells * (c + 4) = cells * c + 4 * cells /\ cells * c \in Nat
  BY <1>1
<1>6. NodeBytes(n, c, cells, leaf) <= PG_SZ
  BY <1>1, <1>3, <1>4, <1>5, SizesAssumption DEF NodeBytes
<1> QED
  BY <1>6 DEF n, c
=============================================================================
