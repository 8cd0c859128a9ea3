------------------------------- MODULE Layout -------------------------------
(***************************************************************************)
(* The sizes of the pages and the degree that is derived from them         *)
(* (utility.hpp, constants.hpp and the toBytes functions in                *)
(* src/src/backend): how many bytes a value, a row and a page take, and    *)
(* how many cells calculateDegree allows a node of a table.                *)
(***************************************************************************)
EXTENDS Integers, Sequences, FiniteSets

CONSTANTS PG_SZ,          \* cts::PG_SZ, 4096 in the code
          MAX_STR_SZ,     \* cts::MAX_STR_SZ, 128 in the code
          metadataBuffer  \* what calculateDegree keeps free for the header, 100

ASSUME SizesAssumption ==
  /\ PG_SZ \in Nat /\ MAX_STR_SZ \in Nat \ {0} /\ metadataBuffer \in 10 .. PG_SZ

U8 == 256
U16 == 65536

\* The alternatives of Vari.
Type == {"int", "char", "bool", "float", "double", "string"}

db_sizeof == [int |-> 4, char |-> 1, bool |-> 1, float |-> 4, double |-> 8,
              string |-> MAX_STR_SZ]

Count(types, t) == Cardinality({j \in 1 .. Len(types) : types[j] = t})

\* The values of a row, one after the other.
RowSize(types) ==
  4 * Count(types, "int") + Count(types, "char") + Count(types, "bool")
    + 4 * Count(types, "float") + 8 * Count(types, "double")
    + MAX_STR_SZ * Count(types, "string")

\* Mutant: the key of a cell is not counted.
CellSizeOnce(types) == RowSize(types)

\* A cell: the first column is its key, and stands in its row once more.
CellSize(types) == db_sizeof[types[1]] + RowSize(types)

\* calculateDegree of a table whose cells take c bytes
Degree(c) == (PG_SZ - metadataBuffer + c) \div (2 * (c + 4))
calculateDegree(types) == Degree(CellSize(types) % U16)

maxKeys(degree) == (2 * degree - 1) % U16

\* The bytes of a node of so many cells, each of c bytes, in n columns.
NodeBytes(n, c, cells, leaf) ==
  IF cells = 0 THEN 13
  ELSE 15 + n + cells * c + IF leaf THEN 0 ELSE 4 * (cells + 1)

TableBytes(n) == 15 + n

\* An entry of the SchemaPage: a name and a page id.
EntrySize == MAX_STR_SZ + 4
SchemaBytes(entries) == 2 + entries * EntrySize

FSMBytes(bits) == 9 + bits \div 8

\* FSMPage::getBlocksInPage()
BlocksInPage == (PG_SZ - 12) * 8
=============================================================================
