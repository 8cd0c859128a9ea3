--------------------------- MODULE MCStorageEngine ---------------------------
(***************************************************************************)
(* Instances of StorageEngine.  With degree 2 the third key splits the     *)
(* root, and the fourth may split a leaf below it.  A list of two columns  *)
(* is more than a TablePage takes.                                         *)
(***************************************************************************)
EXTENDS StorageEngine, TLC

ColumnTypes == {<< >>, <<"int">>, <<"string", "int">>}

Symmetric == Permutations(Key) \cup Permutations(Name)

\* All that a next step depends on: of the last call, only whether it was survived.
Core == <<m_tables, schema, tablePages, trees, allocated, Running>>
=============================================================================
