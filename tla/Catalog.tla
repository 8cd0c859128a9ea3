------------------------------ MODULE Catalog ------------------------------
(***************************************************************************)
(* What StorageEngine promises (StorageEngine.hpp, Table.hpp): named       *)
(* tables of rows with unique keys, and for each call the answers that are *)
(* documented, each under its own condition.  A table is what the calls    *)
(* made of it, and it is the same after the database was closed and opened *)
(* again.  A call that ends with an error changes nothing, or has its      *)
(* effect on the table it names and breaks it.  A broken table still       *)
(* answers for the rows it has, but a restart may make anything of it.     *)
(***************************************************************************)
EXTENDS Naturals, Sequences, FiniteSets

CONSTANTS Name, BadName, Types, Key, Value,
          MaxTables, MaxTypes

VARIABLES tables,  \* name -> column types and rows
          broken,  \* the tables that a call has failed on
          damage,  \* whether an insertion has failed so that the process may end later
          call,    \* the last call, with its arguments
          result   \* how it ended

vars == <<tables, broken, damage, call, result>>

Init ==
  /\ tables = [n \in {} |-> {}]
  /\ broken = {}
  /\ damage = FALSE
  /\ call = <<"open">>
  /\ result = "ok"

\* f with x bound to y, and without x.
Bind(f, x, y) == [z \in DOMAIN f \cup {x} |-> IF z = x THEN y ELSE f[z]]
Without(f, x) == [z \in DOMAIN f \ {x} |-> f[z]]

Storable(types) == types # << >> /\ Len(types) <= MaxTypes
KeyTypes == {types[1] : types \in Types \ {<< >>}}

Keys(n) == DOMAIN tables[n].rows

\* A call that changes nothing.
Answer(r) == result' = r /\ UNCHANGED <<tables, broken, damage>>

-----------------------------------------------------------------------------
(* Tables *)

AddTable(n, types) ==
  /\ n \notin DOMAIN tables
  /\ n # BadName
  /\ Storable(types)
  /\ tables' = Bind(tables, n, [types |-> types, rows |-> [k \in {} |-> {}]])
  /\ \/ result' = "ok" /\ UNCHANGED broken
     \/ result' = "error" /\ broken' = broken \cup {n}
  /\ UNCHANGED damage

\* The process ends when a table has no columns or too many, or when it is one too many.
CreateTable(n, types) ==
  /\ call' = <<"create", n, types>>
  /\ \/ n \in DOMAIN tables \cup {BadName} /\ Answer("invalid")
     \/ AddTable(n, types)
     \/ /\ n \notin DOMAIN tables \cup {BadName}
        /\ \/ Answer("error")
           \/ ~Storable(types) /\ Answer("dead")
           \/ Cardinality(DOMAIN tables) >= MaxTables /\ Answer("dead")

DropTable(n) ==
  /\ call' = <<"drop", n>>
  /\ \/ n \notin DOMAIN tables /\ Answer("invalid")
     \/ n \in DOMAIN tables /\ Answer("error")
     \/ n \in broken /\ Answer("dead")
     \/ /\ n \in DOMAIN tables
        /\ tables' = Without(tables, n)
        /\ broken' = broken \ {n}
        /\ result' = "ok"
        /\ UNCHANGED damage

-----------------------------------------------------------------------------
(* Rows *)

NoSuchTable(n) == n \notin DOMAIN tables /\ Answer("false")
WrongTypes(n, types) == n \in DOMAIN tables /\ types # tables[n].types /\ Answer("invalid")
FailUnchanged(n) == n \in DOMAIN tables /\ Answer("error")

InsertRow(n, k, v) ==
  /\ k \notin Keys(n)
  /\ tables' = [tables EXCEPT ![n].rows = Bind(@, k, v)]
  /\ \/ result' = "true" /\ UNCHANGED <<broken, damage>>
     \/ result' = "error" /\ broken' = broken \cup {n} /\ damage' \in {damage, TRUE}

InsertTuple(n, types, k, v) ==
  /\ call' = <<"insert", n, types, k, v>>
  /\ \/ NoSuchTable(n)
     \/ WrongTypes(n, types)
     \/ FailUnchanged(n)
     \/ /\ n \in DOMAIN tables /\ types = tables[n].types
        /\ (k \in Keys(n) /\ Answer("false")) \/ InsertRow(n, k, v)

UpdateRow(n, k, v) ==
  /\ k \in Keys(n)
  /\ tables' = [tables EXCEPT ![n].rows[k] = v]
  /\ result' = "true"
  /\ UNCHANGED <<broken, damage>>

UpdateTuple(n, types, k, v) ==
  /\ call' = <<"update", n, types, k, v>>
  /\ \/ NoSuchTable(n)
     \/ WrongTypes(n, types)
     \/ FailUnchanged(n)
     \/ /\ n \in DOMAIN tables /\ types = tables[n].types
        /\ (k \notin Keys(n) /\ Answer("false")) \/ UpdateRow(n, k, v)

RemoveRow(n, k) ==
  /\ k \in Keys(n)
  /\ tables' = [tables EXCEPT ![n].rows = Without(@, k)]
  /\ result' = "true"
  /\ UNCHANGED <<broken, damage>>

WrongKeyType(n, type) == n \in DOMAIN tables /\ type # tables[n].types[1] /\ Answer("invalid")

RemoveTuple(n, type, k) ==
  /\ call' = <<"remove", n, type, k>>
  /\ \/ NoSuchTable(n)
     \/ WrongKeyType(n, type)
     \/ FailUnchanged(n)
     \/ /\ n \in DOMAIN tables /\ type = tables[n].types[1]
        /\ (k \notin Keys(n) /\ Answer("false")) \/ RemoveRow(n, k)

\* Not the promise, but what is there so far (Btree.tpp:211-215): no row is found.
RemoveNothing(n, type, k) ==
  /\ call' = <<"remove", n, type, k>>
  /\ \/ NoSuchTable(n)
     \/ WrongKeyType(n, type)
     \/ FailUnchanged(n)
     \/ n \in DOMAIN tables /\ type = tables[n].types[1] /\ Answer("false")

-----------------------------------------------------------------------------
(* The database *)

\* A restart keeps every table that no call has failed on.
Open ==
  /\ call' = <<"open">>
  /\ result' = "ok"
  /\ broken' \subseteq broken
  /\ DOMAIN tables' \ broken = DOMAIN tables \ broken
  /\ \A n \in DOMAIN tables \ broken : tables'[n] = tables[n]
  /\ UNCHANGED damage

\* Which call finds the damage is left open.
Die == damage /\ call' = <<"any">> /\ Answer("dead")

NextButRemove ==
  \/ \E n \in Name \cup {BadName} :
       DropTable(n) \/ \E types \in Types : CreateTable(n, types)
  \/ \E n \in Name, types \in Types, k \in Key, v \in Value :
       InsertTuple(n, types, k, v) \/ UpdateTuple(n, types, k, v)
  \/ Open
  \/ Die

Next ==
  \/ NextButRemove
  \/ \E n \in Name, type \in KeyTypes, k \in Key : RemoveTuple(n, type, k)

NextSoFar ==
  \/ NextButRemove
  \/ \E n \in Name, type \in KeyTypes, k \in Key : RemoveNothing(n, type, k)

Spec == Init /\ [][Next]_vars
SpecSoFar == Init /\ [][NextSoFar]_vars
=============================================================================
