----------------------------- MODULE Dictionary -----------------------------
(***************************************************************************)
(* What Btree promises (Btree.hpp): a map of unique keys; inserting a key  *)
(* that is there and updating one that is not fail and change nothing.     *)
(* Nothing is promised any more once a call was refused a page.            *)
(***************************************************************************)
CONSTANTS Key, Value

VARIABLES dict,   \* key -> value, for the keys that were inserted
          result, \* what the last call returned
          failed  \* a call has ended with "DB has reached maximum size limit"

vars == <<dict, result, failed>>

Init ==
  /\ dict = [k \in {} |-> {}]
  /\ result = "true"
  /\ failed = FALSE

Reply(r) == result' = r /\ failed' = failed

Insert(k, v) ==
  \/ /\ k \notin DOMAIN dict
     /\ dict' = [x \in DOMAIN dict \cup {k} |-> IF x = k THEN v ELSE dict[x]]
     /\ Reply("true")
  \/ /\ k \in DOMAIN dict
     /\ UNCHANGED dict
     /\ Reply("false")

Update(k, v) ==
  \/ /\ k \in DOMAIN dict
     /\ dict' = [dict EXCEPT ![k] = v]
     /\ Reply("true")
  \/ /\ k \notin DOMAIN dict
     /\ UNCHANGED dict
     /\ Reply("false")

Fail == failed' = TRUE

Next ==
  \/ ~failed /\ \E k \in Key, v \in Value : Insert(k, v) \/ Update(k, v)
  \/ Fail

Spec == Init /\ [][Next]_vars
=============================================================================
