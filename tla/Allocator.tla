------------------------------ MODULE Allocator ------------------------------
(***************************************************************************)
(* What Pager's createNewPage and freePage promise to their callers: a     *)
(* page that is handed out belongs to nobody else until it is freed, and a *)
(* request is refused as "full" only when every page there can be is       *)
(* handed out.  A call that fails in the file may cost pages: they belong  *)
(* to nobody any more.                                                     *)
(***************************************************************************)
CONSTANT Usable   \* the pages that can be handed out

VARIABLES live,   \* pages handed out and not freed
          lost,   \* pages that failed calls have cost
          result  \* how the last call ended: "ok", "full" or "error"

vars == <<live, lost, result>>

Init ==
  /\ live = {}
  /\ lost = {}
  /\ result = "ok"

Alloc(p) ==
  /\ p \notin live \cup lost
  /\ live' = live \cup {p}
  /\ result' = "ok"
  /\ UNCHANGED lost

Refuse ==
  /\ Usable = live \cup lost
  /\ result' = "full"
  /\ UNCHANGED <<live, lost>>

Free(p) ==
  /\ live' = live \ {p}
  /\ result' = "ok"
  /\ UNCHANGED lost

Fail(L) ==
  /\ lost' = lost \cup L
  /\ result' = "error"
  /\ UNCHANGED live

Next ==
  \/ \E p \in Usable : Alloc(p)
  \/ Refuse
  \/ \E p \in live : Free(p)
  \/ \E L \in SUBSET (Usable \ (live \cup lost)) : Fail(L)

Spec == Init /\ [][Next]_vars
=============================================================================
