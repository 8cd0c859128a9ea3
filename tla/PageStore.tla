------------------------------ MODULE PageStore ------------------------------
(***************************************************************************)
(* What the page cache and the file together promise to the rest of the    *)
(* database: a store of pages that behaves as if there were no cache.      *)
(* store[p] is what a reader of page p sees, durable[p] is what a restart  *)
(* would find.  Any page may become durable at any moment, a clean         *)
(* shutdown happens only when everything is durable, and a crash throws    *)
(* back every page to its durable content.                                 *)
(***************************************************************************)
EXTENDS Integers

CONSTANTS Page,    \* the contents a page can have
          Blank,   \* a block of the file nobody has written yet
          MaxBlocks \* how many blocks there can be

VARIABLES store,   \* block number -> content as the callers see it
          durable, \* block number -> content in the file
          mode     \* "up", "clean" (shut down) or "crashed"

vars == <<store, durable, mode>>

Init ==
  /\ store = [p \in {} |-> Blank]
  /\ durable = store
  /\ mode = "up"

\* At most one page becomes durable, with the content it has after the step.
WriteBack ==
  \/ durable' = durable
  \/ \E q \in DOMAIN durable : durable' = [durable EXCEPT ![q] = store'[q]]

Grow(n) ==
  /\ mode = "up"
  /\ store' = [p \in 0 .. n - 1 |-> IF p \in DOMAIN store THEN store[p] ELSE Blank]
  /\ durable' = [p \in 0 .. n - 1 |-> IF p \in DOMAIN durable THEN durable[p] ELSE Blank]
  /\ UNCHANGED mode

Put(p, c) ==
  /\ mode = "up"
  /\ store' = [store EXCEPT ![p] = c]
  /\ WriteBack
  /\ UNCHANGED mode

Read ==
  /\ mode = "up"
  /\ UNCHANGED <<store, mode>>
  /\ WriteBack

Shutdown ==
  /\ mode = "up"
  /\ durable = store
  /\ mode' = "clean"
  /\ UNCHANGED <<store, durable>>

Crash ==
  /\ mode = "up"
  /\ store' = durable
  /\ mode' = "crashed"
  /\ UNCHANGED durable

Restart ==
  /\ mode # "up"
  /\ mode' = "up"
  /\ UNCHANGED <<store, durable>>

Next ==
  \/ \E n \in 0 .. MaxBlocks : Grow(n)
  \/ \E p \in DOMAIN store, c \in Page : Put(p, c)
  \/ Read
  \/ Shutdown
  \/ Crash
  \/ Restart

Spec == Init /\ [][Next]_vars
=============================================================================
