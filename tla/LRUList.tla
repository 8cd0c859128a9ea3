------------------------------- MODULE LRUList -------------------------------
(***************************************************************************)
(* The list of PageCache (src/src/backend): ids of pages, the one that was *)
(* used last in front.  PageCache has the pages themselves beside it, and  *)
(* PageRefs the references that its callers hold.                          *)
(***************************************************************************)
EXTENDS Integers, Sequences

\* Mutant: updateLRU does not erase the old place of the page.
ToFrontTwice(s, p) == <<p>> \o s

\* Mutant: a page that is used again keeps its place in the list.
InPlace(s, p) == IF \E i \in 1 .. Len(s) : s[i] = p THEN s ELSE <<p>> \o s

\* The list after p was erased from it, if it was there, and put in front.
ToFront(s, p) ==
  LET present == \E i \in 1 .. Len(s) : s[i] = p
      pos == IF present THEN CHOOSE i \in 1 .. Len(s) : s[i] = p ELSE Len(s) + 1
  IN  [i \in 1 .. (IF present THEN Len(s) ELSE Len(s) + 1) |->
         IF i = 1 THEN p ELSE IF i <= pos THEN s[i - 1] ELSE s[i]]
=============================================================================
