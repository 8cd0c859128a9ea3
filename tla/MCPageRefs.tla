----------------------------- MODULE MCPageRefs -----------------------------
(***************************************************************************)
(* PageRefs with trees of degree 3 in two groups of 20 blocks and with the *)
(* smallest capacity that CapacityAssumption allows.                       *)
(***************************************************************************)
EXTENDS PageRefs

Databases == {<<2, 22, 3, 23, 4>>}
TablePages == {22}

\* A leaf that is the root, and a tree of three levels.
Paths == {<<5>>, <<25, 6, 26>>}

\* Children in both groups and children in one.
RightHalves == {<<7, 27, 8>>, <<28, 29, 30>>}

\* Blocks of the first group, the first of a new group, and blocks of both.
FreshBlocks == {<<9, 10, 11, 12>>, <<21, 31, 32, 33>>, <<13, 34, 35, 36>>}
=============================================================================
