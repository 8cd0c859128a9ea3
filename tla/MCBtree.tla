------------------------------ MODULE MCBtree ------------------------------
(***************************************************************************)
(* Instances of Btree.  With degree 2 (a node is split at three cells)     *)
(* seven keys split leaves, the root as a leaf and the root as an inner    *)
(* node; eleven keys split an inner node below the root as well.  With     *)
(* degree 1, what calculateDegree gives a table of ten string columns, a   *)
(* node is split at its first cell.                                        *)
(***************************************************************************)
EXTENDS Btree
=============================================================================
