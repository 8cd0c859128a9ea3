---------------------------- MODULE MCPageCache ----------------------------
(***************************************************************************)
(* A cache of two pages over a file of up to three blocks: small, but a    *)
(* block more than the cache holds, so that every page can be evicted,     *)
(* read back and overtaken by others, and a failed write can leave the     *)
(* cache above its capacity.                                               *)
(***************************************************************************)
EXTENDS PageCache, TLC

\* No definition tells two contents or two classes apart.
Symmetry == Permutations(Data) \cup Permutations(Class)
=============================================================================
