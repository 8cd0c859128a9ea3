------------------------------ MODULE MCPager ------------------------------
(***************************************************************************)
(* Three groups of two usable blocks: a list of two FSM pages can be built *)
(* in both orders, emptied and refilled, and the database can be full.     *)
(***************************************************************************)
EXTENDS Pager
=============================================================================
