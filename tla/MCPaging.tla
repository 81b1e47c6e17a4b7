------------------------------- MODULE MCPaging ------------------------------
(***************************************************************************)
(* Small instances of Paging.                                              *)
(***************************************************************************)
EXTENDS Paging, TLC

Alike == Permutations(User)

==============================================================================
