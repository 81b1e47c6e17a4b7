------------------------------- MODULE MCPhase2 ------------------------------
(***************************************************************************)
(* Small instances of Phase2.                                              *)
(***************************************************************************)
EXTENDS Phase2, TLC

Alike == Permutations(User)

==============================================================================
