------------------------------ MODULE MCContexts ------------------------------
(***************************************************************************)
(* Small instances of Contexts.  Memory blocks are interchangeable.        *)
(***************************************************************************)
EXTENDS Contexts, TLC

BlockSymmetry == Permutations(Block)

===============================================================================
