------------------------------- MODULE MCConds -------------------------------
(***************************************************************************)
(* Small instances of Conds.                                               *)
(***************************************************************************)
EXTENDS Conds

==============================================================================
