------------------------------ MODULE MCUserSync ------------------------------
(***************************************************************************)
(* Small instances of UserSync.                                            *)
(***************************************************************************)
EXTENDS UserSync

===============================================================================
