----------------------------- MODULE MCProcesses ------------------------------
(***************************************************************************)
(* Small instances of Processes.  No property is about which block of      *)
(* memory a context got, so states that differ in it alone are one.        *)
(***************************************************************************)
EXTENDS Processes

WithoutBlocks ==
  <<[c \in Cid |-> contexts[c].active], cpuVars, psr, vmInitCalled, pcbVars>>

===============================================================================
