-------------------------- MODULE MCRequestExecution ---------------------------
(***************************************************************************)
(* TLC instances of RequestExecution.                                      *)
(***************************************************************************)
EXTENDS RequestExecution, TLC

(* Processes are interchangeable.                                          *)
ProcSymmetry == Permutations(Proc)
===============================================================================
