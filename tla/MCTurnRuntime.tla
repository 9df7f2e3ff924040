---------------------------- MODULE MCTurnRuntime -----------------------------
(***************************************************************************)
(* TLC instances of TurnRuntime.                                           *)
(***************************************************************************)
EXTENDS TurnRuntime, TLC

(* Every build has a catalog of its own, and one catalog describes them    *)
(* all: a rebuild that changed no fact.                                    *)
MCDescribes ==
  LET shared == CHOOSE v \in Version : TRUE
  IN  {<<c, b>> \in Version \X Version : c \in {shared, b}}

(* Processes are interchangeable in every safety run.                      *)
ProcSymmetry == Permutations(Proc)
===============================================================================
