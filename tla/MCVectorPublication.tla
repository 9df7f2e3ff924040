------------------------- MODULE MCVectorPublication ---------------------------
(***************************************************************************)
(* TLC instances of VectorPublication.                                     *)
(***************************************************************************)
EXTENDS VectorPublication, TLC

(* Builders are interchangeable.                                           *)
BuilderSymmetry == Permutations(Builder)
===============================================================================
