--------------------------- MODULE MCCoschedQueue ---------------------------
(***************************************************************************)
(* CoschedQueue for TLC: the units are interchangeable where all of them   *)
(* may be cancelled, or none.                                              *)
(***************************************************************************)
EXTENDS CoschedQueue, TLC

Symmetry == Permutations(Units)
=============================================================================
