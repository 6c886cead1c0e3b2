---------------------------- MODULE MCAsyncQueue -----------------------------
(***************************************************************************)
(* AsyncQueue for TLC.                                                     *)
(***************************************************************************)
EXTENDS AsyncQueue, TLC

Symmetry == Permutations(Units) \cup Permutations(Threads)
=============================================================================
