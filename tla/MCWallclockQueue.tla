-------------------------- MODULE MCWallclockQueue ---------------------------
(***************************************************************************)
(* WallclockQueue for TLC.                                                 *)
(***************************************************************************)
EXTENDS WallclockQueue
=============================================================================
