---------------------------- MODULE MCEventQueue ----------------------------
(***************************************************************************)
(* EventQueue for TLC.                                                     *)
(***************************************************************************)
EXTENDS EventQueue
=============================================================================
