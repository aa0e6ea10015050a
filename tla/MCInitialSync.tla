---------------------------- MODULE MCInitialSync ----------------------------
(* InitialSync for TLC. *)
EXTENDS InitialSync, TLC
=============================================================================
