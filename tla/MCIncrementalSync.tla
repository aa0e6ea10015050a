-------------------------- MODULE MCIncrementalSync --------------------------
(* IncrementalSync for TLC. *)
EXTENDS IncrementalSync, TLC

Symmetry == Permutations(Folders) \cup Permutations(Files)
=============================================================================
