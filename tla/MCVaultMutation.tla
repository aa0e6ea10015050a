---------------------------- MODULE MCVaultMutation ----------------------------
(* VaultMutation for TLC: two spellings of one name, and another name. *)
EXTENDS VaultMutation, TLC

CONSTANTS a, A, b, r1

TwoKeys == a :> "a" @@ A :> "a" @@ b :> "b"
OneNote == a :> r1 @@ A :> None @@ b :> None
Symmetry == Permutations(Threads) \cup Permutations(Ops)
=============================================================================
