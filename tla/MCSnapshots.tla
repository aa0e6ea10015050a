------------------------------ MODULE MCSnapshots ------------------------------
(* Snapshots for TLC: three snapshots of two notes, the first two older. *)
EXTENDS Snapshots, TLC

Times == 1 :> 1 @@ 2 :> 1 @@ 3 :> 4
Notes == 1 :> "a" @@ 2 :> "a" @@ 3 :> "b"
Sizes == 1 :> 1 @@ 2 :> 1 @@ 3 :> 2
=============================================================================
