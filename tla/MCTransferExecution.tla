-------------------------- MODULE MCTransferExecution --------------------------
(* TransferExecution for TLC: what the upload uploads. *)
EXTENDS TransferExecution, TLC

CONSTANTS u1, p1, d1

OneUploadPath == u1 :> p1
OneUploadSha == u1 :> d1
=============================================================================
