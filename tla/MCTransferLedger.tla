--------------------------- MODULE MCTransferLedger ---------------------------
(* TransferLedger for TLC: an upload and a download. *)
EXTENDS TransferLedger, TLC
=============================================================================
