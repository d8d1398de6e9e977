--------------------------- MODULE MCTransferPool ---------------------------
(* TransferPool on a small instance.                                       *)
EXTENDS TransferPool

MCTasks == 1 .. 4
=============================================================================
