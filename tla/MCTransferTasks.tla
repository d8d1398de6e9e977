--------------------------- MODULE MCTransferTasks ---------------------------
(* TransferTasks on two tasks: an upload and a download, or two uploads.    *)
EXTENDS TransferTasks

CONSTANTS t1, t2
=============================================================================
