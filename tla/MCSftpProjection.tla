--------------------------- MODULE MCSftpProjection ---------------------------
(* An upload into the directory shown first, and a download.                 *)
EXTENDS SftpProjection

CONSTANTS up, down

MCTargetOf == [t \in {up} |-> Root]
===============================================================================
