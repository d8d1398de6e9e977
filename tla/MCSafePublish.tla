---------------------------- MODULE MCSafePublish ----------------------------
(* SafePublish on small instances: two transfers, of either kind and with  *)
(* either strategy.                                                        *)
EXTENDS SafePublish, TLC

CONSTANTS t1, t2

MCSymmetry == Permutations({t1, t2})
=============================================================================
