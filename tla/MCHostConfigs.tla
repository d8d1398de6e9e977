----------------------------- MODULE MCHostConfigs -----------------------------
(* HostConfigs on a small instance.                                        *)
EXTENDS HostConfigs, TLC

MCSymmetry == Permutations(Hosts) \cup Permutations(Endpoints)
=============================================================================
