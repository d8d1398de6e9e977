----------------------------- MODULE MCTrustStore -----------------------------
(* TrustStore on two endpoints, one of them an IPv6 address as it is written *)
(* in front of a port: connecting accepts it, see resolve_socket_addrs.      *)
EXTENDS TrustStore

MCEndpoints == {[host |-> <<"h">>, port |-> "22"], [host |-> <<"[", ":", "]">>, port |-> "22"]}
=============================================================================
