---------------------------- MODULE MCHostIdentity ----------------------------
(* HostIdentity on a small instance: two attempts of one session.           *)
EXTENDS HostIdentity, TLC

CONSTANTS s1, e1, a1, a2, k1, k2

MCEndpointOf == [s \in Sessions |-> e1]
MCSessionOf == [a \in Attempts |-> s1]
=============================================================================
