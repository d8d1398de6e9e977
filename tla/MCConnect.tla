------------------------------ MODULE MCConnect ------------------------------
(* Connect on an endpoint at the standard port and one at another port, with *)
(* a password and with a key that has no passphrase.                         *)
EXTENDS Connect, TLC

CONSTANTS a1, a2, pw

Plain == [host |-> <<"h">>, port |-> "22"]
OtherPort == [host |-> <<"h">>, port |-> "2222"]

MCEndpoints == {Plain, OtherPort}
MCEndpointOf == a1 :> Plain @@ a2 :> OtherPort
MCCredentialOf == a1 :> pw @@ a2 :> NoCredential
=============================================================================
