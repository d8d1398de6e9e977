------------------------------ MODULE MCMonitoring ------------------------------
(* Monitoring on a small instance: tasks of one session.  Sessions share   *)
(* nothing that a task of another could disturb.                           *)
EXTENDS Monitoring, TLC

CONSTANT s1

MCSessionOf == [t \in Tasks |-> s1]
=============================================================================
