------------------------------ MODULE SlotPool ------------------------------
(***************************************************************************)
(* What the transfer pool promises its callers, with nothing of how: at    *)
(* most Limit tasks at a time have a connection, made or in the making;    *)
(* nobody gets one from a closed pool; and whoever asks is served or       *)
(* refused in the end.                                                     *)
(***************************************************************************)
EXTENDS Naturals, FiniteSets

CONSTANTS Users, Limit

VARIABLES
    stage,      \* "idle", "asked", "using" or "done" for each user
    open        \* whether the session is open

svars == <<stage, open>>

Using == {u \in Users : stage[u] = "using"}

Init == stage = [u \in Users |-> "idle"] /\ open = TRUE

Become(u, s) == stage' = [stage EXCEPT ![u] = s] /\ UNCHANGED open

Ask(u) == stage[u] = "idle" /\ Become(u, "asked")

\* A connection is granted, to a user who asks now or asked before.
Grant(u) ==
    /\ open
    /\ stage[u] \in {"idle", "asked"}
    /\ Cardinality(Using) < Limit
    /\ Become(u, "using")

\* Refused: the pool is closed, or the user's request was cancelled.
Refuse(u) == stage[u] \in {"idle", "asked"} /\ Become(u, "done")

\* The connection is given back, or could not be made.
Finish(u) == stage[u] = "using" /\ Become(u, "done")

Shut == open' = FALSE /\ UNCHANGED stage

Next == Shut \/ \E u \in Users : Ask(u) \/ Grant(u) \/ Refuse(u) \/ Finish(u)

Spec == Init /\ [][Next]_svars

Answer(u) == stage[u] = "asked" /\ (Grant(u) \/ Refuse(u))

FairSpec == Spec /\ \A u \in Users : WF_svars(Answer(u)) /\ WF_svars(Finish(u))
=============================================================================
