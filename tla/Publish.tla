------------------------------- MODULE Publish -------------------------------
(***************************************************************************)
(* What a transfer promises about the file it is for, with nothing of how: *)
(* the target is always a whole file or absent, a transfer's own file      *)
(* appears there in one step, at most once, and takes the place of another *)
(* only where the user has agreed to that.                                 *)
(***************************************************************************)
CONSTANTS Transfers

VARIABLES
    strategy,   \* whether the user agreed that a file be replaced
    place,      \* whose file is at the target
    fate        \* "open", "published" or "given up" for each transfer

pvars == <<strategy, place, fate>>

Strategies == {"Reject", "Overwrite"}

\* Files of nobody here are all alike.
Outsiders == {"nobody", "other"}

Init ==
    /\ strategy \in [Transfers -> Strategies]
    /\ place \in Outsiders
    /\ fate = [t \in Transfers |-> "open"]

Put(t) ==
    /\ fate[t] = "open"
    /\ place = "nobody" \/ strategy[t] = "Overwrite"
    /\ place' = t
    /\ fate' = [fate EXCEPT ![t] = "published"]
    /\ UNCHANGED strategy

GiveUp(t) ==
    /\ fate[t] = "open"
    /\ fate' = [fate EXCEPT ![t] = "given up"]
    /\ UNCHANGED <<strategy, place>>

\* A power failure ends all that have not published.
AllGiveUp ==
    /\ fate' = [t \in Transfers |-> IF fate[t] = "open" THEN "given up" ELSE fate[t]]
    /\ UNCHANGED <<strategy, place>>

\* Other programs write and delete the target.
Outside ==
    /\ place' \in Outsiders
    /\ UNCHANGED <<strategy, fate>>

Next ==
    \/ \E t \in Transfers : Put(t) \/ GiveUp(t)
    \/ AllGiveUp
    \/ Outside

Spec == Init /\ [][Next]_pvars
=============================================================================
