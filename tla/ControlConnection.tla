-------------------------- MODULE ControlConnection --------------------------
(***************************************************************************)
(* The control connection of a session: SftpConnection of                  *)
(* src-tauri/src/core/sftp_service.rs, and run_control_op, which lists     *)
(* directories and asks for sizes on it.                                   *)
(*                                                                         *)
(* Threads.  The eager connect runs on a thread of its own; each operation *)
(* runs on a thread of the blocking pool; the session is closed by the     *)
(* main thread.  The slot's lock is held for one step, and released while  *)
(* a connect is under way.  Transports are numbered in the order they come *)
(* up.  That ssh2 loses a connection, and that an operation panics with    *)
(* the transport's lock held, may happen at any time.                      *)
(***************************************************************************)
EXTENDS Naturals

CONSTANT Callers    \* the calls of run_control_op

VARIABLES
    slot,       \* ConnectionState, without what it carries
    transport,  \* the transport a Ready slot carries, 0 otherwise
    issued,     \* how many transports have come up
    dead,       \* those whose connection is lost
    poisoned,   \* those whose lock is poisoned
    eager,      \* where connect_eager is
    asleep,     \* the callers waiting for `ready`
    opAt,       \* where each call is in run_control_op
    using,      \* the transport it has got
    retried,    \* the calls that are at their second go
    registered  \* the session is in SftpService.handles

carried == <<slot, transport, issued>>
call == <<opAt, using, retried>>
controlVars == <<carried, dead, poisoned, eager, asleep, call, registered>>

Ended == {"done", "error"}

ControlTypeOK ==
    /\ slot \in {"Idle", "Connecting", "Ready", "Failed", "Closed"}
    /\ issued \in Nat
    /\ transport \in 0 .. issued
    /\ slot = "Ready" <=> transport # 0
    /\ dead \subseteq 1 .. issued /\ poisoned \subseteq 1 .. issued
    /\ eager \in {"new", "connecting", "over"}
    /\ asleep \subseteq Callers /\ retried \subseteq Callers
    /\ opAt \in [Callers -> {"start", "get", "connect", "op", "lost"} \cup Ended]
    /\ using \in [Callers -> 0 .. issued]
    /\ registered \in BOOLEAN

ControlInit ==
    /\ slot = "Idle" /\ transport = 0 /\ issued = 0
    /\ dead = {} /\ poisoned = {}
    /\ eager = "new"
    /\ asleep = {} /\ retried = {}
    /\ opAt = [p \in Callers |-> "start"]
    /\ using = [p \in Callers |-> 0]
    /\ registered = TRUE

Reach(p, stage) == opAt' = [opAt EXCEPT ![p] = stage]

\* The slot moves to s, and carries nothing.
Become(s) == slot' = s /\ transport' = 0 /\ UNCHANGED issued

\* A new transport is put into the slot.
Publish ==
    /\ issued' = issued + 1
    /\ slot' = "Ready" /\ transport' = issued + 1

\* ready.notify_all.
NotifyAll == asleep' = {}

-----------------------------------------------------------------------------
(* The eager connect.                                                      *)

\* A request may have been faster.
EagerBegin ==
    /\ eager = "new"
    /\ IF slot = "Idle" THEN Become("Connecting") /\ eager' = "connecting"
                        ELSE eager' = "over" /\ UNCHANGED carried
    /\ UNCHANGED <<dead, poisoned, asleep, call, registered>>

EagerEndLate ==                                                      \* variant
    /\ eager = "connecting"
    /\ Publish \/ Become("Failed")
    /\ eager' = "over"
    /\ NotifyAll
    /\ UNCHANGED <<dead, poisoned, call, registered>>

EagerEndQuietly ==                                                   \* variant
    /\ eager = "connecting"
    /\ IF slot = "Closed" THEN UNCHANGED carried
                          ELSE Publish \/ Become("Failed")
    /\ eager' = "over"
    /\ UNCHANGED <<dead, poisoned, asleep, call, registered>>

\* A result that comes after the close is discarded.
EagerEnd ==
    /\ eager = "connecting"
    /\ IF slot = "Closed" THEN UNCHANGED carried
                          ELSE Publish \/ Become("Failed")
    /\ eager' = "over"
    /\ NotifyAll
    /\ UNCHANGED <<dead, poisoned, call, registered>>

-----------------------------------------------------------------------------
(* A call of run_control_op.                                               *)

FindSession(p) ==
    /\ opAt[p] = "start"
    /\ Reach(p, IF registered THEN "get" ELSE "error")
    /\ UNCHANGED <<carried, dead, poisoned, eager, asleep, using, retried, registered>>

\* get, one look at the slot.
GetReady(p) ==
    /\ opAt[p] = "get" /\ p \notin asleep /\ slot = "Ready"
    /\ using' = [using EXCEPT ![p] = transport]
    /\ Reach(p, "op")
    /\ UNCHANGED <<carried, dead, poisoned, eager, asleep, retried, registered>>

GetSleep(p) ==
    /\ opAt[p] = "get" /\ p \notin asleep /\ slot = "Connecting"
    /\ asleep' = asleep \cup {p}
    /\ UNCHANGED <<carried, dead, poisoned, eager, call, registered>>

\* The failure of the eager connect is reported to one caller.
GetFailed(p) ==
    /\ opAt[p] = "get" /\ p \notin asleep /\ slot = "Failed"
    /\ Become("Idle")
    /\ Reach(p, "error")
    /\ UNCHANGED <<dead, poisoned, eager, asleep, using, retried, registered>>

GetClosed(p) ==
    /\ opAt[p] = "get" /\ p \notin asleep /\ slot = "Closed"
    /\ Reach(p, "error")
    /\ UNCHANGED <<carried, dead, poisoned, eager, asleep, using, retried, registered>>

GetIdleUnmarked(p) ==                                                \* variant
    /\ opAt[p] = "get" /\ p \notin asleep /\ slot = "Idle"
    /\ Reach(p, "connect")
    /\ UNCHANGED <<carried, dead, poisoned, eager, asleep, using, retried, registered>>

GetIdle(p) ==
    /\ opAt[p] = "get" /\ p \notin asleep /\ slot = "Idle"
    /\ Become("Connecting")
    /\ Reach(p, "connect")
    /\ UNCHANGED <<dead, poisoned, eager, asleep, using, retried, registered>>

\* The caller's own connect ends.
Connected(p) ==
    /\ opAt[p] = "connect"
    /\ \/ slot = "Closed" /\ Reach(p, "error") /\ UNCHANGED <<carried, using>>
       \/ slot # "Closed" /\ Publish /\ using' = [using EXCEPT ![p] = issued + 1] /\ Reach(p, "op")
       \/ slot # "Closed" /\ Become("Idle") /\ Reach(p, "error") /\ UNCHANGED using
    /\ NotifyAll
    /\ UNCHANGED <<dead, poisoned, eager, retried, registered>>

\* The operation works, fails for a reason of its own, or panics with the lock
\* held.
OpEnd(p) ==
    /\ opAt[p] = "op" /\ using[p] \notin dead \cup poisoned
    /\ \/ Reach(p, "done") /\ UNCHANGED poisoned
       \/ Reach(p, "error") /\ poisoned' = poisoned \cup {using[p]}
    /\ UNCHANGED <<carried, dead, eager, asleep, using, retried, registered>>

\* A channel error: of a lost connection, or of a poisoned lock.  The second
\* time it is returned.
OpLost(p) ==
    /\ opAt[p] = "op" /\ using[p] \in dead \cup poisoned
    /\ Reach(p, IF p \in retried THEN "error" ELSE "lost")
    /\ UNCHANGED <<carried, dead, poisoned, eager, asleep, using, retried, registered>>

InvalidateAny(p) ==                                                  \* variant
    /\ opAt[p] = "lost"
    /\ IF slot = "Ready" THEN Become("Idle") ELSE UNCHANGED carried
    /\ NotifyAll
    /\ Reach(p, "get")
    /\ retried' = retried \cup {p}
    /\ UNCHANGED <<dead, poisoned, eager, using, registered>>

\* invalidate_if_ready: only the transport that was used goes.
Invalidate(p) ==
    /\ opAt[p] = "lost"
    /\ IF slot = "Ready" /\ transport = using[p] THEN Become("Idle") ELSE UNCHANGED carried
    /\ NotifyAll
    /\ Reach(p, "get")
    /\ retried' = retried \cup {p}
    /\ UNCHANGED <<dead, poisoned, eager, using, registered>>

Caller(p) ==
    \/ GetReady(p) \/ GetSleep(p) \/ GetFailed(p) \/ GetClosed(p) \/ GetIdle(p)
    \/ Connected(p) \/ OpEnd(p) \/ OpLost(p) \/ Invalidate(p)

-----------------------------------------------------------------------------
(* The rest of the world.                                                  *)

Lose(t) ==
    /\ t \notin dead
    /\ dead' = dead \cup {t}
    /\ UNCHANGED <<carried, poisoned, eager, asleep, call, registered>>

\* cleanup_session: the session goes, then the slot is closed.
Unregister ==
    /\ eager # "new" /\ registered
    /\ registered' = FALSE
    /\ UNCHANGED <<carried, dead, poisoned, eager, asleep, call>>

Close ==
    /\ ~registered /\ slot # "Closed"
    /\ Become("Closed")
    /\ NotifyAll
    /\ UNCHANGED <<dead, poisoned, eager, call, registered>>

ControlNext ==
    \/ EagerBegin \/ EagerEnd
    \/ \E p \in Callers : FindSession(p) \/ Caller(p)
    \/ \E t \in 1 .. issued : Lose(t)
    \/ Unregister \/ Close

ControlSpec == ControlInit /\ [][ControlNext]_controlVars

\* Threads run and connects return.  No call has to be made, no connection to
\* be lost, and no session to be closed.
ControlFairness ==
    /\ WF_controlVars(EagerBegin) /\ WF_controlVars(EagerEnd)
    /\ \A p \in Callers : WF_controlVars(Caller(p))

ControlFairSpec == ControlSpec /\ ControlFairness

-----------------------------------------------------------------------------
(* Safety.                                                                 *)

\* While the slot is open it says Connecting exactly while one thread, and no
\* other, is connecting.
OneConnector ==
    slot # "Closed" =>
        /\ slot = "Connecting" <=> eager = "connecting" \/ \E p \in Callers : opAt[p] = "connect"
        /\ \A p, q \in Callers : opAt[p] = "connect" /\ opAt[q] = "connect" => p = q
        /\ \A p \in Callers : opAt[p] = "connect" => eager # "connecting"

\* Whoever sleeps will be notified: the slot is still being connected.
SleepersAttended == \A p \in asleep : opAt[p] = "get" /\ slot = "Connecting"

\* A transport is replaced only when it is lost, and however many calls it
\* fails, only once: all but the one in the slot are lost.
OneRebuild == slot # "Closed" => \A t \in 1 .. issued : t = transport \/ t \in dead \cup poisoned

\* A closed slot stays closed, whatever connects late.
ClosedForGood == [][slot = "Closed" => UNCHANGED carried]_controlVars

\* Every call ends, also when the connect it waited for failed or the session
\* was closed meanwhile.
CallsEnd == \A p \in Callers : opAt[p] = "get" ~> opAt[p] \in Ended

=============================================================================
