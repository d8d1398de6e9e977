---------------------------- MODULE TerminalSession ----------------------------
(***************************************************************************)
(* One session from open_session to close_session: SessionManager of       *)
(* src-tauri/src/core/session_manager.rs, the threads that                 *)
(* src-tauri/src/core/terminal_service.rs starts for it, and what the      *)
(* window (src/stores/session.ts) shows of it.                             *)
(*                                                                         *)
(* Threads.  The terminal thread loads the credentials, polls for the      *)
(* connection, and then moves the terminal's data and commands; the        *)
(* connect thread runs connect_terminal and sends back what comes of it;   *)
(* the main thread runs the commands of the window one after the other.    *)
(* The window hears of the status by events, in their order; the answer of *)
(* open_session may come before or after them.                             *)
(*                                                                         *)
(* Time is the one fact whether the deadline of the connect has passed.    *)
(* What the verifier decides is in HostIdentity; here it accepts, refuses, *)
(* or waits for the user until the session's waiters are cancelled.        *)
(***************************************************************************)
EXTENDS Naturals, Sequences

CONSTANT MaxCommands    \* how many commands the window sends at most

ASSUME MaxCommandsAssumption == MaxCommands \in Nat

VARIABLES
    status,     \* runtime_status
    announced,  \* the session:status events the window has not yet seen
    window,     \* the status the window shows; "unknown" before the answer of
                \* open_session, "gone" after that of close_session
    at,         \* where the terminal thread is
    seen,       \* active_phase: the phase as it was before the last wait
    waited,     \* verify_wait_start is set
    expired,    \* the deadline has passed
    connect,    \* where the connect thread is
    phase,      \* current_phase
    result,     \* what conn_rx holds
    commands,   \* what command_rx holds
    unsent,     \* how many commands the window may still send
    closing     \* how far close_session has got

told == <<status, announced>>
clock == <<waited, expired>>
terminal == <<at, seen, clock>>
connector == <<connect, phase, result>>
main == <<window, unsent, closing>>
vars == <<told, terminal, connector, commands, main>>

\* What a connect ends with, and how a session may stand.
Failures == {"AuthFailed", "Timeout", "Error"}
Statuses == Failures \cup {"Connecting", "Connected", "Disconnected"}

Phases == {"ConnectingTcp", "SshHandshake", "VerifyingHostKey", "Authenticating",
           "OpeningChannel", "RequestingPty", "StartingShell"}

Polling == {"poll", "receive", "judge"}
Looping == {"loop", "read", "drain", "eof"}

TypeOK ==
    /\ status \in Statuses
    /\ announced \in Seq(Statuses \ {"Connecting"})
    /\ window \in Statuses \cup {"unknown", "gone"}
    /\ at \in {"credentials", "over"} \cup Polling \cup Looping
    /\ seen \in Phases /\ phase \in Phases
    /\ waited \in BOOLEAN /\ expired \in BOOLEAN
    /\ connect \in {"off", "running", "vouched", "over"}
    /\ result \in Failures \cup {"none", "transport", "lost"}
    /\ commands \in Seq({"write", "resize", "close"})
    /\ unsent \in 0 .. MaxCommands
    /\ closing \in {"no", "removed", "cancelled", "flagged", "done"}

\* open_session has registered the session and started the terminal thread.
Init ==
    /\ status = "Connecting" /\ announced = <<>> /\ window = "unknown"
    /\ at = "credentials"
    /\ seen = "ConnectingTcp" /\ phase = "ConnectingTcp"
    /\ waited = FALSE /\ expired = FALSE
    /\ connect = "off" /\ result = "none"
    /\ commands = <<>> /\ unsent = MaxCommands
    /\ closing = "no"

CancelledNot == FALSE                                                \* variant

\* The waiters of the session have been cancelled.
Cancelled == closing \in {"cancelled", "flagged", "done"}

\* Its shutdown flag is set.
Shutdown == closing \in {"flagged", "done"}

\* emit_session_status: the backend's own record first.
Announce(s) == status' = s /\ announced' = Append(announced, s)

Go(stage) == at' = stage

-----------------------------------------------------------------------------
(* The terminal thread.  When it ends, its ends of the channels are gone,  *)
(* with whatever is in them.                                               *)

End == Go("over") /\ result' = "none" /\ commands' = <<>>

Stay == UNCHANGED <<result, commands>>

EndWith(s) == Announce(s) /\ End

EndSilently == End /\ UNCHANGED told

\* How load_credentials fails: the configuration names no credential, the store
\* has none under the name, or it times out or fails.
CredentialFailures == {"Timeout", "Error"}

\* The credentials are there, and the connect thread is started; or they are
\* not.  The secure store may keep the thread waiting for ever.
LoadCredentials ==
    /\ at = "credentials"
    /\ \/ Go("poll") /\ connect' = "running" /\ Stay /\ UNCHANGED told
       \/ \E s \in CredentialFailures : EndWith(s) /\ UNCHANGED connect
    /\ UNCHANGED <<seen, clock, phase, main>>

ReadPhase ==
    /\ at = "poll"
    /\ Go("receive") /\ seen' = phase
    /\ UNCHANGED <<told, clock, connector, commands, main>>

\* recv_timeout: a result, or the end of the connect thread without one.
Receive ==
    /\ at = "receive" /\ result # "none"
    /\ \/ result = "transport" /\ Announce("Connected") /\ Go("loop")
            /\ result' = "none" /\ UNCHANGED commands
       \/ result = "lost" /\ EndWith("Error")
       \/ result \in Failures /\ EndWith(result)
    /\ UNCHANGED <<seen, clock, connect, phase, main>>

NothingYet ==
    /\ at = "receive" /\ result = "none"
    /\ Go("judge")
    /\ UNCHANGED <<told, seen, clock, connector, commands, main>>

JudgeRenewing ==                                                     \* variant
    /\ at = "judge"
    /\ LET verifying == seen = "VerifyingHostKey"
       IN  /\ waited' = verifying
           /\ expired' = (expired /\ verifying)
           /\ IF ~verifying /\ expired'
              THEN EndWith("Timeout")
              ELSE Go("poll") /\ Stay /\ UNCHANGED told
    /\ UNCHANGED <<seen, connect, phase, main>>

JudgeOn ==                                                           \* variant
    /\ at = "judge"
    /\ LET verifying == seen = "VerifyingHostKey"
           renewed == waited /\ ~verifying
       IN  /\ waited' = verifying
           /\ expired' = (expired /\ ~renewed)
           /\ Go("poll") /\ Stay
           /\ IF ~verifying /\ expired' THEN Announce("Timeout") ELSE UNCHANGED told
    /\ UNCHANGED <<seen, connect, phase, main>>

\* A wait has ended without a result.  While the phase it began in is that of
\* the verification the deadline does not count; when that is over the whole
\* budget is granted anew.
Judge ==
    /\ at = "judge"
    /\ LET verifying == seen = "VerifyingHostKey"
           renewed == waited /\ ~verifying
       IN  /\ waited' = verifying
           /\ expired' = (expired /\ ~renewed)
           /\ IF ~verifying /\ expired'
              THEN EndWith("Timeout")
              ELSE Go("poll") /\ Stay /\ UNCHANGED told
    /\ UNCHANGED <<seen, connect, phase, main>>

\* The top of the loop.  A session that is closed goes without a word.
Loop ==
    /\ at = "loop"
    /\ IF Shutdown THEN EndSilently ELSE Go("read") /\ Stay /\ UNCHANGED told
    /\ UNCHANGED <<seen, clock, connect, phase, main>>

\* Output or none; or the connection is lost.
Read ==
    /\ at = "read"
    /\ \/ Go("drain") /\ Stay /\ UNCHANGED told
       \/ EndWith("Disconnected")
    /\ UNCHANGED <<seen, clock, connect, phase, main>>

\* A write or a resize that fails is announced as an Error; the loop goes on.
Obey ==
    /\ at = "drain" /\ commands # <<>>
    /\ \/ Head(commands) = "close" /\ EndWith("Disconnected")
       \/ /\ Head(commands) # "close"
          /\ commands' = Tail(commands) /\ UNCHANGED <<at, result>>
          /\ Announce("Error") \/ UNCHANGED told
    /\ UNCHANGED <<seen, clock, connect, phase, main>>

Drained ==
    /\ at = "drain" /\ commands = <<>>
    /\ Go("eof")
    /\ UNCHANGED <<told, seen, clock, connector, commands, main>>

\* The remote end may have closed the terminal.
CheckEof ==
    /\ at = "eof"
    /\ \/ Go("loop") /\ Stay /\ UNCHANGED told
       \/ EndWith("Disconnected")
    /\ UNCHANGED <<seen, clock, connect, phase, main>>

Attend == ReadPhase \/ Receive \/ NothingYet \/ Judge
            \/ Loop \/ Read \/ Obey \/ Drained \/ CheckEof

DeadlinePasses ==
    /\ at \in Polling /\ ~expired
    /\ expired' = TRUE
    /\ UNCHANGED <<told, at, seen, waited, connector, commands, main>>

-----------------------------------------------------------------------------
(* The connect thread.                                                     *)

\* The phases in their order.
NextPhase ==
    [ConnectingTcp |-> "SshHandshake", SshHandshake |-> "VerifyingHostKey",
     VerifyingHostKey |-> "Authenticating", Authenticating |-> "OpeningChannel",
     OpeningChannel |-> "RequestingPty", RequestingPty |-> "StartingShell",
     StartingShell |-> "StartingShell"]

\* map_phase_error_to_status, for the errors each phase can end with.
StatusOf(ph) ==
    CASE ph = "Authenticating"   -> {"AuthFailed"}
      [] ph = "VerifyingHostKey" -> {"Error"}
      [] OTHER                   -> {"Timeout", "Error"}

\* The verifier lets the key pass; after cancel_session it does not.
Vouch ==
    /\ connect = "running" /\ phase = "VerifyingHostKey" /\ ~Cancelled
    /\ connect' = "vouched"
    /\ UNCHANGED <<told, terminal, phase, result, commands, main>>

Advance ==
    /\ connect = IF phase = "VerifyingHostKey" THEN "vouched" ELSE "running"
    /\ phase # "StartingShell"
    /\ connect' = "running" /\ phase' = NextPhase[phase]
    /\ UNCHANGED <<told, terminal, result, commands, main>>

\* conn_tx.send: a result nobody will read is dropped.
Send(r) ==
    /\ connect = "running"
    /\ connect' = "over" /\ result' = IF at = "over" THEN "none" ELSE r
    /\ UNCHANGED <<told, terminal, phase, commands, main>>

Fail == \E r \in StatusOf(phase) : Send(r)

Refuse == phase = "VerifyingHostKey" /\ Cancelled /\ Fail

Succeed == phase = "StartingShell" /\ Send("transport")

\* A panic drops conn_tx.
Panic == Send("lost")

-----------------------------------------------------------------------------
(* The main thread and the window.                                         *)

Deliver(s) ==
    commands' = IF at = "over" THEN commands ELSE Append(commands, s)

\* write_terminal while the window shows Connected, resize_terminal at any
\* time.  A terminal that is over answers with an error.
SendCommand(c) ==
    /\ closing = "no" /\ unsent > 0
    /\ window \in IF c = "write" THEN {"Connected"} ELSE Statuses
    /\ unsent' = unsent - 1
    /\ Deliver(c)
    /\ UNCHANGED <<told, terminal, connector, window, closing>>

CloseSession ==
    /\ closing = "no" /\ window \in Statuses
    /\ closing' = "removed"
    /\ UNCHANGED <<told, terminal, connector, commands, window, unsent>>

CancelIdentity ==
    /\ closing = "removed"
    /\ closing' = "cancelled"
    /\ UNCHANGED <<told, terminal, connector, commands, window, unsent>>

SetShutdown ==
    /\ closing = "cancelled"
    /\ closing' = "flagged"
    /\ UNCHANGED <<told, terminal, connector, commands, window, unsent>>

SendClose ==
    /\ closing = "flagged"
    /\ closing' = "done"
    /\ Deliver("close")
    /\ UNCHANGED <<told, terminal, connector, window, unsent>>

Closing == CancelIdentity \/ SetShutdown \/ SendClose

\* The answer of open_session makes the session known, as Connecting.
Opened ==
    /\ window = "unknown"
    /\ window' = "Connecting"
    /\ UNCHANGED <<told, terminal, connector, commands, unsent, closing>>

ApplyOverlaid ==                                                     \* variant
    /\ announced # <<>>
    /\ announced' = Tail(announced)
    /\ window' = IF window \in Statuses /\ Head(announced) # "Disconnected"
                 THEN Head(announced) ELSE window
    /\ UNCHANGED <<status, terminal, connector, commands, unsent, closing>>

\* applySessionStatus: an event of a session the window does not know is lost.
ApplySessionStatus ==
    /\ announced # <<>>
    /\ announced' = Tail(announced)
    /\ window' = IF window \in Statuses THEN Head(announced) ELSE window
    /\ UNCHANGED <<status, terminal, connector, commands, unsent, closing>>

\* The answer of close_session: removeSessionProjection.
Closed ==
    /\ closing = "done" /\ window # "gone"
    /\ window' = "gone"
    /\ UNCHANGED <<told, terminal, connector, commands, unsent, closing>>

-----------------------------------------------------------------------------

Next ==
    \/ LoadCredentials \/ Attend \/ DeadlinePasses
    \/ Vouch \/ Advance \/ Fail \/ Succeed \/ Panic
    \/ \E c \in {"write", "resize"} : SendCommand(c)
    \/ CloseSession \/ Closing
    \/ Opened \/ ApplySessionStatus \/ Closed

Spec == Init /\ [][Next]_vars

\* The terminal thread runs, time passes, a close that has begun is carried
\* out, and whoever waits in the verifier is let go when it is cancelled (see
\* HostIdentity).  A verified connect gets on; but neither the secure store
\* nor any other step of the connect need ever return.
Fairness ==
    /\ WF_vars(Attend) /\ WF_vars(DeadlinePasses)
    /\ WF_vars(Closing)
    /\ WF_vars(Refuse)
    /\ WF_vars(connect = "vouched" /\ Advance)

FairSpec == Spec /\ Fairness

-----------------------------------------------------------------------------
(* Safety.                                                                 *)

\* What the backend says of the session is what has become of its thread: it
\* connects, or serves the terminal, or it is over.  Only a failed write or
\* resize makes an Error of a terminal that lives on, and only a close makes
\* an end of one that counts as connected.
StatusAgrees ==
    /\ status = "Connecting" <=> at = "credentials" \/ at \in Polling
    /\ status = "Connected" => at \in Looping \/ Shutdown
    /\ status \in {"AuthFailed", "Timeout", "Disconnected"} => at = "over"

\* When the window lets the user type, and nothing is on its way to tell it
\* otherwise, there is a terminal to take it.
TypingIsHeard ==
    window = "Connected" /\ announced = <<>> /\ closing = "no" => at \in Looping

-----------------------------------------------------------------------------
(* Liveness.                                                               *)

\* A connect is answered for, even if it hangs: the session leaves Connecting
\* unless it is the user who keeps it waiting.
Answered ==
    at \in Polling ~> at \notin Polling \/ (phase = "VerifyingHostKey" /\ closing = "no")

\* The thread of a closed session ends, wherever the close found it, unless
\* the secure store never answers.
CloseEnds == closing # "no" /\ at # "credentials" ~> at = "over"

=============================================================================
