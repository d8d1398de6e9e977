------------------------------- MODULE Monitoring -------------------------------
(***************************************************************************)
(* Monitoring: MonitorService of src-tauri/src/core/monitor_service.rs and *)
(* the loop of monitor_worker.rs, with as much of SessionManager as opens  *)
(* and closes what they work for, and what the window (stores/monitor.ts)  *)
(* knows of the tasks.                                                     *)
(*                                                                         *)
(* Threads.  start_monitoring runs off the main thread: it looks the       *)
(* session up, reads credentials, and only then registers its task.  Each  *)
(* task has a worker thread.  Sessions are closed, and tasks stopped, by   *)
(* the main thread.  A step is one critical section of the session         *)
(* registry, the task registry, the snapshot cache or the identity state.  *)
(*                                                                         *)
(* Once registered, a task's status is changed by its worker alone, which  *)
(* emits the event before it does anything else: the two are one step.     *)
(***************************************************************************)
EXTENDS Sequences

CONSTANTS
    Sessions,   \* the runtime sessions, open at first
    Tasks,      \* the calls of start_monitoring, and the tasks they create
    SessionOf   \* the session of each

ASSUME SessionOfAssumption == SessionOf \in [Tasks -> Sessions]

VARIABLES
    sessions,   \* SessionManager.sessions
    cancelled,  \* the sessions HostIdentityService has cancelled
    closing,    \* how far close_session has come
    call,       \* how far start_monitoring has come
    tasks,      \* MonitorService.tasks: the status of a registered task
    halted,     \* the tasks whose shutdown flag is set
    worker,     \* where the thread of a task is
    snapshots,  \* the sessions with a cached snapshot
    inbox,      \* the events of a task on their way to the window
    told,       \* history: the last status emitted
    view,       \* the window's status of a task
    early,      \* pendingTaskEvents
    shown,      \* sessionTaskMap
    stopped,    \* the answers of stop_monitoring on their way
    cleared     \* the sessions the window has cleared

main == <<sessions, cancelled, closing>>
events == <<inbox, told>>
window == <<view, early, shown, stopped, cleared>>
vars == <<main, call, tasks, halted, worker, snapshots, events, window>>

None == "none"
Statuses == {"Pending", "Running", "Done", "Failed"}
Collecting == {"dial", "loop", "collect", "cache", "push"}

TypeOK ==
    /\ sessions \subseteq Sessions /\ cancelled \subseteq Sessions
    /\ closing \in [Sessions -> {"open", "cancel", "stop", "forget", "closed"}]
    /\ call \in [Tasks -> {"new", "verifier", "register", "launch", "answered", "over"}]
    /\ tasks \in [Tasks -> Statuses \cup {None}]
    /\ \A t \in Tasks : tasks[t] # None => worker[t] # None \/ call[t] = "launch"
    /\ halted \subseteq Tasks
    /\ worker \in [Tasks -> {None, "start", "check", "verify", "failing", "ending", "over"} \cup Collecting]
    /\ snapshots \subseteq Sessions
    /\ inbox \in [Tasks -> Seq(Statuses)]
    /\ told \in [Tasks -> Statuses \cup {None}]
    /\ view \in [Tasks -> Statuses \cup {None}]
    /\ early \in [Tasks -> Statuses \cup {None}]
    /\ shown \in [Sessions -> Tasks \cup {None}]
    /\ stopped \subseteq Tasks
    /\ cleared \subseteq Sessions

Init ==
    /\ sessions = Sessions /\ cancelled = {}
    /\ closing = [s \in Sessions |-> "open"]
    /\ call = [t \in Tasks |-> "new"]
    /\ tasks = [t \in Tasks |-> None] /\ halted = {}
    /\ worker = [t \in Tasks |-> None]
    /\ snapshots = {}
    /\ inbox = [t \in Tasks |-> <<>>] /\ told = [t \in Tasks |-> None]
    /\ view = [t \in Tasks |-> None] /\ early = [t \in Tasks |-> None]
    /\ shown = [s \in Sessions |-> None] /\ cleared = {}
    /\ stopped = {}

Call(t, stage) == call' = [call EXCEPT ![t] = stage]
Go(t, stage) == worker' = [worker EXCEPT ![t] = stage]

\* emit_task_status.
Emit(t, s) ==
    /\ inbox' = [inbox EXCEPT ![t] = Append(@, s)]
    /\ told' = [told EXCEPT ![t] = s]

-----------------------------------------------------------------------------
(* start_monitoring.                                                       *)

\* host_config, and host_key_verifier, which asks for it again.
LookUp(t) ==
    /\ \/ call[t] = "new" /\ SessionOf[t] \in sessions /\ Call(t, "verifier")
       \/ call[t] = "verifier" /\ SessionOf[t] \in sessions /\ Call(t, "register")
       \/ call[t] \in {"new", "verifier"} /\ SessionOf[t] \notin sessions /\ Call(t, "over")
    /\ UNCHANGED <<main, tasks, halted, worker, snapshots, events, window>>

\* A task is registered unless the credentials cannot be read.
Register(t) ==
    /\ call[t] = "register"
    /\ \/ tasks' = [tasks EXCEPT ![t] = "Pending"] /\ Call(t, "launch")
       \/ UNCHANGED tasks /\ Call(t, "over")
    /\ UNCHANGED <<main, halted, worker, snapshots, events, window>>

\* Pending is announced before the worker starts.
Launch(t) ==
    /\ call[t] = "launch"
    /\ Emit(t, "Pending")
    /\ Go(t, "start") /\ Call(t, "answered")
    /\ UNCHANGED <<main, tasks, halted, snapshots, window>>

-----------------------------------------------------------------------------
(* The worker of a task.                                                   *)

Legal == {<<"Pending", "Running">>, <<"Running", "Done">>, <<"Running", "Failed">>}

\* transition_task_status; a task that is not registered is not moved.
Transition(t, s) ==
    IF <<tasks[t], s>> \in Legal
    THEN tasks' = [tasks EXCEPT ![t] = s] /\ Emit(t, s)
    ELSE UNCHANGED <<tasks, events>>

WorkerBegin(t) ==
    /\ worker[t] = "start"
    /\ Transition(t, "Running") /\ Go(t, "check")
    /\ UNCHANGED <<main, call, halted, snapshots, window>>

\* The flag is read before a connection is made.
CheckFirst(t) ==
    /\ worker[t] = "check"
    /\ Go(t, IF t \in halted THEN "ending" ELSE "verify")
    /\ UNCHANGED <<main, call, tasks, halted, snapshots, events, window>>

VerifyUnasked(t) ==                                                  \* variant
    /\ worker[t] = "verify"
    /\ \/ Go(t, "dial")
       \/ Go(t, "failing")
    /\ UNCHANGED <<main, call, tasks, halted, snapshots, events, window>>

\* The host's key is accepted, by a record or by the user, as long as the
\* session has not been cancelled; the connect may fail before that.
Verify(t) ==
    /\ worker[t] = "verify"
    /\ \/ SessionOf[t] \notin cancelled /\ Go(t, "dial")
       \/ Go(t, "failing")
    /\ UNCHANGED <<main, call, tasks, halted, snapshots, events, window>>

\* The rest of the connect.
Dial(t) ==
    /\ worker[t] = "dial"
    /\ Go(t, "loop") \/ Go(t, "failing")
    /\ UNCHANGED <<main, call, tasks, halted, snapshots, events, window>>

\* The head of the loop, and the pause before it.
Loop(t) ==
    /\ worker[t] = "loop"
    /\ Go(t, IF t \in halted THEN "ending" ELSE "collect")
    /\ UNCHANGED <<main, call, tasks, halted, snapshots, events, window>>

\* collect_once; a failure ends the loop.
Collect(t) ==
    /\ worker[t] = "collect"
    /\ Go(t, "cache") \/ Go(t, "failing")
    /\ UNCHANGED <<main, call, tasks, halted, snapshots, events, window>>

Cache(t) ==
    /\ worker[t] = "cache"
    /\ snapshots' = snapshots \cup {SessionOf[t]} /\ Go(t, "push")
    /\ UNCHANGED <<main, call, tasks, halted, events, window>>

\* A snapshot that cannot be emitted fails the task; its loop goes on.
Push(t) ==
    /\ worker[t] = "push"
    /\ Transition(t, "Failed") \/ UNCHANGED <<tasks, events>>
    /\ Go(t, "loop")
    /\ UNCHANGED <<main, call, halted, snapshots, window>>

\* on_error.
Fail(t) ==
    /\ worker[t] = "failing"
    /\ Transition(t, "Failed") /\ Go(t, "ending")
    /\ UNCHANGED <<main, call, halted, snapshots, window>>

End(t) ==
    /\ worker[t] = "ending"
    /\ Transition(t, "Done") /\ Go(t, "over")
    /\ UNCHANGED <<main, call, halted, snapshots, window>>

-----------------------------------------------------------------------------
(* The main thread.                                                        *)

MainIdle == \A s \in Sessions : closing[s] \in {"open", "closed"}

Step(s, stage) == closing' = [closing EXCEPT ![s] = stage]

\* close_session: the session leaves the registry,
CloseBegin(s) ==
    /\ MainIdle /\ s \in sessions
    /\ sessions' = sessions \ {s} /\ Step(s, "cancel")
    /\ UNCHANGED <<cancelled, call, tasks, halted, worker, snapshots, events, window>>

CancelSessionNot(s) ==                                              \* variant
    /\ closing[s] = "cancel"
    /\ Step(s, "stop")
    /\ UNCHANGED <<sessions, cancelled, call, tasks, halted, worker, snapshots, events, window>>

\* its questions about host keys are cancelled, and refused from then on,
CancelSession(s) ==
    /\ closing[s] = "cancel"
    /\ cancelled' = cancelled \cup {s} /\ Step(s, "stop")
    /\ UNCHANGED <<sessions, call, tasks, halted, worker, snapshots, events, window>>

StopSessionDropping(s) ==                                            \* variant
    /\ closing[s] = "stop"
    /\ tasks' = [t \in Tasks |-> IF SessionOf[t] = s THEN None ELSE tasks[t]]
    /\ Step(s, "forget")
    /\ UNCHANGED <<sessions, cancelled, call, halted, worker, snapshots, events, window>>

\* its tasks are removed and told to stop,
StopSession(s) ==
    /\ closing[s] = "stop"
    /\ LET its == {t \in Tasks : SessionOf[t] = s /\ tasks[t] # None}
       IN  /\ halted' = halted \cup its
           /\ tasks' = [t \in Tasks |-> IF t \in its THEN None ELSE tasks[t]]
    /\ Step(s, "forget")
    /\ UNCHANGED <<sessions, cancelled, call, worker, snapshots, events, window>>

\* and its snapshot is dropped.
ForgetSnapshot(s) ==
    /\ closing[s] = "forget"
    /\ snapshots' = snapshots \ {s} /\ Step(s, "closed")
    /\ UNCHANGED <<sessions, cancelled, call, tasks, halted, worker, events, window>>

\* stop_monitoring, of the task the window shows for a session; only the answer
\* takes its time.
StopMonitoring(t) ==
    /\ MainIdle /\ shown[SessionOf[t]] = t /\ t \notin stopped
    /\ tasks' = [tasks EXCEPT ![t] = None]
    /\ halted' = IF tasks[t] # None THEN halted \cup {t} ELSE halted
    /\ stopped' = stopped \cup {t}
    /\ UNCHANGED <<main, call, worker, snapshots, events, view, early, shown, cleared>>

-----------------------------------------------------------------------------
(* The window.                                                             *)

DeliverToKnown(t) ==                                                 \* variant
    /\ inbox[t] # <<>>
    /\ view' = IF view[t] # None THEN [view EXCEPT ![t] = Head(inbox[t])] ELSE view
    /\ inbox' = [inbox EXCEPT ![t] = Tail(@)]
    /\ UNCHANGED <<main, call, tasks, halted, worker, snapshots, told, early, shown, stopped, cleared>>

\* applyTaskStatus: an event of an unknown task is kept for the answer.
Deliver(t) ==
    /\ inbox[t] # <<>>
    /\ IF view[t] # None
       THEN view' = [view EXCEPT ![t] = Head(inbox[t])] /\ UNCHANGED early
       ELSE early' = [early EXCEPT ![t] = Head(inbox[t])] /\ UNCHANGED view
    /\ inbox' = [inbox EXCEPT ![t] = Tail(@)]
    /\ UNCHANGED <<main, call, tasks, halted, worker, snapshots, told, shown, stopped, cleared>>

\* The answer to start_monitoring, whether or not the session is still there.
Answer(t) ==
    /\ call[t] = "answered" /\ Call(t, "over")
    /\ view' = [view EXCEPT ![t] = IF early[t] # None THEN early[t] ELSE "Pending"]
    /\ early' = [early EXCEPT ![t] = None]
    /\ shown' = [shown EXCEPT ![SessionOf[t]] = t]
    /\ UNCHANGED <<main, tasks, halted, worker, snapshots, events, stopped, cleared>>

\* The answer to stop_monitoring: no task is shown for the session, whichever
\* was by now.
Stopped(t) ==
    /\ t \in stopped /\ stopped' = stopped \ {t}
    /\ shown' = [shown EXCEPT ![SessionOf[t]] = None]
    /\ UNCHANGED <<main, call, tasks, halted, worker, snapshots, events, view, early, cleared>>

\* The answer to close_session: clearSession drops the task shown.
ClearSession(s) ==
    /\ closing[s] = "closed" /\ s \notin cleared
    /\ cleared' = cleared \cup {s}
    /\ shown' = [shown EXCEPT ![s] = None]
    /\ view' = [t \in Tasks |-> IF t = shown[s] THEN None ELSE view[t]]
    /\ UNCHANGED <<main, call, tasks, halted, worker, snapshots, events, early, stopped>>

-----------------------------------------------------------------------------
Starting(t) == Register(t) \/ Launch(t)

Working(t) ==
    \/ WorkerBegin(t) \/ CheckFirst(t) \/ Dial(t) \/ Loop(t) \/ Collect(t) \/ Cache(t)
    \/ Push(t) \/ Fail(t) \/ End(t)

Closing(s) == CancelSession(s) \/ StopSession(s) \/ ForgetSnapshot(s)

Next ==
    \/ \E t \in Tasks :
          LookUp(t) \/ Starting(t) \/ Working(t) \/ Verify(t) \/ StopMonitoring(t)
          \/ Stopped(t) \/ Deliver(t) \/ Answer(t)
    \/ \E s \in Sessions : CloseBegin(s) \/ Closing(s) \/ ClearSession(s)

Spec == Init /\ [][Next]_vars

\* Threads go on and connects return; only a cancelled question need be
\* answered.  Nobody has to start, stop or close anything.
Fairness ==
    /\ \A t \in Tasks :
          /\ WF_vars(Starting(t)) /\ WF_vars(Working(t))
          /\ WF_vars(call[t] = "verifier" /\ LookUp(t))
          /\ WF_vars(SessionOf[t] \in cancelled /\ Verify(t))
    /\ \A s \in Sessions : WF_vars(Closing(s))

FairSpec == Spec /\ Fairness

-----------------------------------------------------------------------------
(* Safety.                                                                 *)

\* A worker can always be stopped: while its record is in the registry by
\* whoever finds it there; one whose record is gone has been told to stop,
\* even if it has not begun yet.
NobodyOutOfReach ==
    \A t \in Tasks :
        (call[t] = "launch" \/ worker[t] \notin {None, "over"}) /\ tasks[t] = None => t \in halted

\* No collection begins for a session whose tasks have been stopped, however
\* late a task of it was registered.
ClosedCollectsNothing ==
    [][\A t \in Tasks : worker[t] # "collect" /\ worker'[t] = "collect"
                           => closing[SessionOf[t]] \notin {"forget", "closed"}]_vars

\* Once the events have arrived, the window shows what was last announced.
WindowAgrees == \A t \in Tasks : inbox[t] = <<>> /\ view[t] # None => view[t] = told[t]

-----------------------------------------------------------------------------
(* Liveness.                                                               *)

\* The workers of a closed session end, for good.
MonitorsEnd ==
    \A s \in Sessions : closing[s] = "closed"
        ~> [](\A t \in Tasks : SessionOf[t] = s => worker[t] \in {None, "over"})
=============================================================================
