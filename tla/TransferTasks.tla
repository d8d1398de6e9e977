---------------------------- MODULE TransferTasks ----------------------------
(***************************************************************************)
(* File transfer tasks of one session: SftpService of                      *)
(* src-tauri/src/core/sftp_service.rs, composed with the session's         *)
(* TransferPool.                                                           *)
(*                                                                         *)
(* Threads.  Uploads, cancellation, clearing and the closing of a session  *)
(* are synchronous commands: they run one after the other on the main      *)
(* thread.  A download is enqueued by a thread of the blocking pool, and   *)
(* each task has a worker; these interleave with everything, one critical  *)
(* section of the task registry, the handle registry or the pool at a      *)
(* time.                                                                   *)
(*                                                                         *)
(* Which file a task moves is reduced to its final target, how the         *)
(* transfer goes to its outcome.  The creation times that evictions go by  *)
(* are wall-clock times, so which terminal records an eviction keeps is    *)
(* left open.  In the pool a task is known by its queue_seq.               *)
(***************************************************************************)
EXTENDS Naturals, Sequences, FiniteSets

CONSTANTS
    Tasks,          \* the tasks that may be enqueued
    Mixes,          \* the sets of tasks that may be the downloads; the others are uploads
    Targets,        \* the final targets a task may have
    Others,         \* transfers of other sessions that may hold a permit already
    MaxConns,       \* MAX_TRANSFER_CONNECTIONS_PER_SESSION
    Permits,        \* MAX_CONCURRENT_TRANSFERS, the semaphore's size
    MaxTerminal     \* MAX_TERMINAL_TASKS_PER_SESSION

ASSUME TransferAssumption ==
    /\ IsFiniteSet(Tasks) /\ IsFiniteSet(Others) /\ Mixes \subseteq SUBSET Tasks
    /\ Tasks \cap Others = {}
    /\ MaxConns \in Nat \ {0} /\ Permits \in Nat \ {0}
    /\ MaxTerminal \in Nat

VARIABLES
    \* the session's TransferPool
    slots, idle, stale, nextSeq, waiters, wake, phase, seqOf, closed, reaper,
    \* the service
    enqueueSeq, \* SftpHandle.enqueue_seq
    queueSeq,   \* each task's queue_seq, 0 until it is registered
    target,     \* the final target each task is asked for with
    downloads,  \* the tasks asked for as downloads
    handle,     \* the session is in SftpService.handles
    status,     \* each task's status in SftpService.tasks, or "absent"
    tokens,     \* the keys of SftpHandle.cancel_tokens
    cancelled,  \* the tasks whose CancelToken is set
    at,         \* where each task's enqueuer, then its worker, is
    permits,    \* the tasks, of any session, whose worker holds a permit of the semaphore
    outcome,    \* what run_transfer_blocking returned: "none" until then
    unsent,     \* the status a worker has written and not yet emitted
    events,     \* the sftp:task_status events of each task, in order
    closing,    \* where cleanup_session is
    doomed,     \* the tasks cleanup_session has still to cancel
    victim,     \* at most one more, whose token it has just set
    late        \* history: the tasks whose token was set when they went to sleep in the pool

pool == <<slots, idle, stale, nextSeq, waiters, wake, phase, seqOf, closed, reaper>>
registry == <<status, tokens, unsent>>
request == <<target, downloads>>
queue == <<enqueueSeq, queueSeq, request, late>>
session == <<handle, closing, doomed, victim>>
service == <<registry, queue, session, cancelled, at, permits, outcome, events>>
allButLate == <<registry, enqueueSeq, queueSeq, request, session, cancelled, at, permits, outcome, events>>
vars == <<pool, service>>

Pool == INSTANCE TransferPool WITH Tasks <- 1 .. Cardinality(Tasks)

Active == {"Pending", "Running"}
Terminal == {"Done", "Failed", "Cancelled"}
None == "none"

\* The stages of a task.  Enqueueing: "new", "size", "insert", "register";
\* "refused" when it fails.  Its worker: "spawned", "checkout", "recheck",
\* "starting", "begin", "moving", "release", "finish"; "noconn" and "failed"
\* when there is no connection; "end".
EnqueueStages == {"new", "size", "insert", "register", "refused"}
WorkerStages == {"spawned", "checkout", "recheck", "starting", "begin", "moving",
                 "release", "finish", "noconn", "failed", "end"}

TypeOK ==
    /\ Pool!TypeOK
    /\ handle \in BOOLEAN
    /\ enqueueSeq \in 1 .. Cardinality(Tasks) + 1
    /\ queueSeq \in [Tasks -> 0 .. enqueueSeq - 1]
    /\ target \in [Tasks -> Targets] /\ downloads \in Mixes
    /\ status \in [Tasks -> Active \cup Terminal \cup {"absent"}]
    /\ tokens \subseteq Tasks /\ cancelled \subseteq Tasks
    /\ permits \subseteq Tasks \cup Others /\ late \subseteq Tasks
    /\ doomed \subseteq Tasks /\ victim \subseteq Tasks
    /\ at \in [Tasks -> EnqueueStages \cup WorkerStages]
    /\ outcome \in [Tasks -> Terminal \cup {None, "Broken"}]
    /\ unsent \in [Tasks -> Active \cup Terminal \cup {None}]
    /\ events \in [Tasks -> Seq(Active \cup Terminal)]
    /\ closing \in {"no", "pool", "collect", "cancel", "done"}

Init ==
    /\ Pool!Init
    /\ handle = TRUE
    /\ enqueueSeq = 1
    /\ queueSeq = [t \in Tasks |-> 0]
    /\ target \in [Tasks -> Targets] /\ downloads \in Mixes
    /\ status = [t \in Tasks |-> "absent"]
    /\ tokens = {} /\ cancelled = {} /\ doomed = {} /\ victim = {} /\ late = {}
    /\ permits \in {S \in SUBSET Others : Cardinality(S) <= Permits}
    /\ at = [t \in Tasks |-> "new"]
    /\ outcome = [t \in Tasks |-> None]
    /\ unsent = [t \in Tasks |-> None]
    /\ events = [t \in Tasks |-> <<>>]
    /\ closing = "no"

\* Where the pool's checkout has got to on behalf of t.
PhaseOf(t) == phase[queueSeq[t]]

Go(t, stage) == at' = [at EXCEPT ![t] = stage]

\* The main thread is not inside cleanup_session.
MainIdle == closing \in {"no", "done"}

-----------------------------------------------------------------------------
(* The task registry.                                                      *)

Legal == {<<"Pending", "Running">>, <<"Pending", "Cancelled">>, <<"Running", "Done">>,
          <<"Running", "Failed">>, <<"Running", "Cancelled">>}

\* The records evict_old_terminal_tasks may keep of a registry st.
Evicted(st) ==
    LET over == {t \in Tasks : st[t] \in Terminal}
        drop == Cardinality(over) - MaxTerminal
    IN  IF drop <= 0 THEN {st}
        ELSE {[t \in Tasks |-> IF t \in D THEN "absent" ELSE st[t]] :
                 D \in {E \in SUBSET over : Cardinality(E) = drop}}

\* transition_task, up to its emit: an illegal move, or one of a task that is
\* gone, changes nothing.  The token of a finished task goes if the session is
\* still registered; the lock is dropped in between, but the token of a task
\* that is not active has no effect on anything.
Transition(t, s) ==
    IF <<status[t], s>> \in Legal
    THEN /\ status' \in IF s \in Terminal THEN Evicted([status EXCEPT ![t] = s])
                        ELSE {[status EXCEPT ![t] = s]}
         /\ tokens' = IF s \in Terminal /\ handle THEN tokens \ {t} ELSE tokens
         /\ unsent' = [unsent EXCEPT ![t] = s]
    ELSE UNCHANGED <<status, tokens, unsent>>

\* The worker's emit, after which it goes on.
Emit(t) ==
    /\ unsent[t] # None
    /\ events' = [events EXCEPT ![t] = Append(@, unsent[t])]
    /\ unsent' = [unsent EXCEPT ![t] = None]
    /\ UNCHANGED <<pool, session, status, tokens, cancelled, at, permits, outcome, queue>>

-----------------------------------------------------------------------------
(* Enqueueing.                                                             *)

Occupied(t) ==
    \E u \in Tasks : /\ status[u] \in Active
                     /\ target[u] = target[t]
                     /\ u \in downloads <=> t \in downloads

\* enqueue_download up to its duplicate check: the session exists, and no
\* active download has the same target.
DownloadCheck(t) ==
    /\ t \in downloads /\ at[t] = "new"
    /\ Go(t, IF handle /\ ~Occupied(t) THEN "size" ELSE "refused")
    /\ UNCHANGED <<pool, registry, session, cancelled, permits, outcome, events, queue>>

\* The remote size is asked for on the control connection, with no lock held.
DownloadSize(t) ==
    /\ at[t] = "size"
    /\ (handle /\ Go(t, "insert")) \/ Go(t, "refused")
    /\ UNCHANGED <<pool, registry, session, cancelled, permits, outcome, events, queue>>

DownloadInsert(t) ==
    /\ at[t] = "insert"
    /\ status' = [status EXCEPT ![t] = "Pending"]
    /\ Go(t, "register")
    /\ UNCHANGED <<pool, session, tokens, unsent, cancelled, permits, outcome, events, queue>>

\* register_cancel_entry, after which the worker is spawned.
Register(t) ==
    /\ queueSeq' = [queueSeq EXCEPT ![t] = enqueueSeq]
    /\ enqueueSeq' = enqueueSeq + 1
    /\ tokens' = tokens \cup {t}
    /\ Go(t, "spawned")
    /\ UNCHANGED <<request, late>>

DownloadRegister(t) ==
    /\ at[t] = "register"
    /\ Register(t)
    /\ UNCHANGED <<pool, session, status, unsent, cancelled, permits, outcome, events>>

EnqueueUploadUnchecked(t) ==                                         \* variant
    /\ t \in Tasks \ downloads /\ at[t] = "new" /\ MainIdle
    /\ IF handle
       THEN Register(t) /\ status' = [status EXCEPT ![t] = "Pending"]
       ELSE Go(t, "refused") /\ UNCHANGED <<status, tokens, queue>>
    /\ UNCHANGED <<pool, session, unsent, cancelled, permits, outcome, events>>

\* enqueue_upload, whole: nothing else that could enqueue an upload or close
\* the session runs on the main thread meanwhile.
EnqueueUpload(t) ==
    /\ t \in Tasks \ downloads /\ at[t] = "new" /\ MainIdle
    /\ IF handle /\ ~Occupied(t)
       THEN Register(t) /\ status' = [status EXCEPT ![t] = "Pending"]
       ELSE Go(t, "refused") /\ UNCHANGED <<status, tokens, queue>>
    /\ UNCHANGED <<pool, session, unsent, cancelled, permits, outcome, events>>

-----------------------------------------------------------------------------
(* The worker, up to its connection.                                       *)

\* The worker's own lookup of the session: none is an error like a failed
\* connect.
LookUp(t) ==
    /\ at[t] = "spawned"
    /\ Go(t, IF handle THEN "checkout" ELSE "noconn")
    /\ UNCHANGED <<pool, registry, session, cancelled, permits, outcome, events, queue>>

\* The blocking checkout, step by step.
PoolStep(t) ==
    /\ at[t] = "checkout"
    /\ LET q == queueSeq[t]
       IN  \/ Pool!Checkout(q) \/ Pool!Retry(q) \/ Pool!ReturnCancelled(q)
           \/ Pool!ConnectOk(q) \/ Pool!ConnectErr(q) \/ Pool!ConnectLate(q)
    /\ late' = (late \ {t}) \cup {u \in {t} \cap cancelled : queueSeq[u] \in waiters'}
    /\ UNCHANGED allButLate

CheckoutFailedSilently(t) ==                                         \* variant
    /\ at[t] = "checkout"
    /\ \/ PhaseOf(t) \in {"Cancelled", "Closed"} /\ Go(t, "end")
       \/ PhaseOf(t) = "Connect" /\ Go(t, "noconn")
    /\ UNCHANGED <<pool, registry, session, cancelled, permits, outcome, events, queue>>

\* Cancelled in the queue, turned away by a closed pool (silently: the
\* registry has been dealt with), or a failed connect.
CheckoutFailed(t) ==
    /\ at[t] = "checkout"
    /\ \/ PhaseOf(t) = "Cancelled" /\ Transition(t, "Cancelled") /\ Go(t, "end")
       \/ PhaseOf(t) = "Closed" /\ Go(t, "end") /\ UNCHANGED registry
       \/ PhaseOf(t) = "Connect" /\ Go(t, "noconn") /\ UNCHANGED registry
    /\ UNCHANGED <<pool, session, cancelled, permits, outcome, events, queue>>

\* No connection: Pending -> Running -> Failed, two critical sections.
NoConnection(t) ==
    /\ unsent[t] = None
    /\ \/ at[t] = "noconn" /\ Transition(t, "Running") /\ Go(t, "failed")
       \/ at[t] = "failed" /\ Transition(t, "Failed") /\ Go(t, "end")
    /\ UNCHANGED <<pool, session, cancelled, permits, outcome, events, queue>>

-----------------------------------------------------------------------------
(* The worker with a connection.                                           *)

\* One branch of the select: a permit.
AcquirePermit(t) ==
    /\ at[t] = "checkout" /\ PhaseOf(t) = "holding"
    /\ Cardinality(permits) < Permits
    /\ permits' = permits \cup {t}
    /\ Go(t, "recheck")
    /\ UNCHANGED <<pool, registry, session, cancelled, outcome, events, queue>>

\* The other branch, and the second look after the permit: the connection goes
\* back and the task ends Cancelled.
AbortCancelled(t) ==
    /\ \/ at[t] = "checkout" /\ PhaseOf(t) = "holding"
       \/ at[t] = "recheck"
    /\ t \in cancelled
    /\ outcome' = [outcome EXCEPT ![t] = "Cancelled"]
    /\ Go(t, "release")
    /\ UNCHANGED <<pool, registry, session, cancelled, permits, events, queue>>

Recheck(t) ==
    /\ at[t] = "recheck" /\ t \notin cancelled
    /\ Go(t, "starting")
    /\ UNCHANGED <<pool, registry, session, cancelled, permits, outcome, events, queue>>

\* Whether or not the task may still run, the transfer is entered.
Start(t) ==
    /\ at[t] = "starting"
    /\ Transition(t, "Running")
    /\ Go(t, "begin")
    /\ UNCHANGED <<pool, session, cancelled, permits, outcome, events, queue>>

\* run_transfer_blocking looks at the token before it touches any file.
Begin(t) ==
    /\ at[t] = "begin" /\ unsent[t] = None
    /\ IF t \in cancelled
       THEN Go(t, "release") /\ outcome' = [outcome EXCEPT ![t] = "Cancelled"]
       ELSE Go(t, "moving") /\ UNCHANGED outcome
    /\ UNCHANGED <<pool, registry, session, cancelled, permits, events, queue>>

\* The transfer ends: done, failed, failed with its connection ("Broken"), or
\* stopped at one of its looks at the token.  A token set after the last look
\* no longer stops it.
Move(t) ==
    /\ at[t] = "moving"
    /\ \E o \in {"Done", "Failed", "Broken", "Cancelled"} :
          /\ o = "Cancelled" => t \in cancelled
          /\ outcome' = [outcome EXCEPT ![t] = o]
    /\ Go(t, "release")
    /\ UNCHANGED <<pool, registry, session, cancelled, permits, events, queue>>

\* The connection is dropped and the pool hears nothing of it.
DropConnection(t) ==
    /\ phase' = [phase EXCEPT ![queueSeq[t]] = "returned"]
    /\ UNCHANGED <<slots, idle, stale, nextSeq, waiters, wake, seqOf, closed, reaper>>

ReleaseHealthyOnly(t) ==                                             \* variant
    /\ at[t] = "release"
    /\ IF handle /\ outcome[t] # "Broken" THEN Pool!CheckinHealthy(queueSeq[t]) ELSE DropConnection(t)
    /\ Go(t, "finish")
    /\ UNCHANGED <<registry, session, cancelled, permits, outcome, events, queue>>

\* release_transfer_connection: while the session is registered the connection
\* is checked in, as unhealthy if it broke.
Release(t) ==
    /\ at[t] = "release"
    /\ CASE ~handle -> DropConnection(t)
         [] handle /\ outcome[t] = "Broken" -> Pool!CheckinDrop(queueSeq[t])
         [] handle /\ outcome[t] # "Broken" -> Pool!CheckinHealthy(queueSeq[t])
    /\ Go(t, "finish")
    /\ UNCHANGED <<registry, session, cancelled, permits, outcome, events, queue>>

\* The terminal transition.
Finish(t) ==
    /\ at[t] = "finish"
    /\ Transition(t, IF outcome[t] = "Broken" THEN "Failed" ELSE outcome[t])
    /\ Go(t, "end")
    /\ UNCHANGED <<pool, session, cancelled, permits, outcome, events, queue>>

DropPermitUnlessCancelled(t) ==                                      \* variant
    /\ at[t] = "end" /\ unsent[t] = None /\ t \in permits \ cancelled
    /\ permits' = permits \ {t}
    /\ UNCHANGED <<pool, registry, session, cancelled, at, outcome, events, queue>>

\* The worker is over and its permit dropped.
DropPermit(t) ==
    /\ at[t] = "end" /\ unsent[t] = None /\ t \in permits
    /\ permits' = permits \ {t}
    /\ UNCHANGED <<pool, registry, session, cancelled, at, outcome, events, queue>>

-----------------------------------------------------------------------------
(* Commands of the main thread.                                            *)

CancelTokenOnly(t) ==                                                \* variant
    /\ MainIdle /\ handle
    /\ t \in tokens
    /\ cancelled' = cancelled \cup {t}
    /\ UNCHANGED <<pool, registry, session, at, permits, outcome, events, queue>>

\* cancel_task on a task that has a token: the token, then its place in the
\* queue.  (Without a token it changes nothing.)
Cancel(t) ==
    /\ MainIdle /\ handle
    /\ t \in tokens
    /\ cancelled' = cancelled \cup {t}
    /\ IF queueSeq[t] \in waiters THEN Pool!CancelWaiter(queueSeq[t]) ELSE UNCHANGED pool
    /\ UNCHANGED <<registry, session, at, permits, outcome, events, queue>>

ClearTerminal ==
    /\ MainIdle
    /\ status' = [t \in Tasks |-> IF status[t] \in Terminal THEN "absent" ELSE status[t]]
    /\ UNCHANGED <<pool, session, tokens, unsent, cancelled, at, permits, outcome, events, queue>>

\* cleanup_session, one critical section at a time.  The session goes first.
CloseSession ==
    /\ closing = "no"
    /\ handle' = FALSE
    /\ closing' = "pool"
    /\ UNCHANGED <<pool, registry, doomed, victim, cancelled, at, permits, outcome, events, queue>>

ClosePool ==
    /\ closing = "pool"
    /\ Pool!Close
    /\ closing' = "collect"
    /\ UNCHANGED <<registry, handle, doomed, victim, cancelled, at, permits, outcome, events, queue>>

\* The active tasks that have a token, under both locks.
Collect ==
    /\ closing = "collect"
    /\ doomed' = {t \in tokens : status[t] \in Active}
    /\ closing' = "cancel"
    /\ UNCHANGED <<pool, registry, handle, victim, cancelled, at, permits, outcome, events, queue>>

\* Its loop: the token of the next of them is set,
CancelToken ==
    /\ closing = "cancel" /\ victim = {}
    /\ \E t \in doomed : /\ cancelled' = cancelled \cup {t}
                         /\ doomed' = doomed \ {t}
                         /\ victim' = {t}
    /\ UNCHANGED <<pool, registry, handle, closing, at, permits, outcome, events, queue>>

CancelVictimAnyway ==                                                \* variant
    /\ closing = "cancel"
    /\ \E t \in victim : /\ status' \in Evicted([status EXCEPT ![t] = "Cancelled"])
                         /\ events' = [events EXCEPT ![t] = Append(@, "Cancelled")]
    /\ victim' = {}
    /\ UNCHANGED <<pool, tokens, unsent, handle, closing, doomed, cancelled, at, permits, outcome, queue>>

\* then it is moved to Cancelled and its event emitted, unless its worker ended
\* it first.
CancelVictim ==
    /\ closing = "cancel"
    /\ \E t \in victim :
          IF <<status[t], "Cancelled">> \in Legal
          THEN /\ status' \in Evicted([status EXCEPT ![t] = "Cancelled"])
               /\ events' = [events EXCEPT ![t] = Append(@, "Cancelled")]
          ELSE UNCHANGED <<status, events>>
    /\ victim' = {}
    /\ UNCHANGED <<pool, tokens, unsent, handle, closing, doomed, cancelled, at, permits, outcome, queue>>

\* The session's records go, whatever their status.
Purge ==
    /\ closing = "cancel" /\ doomed = {} /\ victim = {}
    /\ status' = [t \in Tasks |-> "absent"]
    /\ closing' = "done"
    /\ UNCHANGED <<pool, tokens, unsent, handle, doomed, victim, cancelled, at, permits, outcome, events, queue>>

Cleanup == ClosePool \/ Collect \/ CancelToken \/ CancelVictim \/ Purge

-----------------------------------------------------------------------------
Enqueuer(t) ==
    DownloadCheck(t) \/ DownloadSize(t) \/ DownloadInsert(t) \/ DownloadRegister(t)

\* A worker at anything but the transfer itself, which takes as long as it may.
WorkerStep(t) ==
    \/ LookUp(t) \/ PoolStep(t) \/ CheckoutFailed(t) \/ NoConnection(t)
    \/ AcquirePermit(t) \/ AbortCancelled(t) \/ Recheck(t) \/ Start(t)
    \/ Begin(t) \/ Release(t) \/ Finish(t) \/ DropPermit(t) \/ Emit(t)

Worker(t) == WorkerStep(t) \/ Move(t)

\* A transfer of another session gives its permit back.  The semaphore is fair:
\* one that asks later than the workers here does not come before them.
OtherTransferEnds(x) ==
    /\ x \in permits
    /\ permits' = permits \ {x}
    /\ UNCHANGED <<pool, registry, session, cancelled, at, outcome, events, queue>>

PoolBackground == (Pool!Reaper \/ \E c \in idle : Pool!IdleTimeout(c)) /\ UNCHANGED service

Next ==
    \/ \E t \in Tasks : Enqueuer(t) \/ EnqueueUpload(t) \/ Worker(t) \/ Cancel(t)
    \/ \E x \in Others : OtherTransferEnds(x)
    \/ ClearTerminal \/ CloseSession \/ Cleanup
    \/ PoolBackground

Spec == Init /\ [][Next]_vars

\* Threads run, remote calls return or fail, a free permit is handed out, and a
\* command once begun is finished.  No transfer, of this session or of another,
\* is obliged to end, no task to be enqueued, cancelled or cleared, and no
\* session to be closed.
Fairness ==
    /\ \A t \in Tasks : /\ WF_vars(WorkerStep(t))
                        /\ WF_vars(DownloadSize(t) \/ DownloadInsert(t) \/ DownloadRegister(t))
    /\ WF_vars(Cleanup)

FairSpec == Spec /\ Fairness

-----------------------------------------------------------------------------
(* Safety.                                                                 *)

\* The front end hears of the end of a task at most once, whoever brought it
\* about: the worker, a cancellation, or the closing of the session.
OneTerminalEvent ==
    \A t \in Tasks : \A i, j \in DOMAIN events[t] :
        events[t][i] \in Terminal /\ events[t][j] \in Terminal => i = j

\* While the session is open, the front end of a task whose worker is over has
\* been told how it ended, last of all and as the registry has it; whatever it
\* was told before was a legal step on the way.
EventsTellTheEnd ==
    closing = "no" => \A t \in Tasks : at[t] = "end" /\ unsent[t] = None =>
        LET told == events[t]
        IN  /\ told # <<>>
            /\ status[t] = "absent" \/ status[t] = told[Len(told)]
            /\ told[Len(told)] \in Terminal
            /\ Len(told) = 2 => <<told[1], told[2]>> \in Legal

\* No two active uploads of the session have the same remote target.
UploadTargetsDistinct ==
    \A t, u \in Tasks \ downloads :
        t # u /\ target[t] = target[u] => ~(status[t] \in Active /\ status[u] \in Active)

\* While the session is registered every slot of its pool has an owner that
\* will return it, and nobody sleeps in the queue unseen; dropping connections
\* without a checkin is left to sessions whose pool is about to close.
PoolKeptWhole == handle => Pool!Ownership /\ Pool!NoLostWakeup

-----------------------------------------------------------------------------
(* Liveness.                                                               *)

\* No transfer goes on for ever.
TransfersEnd ==
    /\ \A t \in Tasks : []<>(at[t] # "moving")
    /\ \A x \in Others : []<>(x \notin permits)

\* When no transfer goes on for ever, every task that was accepted ends, or is
\* forgotten with its session, and gives back its permit, which is shared by
\* all sessions.
TasksEnd ==
    TransfersEnd =>
        \A t \in Tasks :
            status[t] \in Active \/ t \in permits ~> status[t] \notin Active /\ t \notin permits

\* A task that is cancelled before it moves data ends though every other
\* transfer, of its session and of others, goes on for ever: it waits for
\* neither a connection nor a permit.  Excepted are the tasks that go to sleep
\* in the pool's queue with their token set, for as long as they sleep: the
\* queue does not look at tokens.
CancelNeedsNobody ==
    \A t \in Tasks :
        t \in cancelled /\ at[t] # "moving" ~> at[t] = "end" \/ t \in late
=============================================================================
