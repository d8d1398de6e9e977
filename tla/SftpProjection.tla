----------------------------- MODULE SftpProjection -----------------------------
(***************************************************************************)
(* What the window shows of one session's files and transfers: the store   *)
(* of src/stores/sftp.ts, with as much of SftpService as answers it.       *)
(*                                                                         *)
(* The window asks and is answered, and is told by events; calls are taken *)
(* up, answers arrive and the events of different tasks arrive in any      *)
(* order.  Those of one task arrive as they were emitted, and TransferTasks *)
(* has how they are emitted.  Each handler of the window is one step.      *)
(*                                                                         *)
(* A session is opened once, and asks for its tasks when it is: whatever   *)
(* task the window knows by the time of the answer was created after the   *)
(* asking (createdAt >= startedAt, on one clock that is not set back).     *)
(* Progress, errors and selections change no status and are left out.      *)
(***************************************************************************)
EXTENDS Sequences, Naturals, FiniteSets, Functions

CONSTANTS
    Tasks,
    Uploads,        \* those that upload
    Paths,          \* remote directories
    Root,           \* the one listed first
    TargetOf,       \* uploadTargetDir of each upload
    MaxListings     \* bound of the directories the user asks for

ASSUME ProjectionAssumption ==
    /\ Uploads \subseteq Tasks /\ Root \in Paths
    /\ TargetOf \in [Uploads -> Paths]

VARIABLES
    registry,   \* SftpService.tasks: the status of each task it has
    events,     \* sftp:task_status of each task, on their way
    enqueue,    \* how far sftp_download or sftp_upload of each task is
    snapshot,   \* how far sftp_task_snapshot is, and its answer
    clearing,   \* how far sftp_clear_terminal_tasks is
    closeCall,  \* how far close_session is
    rows,       \* sessionStates: the tasks shown, and their status
    early,      \* pendingTaskEvents
    closed,     \* the session is in closedSessions
    seq,        \* dirRequestSeq
    loading,
    path,       \* currentPath
    listings,   \* sftp_list_dir calls on their way: [seq, path]
    lastTold,   \* history: the last status emitted of each task
    overtaken,  \* history: the tasks shown with a later status, or cleared, before an answer told of them
    late        \* history: what had not been answered when the session was cleared

backend == <<registry, events, lastTold>>
listing == <<seq, loading, path, listings>>
store == <<rows, early, closed, overtaken>>
projectionVars == <<backend, enqueue, snapshot, clearing, closeCall, store, listing, late>>

None == "none"
Active == {"Pending", "Running"}
Terminal == {"Done", "Cancelled"}   \* Failed is as Cancelled here
Nothing == [t \in {} |-> None]

ProjectionTypeOK ==
    /\ registry \in [Tasks -> Active \cup Terminal \cup {None}]
    /\ events \in [Tasks -> Seq(Active \cup Terminal)]
    /\ enqueue \in [Tasks -> {"new", "asked", "made", "refused", "over"}]
    /\ snapshot.at \in {"asked", "answered", "over"}
    /\ clearing \in {"idle", "asked", "answered"}
    /\ closeCall \in {"open", "asked", "answered", "cleared"}
    /\ lastTold \in [Tasks -> Active \cup Terminal \cup {None}]
    /\ \A f \in {rows, early, snapshot.tasks} :
          DOMAIN f \subseteq Tasks /\ \A t \in DOMAIN f : f[t] \in Active \cup Terminal
    /\ closed \in BOOLEAN /\ loading \in BOOLEAN
    /\ seq \in Nat /\ path \in Paths
    /\ listings \subseteq [seq : Nat, path : Paths]
    /\ overtaken \subseteq Tasks

\* openSession: the root is listed, and the tasks are asked for.
ProjectionInit ==
    /\ registry = [t \in Tasks |-> None] /\ events = [t \in Tasks |-> <<>>]
    /\ enqueue = [t \in Tasks |-> "new"] /\ lastTold = [t \in Tasks |-> None]
    /\ snapshot = [at |-> "asked", tasks |-> Nothing]
    /\ clearing = "idle" /\ closeCall = "open"
    /\ rows = Nothing /\ early = Nothing /\ closed = FALSE /\ overtaken = {}
    /\ seq = 1 /\ loading = TRUE /\ path = Root /\ listings = {[seq |-> 1, path |-> Root]}
    /\ late = {}

With(f, t, s) == [u \in DOMAIN f \cup {t} |-> IF u = t THEN s ELSE f[u]]
Emit(t, s) == events' = [events EXCEPT ![t] = Append(@, s)] /\ lastTold' = [lastTold EXCEPT ![t] = s]

-----------------------------------------------------------------------------
(* The service.                                                            *)

\* The task is in the registry before the call is answered; or it is refused.
\* A download that found the session open may be registered after the close.
Enqueue(t) ==
    /\ enqueue[t] = "asked"
    /\ \/ /\ closeCall \in {"open", "asked"} \/ t \notin Uploads
          /\ enqueue' = [enqueue EXCEPT ![t] = "made"]
          /\ registry' = [registry EXCEPT ![t] = "Pending"]
       \/ enqueue' = [enqueue EXCEPT ![t] = "refused"] /\ UNCHANGED registry
    /\ UNCHANGED <<events, lastTold, snapshot, clearing, closeCall, store, listing, late>>

\* transition, of a worker: it never leaves an end.
Transition(t) ==
    /\ \E s \in {"Running"} \cup Terminal :
          /\ registry[t] \in Active \ {s} /\ (s = "Done" => registry[t] = "Running")
          /\ registry' = [registry EXCEPT ![t] = s] /\ Emit(t, s)
    /\ UNCHANGED <<enqueue, snapshot, clearing, closeCall, store, listing, late>>

\* task_snapshot.
TakeSnapshot ==
    /\ snapshot.at = "asked"
    /\ snapshot' = [at |-> "answered", tasks |-> Restrict(registry, {t \in Tasks : registry[t] # None})]
    /\ UNCHANGED <<backend, enqueue, clearing, closeCall, store, listing, late>>

\* clear_terminal_tasks.
ClearTerminal ==
    /\ clearing = "asked" /\ clearing' = "answered"
    /\ registry' = [t \in Tasks |-> IF registry[t] \in Terminal THEN None ELSE registry[t]]
    /\ UNCHANGED <<events, lastTold, enqueue, snapshot, closeCall, store, listing, late>>

\* cleanup_session: what is not over is cancelled, and every record goes.
CleanUpSession ==
    /\ closeCall = "asked" /\ closeCall' = "answered"
    /\ LET cut == {t \in Tasks : registry[t] \in Active}
       IN  /\ events' = [t \in Tasks |-> IF t \in cut THEN Append(events[t], "Cancelled") ELSE events[t]]
           /\ lastTold' = [t \in Tasks |-> IF t \in cut THEN "Cancelled" ELSE lastTold[t]]
    /\ registry' = [t \in Tasks |-> None]
    /\ UNCHANGED <<enqueue, snapshot, clearing, store, listing, late>>

-----------------------------------------------------------------------------
(* The user.                                                               *)

Shown == closeCall \in {"open", "asked", "answered"}

Transfer(t) ==
    /\ Shown /\ enqueue[t] = "new" /\ enqueue' = [enqueue EXCEPT ![t] = "asked"]
    /\ UNCHANGED <<backend, snapshot, clearing, closeCall, store, listing, late>>

AskToClear ==
    /\ Shown /\ clearing = "idle" /\ clearing' = "asked"
    /\ UNCHANGED <<backend, enqueue, snapshot, closeCall, store, listing, late>>

AskToClose ==
    /\ closeCall = "open" /\ closeCall' = "asked"
    /\ UNCHANGED <<backend, enqueue, snapshot, clearing, store, listing, late>>

\* listDir, up to its await: the newest request counts.
StartListing(p) ==
    /\ seq' = seq + 1 /\ loading' = TRUE
    /\ listings' = listings \cup {[seq |-> seq + 1, path |-> p]}
    /\ UNCHANGED path

ListDir(p) ==
    /\ Shown /\ seq < MaxListings
    /\ StartListing(p)
    /\ UNCHANGED <<backend, enqueue, snapshot, clearing, closeCall, store, late>>

-----------------------------------------------------------------------------
(* The window's handlers.                                                  *)

\* Only the newest request may end the loading, or show anything.
IsNewest(r) == r.seq = seq

\* listDir, from its await on.  An error leaves the directory shown.
ListingAnswered(r) ==
    /\ r \in listings /\ listings' = listings \ {r}
    /\ IF IsNewest(r) THEN loading' = FALSE /\ path' \in {r.path, path} ELSE UNCHANGED <<loading, path>>
    /\ UNCHANGED <<backend, enqueue, snapshot, clearing, closeCall, store, seq, late>>

\* A status is applied to a row.  When an upload is done, and its directory is
\* shown, that is listed anew.
Refreshes(t, s) == s = "Done" /\ t \in Uploads /\ path = TargetOf[t]

\* applyTaskStatus: of a closed session nothing is wanted, and the event of an
\* unknown task is kept, the latest of them.
Apply(t, s) ==
    IF closed THEN UNCHANGED <<rows, early, listing>>
    ELSE IF t \notin DOMAIN rows
    THEN early' = With(early, t, s) /\ UNCHANGED <<rows, listing>>
    ELSE /\ rows' = With(rows, t, s) /\ UNCHANGED early
         /\ IF Refreshes(t, s) THEN StartListing(path) ELSE UNCHANGED listing

Overtake ==
    overtaken' = overtaken \cup {t \in DOMAIN rows' : enqueue[t] = "made" /\ rows'[t] # "Pending"}

StatusEvent(t) ==
    /\ events[t] # <<>> /\ events' = [events EXCEPT ![t] = Tail(@)]
    /\ Apply(t, Head(events[t])) /\ Overtake
    /\ UNCHANGED <<registry, lastTold, enqueue, snapshot, clearing, closeCall, closed, late>>

\* The row of a task is put where its answer has it, and then what had come
\* early is applied: but for a closed session, where that is only dropped.
PutRow(t) ==
    LET kept == t \in DOMAIN early /\ ~closed
    IN  /\ rows' = With(rows, t, IF kept THEN early[t] ELSE "Pending")
        /\ early' = Restrict(early, DOMAIN early \ {t})
        /\ IF kept /\ Refreshes(t, early[t]) THEN StartListing(path) ELSE UNCHANGED listing

\* download and upload, from their await on.
EnqueueAnswered(t) ==
    /\ enqueue[t] \in {"made", "refused"} /\ enqueue' = [enqueue EXCEPT ![t] = "over"]
    /\ \/ enqueue[t] = "made" /\ PutRow(t)
       \/ enqueue[t] = "refused" /\ UNCHANGED <<rows, early, listing>>
    /\ UNCHANGED <<backend, snapshot, clearing, closeCall, closed, overtaken, late>>

MergedSnapshotWins ==                                                \* variant
    [t \in DOMAIN rows \cup DOMAIN snapshot.tasks |->
        IF t \in DOMAIN snapshot.tasks THEN snapshot.tasks[t] ELSE rows[t]]

\* The rows there are were created after the asking, and are newer.
Merged ==
    [t \in DOMAIN rows \cup DOMAIN snapshot.tasks |->
        IF t \in DOMAIN rows THEN rows[t] ELSE snapshot.tasks[t]]

\* loadTaskSnapshot, from its await on; then what has come early is applied.
SnapshotAnswered ==
    /\ snapshot.at = "answered" /\ snapshot' = [at |-> "over", tasks |-> Nothing]
    /\ LET now == DOMAIN early \cap DOMAIN Merged
       IN  /\ rows' = [t \in DOMAIN Merged |-> IF t \in now THEN early[t] ELSE Merged[t]]
           /\ early' = Restrict(early, DOMAIN early \ now)
           /\ IF \E t \in now : Refreshes(t, early[t]) THEN StartListing(path) ELSE UNCHANGED listing
    /\ closed' = FALSE /\ Overtake
    /\ UNCHANGED <<backend, enqueue, clearing, closeCall, late>>

\* clearTerminalTasks, from its await on: what is shown as over goes.
ClearAnswered ==
    /\ clearing = "answered" /\ clearing' = "idle"
    /\ LET gone == {t \in DOMAIN rows : rows[t] \in Terminal}
       IN  /\ rows' = Restrict(rows, DOMAIN rows \ gone)
           /\ overtaken' = overtaken \cup (gone \cap DOMAIN snapshot.tasks)
    /\ UNCHANGED <<backend, enqueue, snapshot, closeCall, early, closed, listing, late>>

ClearRowsOnly == rows' = Nothing /\ closed' = TRUE /\ UNCHANGED early        \* variant

\* clearSession.
ClearAll == rows' = Nothing /\ early' = Nothing /\ closed' = TRUE

\* closeSession, from its await on.  The requests of directories start anew.
CloseAnswered ==
    /\ closeCall = "answered" /\ closeCall' = "cleared"
    /\ ClearAll
    /\ seq' = 0 /\ loading' = FALSE /\ path' = Root /\ UNCHANGED listings
    /\ late' = {t \in Tasks : enqueue[t] \in {"asked", "made"}}
               \cup (IF snapshot.at = "over" THEN {} ELSE {"snapshot"})
    /\ UNCHANGED <<backend, enqueue, snapshot, clearing, overtaken>>

-----------------------------------------------------------------------------
ProjectionNext ==
    \/ \E t \in Tasks :
          \/ Enqueue(t) \/ Transition(t) \/ Transfer(t)
          \/ StatusEvent(t) \/ EnqueueAnswered(t)
    \/ TakeSnapshot \/ ClearTerminal \/ CleanUpSession
    \/ AskToClear \/ AskToClose
    \/ \E p \in Paths : ListDir(p)
    \/ \E r \in listings : ListingAnswered(r)
    \/ SnapshotAnswered \/ ClearAnswered \/ CloseAnswered

ProjectionSpec == ProjectionInit /\ [][ProjectionNext]_projectionVars

-----------------------------------------------------------------------------
\* Every call has been answered and every event has arrived.
Rest ==
    /\ \A t \in Tasks : events[t] = <<>> /\ enqueue[t] \in {"new", "over"}
    /\ snapshot.at = "over" /\ clearing = "idle" /\ closeCall = "open" /\ listings = {}

\* Whatever the order in which snapshot, answers, events and listings arrived,
\* in the end the window shows as under way the tasks that are, as over only
\* what was, and keeps no event back.  And it shows that it is loading as long
\* as the newest listing is, whatever older ones do.  The exceptions: a
\* task that the snapshot told of before the answer to its enqueueing came, as
\* an answer after an event sets it back to Pending; and a task shown as over
\* and cleared while a snapshot was coming that still has it.
RestAgrees ==
    /\ Rest => \A t \in Tasks \ overtaken :
          /\ registry[t] \in Active => t \in DOMAIN rows
          /\ t \in DOMAIN rows /\ rows[t] \in Active => registry[t] = rows[t]
          /\ t \in DOMAIN rows /\ rows[t] \in Terminal => lastTold[t] = rows[t]
          /\ t \notin DOMAIN early
    /\ closeCall # "cleared" => (loading <=> \E r \in listings : r.seq = seq)

\* A closed session stays closed: late events are dropped, and neither they nor
\* anything else brings a task of it back, unless a call made before the close
\* had still to be answered.
ClosedStaysClosed ==
    closeCall = "cleared" =>
        /\ "snapshot" \notin late => closed /\ early = Nothing
        /\ late = {} => rows = Nothing
=============================================================================
