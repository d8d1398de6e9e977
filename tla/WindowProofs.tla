----------------------------- MODULE WindowProofs -----------------------------
(***************************************************************************)
(* Proofs about what the window shows: of a session's status               *)
(* (TerminalSession), for any number of commands, and of its files and     *)
(* transfers (SftpProjection), for any number of tasks and directories and *)
(* any number of listings.                                                 *)
(***************************************************************************)
EXTENDS TerminalSession, SftpProjection, SequenceTheorems, TLAPS

-----------------------------------------------------------------------------
(* The inductive invariant.  StatusAgrees is inductive by itself.  That     *)
(* the window may be believed needs two more facts: the last event on its   *)
(* way tells the backend's status, and a window that shows Connected with   *)
(* nothing on its way shows that status.  (Of another status this is not    *)
(* so: an event that came before the answer of open_session is lost.)       *)

LastTold == announced # <<>> => announced[Len(announced)] = status

WindowFollows == window = "Connected" /\ announced = <<>> => status = "Connected"

IInv == TypeOK /\ StatusAgrees /\ LastTold /\ WindowFollows

-----------------------------------------------------------------------------
\* An announcement keeps the types of what is told, and is the last one told.
LEMMA AnnounceTells ==
    ASSUME status \in Statuses, announced \in Seq(Statuses \ {"Connecting"}),
           NEW s \in Statuses \ {"Connecting"}, Announce(s)
    PROVE  /\ status' \in Statuses /\ announced' \in Seq(Statuses \ {"Connecting"})
           /\ LastTold'
           /\ announced' # <<>>
BY DEF Announce, LastTold

\* A step of the terminal thread announces a status or leaves what is told as
\* it is, and leaves the window to the main thread.
LEMMA TerminalTells ==
    ASSUME TypeOK, LoadCredentials \/ Attend \/ DeadlinePasses
    PROVE  /\ \/ UNCHANGED told
              \/ \E s \in Statuses \ {"Connecting"} : Announce(s)
           /\ UNCHANGED main
<1> USE DEF EndWith, Statuses, Failures
<1>1. CASE LoadCredentials
  BY <1>1 DEF LoadCredentials, CredentialFailures
<1>2. CASE ReadPhase \/ NothingYet \/ Drained \/ DeadlinePasses
  BY <1>2 DEF ReadPhase, NothingYet, Drained, DeadlinePasses
<1>3. CASE Receive
  BY <1>3 DEF Receive
<1>4. CASE Judge
  BY <1>4 DEF Judge
<1>5. CASE Loop
  BY <1>5 DEF Loop, EndSilently
<1>6. CASE Read \/ CheckEof
  BY <1>6 DEF Read, CheckEof
<1>7. CASE Obey
  BY <1>7 DEF Obey
<1> QED BY <1>1, <1>2, <1>3, <1>4, <1>5, <1>6, <1>7 DEF Attend

\* Every step keeps the types of what is told: only the terminal thread adds to
\* it, and only the window takes from it.
LEMMA ToldStep ==
    ASSUME TypeOK, [Next]_vars
    PROVE  status' \in Statuses /\ announced' \in Seq(Statuses \ {"Connecting"})
<1>1. CASE LoadCredentials \/ Attend \/ DeadlinePasses
  BY <1>1, TerminalTells, AnnounceTells DEF TypeOK, told
<1>2. CASE ApplySessionStatus
  BY <1>2 DEF ApplySessionStatus, TypeOK
<1>3. CASE UNCHANGED told
  BY <1>3 DEF TypeOK, told
<1>4. Vouch \/ Advance \/ Fail \/ Succeed \/ Panic => UNCHANGED told
  BY DEF Vouch, Advance, Fail, Succeed, Panic, Send
<1>5. ASSUME NEW c \in {"write", "resize"}, SendCommand(c) PROVE UNCHANGED told
  BY <1>5 DEF SendCommand
<1>6. CloseSession \/ Closing \/ Opened \/ Closed \/ UNCHANGED vars => UNCHANGED told
  BY DEF CloseSession, Closing, CancelIdentity, SetShutdown, SendClose, Opened, Closed, vars
<1> QED BY <1>1, <1>2, <1>3, <1>4, <1>5, <1>6 DEF Next

\* The types of the rest.
TypeRest ==
    /\ window \in Statuses \cup {"unknown", "gone"}
    /\ at \in {"credentials", "over"} \cup Polling \cup Looping
    /\ seen \in Phases /\ phase \in Phases
    /\ waited \in BOOLEAN /\ expired \in BOOLEAN
    /\ connect \in {"off", "running", "vouched", "over"}
    /\ result \in Failures \cup {"none", "transport", "lost"}
    /\ commands \in Seq({"write", "resize", "close"})
    /\ unsent \in 0 .. MaxCommands
    /\ closing \in {"no", "removed", "cancelled", "flagged", "done"}

\* Every step keeps the types.
LEMMA TypeStep == ASSUME TypeOK, [Next]_vars PROVE TypeOK'
<1>a. <<>> \in Seq({"write", "resize", "close"})
  OBVIOUS
<1> SUFFICES ASSUME TypeRest PROVE TypeRest'
  BY ToldStep DEF TypeOK, TypeRest
<1> USE DEF TypeRest, Polling, Looping, Go, EndWith, End, Stay, clock, terminal, connector, main
<1>1. CASE LoadCredentials
  BY <1>1, <1>a DEF LoadCredentials, CredentialFailures
<1>2. CASE ReadPhase
  BY <1>2 DEF ReadPhase
<1>3. CASE Receive
  BY <1>3, <1>a DEF Receive
<1>4. CASE NothingYet
  BY <1>4 DEF NothingYet
<1>5. CASE Judge
  BY <1>5, <1>a DEF Judge
<1>6. CASE Loop
  BY <1>6, <1>a DEF Loop, EndSilently
<1>7. CASE Read
  BY <1>7, <1>a DEF Read
<1>8. CASE Obey
  <2>1. Tail(commands) \in Seq({"write", "resize", "close"})
    BY <1>8, HeadTailProperties DEF Obey
  <2>2. commands' = <<>> \/ commands' = Tail(commands)
    BY <1>8 DEF Obey
  <2>3. commands' \in Seq({"write", "resize", "close"})
    BY <1>a, <2>1, <2>2
  <2> QED BY <1>8, <2>3 DEF Obey
<1>9. CASE Drained
  BY <1>9 DEF Drained
<1>10. CASE CheckEof
  BY <1>10, <1>a DEF CheckEof
<1>11. CASE DeadlinePasses
  BY <1>11 DEF DeadlinePasses
<1>12. CASE Vouch
  BY <1>12 DEF Vouch
<1>13. CASE Advance
  BY <1>13 DEF Advance, NextPhase, Phases
<1>14. ASSUME NEW r \in Failures \cup {"transport", "lost"}, Send(r) PROVE TypeRest'
  BY <1>14 DEF Send
<1>15. ASSUME NEW c \in {"write", "resize"}, SendCommand(c) PROVE TypeRest'
  BY <1>15, MaxCommandsAssumption DEF SendCommand, Deliver
<1>16. CASE CloseSession \/ Closing
  BY <1>16 DEF CloseSession, Closing, CancelIdentity, SetShutdown, SendClose, Deliver
<1>17. CASE Opened \/ Closed
  BY <1>17 DEF Opened, Closed, Statuses
<1>18. CASE ApplySessionStatus
  BY <1>18 DEF ApplySessionStatus, TypeOK
<1>19. CASE UNCHANGED vars
  BY <1>19 DEF vars
<1>20. Fail => \E r \in Failures : Send(r)
  BY DEF Fail, StatusOf, Failures
<1> QED BY <1>1, <1>2, <1>3, <1>4, <1>5, <1>6, <1>7, <1>8, <1>9, <1>10, <1>11, <1>12,
      <1>13, <1>14, <1>15, <1>16, <1>17, <1>18, <1>19, <1>20 DEF Next, Attend, Succeed, Panic

\* Every step keeps the backend's status and the terminal thread in agreement.
LEMMA AgreementStep == ASSUME TypeOK, StatusAgrees, [Next]_vars PROVE StatusAgrees'
<1> USE DEF TypeOK, StatusAgrees, Statuses, Failures, Polling, Looping, Shutdown, Go,
            Announce, EndWith, End, told, clock, terminal, connector, main
<1>1. CASE LoadCredentials
  BY <1>1 DEF LoadCredentials, CredentialFailures
<1>2. CASE ReadPhase \/ NothingYet \/ Drained \/ DeadlinePasses
  BY <1>2 DEF ReadPhase, NothingYet, Drained, DeadlinePasses
<1>3. CASE Receive
  BY <1>3 DEF Receive
<1>4. CASE Judge
  BY <1>4 DEF Judge
<1>5. CASE Loop
  BY <1>5 DEF Loop, EndSilently
<1>6. CASE Read \/ CheckEof
  BY <1>6 DEF Read, CheckEof
<1>7. CASE Obey
  BY <1>7 DEF Obey
<1>8. CASE Vouch \/ Advance \/ Fail \/ Succeed \/ Panic
  BY <1>8 DEF Vouch, Advance, Fail, Succeed, Panic, Send
<1>9. ASSUME NEW c \in {"write", "resize"}, SendCommand(c) PROVE StatusAgrees'
  BY <1>9 DEF SendCommand
<1>10. CASE CloseSession \/ Closing
  BY <1>10 DEF CloseSession, Closing, CancelIdentity, SetShutdown, SendClose
<1>11. CASE Opened \/ ApplySessionStatus \/ Closed
  BY <1>11 DEF Opened, ApplySessionStatus, Closed
<1>12. CASE UNCHANGED vars
  BY <1>12 DEF vars
<1> QED BY <1>1, <1>2, <1>3, <1>4, <1>5, <1>6, <1>7, <1>8, <1>9, <1>10, <1>11, <1>12
      DEF Next, Attend

\* Every step keeps what the window knows in step with what is told.
LEMMA WindowStep ==
    ASSUME TypeOK, LastTold, WindowFollows, [Next]_vars
    PROVE  (LastTold /\ WindowFollows)'
<1>1. CASE LoadCredentials \/ Attend \/ DeadlinePasses
  <2>1. CASE UNCHANGED told
    BY <1>1, <2>1, TerminalTells DEF LastTold, WindowFollows, told, main
  <2>2. ASSUME NEW s \in Statuses \ {"Connecting"}, Announce(s) PROVE (LastTold /\ WindowFollows)'
    BY <2>2, AnnounceTells DEF TypeOK, WindowFollows
  <2> QED BY <1>1, <2>1, <2>2, TerminalTells
<1>2. CASE ApplySessionStatus
  <2>1. LastTold'
    BY <1>2 DEF ApplySessionStatus, LastTold, TypeOK
  <2>2. CASE announced' = <<>>
    <3>1. Tail(announced) = <<>> /\ Len(<<>>) = 0
      BY <1>2, <2>2, EmptySeq DEF ApplySessionStatus
    <3>a. announced \in Seq(Statuses \ {"Connecting"}) /\ announced # <<>>
      BY <1>2 DEF ApplySessionStatus, TypeOK
    <3>b. Len(Tail(announced)) = Len(announced) - 1 /\ Len(announced) \in Nat
      BY <3>a, HeadTailProperties, LenProperties
    <3>2. announced # <<>> /\ Len(announced) = 1
      BY <3>1, <3>a, <3>b
    <3>3. Head(announced) = status
      BY <3>2 DEF LastTold
    <3>4. status' = status /\ window' = IF window \in Statuses THEN status ELSE window
      BY <1>2, <3>3, Zenon DEF ApplySessionStatus
    <3>5. WindowFollows'
      BY <3>4 DEF WindowFollows, Statuses
    <3> QED BY <2>1, <3>5
  <2>3. CASE announced' # <<>>
    BY <2>1, <2>3 DEF WindowFollows
  <2> QED BY <2>2, <2>3
<1>3. CASE Vouch \/ Advance \/ Fail \/ Succeed \/ Panic
  BY <1>3 DEF Vouch, Advance, Fail, Succeed, Panic, Send, LastTold, WindowFollows, told, main
<1>4. ASSUME NEW c \in {"write", "resize"}, SendCommand(c) PROVE (LastTold /\ WindowFollows)'
  BY <1>4 DEF SendCommand, LastTold, WindowFollows, told
<1>5. CASE CloseSession \/ Closing
  BY <1>5 DEF CloseSession, Closing, CancelIdentity, SetShutdown, SendClose, LastTold, WindowFollows, told
<1>6. CASE Opened \/ Closed
  BY <1>6 DEF Opened, Closed, LastTold, WindowFollows, told
<1>7. CASE UNCHANGED vars
  BY <1>7 DEF vars, LastTold, WindowFollows, told, main
<1> QED BY <1>1, <1>2, <1>3, <1>4, <1>5, <1>6, <1>7 DEF Next

-----------------------------------------------------------------------------

\* The three facts of the inductive invariant, for the behaviours of Spec.
THEOREM Inductive == Spec => []IInv
<1>a. <<>> \in Seq({"write", "resize", "close"}) /\ <<>> \in Seq(Statuses \ {"Connecting"})
  OBVIOUS
<1>b. Init => TypeOK
  <2> SUFFICES ASSUME Init PROVE TypeOK
    OBVIOUS
  <2>1. announced \in Seq(Statuses \ {"Connecting"}) /\ commands \in Seq({"write", "resize", "close"})
    BY <1>a, Zenon DEF Init
  <2>2. unsent \in 0 .. MaxCommands
    BY MaxCommandsAssumption DEF Init
  <2>3. /\ status \in Statuses
        /\ window \in Statuses \cup {"unknown", "gone"}
        /\ at \in {"credentials", "over"} \cup Polling \cup Looping
        /\ seen \in Phases /\ phase \in Phases
        /\ result \in Failures \cup {"none", "transport", "lost"}
    BY DEF Init, Statuses, Failures, Phases
  <2>4. /\ waited \in BOOLEAN /\ expired \in BOOLEAN
        /\ connect \in {"off", "running", "vouched", "over"}
        /\ closing \in {"no", "removed", "cancelled", "flagged", "done"}
    BY DEF Init
  <2> QED BY <2>1, <2>2, <2>3, <2>4 DEF TypeOK
<1>1. Init => IInv
  BY <1>b DEF Init, IInv, StatusAgrees, LastTold, WindowFollows, Polling, Looping
<1>2. IInv /\ [Next]_vars => IInv'
  BY TypeStep, AgreementStep, WindowStep DEF IInv
<1> QED BY <1>1, <1>2, PTL DEF Spec

\* The types of TerminalSession, for any number of commands.
THEOREM TypeCorrect == Spec => []TypeOK
BY Inductive, PTL DEF IInv

\* What the backend says of a session (runtime_status, list_sessions) is what
\* has become of its terminal thread.
THEOREM StatusAgreesHolds == Spec => []StatusAgrees
BY Inductive, PTL DEF IInv

\* A window that lets the user type, and has nothing on its way that tells it
\* otherwise, has a terminal thread in its loop behind it.
THEOREM TypingIsHeardHolds == Spec => []TypingIsHeard
<1>1. IInv => TypingIsHeard
  BY DEF IInv, StatusAgrees, WindowFollows, TypingIsHeard, Shutdown
<1> QED BY Inductive, <1>1, PTL

-----------------------------------------------------------------------------
(* SftpProjection.  The inductive invariant of RestAgrees is about a       *)
(* session that is open.  Of each task it says what is known (KnownOf),    *)
(* what its events on their way tell (OrderedOf), and, but for the         *)
(* exceptions in overtaken, that its row, its event kept back and its      *)
(* entry in a coming snapshot are current as soon as nothing of the task   *)
(* is on its way (FollowsOf).                                              *)

\* The status the backend would give of a task it has made, had it not been
\* cleared.
Current(t) == IF lastTold[t] = None THEN "Pending" ELSE lastTold[t]
Made(t) == registry[t] # None \/ lastTold[t] \in Terminal

\* What is shown, kept back or answered is of a task that was made.
KnownOf(t) ==
    /\ registry[t] # None => registry[t] = Current(t)
    /\ lastTold[t] # None => Made(t) /\ lastTold[t] # "Pending"
    /\ enqueue[t] = "made" => Made(t)
    /\ t \in DOMAIN rows \cup DOMAIN snapshot.tasks => Made(t)
    /\ enqueue[t] \in {"new", "asked", "refused"} => ~Made(t) /\ t \notin DOMAIN early

\* Of the events on their way the last tells the newest status, and no other
\* an end.
OrderedOf(t) ==
    events[t] # <<>> =>
        /\ events[t][Len(events[t])] = lastTold[t]
        /\ \A i \in 1 .. Len(events[t]) - 1 : events[t][i] \notin Terminal
        /\ \A i \in 1 .. Len(events[t]) : events[t][i] # "Pending"

\* When nothing of a task is on its way, what the window has of it is current:
\* in its row, or kept back until the answer; and what a coming snapshot has of
\* a task the window does not show is current too.
FollowsOf(t) ==
    /\ t \in DOMAIN rows =>
          /\ rows[t] \in Terminal => rows[t] = lastTold[t] /\ events[t] = <<>>
          /\ events[t] = <<>> => rows[t] = Current(t)
          /\ enqueue[t] = "made" => rows[t] = "Pending"
    /\ t \in DOMAIN early =>
          /\ enqueue[t] = "made" /\ t \notin DOMAIN rows /\ lastTold[t] # None
          /\ early[t] \in Terminal => early[t] = lastTold[t] /\ events[t] = <<>>
          /\ events[t] = <<>> => early[t] = lastTold[t]
    /\ enqueue[t] = "made" /\ events[t] = <<>> /\ lastTold[t] # None => t \in DOMAIN early
    /\ enqueue[t] = "over" /\ Made(t) =>
          t \in DOMAIN rows \/ (lastTold[t] \in Terminal /\ events[t] = <<>>)
    /\ t \in DOMAIN snapshot.tasks /\ t \notin DOMAIN rows \cup DOMAIN early /\ events[t] = <<>>
          => snapshot.tasks[t] = Current(t)

TaskOf(t) == KnownOf(t) /\ OrderedOf(t) /\ (t \notin overtaken => FollowsOf(t))

InStep == closeCall = "open" => \A t \in Tasks : TaskOf(t)

\* Until the session is cleared, each listing has a number of its own.
Listed ==
    closeCall # "cleared" =>
        /\ ~closed
        /\ \A r \in listings : r.seq <= seq
        /\ \A r, q \in listings : r.seq = q.seq => r = q
        /\ loading <=> \E r \in listings : r.seq = seq

\* What is not answered when the session is cleared is on record as late.
Answers ==
    closeCall = "cleared" =>
        /\ \A t \in Tasks : enqueue[t] \in {"asked", "made"} => t \in late
        /\ snapshot.at # "over" => "snapshot" \in late

Asking == snapshot.at # "answered" => snapshot.tasks = Nothing

ProjectionInv ==
    ProjectionTypeOK /\ Asking /\ Listed /\ Answers /\ ClosedStaysClosed /\ InStep

-----------------------------------------------------------------------------
(* Types.                                                                  *)

Rowed(f) == DOMAIN f \subseteq Tasks /\ \A t \in DOMAIN f : f[t] \in Active \cup Terminal

\* The service's half of the types, the window's rows, and its listings.
ServiceTypes ==
    /\ registry \in [Tasks -> Active \cup Terminal \cup {None}]
    /\ events \in [Tasks -> Seq(Active \cup Terminal)]
    /\ enqueue \in [Tasks -> {"new", "asked", "made", "refused", "over"}]
    /\ snapshot.at \in {"asked", "answered", "over"}
    /\ clearing \in {"idle", "asked", "answered"}
    /\ closeCall \in {"open", "asked", "answered", "cleared"}
    /\ lastTold \in [Tasks -> Active \cup Terminal \cup {None}]

RowTypes ==
    /\ Rowed(rows) /\ Rowed(early) /\ Rowed(snapshot.tasks)
    /\ closed \in BOOLEAN /\ overtaken \subseteq Tasks

ListingTypes ==
    /\ loading \in BOOLEAN /\ seq \in Nat /\ path \in Paths
    /\ listings \subseteq [seq : Nat, path : Paths]

\* The types are those of the service, the rows and the listings.
LEMMA TypesSplit == ProjectionTypeOK <=> ServiceTypes /\ RowTypes /\ ListingTypes
BY DEF ProjectionTypeOK, ServiceTypes, RowTypes, ListingTypes, Rowed

LEMMA TypesJoin == ServiceTypes' /\ RowTypes' /\ ListingTypes' => ProjectionTypeOK'
BY DEF ProjectionTypeOK, ServiceTypes, RowTypes, ListingTypes, Rowed

\* A new listing keeps the types of the listings.
LEMMA ListingTypesKept ==
    ASSUME ListingTypes, UNCHANGED listing \/ \E p \in Paths : StartListing(p)
    PROVE  ListingTypes'
<1>1. CASE UNCHANGED listing
  BY <1>1 DEF ListingTypes, listing
<1>2. ASSUME NEW p \in Paths, StartListing(p) PROVE ListingTypes'
  <2>1. [seq |-> seq + 1, path |-> p] \in [seq : Nat, path : Paths]
    BY DEF ListingTypes
  <2> QED BY <1>2, <2>1 DEF ListingTypes, StartListing
<1> QED BY <1>1, <1>2

\* A row put into a table leaves the others as they are.
LEMMA WithRow ==
    ASSUME NEW f, Rowed(f), NEW t \in Tasks, NEW s \in Active \cup Terminal
    PROVE  /\ Rowed(With(f, t, s))
           /\ DOMAIN With(f, t, s) = DOMAIN f \cup {t}
           /\ With(f, t, s)[t] = s
           /\ \A u \in DOMAIN f \ {t} : With(f, t, s)[u] = f[u]
BY DEF Rowed, With

\* What is taken out of a table leaves the others as they are.
LEMMA RestrictRow ==
    ASSUME NEW f, Rowed(f), NEW S, S \subseteq DOMAIN f
    PROVE  /\ Rowed(Restrict(f, S)) /\ DOMAIN Restrict(f, S) = S
           /\ \A u \in S : Restrict(f, S)[u] = f[u]
BY DEF Rowed, Restrict

LEMMA NothingRowed == Rowed(Nothing) /\ DOMAIN Nothing = {}
BY DEF Rowed, Nothing

-----------------------------------------------------------------------------
(* What each handler of the window does to its tables.                     *)

\* An event is dropped, kept back, or shown.
LEMMA ApplyEffect ==
    ASSUME NEW t, NEW s, Apply(t, s), path \in Paths
    PROVE  /\ UNCHANGED listing \/ \E p \in Paths : StartListing(p)
           /\ \/ closed /\ UNCHANGED <<rows, early, listing>>
              \/ ~closed /\ t \notin DOMAIN rows /\ early' = With(early, t, s) /\ rows' = rows
              \/ ~closed /\ t \in DOMAIN rows /\ rows' = With(rows, t, s) /\ early' = early
BY DEF Apply

\* The row of an answer is Pending, or what had come early of it.
LEMMA PutRowEffect ==
    ASSUME NEW t \in Tasks, PutRow(t), RowTypes, path \in Paths
    PROVE  /\ UNCHANGED listing \/ \E p \in Paths : StartListing(p)
           /\ closed => UNCHANGED listing
           /\ rows' = With(rows, t, IF t \in DOMAIN early /\ ~closed THEN early[t] ELSE "Pending")
           /\ Rowed(rows') /\ Rowed(early')
           /\ DOMAIN early' = DOMAIN early \ {t}
           /\ \A u \in DOMAIN early' : early'[u] = early[u]
<1> DEFINE s == IF t \in DOMAIN early /\ ~closed THEN early[t] ELSE "Pending"
<1>1. s \in Active \cup Terminal
  BY DEF RowTypes, Rowed, Active
<1>2. rows' = With(rows, t, s) /\ early' = Restrict(early, DOMAIN early \ {t})
  BY DEF PutRow
<1>3. Rowed(rows')
  BY <1>1, <1>2, WithRow DEF RowTypes
<1>4. /\ Rowed(early') /\ DOMAIN early' = DOMAIN early \ {t}
      /\ \A u \in DOMAIN early' : early'[u] = early[u]
  BY <1>2, RestrictRow DEF RowTypes
<1>5. /\ UNCHANGED listing \/ \E p \in Paths : StartListing(p)
      /\ closed => UNCHANGED listing
  BY DEF PutRow
<1> QED BY <1>2, <1>3, <1>4, <1>5

\* The rows of the answer that were not shown are added, and what had come
\* early of any row is applied.
LEMMA SnapshotAnsweredEffect ==
    ASSUME SnapshotAnswered, RowTypes, path \in Paths
    PROVE  /\ UNCHANGED listing \/ \E p \in Paths : StartListing(p)
           /\ Rowed(rows') /\ Rowed(early')
           /\ DOMAIN rows' = DOMAIN rows \cup DOMAIN snapshot.tasks
           /\ \A u \in DOMAIN rows' :
                 rows'[u] = IF u \in DOMAIN early THEN early[u]
                            ELSE IF u \in DOMAIN rows THEN rows[u] ELSE snapshot.tasks[u]
           /\ DOMAIN early' = DOMAIN early \ DOMAIN rows'
           /\ \A u \in DOMAIN early' : early'[u] = early[u]
<1> DEFINE now == DOMAIN early \cap DOMAIN Merged
<1>1. /\ rows' = [t \in DOMAIN Merged |-> IF t \in now THEN early[t] ELSE Merged[t]]
      /\ early' = Restrict(early, DOMAIN early \ now)
      /\ UNCHANGED listing \/ \E p \in Paths : StartListing(p)
  BY DEF SnapshotAnswered
<1>2. /\ DOMAIN Merged = DOMAIN rows \cup DOMAIN snapshot.tasks
      /\ \A u \in DOMAIN Merged :
            Merged[u] = IF u \in DOMAIN rows THEN rows[u] ELSE snapshot.tasks[u]
  BY DEF Merged
<1>3. /\ DOMAIN rows' = DOMAIN rows \cup DOMAIN snapshot.tasks
      /\ \A u \in DOMAIN rows' :
            rows'[u] = IF u \in DOMAIN early THEN early[u]
                       ELSE IF u \in DOMAIN rows THEN rows[u] ELSE snapshot.tasks[u]
  BY <1>1, <1>2
<1>4. Rowed(rows')
  BY <1>3 DEF RowTypes, Rowed
<1>5. /\ Rowed(early') /\ DOMAIN early' = DOMAIN early \ now
      /\ \A u \in DOMAIN early' : early'[u] = early[u]
  <2> DOMAIN early \ now \subseteq DOMAIN early
    OBVIOUS
  <2> HIDE DEF now
  <2> QED BY <1>1, RestrictRow DEF RowTypes
<1>6. DOMAIN early' = DOMAIN early \ DOMAIN rows'
  BY <1>2, <1>3, <1>5
<1> QED BY <1>1, <1>3, <1>4, <1>5, <1>6

\* Clearing takes the rows that are over.
LEMMA ClearAnsweredEffect ==
    ASSUME ClearAnswered, RowTypes
    PROVE  /\ Rowed(rows')
           /\ DOMAIN rows' = {t \in DOMAIN rows : rows[t] \notin Terminal}
           /\ \A u \in DOMAIN rows' : rows'[u] = rows[u]
           /\ overtaken' = overtaken \cup {t \in DOMAIN rows :
                                              rows[t] \in Terminal /\ t \in DOMAIN snapshot.tasks}
<1> DEFINE gone == {t \in DOMAIN rows : rows[t] \in Terminal}
<1>1. /\ rows' = Restrict(rows, DOMAIN rows \ gone)
      /\ overtaken' = overtaken \cup (gone \cap DOMAIN snapshot.tasks)
  BY DEF ClearAnswered
<1>2. DOMAIN rows \ gone \subseteq DOMAIN rows
  OBVIOUS
<1>3. /\ Rowed(rows') /\ DOMAIN rows' = DOMAIN rows \ gone
      /\ \A u \in DOMAIN rows' : rows'[u] = rows[u]
  <2> HIDE DEF gone
  <2> QED BY <1>1, <1>2, RestrictRow DEF RowTypes
<1> QED BY <1>1, <1>3

\* The step of one task's calls, events and changes of status.
TaskStep(t) == Enqueue(t) \/ Transition(t) \/ Transfer(t) \/ StatusEvent(t) \/ EnqueueAnswered(t)

\* The steps of the session as a whole.
SessionStep ==
    \/ TakeSnapshot \/ ClearTerminal \/ CleanUpSession \/ AskToClear \/ AskToClose
    \/ SnapshotAnswered \/ ClearAnswered \/ CloseAnswered

\* The steps of one task, of the session, and of its listings.
LEMMA NextSplit ==
    ProjectionNext =>
        \/ \E t \in Tasks : TaskStep(t)
        \/ SessionStep
        \/ \E p \in Paths : ListDir(p)
        \/ \E r \in listings : ListingAnswered(r)
BY DEF ProjectionNext, TaskStep, SessionStep
\* The event of a task that has come, and what the window makes of it.
LEMMA EventEffect ==
    ASSUME ServiceTypes, RowTypes, path \in Paths, NEW t \in Tasks, StatusEvent(t)
    PROVE  /\ UNCHANGED listing \/ \E p \in Paths : StartListing(p)
           /\ events[t] # <<>> /\ events' = [events EXCEPT ![t] = Tail(@)]
           /\ Head(events[t]) \in Active \cup Terminal
           /\ Rowed(rows') /\ Rowed(early')
           /\ \/ closed /\ UNCHANGED <<rows, early, listing>>
              \/ /\ ~closed /\ t \notin DOMAIN rows /\ rows' = rows
                 /\ early' = With(early, t, Head(events[t]))
              \/ /\ ~closed /\ t \in DOMAIN rows /\ early' = early
                 /\ rows' = With(rows, t, Head(events[t]))
           /\ overtaken' = overtaken \cup
                 {u \in DOMAIN rows' : enqueue[u] = "made" /\ rows'[u] # "Pending"}
<1>1. events[t] # <<>> /\ events' = [events EXCEPT ![t] = Tail(@)] /\ Apply(t, Head(events[t]))
      /\ Overtake
  BY DEF StatusEvent
<1>2. Head(events[t]) \in Active \cup Terminal
  BY <1>1 DEF ServiceTypes
<1>3. Rowed(rows') /\ Rowed(early')
  <2>1. CASE UNCHANGED <<rows, early>>
    BY <2>1 DEF RowTypes
  <2>2. CASE early' = With(early, t, Head(events[t])) /\ rows' = rows
    BY <2>2, <1>2, WithRow DEF RowTypes
  <2>3. CASE rows' = With(rows, t, Head(events[t])) /\ early' = early
    BY <2>3, <1>2, WithRow DEF RowTypes
  <2> QED BY <1>1, <2>1, <2>2, <2>3, ApplyEffect
<1> QED BY <1>1, <1>2, <1>3, ApplyEffect DEF Overtake

LEMMA TaskTypes ==
    ASSUME ProjectionTypeOK, NEW t \in Tasks, TaskStep(t)
    PROVE  ProjectionTypeOK'
<1> USE TypesSplit, TypesJoin
<1>p. path \in Paths
  BY DEF ListingTypes
<1>1. CASE Enqueue(t)
  <2>1. ServiceTypes'
    BY <1>1 DEF Enqueue, ServiceTypes, Active
  <2>2. RowTypes' /\ ListingTypes'
    BY <1>1 DEF Enqueue, store, listing, RowTypes, ListingTypes, Rowed
  <2> QED BY <2>1, <2>2
<1>2. CASE Transition(t)
  <2>1. PICK s \in {"Running"} \cup Terminal : registry' = [registry EXCEPT ![t] = s] /\ Emit(t, s)
    BY <1>2 DEF Transition
  <2>2. s \in Active \cup Terminal
    BY DEF Active
  <2>3. events' \in [Tasks -> Seq(Active \cup Terminal)]
    BY <2>1, <2>2 DEF Emit, ServiceTypes
  <2>4. ServiceTypes'
    BY <1>2, <2>1, <2>2, <2>3 DEF Transition, Emit, ServiceTypes
  <2>5. RowTypes' /\ ListingTypes'
    BY <1>2 DEF Transition, store, listing, RowTypes, ListingTypes, Rowed
  <2> QED BY <2>4, <2>5
<1>3. CASE Transfer(t)
  <2>1. ServiceTypes'
    BY <1>3 DEF Transfer, backend, ServiceTypes
  <2>2. RowTypes' /\ ListingTypes'
    BY <1>3 DEF Transfer, store, listing, RowTypes, ListingTypes, Rowed
  <2> QED BY <2>1, <2>2
<1>4. CASE StatusEvent(t)
  <2>1. ServiceTypes'
    <3>1. Tail(events[t]) \in Seq(Active \cup Terminal)
      BY <1>4, <1>p, EventEffect DEF ServiceTypes
    <3> QED BY <1>4, <3>1 DEF StatusEvent, ServiceTypes
  <2>2. RowTypes'
    <3>1. Rowed(rows') /\ Rowed(early')
      BY <1>4, <1>p, EventEffect
    <3>2. overtaken' \subseteq Tasks
      BY <1>4, <3>1 DEF StatusEvent, Overtake, RowTypes, Rowed
    <3> QED BY <1>4, <3>1, <3>2 DEF StatusEvent, RowTypes, Rowed
  <2>3. ListingTypes'
    BY <1>4, <1>p, EventEffect, ListingTypesKept
  <2> QED BY <2>1, <2>2, <2>3
<1>5. CASE EnqueueAnswered(t)
  <2>1. ServiceTypes'
    BY <1>5 DEF EnqueueAnswered, backend, ServiceTypes
  <2>2. CASE PutRow(t)
    <3>1. RowTypes'
      BY <1>5, <1>p, <2>2, PutRowEffect DEF EnqueueAnswered, RowTypes, Rowed
    <3>2. ListingTypes'
      BY <1>p, <2>2, PutRowEffect, ListingTypesKept
    <3> QED BY <2>1, <3>1, <3>2
  <2>3. CASE UNCHANGED <<rows, early, listing>>
    BY <1>5, <2>1, <2>3 DEF EnqueueAnswered, RowTypes, ListingTypes, listing, Rowed
  <2> QED BY <1>5, <2>2, <2>3 DEF EnqueueAnswered
<1> QED BY <1>1, <1>2, <1>3, <1>4, <1>5 DEF TaskStep

LEMMA SessionTypes ==
    ASSUME ProjectionTypeOK, SessionStep
    PROVE  ProjectionTypeOK'
<1> USE TypesSplit, TypesJoin
<1>p. path \in Paths
  BY DEF ListingTypes
<1>1. CASE TakeSnapshot
  <2>1. Rowed(snapshot'.tasks)
    BY <1>1 DEF TakeSnapshot, Restrict, Rowed, ServiceTypes
  <2>2. ServiceTypes' /\ ListingTypes'
    BY <1>1 DEF TakeSnapshot, backend, listing, ServiceTypes, ListingTypes
  <2> QED BY <1>1, <2>1, <2>2 DEF TakeSnapshot, store, RowTypes, Rowed
<1>2. CASE ClearTerminal
  BY <1>2 DEF ClearTerminal, store, listing, ServiceTypes, RowTypes, ListingTypes, Rowed
<1>3. CASE CleanUpSession
  <2> DEFINE cut == {t \in Tasks : registry[t] \in Active}
  <2>1. /\ events' = [t \in Tasks |-> IF t \in cut THEN Append(events[t], "Cancelled") ELSE events[t]]
        /\ lastTold' = [t \in Tasks |-> IF t \in cut THEN "Cancelled" ELSE lastTold[t]]
        /\ registry' = [t \in Tasks |-> None] /\ closeCall' = "answered"
        /\ UNCHANGED <<enqueue, snapshot, clearing, store, listing, late>>
    BY <1>3 DEF CleanUpSession
  <2> HIDE DEF cut
  <2>2. \A t \in Tasks : Append(events[t], "Cancelled") \in Seq(Active \cup Terminal)
    <3> TAKE t \in Tasks
    <3>1. events[t] \in Seq(Active \cup Terminal) /\ "Cancelled" \in Active \cup Terminal
      BY DEF ServiceTypes, Terminal
    <3> QED BY <3>1
  <2>3. events' \in [Tasks -> Seq(Active \cup Terminal)]
    BY <2>1, <2>2 DEF ServiceTypes
  <2>4. lastTold' \in [Tasks -> Active \cup Terminal \cup {None}]
    BY <2>1 DEF ServiceTypes, Terminal
  <2>5. ServiceTypes'
    BY <2>1, <2>3, <2>4 DEF ServiceTypes
  <2>6. RowTypes' /\ ListingTypes'
    BY <2>1 DEF store, listing, RowTypes, ListingTypes, Rowed
  <2> QED BY <2>5, <2>6
<1>4. CASE AskToClear \/ AskToClose
  <2>1. ServiceTypes'
    BY <1>4 DEF AskToClear, AskToClose, backend, ServiceTypes
  <2>2. RowTypes' /\ ListingTypes'
    BY <1>4 DEF AskToClear, AskToClose, store, listing, RowTypes, ListingTypes, Rowed
  <2> QED BY <2>1, <2>2
<1>5. CASE SnapshotAnswered
  <2>1. ServiceTypes'
    BY <1>5 DEF SnapshotAnswered, backend, ServiceTypes
  <2>2. Rowed(rows') /\ Rowed(early') /\ ListingTypes'
    BY <1>5, <1>p, SnapshotAnsweredEffect, ListingTypesKept
  <2>3. RowTypes'
    BY <1>5, <2>2, NothingRowed DEF SnapshotAnswered, Overtake, RowTypes, Rowed
  <2> QED BY <2>1, <2>2, <2>3
<1>6. CASE ClearAnswered
  <2>1. ServiceTypes' /\ ListingTypes'
    BY <1>6 DEF ClearAnswered, backend, listing, ServiceTypes, ListingTypes
  <2>2. RowTypes'
    BY <1>6, ClearAnsweredEffect DEF ClearAnswered, RowTypes, Rowed
  <2> QED BY <2>1, <2>2
<1>7. CASE CloseAnswered
  <2>1. ServiceTypes'
    BY <1>7 DEF CloseAnswered, backend, ServiceTypes
  <2>2. RowTypes'
    BY <1>7, NothingRowed DEF CloseAnswered, ClearAll, RowTypes, Rowed
  <2>3. ListingTypes'
    BY <1>7, ProjectionAssumption DEF CloseAnswered, ListingTypes
  <2> QED BY <2>1, <2>2, <2>3
<1> QED BY <1>1, <1>2, <1>3, <1>4, <1>5, <1>6, <1>7 DEF SessionStep

LEMMA ListTypes ==
    ASSUME ProjectionTypeOK,
           (\E p \in Paths : ListDir(p)) \/ (\E r \in listings : ListingAnswered(r))
    PROVE  ProjectionTypeOK'
<1> USE TypesSplit, TypesJoin
<1>1. ASSUME NEW p \in Paths, ListDir(p) PROVE ProjectionTypeOK'
  <2>1. ListingTypes'
    BY <1>1, ListingTypesKept DEF ListDir
  <2>2. ServiceTypes' /\ RowTypes'
    BY <1>1 DEF ListDir, backend, store, ServiceTypes, RowTypes, Rowed
  <2> QED BY <2>1, <2>2
<1>2. ASSUME NEW r \in listings, ListingAnswered(r) PROVE ProjectionTypeOK'
  <2>1. ListingTypes'
    BY <1>2 DEF ListingAnswered, ListingTypes
  <2>2. ServiceTypes' /\ RowTypes'
    BY <1>2 DEF ListingAnswered, backend, store, ServiceTypes, RowTypes, Rowed
  <2> QED BY <2>1, <2>2
<1> QED BY <1>1, <1>2

LEMMA ProjectionTypeStep ==
    ASSUME ProjectionTypeOK, [ProjectionNext]_projectionVars
    PROVE  ProjectionTypeOK'
<1>1. CASE UNCHANGED projectionVars
  BY <1>1 DEF projectionVars, backend, store, listing, ProjectionTypeOK
<1> QED BY <1>1, NextSplit, TaskTypes, SessionTypes, ListTypes
-----------------------------------------------------------------------------
(* The listings of directories, and what the session's close leaves.       *)

\* A cleared session is not shown again, and nobody else clears it.
LEMMA ClearedStays ==
    ASSUME [ProjectionNext]_projectionVars
    PROVE  /\ closeCall = "cleared" => closeCall' = "cleared" /\ late' = late
           /\ closeCall # "cleared" /\ closeCall' = "cleared" => CloseAnswered
<1>1. CASE UNCHANGED projectionVars
  BY <1>1 DEF projectionVars
<1>2. ASSUME NEW t \in Tasks, TaskStep(t) PROVE closeCall' = closeCall /\ late' = late
  BY <1>2 DEF TaskStep, Enqueue, Transition, Transfer, StatusEvent, EnqueueAnswered
<1>3. CASE SessionStep
  BY <1>3 DEF SessionStep, TakeSnapshot, ClearTerminal, CleanUpSession, AskToClear, AskToClose,
              SnapshotAnswered, ClearAnswered, CloseAnswered
<1>4. ASSUME NEW p \in Paths, ListDir(p) PROVE closeCall' = closeCall /\ late' = late
  BY <1>4 DEF ListDir
<1>5. ASSUME NEW r \in listings, ListingAnswered(r) PROVE closeCall' = closeCall /\ late' = late
  BY <1>5 DEF ListingAnswered
<1> QED BY <1>1, <1>2, <1>3, <1>4, <1>5, NextSplit

\* A new listing takes the next number.
LEMMA NewListing ==
    ASSUME ListingTypes, Listed, closeCall # "cleared", ~closed',
           UNCHANGED listing \/ \E p \in Paths : StartListing(p)
    PROVE  Listed'
<1>1. CASE UNCHANGED listing
  BY <1>1 DEF Listed, listing
<1>2. ASSUME NEW p \in Paths, StartListing(p) PROVE Listed'
  <2>1. \A r \in listings : r.seq \in Nat /\ r.seq <= seq
    BY DEF ListingTypes, Listed
  <2>2. \A r \in listings : r.seq <= seq + 1 /\ r.seq # seq + 1
    BY <2>1 DEF ListingTypes
  <2>3. seq' = seq + 1 /\ loading' /\ listings' = listings \cup {[seq |-> seq + 1, path |-> p]}
    BY <1>2 DEF StartListing
  <2>4. \A r \in listings' : r \in listings \/ (r = [seq |-> seq + 1, path |-> p] /\ r.seq = seq + 1)
    BY <2>3
  <2>5. \A r \in listings' : r.seq <= seq + 1
    BY <2>2, <2>4 DEF ListingTypes
  <2>6. \A r, q \in listings' : r.seq = q.seq => r = q
    BY <2>2, <2>4 DEF Listed
  <2>7. \E r \in listings' : r.seq = seq + 1
    <3>1. [seq |-> seq + 1, path |-> p] \in listings' /\ [seq |-> seq + 1, path |-> p].seq = seq + 1
      BY <2>3
    <3> QED BY <3>1
  <2> QED BY <2>3, <2>5, <2>6, <2>7 DEF Listed
<1> QED BY <1>1, <1>2

\* Numbers are given once, and loading ends with the newest.
LEMMA ListedStep ==
    ASSUME ProjectionTypeOK, Listed, [ProjectionNext]_projectionVars
    PROVE  Listed'
<1> SUFFICES ASSUME closeCall' # "cleared" PROVE Listed'
  BY DEF Listed
<1>o. closeCall # "cleared"
  BY ClearedStays
<1>t. ListingTypes /\ ServiceTypes /\ RowTypes /\ path \in Paths
  BY TypesSplit DEF ListingTypes
<1>0. ~closed
  BY <1>o DEF Listed
<1>1. ASSUME UNCHANGED <<listing, closed>> PROVE Listed'
  BY <1>1, <1>0, <1>o, <1>t, NewListing
<1>2. ASSUME NEW t \in Tasks, TaskStep(t) PROVE Listed'
  <2>1. CASE Enqueue(t) \/ Transition(t) \/ Transfer(t)
    BY <1>1, <2>1 DEF Enqueue, Transition, Transfer, store
  <2>2. CASE StatusEvent(t)
    <3>1. ~closed' /\ (UNCHANGED listing \/ \E p \in Paths : StartListing(p))
      BY <1>0, <1>t, <2>2, EventEffect DEF StatusEvent
    <3> QED BY <1>o, <1>t, <3>1, NewListing
  <2>3. CASE EnqueueAnswered(t)
    <3>1. ~closed' /\ (UNCHANGED listing \/ \E p \in Paths : StartListing(p))
      BY <1>0, <1>t, <2>3, PutRowEffect DEF EnqueueAnswered
    <3> QED BY <1>o, <1>t, <3>1, NewListing
  <2> QED BY <1>2, <2>1, <2>2, <2>3 DEF TaskStep
<1>3. CASE SessionStep
  <2>1. CASE TakeSnapshot \/ ClearTerminal \/ CleanUpSession \/ AskToClear \/ AskToClose
    BY <1>1, <2>1 DEF TakeSnapshot, ClearTerminal, CleanUpSession, AskToClear, AskToClose, store
  <2>2. CASE SnapshotAnswered
    <3>1. ~closed' /\ (UNCHANGED listing \/ \E p \in Paths : StartListing(p))
      BY <1>t, <2>2, SnapshotAnsweredEffect DEF SnapshotAnswered
    <3> QED BY <1>o, <1>t, <3>1, NewListing
  <2>3. CASE ClearAnswered
    BY <1>1, <2>3 DEF ClearAnswered
  <2>4. CASE CloseAnswered
    BY <2>4 DEF CloseAnswered
  <2> QED BY <1>3, <2>1, <2>2, <2>3, <2>4 DEF SessionStep
<1>4. ASSUME NEW p \in Paths, ListDir(p) PROVE Listed'
  <2>1. ~closed' /\ StartListing(p)
    BY <1>0, <1>4 DEF ListDir, store
  <2> QED BY <1>o, <1>t, <2>1, NewListing
<1>5. ASSUME NEW r \in listings, ListingAnswered(r) PROVE Listed'
  <2>1. /\ listings' = listings \ {r} /\ seq' = seq /\ ~closed'
        /\ loading' = IF r.seq = seq THEN FALSE ELSE loading
    BY <1>0, <1>5 DEF ListingAnswered, IsNewest, store
  <2>2. CASE r.seq = seq
    <3>1. ~ \E q \in listings' : q.seq = seq
      BY <1>o, <2>1, <2>2 DEF Listed
    <3> QED BY <1>o, <2>1, <2>2, <3>1 DEF Listed
  <2>3. CASE r.seq # seq
    <3>1. (\E q \in listings' : q.seq = seq) <=> \E q \in listings : q.seq = seq
      BY <2>1, <2>3
    <3> QED BY <1>o, <2>1, <2>3, <3>1 DEF Listed
  <2> QED BY <2>2, <2>3
<1>6. CASE UNCHANGED projectionVars
  BY <1>1, <1>6 DEF projectionVars, store
<1> QED BY <1>2, <1>3, <1>4, <1>5, <1>6, NextSplit

\* No call begins in a cleared session, so what is late was before.
LEMMA AnswersStep ==
    ASSUME ProjectionTypeOK, Answers, [ProjectionNext]_projectionVars
    PROVE  Answers'
<1>1. CASE CloseAnswered
  BY <1>1 DEF CloseAnswered, Answers
<1>2. CASE closeCall = "cleared" /\ ~CloseAnswered
  <2> USE ClearedStays
  <2>1. ASSUME NEW t \in Tasks, TaskStep(t) PROVE Answers'
    <3>1. /\ snapshot' = snapshot
          /\ \A u \in Tasks : enqueue'[u] \in {"asked", "made"} => enqueue[u] \in {"asked", "made"}
      BY <1>2, <2>1, TypesSplit DEF TaskStep, Enqueue, Transition, Transfer, StatusEvent,
                             EnqueueAnswered, Shown, ServiceTypes
    <3> QED BY <1>2, <3>1 DEF Answers
  <2>2. CASE SessionStep
    BY <1>2, <2>2 DEF SessionStep, TakeSnapshot, ClearTerminal, CleanUpSession, AskToClear,
                      AskToClose, SnapshotAnswered, ClearAnswered, Answers
  <2>3. ASSUME NEW p \in Paths, ListDir(p) PROVE Answers'
    BY <1>2, <2>3 DEF ListDir, Answers
  <2>4. ASSUME NEW r \in listings, ListingAnswered(r) PROVE Answers'
    BY <1>2, <2>4 DEF ListingAnswered, Answers
  <2>5. CASE UNCHANGED projectionVars
    BY <2>5 DEF projectionVars, Answers
  <2> QED BY <2>1, <2>2, <2>3, <2>4, <2>5, NextSplit
<1>3. CASE closeCall # "cleared" /\ ~CloseAnswered
  BY <1>3, ClearedStays DEF Answers
<1> QED BY <1>1, <1>2, <1>3

\* A snapshot has no tasks before it is answered, and none after.
LEMMA AskingStep ==
    ASSUME Asking, [ProjectionNext]_projectionVars
    PROVE  Asking'
<1>1. ASSUME NEW t \in Tasks, TaskStep(t) PROVE snapshot' = snapshot
  BY <1>1 DEF TaskStep, Enqueue, Transition, Transfer, StatusEvent, EnqueueAnswered
<1>2. CASE SessionStep
  BY <1>2 DEF SessionStep, TakeSnapshot, ClearTerminal, CleanUpSession, AskToClear, AskToClose,
              SnapshotAnswered, ClearAnswered, CloseAnswered, Asking
<1>3. ASSUME NEW p \in Paths, ListDir(p) PROVE snapshot' = snapshot
  BY <1>3 DEF ListDir
<1>4. ASSUME NEW r \in listings, ListingAnswered(r) PROVE snapshot' = snapshot
  BY <1>4 DEF ListingAnswered
<1>5. UNCHANGED projectionVars => snapshot' = snapshot
  BY DEF projectionVars
<1> QED BY <1>1, <1>2, <1>3, <1>4, <1>5, NextSplit DEF Asking

\* Of nothing, nothing is left out.
LEMMA RestrictNothing == ASSUME NEW S, S = {} PROVE Restrict(Nothing, S) = Nothing
BY DEF Restrict, Nothing

\* An event of a closed session is dropped, and an answer puts a row back only
\* when it was late.
LEMMA ClosedStep ==
    ASSUME ProjectionTypeOK, Answers, ClosedStaysClosed, [ProjectionNext]_projectionVars
    PROVE  ClosedStaysClosed'
<1>t. ServiceTypes /\ RowTypes /\ path \in Paths
  BY TypesSplit DEF ListingTypes
<1>1. CASE CloseAnswered
  BY <1>1 DEF CloseAnswered, ClearAll, ClosedStaysClosed
<1>2. CASE closeCall # "cleared" /\ ~CloseAnswered
  BY <1>2, ClearedStays DEF ClosedStaysClosed
<1>3. CASE closeCall = "cleared" /\ ~CloseAnswered
  <2>0. closeCall' = "cleared" /\ late' = late
    BY <1>3, ClearedStays
  <2>1. ASSUME UNCHANGED <<rows, early, closed>> PROVE ClosedStaysClosed'
    BY <1>3, <2>0, <2>1 DEF ClosedStaysClosed
  <2>2. ASSUME NEW t \in Tasks, TaskStep(t) PROVE ClosedStaysClosed'
    <3>1. CASE Enqueue(t) \/ Transition(t) \/ Transfer(t)
      BY <2>1, <3>1 DEF Enqueue, Transition, Transfer, store
    <3>2. CASE StatusEvent(t)
      <4>1. closed' = closed /\ (closed => UNCHANGED <<rows, early>>)
        BY <1>t, <3>2, EventEffect DEF StatusEvent
      <4> QED BY <1>3, <2>0, <4>1 DEF ClosedStaysClosed
    <3>3. CASE EnqueueAnswered(t)
      <4>1. CASE UNCHANGED <<rows, early, listing>>
        BY <2>1, <3>3, <4>1 DEF EnqueueAnswered
      <4>2. CASE enqueue[t] = "made" /\ PutRow(t)
        <5>1. late # {} /\ closed' = closed
          BY <1>3, <3>3, <4>2 DEF EnqueueAnswered, Answers
        <5>2. early = Nothing => early' = Nothing
          BY <4>2, NothingRowed, RestrictNothing DEF PutRow
        <5> QED BY <1>3, <2>0, <5>1, <5>2 DEF ClosedStaysClosed
      <4> QED BY <3>3, <4>1, <4>2 DEF EnqueueAnswered
    <3> QED BY <2>2, <3>1, <3>2, <3>3 DEF TaskStep
  <2>3. CASE SessionStep
    <3>1. CASE TakeSnapshot \/ ClearTerminal \/ CleanUpSession \/ AskToClear \/ AskToClose
      BY <2>1, <3>1 DEF TakeSnapshot, ClearTerminal, CleanUpSession, AskToClear, AskToClose, store
    <3>2. CASE SnapshotAnswered
      BY <1>3, <2>0, <3>2 DEF SnapshotAnswered, Answers, ClosedStaysClosed
    <3>3. CASE ClearAnswered
      <4>1. rows = Nothing => rows' = Nothing
        BY <3>3, NothingRowed, RestrictNothing DEF ClearAnswered
      <4> QED BY <1>3, <2>0, <3>3, <4>1 DEF ClearAnswered, ClosedStaysClosed
    <3> QED BY <1>3, <2>3, <3>1, <3>2, <3>3 DEF SessionStep
  <2>4. ASSUME NEW p \in Paths, ListDir(p) PROVE ClosedStaysClosed'
    BY <2>1, <2>4 DEF ListDir, store
  <2>5. ASSUME NEW r \in listings, ListingAnswered(r) PROVE ClosedStaysClosed'
    BY <2>1, <2>5 DEF ListingAnswered, store
  <2>6. CASE UNCHANGED projectionVars
    BY <2>1, <2>6 DEF projectionVars, store
  <2> QED BY <2>2, <2>3, <2>4, <2>5, <2>6, NextSplit
<1> QED BY <1>1, <1>2, <1>3
-----------------------------------------------------------------------------
(* The window follows the service, task by task, while the session is      *)
(* open.                                                                   *)

\* A step that is another task's leaves the task as it was; it may only come
\* to be among the exceptions.
Same(u) ==
    /\ registry'[u] = registry[u] /\ lastTold'[u] = lastTold[u]
    /\ events'[u] = events[u] /\ enqueue'[u] = enqueue[u]
    /\ u \in DOMAIN rows' <=> u \in DOMAIN rows
    /\ u \in DOMAIN rows => rows'[u] = rows[u]
    /\ u \in DOMAIN early' <=> u \in DOMAIN early
    /\ u \in DOMAIN early => early'[u] = early[u]
    /\ snapshot' = snapshot
    /\ u \in overtaken => u \in overtaken'

LEMMA SameKeeps == ASSUME NEW u \in Tasks, TaskOf(u), Same(u) PROVE TaskOf(u)'
<1>1. Current(u)' = Current(u) /\ (Made(u)' <=> Made(u))
  BY DEF Same, Current, Made
<1>2. KnownOf(u)'
  BY <1>1 DEF Same, TaskOf, KnownOf
<1>3. OrderedOf(u)'
  BY DEF Same, TaskOf, OrderedOf
<1>4. FollowsOf(u) => FollowsOf(u)'
  BY <1>1 DEF Same, FollowsOf
<1> QED BY <1>2, <1>3, <1>4 DEF Same, TaskOf

\* The events of a task that is told of once more, and of one the window has
\* heard.
LEMMA OneMore ==
    ASSUME ServiceTypes, NEW t \in Tasks, OrderedOf(t), lastTold[t] \notin Terminal,
           NEW s \in {"Running"} \cup Terminal, Emit(t, s)
    PROVE  OrderedOf(t)' /\ events'[t] # <<>> /\ lastTold'[t] = s
<1> DEFINE q == events[t]
<1>1. q \in Seq(Active \cup Terminal)
  BY DEF ServiceTypes
<1>2. s \in Active \cup Terminal /\ s # "Pending"
  BY DEF Active, Terminal
<1>3. events'[t] = Append(q, s) /\ lastTold'[t] = s
  BY DEF Emit, ServiceTypes
<1>4. /\ Len(Append(q, s)) = Len(q) + 1 /\ Len(q) \in Nat
      /\ Append(q, s)[Len(q) + 1] = s
      /\ \A i \in 1 .. Len(q) : Append(q, s)[i] = q[i]
      /\ Append(q, s) # <<>>
  BY <1>1, <1>2
<1>5. \A i \in 1 .. Len(q) : q[i] \notin Terminal /\ q[i] # "Pending"
  <2> SUFFICES ASSUME NEW i \in 1 .. Len(q) PROVE q[i] \notin Terminal /\ q[i] # "Pending"
    OBVIOUS
  <2>1. q # <<>>
    BY <1>1
  <2> QED BY <1>1, <1>4, <2>1 DEF OrderedOf
<1> HIDE DEF q
<1>6. \A i \in 1 .. Len(q) + 1 : i \in 1 .. Len(q) \/ i = Len(q) + 1
  BY <1>4
<1> QED BY <1>2, <1>3, <1>4, <1>5, <1>6 DEF OrderedOf

LEMMA OneLess ==
    ASSUME NEW t \in Tasks, events \in [Tasks -> Seq(Active \cup Terminal)], OrderedOf(t),
           events[t] # <<>>, events' = [events EXCEPT ![t] = Tail(@)], lastTold' = lastTold
    PROVE  /\ OrderedOf(t)' /\ lastTold[t] # None
           /\ Head(events[t]) # "Pending"
           /\ events'[t] = <<>> => Head(events[t]) = lastTold[t]
           /\ Head(events[t]) \in Terminal => events'[t] = <<>> /\ Head(events[t]) = lastTold[t]
<1> DEFINE q == events[t]
<1>1. q \in Seq(Active \cup Terminal) /\ q # <<>> /\ events'[t] = Tail(q)
  OBVIOUS
<1>2. /\ Len(q) \in Nat /\ Len(q) >= 1 /\ Len(Tail(q)) = Len(q) - 1 /\ Head(q) = q[1]
      /\ \A i \in 1 .. Len(Tail(q)) : Tail(q)[i] = q[i + 1]
      /\ Tail(q) = <<>> <=> Len(q) = 1
      /\ q[Len(q)] \in Active \cup Terminal
  <2> HIDE DEF q
  <2>1. Len(q) \in Nat /\ Len(q) >= 1 /\ q[Len(q)] \in Active \cup Terminal
    BY <1>1
  <2>2. /\ Head(q) = q[1] /\ Len(Tail(q)) = Len(q) - 1
        /\ \A i \in 1 .. Len(Tail(q)) : Tail(q)[i] = q[i + 1]
    BY <1>1, <2>1
  <2>3. Tail(q) = <<>> <=> Len(q) = 1
    <3>1. Tail(q) \in Seq(Active \cup Terminal)
      BY <1>1
    <3>2. Tail(q) = <<>> <=> Len(Tail(q)) = 0
      BY <3>1, EmptySeq
    <3> QED BY <2>1, <2>2, <3>2
  <2> QED BY <2>1, <2>2, <2>3
<1>3. /\ q[Len(q)] = lastTold[t]
      /\ \A i \in 1 .. Len(q) - 1 : q[i] \notin Terminal
      /\ \A i \in 1 .. Len(q) : q[i] # "Pending"
  BY <1>1 DEF OrderedOf
<1>4. lastTold[t] # None
  BY <1>2, <1>3 DEF Active, Terminal, None
<1> HIDE DEF q
<1>5. q[1] # "Pending" /\ (Len(q) = 1 => q[1] = lastTold[t]) /\ (q[1] \in Terminal => Len(q) = 1)
  BY <1>2, <1>3
<1>6. OrderedOf(t)'
  <2> SUFFICES ASSUME Tail(q) # <<>>
               PROVE  /\ Tail(q)[Len(Tail(q))] = lastTold[t]
                      /\ \A i \in 1 .. Len(Tail(q)) - 1 : Tail(q)[i] \notin Terminal
                      /\ \A i \in 1 .. Len(Tail(q)) : Tail(q)[i] # "Pending"
    BY <1>1 DEF OrderedOf
  <2> QED BY <1>2, <1>3
<1>7. Head(q) = q[1] /\ (events'[t] = <<>> <=> Len(q) = 1)
  BY <1>1, <1>2
<1> QED BY <1>4, <1>5, <1>6, <1>7 DEF q

\* A task that is made was unknown to the window.
LEMMA InStepEnqueue ==
    ASSUME ProjectionTypeOK, NEW t \in Tasks, TaskOf(t), Enqueue(t)
    PROVE  TaskOf(t)'
<1>t. ServiceTypes
  BY TypesSplit
<1>1. ~Made(t) /\ t \notin DOMAIN early /\ t \notin DOMAIN rows \cup DOMAIN snapshot.tasks
  BY DEF Enqueue, TaskOf, KnownOf
<1>2. registry[t] = None /\ lastTold[t] = None
  BY <1>1 DEF Made, TaskOf, KnownOf
<1>3. UNCHANGED <<events, lastTold, snapshot, rows, early, overtaken>>
  BY DEF Enqueue, store
<1>4. OrderedOf(t)'
  BY <1>3 DEF TaskOf, OrderedOf
<1>5. \/ registry'[t] = "Pending" /\ enqueue'[t] = "made"
      \/ registry'[t] = None /\ enqueue'[t] = "refused"
  BY <1>t, <1>2 DEF Enqueue, ServiceTypes
<1>6. KnownOf(t)'
  BY <1>1, <1>2, <1>3, <1>5 DEF KnownOf, Made, Current, None, Terminal
<1>7. FollowsOf(t)'
  BY <1>1, <1>2, <1>3, <1>5 DEF FollowsOf, Made, None, Terminal
<1> QED BY <1>4, <1>6, <1>7 DEF TaskOf

\* A change of status is the last event on its way.
LEMMA InStepTransition ==
    ASSUME ProjectionTypeOK, NEW t \in Tasks, TaskOf(t), Transition(t)
    PROVE  TaskOf(t)'
<1>t. ServiceTypes
  BY TypesSplit
<1>1. PICK s \in {"Running"} \cup Terminal :
         registry[t] \in Active /\ registry' = [registry EXCEPT ![t] = s] /\ Emit(t, s)
  BY DEF Transition
<1>2. Made(t) /\ registry[t] = Current(t) /\ lastTold[t] \notin Terminal
  BY <1>1 DEF TaskOf, KnownOf, Made, Current, Active, Terminal, None
<1>3. OrderedOf(t)' /\ events'[t] # <<>> /\ lastTold'[t] = s /\ registry'[t] = s
  BY <1>t, <1>1, <1>2, OneMore DEF TaskOf, ServiceTypes
<1>4. UNCHANGED <<enqueue, snapshot, rows, early, overtaken>>
  BY DEF Transition, store
<1>5. s # None /\ s # "Pending"
  BY DEF Terminal, None
<1>6. KnownOf(t)'
  BY <1>2, <1>3, <1>4, <1>5 DEF TaskOf, KnownOf, Made, Current
<1>7. FollowsOf(t) => FollowsOf(t)'
  BY <1>2, <1>3, <1>4, <1>5 DEF FollowsOf, Made
<1> QED BY <1>3, <1>4, <1>6, <1>7 DEF TaskOf

\* A task that is asked for has not been made.
LEMMA InStepTransfer ==
    ASSUME ProjectionTypeOK, NEW t \in Tasks, TaskOf(t), Transfer(t)
    PROVE  TaskOf(t)'
<1>1. enqueue[t] = "new" /\ enqueue'[t] = "asked"
  BY TypesSplit DEF Transfer, ServiceTypes
<1>2. UNCHANGED <<registry, events, lastTold, snapshot, rows, early, overtaken>>
  BY DEF Transfer, backend, store
<1>3. ~Made(t) /\ t \notin DOMAIN early
  BY <1>1 DEF TaskOf, KnownOf
<1>4. KnownOf(t)' /\ OrderedOf(t)'
  BY <1>1, <1>2, <1>3 DEF TaskOf, KnownOf, OrderedOf, Made, Current
<1>5. FollowsOf(t) => FollowsOf(t)'
  BY <1>1, <1>2, <1>3 DEF FollowsOf, Made, Current
<1> QED BY <1>2, <1>4, <1>5 DEF TaskOf

\* An event that comes is shown, or kept back for the answer.
LEMMA InStepEvent ==
    ASSUME ProjectionTypeOK, ~closed, NEW t \in Tasks, TaskOf(t), StatusEvent(t)
    PROVE  TaskOf(t)'
<1> DEFINE s == Head(events[t])
<1>t. ServiceTypes /\ RowTypes /\ path \in Paths
  BY TypesSplit DEF ListingTypes
<1>u. UNCHANGED <<registry, lastTold, enqueue, snapshot>>
  BY DEF StatusEvent
<1>1. /\ OrderedOf(t)' /\ lastTold[t] # None /\ s # "Pending"
      /\ events'[t] = <<>> => s = lastTold[t]
      /\ s \in Terminal => events'[t] = <<>> /\ s = lastTold[t]
  BY <1>t, <1>u, EventEffect, OneLess DEF TaskOf, ServiceTypes
<1>2. s \in Active \cup Terminal /\ events[t] # <<>>
  BY <1>t, EventEffect
<1>3. Made(t) /\ enqueue[t] \in {"made", "over"}
  BY <1>t, <1>1 DEF TaskOf, KnownOf, ServiceTypes
<1>4. overtaken' = overtaken \cup {u \in DOMAIN rows' : enqueue[u] = "made" /\ rows'[u] # "Pending"}
  BY <1>t, EventEffect
<1>5. CASE t \in DOMAIN rows
  <2>1. early' = early /\ rows' = With(rows, t, s)
    BY <1>5, <1>t, EventEffect
  <2>2. t \in DOMAIN rows' /\ rows'[t] = s
    BY <2>1 DEF With
  <2>3. KnownOf(t)'
    BY <1>3, <1>u, <2>1 DEF TaskOf, KnownOf, Made, Current
  <2>4. FollowsOf(t) /\ t \notin overtaken' => FollowsOf(t)'
    <3> HIDE DEF s
    <3> QED BY <1>1, <1>2, <1>3, <1>4, <1>5, <1>u, <2>1, <2>2 DEF FollowsOf, Made, Current
  <2> QED BY <1>1, <1>4, <2>3, <2>4 DEF TaskOf
<1>6. CASE t \notin DOMAIN rows
  <2>1. rows' = rows /\ early' = With(early, t, s)
    BY <1>6, <1>t, EventEffect
  <2>2. t \in DOMAIN early' /\ early'[t] = s
    BY <2>1 DEF With
  <2>3. KnownOf(t)'
    BY <1>3, <1>u, <2>1 DEF TaskOf, KnownOf, Made, Current
  <2>4. FollowsOf(t) /\ t \notin overtaken' => FollowsOf(t)'
    <3> HIDE DEF s
    <3>1. FollowsOf(t) => enqueue[t] = "made"
      BY <1>2, <1>3, <1>6 DEF FollowsOf
    <3> QED BY <1>1, <1>2, <1>3, <1>6, <1>u, <2>1, <2>2, <3>1 DEF FollowsOf, Made, Current
  <2> QED BY <1>1, <1>4, <2>3, <2>4 DEF TaskOf
<1> QED BY <1>5, <1>6

\* The answer to an enqueue brings what was kept back.
LEMMA InStepAnswered ==
    ASSUME ProjectionTypeOK, ~closed, NEW t \in Tasks, TaskOf(t), EnqueueAnswered(t)
    PROVE  TaskOf(t)'
<1>t. ServiceTypes /\ RowTypes /\ path \in Paths
  BY TypesSplit DEF ListingTypes
<1>u. UNCHANGED <<registry, events, lastTold, snapshot, overtaken>>
  BY DEF EnqueueAnswered, backend
<1>e. enqueue'[t] = "over"
  BY <1>t DEF EnqueueAnswered, ServiceTypes
<1>o. OrderedOf(t)'
  BY <1>u DEF TaskOf, OrderedOf
<1>m. Made(t)' <=> Made(t)
  BY <1>u DEF Made
<1>c. Current(t)' = Current(t)
  BY <1>u DEF Current
<1>1. CASE enqueue[t] = "made" /\ PutRow(t)
  <2>1. /\ rows' = With(rows, t, IF t \in DOMAIN early THEN early[t] ELSE "Pending")
        /\ t \notin DOMAIN early'
    BY <1>1, <1>t, PutRowEffect
  <2>2. (IF t \in DOMAIN early THEN early[t] ELSE "Pending") \in Active \cup Terminal
    BY <1>t DEF RowTypes, Rowed, Active
  <2>3. /\ t \in DOMAIN rows'
        /\ rows'[t] = IF t \in DOMAIN early THEN early[t] ELSE "Pending"
    BY <2>1 DEF With
  <2>4. Made(t)
    BY <1>1 DEF TaskOf, KnownOf
  <2>5. KnownOf(t)'
    BY <1>e, <1>u, <1>m, <1>c, <2>4 DEF TaskOf, KnownOf
  <2>6. FollowsOf(t) => FollowsOf(t)'
    <3> SUFFICES ASSUME FollowsOf(t) PROVE FollowsOf(t)'
      OBVIOUS
    <3>1. rows'[t] \in Terminal => rows'[t] = lastTold[t] /\ events[t] = <<>>
      BY <2>3 DEF FollowsOf, Terminal
    <3>2. events[t] = <<>> => rows'[t] = Current(t)
      BY <1>1, <2>3 DEF FollowsOf, Current
    <3> QED BY <1>e, <1>u, <1>m, <1>c, <2>1, <2>3, <3>1, <3>2 DEF FollowsOf
  <2> QED BY <1>o, <1>u, <2>5, <2>6 DEF TaskOf
<1>2. CASE enqueue[t] = "refused" /\ UNCHANGED <<rows, early, listing>>
  <2>1. ~Made(t) /\ t \notin DOMAIN early
    BY <1>2 DEF TaskOf, KnownOf
  <2>2. KnownOf(t)'
    BY <1>2, <1>e, <1>u, <1>m, <1>c, <2>1 DEF TaskOf, KnownOf
  <2>3. FollowsOf(t) => FollowsOf(t)'
    BY <1>2, <1>e, <1>u, <1>m, <1>c, <2>1 DEF TaskOf, FollowsOf
  <2> QED BY <1>o, <1>u, <2>2, <2>3 DEF TaskOf
<1> QED BY <1>1, <1>2 DEF EnqueueAnswered
\* The snapshot has what is current of the tasks in the registry.
LEMMA InStepSnapshot ==
    ASSUME ProjectionTypeOK, Asking, NEW t \in Tasks, TaskOf(t), TakeSnapshot
    PROVE  TaskOf(t)'
<1>u. UNCHANGED <<registry, events, lastTold, enqueue, rows, early, overtaken>>
  BY DEF TakeSnapshot, backend, store
<1>o. OrderedOf(t)'
  BY <1>u DEF TaskOf, OrderedOf
<1>m. (Made(t)' <=> Made(t)) /\ Current(t)' = Current(t)
  BY <1>u DEF Made, Current
<1>1. snapshot'.tasks = Restrict(registry, {u \in Tasks : registry[u] # None})
  BY DEF TakeSnapshot
<1>2. t \in DOMAIN snapshot'.tasks => registry[t] # None /\ snapshot'.tasks[t] = registry[t]
  BY <1>1 DEF Restrict
<1>3. t \in DOMAIN snapshot'.tasks => Made(t) /\ snapshot'.tasks[t] = Current(t)
  BY <1>2 DEF TaskOf, KnownOf, Made
<1>4. KnownOf(t)'
  BY <1>u, <1>m, <1>3 DEF TaskOf, KnownOf
<1>5. FollowsOf(t) => FollowsOf(t)'
  BY <1>u, <1>m, <1>3 DEF FollowsOf
<1> QED BY <1>o, <1>u, <1>4, <1>5 DEF TaskOf

\* A record that is cleared had told its end.
LEMMA InStepClearTerminal ==
    ASSUME ProjectionTypeOK, NEW t \in Tasks, TaskOf(t), ClearTerminal
    PROVE  TaskOf(t)'
<1>u. UNCHANGED <<events, lastTold, enqueue, snapshot, rows, early, overtaken>>
  BY DEF ClearTerminal, store
<1>1. registry'[t] = IF registry[t] \in Terminal THEN None ELSE registry[t]
  BY DEF ClearTerminal
<1>2. registry[t] \in Terminal => lastTold[t] \in Terminal
  BY DEF TaskOf, KnownOf, Current, Terminal, None
<1>m. (Made(t)' <=> Made(t)) /\ Current(t)' = Current(t)
  BY <1>u, <1>1, <1>2 DEF Made, Current, Terminal, None
<1>3. OrderedOf(t)'
  BY <1>u DEF TaskOf, OrderedOf
<1>4. KnownOf(t)'
  BY <1>u, <1>1, <1>m DEF TaskOf, KnownOf
<1>5. FollowsOf(t) => FollowsOf(t)'
  BY <1>u, <1>m DEF FollowsOf
<1> QED BY <1>u, <1>3, <1>4, <1>5 DEF TaskOf

\* A row that only the answer has was still to be answered to its maker, or
\* nothing of it was on its way.
LEMMA InStepSnapshotAnswered ==
    ASSUME ProjectionTypeOK, NEW t \in Tasks, TaskOf(t), SnapshotAnswered
    PROVE  TaskOf(t)'
<1>t. ServiceTypes /\ RowTypes /\ path \in Paths
  BY TypesSplit DEF ListingTypes
<1>u. UNCHANGED <<registry, events, lastTold, enqueue>> /\ snapshot'.tasks = Nothing
  BY DEF SnapshotAnswered, backend
<1>o. OrderedOf(t)'
  BY <1>u DEF TaskOf, OrderedOf
<1>m. (Made(t)' <=> Made(t)) /\ Current(t)' = Current(t)
  BY <1>u DEF Made, Current
<1>s. t \notin DOMAIN snapshot'.tasks
  BY <1>u, NothingRowed
<1>1. /\ t \in DOMAIN rows' <=> t \in DOMAIN rows \/ t \in DOMAIN snapshot.tasks
      /\ t \in DOMAIN rows' =>
            rows'[t] = IF t \in DOMAIN early THEN early[t]
                       ELSE IF t \in DOMAIN rows THEN rows[t] ELSE snapshot.tasks[t]
      /\ t \in DOMAIN early' <=> t \in DOMAIN early /\ t \notin DOMAIN rows'
      /\ t \in DOMAIN early' => early'[t] = early[t]
  BY <1>t, SnapshotAnsweredEffect
<1>2. /\ t \in overtaken => t \in overtaken'
      /\ t \in DOMAIN rows' /\ enqueue[t] = "made" /\ rows'[t] # "Pending" => t \in overtaken'
  BY DEF SnapshotAnswered, Overtake
<1>3. KnownOf(t)'
  BY <1>u, <1>m, <1>s, <1>1 DEF TaskOf, KnownOf
<1>4. t \in DOMAIN rows' => Made(t) /\ enqueue[t] \in {"made", "over"}
  BY <1>t, <1>1 DEF TaskOf, KnownOf, ServiceTypes
<1>5. ASSUME FollowsOf(t), t \notin overtaken' PROVE FollowsOf(t)'
  <2>1. t \in DOMAIN rows' => /\ rows'[t] \in Terminal => rows'[t] = lastTold[t] /\ events[t] = <<>>
                              /\ events[t] = <<>> => rows'[t] = Current(t)
                              /\ enqueue[t] = "made" => rows'[t] = "Pending"
    <3>1. CASE t \in DOMAIN early
      BY <1>1, <1>2, <1>5, <3>1 DEF FollowsOf, Current
    <3>2. CASE t \notin DOMAIN early /\ t \in DOMAIN rows
      BY <1>1, <1>2, <1>5, <3>2 DEF FollowsOf
    <3>3. CASE t \in DOMAIN rows' /\ t \notin DOMAIN early /\ t \notin DOMAIN rows
      <4>1. enqueue[t] = "made" => rows'[t] = "Pending"
        BY <1>2, <1>5, <3>3
      <4>2. events[t] = <<>> => rows'[t] = Current(t)
        BY <1>1, <1>5, <3>3 DEF FollowsOf
      <4>3. enqueue[t] = "over" => lastTold[t] \in Terminal /\ events[t] = <<>>
        BY <1>4, <1>5, <3>3 DEF FollowsOf
      <4>4. lastTold[t] \in Terminal => Current(t) = lastTold[t]
        BY DEF Current, Terminal, None
      <4> QED BY <1>4, <3>3, <4>1, <4>2, <4>3, <4>4 DEF Terminal
    <3> QED BY <1>1, <3>1, <3>2, <3>3
  <2>2. enqueue[t] = "made" /\ events[t] = <<>> /\ lastTold[t] # None => t \in DOMAIN early'
    <3> SUFFICES ASSUME enqueue[t] = "made", events[t] = <<>>, lastTold[t] # None, t \in DOMAIN rows'
                 PROVE  FALSE
      BY <1>1, <1>5 DEF FollowsOf
    <3>1. t \in DOMAIN early /\ early[t] = lastTold[t]
      BY <1>5 DEF FollowsOf
    <3>2. lastTold[t] # "Pending"
      BY DEF TaskOf, KnownOf
    <3> QED BY <1>1, <1>2, <1>5, <3>1, <3>2
  <2>3. enqueue[t] = "over" /\ Made(t) =>
          t \in DOMAIN rows' \/ (lastTold[t] \in Terminal /\ events[t] = <<>>)
    BY <1>1, <1>5 DEF FollowsOf
  <2>4. t \in DOMAIN early' =>
          /\ enqueue[t] = "made" /\ t \notin DOMAIN rows' /\ lastTold[t] # None
          /\ early'[t] \in Terminal => early'[t] = lastTold[t] /\ events[t] = <<>>
          /\ events[t] = <<>> => early'[t] = lastTold[t]
    BY <1>1, <1>5 DEF FollowsOf
  <2> QED BY <1>u, <1>m, <1>s, <2>1, <2>2, <2>3, <2>4 DEF FollowsOf
<1> QED BY <1>o, <1>2, <1>3, <1>5 DEF TaskOf

\* A row that is cleared was over; a coming snapshot may bring it back.
LEMMA InStepClearAnswered ==
    ASSUME ProjectionTypeOK, NEW t \in Tasks, TaskOf(t), ClearAnswered
    PROVE  TaskOf(t)'
<1>t. RowTypes
  BY TypesSplit
<1>u. UNCHANGED <<registry, events, lastTold, enqueue, snapshot, early>>
  BY DEF ClearAnswered, backend
<1>o. OrderedOf(t)'
  BY <1>u DEF TaskOf, OrderedOf
<1>m. (Made(t)' <=> Made(t)) /\ Current(t)' = Current(t)
  BY <1>u DEF Made, Current
<1>1. /\ t \in DOMAIN rows' <=> t \in DOMAIN rows /\ rows[t] \notin Terminal
      /\ t \in DOMAIN rows' => rows'[t] = rows[t]
      /\ t \in overtaken => t \in overtaken'
      /\ t \in DOMAIN rows /\ rows[t] \in Terminal /\ t \in DOMAIN snapshot.tasks => t \in overtaken'
  BY <1>t, ClearAnsweredEffect
<1>2. KnownOf(t)'
  BY <1>u, <1>m, <1>1 DEF TaskOf, KnownOf
<1>3. ASSUME FollowsOf(t), t \notin overtaken' PROVE FollowsOf(t)'
  <2>1. enqueue[t] = "over" /\ Made(t) =>
          t \in DOMAIN rows' \/ (lastTold[t] \in Terminal /\ events[t] = <<>>)
    BY <1>1, <1>3 DEF FollowsOf
  <2>2. t \in DOMAIN snapshot.tasks /\ t \notin DOMAIN rows' \cup DOMAIN early /\ events[t] = <<>>
          => snapshot.tasks[t] = Current(t)
    BY <1>1, <1>3 DEF FollowsOf
  <2>3. t \in DOMAIN rows' =>
          /\ rows'[t] \in Terminal => rows'[t] = lastTold[t] /\ events[t] = <<>>
          /\ events[t] = <<>> => rows'[t] = Current(t)
          /\ enqueue[t] = "made" => rows'[t] = "Pending"
    BY <1>1, <1>3 DEF FollowsOf
  <2>4. t \in DOMAIN early =>
          /\ enqueue[t] = "made" /\ t \notin DOMAIN rows' /\ lastTold[t] # None
          /\ early[t] \in Terminal => early[t] = lastTold[t] /\ events[t] = <<>>
          /\ events[t] = <<>> => early[t] = lastTold[t]
    BY <1>1, <1>3 DEF FollowsOf
  <2>5. enqueue[t] = "made" /\ events[t] = <<>> /\ lastTold[t] # None => t \in DOMAIN early
    BY <1>3 DEF FollowsOf
  <2> QED BY <1>u, <1>m, <2>1, <2>2, <2>3, <2>4, <2>5 DEF FollowsOf
<1> QED BY <1>o, <1>1, <1>2, <1>3 DEF TaskOf

\* A task's step is no other task's.
LEMMA OthersSame ==
    ASSUME ProjectionTypeOK, ~closed, NEW t \in Tasks, TaskStep(t), NEW u \in Tasks, u # t
    PROVE  Same(u)
<1>t. ServiceTypes /\ RowTypes /\ path \in Paths
  BY TypesSplit DEF ListingTypes
<1>1. CASE Enqueue(t) \/ Transition(t) \/ Transfer(t)
  BY <1>1, <1>t DEF Enqueue, Transition, Transfer, Emit, backend, store, Same, ServiceTypes
<1>2. CASE StatusEvent(t)
  <2>1. UNCHANGED <<registry, lastTold, enqueue, snapshot>> /\ events'[u] = events[u]
    BY <1>2, <1>t DEF StatusEvent, ServiceTypes
  <2>2. overtaken \subseteq overtaken'
    BY <1>2, <1>t, EventEffect
  <2>3. \/ early' = With(early, t, Head(events[t])) /\ rows' = rows
        \/ rows' = With(rows, t, Head(events[t])) /\ early' = early
    BY <1>2, <1>t, EventEffect
  <2> QED BY <2>1, <2>2, <2>3 DEF Same, With
<1>3. CASE EnqueueAnswered(t)
  <2>1. UNCHANGED <<registry, events, lastTold, snapshot, overtaken>> /\ enqueue'[u] = enqueue[u]
    BY <1>3, <1>t DEF EnqueueAnswered, backend, ServiceTypes
  <2>2. CASE PutRow(t)
    <3> DEFINE s == IF t \in DOMAIN early /\ ~closed THEN early[t] ELSE "Pending"
    <3>1. /\ rows' = With(rows, t, s)
          /\ DOMAIN early' = DOMAIN early \ {t}
          /\ \A v \in DOMAIN early' : early'[v] = early[v]
      BY <1>t, <2>2, PutRowEffect
    <3> HIDE DEF s
    <3> QED BY <2>1, <3>1 DEF Same, With
  <2>3. CASE UNCHANGED <<rows, early, listing>>
    BY <2>1, <2>3 DEF Same
  <2> QED BY <1>3, <2>2, <2>3 DEF EnqueueAnswered
<1> QED BY <1>1, <1>2, <1>3 DEF TaskStep

\* Nothing but the events of a task and the calls about it changes what the
\* window has of it.
LEMMA InStepStep ==
    ASSUME ProjectionTypeOK, Asking, Listed, InStep, [ProjectionNext]_projectionVars
    PROVE  InStep'
<1> SUFFICES ASSUME closeCall' = "open", NEW u \in Tasks PROVE TaskOf(u)'
  BY DEF InStep
<1>1. closeCall = "open" /\ ~closed
  <2>1. closeCall = "open"
    <3>1. ASSUME NEW t \in Tasks, TaskStep(t) PROVE closeCall' = closeCall
      BY <3>1 DEF TaskStep, Enqueue, Transition, Transfer, StatusEvent, EnqueueAnswered
    <3>2. CASE SessionStep
      BY <3>2 DEF SessionStep, TakeSnapshot, ClearTerminal, CleanUpSession, AskToClear, AskToClose,
                  SnapshotAnswered, ClearAnswered, CloseAnswered
    <3>3. ASSUME NEW p \in Paths, ListDir(p) PROVE closeCall' = closeCall
      BY <3>3 DEF ListDir
    <3>4. ASSUME NEW r \in listings, ListingAnswered(r) PROVE closeCall' = closeCall
      BY <3>4 DEF ListingAnswered
    <3>5. UNCHANGED projectionVars => closeCall' = closeCall
      BY DEF projectionVars
    <3> QED BY <3>1, <3>2, <3>3, <3>4, <3>5, NextSplit
  <2> QED BY <2>1 DEF Listed
<1>2. TaskOf(u)
  BY <1>1 DEF InStep
<1>3. ASSUME UNCHANGED <<registry, lastTold, events, enqueue, rows, early, snapshot, overtaken>>
      PROVE  TaskOf(u)'
  BY <1>2, <1>3, SameKeeps DEF Same
<1>4. ASSUME NEW t \in Tasks, TaskStep(t) PROVE TaskOf(u)'
  <2>1. CASE u = t
    BY <1>1, <1>2, <1>4, <2>1, InStepEnqueue, InStepTransition, InStepTransfer, InStepEvent,
       InStepAnswered DEF TaskStep
  <2>2. CASE u # t
    BY <1>1, <1>2, <1>4, <2>2, OthersSame, SameKeeps
  <2> QED BY <2>1, <2>2
<1>5. CASE SessionStep
  <2>1. ~CleanUpSession /\ ~AskToClose /\ ~CloseAnswered
    BY DEF CleanUpSession, AskToClose, CloseAnswered
  <2>2. AskToClear => TaskOf(u)'
    BY <1>3 DEF AskToClear, backend, store
  <2> QED BY <1>2, <1>5, <2>1, <2>2, InStepSnapshot, InStepClearTerminal, InStepSnapshotAnswered,
             InStepClearAnswered DEF SessionStep
<1>6. ASSUME NEW p \in Paths, ListDir(p) PROVE TaskOf(u)'
  BY <1>3, <1>6 DEF ListDir, backend, store
<1>7. ASSUME NEW r \in listings, ListingAnswered(r) PROVE TaskOf(u)'
  BY <1>3, <1>7 DEF ListingAnswered, backend, store
<1>8. UNCHANGED projectionVars => TaskOf(u)'
  BY <1>3 DEF projectionVars, backend, store
<1> QED BY <1>4, <1>5, <1>6, <1>7, <1>8, NextSplit

-----------------------------------------------------------------------------
(* The theorems.                                                           *)

LEMMA ProjectionInitially == ProjectionInit => ProjectionInv
<1> SUFFICES ASSUME ProjectionInit PROVE ProjectionInv
  OBVIOUS
<1> USE DEF ProjectionInit
<1>1. ProjectionTypeOK
  <2>1. ServiceTypes
    BY EmptySeq DEF ServiceTypes
  <2>2. RowTypes
    BY NothingRowed DEF RowTypes
  <2>3. ListingTypes
    BY ProjectionAssumption DEF ListingTypes
  <2> QED BY <2>1, <2>2, <2>3, TypesSplit
<1>2. Asking /\ Listed /\ Answers /\ ClosedStaysClosed
  BY DEF Asking, Listed, Answers, ClosedStaysClosed
<1>3. InStep
  BY NothingRowed DEF InStep, TaskOf, KnownOf, OrderedOf, FollowsOf, Made, Current, None, Terminal
<1> QED BY <1>1, <1>2, <1>3 DEF ProjectionInv

LEMMA ProjectionStep ==
    ASSUME ProjectionInv, [ProjectionNext]_projectionVars
    PROVE  ProjectionInv'
BY ProjectionTypeStep, AskingStep, ListedStep, AnswersStep, ClosedStep, InStepStep DEF ProjectionInv

\* What the window holds of each task follows what the service has told of it,
\* each listing has its number, and what was late at the close is on record.
THEOREM ProjectionInvariant == ProjectionSpec => []ProjectionInv
<1>1. ProjectionInv /\ [ProjectionNext]_projectionVars => ProjectionInv'
  BY ProjectionStep
<1> QED BY <1>1, ProjectionInitially, PTL DEF ProjectionSpec

\* The service's registry and events, the calls on their way and the window's
\* store keep their types.
THEOREM ProjectionTypeCorrect == ProjectionSpec => []ProjectionTypeOK
<1>1. ProjectionInv => ProjectionTypeOK
  BY DEF ProjectionInv
<1> QED BY <1>1, ProjectionInvariant, PTL

\* applyTaskStatus drops what comes of a cleared session, and no answer brings
\* any of it back, unless its call was made before the close.
THEOREM ClosedStaysClosedHolds == ProjectionSpec => []ClosedStaysClosed
<1>1. ProjectionInv => ClosedStaysClosed
  BY DEF ProjectionInv
<1> QED BY <1>1, ProjectionInvariant, PTL

\* loadTaskSnapshot, the answers of download and upload, applyTaskStatus and
\* listDir leave the window in agreement with the service, in whatever order
\* they come, but for the tasks in overtaken.
THEOREM RestAgreesHolds == ProjectionSpec => []RestAgrees
<1>1. ASSUME ProjectionInv PROVE RestAgrees
  <2>1. closeCall # "cleared" => (loading <=> \E r \in listings : r.seq = seq)
    BY <1>1 DEF ProjectionInv, Listed
  <2>2. ASSUME Rest, NEW t \in Tasks \ overtaken
        PROVE  /\ registry[t] \in Active => t \in DOMAIN rows
               /\ t \in DOMAIN rows /\ rows[t] \in Active => registry[t] = rows[t]
               /\ t \in DOMAIN rows /\ rows[t] \in Terminal => lastTold[t] = rows[t]
               /\ t \notin DOMAIN early
    <3>1. KnownOf(t) /\ FollowsOf(t) /\ events[t] = <<>> /\ enqueue[t] \in {"new", "over"}
      BY <1>1, <2>2 DEF ProjectionInv, InStep, TaskOf, Rest
    <3>2. t \notin DOMAIN early /\ (t \in DOMAIN rows => Made(t) /\ rows[t] = Current(t))
      BY <3>1 DEF FollowsOf, KnownOf
    <3>3. registry[t] \in Active => t \in DOMAIN rows
      <4>1. registry[t] \in Active => Made(t) /\ lastTold[t] \notin Terminal
        BY <3>1 DEF KnownOf, Made, Current, Active, Terminal, None
      <4> QED BY <3>1, <4>1 DEF KnownOf, FollowsOf
    <3>4. t \in DOMAIN rows /\ rows[t] \in Active => registry[t] = rows[t]
      BY <3>1, <3>2 DEF KnownOf, Made, Current, Active, Terminal, None
    <3>5. t \in DOMAIN rows /\ rows[t] \in Terminal => lastTold[t] = rows[t]
      BY <3>1 DEF FollowsOf
    <3> QED BY <3>2, <3>3, <3>4, <3>5
  <2> QED BY <2>1, <2>2 DEF RestAgrees
<1>2. ProjectionInv => RestAgrees
  BY <1>1
<1> QED BY <1>2, ProjectionInvariant, PTL
=============================================================================
