-------------------------- MODULE SftpServiceProofs --------------------------
(***************************************************************************)
(* Proofs about SftpService, for any number of tasks, calls, connections   *)
(* and permits: the transfer tasks of a session (TransferTasks) and its    *)
(* control connection (ControlConnection).  What TransferPoolProofs shows  *)
(* of a pool is used of the session's pool by instantiating it.            *)
(***************************************************************************)
EXTENDS TransferTasks, ControlConnection, FiniteSetTheorems, TLAPS

-----------------------------------------------------------------------------
(* TransferTasks: the inductive invariant.  The pool's invariants speak of *)
(* the pool's numbers, so the proof has to know that each task has its own *)
(* number and that a worker which gives a connection back holds one; and   *)
(* it has to know that the pool of an open session is open, without which  *)
(* a connection could be dropped while others wait for it.                 *)

\* The tasks as the pool knows them.
QueueSeqs == 1 .. Cardinality(Tasks)

\* What is proved of any pool, said of the session's.
PoolFacts == INSTANCE TransferPoolProofs WITH Tasks <- 1 .. Cardinality(Tasks)

HoldStages == {"recheck", "starting", "begin", "moving", "release"}

\* The queue numbers are given out one by one, each to one task.
Numbered ==
    /\ enqueueSeq = Cardinality({t \in Tasks : queueSeq[t] # 0}) + 1
    /\ \A t \in Tasks : queueSeq[t] = 0 <=> at[t] \in EnqueueStages
    /\ \A t, u \in Tasks : queueSeq[t] = queueSeq[u] /\ queueSeq[t] # 0 => t = u

\* A worker past its checkout holds a connection until it gives it back.
Holding == \A t \in Tasks : at[t] \in HoldStages => PhaseOf(t) = "holding"

\* Until the session is closed, its pool is open.
Session ==
    /\ handle <=> closing = "no"
    /\ closing = "no" => /\ ~closed
                         /\ \A q \in QueueSeqs : phase[q] # "Closed"
                         /\ doomed = {} /\ victim = {}

\* Only a download goes through the stages of a download.
Asked == \A t \in Tasks : at[t] \in {"size", "insert", "register"} => t \in downloads

\* The pool is in order, and whole as long as the session is registered.
Kept == PoolFacts!Shape /\ PoolKeptWhole

IInv == TypeOK /\ Kept /\ Numbered /\ Holding /\ Session /\ Asked

-----------------------------------------------------------------------------
(* What is added to it for the properties about events.                    *)

\* Before its record is written a task has no worker and no record.
Fresh == {"new", "size", "insert", "refused"}
Unborn == \A t \in Tasks : at[t] \in Fresh => status[t] = "absent"

\* Until a task is over nobody has said, or is about to say, that it is; and who
\* is about to say it is the first.
Silent(t) ==
    unsent[t] \notin Terminal /\ \A i \in DOMAIN events[t] : events[t][i] \notin Terminal
OnceOf(t) ==
    /\ status[t] \in Active \/ at[t] \in Fresh => Silent(t)
    /\ unsent[t] \in Terminal => \A i \in DOMAIN events[t] : events[t][i] \notin Terminal
    /\ \A i, j \in DOMAIN events[t] :
          events[t][i] \in Terminal /\ events[t][j] \in Terminal => i = j
Once == \A t \in Tasks : OnceOf(t)

\* All a worker has decided to tell, sent or not yet.
Told(t) == IF unsent[t] = None THEN events[t] ELSE Append(events[t], unsent[t])

\* While the session is open, where a task is says what its record is and what
\* has been told of it.
PendingStages == {"register", "spawned", "checkout", "recheck", "starting", "noconn"}
StoryOf(t) ==
    /\ at[t] \in Fresh => Told(t) = <<>>
    /\ at[t] \in PendingStages => status[t] = "Pending" /\ Told(t) = <<>>
    /\ at[t] \in {"begin", "moving", "failed"} =>
          status[t] = "Running" /\ Told(t) = <<"Running">>
    /\ at[t] \in {"moving", "release", "finish"} => unsent[t] = None
    /\ at[t] \in {"release", "finish"} =>
          \/ outcome[t] = "Cancelled" /\ status[t] = "Pending" /\ Told(t) = <<>>
          \/ /\ outcome[t] \in Terminal \cup {"Broken"}
             /\ status[t] = "Running" /\ Told(t) = <<"Running">>
    /\ at[t] = "end" =>
          \E s \in Terminal : /\ status[t] \in {"absent", s}
                              /\ \/ Told(t) = <<s>> /\ s = "Cancelled"
                                 \/ Told(t) = <<"Running", s>>
Story == closing = "no" => \A t \in Tasks : StoryOf(t)

-----------------------------------------------------------------------------
(* The two instances of the pool, TransferTasks' own and the one that      *)
(* carries the proofs, define the same things twice.                       *)

\* The assumptions of TransferPool hold of the numbers of a session's tasks.
LEMMA TasksFinite ==
    /\ Cardinality(Tasks) \in Nat /\ IsFiniteSet(Tasks)
    /\ PoolFacts!TasksAssumption /\ PoolFacts!MaxConnsAssumption
<1>1. Cardinality(Tasks) \in Nat /\ IsFiniteSet(Tasks)
  BY TransferAssumption, FS_CardinalityType DEF TransferAssumption
<1>2. IsFiniteSet(1 .. Cardinality(Tasks)) /\ 1 .. Cardinality(Tasks) \subseteq Nat
  BY <1>1, FS_Interval
<1>3. PoolFacts!IsFiniteSet(1 .. Cardinality(Tasks))
  BY <1>2 DEF PoolFacts!IsFiniteSet, IsFiniteSet
<1>4. PoolFacts!TasksAssumption
  BY <1>2, <1>3 DEF PoolFacts!TasksAssumption
<1>5. PoolFacts!MaxConnsAssumption
  BY TransferAssumption DEF TransferAssumption, PoolFacts!MaxConnsAssumption
<1> QED
  BY <1>1, <1>4, <1>5

\* Each instance of FiniteSets has a Cardinality of its own.
LEMMA SameCardinality ==
    \A S : Pool!Cardinality(S) = Cardinality(S) /\ PoolFacts!Cardinality(S) = Cardinality(S)
BY DEF Pool!Cardinality, PoolFacts!Cardinality, Cardinality

\* The steps of the two instances are the same.
LEMMA SameSteps == [Pool!Next]_pool => [PoolFacts!Next]_(PoolFacts!vars)
BY SameCardinality DEF pool, PoolFacts!vars, Pool!Next, PoolFacts!Next, Pool!Worker, PoolFacts!Worker,
       Pool!Checkout, PoolFacts!Checkout, Pool!Retry, PoolFacts!Retry,
       Pool!Attempt, PoolFacts!Attempt, Pool!TurnAway, PoolFacts!TurnAway,
       Pool!Enqueue, PoolFacts!Enqueue, Pool!TakeIdle, PoolFacts!TakeIdle,
       Pool!Reserve, PoolFacts!Reserve, Pool!Barred, PoolFacts!Barred,
       Pool!Free, PoolFacts!Free, Pool!Live, PoolFacts!Live,
       Pool!Expired, PoolFacts!Expired, Pool!NotBase, PoolFacts!NotBase,
       Pool!First, PoolFacts!First, Pool!Woken, PoolFacts!Woken,
       Pool!WakeNext, PoolFacts!WakeNext, Pool!EnsureReaper, PoolFacts!EnsureReaper,
       Pool!ReturnCancelled, PoolFacts!ReturnCancelled,
       Pool!ConnectOk, PoolFacts!ConnectOk, Pool!ConnectErr, PoolFacts!ConnectErr,
       Pool!ConnectLate, PoolFacts!ConnectLate, Pool!Checkin, PoolFacts!Checkin,
       Pool!CheckinDrop, PoolFacts!CheckinDrop, Pool!CheckinHealthy, PoolFacts!CheckinHealthy,
       Pool!CancelWaiter, PoolFacts!CancelWaiter, Pool!Close, PoolFacts!Close,
       Pool!IdleTimeout, PoolFacts!IdleTimeout, Pool!Reaper, PoolFacts!Reaper,
       Pool!ReaperScan, PoolFacts!ReaperScan, Pool!ReaperWake, PoolFacts!ReaperWake

\* So are their initial states and their types,
LEMMA SameTypes ==
    /\ Pool!Init <=> PoolFacts!Init
    /\ Pool!TypeOK <=> PoolFacts!TypeOK
    /\ Pool!TypeOK' <=> PoolFacts!TypeOK'
BY DEF Pool!Init, PoolFacts!Init, Pool!TypeOK, PoolFacts!TypeOK, Pool!Phases,
       PoolFacts!Phases, Pool!Owning, PoolFacts!Owning, Pool!Refused, PoolFacts!Refused

\* and what TransferPool promises.
LEMMA SameFacts ==
    /\ Pool!Ownership <=> PoolFacts!Ownership
    /\ Pool!Ownership' <=> PoolFacts!Ownership'
    /\ Pool!NoLostWakeup <=> PoolFacts!NoLostWakeup
    /\ Pool!NoLostWakeup' <=> PoolFacts!NoLostWakeup'
    /\ Pool!Capacity <=> PoolFacts!Capacity
    /\ Pool!Capacity' <=> PoolFacts!Capacity'
BY SameCardinality
   DEF Pool!Owning, PoolFacts!Owning, Pool!Owners, PoolFacts!Owners,
       Pool!Busy, PoolFacts!Busy, Pool!Woken, PoolFacts!Woken,
       Pool!Ownership, PoolFacts!Ownership, Pool!NoLostWakeup, PoolFacts!NoLostWakeup,
       Pool!Capacity, PoolFacts!Capacity

\* What TransferPool proves of a step of the pool holds of one taken for a task.
LEMMA PoolSteps ==
    ASSUME PoolFacts!Shape, [Pool!Next]_pool
    PROVE  /\ PoolFacts!Shape'
           /\ Pool!Ownership => Pool!Ownership'
           /\ Pool!NoLostWakeup => Pool!NoLostWakeup'
           /\ Pool!Capacity => Pool!Capacity'
BY TasksFinite, SameSteps, SameFacts, PoolFacts!ShapeNext, PoolFacts!OwnershipNext,
   PoolFacts!NoLostWakeupNext, PoolFacts!CapacityNext

-----------------------------------------------------------------------------
\* An eviction only removes terminal records.
LEMMA EvictedKeeps ==
    ASSUME NEW st \in [Tasks -> Active \cup Terminal \cup {"absent"}], NEW f \in Evicted(st)
    PROVE  /\ f \in [Tasks -> Active \cup Terminal \cup {"absent"}]
           /\ \A u \in Tasks : f[u] = st[u] \/ (st[u] \in Terminal /\ f[u] = "absent")
<1>1. CASE f = st
  BY <1>1
<1>2. CASE \E D \in SUBSET {t \in Tasks : st[t] \in Terminal} :
              f = [t \in Tasks |-> IF t \in D THEN "absent" ELSE st[t]]
  BY <1>2
<1>3. f = st \/ \E D \in SUBSET {t \in Tasks : st[t] \in Terminal} :
                   f = [t \in Tasks |-> IF t \in D THEN "absent" ELSE st[t]]
  BY DEF Evicted
<1> QED
  BY <1>1, <1>2, <1>3

\* A transition moves one task legally, and may evict others that are over; or
\* it changes nothing.
LEMMA TransitionEffect ==
    ASSUME TypeOK, NEW t \in Tasks, NEW s, Transition(t, s)
    PROVE  /\ status' \in [Tasks -> Active \cup Terminal \cup {"absent"}]
           /\ unsent' \in [Tasks -> Active \cup Terminal \cup {None}]
           /\ tokens' \subseteq Tasks
           /\ \A u \in Tasks \ {t} :
                 /\ unsent'[u] = unsent[u]
                 /\ status'[u] = status[u] \/ (status[u] \in Terminal /\ status'[u] = "absent")
           /\ \/ /\ <<status[t], s>> \in Legal
                 /\ unsent'[t] = s
                 /\ status'[t] = s \/ (s \in Terminal /\ status'[t] = "absent")
              \/ <<status[t], s>> \notin Legal /\ UNCHANGED <<status, tokens, unsent>>
<1>1. CASE <<status[t], s>> \in Legal
  <2> DEFINE st == [status EXCEPT ![t] = s]
  <2>0. s \in {"Running"} \cup Terminal
    BY <1>1 DEF Legal, Terminal
  <2>1. st \in [Tasks -> Active \cup Terminal \cup {"absent"}]
    BY <2>0 DEF TypeOK, Active
  <2>2. \A u \in Tasks : st[u] = IF u = t THEN s ELSE status[u]
    BY DEF TypeOK
  <2>3. status' \in Evicted(st) \/ status' = st
    BY <1>1 DEF Transition
  <2> HIDE DEF st
  <2>4. /\ status' \in [Tasks -> Active \cup Terminal \cup {"absent"}]
        /\ \A u \in Tasks : status'[u] = st[u] \/ (st[u] \in Terminal /\ status'[u] = "absent")
    BY <2>1, <2>3, EvictedKeeps
  <2>5. tokens' \subseteq Tasks /\ unsent' = [unsent EXCEPT ![t] = s]
    BY <1>1 DEF Transition, TypeOK
  <2>6. unsent' \in [Tasks -> Active \cup Terminal \cup {None}] /\ unsent'[t] = s
        /\ \A u \in Tasks \ {t} : unsent'[u] = unsent[u]
    BY <2>0, <2>5 DEF TypeOK, Active
  <2> QED
    BY <1>1, <2>2, <2>4, <2>5, <2>6
<1>2. CASE <<status[t], s>> \notin Legal
  BY <1>2 DEF Transition, TypeOK
<1> QED
  BY <1>1, <1>2

\* A task with a worker has its place in the pool's numbering.
LEMMA WorkersNumber ==
    ASSUME IInv, NEW t \in Tasks, at[t] \in WorkerStages
    PROVE  queueSeq[t] \in QueueSeqs
<1>1. queueSeq[t] \in 0 .. enqueueSeq - 1 /\ enqueueSeq \in 1 .. Cardinality(Tasks) + 1
  BY DEF IInv, TypeOK
<1>2. queueSeq[t] # 0
  BY DEF IInv, Numbered, EnqueueStages, WorkerStages
<1> QED
  BY <1>1, <1>2, TasksFinite DEF QueueSeqs

\* What a worker does in the pool is its own affair, and turns it away only when
\* the pool is closed.
LEMMA WorkerFrame ==
    ASSUME Pool!TypeOK, NEW q \in QueueSeqs, Pool!Worker(q)
    PROVE  /\ closed' = closed
           /\ \A r \in QueueSeqs \ {q} : phase'[r] = phase[r]
           /\ ~closed /\ phase[q] # "Closed" => phase'[q] # "Closed"
<1>1. phase \in [QueueSeqs -> Pool!Phases]
  BY DEF Pool!TypeOK, QueueSeqs
<1>2. CASE Pool!Checkout(q) \/ Pool!Retry(q)
  BY <1>1, <1>2 DEF Pool!Checkout, Pool!Retry, Pool!Attempt, Pool!TurnAway, Pool!Enqueue,
                    Pool!TakeIdle, Pool!Reserve
<1>3. CASE Pool!ReturnCancelled(q) \/ Pool!ConnectOk(q) \/ Pool!ConnectErr(q) \/ Pool!ConnectLate(q)
  BY <1>1, <1>3 DEF Pool!ReturnCancelled, Pool!ConnectOk, Pool!ConnectErr, Pool!ConnectLate
<1>4. CASE Pool!Checkin(q)
  BY <1>1, <1>4 DEF Pool!Checkin, Pool!CheckinDrop, Pool!CheckinHealthy
<1> QED
  BY <1>2, <1>3, <1>4 DEF Pool!Worker

\* The ways in which a step of the service moves the pool.
LEMMA PoolMoves ==
    ASSUME [Next]_vars
    PROVE  \/ UNCHANGED pool
           \/ PoolBackground
           \/ closing = "pool" /\ Pool!Close
           \/ \E t \in Tasks :
                 \/ at[t] = "checkout" /\ Pool!Worker(queueSeq[t]) /\ UNCHANGED allButLate
                 \/ at[t] = "release" /\ handle /\ Pool!Worker(queueSeq[t]) /\ Go(t, "finish")
                 \/ at[t] = "release" /\ ~handle /\ DropConnection(t) /\ Go(t, "finish")
                 \/ queueSeq[t] \in waiters /\ Pool!CancelWaiter(queueSeq[t])
<1>1. CASE UNCHANGED vars
  BY <1>1 DEF vars
<1>2. ASSUME NEW t \in Tasks, Enqueuer(t) \/ EnqueueUpload(t)
      PROVE  UNCHANGED pool
  BY <1>2 DEF Enqueuer, DownloadCheck, DownloadSize, DownloadInsert, DownloadRegister, EnqueueUpload
<1>3. ASSUME NEW t \in Tasks, LookUp(t) \/ CheckoutFailed(t) \/ NoConnection(t)
             \/ AcquirePermit(t) \/ AbortCancelled(t) \/ Recheck(t) \/ Start(t)
             \/ Begin(t) \/ Move(t) \/ Finish(t) \/ DropPermit(t) \/ Emit(t)
      PROVE  UNCHANGED pool
  BY <1>3 DEF LookUp, CheckoutFailed, NoConnection, AcquirePermit, AbortCancelled, Recheck,
              Start, Begin, Move, Finish, DropPermit, Emit
<1>4. ASSUME NEW t \in Tasks, PoolStep(t)
      PROVE  at[t] = "checkout" /\ Pool!Worker(queueSeq[t]) /\ UNCHANGED allButLate
  BY <1>4 DEF PoolStep, allButLate, Pool!Worker
<1>5. ASSUME NEW t \in Tasks, Release(t)
      PROVE  \/ at[t] = "release" /\ handle /\ Pool!Worker(queueSeq[t]) /\ Go(t, "finish")
             \/ at[t] = "release" /\ ~handle /\ DropConnection(t) /\ Go(t, "finish")
  BY <1>5 DEF Release, Pool!Worker, Pool!Checkin
<1>6. ASSUME NEW t \in Tasks, Cancel(t)
      PROVE  UNCHANGED pool \/ (queueSeq[t] \in waiters /\ Pool!CancelWaiter(queueSeq[t]))
  BY <1>6 DEF Cancel
<1>7. CASE (\E x \in Others : OtherTransferEnds(x)) \/ ClearTerminal \/ CloseSession \/ Cleanup
  BY <1>7 DEF OtherTransferEnds, ClearTerminal, CloseSession, Cleanup, ClosePool, Collect,
              CancelToken, CancelVictim, Purge
<1> QED
  BY <1>1, <1>2, <1>3, <1>4, <1>5, <1>6, <1>7 DEF Next, Worker, WorkerStep

\* Whatever happens to the pool is a step that TransferPool knows, except that a
\* session that is gone drops the connections its workers come back with.
LEMMA PoolTaken ==
    ASSUME IInv, [Next]_vars
    PROVE  \/ [Pool!Next]_pool
           \/ ~handle /\ \E t \in Tasks : at[t] = "release" /\ DropConnection(t)
<1> USE DEF IInv
<1>1. CASE UNCHANGED pool \/ PoolBackground \/ Pool!Close
  BY <1>1 DEF PoolBackground, Pool!Next
<1>2. ASSUME NEW t \in Tasks, at[t] \in {"checkout", "release"}, Pool!Worker(queueSeq[t])
      PROVE  Pool!Next
  BY <1>2, WorkersNumber DEF WorkerStages, Pool!Next, QueueSeqs
<1>3. ASSUME NEW t \in Tasks, queueSeq[t] \in waiters, Pool!CancelWaiter(queueSeq[t])
      PROVE  Pool!Next
  BY <1>3 DEF TypeOK, Pool!TypeOK, QueueSeqs, Pool!Next
<1> QED
  BY <1>1, <1>2, <1>3, PoolMoves

\* A connection dropped behind the pool's back leaves a busy slot without an
\* owner, and nothing else out of order.
LEMMA DropKeepsShape ==
    ASSUME PoolFacts!Shape, NEW t \in Tasks, queueSeq[t] \in QueueSeqs,
           PhaseOf(t) = "holding", DropConnection(t)
    PROVE  PoolFacts!Shape'
<1> DEFINE q == queueSeq[t]
<1>1. phase \in [QueueSeqs -> PoolFacts!Phases] /\ phase[q] = "holding"
  BY DEF PoolFacts!Shape, PoolFacts!TypeOK, QueueSeqs, PhaseOf
<1>2. phase' = [phase EXCEPT ![q] = "returned"]
      /\ UNCHANGED <<slots, idle, stale, nextSeq, waiters, wake, seqOf, closed, reaper>>
  BY DEF DropConnection
<1> HIDE DEF q
<1>3. PoolFacts!TypeOK'
  BY <1>1, <1>2 DEF PoolFacts!Shape, PoolFacts!TypeOK, PoolFacts!Phases, QueueSeqs
<1>4. PoolFacts!Owners' \subseteq PoolFacts!Owners /\ PoolFacts!Busy' = PoolFacts!Busy
  BY <1>1, <1>2 DEF PoolFacts!Owners, PoolFacts!Owning, PoolFacts!Busy, QueueSeqs
<1>5. PoolFacts!Lent'
  BY <1>2, <1>4 DEF PoolFacts!Shape, PoolFacts!Lent
<1>6. PoolFacts!QueueIsSleepers'
  BY <1>1, <1>2 DEF PoolFacts!Shape, PoolFacts!QueueIsSleepers, QueueSeqs
<1>7. PoolFacts!ClosedIsEmpty'
  BY <1>2 DEF PoolFacts!Shape, PoolFacts!ClosedIsEmpty
<1> QED
  BY <1>3, <1>5, <1>6, <1>7 DEF PoolFacts!Shape

-----------------------------------------------------------------------------
(* The inductive invariant, one part at a time.                            *)

\* The pool stays in shape, and whole as long as the session is registered.
LEMMA KeptNext == ASSUME IInv, [Next]_vars PROVE Kept'
<1> USE DEF IInv
<1>1. handle' => handle
  BY DEF TypeOK, Next, vars, service, session, Enqueuer, DownloadCheck, DownloadSize, DownloadInsert,
         DownloadRegister, EnqueueUpload, Worker, WorkerStep, LookUp, PoolStep, allButLate, CheckoutFailed,
         NoConnection, AcquirePermit, AbortCancelled, Recheck, Start, Begin, Move, Release,
         Finish, DropPermit, Emit, Cancel, ClearTerminal, CloseSession, Cleanup, ClosePool,
         Collect, CancelToken, CancelVictim, Purge, OtherTransferEnds, PoolBackground
<1>2. CASE [Pool!Next]_pool
  BY <1>1, <1>2, PoolSteps DEF Kept, PoolKeptWhole
<1>3. ASSUME NEW t \in Tasks, at[t] = "release", ~handle, DropConnection(t)
      PROVE  Kept'
  <2>1. queueSeq[t] \in QueueSeqs
    BY <1>3, WorkersNumber DEF WorkerStages
  <2>2. PhaseOf(t) = "holding"
    BY <1>3 DEF Holding, HoldStages
  <2>3. PoolFacts!Shape'
    BY <1>3, <2>1, <2>2, DropKeepsShape DEF Kept
  <2> QED
    BY <1>1, <1>3, <2>3 DEF Kept, PoolKeptWhole
<1> QED
  BY <1>2, <1>3, PoolTaken

\* Registering a task gives it the next number.
LEMMA RegisterCounts ==
    ASSUME TypeOK, Numbered, NEW t \in Tasks, at[t] \in EnqueueStages, Register(t)
    PROVE  /\ Numbered'
           /\ enqueueSeq' \in 1 .. Cardinality(Tasks) + 1
           /\ queueSeq' \in [Tasks -> 0 .. enqueueSeq' - 1]
<1> DEFINE Registered == {u \in Tasks : queueSeq[u] # 0}
<1>1. t \notin Registered /\ enqueueSeq \in Nat \ {0}
  BY TasksFinite DEF Numbered, TypeOK
<1>2. queueSeq \in [Tasks -> 0 .. enqueueSeq - 1]
      /\ queueSeq' = [queueSeq EXCEPT ![t] = enqueueSeq] /\ enqueueSeq' = enqueueSeq + 1
      /\ at' = [at EXCEPT ![t] = "spawned"]
  BY DEF TypeOK, Register, Go
<1>3. queueSeq' \in [Tasks -> 0 .. enqueueSeq' - 1]
      /\ queueSeq'[t] = enqueueSeq /\ \A u \in Tasks \ {t} : queueSeq'[u] = queueSeq[u]
  BY <1>1, <1>2
<1>4. Registered' = Registered \cup {t}
  BY <1>1, <1>3
<1>5. IsFiniteSet(Registered) /\ Cardinality(Registered) \in Nat
  BY TasksFinite, FS_Subset, FS_CardinalityType
<1>6. Cardinality(Registered') = Cardinality(Registered) + 1
  BY <1>1, <1>4, <1>5, FS_AddElement
<1>7. Cardinality(Registered') <= Cardinality(Tasks)
  BY TasksFinite, FS_Subset
<1>8. enqueueSeq = Cardinality(Registered) + 1
  BY DEF Numbered
<1> HIDE DEF Registered
<1>9. enqueueSeq' = Cardinality(Registered') + 1
  BY <1>2, <1>6, <1>8
<1>10. enqueueSeq' \in 1 .. Cardinality(Tasks) + 1
  BY <1>2, <1>5, <1>6, <1>7, <1>8, TasksFinite
<1>11. \A u \in Tasks : at'[u] = IF u = t THEN "spawned" ELSE at[u]
  BY <1>2 DEF TypeOK
<1>12. \A u \in Tasks : queueSeq'[u] = 0 <=> at'[u] \in EnqueueStages
  BY <1>1, <1>3, <1>11 DEF Numbered, EnqueueStages
<1>13. \A u, v \in Tasks : queueSeq'[u] = queueSeq'[v] /\ queueSeq'[u] # 0 => u = v
  <2>1. \A u \in Tasks : queueSeq[u] # enqueueSeq
    BY <1>1, <1>2
  <2> QED
    BY <1>3, <2>1 DEF Numbered
<1> QED
  BY <1>3, <1>9, <1>10, <1>12, <1>13 DEF Numbered, Registered

\* The queue numbers of a step that registers nobody stay.
LEMMA NumberedStays ==
    ASSUME Numbered, UNCHANGED <<enqueueSeq, queueSeq>>,
           \A u \in Tasks : at'[u] \in EnqueueStages <=> at[u] \in EnqueueStages
    PROVE  Numbered'
BY DEF Numbered

\* Every step keeps the types and the numbering.
LEMMA TypeNext == ASSUME IInv, [Next]_vars PROVE TypeOK' /\ Numbered'
<1>1. Pool!TypeOK'
  BY KeptNext, SameTypes DEF Kept, PoolFacts!Shape
<1> USE DEF IInv
<1>2. TypeOK
  OBVIOUS
<1>3. ASSUME NEW t \in Tasks, NEW stage \in EnqueueStages \cup WorkerStages, Go(t, stage)
      PROVE  /\ at' \in [Tasks -> EnqueueStages \cup WorkerStages]
             /\ at'[t] = stage /\ \A u \in Tasks \ {t} : at'[u] = at[u]
  BY <1>3 DEF TypeOK, Go
<1>4. ASSUME UNCHANGED <<at, queue>> PROVE Numbered'
  BY <1>4 DEF queue, Numbered
<1>5. ASSUME UNCHANGED service PROVE TypeOK' /\ Numbered'
  BY <1>1, <1>4, <1>5 DEF TypeOK, service, registry, queue, request, session
<1>6. ASSUME NEW t \in Tasks, at[t] \in EnqueueStages, NEW stage \in EnqueueStages, Go(t, stage),
             UNCHANGED <<session, queue, tokens, unsent, cancelled, permits, outcome, events>>,
             status' = status \/ status' = [status EXCEPT ![t] = "Pending"]
      PROVE  TypeOK' /\ Numbered'
  <2>1. Numbered'
    BY <1>3, <1>6, NumberedStays DEF queue
  <2>2. status' \in [Tasks -> Active \cup Terminal \cup {"absent"}]
    BY <1>6 DEF TypeOK, Active
  <2> QED
    BY <1>1, <1>3, <1>6, <2>1, <2>2 DEF TypeOK, session, queue, request
<1>7. ASSUME NEW t \in Tasks, DownloadCheck(t) \/ DownloadSize(t) \/ DownloadInsert(t)
      PROVE  TypeOK' /\ Numbered'
  BY <1>6, <1>7 DEF DownloadCheck, DownloadSize, DownloadInsert, EnqueueStages, registry
<1>8. ASSUME NEW t \in Tasks, at[t] \in EnqueueStages, Register(t),
             UNCHANGED <<session, unsent, cancelled, permits, outcome, events>>,
             status' = status \/ status' = [status EXCEPT ![t] = "Pending"]
      PROVE  TypeOK' /\ Numbered'
  <2>1. Numbered' /\ enqueueSeq' \in 1 .. Cardinality(Tasks) + 1
        /\ queueSeq' \in [Tasks -> 0 .. enqueueSeq' - 1]
    BY <1>8, RegisterCounts
  <2>2. status' \in [Tasks -> Active \cup Terminal \cup {"absent"}]
    BY <1>8 DEF TypeOK, Active
  <2>3. tokens' \subseteq Tasks /\ Go(t, "spawned") /\ UNCHANGED <<request, late>>
    BY <1>8 DEF Register, TypeOK
  <2> QED
    BY <1>1, <1>3, <1>8, <2>1, <2>2, <2>3 DEF TypeOK, session, request, WorkerStages
<1>9. ASSUME NEW t \in Tasks, DownloadRegister(t) \/ EnqueueUpload(t)
      PROVE  TypeOK' /\ Numbered'
  BY <1>6, <1>8, <1>9 DEF DownloadRegister, EnqueueUpload, EnqueueStages, registry
<1>10. ASSUME NEW t \in Tasks, at[t] \in WorkerStages, NEW stage \in WorkerStages,
              Go(t, stage), UNCHANGED <<session, queue, cancelled, events>>,
              permits' \subseteq Tasks \cup Others,
              outcome' \in [Tasks -> Terminal \cup {None, "Broken"}],
              UNCHANGED registry \/ \E s : Transition(t, s)
       PROVE  TypeOK' /\ Numbered'
  <2>1. Numbered'
    <3>1. \A u \in Tasks : at'[u] \in EnqueueStages <=> at[u] \in EnqueueStages
      BY <1>3, <1>10 DEF EnqueueStages, WorkerStages
    <3> QED
      BY <1>10, <3>1, NumberedStays DEF queue
  <2>2. /\ status' \in [Tasks -> Active \cup Terminal \cup {"absent"}]
        /\ unsent' \in [Tasks -> Active \cup Terminal \cup {None}]
        /\ tokens' \subseteq Tasks
    BY <1>10, <1>2, TransitionEffect DEF TypeOK, registry
  <2> QED
    BY <1>1, <1>3, <1>10, <2>1, <2>2 DEF TypeOK, session, queue, request
<1>11. ASSUME NEW t \in Tasks, LookUp(t) \/ Recheck(t) \/ AbortCancelled(t) \/ AcquirePermit(t)
       PROVE  TypeOK' /\ Numbered'
  <2>1. at[t] \in WorkerStages /\ \E stage \in WorkerStages : Go(t, stage)
    BY <1>11 DEF LookUp, Recheck, AbortCancelled, AcquirePermit, WorkerStages
  <2>2. UNCHANGED <<session, queue, cancelled, events, registry>>
    BY <1>11 DEF LookUp, Recheck, AbortCancelled, AcquirePermit
  <2>3. permits' \subseteq Tasks \cup Others
    BY <1>11 DEF LookUp, Recheck, AbortCancelled, AcquirePermit, TypeOK
  <2>4. outcome' \in [Tasks -> Terminal \cup {None, "Broken"}]
    BY <1>11 DEF LookUp, Recheck, AbortCancelled, AcquirePermit, TypeOK, Terminal
  <2> QED
    BY <1>10, <2>1, <2>2, <2>3, <2>4
<1>12. ASSUME NEW t \in Tasks, Begin(t) \/ Move(t) \/ Release(t)
       PROVE  TypeOK' /\ Numbered'
  <2>1. at[t] \in WorkerStages /\ \E stage \in WorkerStages : Go(t, stage)
    BY <1>12 DEF Begin, Move, Release, WorkerStages
  <2>2. UNCHANGED <<session, queue, cancelled, events, permits, registry>>
    BY <1>12 DEF Begin, Move, Release
  <2>3. outcome' \in [Tasks -> Terminal \cup {None, "Broken"}]
    BY <1>12 DEF Begin, Move, Release, TypeOK, Terminal
  <2> QED
    BY <1>10, <2>1, <2>2, <2>3 DEF TypeOK
<1>13. ASSUME NEW t \in Tasks, CheckoutFailed(t) \/ NoConnection(t) \/ Start(t)
       PROVE  TypeOK' /\ Numbered'
  <2>1. UNCHANGED registry \/ \E s : Transition(t, s)
    BY <1>13 DEF CheckoutFailed, NoConnection, Start
  <2>2. \E stage \in WorkerStages : Go(t, stage)
    BY <1>13 DEF CheckoutFailed, NoConnection, Start, WorkerStages
  <2>3. at[t] \in WorkerStages /\ UNCHANGED <<session, queue, cancelled, events, permits, outcome>>
    BY <1>13 DEF CheckoutFailed, NoConnection, Start, WorkerStages
  <2> QED
    BY <1>10, <2>1, <2>2, <2>3 DEF TypeOK
<1>14. ASSUME NEW t \in Tasks, Finish(t)
       PROVE  TypeOK' /\ Numbered'
  <2>1. \E s : Transition(t, s)
    BY <1>14 DEF Finish
  <2> QED
    BY <1>10, <1>14, <2>1 DEF Finish, WorkerStages, TypeOK
<1>15. ASSUME NEW t \in Tasks, DropPermit(t) \/ Cancel(t)
       PROVE  TypeOK' /\ Numbered'
  BY <1>1, <1>4, <1>15 DEF DropPermit, Cancel, TypeOK, registry, queue, request, session
<1>16. ASSUME NEW t \in Tasks, Emit(t)
       PROVE  TypeOK' /\ Numbered'
  <2>1. unsent[t] \in Active \cup Terminal
    BY <1>16 DEF Emit, TypeOK, None
  <2>2. Append(events[t], unsent[t]) \in Seq(Active \cup Terminal)
    BY <2>1 DEF TypeOK
  <2>3. events' \in [Tasks -> Seq(Active \cup Terminal)]
    BY <1>16, <2>2 DEF Emit, TypeOK
  <2>4. unsent' \in [Tasks -> Active \cup Terminal \cup {None}]
    BY <1>16 DEF Emit, TypeOK
  <2> QED
    BY <1>1, <1>4, <1>16, <2>3, <2>4 DEF Emit, TypeOK, queue, request, session
<1>17. CASE ClearTerminal
  <2>1. status' \in [Tasks -> Active \cup Terminal \cup {"absent"}]
    BY <1>17 DEF ClearTerminal, TypeOK
  <2> QED
    BY <1>1, <1>4, <1>17, <2>1 DEF ClearTerminal, TypeOK, queue, request, session
<1>18. CASE CloseSession \/ ClosePool \/ Collect
  BY <1>1, <1>4, <1>18 DEF CloseSession, ClosePool, Collect, TypeOK, registry, queue, request
<1>19. CASE CancelToken \/ Purge
  BY <1>1, <1>4, <1>19 DEF CancelToken, Purge, TypeOK, registry, queue, request
<1>20. CASE CancelVictim
  <2>1. UNCHANGED <<status, events>>
        \/ \E t \in Tasks : /\ status' \in Evicted([status EXCEPT ![t] = "Cancelled"])
                            /\ events' = [events EXCEPT ![t] = Append(@, "Cancelled")]
    BY <1>20 DEF CancelVictim, TypeOK
  <2>2. \A t \in Tasks : [status EXCEPT ![t] = "Cancelled"] \in [Tasks -> Active \cup Terminal \cup {"absent"}]
    BY DEF TypeOK, Terminal
  <2>3. \A t \in Tasks : Append(events[t], "Cancelled") \in Seq(Active \cup Terminal)
    BY DEF TypeOK, Terminal
  <2>4. status' \in [Tasks -> Active \cup Terminal \cup {"absent"}]
    BY <2>1, <2>2, EvictedKeeps DEF TypeOK
  <2>5. events' \in [Tasks -> Seq(Active \cup Terminal)]
    BY <2>1, <2>3 DEF TypeOK
  <2> QED
    BY <1>1, <1>4, <1>20, <2>4, <2>5 DEF CancelVictim, TypeOK, queue, request
<1>21. ASSUME PoolBackground \/ UNCHANGED vars
       PROVE  TypeOK' /\ Numbered'
  BY <1>5, <1>21 DEF PoolBackground, vars
<1>22. ASSUME NEW t \in Tasks, PoolStep(t)
       PROVE  TypeOK' /\ Numbered'
  BY <1>1, <1>22 DEF PoolStep, allButLate, TypeOK, Numbered, registry, request, session
<1>23. ASSUME NEW x \in Others, OtherTransferEnds(x)
       PROVE  TypeOK' /\ Numbered'
  BY <1>1, <1>4, <1>23 DEF OtherTransferEnds, TypeOK, registry, queue, request, session
<1> QED
  BY <1>7, <1>9, <1>11, <1>12, <1>13, <1>14, <1>15, <1>16, <1>17, <1>18, <1>19, <1>20, <1>21, <1>22,
     <1>23 DEF Next, Enqueuer, Worker, WorkerStep, Cleanup

\* Only closing the session makes it other than open, and a session that is
\* still open after a step was not touched by it.
LEMMA SessionMoves ==
    ASSUME IInv, [Next]_vars
    PROVE  /\ closing' = "no" => UNCHANGED session
           /\ handle' <=> closing' = "no"
<1> USE DEF IInv, Session, session
<1>1. ASSUME UNCHANGED session
      PROVE  handle' <=> closing' = "no"
  BY <1>1
<1>2. ASSUME NEW t \in Tasks, Enqueuer(t) \/ EnqueueUpload(t) \/ Cancel(t)
      PROVE  UNCHANGED session
  BY <1>2 DEF Enqueuer, DownloadCheck, DownloadSize, DownloadInsert, DownloadRegister,
              EnqueueUpload, Cancel
<1>3. ASSUME NEW t \in Tasks, Worker(t)
      PROVE  UNCHANGED session
  BY <1>3 DEF Worker, WorkerStep, LookUp, PoolStep, allButLate, CheckoutFailed, NoConnection, AcquirePermit,
              AbortCancelled, Recheck, Start, Begin, Move, Release, Finish, DropPermit, Emit,
              service
<1>4. ASSUME (\E x \in Others : OtherTransferEnds(x)) \/ ClearTerminal \/ PoolBackground \/ UNCHANGED vars
      PROVE  UNCHANGED session
  BY <1>4 DEF OtherTransferEnds, ClearTerminal, PoolBackground, vars, service
<1>5. CASE CloseSession \/ Cleanup
  BY <1>5 DEF CloseSession, Cleanup, ClosePool, Collect, CancelToken, CancelVictim, Purge
<1> QED
  BY <1>1, <1>2, <1>3, <1>4, <1>5 DEF Next

\* The pool of an open session stays open, and turns no worker away.
LEMMA SessionNext == ASSUME IInv, [Next]_vars PROVE Session'
<1> USE DEF IInv
<1>1. handle' <=> closing' = "no"
  BY SessionMoves
<1> SUFFICES ASSUME closing' = "no"
             PROVE  ~closed' /\ \A q \in QueueSeqs : phase'[q] # "Closed"
  BY <1>1, SessionMoves DEF Session, session
<1>2. closing = "no" /\ handle /\ ~closed /\ \A q \in QueueSeqs : phase[q] # "Closed"
  BY SessionMoves DEF Session, session
<1>3. ASSUME NEW t \in Tasks, at[t] \in {"checkout", "release"}, Pool!Worker(queueSeq[t])
      PROVE  ~closed' /\ \A q \in QueueSeqs : phase'[q] # "Closed"
  <2>1. queueSeq[t] \in QueueSeqs
    BY <1>3, WorkersNumber DEF WorkerStages
  <2> QED
    BY <1>2, <1>3, <2>1, WorkerFrame DEF TypeOK
<1>4. ASSUME UNCHANGED <<phase, closed>>
      PROVE  ~closed' /\ \A q \in QueueSeqs : phase'[q] # "Closed"
  BY <1>2, <1>4
<1>5. ASSUME NEW t \in Tasks, Pool!CancelWaiter(queueSeq[t]) PROVE UNCHANGED <<phase, closed>>
  BY <1>5 DEF Pool!CancelWaiter
<1>6. ASSUME UNCHANGED pool \/ PoolBackground PROVE UNCHANGED <<phase, closed>>
  BY <1>6 DEF pool, PoolBackground, Pool!Reaper, Pool!ReaperScan, Pool!ReaperWake, Pool!IdleTimeout
<1> QED
  BY <1>2, <1>3, <1>4, <1>5, <1>6, PoolMoves

\* A worker comes to hold a connection by its checkout, and keeps its number.
LEMMA HoldersMove ==
    ASSUME IInv, [Next]_vars, NEW u \in Tasks, at'[u] \in HoldStages
    PROVE  /\ queueSeq'[u] = queueSeq[u]
           /\ at[u] \in HoldStages \/ (PhaseOf(u) = "holding" /\ UNCHANGED pool)
<1> USE DEF IInv
<1> DEFINE Goal == /\ queueSeq'[u] = queueSeq[u]
                   /\ at[u] \in HoldStages \/ (PhaseOf(u) = "holding" /\ UNCHANGED pool)
<1>1. ASSUME NEW t \in Tasks, NEW stage, Go(t, stage), stage \notin HoldStages, UNCHANGED queueSeq
      PROVE  Goal
  BY <1>1 DEF Go, TypeOK
<1>2. ASSUME NEW t \in Tasks, NEW stage, Go(t, stage), at[t] \in HoldStages, UNCHANGED queueSeq
      PROVE  Goal
  BY <1>2 DEF Go, TypeOK
<1>3. ASSUME UNCHANGED <<at, queueSeq>> PROVE Goal
  BY <1>3
<1>4. ASSUME NEW t \in Tasks, Register(t) PROVE Goal
  BY <1>4 DEF Register, Go, TypeOK, HoldStages
<1>5. ASSUME NEW t \in Tasks, Enqueuer(t) \/ EnqueueUpload(t) PROVE Goal
  BY <1>1, <1>4, <1>5 DEF Enqueuer, DownloadCheck, DownloadSize, DownloadInsert, DownloadRegister,
              EnqueueUpload, queue, HoldStages
<1>6. ASSUME NEW t \in Tasks, LookUp(t) \/ CheckoutFailed(t) \/ NoConnection(t) \/ Release(t) \/ Finish(t)
      PROVE  Goal
  BY <1>1, <1>6 DEF LookUp, CheckoutFailed, NoConnection, Release, Finish, queue, HoldStages
<1>7. ASSUME NEW t \in Tasks, Recheck(t) \/ Start(t) \/ Begin(t) \/ Move(t)
      PROVE  Goal
  BY <1>2, <1>7 DEF Recheck, Start, Begin, Move, queue, HoldStages
<1>8. ASSUME NEW t \in Tasks, AcquirePermit(t) \/ AbortCancelled(t)
      PROVE  Goal
  <2>1. UNCHANGED <<pool, queueSeq>> /\ \E stage : Go(t, stage)
    BY <1>8 DEF AcquirePermit, AbortCancelled, queue
  <2>2. at[t] \in HoldStages \/ PhaseOf(t) = "holding"
    BY <1>8 DEF AcquirePermit, AbortCancelled, HoldStages
  <2> QED
    BY <2>1, <2>2 DEF Go, TypeOK
<1>9. ASSUME NEW t \in Tasks, PoolStep(t) \/ DropPermit(t) \/ Emit(t) \/ Cancel(t)
      PROVE  Goal
  BY <1>3, <1>9 DEF PoolStep, allButLate, DropPermit, Emit, Cancel, queue, service
<1>10. CASE \/ (\E x \in Others : OtherTransferEnds(x)) \/ ClearTerminal
            \/ CloseSession \/ Cleanup \/ PoolBackground \/ UNCHANGED vars
  BY <1>3, <1>10 DEF ClearTerminal, CloseSession, Cleanup, ClosePool, Collect, CancelToken,
                     CancelVictim, Purge, OtherTransferEnds, PoolBackground, queue, service, vars
<1> QED
  BY <1>5, <1>6, <1>7, <1>8, <1>9, <1>10 DEF Next, Worker, WorkerStep

\* A connection is taken from nobody but its holder.
LEMMA HoldingNext == ASSUME IInv, [Next]_vars PROVE Holding'
<1> USE DEF IInv
<1> SUFFICES ASSUME NEW u \in Tasks, at'[u] \in HoldStages
             PROVE  phase'[queueSeq[u]] = "holding"
  BY HoldersMove DEF Holding, PhaseOf
<1>1. PhaseOf(u) = "holding"
  BY HoldersMove DEF Holding
<1>2. CASE UNCHANGED phase
  BY <1>1, <1>2 DEF PhaseOf
<1>3. CASE UNCHANGED pool
  BY <1>2, <1>3 DEF pool
<1>4. ASSUME NEW t \in Tasks, t # u, at[t] \in WorkerStages, at[u] \in HoldStages,
             Pool!Worker(queueSeq[t]) \/ DropConnection(t)
      PROVE  phase'[queueSeq[u]] = "holding"
  <2>1. queueSeq[t] \in QueueSeqs /\ queueSeq[u] \in QueueSeqs
    BY <1>4, WorkersNumber DEF WorkerStages, HoldStages
  <2>2. queueSeq[t] # queueSeq[u]
    BY <1>4, <2>1 DEF Numbered, QueueSeqs
  <2>3. phase \in [QueueSeqs -> Pool!Phases]
    BY DEF TypeOK, Pool!TypeOK, QueueSeqs
  <2>4. phase'[queueSeq[u]] = phase[queueSeq[u]]
    BY <1>4, <2>1, <2>2, <2>3, WorkerFrame DEF DropConnection, TypeOK
  <2> QED
    BY <1>1, <2>4 DEF PhaseOf
<1>5. ASSUME NEW t \in Tasks, at[t] = "checkout", Pool!Worker(queueSeq[t]), UNCHANGED allButLate
      PROVE  phase'[queueSeq[u]] = "holding"
  <2>1. at[u] \in HoldStages
    BY <1>5 DEF allButLate
  <2> QED
    BY <1>4, <1>5, <2>1 DEF HoldStages, WorkerStages
<1>6. ASSUME NEW t \in Tasks, at[t] = "release", Go(t, "finish"),
             Pool!Worker(queueSeq[t]) \/ DropConnection(t)
      PROVE  phase'[queueSeq[u]] = "holding"
  <2>1. t # u
    BY <1>6 DEF Go, TypeOK, HoldStages
  <2>2. CASE at[u] \in HoldStages
    BY <1>4, <1>6, <2>1, <2>2 DEF WorkerStages
  <2> QED
    BY <1>3, <2>2, HoldersMove
<1>7. ASSUME NEW t \in Tasks, Pool!CancelWaiter(queueSeq[t]) PROVE UNCHANGED phase
  BY <1>7 DEF Pool!CancelWaiter
<1>8. ASSUME PoolBackground \/ Pool!Close PROVE UNCHANGED phase
  BY <1>8 DEF PoolBackground, Pool!Reaper, Pool!ReaperScan, Pool!ReaperWake, Pool!IdleTimeout, Pool!Close
<1> QED
  BY <1>2, <1>3, <1>5, <1>6, <1>7, <1>8, PoolMoves

\* The stages of a download are entered by downloads only.
LEMMA AskedNext == ASSUME IInv, [Next]_vars PROVE Asked'
<1> USE DEF IInv
<1> SUFFICES ASSUME NEW u \in Tasks, at'[u] \in {"size", "insert", "register"}
             PROVE  u \in downloads'
  BY DEF Asked
<1>1. downloads' = downloads
  BY DEF Next, vars, service, queue, request, Enqueuer, DownloadCheck, DownloadSize,
         DownloadInsert, DownloadRegister, Register, EnqueueUpload, Worker, WorkerStep, LookUp, PoolStep, allButLate,
         CheckoutFailed, NoConnection, AcquirePermit, AbortCancelled, Recheck, Start, Begin,
         Move, Release, Finish, DropPermit, Emit, Cancel, ClearTerminal, CloseSession, Cleanup,
         ClosePool, Collect, CancelToken, CancelVictim, Purge, OtherTransferEnds, PoolBackground
<1>2. CASE at'[u] = at[u]
  BY <1>1, <1>2 DEF Asked
<1>3. ASSUME NEW t \in Tasks, NEW stage, Go(t, stage), stage \notin {"size", "insert", "register"}
      PROVE  at'[u] = at[u]
  BY <1>3 DEF Go, TypeOK
<1>4. ASSUME NEW t \in Tasks, NEW stage, Go(t, stage), t \in downloads
      PROVE  u \in downloads'
  BY <1>1, <1>2, <1>4 DEF Go, TypeOK
<1>5. ASSUME NEW t \in Tasks, DownloadCheck(t) \/ DownloadSize(t) \/ DownloadInsert(t)
      PROVE  u \in downloads'
  <2>1. \E stage : Go(t, stage)
    BY <1>5 DEF DownloadCheck, DownloadSize, DownloadInsert
  <2>2. t \in downloads
    BY <1>5 DEF DownloadCheck, DownloadSize, DownloadInsert, Asked
  <2> QED
    BY <1>4, <2>1, <2>2
<1>6. ASSUME NEW t \in Tasks, DownloadRegister(t) \/ EnqueueUpload(t)
      PROVE  at'[u] = at[u]
  BY <1>3, <1>6 DEF DownloadRegister, EnqueueUpload, Register
<1>7. ASSUME NEW t \in Tasks, LookUp(t) \/ CheckoutFailed(t) \/ NoConnection(t) \/ AcquirePermit(t)
             \/ AbortCancelled(t) \/ Recheck(t) \/ Start(t) \/ Begin(t) \/ Move(t) \/ Release(t) \/ Finish(t)
      PROVE  at'[u] = at[u]
  BY <1>3, <1>7 DEF LookUp, CheckoutFailed, NoConnection, AcquirePermit, AbortCancelled, Recheck,
                    Start, Begin, Move, Release, Finish
<1>8. ASSUME NEW t \in Tasks, PoolStep(t) \/ DropPermit(t) \/ Emit(t) \/ Cancel(t)
      PROVE  at'[u] = at[u]
  BY <1>8 DEF PoolStep, allButLate, DropPermit, Emit, Cancel, service
<1>9. ASSUME \/ (\E x \in Others : OtherTransferEnds(x)) \/ ClearTerminal
             \/ CloseSession \/ Cleanup \/ PoolBackground \/ UNCHANGED vars
      PROVE  at'[u] = at[u]
  BY <1>9 DEF ClearTerminal, CloseSession, Cleanup, ClosePool, Collect, CancelToken,
              CancelVictim, Purge, OtherTransferEnds, PoolBackground, service, vars
<1> QED
  BY <1>2, <1>5, <1>6, <1>7, <1>8, <1>9 DEF Next, Enqueuer, Worker, WorkerStep

\* The invariant holds when the session is registered.
LEMMA IInvInit == Init => IInv
<1> SUFFICES ASSUME Init PROVE IInv
  OBVIOUS
<1>1. PoolFacts!Shape
  BY SameTypes, PoolFacts!ShapeInit, TasksFinite DEF Init
<1>2. Pool!TypeOK
  BY <1>1, SameTypes DEF PoolFacts!Shape
<1>3. Cardinality({t \in Tasks : queueSeq[t] # 0}) = 0
  <2>1. {t \in Tasks : queueSeq[t] # 0} = {}
    BY DEF Init
  <2> QED
    BY <2>1, FS_EmptySet
<1>4. TypeOK
  BY <1>2, TasksFinite DEF Init, TypeOK, EnqueueStages
<1>5. Numbered
  <2>1. \A t \in Tasks : queueSeq[t] = 0 /\ at[t] \in EnqueueStages
    BY DEF Init, EnqueueStages
  <2>2. enqueueSeq = 0 + 1
    BY DEF Init
  <2> QED
    BY <1>3, <2>1, <2>2 DEF Numbered
<1>6. PoolKeptWhole
  <2>1. Pool!Owners = {} /\ Pool!Busy = {} /\ waiters = {}
    BY DEF Init, Pool!Init, Pool!Owners, Pool!Owning, Pool!Busy
  <2> QED
    BY <2>1 DEF PoolKeptWhole, Pool!Ownership, Pool!NoLostWakeup
<1>7. Holding /\ Asked
  BY DEF Init, Holding, HoldStages, Asked
<1>8. Session
  BY DEF Init, Pool!Init, Session, QueueSeqs
<1> QED
  BY <1>1, <1>4, <1>5, <1>6, <1>7, <1>8 DEF IInv, Kept

\* The invariant: numbers, connections and the session fit together, whatever
\* enqueues, ends, cancels and closes concurrently.
THEOREM Invariant == Spec => []IInv
<1>1. IInv /\ [Next]_vars => IInv'
  BY KeptNext, TypeNext, SessionNext, HoldingNext, AskedNext DEF IInv
<1> QED
  BY <1>1, IInvInit, PTL DEF Spec

\* The records, tokens, permits and events of the tasks keep their types, and so
\* does the pool.
THEOREM TypeCorrect == Spec => []TypeOK
BY Invariant, PTL DEF IInv

\* release_transfer_connection and the failing checkouts lose no slot of the pool
\* while the session is registered, and leave nobody asleep in its queue.
THEOREM PoolKeptWholeHolds == Spec => []PoolKeptWhole
BY Invariant, PTL DEF IInv, Kept
-----------------------------------------------------------------------------
(* The steps of a single task.                                             *)

\* A step that leaves a task alone may still evict its record.
LeftAlone(u) ==
    /\ at'[u] = at[u] /\ outcome'[u] = outcome[u]
    /\ unsent'[u] = unsent[u] /\ events'[u] = events[u]
    /\ status'[u] = status[u] \/ (status[u] \in Terminal /\ status'[u] = "absent")

\* What closing the session does to a task.
Dismissed(u) ==
    /\ closing = "cancel"
    /\ at'[u] = at[u] /\ outcome'[u] = outcome[u] /\ unsent'[u] = unsent[u]
    /\ \/ status'[u] = "absent" /\ events'[u] = events[u]
       \/ /\ status[u] \in Active /\ status'[u] \in {"Cancelled", "absent"}
          /\ events'[u] = Append(events[u], "Cancelled")

OwnStep(u) == Enqueuer(u) \/ EnqueueUpload(u) \/ Worker(u)

\* A step leaves a task alone, dismisses it, or is its own.
LEMMA StepOfTask ==
    ASSUME TypeOK, [Next]_vars, NEW u \in Tasks
    PROVE  LeftAlone(u) \/ Dismissed(u) \/ OwnStep(u)
<1>1. ASSUME NEW t \in Tasks, t # u, Enqueuer(t) \/ EnqueueUpload(t)
      PROVE  LeftAlone(u)
  <2>1. \E stage : Go(t, stage)
    BY <1>1 DEF Enqueuer, DownloadCheck, DownloadSize, DownloadInsert, DownloadRegister,
                Register, EnqueueUpload
  <2>2. status' = status \/ status' = [status EXCEPT ![t] = "Pending"]
    BY <1>1 DEF Enqueuer, DownloadCheck, DownloadSize, DownloadInsert, DownloadRegister,
                EnqueueUpload, registry
  <2>3. UNCHANGED <<unsent, outcome, events>>
    BY <1>1 DEF Enqueuer, DownloadCheck, DownloadSize, DownloadInsert, DownloadRegister,
                EnqueueUpload, registry
  <2> QED
    BY <1>1, <2>1, <2>2, <2>3 DEF LeftAlone, Go, TypeOK
<1>2. ASSUME NEW t \in Tasks, t # u, NEW stage, Go(t, stage), UNCHANGED events,
             outcome' = outcome \/ \E o : outcome' = [outcome EXCEPT ![t] = o],
             UNCHANGED registry \/ \E s : Transition(t, s)
      PROVE  LeftAlone(u)
  <2>1. at'[u] = at[u] /\ outcome'[u] = outcome[u]
    BY <1>2 DEF Go, TypeOK
  <2>2. /\ unsent'[u] = unsent[u]
        /\ status'[u] = status[u] \/ (status[u] \in Terminal /\ status'[u] = "absent")
    BY <1>2, TransitionEffect DEF registry
  <2> QED
    BY <1>2, <2>1, <2>2 DEF LeftAlone
<1>3. ASSUME NEW t \in Tasks, t # u, LookUp(t) \/ CheckoutFailed(t) \/ NoConnection(t) \/ AcquirePermit(t)
                                     \/ AbortCancelled(t) \/ Recheck(t)
      PROVE  LeftAlone(u)
  <2>1. \E stage : Go(t, stage)
    BY <1>3 DEF LookUp, CheckoutFailed, NoConnection, AcquirePermit, AbortCancelled, Recheck
  <2>2. outcome' = outcome \/ \E o : outcome' = [outcome EXCEPT ![t] = o]
    BY <1>3 DEF LookUp, CheckoutFailed, NoConnection, AcquirePermit, AbortCancelled, Recheck
  <2>3. UNCHANGED registry \/ \E s : Transition(t, s)
    BY <1>3 DEF LookUp, CheckoutFailed, NoConnection, AcquirePermit, AbortCancelled, Recheck
  <2>4. UNCHANGED events
    BY <1>3 DEF LookUp, CheckoutFailed, NoConnection, AcquirePermit, AbortCancelled, Recheck
  <2> QED
    BY <1>2, <1>3, <2>1, <2>2, <2>3, <2>4
<1>4. ASSUME NEW t \in Tasks, t # u, Start(t) \/ Begin(t) \/ Move(t) \/ Release(t) \/ Finish(t)
      PROVE  LeftAlone(u)
  <2>1. \E stage : Go(t, stage)
    BY <1>4 DEF Start, Begin, Move, Release, Finish
  <2>2. outcome' = outcome \/ \E o : outcome' = [outcome EXCEPT ![t] = o]
    BY <1>4 DEF Start, Begin, Move, Release, Finish
  <2>3. UNCHANGED registry \/ \E s : Transition(t, s)
    BY <1>4 DEF Start, Begin, Move, Release, Finish
  <2>4. UNCHANGED events
    BY <1>4 DEF Start, Begin, Move, Release, Finish
  <2> QED
    BY <1>2, <1>4, <2>1, <2>2, <2>3, <2>4
<1>5. ASSUME NEW t \in Tasks, t # u, PoolStep(t) \/ DropPermit(t) \/ Emit(t)
      PROVE  LeftAlone(u)
  BY <1>5 DEF PoolStep, allButLate, DropPermit, Emit, service, registry, LeftAlone, TypeOK
<1>6. ASSUME NEW t \in Tasks, Cancel(t)
      PROVE  LeftAlone(u)
  BY <1>6 DEF Cancel, registry, LeftAlone
<1>7. CASE ClearTerminal
  BY <1>7 DEF ClearTerminal, LeftAlone
<1>8. CASE \/ (\E x \in Others : OtherTransferEnds(x)) \/ CloseSession \/ ClosePool
           \/ Collect \/ CancelToken \/ PoolBackground \/ UNCHANGED vars
  BY <1>8 DEF OtherTransferEnds, CloseSession, ClosePool, Collect, CancelToken, PoolBackground, vars, service,
              registry, LeftAlone
<1>9. CASE CancelVictim
  <2>1. closing = "cancel" /\ UNCHANGED <<at, outcome, unsent>>
    BY <1>9 DEF CancelVictim
  <2>2. CASE UNCHANGED <<status, events>>
    BY <2>1, <2>2 DEF LeftAlone
  <2>3. ASSUME NEW t \in Tasks, <<status[t], "Cancelled">> \in Legal,
               status' \in Evicted([status EXCEPT ![t] = "Cancelled"]),
               events' = [events EXCEPT ![t] = Append(@, "Cancelled")]
        PROVE  LeftAlone(u) \/ Dismissed(u)
    <3> DEFINE st == [status EXCEPT ![t] = "Cancelled"]
    <3>1. st \in [Tasks -> Active \cup Terminal \cup {"absent"}] /\ status[t] \in Active
      BY <2>3 DEF TypeOK, Terminal, Legal, Active
    <3>2. status'[u] = st[u] \/ (st[u] \in Terminal /\ status'[u] = "absent")
      <4> HIDE DEF st
      <4> QED
        BY <2>3, <3>1, EvictedKeeps DEF st
    <3>3. CASE u = t
      <4>1. status'[u] \in {"Cancelled", "absent"}
        BY <3>2, <3>3 DEF TypeOK
      <4>2. events'[u] = Append(events[u], "Cancelled")
        BY <2>3, <3>3 DEF TypeOK
      <4> QED
        BY <2>1, <3>1, <3>3, <4>1, <4>2 DEF Dismissed
    <3>4. CASE u # t
      BY <2>1, <2>3, <3>2, <3>4 DEF LeftAlone, TypeOK
    <3> QED
      BY <3>3, <3>4
  <2> QED
    BY <1>9, <2>2, <2>3 DEF CancelVictim, TypeOK
<1>10. CASE Purge
  BY <1>10 DEF Purge, Dismissed
<1> QED
  BY <1>1, <1>3, <1>4, <1>5, <1>6, <1>7, <1>8, <1>9, <1>10 DEF Next, OwnStep, Worker, WorkerStep, Cleanup
\* What a worker does to the record of its own task.
LEMMA WorkerEffect ==
    ASSUME TypeOK, NEW u \in Tasks, Worker(u)
    PROVE  /\ at'[u] = at[u] \/ {at[u], at'[u]} \subseteq WorkerStages
           /\ \/ UNCHANGED <<status, unsent, events>>
              \/ UNCHANGED events /\ \E s : Transition(u, s)
              \/ Emit(u)
<1>1. ASSUME NEW stage \in WorkerStages, Go(u, stage) PROVE at'[u] \in WorkerStages
  BY <1>1 DEF Go, TypeOK
<1>2. CASE LookUp(u) \/ CheckoutFailed(u) \/ NoConnection(u) \/ AcquirePermit(u)
           \/ AbortCancelled(u) \/ Recheck(u)
  <2>1. at[u] \in WorkerStages /\ at'[u] \in WorkerStages
    BY <1>1, <1>2 DEF LookUp, CheckoutFailed, NoConnection, AcquirePermit, AbortCancelled, Recheck, WorkerStages
  <2>2. \/ UNCHANGED <<status, unsent, events>>
        \/ UNCHANGED events /\ \E s : Transition(u, s)
    BY <1>2 DEF LookUp, CheckoutFailed, NoConnection, AcquirePermit, AbortCancelled, Recheck, registry
  <2> QED
    BY <2>1, <2>2
<1>3. CASE Start(u) \/ Begin(u) \/ Move(u) \/ Release(u) \/ Finish(u)
  <2>1. at[u] \in WorkerStages /\ at'[u] \in WorkerStages
    BY <1>1, <1>3 DEF Start, Begin, Move, Release, Finish, WorkerStages
  <2>2. \/ UNCHANGED <<status, unsent, events>>
        \/ UNCHANGED events /\ \E s : Transition(u, s)
    BY <1>3 DEF Start, Begin, Move, Release, Finish, registry
  <2> QED
    BY <2>1, <2>2
<1>4. CASE PoolStep(u) \/ DropPermit(u) \/ Emit(u)
  BY <1>4 DEF PoolStep, allButLate, DropPermit, Emit, service, registry
<1> QED
  BY <1>2, <1>3, <1>4 DEF Worker, WorkerStep

\* Enqueueing tells the front end nothing, and activates the task in one step.
LEMMA EnqueueEffect ==
    ASSUME TypeOK, NEW u \in Tasks, Enqueuer(u) \/ EnqueueUpload(u)
    PROVE  /\ UNCHANGED <<unsent, events>>
           /\ \/ at[u] \in Fresh /\ at'[u] \in Fresh /\ UNCHANGED status
              \/ at[u] \in Fresh /\ at'[u] \in {"register", "spawned"} /\ status'[u] = "Pending"
              \/ at[u] = "register" /\ at'[u] = "spawned" /\ UNCHANGED status
<1>1. ASSUME NEW stage \in EnqueueStages \cup WorkerStages, Go(u, stage) PROVE at'[u] = stage
  BY <1>1 DEF Go, TypeOK
<1>2. CASE DownloadCheck(u) \/ DownloadSize(u)
  BY <1>1, <1>2 DEF DownloadCheck, DownloadSize, EnqueueStages, registry, Fresh
<1>3. CASE DownloadInsert(u)
  BY <1>1, <1>3 DEF DownloadInsert, EnqueueStages, Fresh, TypeOK
<1>4. CASE DownloadRegister(u)
  BY <1>1, <1>4 DEF DownloadRegister, Register, WorkerStages, Fresh
<1>5. CASE EnqueueUpload(u)
  BY <1>1, <1>5 DEF EnqueueUpload, Register, WorkerStages, EnqueueStages, Fresh, TypeOK
<1> QED
  BY <1>2, <1>3, <1>4, <1>5 DEF Enqueuer

\* One more event comes last.
LEMMA Appended ==
    ASSUME NEW u \in Tasks, TypeOK, NEW s \in Active \cup Terminal,
           events'[u] = Append(events[u], s)
    PROVE  /\ Len(events[u]) \in Nat /\ DOMAIN events[u] = 1 .. Len(events[u])
           /\ DOMAIN events'[u] = 1 .. Len(events[u]) + 1
           /\ events'[u][Len(events[u]) + 1] = s
           /\ \A i \in DOMAIN events[u] : events'[u][i] = events[u][i]
BY DEF TypeOK

-----------------------------------------------------------------------------
(* One terminal event.                                                     *)

\* A record is written when the stages of enqueueing are behind the task.
LEMMA UnbornNext == ASSUME IInv, Unborn, [Next]_vars PROVE Unborn'
<1> USE DEF IInv
<1> SUFFICES ASSUME NEW u \in Tasks, at'[u] \in Fresh PROVE status'[u] = "absent"
  BY DEF Unborn
<1>1. CASE LeftAlone(u)
  BY <1>1 DEF LeftAlone, Unborn, Terminal
<1>2. CASE Dismissed(u)
  BY <1>2 DEF Dismissed, Unborn, Active
<1>3. CASE Enqueuer(u) \/ EnqueueUpload(u)
  BY <1>3, EnqueueEffect DEF Unborn, Fresh
<1>4. CASE Worker(u)
  <2>1. at[u] \in Fresh /\ status[u] = "absent"
    BY <1>4, WorkerEffect DEF Unborn, WorkerStages, Fresh
  <2> QED
    BY <1>4, <2>1, WorkerEffect, TransitionEffect DEF Emit, Legal
<1> QED
  BY <1>1, <1>2, <1>3, <1>4, StepOfTask DEF OwnStep

\* Whoever ends a task finds it active, so nobody has ended it before.
LEMMA OnceNext == ASSUME IInv, Unborn, Once, [Next]_vars PROVE Once'
<1> USE DEF IInv
<1> SUFFICES ASSUME NEW u \in Tasks
             PROVE  (OnceOf(u))'
  BY DEF Once
<1>0. OnceOf(u)
  BY DEF Once
<1>1. CASE LeftAlone(u)
  BY <1>0, <1>1 DEF LeftAlone, OnceOf, Silent, Terminal, Active
<1>2. CASE Dismissed(u)
  <2>1. CASE status'[u] = "absent" /\ events'[u] = events[u]
    BY <1>0, <1>2, <2>1 DEF Dismissed, OnceOf, Silent, Active
  <2>2. CASE /\ status[u] \in Active /\ status'[u] \in {"Cancelled", "absent"}
             /\ events'[u] = Append(events[u], "Cancelled")
    <3>1. Silent(u) /\ unsent'[u] = unsent[u]
      BY <1>0, <1>2, <2>2 DEF Dismissed, OnceOf
    <3>2. at'[u] \notin Fresh /\ status'[u] \notin Active
      BY <1>2, <2>2 DEF Dismissed, Unborn, Active
    <3> QED
      BY <2>2, <3>1, <3>2, Appended DEF OnceOf, Silent, Terminal
  <2> QED
    BY <1>2, <2>1, <2>2 DEF Dismissed
<1>3. CASE Enqueuer(u) \/ EnqueueUpload(u)
  <2>1. UNCHANGED <<unsent, events>> /\ (Silent(u) \/ (status'[u] = status[u] /\ at'[u] = "spawned"))
    BY <1>0, <1>3, EnqueueEffect DEF OnceOf, Fresh
  <2> QED
    BY <1>0, <2>1 DEF OnceOf, Silent, Fresh
<1>4. CASE Worker(u)
  <2>1. at'[u] \in Fresh => at[u] \in Fresh
    BY <1>4, WorkerEffect DEF WorkerStages, Fresh
  <2>2. CASE UNCHANGED <<status, unsent, events>>
    BY <1>0, <2>1, <2>2 DEF OnceOf, Silent
  <2>3. ASSUME NEW s, Transition(u, s), UNCHANGED events PROVE (OnceOf(u))'
    <3>1. CASE <<status[u], s>> \in Legal
      <4>1. status[u] \in Active /\ s \in {"Running"} \cup Terminal
        BY <3>1 DEF Legal, Active, Terminal
      <4>2. Silent(u) /\ at'[u] \notin Fresh
        BY <1>0, <2>1, <4>1 DEF OnceOf, Unborn, Active
      <4>3. unsent'[u] = s /\ (status'[u] = s \/ status'[u] = "absent")
        BY <2>3, <3>1, TransitionEffect
      <4> QED
        BY <2>3, <4>1, <4>2, <4>3 DEF OnceOf, Silent, Active, Terminal
    <3>2. CASE <<status[u], s>> \notin Legal
      BY <2>2, <2>3, <3>2, TransitionEffect
    <3> QED
      BY <3>1, <3>2
  <2>4. CASE Emit(u)
    <3>1. /\ unsent[u] \in Active \cup Terminal
          /\ events'[u] = Append(events[u], unsent[u])
          /\ unsent'[u] = None /\ status'[u] = status[u]
      BY <2>4 DEF Emit, TypeOK, None
    <3> QED
      BY <1>0, <2>1, <3>1, Appended DEF OnceOf, Silent, Terminal, None
  <2> QED
    BY <1>4, <2>2, <2>3, <2>4, WorkerEffect
<1> QED
  BY <1>1, <1>2, <1>3, <1>4, StepOfTask DEF OwnStep

\* transition_task lets one of the worker, cancel_task and cleanup_session end a
\* task, so the front end hears of its end at most once.
THEOREM OneTerminalEventHolds == Spec => []OneTerminalEvent
<1>1. Init => Unborn /\ Once
  BY DEF Init, Unborn, Once, OnceOf, Silent, None, Terminal, Active
<1>2. IInv /\ Unborn /\ Once /\ [Next]_vars => Unborn' /\ Once'
  BY UnbornNext, OnceNext
<1>3. Once => OneTerminalEvent
  BY DEF Once, OnceOf, OneTerminalEvent
<1> QED
  BY <1>1, <1>2, <1>3, Invariant, PTL DEF Spec
-----------------------------------------------------------------------------
(* Uploads of one target.                                                  *)

\* A task becomes active by being enqueued, and in no other way.
LEMMA Activated ==
    ASSUME TypeOK, [Next]_vars, NEW u \in Tasks, status'[u] \in Active
    PROVE  status[u] \in Active \/ DownloadInsert(u) \/ EnqueueUpload(u)
<1>1. CASE LeftAlone(u) \/ Dismissed(u)
  BY <1>1 DEF LeftAlone, Dismissed, Active
<1>2. CASE Enqueuer(u) \/ EnqueueUpload(u)
  BY <1>2 DEF Enqueuer, DownloadCheck, DownloadSize, DownloadRegister, registry
<1>3. CASE Worker(u)
  BY <1>3, WorkerEffect, TransitionEffect DEF Emit, Legal, Active
<1> QED
  BY <1>1, <1>2, <1>3, StepOfTask DEF OwnStep

\* What a task was asked for with does not change.
LEMMA RequestStays == ASSUME [Next]_vars PROVE UNCHANGED request
BY DEF Next, vars, service, queue, Enqueuer, DownloadCheck, DownloadSize, DownloadInsert,
       DownloadRegister, Register, EnqueueUpload, Worker, WorkerStep, LookUp, PoolStep, allButLate, CheckoutFailed,
       NoConnection, AcquirePermit, AbortCancelled, Recheck, Start, Begin, Move, Release, Finish,
       DropPermit, Emit, Cancel, ClearTerminal, CloseSession, Cleanup, ClosePool, Collect,
       CancelToken, CancelVictim, Purge, OtherTransferEnds, PoolBackground

\* An upload becomes active in the one step that has looked at all the others.
LEMMA UploadTargetsNext ==
    ASSUME IInv, UploadTargetsDistinct, [Next]_vars
    PROVE  UploadTargetsDistinct'
<1> USE DEF IInv
<1>1. UNCHANGED <<target, downloads>>
  BY RequestStays DEF request
<1> SUFFICES ASSUME NEW t \in Tasks \ downloads, NEW u \in Tasks \ downloads, t # u,
                    target[t] = target[u], status'[t] \in Active, status'[u] \in Active
             PROVE  FALSE
  BY <1>1 DEF UploadTargetsDistinct
<1>2. ~DownloadInsert(t) /\ ~DownloadInsert(u)
  BY DEF DownloadInsert, Asked
<1>3. ASSUME NEW v \in Tasks \ downloads, NEW w \in Tasks \ downloads, v # w,
             target[v] = target[w], EnqueueUpload(v), status'[v] \in Active,
             status[v] \notin Active, status'[w] \in Active
      PROVE  FALSE
  <2>1. ~Occupied(v) /\ Go(v, "spawned")
    BY <1>3 DEF EnqueueUpload, Register
  <2>2. ~EnqueueUpload(w)
    BY <1>3, <2>1 DEF EnqueueUpload, Register, Go, TypeOK
  <2>3. status[w] \in Active
    BY <1>2, <1>3, <2>2, Activated DEF DownloadInsert, Asked
  <2> QED
    BY <1>3, <2>1, <2>3 DEF Occupied
<1>4. status[t] \in Active \/ (EnqueueUpload(t) /\ status[t] \notin Active)
  BY <1>2, Activated
<1>5. status[u] \in Active \/ (EnqueueUpload(u) /\ status[u] \notin Active)
  BY <1>2, Activated
<1> QED
  BY <1>3, <1>4, <1>5 DEF UploadTargetsDistinct

\* enqueue_upload lets no two active uploads of a session have one target.
THEOREM UploadTargetsDistinctHolds == Spec => []UploadTargetsDistinct
<1>1. Init => UploadTargetsDistinct
  BY DEF Init, UploadTargetsDistinct, Active
<1>2. IInv /\ UploadTargetsDistinct /\ [Next]_vars => UploadTargetsDistinct'
  BY UploadTargetsNext
<1> QED
  BY <1>1, <1>2, Invariant, PTL DEF Spec

-----------------------------------------------------------------------------
(* The pool as the service uses it.                                        *)

\* Until cleanup_session takes the session out of the registry, the service uses
\* its pool as TransferPool says: every step of the service is a step of
\* TransferPool, or leaves the pool alone.
THEOREM PoolRefined == Spec => Pool!Init /\ [][handle => [Pool!Next]_pool]_vars
<1>1. Init => Pool!Init
  BY DEF Init
<1>2. IInv /\ [Next]_vars => [handle => [Pool!Next]_pool]_vars
  BY PoolTaken
<1> QED
  BY <1>1, <1>2, Invariant, PTL DEF Spec

\* A session has no more transfer connections than
\* MAX_TRANSFER_CONNECTIONS_PER_SESSION, also while it is being closed.
THEOREM PoolCapacityHolds == Spec => []Pool!Capacity
<1>1. Init => Pool!Capacity
  <2>1. Init => slots = {}
    BY DEF Init, Pool!Init
  <2> QED
    BY <2>1, FS_EmptySet, SameCardinality, TransferAssumption DEF Pool!Capacity, TransferAssumption
<1>2. IInv /\ Pool!Capacity /\ [Next]_vars => Pool!Capacity'
  <2> SUFFICES ASSUME IInv, Pool!Capacity, [Next]_vars PROVE Pool!Capacity'
    OBVIOUS
  <2>1. CASE [Pool!Next]_pool
    BY <2>1, PoolSteps DEF IInv, Kept
  <2>2. CASE UNCHANGED slots
    BY <2>2 DEF Pool!Capacity
  <2> QED
    BY <2>1, <2>2, PoolTaken DEF DropConnection
<1> QED
  BY <1>1, <1>2, Invariant, PTL DEF Spec

-----------------------------------------------------------------------------
(* What the front end has been told.                                       *)

\* A transition adds to what is told,
LEMMA ToldAppended ==
    ASSUME TypeOK, NEW u \in Tasks, NEW s \in Active \cup Terminal,
           unsent[u] = None, unsent'[u] = s, events'[u] = events[u]
    PROVE  (Told(u))' = Append(Told(u), s)
BY DEF Told, None, Active, Terminal

\* and nothing is told when nothing is.
LEMMA ToldEmpty ==
    ASSUME TypeOK, NEW u \in Tasks, Told(u) = <<>>
    PROVE  unsent[u] = None /\ events[u] = <<>>
<1>1. CASE unsent[u] # None
  <2>1. unsent[u] \in Active \cup Terminal /\ events[u] \in Seq(Active \cup Terminal)
    BY <1>1 DEF TypeOK, None
  <2>2. Len(Append(events[u], unsent[u])) # 0
    BY <2>1
  <2>3. Append(events[u], unsent[u]) = <<>>
    BY <1>1 DEF Told
  <2>4. Len(<<>>) = 0
    OBVIOUS
  <2> QED
    BY <2>2, <2>3, <2>4
<1>2. CASE unsent[u] = None
  BY <1>2 DEF Told
<1> QED
  BY <1>1, <1>2

\* Emitting what has been written changes nothing that is told or about to be.
LEMMA ToldKept ==
    ASSUME TypeOK, NEW u \in Tasks,
           Emit(u) \/ (unsent'[u] = unsent[u] /\ events'[u] = events[u])
    PROVE  (Told(u))' = Told(u)
<1>1. CASE Emit(u)
  BY <1>1 DEF Emit, Told, TypeOK
<1>2. CASE unsent'[u] = unsent[u] /\ events'[u] = events[u]
  BY <1>2 DEF Told
<1> QED
  BY <1>1, <1>2
\* A pair is one thing and another after it.
LEMMA AppendPair == ASSUME NEW a, NEW b PROVE Append(<<a>>, b) = <<a, b>>
<1> DEFINE S == {a, b}
<1>0. a \in S /\ b \in S
  OBVIOUS
<1> HIDE DEF S
<1>1. <<a>> \in Seq(S) /\ Len(<<a>>) = 1 /\ <<a>>[1] = a
  BY <1>0
<1>2. /\ Append(<<a>>, b) \in Seq(S) /\ Len(Append(<<a>>, b)) = 2
      /\ Append(<<a>>, b)[1] = a /\ Append(<<a>>, b)[2] = b
  BY <1>0, <1>1
<1>3. <<a, b>> \in Seq(S) /\ Len(<<a, b>>) = 2 /\ <<a, b>>[1] = a /\ <<a, b>>[2] = b
  BY <1>0
<1>4. \A i \in 1 .. 2 : Append(<<a>>, b)[i] = <<a, b>>[i]
  BY <1>2, <1>3
<1>5. \A s, t \in Seq(S) : Len(s) = Len(t) /\ (\A i \in 1 .. Len(s) : s[i] = t[i]) => s = t
  OBVIOUS
<1> QED
  BY <1>2, <1>3, <1>4, <1>5

\* A legal transition of a worker that has sent all it had to send.
LEMMA TransitionTold ==
    ASSUME TypeOK, NEW u \in Tasks, NEW s, <<status[u], s>> \in Legal, Transition(u, s),
           unsent[u] = None, UNCHANGED events
    PROVE  /\ (Told(u))' = Append(Told(u), s)
           /\ status'[u] = s \/ (s \in Terminal /\ status'[u] = "absent")
           /\ unsent'[u] = s
<1>1. s \in Active \cup Terminal
  BY DEF Legal, Active, Terminal
<1>2. unsent'[u] = s /\ (status'[u] = s \/ (s \in Terminal /\ status'[u] = "absent"))
  BY TransitionEffect
<1> QED
  BY <1>1, <1>2, ToldAppended

\* Each step of a task takes its story on, as long as the session is open.
LEMMA StoryOfNext ==
    ASSUME IInv, [Next]_vars, closing = "no", NEW u \in Tasks, StoryOf(u)
    PROVE  (StoryOf(u))'
<1> USE DEF IInv
<1> USE DEF None, Terminal, PendingStages, Fresh
<1>1. ASSUME NEW stage, Go(u, stage) PROVE at'[u] = stage
  BY <1>1 DEF Go, TypeOK
<1>2. ASSUME at'[u] = at[u], status'[u] = status[u], outcome'[u] = outcome[u],
             Emit(u) \/ (unsent'[u] = unsent[u] /\ events'[u] = events[u])
      PROVE  (StoryOf(u))'
  <2>1. (Told(u))' = Told(u)
    BY <1>2, ToldKept
  <2>2. unsent'[u] = unsent[u] \/ unsent'[u] = None
    BY <1>2 DEF Emit, TypeOK
  <2> QED
    BY <1>2, <2>1, <2>2 DEF StoryOf
<1>3. CASE LeftAlone(u)
  <2>1. (Told(u))' = Told(u)
    BY <1>3, ToldKept DEF LeftAlone
  <2> QED
    BY <1>3, <2>1 DEF LeftAlone, StoryOf
<1>4. CASE Enqueuer(u) \/ EnqueueUpload(u)
  <2>1. (Told(u))' = Told(u) /\ Told(u) = <<>>
    BY <1>4, EnqueueEffect, ToldKept DEF StoryOf
  <2> QED
    BY <1>4, <2>1, EnqueueEffect DEF StoryOf
<1>5. ASSUME at[u] \in PendingStages, Told(u) = <<>>, UNCHANGED <<status, unsent, events>>,
             \/ at'[u] \in PendingStages
             \/ at'[u] \in {"release", "finish"} /\ outcome'[u] = "Cancelled"
      PROVE  (StoryOf(u))'
  <2>1. (Told(u))' = Told(u) /\ unsent[u] = None
    BY <1>5, ToldKept, ToldEmpty
  <2> QED
    BY <1>5, <2>1 DEF StoryOf
<1>6. CASE LookUp(u) \/ Recheck(u) \/ AcquirePermit(u) \/ AbortCancelled(u)
  <2>1. at[u] \in PendingStages /\ Told(u) = <<>> /\ UNCHANGED <<status, unsent, events>>
    BY <1>6 DEF LookUp, Recheck, AcquirePermit, AbortCancelled, registry, StoryOf
  <2>2. \/ at'[u] \in PendingStages
        \/ at'[u] \in {"release", "finish"} /\ outcome'[u] = "Cancelled"
    BY <1>1, <1>6 DEF LookUp, Recheck, AcquirePermit, AbortCancelled, TypeOK
  <2> QED
    BY <1>5, <2>1, <2>2
<1>7. CASE CheckoutFailed(u)
  <2>1. at[u] \in PendingStages /\ Told(u) = <<>> /\ status[u] = "Pending" /\ unsent[u] = None
    BY <1>7, ToldEmpty DEF CheckoutFailed, StoryOf
  <2>2. PhaseOf(u) # "Closed"
    BY <1>7, WorkersNumber DEF CheckoutFailed, WorkerStages, Session, PhaseOf
  <2>3. CASE Transition(u, "Cancelled") /\ Go(u, "end")
    <3>1. (Told(u))' = <<"Cancelled">> /\ status'[u] \in {"Cancelled", "absent"}
      BY <1>7, <2>1, <2>3, TransitionTold DEF CheckoutFailed, Legal
    <3>2. at'[u] = "end"
      BY <1>1, <2>3
    <3> QED
      BY <3>1, <3>2 DEF StoryOf
  <2>4. CASE Go(u, "noconn") /\ UNCHANGED registry
    BY <1>1, <1>5, <1>7, <2>1, <2>4 DEF CheckoutFailed, registry
  <2> QED
    BY <1>7, <2>2, <2>3, <2>4 DEF CheckoutFailed
<1>8. CASE Start(u)
  <2>1. Told(u) = <<>> /\ status[u] = "Pending" /\ unsent[u] = None /\ at'[u] = "begin"
    BY <1>1, <1>8, ToldEmpty DEF Start, StoryOf
  <2>2. <<status[u], "Running">> \in Legal /\ Transition(u, "Running") /\ UNCHANGED events
    BY <1>8, <2>1 DEF Start, Legal
  <2>3. (Told(u))' = Append(Told(u), "Running") /\ status'[u] = "Running"
    BY <2>1, <2>2, TransitionTold
  <2>4. (Told(u))' = <<"Running">>
    BY <2>1, <2>3
  <2> QED
    BY <2>1, <2>3, <2>4 DEF StoryOf
<1>9. CASE NoConnection(u)
  <2>1. CASE at[u] = "noconn" /\ Transition(u, "Running") /\ Go(u, "failed")
    <3>1. Told(u) = <<>> /\ status[u] = "Pending" /\ unsent[u] = None /\ at'[u] = "failed"
      BY <1>1, <2>1, ToldEmpty DEF StoryOf
    <3>2. <<status[u], "Running">> \in Legal /\ UNCHANGED events
      BY <1>9, <3>1 DEF NoConnection, Legal
    <3>3. (Told(u))' = Append(Told(u), "Running") /\ status'[u] = "Running"
      BY <2>1, <3>1, <3>2, TransitionTold
    <3>4. (Told(u))' = <<"Running">>
      BY <3>1, <3>3
    <3> QED
      BY <3>1, <3>3, <3>4 DEF StoryOf
  <2>2. CASE at[u] = "failed" /\ Transition(u, "Failed") /\ Go(u, "end")
    <3>1. Told(u) = <<"Running">> /\ status[u] = "Running" /\ unsent[u] = None /\ at'[u] = "end"
      BY <1>1, <1>9, <2>2 DEF NoConnection, StoryOf
    <3>2. <<status[u], "Failed">> \in Legal /\ UNCHANGED events
      BY <1>9, <3>1 DEF NoConnection, Legal
    <3>3. (Told(u))' = Append(Told(u), "Failed") /\ status'[u] \in {"Failed", "absent"}
      BY <2>2, <3>1, <3>2, TransitionTold
    <3>4. (Told(u))' = <<"Running", "Failed">>
      BY <3>1, <3>3, AppendPair
    <3> QED
      BY <3>1, <3>3, <3>4 DEF StoryOf
  <2> QED
    BY <1>9, <2>1, <2>2 DEF NoConnection
<1>10. CASE Begin(u) \/ Move(u) \/ Release(u)
  <2>1. (Told(u))' = Told(u) /\ status'[u] = status[u] /\ unsent'[u] = unsent[u] /\ unsent[u] = None
    BY <1>10, ToldKept DEF Begin, Move, Release, registry, StoryOf
  <2>2. CASE Begin(u)
    <3>1. at[u] = "begin" /\ at'[u] \in {"release", "moving"}
          /\ (at'[u] = "release" => outcome'[u] = "Cancelled")
      BY <1>1, <2>2 DEF Begin, TypeOK
    <3> QED
      BY <2>1, <3>1 DEF StoryOf
  <2>3. CASE Move(u)
    <3>1. at[u] = "moving" /\ at'[u] = "release" /\ outcome'[u] \in Terminal \cup {"Broken"}
      BY <1>1, <2>3 DEF Move, TypeOK
    <3> QED
      BY <2>1, <3>1 DEF StoryOf
  <2>4. CASE Release(u)
    <3>1. at[u] = "release" /\ at'[u] = "finish" /\ outcome'[u] = outcome[u]
      BY <1>1, <2>4 DEF Release
    <3> QED
      BY <2>1, <3>1 DEF StoryOf
  <2> QED
    BY <1>10, <2>2, <2>3, <2>4
<1>11. CASE Finish(u)
  <2> DEFINE s == IF outcome[u] = "Broken" THEN "Failed" ELSE outcome[u]
  <2>1. unsent[u] = None /\ at'[u] = "end" /\ Transition(u, s) /\ UNCHANGED events
    BY <1>1, <1>11 DEF Finish, StoryOf
  <2>2. \/ s = "Cancelled" /\ status[u] = "Pending" /\ Told(u) = <<>>
        \/ s \in Terminal /\ status[u] = "Running" /\ Told(u) = <<"Running">>
    BY <1>11 DEF Finish, StoryOf
  <2> HIDE DEF s
  <2>3. (Told(u))' = Append(Told(u), s) /\ status'[u] \in {s, "absent"} /\ s \in Terminal
    BY <2>1, <2>2, TransitionTold DEF Legal
  <2>4. \/ (Told(u))' = <<s>> /\ s = "Cancelled"
        \/ (Told(u))' = <<"Running", s>>
    <3>1. CASE s = "Cancelled" /\ Told(u) = <<>>
      BY <2>3, <3>1
    <3>2. CASE Told(u) = <<"Running">>
      BY <2>3, <3>2, AppendPair
    <3> QED
      BY <2>2, <3>1, <3>2
  <2> QED
    BY <2>1, <2>3, <2>4 DEF StoryOf
<1>12. CASE PoolStep(u) \/ DropPermit(u) \/ Emit(u)
  BY <1>2, <1>12 DEF PoolStep, allButLate, DropPermit, Emit, service, registry
<1> QED
  BY <1>3, <1>4, <1>6, <1>7, <1>8, <1>9, <1>10, <1>11, <1>12, StepOfTask DEF OwnStep, Worker, WorkerStep, Dismissed

\* Every way in which spawn_transfer_task comes to its end tells the front end how
\* the task ended, after legal steps only.
THEOREM EventsTellTheEndHolds == Spec => []EventsTellTheEnd
<1>1. Init => Story
  BY DEF Init, Story, StoryOf, Told, Fresh, PendingStages, None
<1>2. IInv /\ Story /\ [Next]_vars => Story'
  <2> SUFFICES ASSUME IInv, Story, [Next]_vars, closing' = "no", NEW u \in Tasks
               PROVE  (StoryOf(u))'
    BY DEF Story
  <2>1. closing = "no"
    BY SessionMoves DEF session
  <2> QED
    BY <2>1, StoryOfNext DEF Story
<1>3. Story => EventsTellTheEnd
  <2> SUFFICES ASSUME Story, closing = "no", NEW t \in Tasks, at[t] = "end", unsent[t] = None
               PROVE  LET told == events[t]
                      IN  /\ told # <<>>
                          /\ status[t] = "absent" \/ status[t] = told[Len(told)]
                          /\ told[Len(told)] \in Terminal
                          /\ Len(told) = 2 => <<told[1], told[2]>> \in Legal
    BY DEF EventsTellTheEnd
  <2>1. PICK s \in Terminal : /\ status[t] \in {"absent", s}
                              /\ \/ events[t] = <<s>>
                                 \/ events[t] = <<"Running", s>>
    BY DEF Story, StoryOf, Told
  <2> QED
    BY <2>1 DEF Terminal, Legal
<1> QED
  BY <1>1, <1>2, <1>3, Invariant, PTL DEF Spec

-----------------------------------------------------------------------------
(* ControlConnection: the inductive invariant.  That only lost transports  *)
(* are replaced rests on a call about to invalidate one having seen it     *)
(* lost, and that sleepers are notified on there being one connector while *)
(* the slot says Connecting.                                               *)

\* A call gives up the transport it used only when that is lost.
LostIsLost == \A p \in Callers : opAt[p] = "lost" => using[p] \in dead \cup poisoned

\* A call operates on a transport.
InUse == \A p \in Callers : opAt[p] = "op" => using[p] # 0

ControlInv == ControlTypeOK /\ InUse /\ OneConnector /\ SleepersAttended /\ OneRebuild /\ LostIsLost

-----------------------------------------------------------------------------
\* Every step keeps the types.
LEMMA ControlTypeStep == ASSUME ControlTypeOK, InUse, OneConnector, [ControlNext]_controlVars PROVE (ControlTypeOK /\ InUse)'
<1> USE DEF ControlTypeOK, InUse, OneConnector, Ended, carried, call
<1>1. CASE EagerBegin
  BY <1>1 DEF EagerBegin, Become
<1>2. CASE EagerEnd
  BY <1>2 DEF EagerEnd, Publish, Become, NotifyAll
<1>3. ASSUME NEW p \in Callers, FindSession(p) PROVE (ControlTypeOK /\ InUse)'
  BY <1>3 DEF FindSession, Reach
<1>4. ASSUME NEW p \in Callers, GetReady(p) PROVE (ControlTypeOK /\ InUse)'
  BY <1>4 DEF GetReady, Reach
<1>5. ASSUME NEW p \in Callers, GetSleep(p) PROVE (ControlTypeOK /\ InUse)'
  BY <1>5 DEF GetSleep
<1>6. ASSUME NEW p \in Callers, GetFailed(p) PROVE (ControlTypeOK /\ InUse)'
  BY <1>6 DEF GetFailed, Become, Reach
<1>7. ASSUME NEW p \in Callers, GetClosed(p) PROVE (ControlTypeOK /\ InUse)'
  BY <1>7 DEF GetClosed, Reach
<1>8. ASSUME NEW p \in Callers, GetIdle(p) PROVE (ControlTypeOK /\ InUse)'
  BY <1>8 DEF GetIdle, Become, Reach
<1>9. ASSUME NEW p \in Callers, Connected(p) PROVE (ControlTypeOK /\ InUse)'
  BY <1>9 DEF Connected, Publish, Become, Reach, NotifyAll
<1>10. ASSUME NEW p \in Callers, OpEnd(p) PROVE (ControlTypeOK /\ InUse)'
  <2>1. using[p] \in 1 .. issued
    BY <1>10 DEF OpEnd
  <2>2. poisoned' \subseteq 1 .. issued /\ UNCHANGED <<slot, transport, issued, dead, eager, asleep, using, retried, registered>>
    BY <1>10, <2>1 DEF OpEnd
  <2>3. opAt' = [opAt EXCEPT ![p] = "done"] \/ opAt' = [opAt EXCEPT ![p] = "error"]
    BY <1>10 DEF OpEnd, Reach
  <2>4. opAt' \in [Callers -> {"start", "get", "connect", "op", "lost", "done", "error"}]
    BY <2>3
  <2>5. InUse'
    BY <2>2, <2>3
  <2>6. ControlTypeOK'
    BY <2>2, <2>4
  <2> QED BY <2>5, <2>6
<1>11. ASSUME NEW p \in Callers, OpLost(p) PROVE (ControlTypeOK /\ InUse)'
  BY <1>11 DEF OpLost, Reach
<1>12. ASSUME NEW p \in Callers, Invalidate(p) PROVE (ControlTypeOK /\ InUse)'
  BY <1>12 DEF Invalidate, Become, Reach, NotifyAll
<1>13. ASSUME NEW t \in 1 .. issued, Lose(t) PROVE (ControlTypeOK /\ InUse)'
  BY <1>13 DEF Lose
<1>14. CASE Unregister
  BY <1>14 DEF Unregister
<1>15. CASE Close
  BY <1>15 DEF Close, Become, NotifyAll
<1>16. CASE UNCHANGED controlVars
  BY <1>16 DEF controlVars
<1> QED BY <1>1, <1>2, <1>3, <1>4, <1>5, <1>6, <1>7, <1>8,
      <1>9, <1>10, <1>11, <1>12, <1>13, <1>14, <1>15, <1>16 DEF ControlNext, Caller

\* Every step keeps one connector.
LEMMA ConnectorStep == ASSUME ControlTypeOK, OneConnector, [ControlNext]_controlVars PROVE OneConnector'
<1> USE DEF ControlTypeOK, OneConnector, Ended, carried, call
<1>1. CASE EagerBegin
  BY <1>1 DEF EagerBegin, Become
<1>2. CASE EagerEnd
  BY <1>2 DEF EagerEnd, Publish, Become, NotifyAll
<1>3. ASSUME NEW p \in Callers, FindSession(p) PROVE OneConnector'
  BY <1>3 DEF FindSession, Reach
<1>4. ASSUME NEW p \in Callers, GetReady(p) PROVE OneConnector'
  BY <1>4 DEF GetReady, Reach
<1>5. ASSUME NEW p \in Callers, GetSleep(p) PROVE OneConnector'
  BY <1>5 DEF GetSleep
<1>6. ASSUME NEW p \in Callers, GetFailed(p) PROVE OneConnector'
  BY <1>6 DEF GetFailed, Become, Reach
<1>7. ASSUME NEW p \in Callers, GetClosed(p) PROVE OneConnector'
  BY <1>7 DEF GetClosed, Reach
<1>8. ASSUME NEW p \in Callers, GetIdle(p) PROVE OneConnector'
  BY <1>8 DEF GetIdle, Become, Reach
<1>9. ASSUME NEW p \in Callers, Connected(p) PROVE OneConnector'
  BY <1>9 DEF Connected, Publish, Become, Reach, NotifyAll
<1>10. ASSUME NEW p \in Callers, OpEnd(p) PROVE OneConnector'
  BY <1>10 DEF OpEnd, Reach
<1>11. ASSUME NEW p \in Callers, OpLost(p) PROVE OneConnector'
  BY <1>11 DEF OpLost, Reach
<1>12. ASSUME NEW p \in Callers, Invalidate(p) PROVE OneConnector'
  BY <1>12 DEF Invalidate, Become, Reach, NotifyAll
<1>13. ASSUME NEW t \in 1 .. issued, Lose(t) PROVE OneConnector'
  BY <1>13 DEF Lose
<1>14. CASE Unregister
  BY <1>14 DEF Unregister
<1>15. CASE Close
  BY <1>15 DEF Close, Become, NotifyAll
<1>16. CASE UNCHANGED controlVars
  BY <1>16 DEF controlVars
<1> QED BY <1>1, <1>2, <1>3, <1>4, <1>5, <1>6, <1>7, <1>8,
      <1>9, <1>10, <1>11, <1>12, <1>13, <1>14, <1>15, <1>16 DEF ControlNext, Caller

\* No step leaves Connecting without notifying the sleepers.
LEMMA SleepersStep == ASSUME ControlTypeOK, OneConnector, SleepersAttended, [ControlNext]_controlVars PROVE SleepersAttended'
<1> USE DEF ControlTypeOK, OneConnector, SleepersAttended, Ended, carried, call
<1>1. CASE EagerBegin
  BY <1>1 DEF EagerBegin, Become
<1>2. CASE EagerEnd
  BY <1>2 DEF EagerEnd, Publish, Become, NotifyAll
<1>3. ASSUME NEW p \in Callers, FindSession(p) PROVE SleepersAttended'
  BY <1>3 DEF FindSession, Reach
<1>4. ASSUME NEW p \in Callers, GetReady(p) PROVE SleepersAttended'
  BY <1>4 DEF GetReady, Reach
<1>5. ASSUME NEW p \in Callers, GetSleep(p) PROVE SleepersAttended'
  BY <1>5 DEF GetSleep
<1>6. ASSUME NEW p \in Callers, GetFailed(p) PROVE SleepersAttended'
  BY <1>6 DEF GetFailed, Become, Reach
<1>7. ASSUME NEW p \in Callers, GetClosed(p) PROVE SleepersAttended'
  BY <1>7 DEF GetClosed, Reach
<1>8. ASSUME NEW p \in Callers, GetIdle(p) PROVE SleepersAttended'
  BY <1>8 DEF GetIdle, Become, Reach
<1>9. ASSUME NEW p \in Callers, Connected(p) PROVE SleepersAttended'
  BY <1>9 DEF Connected, Publish, Become, Reach, NotifyAll
<1>10. ASSUME NEW p \in Callers, OpEnd(p) PROVE SleepersAttended'
  BY <1>10 DEF OpEnd, Reach
<1>11. ASSUME NEW p \in Callers, OpLost(p) PROVE SleepersAttended'
  BY <1>11 DEF OpLost, Reach
<1>12. ASSUME NEW p \in Callers, Invalidate(p) PROVE SleepersAttended'
  BY <1>12 DEF Invalidate, Become, Reach, NotifyAll
<1>13. ASSUME NEW t \in 1 .. issued, Lose(t) PROVE SleepersAttended'
  BY <1>13 DEF Lose
<1>14. CASE Unregister
  BY <1>14 DEF Unregister
<1>15. CASE Close
  BY <1>15 DEF Close, Become, NotifyAll
<1>16. CASE UNCHANGED controlVars
  BY <1>16 DEF controlVars
<1> QED BY <1>1, <1>2, <1>3, <1>4, <1>5, <1>6, <1>7, <1>8,
      <1>9, <1>10, <1>11, <1>12, <1>13, <1>14, <1>15, <1>16 DEF ControlNext, Caller

\* No step replaces a transport that is not lost.
LEMMA RebuildStep == ASSUME ControlInv, [ControlNext]_controlVars PROVE (OneRebuild /\ LostIsLost)'
<1> USE DEF ControlInv, ControlTypeOK, OneConnector, OneRebuild, LostIsLost, Ended, carried, call
<1>1. CASE EagerBegin
  BY <1>1 DEF EagerBegin, Become
<1>2. CASE EagerEnd
  BY <1>2 DEF EagerEnd, Publish, Become, NotifyAll
<1>3. ASSUME NEW p \in Callers, FindSession(p) PROVE (OneRebuild /\ LostIsLost)'
  BY <1>3 DEF FindSession, Reach
<1>4. ASSUME NEW p \in Callers, GetReady(p) PROVE (OneRebuild /\ LostIsLost)'
  BY <1>4 DEF GetReady, Reach
<1>5. ASSUME NEW p \in Callers, GetSleep(p) PROVE (OneRebuild /\ LostIsLost)'
  BY <1>5 DEF GetSleep
<1>6. ASSUME NEW p \in Callers, GetFailed(p) PROVE (OneRebuild /\ LostIsLost)'
  BY <1>6 DEF GetFailed, Become, Reach
<1>7. ASSUME NEW p \in Callers, GetClosed(p) PROVE (OneRebuild /\ LostIsLost)'
  BY <1>7 DEF GetClosed, Reach
<1>8. ASSUME NEW p \in Callers, GetIdle(p) PROVE (OneRebuild /\ LostIsLost)'
  BY <1>8 DEF GetIdle, Become, Reach
<1>9. ASSUME NEW p \in Callers, Connected(p) PROVE (OneRebuild /\ LostIsLost)'
  BY <1>9 DEF Connected, Publish, Become, Reach, NotifyAll
<1>10. ASSUME NEW p \in Callers, OpEnd(p) PROVE (OneRebuild /\ LostIsLost)'
  BY <1>10 DEF OpEnd, Reach
<1>11. ASSUME NEW p \in Callers, OpLost(p) PROVE (OneRebuild /\ LostIsLost)'
  BY <1>11 DEF OpLost, Reach
<1>12. ASSUME NEW p \in Callers, Invalidate(p) PROVE (OneRebuild /\ LostIsLost)'
  BY <1>12 DEF Invalidate, Become, Reach, NotifyAll
<1>13. ASSUME NEW t \in 1 .. issued, Lose(t) PROVE (OneRebuild /\ LostIsLost)'
  BY <1>13 DEF Lose
<1>14. CASE Unregister
  BY <1>14 DEF Unregister
<1>15. CASE Close
  BY <1>15 DEF Close, Become, NotifyAll
<1>16. CASE UNCHANGED controlVars
  BY <1>16 DEF controlVars
<1> QED BY <1>1, <1>2, <1>3, <1>4, <1>5, <1>6, <1>7, <1>8,
      <1>9, <1>10, <1>11, <1>12, <1>13, <1>14, <1>15, <1>16 DEF ControlNext, Caller

\* No step changes a closed slot.
LEMMA ClosedStep == ASSUME ControlTypeOK, OneConnector, [ControlNext]_controlVars PROVE (slot = "Closed" => UNCHANGED carried)
<1> USE DEF ControlTypeOK, OneConnector, carried, call
<1>1. CASE EagerBegin
  BY <1>1 DEF EagerBegin, Become
<1>2. CASE EagerEnd
  BY <1>2 DEF EagerEnd, Publish, Become, NotifyAll
<1>3. ASSUME NEW p \in Callers, FindSession(p) PROVE (slot = "Closed" => UNCHANGED carried)
  BY <1>3 DEF FindSession, Reach
<1>4. ASSUME NEW p \in Callers, GetReady(p) PROVE (slot = "Closed" => UNCHANGED carried)
  BY <1>4 DEF GetReady, Reach
<1>5. ASSUME NEW p \in Callers, GetSleep(p) PROVE (slot = "Closed" => UNCHANGED carried)
  BY <1>5 DEF GetSleep
<1>6. ASSUME NEW p \in Callers, GetFailed(p) PROVE (slot = "Closed" => UNCHANGED carried)
  BY <1>6 DEF GetFailed, Become, Reach
<1>7. ASSUME NEW p \in Callers, GetClosed(p) PROVE (slot = "Closed" => UNCHANGED carried)
  BY <1>7 DEF GetClosed, Reach
<1>8. ASSUME NEW p \in Callers, GetIdle(p) PROVE (slot = "Closed" => UNCHANGED carried)
  BY <1>8 DEF GetIdle, Become, Reach
<1>9. ASSUME NEW p \in Callers, Connected(p) PROVE (slot = "Closed" => UNCHANGED carried)
  BY <1>9 DEF Connected, Publish, Become, Reach, NotifyAll
<1>10. ASSUME NEW p \in Callers, OpEnd(p) PROVE (slot = "Closed" => UNCHANGED carried)
  BY <1>10 DEF OpEnd, Reach
<1>11. ASSUME NEW p \in Callers, OpLost(p) PROVE (slot = "Closed" => UNCHANGED carried)
  BY <1>11 DEF OpLost, Reach
<1>12. ASSUME NEW p \in Callers, Invalidate(p) PROVE (slot = "Closed" => UNCHANGED carried)
  BY <1>12 DEF Invalidate, Become, Reach, NotifyAll
<1>13. ASSUME NEW t \in 1 .. issued, Lose(t) PROVE (slot = "Closed" => UNCHANGED carried)
  BY <1>13 DEF Lose
<1>14. CASE Unregister
  BY <1>14 DEF Unregister
<1>15. CASE Close
  BY <1>15 DEF Close, Become, NotifyAll
<1>16. CASE UNCHANGED controlVars
  BY <1>16 DEF controlVars
<1> QED BY <1>1, <1>2, <1>3, <1>4, <1>5, <1>6, <1>7, <1>8,
      <1>9, <1>10, <1>11, <1>12, <1>13, <1>14, <1>15, <1>16 DEF ControlNext, Caller

-----------------------------------------------------------------------------
(* The theorems about ControlConnection.                                   *)

\* The invariant: the slot is connected by one thread at a time, which its
\* sleepers can count on, and loses only lost transports.
THEOREM ControlInvariant == ControlSpec => []ControlInv
<1>1. ControlInit => ControlInv
  BY DEF ControlInit, ControlInv, ControlTypeOK, InUse, OneConnector, SleepersAttended, OneRebuild, LostIsLost
<1>2. ControlInv /\ [ControlNext]_controlVars => ControlInv'
  BY ControlTypeStep, ConnectorStep, SleepersStep, RebuildStep DEF ControlInv
<1> QED BY <1>1, <1>2, PTL DEF ControlSpec

\* SftpConnection keeps its types; the slot is Ready exactly when it carries a
\* transport.
THEOREM ControlTypeCorrect == ControlSpec => []ControlTypeOK
<1>1. ControlInv => ControlTypeOK
  BY DEF ControlInv
<1> QED BY <1>1, ControlInvariant, PTL

\* get and connect_eager never connect at the same time.
THEOREM OneConnectorHolds == ControlSpec => []OneConnector
<1>1. ControlInv => OneConnector
  BY DEF ControlInv
<1> QED BY <1>1, ControlInvariant, PTL

\* Whoever waits for `ready` in get waits while somebody is connecting.
THEOREM SleepersAttendedHolds == ControlSpec => []SleepersAttended
<1>1. ControlInv => SleepersAttended
  BY DEF ControlInv
<1> QED BY <1>1, ControlInvariant, PTL

\* invalidate_if_ready makes get rebuild a transport only when it is lost, and
\* once.
THEOREM OneRebuildHolds == ControlSpec => []OneRebuild
<1>1. ControlInv => OneRebuild
  BY DEF ControlInv
<1> QED BY <1>1, ControlInvariant, PTL

\* After close no late result of a connect gets into the slot.
THEOREM ClosedForGoodHolds == ControlSpec => ClosedForGood
<1>1. ControlInv /\ [ControlNext]_controlVars => [slot = "Closed" => UNCHANGED carried]_controlVars
  BY ClosedStep DEF ControlInv
<1> QED BY <1>1, ControlInvariant, PTL DEF ControlSpec, ClosedForGood

==============================================================================
