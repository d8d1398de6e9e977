------------------------- MODULE TransferPoolProofs -------------------------
(***************************************************************************)
(* Proofs about the transfer pool, for any finite set of tasks and any     *)
(* positive capacity.                                                      *)
(*                                                                         *)
(* The argument has two layers.  Shape collects the facts about who owns   *)
(* which slot and who is queued; it is inductive and says nothing about    *)
(* numbers.  Ownership, Capacity, NoLostWakeup and ExtrasHaveReaper are    *)
(* then each inductive relative to Shape.  Shape asks less than Ownership: *)
(* a busy slot may be without an owner, so that it also holds of the pool  *)
(* of a session that drops its connections (SftpServiceProofs).            *)
(***************************************************************************)
EXTENDS TransferPool, TLAPS, FiniteSetTheorems

\* Every owner has a busy slot to itself.
Lent ==
    ~closed => /\ \A t \in Owners : seqOf[t] \in Busy
               /\ \A t, u \in Owners : seqOf[t] = seqOf[u] => t = u

Shape == TypeOK /\ Lent /\ QueueIsSleepers /\ ClosedIsEmpty

-----------------------------------------------------------------------------
(* Facts about the helpers.                                                *)

\* A non-empty set of naturals has exactly one first member, the smallest:
\* wake_next_waiter always finds one waiter, and idle_min_seq one connection.
LEMMA FirstIsSingleton ==
    ASSUME NEW W, W \subseteq Nat, W # {}
    PROVE  \E m \in W : First(W) = {m}
<1>1. PICK m \in W : \A u \in W : ~(<<u, m>> \in OpToRel(<, Nat))
  BY NatLessThanWellFounded, WFMin
<1>2. ASSUME NEW u \in W PROVE m <= u
  <2>1. u \in Nat /\ m \in Nat
    OBVIOUS
  <2>2. ~(u < m)
    BY <1>1, <2>1 DEF OpToRel
  <2> QED
    BY <2>1, <2>2
<1>3. \A u \in First(W) : u = m
  BY <1>2 DEF First
<1>4. m \in First(W)
  BY <1>2 DEF First
<1>5. First(W) = {m}
  BY <1>3, <1>4
<1> QED
  BY <1>5

\* The number of connections and of tasks is finite throughout.
LEMMA Finiteness ==
    ASSUME TypeOK
    PROVE  /\ IsFiniteSet(slots) /\ IsFiniteSet(idle) /\ IsFiniteSet(Busy)
           /\ IsFiniteSet(Live) /\ IsFiniteSet(Woken) /\ IsFiniteSet(Owners)
           /\ Cardinality(slots) \in Nat /\ Cardinality(Busy) \in Nat
           /\ Cardinality(Live) \in Nat /\ Cardinality(Woken) \in Nat
<1>1. IsFiniteSet(0 .. nextSeq - 1)
  BY FS_Interval DEF TypeOK
<1>2. IsFiniteSet(slots)
  BY <1>1, FS_Subset DEF TypeOK
<1>3. IsFiniteSet(idle) /\ IsFiniteSet(Busy) /\ IsFiniteSet(Live)
  BY <1>2, FS_Subset DEF TypeOK, Busy, Live
<1>4. IsFiniteSet(Woken) /\ IsFiniteSet(Owners)
  BY TasksAssumption, FS_Subset DEF Woken, Owners
<1> QED
  BY <1>2, <1>3, <1>4, FS_CardinalityType

\* A sweep removes idle connections only, so it leaves the busy ones alone.
LEMMA SweepKeepsBusy ==
    ASSUME TypeOK
    PROVE  /\ Free \subseteq idle /\ Free \subseteq Live
           /\ Live \subseteq slots /\ Live \ Free = Busy
BY DEF TypeOK, Live, Free, Busy, Expired, NotBase

-----------------------------------------------------------------------------
(* Shape is an invariant.                                                  *)

LEMMA ShapeInit == Init => Shape
<1> SUFFICES ASSUME Init PROVE Shape
  OBVIOUS
<1>1. TypeOK
  BY DEF Init, TypeOK, Phases
<1>2. Owners = {} /\ Busy = {}
  BY DEF Init, Owners, Owning, Busy
<1>3. Lent
  BY <1>2 DEF Lent
<1>4. QueueIsSleepers /\ ClosedIsEmpty
  BY DEF Init, QueueIsSleepers, ClosedIsEmpty
<1> QED
  BY <1>1, <1>3, <1>4 DEF Shape

\* What a worker's attempt to get a connection does to the shape, whether it
\* has just arrived or was woken: an attempt starts from phase p with no signal
\* pending afterwards.
LEMMA ShapeAttempt ==
    ASSUME Shape, NEW t \in Tasks, NEW first \in BOOLEAN, Attempt(t, first),
           phase[t] \notin Owning, t \notin waiters,
           wake' = [wake EXCEPT ![t] = "none"],
           UNCHANGED <<closed, reaper>>
    PROVE  Shape'
<1> USE DEF Shape
<1>1. CASE TurnAway(t)
  BY <1>1 DEF TurnAway, TypeOK, Lent, QueueIsSleepers, ClosedIsEmpty,
              Owners, Owning, Busy, Phases, Refused
<1>2. CASE ~closed /\ Enqueue(t, first) /\ stale' = stale \cap idle'
  <2>1. TypeOK'
    BY <1>2, SweepKeepsBusy DEF Enqueue, TypeOK, Phases, Owning, Refused
  <2>2. Busy' = Busy /\ Owners' = Owners
    BY <1>2, SweepKeepsBusy DEF Enqueue, TypeOK, Busy, Owners, Owning
  <2>3. Lent'
    BY <1>2, <2>2 DEF Enqueue, Lent
  <2>4. QueueIsSleepers'
    BY <1>2 DEF Enqueue, TypeOK, QueueIsSleepers
  <2> QED
    BY <1>2, <2>1, <2>3, <2>4 DEF ClosedIsEmpty
<1>3. CASE ~closed /\ TakeIdle(t, first) /\ stale' = stale \cap idle'
  <2>1. PICK c \in Free : /\ idle' = Free \ {c}
                          /\ seqOf' = [seqOf EXCEPT ![t] = c]
    BY <1>3 DEF TakeIdle, First
  <2>2. c \in idle /\ c \in Nat /\ c \notin Busy
    <3>1. c \in idle /\ c \in slots
      BY <2>1, SweepKeepsBusy DEF TypeOK
    <3>2. slots \subseteq Nat
      BY DEF TypeOK
    <3> QED
      BY <3>1, <3>2 DEF Busy
  <2>3. TypeOK'
    BY <1>3, <2>1, <2>2, SweepKeepsBusy DEF TakeIdle, TypeOK, Phases, Owning, Refused
  <2>4. Busy' = Busy \cup {c} /\ Owners' = Owners \cup {t} /\ t \notin Owners
    BY <1>3, <2>1, SweepKeepsBusy DEF TakeIdle, TypeOK, Busy, Owners, Owning
  <2>5. \A u \in Owners : seqOf'[u] = seqOf[u]
    BY <2>1, <2>4 DEF TypeOK
  <2>6. seqOf'[t] = c
    BY <2>1 DEF TypeOK
  <2>7. Lent'
    BY <1>3, <2>2, <2>4, <2>5, <2>6 DEF Lent
  <2>8. QueueIsSleepers'
    BY <1>3 DEF TakeIdle, TypeOK, QueueIsSleepers
  <2> QED
    BY <1>3, <2>3, <2>7, <2>8 DEF ClosedIsEmpty
<1>4. CASE ~closed /\ Reserve(t, first) /\ stale' = stale \cap idle'
  <2>1. nextSeq \in Nat /\ nextSeq \notin slots
    BY DEF TypeOK
  <2>2. TypeOK'
    <3>1. slots' \subseteq 0 .. nextSeq' - 1 /\ nextSeq' \in Nat
      <4>1. slots' = Live \cup {nextSeq} /\ nextSeq' = nextSeq + 1
        BY <1>4 DEF Reserve
      <4>2. Live \subseteq 0 .. nextSeq - 1
        BY SweepKeepsBusy DEF TypeOK
      <4>3. 0 .. nextSeq - 1 \subseteq 0 .. nextSeq /\ nextSeq \in 0 .. nextSeq
        BY <2>1
      <4>4. nextSeq' - 1 = nextSeq /\ nextSeq' \in Nat
        BY <2>1, <4>1
      <4> QED
        BY <4>1, <4>2, <4>3, <4>4
    <3>2. idle' \subseteq slots' /\ stale' \subseteq idle'
      BY <1>4, SweepKeepsBusy DEF Reserve
    <3>3. seqOf' \in [Tasks -> Nat] /\ phase' \in [Tasks -> Phases]
      BY <1>4, <2>1 DEF Reserve, TypeOK, Phases, Owning
    <3>4. wake' \in [Tasks -> {"none", "signaled", "cancelled"}]
      BY DEF TypeOK
    <3> QED
      BY <1>4, <3>1, <3>2, <3>3, <3>4 DEF Reserve, TypeOK
  <2>3. Busy' = Busy \cup {nextSeq} /\ Owners' = Owners \cup {t} /\ t \notin Owners
    BY <1>4, <2>1, SweepKeepsBusy DEF Reserve, TypeOK, Busy, Owners, Owning
  <2>4. \A u \in Owners : seqOf'[u] = seqOf[u]
    BY <1>4, <2>3 DEF Reserve, TypeOK
  <2>5. seqOf'[t] = nextSeq /\ nextSeq \notin Busy
    BY <1>4, <2>1 DEF Reserve, TypeOK, Busy
  <2>6. Lent'
    BY <1>4, <2>3, <2>4, <2>5 DEF Lent
  <2>7. QueueIsSleepers'
    BY <1>4 DEF Reserve, TypeOK, QueueIsSleepers
  <2> QED
    BY <1>4, <2>2, <2>6, <2>7 DEF ClosedIsEmpty
<1> QED
  BY <1>1, <1>2, <1>3, <1>4 DEF Attempt

\* Signalling the queue head keeps the queue and the sleepers in step.
LEMMA WakeNextKeepsQueue ==
    ASSUME TypeOK, QueueIsSleepers, WakeNext,
           NEW t \in Tasks, phase[t] # "waiting",
           NEW p \in Phases \ {"waiting"}, phase' = [phase EXCEPT ![t] = p]
    PROVE  /\ waiters' \in SUBSET Tasks
           /\ wake' \in [Tasks -> {"none", "signaled", "cancelled"}]
           /\ phase' \in [Tasks -> Phases]
           /\ QueueIsSleepers'
BY DEF WakeNext, TypeOK, QueueIsSleepers, First

LEMMA ShapeConnect ==
    ASSUME Shape, NEW t \in Tasks, ConnectOk(t) \/ ConnectErr(t) \/ ConnectLate(t)
    PROVE  Shape'
<1> USE DEF Shape
<1>1. CASE ConnectOk(t)
  BY <1>1 DEF ConnectOk, TypeOK, Lent, QueueIsSleepers, ClosedIsEmpty,
              Owners, Owning, Busy, Phases, Refused
<1>2. CASE ConnectErr(t)
  <2>1. t \in Owners /\ seqOf[t] \in Busy
    BY <1>2 DEF ConnectErr, Owners, Owning, Lent
  <2>2. waiters' \in SUBSET Tasks /\ phase' \in [Tasks -> Phases] /\ QueueIsSleepers'
        /\ wake' \in [Tasks -> {"none", "signaled", "cancelled"}]
    BY <1>2, WakeNextKeepsQueue DEF ConnectErr, Phases, Refused
  <2>3. TypeOK'
    BY <1>2, <2>1, <2>2 DEF ConnectErr, TypeOK, Busy
  <2>4. Busy' = Busy \ {seqOf[t]} /\ Owners' = Owners \ {t}
    BY <1>2, <2>1 DEF ConnectErr, TypeOK, Busy, Owners, Owning
  <2>5. Lent'
    BY <1>2, <2>1, <2>4 DEF ConnectErr, Lent
  <2> QED
    BY <1>2, <2>2, <2>3, <2>5 DEF ConnectErr, ClosedIsEmpty
<1>3. CASE ConnectLate(t)
  BY <1>3 DEF ConnectLate, TypeOK, Lent, QueueIsSleepers, ClosedIsEmpty,
              Phases, Refused
<1> QED
  BY <1>1, <1>2, <1>3

LEMMA ShapeCheckin ==
    ASSUME Shape, NEW t \in Tasks, Checkin(t)
    PROVE  Shape'
<1> USE DEF Shape
<1>1. t \in Owners /\ phase[t] # "waiting"
  BY DEF Checkin, CheckinDrop, CheckinHealthy, Owners, Owning
<1>2. CASE CheckinDrop(t)
  <2>1. waiters' \in SUBSET Tasks /\ phase' \in [Tasks -> Phases] /\ QueueIsSleepers'
        /\ wake' \in [Tasks -> {"none", "signaled", "cancelled"}]
    BY <1>1, <1>2, WakeNextKeepsQueue DEF CheckinDrop, Phases
  <2>2. ~closed => Busy' = Busy \ {seqOf[t]} /\ Owners' = Owners \ {t} /\ seqOf[t] \in Busy
    BY <1>1, <1>2 DEF CheckinDrop, TypeOK, Busy, Owners, Owning, Lent
  <2>3. TypeOK'
    BY <1>2, <2>1, <2>2 DEF CheckinDrop, TypeOK, Busy, ClosedIsEmpty
  <2>4. Lent'
    BY <1>1, <1>2, <2>2 DEF CheckinDrop, Lent
  <2>5. ClosedIsEmpty'
    BY <1>2 DEF CheckinDrop, WakeNext, ClosedIsEmpty
  <2> QED
    BY <2>1, <2>3, <2>4, <2>5
<1>3. CASE CheckinHealthy(t)
  <2>1. waiters' \in SUBSET Tasks /\ phase' \in [Tasks -> Phases] /\ QueueIsSleepers'
        /\ wake' \in [Tasks -> {"none", "signaled", "cancelled"}]
    BY <1>1, <1>3, WakeNextKeepsQueue DEF CheckinHealthy, Phases
  <2>2. seqOf[t] \in Busy
    BY <1>1, <1>3 DEF CheckinHealthy, Lent
  <2>3. slots' = slots /\ Busy' = Busy \ {seqOf[t]} /\ Owners' = Owners \ {t}
    BY <1>1, <1>3, <2>2 DEF CheckinHealthy, TypeOK, Busy, Owners, Owning
  <2>4. reaper' \in {"off", "scan", "sleep"}
    BY <1>3 DEF CheckinHealthy, EnsureReaper, TypeOK
  <2>5. TypeOK'
    BY <1>3, <2>1, <2>2, <2>3, <2>4 DEF CheckinHealthy, TypeOK, Busy
  <2>6. Lent'
    BY <1>1, <1>3, <2>3 DEF CheckinHealthy, Lent
  <2> QED
    BY <1>3, <2>1, <2>5, <2>6 DEF CheckinHealthy, ClosedIsEmpty
<1> QED
  BY <1>2, <1>3 DEF Checkin

LEMMA ShapeReaper ==
    ASSUME Shape, Reaper
    PROVE  Shape'
<1> USE DEF Shape
<1>1. CASE ReaperScan
  BY <1>1 DEF ReaperScan, TypeOK, Lent, QueueIsSleepers, ClosedIsEmpty,
              Owners, Busy
<1>2. CASE ReaperWake /\ closed
  BY <1>2 DEF ReaperWake, TypeOK, Lent, QueueIsSleepers, ClosedIsEmpty
<1>3. CASE ReaperWake /\ ~closed
  <2>1. TypeOK'
    BY <1>3, SweepKeepsBusy DEF ReaperWake, TypeOK, Free, Live
  <2>2. Busy' = Busy /\ Owners' = Owners
    BY <1>3, SweepKeepsBusy DEF ReaperWake, Busy, Owners
  <2> QED
    BY <1>3, <2>1, <2>2 DEF ReaperWake, Lent, QueueIsSleepers, ClosedIsEmpty
<1> QED
  BY <1>1, <1>2, <1>3 DEF Reaper

LEMMA ShapeNext == Shape /\ [Next]_vars => Shape'
<1> SUFFICES ASSUME Shape, [Next]_vars PROVE Shape'
  OBVIOUS
<1> USE DEF Shape
<1>1. ASSUME NEW t \in Tasks, Checkout(t) PROVE Shape'
  <2>1. phase[t] \notin Owning /\ t \notin waiters
    BY <1>1 DEF Checkout, QueueIsSleepers, Owning
  <2>2. wake' = [wake EXCEPT ![t] = "none"]
    BY <1>1 DEF Checkout, TypeOK, QueueIsSleepers
  <2> QED
    BY <1>1, <2>1, <2>2, ShapeAttempt DEF Checkout
<1>2. ASSUME NEW t \in Tasks, Retry(t) PROVE Shape'
  <2>1. phase[t] \notin Owning /\ t \notin waiters
    BY <1>2 DEF Retry, Woken, QueueIsSleepers, Owning
  <2> QED
    BY <1>2, <2>1, ShapeAttempt DEF Retry
<1>3. ASSUME NEW t \in Tasks, ReturnCancelled(t) PROVE Shape'
  <2>1. Owners' = Owners /\ Busy' = Busy
    BY <1>3 DEF ReturnCancelled, TypeOK, Owners, Owning, Busy
  <2>2. Lent'
    BY <1>3, <2>1 DEF ReturnCancelled, Lent
  <2> QED
    BY <1>3, <2>2 DEF ReturnCancelled, TypeOK, QueueIsSleepers, ClosedIsEmpty,
                      Phases, Refused
<1>4. ASSUME NEW t \in Tasks, CancelWaiter(t) PROVE Shape'
  <2>1. Owners' = Owners /\ Busy' = Busy
    BY <1>4 DEF CancelWaiter, Owners, Busy
  <2>2. Lent'
    BY <1>4, <2>1 DEF CancelWaiter, Lent
  <2> QED
    BY <1>4, <2>2 DEF CancelWaiter, TypeOK, QueueIsSleepers, ClosedIsEmpty
<1>5. CASE Close
  BY <1>5 DEF Close, TypeOK, Lent, QueueIsSleepers, ClosedIsEmpty
<1>6. ASSUME NEW c \in idle, IdleTimeout(c) PROVE Shape'
  BY <1>6 DEF IdleTimeout, TypeOK, Lent, QueueIsSleepers, ClosedIsEmpty,
              Owners, Busy
<1>7. CASE UNCHANGED vars
  BY <1>7 DEF vars, TypeOK, Lent, QueueIsSleepers, ClosedIsEmpty, Owners, Busy
<1> QED
  BY <1>1, <1>2, <1>3, <1>4, <1>5, <1>6, <1>7, ShapeConnect, ShapeCheckin, ShapeReaper
     DEF Next, Worker

\* Types, ownership, the queue and the emptiness of a closed pool, for every
\* number of tasks and every capacity.
THEOREM ShapeInvariant == Spec => []Shape
<1>1. Init => Shape
  BY ShapeInit
<1>2. Shape /\ [Next]_vars => Shape'
  BY ShapeNext
<1> QED
  BY <1>1, <1>2, PTL DEF Spec

\* The types of the pool's state.
THEOREM TypeCorrect == Spec => []TypeOK
BY ShapeInvariant, PTL DEF Shape

\* A slot made busy has its new owner, and an owner that leaves takes its slot
\* along or leaves it idle.
LEMMA OwnershipNext ==
    ASSUME Shape, Ownership, [Next]_vars
    PROVE  Ownership'
<1> USE DEF Shape
<1> DEFINE Owned(c) == \E u \in Owners : seqOf[u] = c
<1>1. Shape'
  BY ShapeNext
<1>2. CASE closed'
  BY <1>2 DEF Ownership
<1> SUFFICES ASSUME ~closed', NEW c \in Busy' PROVE Owned(c)'
  BY <1>1, <1>2 DEF Ownership, Lent
<1>3. ASSUME ~closed, c \in Busy PROVE Owned(c)
  BY <1>3 DEF Ownership
<1>4. ASSUME Owners' = Owners, seqOf' = seqOf, ~closed, Busy' \subseteq Busy
      PROVE  Owned(c)'
  BY <1>3, <1>4
<1>5. ASSUME NEW t \in Tasks, NEW first \in BOOLEAN, Attempt(t, first), ~closed,
             t \notin Owners
      PROVE  Owned(c)'
  <2>1. CASE Enqueue(t, first)
    BY <1>4, <1>5, <2>1, SweepKeepsBusy DEF Enqueue, TypeOK, Busy, Owners, Owning
  <2>2. CASE TakeIdle(t, first) \/ Reserve(t, first)
    <3>1. PICK new \in Nat : seqOf' = [seqOf EXCEPT ![t] = new] /\ Busy' \subseteq Busy \cup {new}
      <4>1. CASE TakeIdle(t, first)
        <5>1. PICK i \in Free : /\ idle' = Free \ {i} /\ slots' = Live
                               /\ seqOf' = [seqOf EXCEPT ![t] = i]
          BY <4>1 DEF TakeIdle, First
        <5>2. i \in slots /\ slots \subseteq Nat
          BY SweepKeepsBusy DEF TypeOK
        <5>3. Busy' \subseteq Busy \cup {i}
          BY <5>1, SweepKeepsBusy DEF Busy
        <5> QED
          BY <5>1, <5>2, <5>3
      <4>2. CASE Reserve(t, first)
        <5>1. nextSeq \in Nat /\ Busy' \subseteq Busy \cup {nextSeq}
          BY <4>2, SweepKeepsBusy DEF Reserve, TypeOK, Busy
        <5> QED
          BY <4>2, <5>1 DEF Reserve
      <4> QED
        BY <2>2, <4>1, <4>2
    <3>2. Owners' = Owners \cup {t}
      BY <2>2 DEF TakeIdle, Reserve, TypeOK, Owners, Owning
    <3>3. seqOf'[t] = new /\ \A u \in Owners : seqOf'[u] = seqOf[u]
      BY <1>5, <3>1 DEF TypeOK, Owners
    <3>4. CASE c = new
      BY <3>2, <3>3, <3>4
    <3>5. CASE c \in Busy
      BY <1>3, <1>5, <3>2, <3>3, <3>5
    <3> QED
      BY <3>1, <3>4, <3>5
  <2> QED
    BY <1>5, <2>1, <2>2 DEF Attempt, TurnAway
<1>6. ASSUME NEW t \in Tasks, Checkout(t) \/ Retry(t) PROVE Owned(c)'
  <2>1. ~closed
    BY <1>6 DEF Checkout, Retry
  <2>2. t \notin Owners
    BY <1>6 DEF Checkout, Retry, Woken, Owners, Owning
  <2> QED
    BY <1>5, <1>6, <2>1, <2>2 DEF Checkout, Retry
<1>7. ASSUME NEW t \in Tasks, ReturnCancelled(t) \/ ConnectOk(t) \/ CancelWaiter(t)
      PROVE  Owned(c)'
  <2>1. Owners' = Owners
    BY <1>7 DEF ReturnCancelled, ConnectOk, CancelWaiter, TypeOK, Owners, Owning
  <2>2. Busy' = Busy /\ seqOf' = seqOf /\ ~closed
    BY <1>7 DEF ReturnCancelled, ConnectOk, CancelWaiter, Busy
  <2> QED
    BY <1>4, <2>1, <2>2
<1>8. ASSUME NEW t \in Tasks, ConnectErr(t) \/ Checkin(t) PROVE Owned(c)'
  <2>1. t \in Owners /\ ~closed
    BY <1>8 DEF ConnectErr, Checkin, CheckinDrop, CheckinHealthy, Owners, Owning
  <2>2. seqOf[t] \in Busy /\ seqOf' = seqOf
    BY <1>8, <2>1 DEF ConnectErr, Checkin, CheckinDrop, CheckinHealthy, Lent
  <2>3. Busy' \subseteq Busy \ {seqOf[t]}
    BY <1>8, <2>2 DEF ConnectErr, Checkin, CheckinDrop, CheckinHealthy, Busy, TypeOK
  <2>4. Owners' = Owners \ {t}
    BY <1>8 DEF ConnectErr, Checkin, CheckinDrop, CheckinHealthy, Owners, Owning, TypeOK
  <2> QED
    BY <1>3, <2>1, <2>2, <2>3, <2>4
<1>9. ASSUME Reaper \/ (\E i \in idle : IdleTimeout(i)) \/ UNCHANGED vars
      PROVE  Owned(c)'
  <2>1. Owners' = Owners /\ seqOf' = seqOf /\ ~closed
    BY <1>9 DEF Reaper, ReaperScan, ReaperWake, IdleTimeout, vars, Owners
  <2>2. Busy' \subseteq Busy
    BY <1>9, SweepKeepsBusy DEF Reaper, ReaperScan, ReaperWake, IdleTimeout, vars, Busy
  <2> QED
    BY <1>4, <2>1, <2>2
<1> QED
  BY <1>6, <1>7, <1>8, <1>9 DEF Next, Worker, ConnectLate, Close

\* No connection is lent to two workers, and no busy slot is without a worker
\* that will give it back.
THEOREM OwnershipHolds == Spec => []Ownership
<1>1. Init => Ownership
  BY DEF Init, Ownership, Owners, Owning, Busy
<1>2. Shape /\ Ownership /\ [Next]_vars => Ownership'
  BY OwnershipNext
<1> QED
  BY <1>1, <1>2, ShapeInvariant, PTL DEF Spec

\* A closed pool keeps nothing, whatever comes back late.
THEOREM ClosedIsEmptyHolds == Spec => []ClosedIsEmpty
BY ShapeInvariant, PTL DEF Shape

\* The queue holds the sleeping workers nobody has signalled, and no others.
THEOREM QueueIsSleepersHolds == Spec => []QueueIsSleepers
BY ShapeInvariant, PTL DEF Shape

-----------------------------------------------------------------------------
(* Capacity.                                                               *)

\* Only Reserve adds a slot, and it tests the capacity in the critical section
\* that adds it.
LEMMA CapacityNext ==
    ASSUME Shape, Capacity, [Next]_vars
    PROVE  Capacity'
<1>1. TypeOK
  BY DEF Shape
<1>2. CASE slots' \subseteq slots
  <2>1. IsFiniteSet(slots) /\ Cardinality(slots) \in Nat
    BY <1>1, Finiteness
  <2>2. Cardinality(slots') <= Cardinality(slots) /\ Cardinality(slots') \in Nat
    BY <1>2, <2>1, FS_Subset, FS_CardinalityType
  <2> QED
    BY <2>1, <2>2, MaxConnsAssumption DEF Capacity
<1>3. ASSUME NEW t \in Tasks, NEW first \in BOOLEAN, Reserve(t, first)
      PROVE  Capacity'
  <2>1. IsFiniteSet(Live) /\ Cardinality(Live) \in Nat
    BY <1>1, Finiteness
  <2>2. Cardinality(slots') <= Cardinality(Live) + 1
    <3>1. Cardinality(Live \cup {nextSeq})
            = IF nextSeq \in Live THEN Cardinality(Live) ELSE Cardinality(Live) + 1
      BY <2>1, FS_AddElement
    <3>2. slots' = Live \cup {nextSeq}
      BY <1>3 DEF Reserve
    <3> QED
      BY <2>1, <3>1, <3>2
  <2>3. Cardinality(slots') \in Nat
    BY <1>3, <2>1, FS_AddElement, FS_CardinalityType DEF Reserve
  <2> QED
    BY <1>3, <2>1, <2>2, <2>3, MaxConnsAssumption DEF Reserve, Capacity
<1>4. ASSUME NEW t \in Tasks, CheckinHealthy(t) PROVE slots' \subseteq slots
  BY <1>4 DEF CheckinHealthy, Shape, Lent, Owners, Owning, Busy
<1>5. ASSUME NEW t \in Tasks, NEW first \in BOOLEAN, Attempt(t, first), ~Reserve(t, first)
      PROVE  slots' \subseteq slots
  BY <1>5, <1>1, SweepKeepsBusy DEF Attempt, TurnAway, Enqueue, TakeIdle
<1>6. ASSUME Reaper PROVE slots' \subseteq slots
  BY <1>6, <1>1, SweepKeepsBusy DEF Reaper, ReaperScan, ReaperWake
<1>7. ASSUME NEW t \in Tasks, CheckinDrop(t) \/ ConnectOk(t) \/ ConnectErr(t)
             \/ ConnectLate(t) \/ ReturnCancelled(t) \/ CancelWaiter(t)
      PROVE  slots' \subseteq slots
  BY <1>7 DEF CheckinDrop, ConnectOk, ConnectErr, ConnectLate, ReturnCancelled,
              CancelWaiter
<1>8. ASSUME Close \/ (\E c \in idle : IdleTimeout(c)) \/ UNCHANGED vars
      PROVE  slots' \subseteq slots
  BY <1>8 DEF Close, IdleTimeout, vars
<1>9. ASSUME NEW t \in Tasks, Checkout(t) \/ Retry(t) PROVE Capacity'
  BY <1>2, <1>3, <1>5, <1>9 DEF Checkout, Retry
<1> QED
  BY <1>2, <1>4, <1>6, <1>7, <1>8, <1>9 DEF Next, Worker, Checkin

\* Never more than MaxConns connections per session, whatever connects, fails
\* and comes back concurrently.
THEOREM CapacityHolds == Spec => []Capacity
<1>1. Init => Capacity
  BY FS_EmptySet, MaxConnsAssumption DEF Init, Capacity
<1>2. Shape /\ Capacity /\ [Next]_vars => Capacity'
  BY CapacityNext
<1> QED
  BY <1>1, <1>2, ShapeInvariant, PTL DEF Spec

-----------------------------------------------------------------------------
(* No lost wake-up.                                                        *)

\* A connection taken or reserved by a woken worker: one more busy slot, one
\* worker fewer on its way.
LEMMA RetryTakes ==
    ASSUME Shape, NEW t \in Woken, Retry(t), ~closed,
           TakeIdle(t, FALSE) \/ Reserve(t, FALSE)
    PROVE  Cardinality(Busy') + Cardinality(Woken') = Cardinality(Busy) + Cardinality(Woken)
<1> USE DEF Shape
<1>1. Woken' = Woken \ {t}
  BY DEF Retry, TypeOK, Woken, TakeIdle, Reserve
<1>2. \E c : c \notin Busy /\ Busy' = Busy \cup {c}
  <2>1. CASE TakeIdle(t, FALSE)
    <3>1. PICK c \in Free : idle' = Free \ {c} /\ slots' = Live
      BY <2>1 DEF TakeIdle, First
    <3>2. c \notin Busy /\ Busy' = Busy \cup {c}
      BY <3>1, SweepKeepsBusy DEF Busy
    <3> QED
      BY <3>2
  <2>2. CASE Reserve(t, FALSE)
    <3>1. nextSeq \notin slots
      BY DEF TypeOK
    <3>2. nextSeq \notin Busy /\ Busy' = Busy \cup {nextSeq}
      BY <2>2, <3>1, SweepKeepsBusy DEF Reserve, TypeOK, Busy
    <3> QED
      BY <3>2
  <2> QED
    BY <2>1, <2>2
<1>3. Cardinality(Busy') = Cardinality(Busy) + 1
  BY <1>2, Finiteness, FS_AddElement
<1>4. Cardinality(Woken') = Cardinality(Woken) - 1
  BY <1>1, Finiteness, FS_RemoveElement
<1> QED
  BY <1>3, <1>4, Finiteness

\* A busy slot given up with a wake-up: the head of a non-empty queue is on its
\* way in place of the owner that leaves.
LEMMA ReleaseWakes ==
    ASSUME Shape, ~closed, NEW t \in Owners, NEW p \in {"Connect", "returned"},
           phase' = [phase EXCEPT ![t] = p], WakeNext, waiters # {},
           Busy' = Busy \ {seqOf[t]}
    PROVE  Cardinality(Busy') + Cardinality(Woken') = Cardinality(Busy) + Cardinality(Woken)
<1> USE DEF Shape
<1>1. PICK m \in waiters : First(waiters) = {m}
  BY FirstIsSingleton, TasksAssumption DEF TypeOK
<1>2. m \notin Woken /\ m \in Tasks /\ phase[m] = "waiting" /\ m # t
  BY DEF QueueIsSleepers, Woken, Owners, Owning
<1>3. Woken' = Woken \cup {m}
  BY <1>1, <1>2 DEF WakeNext, Woken, TypeOK, Owners, Owning
<1>4. seqOf[t] \in Busy
  BY DEF Lent
<1>5. Cardinality(Busy') = Cardinality(Busy) - 1
  BY <1>4, Finiteness, FS_RemoveElement
<1>6. Cardinality(Woken') = Cardinality(Woken) + 1
  BY <1>2, <1>3, Finiteness, FS_AddElement
<1> QED
  BY <1>5, <1>6, Finiteness

\* A slot is given up only with a wake-up, and a signal is used up only on a
\* slot, a place in the queue or a closed pool.
LEMMA NoLostWakeupNext ==
    ASSUME Shape, NoLostWakeup, [Next]_vars
    PROVE  NoLostWakeup'
<1> SUFFICES ASSUME ~closed', waiters' # {}
             PROVE  Cardinality(Busy') + Cardinality(Woken') >= MaxConns
  BY DEF NoLostWakeup
<1> USE DEF Shape
<1>1. ~closed
  BY DEF Next, Worker, Checkout, Retry, Attempt, TurnAway, ReturnCancelled,
         ConnectOk, ConnectErr, ConnectLate, Checkin, CheckinDrop, CheckinHealthy,
         CancelWaiter, Close, IdleTimeout, Reaper, ReaperScan, ReaperWake, vars
<1>2. CASE waiters # {} /\ Busy' = Busy /\ Woken' = Woken
  BY <1>1, <1>2 DEF NoLostWakeup
<1>3. ASSUME Free = {}, Cardinality(Live) >= MaxConns, slots' = Live, idle' = Free
      PROVE  Cardinality(Busy') + Cardinality(Woken') >= MaxConns
  <2>1. Busy' = Live
    BY <1>3 DEF Busy
  <2>2. Cardinality(Live) \in Nat
    BY Finiteness
  <2>3. Cardinality(Woken') \in Nat
    BY TasksAssumption, FS_Subset, FS_CardinalityType DEF Woken
  <2> QED
    BY <1>3, <2>1, <2>2, <2>3, MaxConnsAssumption
<1>4. ASSUME NEW t \in Tasks, Checkout(t)
      PROVE  Cardinality(Busy') + Cardinality(Woken') >= MaxConns
  <2>1. Enqueue(t, TRUE)
    BY <1>1, <1>4 DEF Checkout, Attempt, TurnAway, TakeIdle, Reserve, Barred
  <2>2. Woken' = Woken
    BY <1>4, <2>1 DEF Checkout, Enqueue, TypeOK, QueueIsSleepers, Woken
  <2>3. Busy' = Busy
    BY <2>1, SweepKeepsBusy DEF Enqueue, Busy
  <2>4. CASE waiters # {}
    BY <1>2, <2>2, <2>3, <2>4
  <2>5. CASE waiters = {}
    BY <1>3, <2>1, <2>5 DEF Enqueue, Barred
  <2> QED
    BY <2>4, <2>5
<1>5. ASSUME NEW t \in Tasks, Retry(t)
      PROVE  Cardinality(Busy') + Cardinality(Woken') >= MaxConns
  <2>1. CASE Enqueue(t, FALSE)
    BY <1>3, <2>1 DEF Enqueue, Barred
  <2>2. CASE TakeIdle(t, FALSE) \/ Reserve(t, FALSE)
    <3>1. waiters' = waiters
      BY <2>2 DEF TakeIdle, Reserve
    <3> QED
      BY <1>1, <1>5, <2>2, <3>1, RetryTakes DEF NoLostWakeup, Retry
  <2> QED
    BY <1>1, <1>5, <2>1, <2>2 DEF Retry, Attempt, TurnAway
<1>6. ASSUME NEW t \in Tasks, ReturnCancelled(t) \/ ConnectOk(t)
      PROVE  Cardinality(Busy') + Cardinality(Woken') >= MaxConns
  <2>1. Woken' = Woken
    BY <1>6 DEF ReturnCancelled, ConnectOk, TypeOK, Woken
  <2>2. Busy' = Busy /\ waiters' = waiters
    BY <1>6 DEF ReturnCancelled, ConnectOk, Busy
  <2> QED
    BY <1>2, <2>1, <2>2
<1>7. ASSUME NEW t \in Tasks, ConnectErr(t) \/ Checkin(t)
      PROVE  Cardinality(Busy') + Cardinality(Woken') >= MaxConns
  <2>1. t \in Owners /\ seqOf[t] \in Busy
    BY <1>1, <1>7 DEF ConnectErr, Checkin, CheckinDrop, CheckinHealthy,
                      Owners, Owning, Lent
  <2>2. Busy' = Busy \ {seqOf[t]}
    BY <1>7, <2>1 DEF ConnectErr, Checkin, CheckinDrop, CheckinHealthy, Busy, TypeOK
  <2>3. waiters # {}
    BY <1>7 DEF ConnectErr, Checkin, CheckinDrop, CheckinHealthy, WakeNext
  <2>4. WakeNext /\ \E p \in {"Connect", "returned"} : phase' = [phase EXCEPT ![t] = p]
    BY <1>7 DEF ConnectErr, Checkin, CheckinDrop, CheckinHealthy
  <2> QED
    BY <1>1, <2>1, <2>2, <2>3, <2>4, ReleaseWakes DEF NoLostWakeup
<1>8. ASSUME NEW t \in Tasks, CancelWaiter(t)
      PROVE  Cardinality(Busy') + Cardinality(Woken') >= MaxConns
  <2>1. Woken' = Woken
    BY <1>8 DEF CancelWaiter, TypeOK, QueueIsSleepers, Woken
  <2>2. Busy' = Busy /\ waiters # {}
    BY <1>8 DEF CancelWaiter, Busy
  <2> QED
    BY <1>2, <2>1, <2>2
<1>9. ASSUME Reaper \/ (\E c \in idle : IdleTimeout(c)) \/ UNCHANGED vars
      PROVE  Cardinality(Busy') + Cardinality(Woken') >= MaxConns
  <2>1. Woken' = Woken /\ waiters' = waiters
    BY <1>9 DEF Reaper, ReaperScan, ReaperWake, IdleTimeout, vars, Woken
  <2>2. Busy' = Busy
    BY <1>1, <1>9, SweepKeepsBusy DEF Reaper, ReaperScan, ReaperWake, IdleTimeout, vars, Busy
  <2> QED
    BY <1>2, <2>1, <2>2
<1> QED
  BY <1>1, <1>4, <1>5, <1>6, <1>7, <1>8, <1>9 DEF Next, Worker, ConnectLate, Close

\* While a task sleeps in the queue of an open pool, the busy slots and the
\* woken workers account for the whole capacity: there is always somebody left
\* to wake it.
THEOREM NoLostWakeupHolds == Spec => []NoLostWakeup
<1>1. Init => NoLostWakeup
  BY DEF Init, NoLostWakeup
<1>2. Shape /\ NoLostWakeup /\ [Next]_vars => NoLostWakeup'
  BY NoLostWakeupNext
<1> QED
  BY <1>1, <1>2, ShapeInvariant, PTL DEF Spec

-----------------------------------------------------------------------------
(* The reaper.                                                             *)

\* Whatever its order with checkins, the reaper thread never ends while an
\* extra connection is left idle in an open pool.
THEOREM ExtrasHaveReaperHolds == Spec => []ExtrasHaveReaper
<1>1. Init => ExtrasHaveReaper
  BY DEF Init, ExtrasHaveReaper, NotBase
<1>2. Shape /\ Shape' /\ ExtrasHaveReaper /\ [Next]_vars => ExtrasHaveReaper'
  <2> SUFFICES ASSUME Shape, Shape', ExtrasHaveReaper, [Next]_vars
               PROVE  ExtrasHaveReaper'
    OBVIOUS
  <2> USE DEF Shape
  <2>1. CASE closed' = closed /\ reaper' = reaper
             /\ NotBase(slots', idle') \subseteq NotBase(slots, idle)
    BY <2>1 DEF ExtrasHaveReaper
  <2>2. ASSUME NEW t \in Tasks, Checkout(t) \/ Retry(t) PROVE ExtrasHaveReaper'
    <3>1. closed' = closed /\ reaper' = reaper
      BY <2>2 DEF Checkout, Retry
    <3>2. PICK first \in BOOLEAN : Attempt(t, first)
      BY <2>2 DEF Checkout, Retry
    <3>3. CASE TurnAway(t)
      BY <2>1, <3>1, <3>3 DEF TurnAway
    <3>4. CASE Enqueue(t, first) \/ TakeIdle(t, first)
      BY <2>1, <3>1, <3>4, SweepKeepsBusy DEF Enqueue, TakeIdle, NotBase
    <3>5. CASE Reserve(t, first)
      BY <2>1, <3>1, <3>5 DEF Reserve, NotBase
    <3> QED
      BY <3>2, <3>3, <3>4, <3>5 DEF Attempt
  <2>3. ASSUME NEW t \in Tasks, ReturnCancelled(t) \/ ConnectOk(t) \/ ConnectErr(t)
               \/ ConnectLate(t) \/ CheckinDrop(t) \/ CancelWaiter(t)
        PROVE  ExtrasHaveReaper'
    BY <2>1, <2>3 DEF ReturnCancelled, ConnectOk, ConnectErr, ConnectLate, CheckinDrop,
                      CancelWaiter, NotBase
  <2>4. ASSUME NEW t \in Tasks, CheckinHealthy(t) PROVE ExtrasHaveReaper'
    <3>1. slots' = slots
      BY <2>4 DEF CheckinHealthy, Lent, Owners, Owning, Busy
    <3> QED
      BY <2>4, <3>1 DEF CheckinHealthy, EnsureReaper, ExtrasHaveReaper
  <2>5. CASE Close
    BY <2>5 DEF Close, ExtrasHaveReaper
  <2>6. ASSUME NEW c \in idle, IdleTimeout(c) PROVE ExtrasHaveReaper'
    BY <2>1, <2>6 DEF IdleTimeout
  <2>7. CASE ReaperScan
    BY <2>7 DEF ReaperScan, ExtrasHaveReaper
  <2>8. CASE ReaperWake
    BY <2>8 DEF ReaperWake, ExtrasHaveReaper
  <2>9. CASE UNCHANGED vars
    BY <2>1, <2>9 DEF vars
  <2> QED
    BY <2>2, <2>3, <2>4, <2>5, <2>6, <2>7, <2>8, <2>9 DEF Next, Worker, Checkin, Reaper
<1> QED
  BY <1>1, <1>2, ShapeInvariant, PTL DEF Spec

\* No step of an open pool takes away an idle base connection.
THEOREM BaseIsKeptHolds == Spec => BaseIsKept
<1>1. Shape /\ [Next]_vars =>
        [\A b \in idle : ~closed' /\ NotBase(slots, {b}) = {} => b \in slots']_vars
  <2> SUFFICES ASSUME Shape, [Next]_vars, NEW b \in idle, ~closed',
                      NotBase(slots, {b}) = {}
               PROVE  b \in slots'
    OBVIOUS
  <2> USE DEF Shape
  <2>1. b \in Live /\ b \in slots
    BY DEF Live, Expired, NotBase, TypeOK
  <2>2. ASSUME NEW t \in Tasks, Checkout(t) \/ Retry(t) PROVE b \in slots'
    BY <2>1, <2>2 DEF Checkout, Retry, Attempt, TurnAway, Enqueue, TakeIdle, Reserve
  <2>3. ASSUME NEW t \in Tasks, ConnectErr(t) \/ CheckinDrop(t) \/ ConnectLate(t)
        PROVE  b \in slots'
    BY <2>1, <2>3 DEF ConnectErr, CheckinDrop, ConnectLate, Lent, Owners, Owning,
                      Busy
  <2>4. ASSUME Reaper PROVE b \in slots'
    BY <2>1, <2>4 DEF Reaper, ReaperScan, ReaperWake
  <2>5. ASSUME NEW t \in Tasks, ReturnCancelled(t) \/ ConnectOk(t) \/ CheckinHealthy(t)
               \/ CancelWaiter(t)
        PROVE  b \in slots'
    BY <2>1, <2>5 DEF ReturnCancelled, ConnectOk, CheckinHealthy, CancelWaiter
  <2>6. ASSUME (\E c \in idle : IdleTimeout(c)) \/ UNCHANGED vars PROVE b \in slots'
    BY <2>1, <2>6 DEF IdleTimeout, vars
  <2> QED
    BY <2>2, <2>3, <2>4, <2>5, <2>6 DEF Next, Worker, Checkin, Close
<1> QED
  BY <1>1, ShapeInvariant, PTL DEF Spec, BaseIsKept

-----------------------------------------------------------------------------
(* The pool implements SlotPool.                                           *)

\* The users of SlotPool are the owners, and there are no more of them than
\* busy slots.
LEMMA UsersAreOwners ==
    ASSUME Shape
    PROVE  /\ Promise!Using = Owners
           /\ ~closed => Cardinality(Owners) <= Cardinality(Busy)
           /\ Cardinality(Owners) \in Nat
<1> USE DEF Shape
<1>1. Promise!Using = Owners
  BY DEF Promise!Using, StageOf, Owners, Owning
<1>2. ASSUME ~closed PROVE Cardinality(Owners) <= Cardinality(Busy)
  <2>1. [t \in Owners |-> seqOf[t]] \in Injection(Owners, Busy)
    BY <1>2 DEF Lent, Injection, IsInjective
  <2> QED
    BY <2>1, Finiteness, FS_Injection
<1>3. Cardinality(Owners) \in Nat
  BY Finiteness, FS_CardinalityType
<1> QED
  BY <1>1, <1>2, <1>3

\* A worker that gets or reserves a connection is granted one in SlotPool.
LEMMA TakingIsGranting ==
    ASSUME Shape, Capacity, NEW t \in Tasks, NEW first \in BOOLEAN, ~closed,
           TakeIdle(t, first) \/ Reserve(t, first), closed' = closed,
           phase[t] \in {"new", "waiting"}
    PROVE  Promise!Grant(t)
<1> USE DEF Shape
<1>1. Cardinality(Busy) < MaxConns
  <2>1. CASE TakeIdle(t, first)
    <3>1. PICK c \in slots : c \notin Busy
      BY <2>1, SweepKeepsBusy DEF TakeIdle, First, Busy
    <3>2. Busy \subseteq slots \ {c}
      BY <3>1 DEF Busy
    <3>3. Cardinality(Busy) <= Cardinality(slots) - 1
      <4>1. IsFiniteSet(slots \ {c}) /\ Cardinality(slots \ {c}) = Cardinality(slots) - 1
        BY <3>1, Finiteness, FS_RemoveElement
      <4> QED
        BY <3>2, <4>1, FS_Subset
    <3> QED
      BY <3>3, Finiteness, MaxConnsAssumption DEF Capacity
  <2>2. CASE Reserve(t, first)
    <3>1. Cardinality(Busy) <= Cardinality(Live)
      BY SweepKeepsBusy, Finiteness, FS_Subset
    <3> QED
      BY <2>2, <3>1, Finiteness, MaxConnsAssumption DEF Reserve
  <2> QED
    BY <2>1, <2>2
<1>2. Promise!Cardinality(Promise!Using) < MaxConns
  <2>1. Cardinality(Promise!Using) < MaxConns
    BY <1>1, UsersAreOwners, Finiteness, MaxConnsAssumption
  <2>2. Promise!Cardinality(Promise!Using) = Cardinality(Promise!Using)
    BY DEF Promise!Cardinality, Cardinality
  <2> QED
    BY <2>1, <2>2
<1>3. phase' = [phase EXCEPT ![t] = "holding"] \/ phase' = [phase EXCEPT ![t] = "connecting"]
  BY DEF TakeIdle, Reserve
<1>4. [u \in Tasks |-> StageOf(u)]' = [[u \in Tasks |-> StageOf(u)] EXCEPT ![t] = "using"]
  BY <1>3 DEF StageOf, Owning, TypeOK
<1>5. [u \in Tasks |-> StageOf(u)][t] \in {"idle", "asked"}
  BY DEF StageOf, Owning
<1>6. (~closed)' = ~closed
  OBVIOUS
<1> QED
  BY <1>2, <1>4, <1>5, <1>6 DEF Promise!Grant, Promise!Become

\* The safety half of the promise: the pool's behaviours are SlotPool's.
THEOREM PromiseKept == Spec => KeepsPromise
<1>1. Init => Promise!Init
  BY DEF Init, Promise!Init, StageOf, Owning
<1>2. Shape /\ Capacity /\ [Next]_vars => [Promise!Next]_(Promise!svars)
  <2> SUFFICES ASSUME Shape, Capacity, [Next]_vars
               PROVE  Promise!Next \/ UNCHANGED Promise!svars
    OBVIOUS
  <2> USE DEF Shape
  <2>1. ASSUME phase' = phase, closed' = closed
        PROVE  UNCHANGED Promise!svars
    BY <2>1 DEF Promise!svars, StageOf
  <2>2. ASSUME NEW t \in Tasks, closed' = closed, phase[t] \in {"new", "waiting"},
               NEW p \in Refused, phase' = [phase EXCEPT ![t] = p]
        PROVE  Promise!Refuse(t)
    <3>1. [u \in Tasks |-> StageOf(u)]' = [[u \in Tasks |-> StageOf(u)] EXCEPT ![t] = "done"]
      BY <2>2 DEF StageOf, Owning, TypeOK, Refused
    <3>2. StageOf(t) \in {"idle", "asked"}
      BY <2>2 DEF StageOf, Owning
    <3> QED
      BY <2>2, <3>1, <3>2 DEF Promise!Refuse, Promise!Become
  <2>3. ASSUME NEW t \in Tasks, NEW first \in BOOLEAN, Attempt(t, first), closed' = closed,
               phase[t] = (IF first THEN "new" ELSE "waiting")
        PROVE  Promise!Next \/ UNCHANGED Promise!svars
    <3>1. CASE TurnAway(t)
      BY <2>2, <2>3, <3>1 DEF TurnAway, Refused, Promise!Next
    <3>2. CASE Enqueue(t, first) /\ first
      <4>1. [u \in Tasks |-> StageOf(u)]' = [[u \in Tasks |-> StageOf(u)] EXCEPT ![t] = "asked"]
        BY <3>2 DEF Enqueue, StageOf, TypeOK, Owning
      <4>2. StageOf(t) = "idle"
        BY <2>3, <3>2 DEF StageOf, Owning
      <4> QED
        BY <2>3, <4>1, <4>2 DEF Promise!Ask, Promise!Become, Promise!Next
    <3>3. CASE Enqueue(t, first) /\ ~first
      <4>1. phase' = phase
        BY <2>3, <3>3 DEF Enqueue, TypeOK
      <4> QED
        BY <2>1, <2>3, <4>1
    <3>4. CASE ~closed /\ (TakeIdle(t, first) \/ Reserve(t, first))
      BY <2>3, <3>4, TakingIsGranting DEF Promise!Next
    <3> QED
      BY <2>3, <3>1, <3>2, <3>3, <3>4 DEF Attempt
  <2>4. ASSUME NEW t \in Tasks, Checkout(t) \/ Retry(t)
        PROVE  Promise!Next \/ UNCHANGED Promise!svars
    BY <2>3, <2>4 DEF Checkout, Retry, Woken
  <2>5. ASSUME NEW t \in Tasks, ReturnCancelled(t)
        PROVE  Promise!Next \/ UNCHANGED Promise!svars
    BY <2>2, <2>5 DEF ReturnCancelled, Refused, Promise!Next
  <2>6. ASSUME NEW t \in Tasks, ConnectErr(t) \/ ConnectLate(t) \/ Checkin(t)
        PROVE  Promise!Next \/ UNCHANGED Promise!svars
    <3>1. phase[t] \in Owning /\ closed' = closed
      BY <2>6 DEF ConnectErr, ConnectLate, Checkin, CheckinDrop, CheckinHealthy, Owning
    <3>2. \E p \in {"Connect", "Closed", "returned"} : phase' = [phase EXCEPT ![t] = p]
      BY <2>6 DEF ConnectErr, ConnectLate, Checkin, CheckinDrop, CheckinHealthy
    <3>3. [u \in Tasks |-> StageOf(u)]' = [[u \in Tasks |-> StageOf(u)] EXCEPT ![t] = "done"]
      BY <3>2 DEF StageOf, Owning, TypeOK
    <3>4. StageOf(t) = "using"
      BY <3>1 DEF StageOf, Owning
    <3> QED
      BY <3>1, <3>3, <3>4 DEF Promise!Finish, Promise!Become, Promise!Next
  <2>7. ASSUME NEW t \in Tasks, ConnectOk(t)
        PROVE  Promise!Next \/ UNCHANGED Promise!svars
    <3>1. \A u \in Tasks : StageOf(u)' = StageOf(u)
      BY <2>7 DEF ConnectOk, StageOf, Owning, TypeOK
    <3> QED
      BY <2>7, <3>1 DEF ConnectOk, Promise!svars
  <2>8. CASE Close
    <3>1. \A u \in Tasks : StageOf(u)' = StageOf(u)
      BY <2>8 DEF Close, StageOf
    <3> QED
      BY <2>8, <3>1 DEF Close, Promise!Shut, Promise!Next
  <2>9. ASSUME \/ \E t \in Tasks : CancelWaiter(t)
               \/ \E c \in idle : IdleTimeout(c)
               \/ Reaper
               \/ UNCHANGED vars
        PROVE  UNCHANGED Promise!svars
    BY <2>1, <2>9 DEF CancelWaiter, IdleTimeout, Reaper, ReaperScan, ReaperWake, vars
  <2> QED
    BY <2>4, <2>5, <2>6, <2>7, <2>8, <2>9 DEF Next, Worker
<1> QED
  BY <1>1, <1>2, ShapeInvariant, CapacityHolds, PTL DEF Spec, KeepsPromise, Promise!Spec
=============================================================================
