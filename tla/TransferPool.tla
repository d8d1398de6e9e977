---------------------------- MODULE TransferPool ----------------------------
(***************************************************************************)
(* The per-session transfer connection pool of                             *)
(* src-tauri/src/core/transfer_pool.rs.                                    *)
(*                                                                         *)
(* Every action is one critical section of the pool's `state` mutex (or    *)
(* the passage of time).  A transfer worker calls `checkout` once, blocks  *)
(* on its own condition variable while it is queued, connects outside the  *)
(* lock, and gives the connection back once with `checkin`.                *)
(*                                                                         *)
(* Abstractions: a connection is its sequence number; the clock is reduced *)
(* to "this idle connection has passed the idle timeout" (`stale`), which  *)
(* may become true of an idle connection at any time and in any order.     *)
(***************************************************************************)
EXTENDS Naturals, FiniteSets

CONSTANTS
    Tasks,      \* queue_seq of the tasks that will ask for a connection
    MaxConns    \* MAX_TRANSFER_CONNECTIONS_PER_SESSION

ASSUME TasksAssumption == Tasks \subseteq Nat /\ IsFiniteSet(Tasks)
ASSUME MaxConnsAssumption == MaxConns \in Nat \ {0}

VARIABLES
    slots,      \* keys of PoolState.connections
    idle,       \* the slots whose transport is Some(_)
    stale,      \* the idle slots for which is_idle_expired holds
    nextSeq,    \* next_seq
    waiters,    \* queue_seq of the entries of PoolState.waiters
    wake,       \* WaiterWake of each task: "none", "signaled" or "cancelled"
    phase,      \* where each task's worker is
    seqOf,      \* sequence number of the connection a worker makes or holds
    closed,     \* PoolState.closed
    reaper      \* the reaper thread: "off", "scan" (before the first lock), "sleep"

vars == <<slots, idle, stale, nextSeq, waiters, wake, phase, seqOf, closed, reaper>>

Owning == {"connecting", "holding"}
Refused == {"Closed", "Cancelled", "Connect"}      \* CheckoutError
Phases == {"new", "waiting", "returned"} \cup Owning \cup Refused

Owners == {t \in Tasks : phase[t] \in Owning}
Woken == {t \in Tasks : phase[t] = "waiting" /\ wake[t] = "signaled"}
Busy == slots \ idle

TypeOK ==
    /\ slots \subseteq 0 .. nextSeq - 1
    /\ idle \subseteq slots
    /\ stale \subseteq idle
    /\ nextSeq \in Nat
    /\ waiters \subseteq Tasks
    /\ wake \in [Tasks -> {"none", "signaled", "cancelled"}]
    /\ phase \in [Tasks -> Phases]
    /\ seqOf \in [Tasks -> Nat]
    /\ closed \in BOOLEAN
    /\ reaper \in {"off", "scan", "sleep"}

Init ==
    /\ slots = {} /\ idle = {} /\ stale = {}
    /\ nextSeq = 0
    /\ waiters = {}
    /\ wake = [t \in Tasks |-> "none"]
    /\ phase = [t \in Tasks |-> "new"]
    /\ seqOf = [t \in Tasks |-> 0]
    /\ closed = FALSE
    /\ reaper = "off"

-----------------------------------------------------------------------------
(* Helpers of the critical sections.  An operator marked "variant" is a    *)
(* plausible mistake in the operator that follows it; the specification    *)
(* does not use it.                                                        *)

\* The members of S that are not the base connection, the smallest of conns.
NotBase(conns, S) == {c \in S : \E b \in conns : b < c}

\* What sweep_expired_locked removes: expired idle connections, never the base.
Expired == NotBase(slots, stale)

\* What is left of the pool after the sweep, and what of it is idle.
Live == slots \ Expired
Free == idle \ Expired

\* The smallest member of W, as a set with at most one element.
First(W) == {t \in W : \A u \in W : t <= u}

\* wake_next_waiter and signal_waiter: the head of the queue leaves it and is
\* signalled.
WakeNext ==
    /\ waiters' = waiters \ First(waiters)
    /\ wake' = [t \in Tasks |-> IF t \in First(waiters) THEN "signaled" ELSE wake[t]]

\* ensure_reaper_locked on the system clock, newIdle being the idle set it sees.
EnsureReaper(newIdle) ==
    reaper' = IF reaper = "off" /\ NotBase(slots, newIdle) # {} THEN "scan" ELSE reaper

-----------------------------------------------------------------------------
(* checkout.  Each action is one iteration of its loop; `first` is         *)
(* first_attempt.  The sweep precedes every branch of an open pool.        *)

Barred(first) == first /\ waiters # {}

\* Everyone queued, or no idle connection and no room for another.
Enqueue(t, first) ==
    /\ Barred(first) \/ (Free = {} /\ Cardinality(Live) >= MaxConns)
    /\ waiters' = waiters \cup {t}
    /\ phase' = [phase EXCEPT ![t] = "waiting"]
    /\ idle' = Free
    /\ slots' = Live
    /\ UNCHANGED <<nextSeq, seqOf>>

TakeIdleKeepingTransport(t, first) ==                                \* variant
    /\ ~Barred(first)
    /\ \E c \in First(Free) : seqOf' = [seqOf EXCEPT ![t] = c]
    /\ phase' = [phase EXCEPT ![t] = "holding"]
    /\ idle' = Free
    /\ slots' = Live
    /\ UNCHANGED <<nextSeq, waiters>>

\* The idle connection with the smallest number is taken out of its slot.
TakeIdle(t, first) ==
    /\ ~Barred(first)
    /\ \E c \in First(Free) : /\ idle' = Free \ {c}
                              /\ seqOf' = [seqOf EXCEPT ![t] = c]
    /\ phase' = [phase EXCEPT ![t] = "holding"]
    /\ slots' = Live
    /\ UNCHANGED <<nextSeq, waiters>>

ReserveOffByOne(t, first) ==                                         \* variant
    /\ ~Barred(first)
    /\ Free = {}
    /\ Cardinality(Live) <= MaxConns
    /\ seqOf' = [seqOf EXCEPT ![t] = nextSeq]
    /\ nextSeq' = nextSeq + 1
    /\ slots' = Live \cup {nextSeq}
    /\ idle' = Free
    /\ phase' = [phase EXCEPT ![t] = "connecting"]
    /\ UNCHANGED waiters

\* No idle connection but room: a slot is reserved, and the worker goes on to
\* connect outside the lock.
Reserve(t, first) ==
    /\ ~Barred(first)
    /\ Free = {}
    /\ Cardinality(Live) < MaxConns
    /\ seqOf' = [seqOf EXCEPT ![t] = nextSeq]
    /\ nextSeq' = nextSeq + 1
    /\ slots' = Live \cup {nextSeq}
    /\ idle' = Free
    /\ phase' = [phase EXCEPT ![t] = "connecting"]
    /\ UNCHANGED waiters

\* The pool is closed: checkout returns CheckoutError::Closed, with no sweep.
TurnAway(t) ==
    /\ closed
    /\ phase' = [phase EXCEPT ![t] = "Closed"]
    /\ UNCHANGED <<slots, idle, stale, nextSeq, waiters, seqOf>>

Attempt(t, first) ==
    \/ TurnAway(t)
    \/ /\ ~closed
       /\ Enqueue(t, first) \/ TakeIdle(t, first) \/ Reserve(t, first)
       /\ stale' = stale \cap idle'

\* A worker enters checkout.
Checkout(t) ==
    /\ phase[t] = "new"
    /\ Attempt(t, TRUE)
    /\ UNCHANGED <<wake, closed, reaper>>

\* A woken worker goes round the loop: no queueing behind the others this time.
Retry(t) ==
    /\ t \in Woken
    /\ wake' = [wake EXCEPT ![t] = "none"]
    /\ Attempt(t, FALSE)
    /\ UNCHANGED <<closed, reaper>>

\* A worker taken off the queue by cancel_waiter returns without the lock.
ReturnCancelled(t) ==
    /\ phase[t] = "waiting" /\ wake[t] = "cancelled"
    /\ wake' = [wake EXCEPT ![t] = "none"]
    /\ phase' = [phase EXCEPT ![t] = "Cancelled"]
    /\ UNCHANGED <<slots, idle, stale, nextSeq, waiters, seqOf, closed, reaper>>

-----------------------------------------------------------------------------
(* create_connection, after the connector returned.                        *)

\* The connection is made, and the pool is still open.
ConnectOk(t) ==
    /\ phase[t] = "connecting"
    /\ ~closed
    /\ phase' = [phase EXCEPT ![t] = "holding"]
    /\ UNCHANGED <<slots, idle, stale, nextSeq, waiters, wake, seqOf, closed, reaper>>

\* The connector failed: the reserved slot is given up and the next waiter woken.
ConnectErr(t) ==
    /\ phase[t] = "connecting"
    /\ ~closed
    /\ phase' = [phase EXCEPT ![t] = "Connect"]
    /\ slots' = slots \ {seqOf[t]}
    /\ WakeNext
    /\ UNCHANGED <<idle, stale, nextSeq, seqOf, closed, reaper>>

\* Either result, but the pool was closed meanwhile.
ConnectLate(t) ==
    /\ phase[t] = "connecting"
    /\ closed
    /\ phase' = [phase EXCEPT ![t] = "Closed"]
    /\ slots' = slots \ {seqOf[t]}
    /\ UNCHANGED <<idle, stale, nextSeq, waiters, wake, seqOf, closed, reaper>>

-----------------------------------------------------------------------------
(* checkin, cancel_waiter, close.                                          *)

CheckinDropSilently(t) ==                                            \* variant
    /\ phase[t] = "holding"
    /\ phase' = [phase EXCEPT ![t] = "returned"]
    /\ slots' = slots \ {seqOf[t]}
    /\ UNCHANGED <<idle, stale, nextSeq, waiters, wake, seqOf, closed, reaper>>

\* A broken connection, or any connection of a closed pool, is dropped.
CheckinDrop(t) ==
    /\ phase[t] = "holding"
    /\ phase' = [phase EXCEPT ![t] = "returned"]
    /\ slots' = slots \ {seqOf[t]}
    /\ WakeNext
    /\ UNCHANGED <<idle, stale, nextSeq, seqOf, closed, reaper>>

\* A healthy connection becomes idle, with a fresh last_used.
CheckinHealthy(t) ==
    /\ phase[t] = "holding"
    /\ ~closed
    /\ phase' = [phase EXCEPT ![t] = "returned"]
    /\ slots' = slots \cup {seqOf[t]}
    /\ idle' = idle \cup {seqOf[t]}
    /\ WakeNext
    /\ EnsureReaper(idle')
    /\ UNCHANGED <<stale, nextSeq, seqOf, closed>>

Checkin(t) == CheckinDrop(t) \/ CheckinHealthy(t)

\* A no-op unless the task is in the queue.
CancelWaiter(t) ==
    /\ t \in waiters
    /\ waiters' = waiters \ {t}
    /\ wake' = [wake EXCEPT ![t] = "cancelled"]
    /\ UNCHANGED <<slots, idle, stale, nextSeq, phase, seqOf, closed, reaper>>

CloseWithoutWaking ==                                                \* variant
    /\ closed' = TRUE
    /\ slots' = {} /\ idle' = {} /\ stale' = {}
    /\ waiters' = {}
    /\ UNCHANGED <<wake, nextSeq, phase, seqOf, reaper>>

\* Every slot is dropped and every waiter signalled; busy connections and
\* connects under way are dealt with when they come back.
Close ==
    /\ closed' = TRUE
    /\ slots' = {} /\ idle' = {} /\ stale' = {}
    /\ waiters' = {}
    /\ wake' = [t \in Tasks |-> IF t \in waiters THEN "signaled" ELSE wake[t]]
    /\ UNCHANGED <<nextSeq, phase, seqOf, reaper>>

-----------------------------------------------------------------------------
(* Time and the reaper thread.                                             *)

\* An idle connection reaches the idle timeout.
IdleTimeout(c) ==
    /\ c \in idle \ stale
    /\ stale' = stale \cup {c}
    /\ UNCHANGED <<slots, idle, nextSeq, waiters, wake, phase, seqOf, closed, reaper>>

\* The top of reaper_loop: nothing to wait for ends the thread.
ReaperScan ==
    /\ reaper = "scan"
    /\ reaper' = IF closed \/ NotBase(slots, idle) = {} THEN "off" ELSE "sleep"
    /\ UNCHANGED <<slots, idle, stale, nextSeq, waiters, wake, phase, seqOf, closed>>

ReaperWakeStopping ==                                                \* variant
    /\ reaper = "sleep"
    /\ slots' = Live /\ idle' = Free /\ stale' = stale \ Expired
    /\ reaper' = IF closed \/ Expired = {} THEN "off" ELSE "scan"
    /\ UNCHANGED <<nextSeq, waiters, wake, phase, seqOf, closed>>

\* After its sleep the reaper sweeps, and ends when no extra is left idle.
ReaperWake ==
    /\ reaper = "sleep"
    /\ IF closed
       THEN reaper' = "off" /\ UNCHANGED <<slots, idle, stale>>
       ELSE /\ slots' = Live /\ idle' = Free /\ stale' = stale \ Expired
            /\ reaper' = IF NotBase(Live, Free) = {} THEN "off" ELSE "scan"
    /\ UNCHANGED <<nextSeq, waiters, wake, phase, seqOf, closed>>

-----------------------------------------------------------------------------
Worker(t) ==
    \/ Checkout(t) \/ Retry(t) \/ ReturnCancelled(t)
    \/ ConnectOk(t) \/ ConnectErr(t) \/ ConnectLate(t)
    \/ Checkin(t)

Reaper == ReaperScan \/ ReaperWake

Next ==
    \/ \E t \in Tasks : Worker(t) \/ CancelWaiter(t)
    \/ Close
    \/ \E c \in idle : IdleTimeout(c)
    \/ Reaper

Spec == Init /\ [][Next]_vars

\* A woken thread runs, a connect returns, a transfer ends and gives its
\* connection back; the reaper thread runs and its sleep is at most a second.
\* Nothing obliges anyone to call checkout, to cancel or to close.
Fairness ==
    /\ \A t \in Tasks :
          /\ WF_vars(Retry(t) \/ ReturnCancelled(t))
          /\ WF_vars(ConnectOk(t) \/ ConnectErr(t) \/ ConnectLate(t))
          /\ WF_vars(Checkin(t))
    /\ WF_vars(Reaper)

FairSpec == Spec /\ Fairness

-----------------------------------------------------------------------------
(* Safety.                                                                 *)

\* A session never has more transfer connections, reserved ones included,
\* than MAX_TRANSFER_CONNECTIONS_PER_SESSION, whatever connects, fails and
\* comes back concurrently.
Capacity == Cardinality(slots) <= MaxConns

\* While the pool is open the busy slots and the workers connecting or
\* holding a connection correspond one to one: no connection is lent twice,
\* and no slot is left busy with nobody to give it back.
Ownership ==
    ~closed => /\ \A t \in Owners : seqOf[t] \in Busy
               /\ \A t, u \in Owners : seqOf[t] = seqOf[u] => t = u
               /\ \A c \in Busy : \E t \in Owners : seqOf[t] = c

\* No lost wake-up: while somebody is queued on an open pool, the busy slots
\* and the woken workers still on their way account for the whole capacity.
\* Each of them will wake or serve the next in the queue, so a connection is
\* never free while a task sleeps for it with nobody to wake it.
NoLostWakeup ==
    ~closed /\ waiters # {} => Cardinality(Busy) + Cardinality(Woken) >= MaxConns

\* The queue and the sleeping workers agree: a worker asleep with no signal is
\* in the queue, only such workers are in it, and a signal is only ever on its
\* way to a sleeping worker.
QueueIsSleepers ==
    /\ waiters = {t \in Tasks : phase[t] = "waiting" /\ wake[t] = "none"}
    /\ \A t \in Tasks : wake[t] # "none" => phase[t] = "waiting"

\* After close nothing is ever kept again, whatever comes back late.
ClosedIsEmpty == closed => slots = {} /\ waiters = {}

\* An idle connection other than the base one has a reaper thread that will
\* look at it: the thread's decision to end never misses a later checkin.
ExtrasHaveReaper == ~closed /\ NotBase(slots, idle) # {} => reaper # "off"

\* The base connection of an open pool, when idle, is never reaped: it leaves
\* its slot only in the hands of a worker.
BaseIsKept ==
    [][\A b \in idle : ~closed' /\ NotBase(slots, {b}) = {} => b \in slots']_vars

-----------------------------------------------------------------------------
(* Refinement of SlotPool.                                                 *)

\* A worker in the queue has asked; one that connects or holds a connection is
\* using it.
StageOf(t) ==
    CASE phase[t] = "new" -> "idle"
      [] phase[t] = "waiting" -> "asked"
      [] phase[t] \in Owning -> "using"
      [] OTHER -> "done"

Promise == INSTANCE SlotPool WITH
    Users <- Tasks, Limit <- MaxConns,
    stage <- [t \in Tasks |-> StageOf(t)], open <- ~closed

\* Every step of the pool is a step of SlotPool or leaves its state alone:
\* never more than MaxConns users, nobody served after close, no task served
\* twice.
KeepsPromise == Promise!Spec

\* With the pool's fairness, SlotPool's own: nobody queues for ever, whoever
\* asked gets a connection or an error.
KeepsFairPromise == Promise!FairSpec

=============================================================================
