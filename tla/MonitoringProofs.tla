---------------------------- MODULE MonitoringProofs ----------------------------
(***************************************************************************)
(* Proofs about Monitoring, for any sets of sessions and tasks, and about  *)
(* MonitorSampling, for any interfaces, counts and clock.                  *)
(*                                                                         *)
(* That a closed session collects nothing rests on the order of its close  *)
(* and of a start: a task is registered before its worker connects, and    *)
(* the session is cancelled before its tasks are stopped.  A worker whose  *)
(* key was accepted in time is therefore found by the stop; one that comes *)
(* later is refused (Refused).                                             *)
(***************************************************************************)
EXTENDS Monitoring, MonitorSampling, TLAPS

\* What a close has achieved by the time it gets to the later steps.
Refused ==
    \A t \in Tasks :
        /\ closing[SessionOf[t]] \in {"stop", "forget", "closed"} => SessionOf[t] \in cancelled
        /\ closing[SessionOf[t]] \in {"forget", "closed"} /\ worker[t] \in Collecting => t \in halted

IInv == TypeOK /\ NobodyOutOfReach /\ Refused

-----------------------------------------------------------------------------
LEMMA TypeInit == Init => TypeOK
BY SessionOfAssumption DEF Init, TypeOK, None

\* A transition moves a registered task to another status, or does nothing.
LEMMA TransitionKeeps ==
    ASSUME TypeOK, NEW t \in Tasks, NEW s \in Statuses, Transition(t, s)
    PROVE  /\ tasks' \in [Tasks -> Statuses \cup {None}]
           /\ inbox' \in [Tasks -> Seq(Statuses)]
           /\ told' \in [Tasks -> Statuses \cup {None}]
           /\ \A u \in Tasks : tasks'[u] = None <=> tasks[u] = None
<1>1. CASE <<tasks[t], s>> \in Legal
  <2>1. tasks' = [tasks EXCEPT ![t] = s] /\ Emit(t, s)
    BY <1>1 DEF Transition
  <2>2. tasks[t] # None /\ s # None
    <3>1. tasks[t] \in {"Pending", "Running"}
      BY <1>1 DEF Legal
    <3> QED BY <3>1 DEF None, Statuses
  <2>3. inbox' \in [Tasks -> Seq(Statuses)]
    <3>1. Append(inbox[t], s) \in Seq(Statuses)
      BY DEF TypeOK
    <3> QED BY <2>1, <3>1 DEF Emit, TypeOK
  <2>4. told' \in [Tasks -> Statuses \cup {None}]
    BY <2>1 DEF Emit, TypeOK
  <2> QED BY <2>1, <2>2, <2>3, <2>4 DEF TypeOK
<1>2. CASE <<tasks[t], s>> \notin Legal
  BY <1>2 DEF Transition, events, TypeOK
<1> QED BY <1>1, <1>2

LEMMA TypeStep == ASSUME TypeOK, [Next]_vars PROVE TypeOK'
<1> USE DEF main, events, window
<1>1. ASSUME NEW t \in Tasks, LookUp(t) PROVE TypeOK'
  BY <1>1 DEF TypeOK, LookUp, Call
<1>2. ASSUME NEW t \in Tasks, Register(t) PROVE TypeOK'
  BY <1>2 DEF TypeOK, Register, Call, Statuses
<1>3. ASSUME NEW t \in Tasks, Launch(t) PROVE TypeOK'
  <2>1. inbox' \in [Tasks -> Seq(Statuses)] /\ told' \in [Tasks -> Statuses \cup {None}]
    BY <1>3 DEF TypeOK, Launch, Emit, Statuses
  <2> QED BY <1>3, <2>1 DEF TypeOK, Launch, Call, Go, None
<1>4. ASSUME NEW t \in Tasks, Working(t) \/ Verify(t) PROVE TypeOK'
  <2>1. PICK stage \in {"check", "ending", "verify", "dial", "failing", "loop", "collect", "cache", "push", "over"} :
              worker' = [worker EXCEPT ![t] = stage] /\ worker[t] # None
    BY <1>4 DEF Working, WorkerBegin, CheckFirst, Verify, Dial, Loop, Collect, Cache, Push, Fail, End, Go, None
  <2>2. worker' \in [Tasks -> {None, "start", "check", "verify", "failing", "ending", "over"} \cup Collecting]
    BY <2>1 DEF TypeOK, Collecting
  <2>3. \A u \in Tasks : worker[u] # None => worker'[u] # None
    BY <2>1 DEF TypeOK, None
  <2>4. /\ tasks' \in [Tasks -> Statuses \cup {None}]
        /\ inbox' \in [Tasks -> Seq(Statuses)]
        /\ told' \in [Tasks -> Statuses \cup {None}]
        /\ \A u \in Tasks : tasks'[u] = None <=> tasks[u] = None
    BY <1>4, TransitionKeeps
       DEF TypeOK, Working, WorkerBegin, CheckFirst, Verify, Dial, Loop, Collect, Cache, Push, Fail, End,
           Statuses
  <2>5. snapshots' \subseteq Sessions
    BY <1>4, SessionOfAssumption
       DEF TypeOK, Working, WorkerBegin, CheckFirst, Verify, Dial, Loop, Collect, Cache, Push, Fail, End
  <2>6. UNCHANGED <<main, call, halted, window>>
    BY <1>4 DEF Working, WorkerBegin, CheckFirst, Verify, Dial, Loop, Collect, Cache, Push, Fail, End
  <2> QED BY <2>2, <2>3, <2>4, <2>5, <2>6 DEF TypeOK
<1>5. ASSUME NEW t \in Tasks, StopMonitoring(t) PROVE TypeOK'
  BY <1>5, SessionOfAssumption DEF TypeOK, StopMonitoring
<1>6. ASSUME NEW t \in Tasks, Stopped(t) PROVE TypeOK'
  BY <1>6, SessionOfAssumption DEF TypeOK, Stopped
<1>7. ASSUME NEW t \in Tasks, Deliver(t) PROVE TypeOK'
  <2>1. Head(inbox[t]) \in Statuses /\ Tail(inbox[t]) \in Seq(Statuses)
    BY <1>7 DEF TypeOK, Deliver
  <2> QED BY <1>7, <2>1 DEF TypeOK, Deliver
<1>8. ASSUME NEW t \in Tasks, Answer(t) PROVE TypeOK'
  BY <1>8, SessionOfAssumption DEF TypeOK, Answer, Call, Statuses
<1>9. ASSUME NEW s \in Sessions, CloseBegin(s) \/ CancelSession(s) \/ ForgetSnapshot(s) PROVE TypeOK'
  BY <1>9 DEF TypeOK, CloseBegin, CancelSession, ForgetSnapshot, Step
<1>10. ASSUME NEW s \in Sessions, StopSession(s) PROVE TypeOK'
  BY <1>10 DEF TypeOK, StopSession, Step
<1>11. ASSUME NEW s \in Sessions, ClearSession(s) PROVE TypeOK'
  BY <1>11 DEF TypeOK, ClearSession
<1>12. CASE UNCHANGED vars
  BY <1>12 DEF TypeOK, vars
<1> QED BY <1>1, <1>2, <1>3, <1>4, <1>5, <1>6, <1>7, <1>8, <1>9, <1>10, <1>11, <1>12
      DEF Next, Starting, Closing

\* The registries, the workers and the window keep their types, and a record
\* has a thread.
THEOREM TypeCorrect == Spec => []TypeOK
BY TypeInit, TypeStep, PTL DEF Spec

-----------------------------------------------------------------------------
\* A worker's step takes no record away and tells nobody to go on.
LEMMA WorkingKeeps ==
    ASSUME TypeOK, NEW t \in Tasks, Working(t) \/ Verify(t)
    PROVE  /\ UNCHANGED <<closing, cancelled, halted, call>>
           /\ worker[t] \notin {None, "over"}
           /\ \A u \in Tasks : tasks'[u] = None <=> tasks[u] = None
           /\ \A u \in Tasks : u # t => worker'[u] = worker[u]
           /\ worker'[t] \in Collecting => \/ worker[t] \in Collecting
                                           \/ SessionOf[t] \notin cancelled
<1> USE DEF Working, WorkerBegin, CheckFirst, Verify, Dial, Loop, Collect, Cache, Push, Fail, End, Go
<1>1. UNCHANGED <<closing, cancelled, halted, call>> /\ worker[t] \notin {None, "over"}
  BY DEF main, None
<1>2. \A u \in Tasks : tasks'[u] = None <=> tasks[u] = None
  BY TransitionKeeps DEF Statuses
<1>3. \A u \in Tasks : u # t => worker'[u] = worker[u]
  BY DEF TypeOK
<1>4. worker'[t] \in Collecting => worker[t] \in Collecting \/ SessionOf[t] \notin cancelled
  BY DEF TypeOK, Collecting
<1> QED BY <1>1, <1>2, <1>3, <1>4

LEMMA ReachStep == ASSUME IInv, [Next]_vars PROVE NobodyOutOfReach'
<1> USE DEF IInv, NobodyOutOfReach, main, events, window
<1>1. ASSUME NEW t \in Tasks, LookUp(t) PROVE NobodyOutOfReach'
  BY <1>1 DEF TypeOK, LookUp, Call
<1>2. ASSUME NEW t \in Tasks, Register(t) PROVE NobodyOutOfReach'
  BY <1>2 DEF TypeOK, Register, Call, None
<1>3. ASSUME NEW t \in Tasks, Launch(t) PROVE NobodyOutOfReach'
  BY <1>3 DEF TypeOK, Launch, Call, Go
<1>4. ASSUME NEW t \in Tasks, Working(t) \/ Verify(t) PROVE NobodyOutOfReach'
  BY <1>4, WorkingKeeps
<1>5. ASSUME NEW t \in Tasks, StopMonitoring(t) PROVE NobodyOutOfReach'
  BY <1>5 DEF TypeOK, StopMonitoring
<1>6. ASSUME NEW t \in Tasks, Deliver(t) \/ Stopped(t) PROVE NobodyOutOfReach'
  BY <1>6 DEF Deliver, Stopped
<1>7. ASSUME NEW t \in Tasks, Answer(t) PROVE NobodyOutOfReach'
  BY <1>7 DEF TypeOK, Answer, Call
<1>8. ASSUME NEW s \in Sessions, CloseBegin(s) \/ CancelSession(s) \/ ForgetSnapshot(s) \/ ClearSession(s)
      PROVE  NobodyOutOfReach'
  BY <1>8 DEF CloseBegin, CancelSession, ForgetSnapshot, ClearSession
<1>9. ASSUME NEW s \in Sessions, StopSession(s) PROVE NobodyOutOfReach'
  BY <1>9 DEF TypeOK, StopSession
<1>10. CASE UNCHANGED vars
  BY <1>10 DEF vars
<1> QED BY <1>1, <1>2, <1>3, <1>4, <1>5, <1>6, <1>7, <1>8, <1>9, <1>10
      DEF Next, Starting, Closing

LEMMA RefusedStep == ASSUME IInv, [Next]_vars PROVE Refused'
<1> USE SessionOfAssumption DEF IInv, Refused, main, events, window
<1>1. ASSUME NEW t \in Tasks, LookUp(t) \/ Register(t) \/ Stopped(t) \/ Deliver(t) \/ Answer(t)
      PROVE  Refused'
  BY <1>1 DEF LookUp, Register, Stopped, Deliver, Answer
<1>2. ASSUME NEW t \in Tasks, Launch(t) PROVE Refused'
  BY <1>2 DEF TypeOK, Launch, Go, Collecting
<1>3. ASSUME NEW t \in Tasks, Working(t) \/ Verify(t) PROVE Refused'
  BY <1>3, WorkingKeeps
<1>4. ASSUME NEW t \in Tasks, StopMonitoring(t) PROVE Refused'
  BY <1>4 DEF StopMonitoring
<1>5. ASSUME NEW s \in Sessions, CloseBegin(s) PROVE Refused'
  BY <1>5 DEF TypeOK, CloseBegin, Step
<1>6. ASSUME NEW s \in Sessions, CancelSession(s) PROVE Refused'
  BY <1>6 DEF TypeOK, CancelSession, Step
<1>7. ASSUME NEW s \in Sessions, StopSession(s) PROVE Refused'
  <2>1. closing' = [closing EXCEPT ![s] = "forget"] /\ closing[s] = "stop"
    BY <1>7 DEF StopSession, Step
  <2>2. halted \subseteq halted' /\ UNCHANGED <<cancelled, worker>>
    BY <1>7 DEF StopSession
  <2>3. ASSUME NEW t \in Tasks, SessionOf[t] = s, worker[t] \in Collecting PROVE t \in halted'
    BY <1>7, <2>3 DEF StopSession, NobodyOutOfReach, Collecting, None
  <2> QED BY <2>1, <2>2, <2>3 DEF TypeOK
<1>8. ASSUME NEW s \in Sessions, ForgetSnapshot(s) PROVE Refused'
  BY <1>8 DEF TypeOK, ForgetSnapshot, Step
<1>9. ASSUME NEW s \in Sessions, ClearSession(s) PROVE Refused'
  BY <1>9 DEF ClearSession
<1>10. CASE UNCHANGED vars
  BY <1>10 DEF vars
<1> QED BY <1>1, <1>2, <1>3, <1>4, <1>5, <1>6, <1>7, <1>8, <1>9, <1>10
      DEF Next, Starting, Closing

LEMMA Invariance == Spec => []IInv
<1>1. Init => IInv
  BY TypeInit, SessionOfAssumption DEF Init, IInv, NobodyOutOfReach, Refused, Collecting, None
<1>2. IInv /\ [Next]_vars => IInv'
  BY TypeStep, ReachStep, RefusedStep DEF IInv
<1> QED BY <1>1, <1>2, PTL DEF Spec

-----------------------------------------------------------------------------
\* Every worker can be stopped, or has been told to.
THEOREM NobodyOutOfReachHolds == Spec => []NobodyOutOfReach
<1>1. IInv => NobodyOutOfReach
  BY DEF IInv
<1> QED BY <1>1, Invariance, PTL

\* No collection begins for a session whose tasks have been stopped.
THEOREM ClosedCollectsNothingHolds == Spec => ClosedCollectsNothing
<1> DEFINE Quiet == \A t \in Tasks : worker[t] # "collect" /\ worker'[t] = "collect"
                        => closing[SessionOf[t]] \notin {"forget", "closed"}
<1>1. ASSUME IInv, Next PROVE Quiet
  <2> USE <1>1 DEF IInv
  <2> SUFFICES ASSUME NEW t \in Tasks, worker[t] # "collect", worker'[t] = "collect"
               PROVE  closing[SessionOf[t]] \notin {"forget", "closed"}
    OBVIOUS
  <2>1. PICK u \in Tasks : Launch(u) \/ Working(u) \/ Verify(u)
    <3>1. \A u \in Tasks : LookUp(u) \/ Register(u) \/ StopMonitoring(u) \/ Stopped(u) \/ Deliver(u)
                               \/ Answer(u) => worker' = worker
      BY DEF LookUp, Register, StopMonitoring, Stopped, Deliver, Answer
    <3>2. \A s \in Sessions : CloseBegin(s) \/ Closing(s) \/ ClearSession(s) => worker' = worker
      BY DEF Closing, CloseBegin, CancelSession, StopSession, ForgetSnapshot, ClearSession
    <3> QED BY <1>1, <3>1, <3>2 DEF Next, Starting
  <2>2. \A stage : worker' = [worker EXCEPT ![u] = stage] => u = t /\ stage = "collect"
    BY DEF TypeOK
  <2>3. u = t /\ Loop(t) /\ t \notin halted
    <3>1. ~Launch(u)
      BY <2>2 DEF Launch, Go
    <3>2. ~(WorkerBegin(u) \/ CheckFirst(u) \/ Verify(u) \/ Dial(u))
      BY <2>2 DEF WorkerBegin, CheckFirst, Verify, Dial, Go
    <3>3. ~(Collect(u) \/ Cache(u) \/ Push(u) \/ Fail(u) \/ End(u))
      BY <2>2 DEF Collect, Cache, Push, Fail, End, Go
    <3>4. Loop(u)
      BY <2>1, <3>1, <3>2, <3>3 DEF Working
    <3> QED BY <2>2, <3>4 DEF Loop, Go
  <2>4. worker[t] \in Collecting
    BY <2>3 DEF Loop, Collecting
  <2> QED BY <2>3, <2>4 DEF Refused
<1>2. ASSUME UNCHANGED vars PROVE worker' = worker
  BY <1>2 DEF vars
<1>3. IInv /\ [Next]_vars => [Quiet]_vars
  BY <1>1
<1> QED BY <1>3, Invariance, PTL DEF Spec, ClosedCollectsNothing

-----------------------------------------------------------------------------
(* What the window shows.  Events of a task are only delivered, never      *)
(* dropped, so the last one under way, or kept until its task is known, is *)
(* what was last announced.  The answer to a start finds the last event    *)
(* that has come, and none is kept of a task that is known (Kept).         *)

LastOf(q) == q[Len(q)]

Kept(t) ==
    /\ inbox[t] # <<>> => LastOf(inbox[t]) = told[t]
    /\ inbox[t] = <<>> /\ view[t] # None => view[t] = told[t]
    /\ inbox[t] = <<>> /\ early[t] # None => early[t] = told[t]
    /\ inbox[t] = <<>> /\ call[t] = "answered" => early[t] # None
    /\ view[t] # None => call[t] = "over" /\ early[t] = None

WInv == TypeOK /\ \A t \in Tasks : Kept(t)

\* What is appended is the last; what is left of a sequence ends as it did.
LEMMA LastFacts ==
    ASSUME NEW q \in Seq(Statuses), NEW s \in Statuses
    PROVE  /\ Append(q, s) # <<>> /\ LastOf(Append(q, s)) = s
           /\ q # <<>> => /\ Head(q) \in Statuses
                          /\ Tail(q) # <<>> => LastOf(Tail(q)) = LastOf(q)
                          /\ Tail(q) = <<>> => Head(q) = LastOf(q)
BY DEF LastOf

\* A worker announces what it does, or nothing, and the window is not involved.
LEMMA AnnouncingKeeps ==
    ASSUME WInv, NEW t \in Tasks, UNCHANGED <<view, early>>,
           \/ UNCHANGED <<events, call>>
           \/ /\ \E s \in Statuses : Emit(t, s)
              /\ UNCHANGED call \/ (call[t] = "launch" /\ Call(t, "answered"))
    PROVE  \A u \in Tasks : Kept(u)'
<1>1. CASE UNCHANGED <<events, call>>
  BY <1>1 DEF WInv, Kept, events
<1>2. ASSUME NEW s \in Statuses, Emit(t, s),
             UNCHANGED call \/ (call[t] = "launch" /\ Call(t, "answered"))
      PROVE  \A u \in Tasks : Kept(u)'
  <2>1. inbox'[t] # <<>> /\ LastOf(inbox'[t]) = told'[t]
    BY <1>2, LastFacts DEF WInv, TypeOK, Emit
  <2>2. \A u \in Tasks : u # t => inbox'[u] = inbox[u] /\ told'[u] = told[u] /\ call'[u] = call[u]
    BY <1>2 DEF WInv, TypeOK, Emit, Call
  <2>3. call[t] = "over" => call'[t] = "over"
    BY <1>2
  <2>4. view[t] # None => call[t] = "over" /\ early[t] = None
    BY DEF WInv, Kept
  <2>5. Kept(t)'
    BY <2>1, <2>3, <2>4 DEF Kept, LastOf
  <2> QED BY <2>2, <2>5 DEF WInv, Kept, LastOf
<1> QED BY <1>1, <1>2

LEMMA KeptStep == ASSUME WInv, [Next]_vars PROVE \A t \in Tasks : Kept(t)'
<1> USE DEF main, events, window
<1>1. ASSUME NEW t \in Tasks, LookUp(t) \/ Register(t) PROVE \A u \in Tasks : Kept(u)'
  BY <1>1 DEF WInv, TypeOK, Kept, LookUp, Register, Call
<1>2. ASSUME NEW t \in Tasks, Launch(t) PROVE \A u \in Tasks : Kept(u)'
  BY <1>2, AnnouncingKeeps DEF Launch, Statuses
<1>3. ASSUME NEW t \in Tasks, Working(t) \/ Verify(t) PROVE \A u \in Tasks : Kept(u)'
  <2>1. UNCHANGED <<inbox, told>> \/ \E s \in Statuses : Emit(t, s)
    BY <1>3 DEF Working, WorkerBegin, CheckFirst, Verify, Dial, Loop, Collect, Cache, Push, Fail, End,
                Transition, Statuses
  <2>2. UNCHANGED <<call, view, early>>
    BY <1>3 DEF Working, WorkerBegin, CheckFirst, Verify, Dial, Loop, Collect, Cache, Push, Fail, End
  <2> QED BY <2>1, <2>2, AnnouncingKeeps
<1>4. ASSUME NEW t \in Tasks, StopMonitoring(t) \/ Stopped(t) PROVE \A u \in Tasks : Kept(u)'
  BY <1>4 DEF WInv, Kept, StopMonitoring, Stopped
<1>5. ASSUME NEW t \in Tasks, Deliver(t) PROVE \A u \in Tasks : Kept(u)'
  <2>1. \A u \in Tasks \ {t} : /\ inbox'[u] = inbox[u] /\ view'[u] = view[u] /\ early'[u] = early[u]
                               /\ told'[u] = told[u] /\ call'[u] = call[u]
    BY <1>5 DEF WInv, TypeOK, Deliver
  <2>2. /\ inbox'[t] = Tail(inbox[t]) /\ told'[t] = told[t] /\ call'[t] = call[t]
        /\ IF view[t] # None THEN view'[t] = Head(inbox[t]) /\ early'[t] = early[t]
                             ELSE early'[t] = Head(inbox[t]) /\ view'[t] = view[t]
    BY <1>5 DEF WInv, TypeOK, Deliver
  <2>3. /\ Head(inbox[t]) \in Statuses
        /\ Tail(inbox[t]) # <<>> => LastOf(Tail(inbox[t])) = told[t]
        /\ Tail(inbox[t]) = <<>> => Head(inbox[t]) = told[t]
    <3>1. inbox[t] \in Seq(Statuses) /\ inbox[t] # <<>>
      BY <1>5 DEF WInv, TypeOK, Deliver
    <3>2. "Done" \in Statuses
      BY DEF Statuses
    <3>3. LastOf(inbox[t]) = told[t]
      BY <3>1 DEF WInv, Kept
    <3> QED BY <3>1, <3>2, <3>3, LastFacts
  <2>4. Head(inbox[t]) # None
    BY <2>3 DEF Statuses, None
  <2>5. Kept(t)'
    <3>1. view[t] # None => call[t] = "over" /\ early[t] = None
      BY DEF WInv, Kept
    <3>2. CASE view[t] # None
      BY <2>2, <2>3, <3>1, <3>2 DEF WInv, Kept, LastOf
    <3>3. CASE view[t] = None
      BY <2>2, <2>3, <2>4, <3>3 DEF Kept, LastOf
    <3> QED BY <3>2, <3>3
  <2> QED BY <2>1, <2>5 DEF WInv, Kept, LastOf
<1>6. ASSUME NEW t \in Tasks, Answer(t) PROVE \A u \in Tasks : Kept(u)'
  <2>1. \A u \in Tasks \ {t} : view'[u] = view[u] /\ early'[u] = early[u] /\ call'[u] = call[u]
    BY <1>6 DEF WInv, TypeOK, Answer, Call
  <2>2. /\ view'[t] = (IF early[t] # None THEN early[t] ELSE "Pending")
        /\ early'[t] = None /\ call'[t] = "over" /\ call[t] = "answered"
    BY <1>6 DEF WInv, TypeOK, Answer, Call
  <2>3. UNCHANGED <<inbox, told>>
    BY <1>6 DEF Answer
  <2> QED BY <2>1, <2>2, <2>3 DEF WInv, Kept
<1>7. ASSUME NEW s \in Sessions, CloseBegin(s) \/ Closing(s) PROVE \A u \in Tasks : Kept(u)'
  BY <1>7 DEF WInv, Kept, Closing, CloseBegin, CancelSession, StopSession, ForgetSnapshot
<1>8. ASSUME NEW s \in Sessions, ClearSession(s) PROVE \A u \in Tasks : Kept(u)'
  BY <1>8 DEF WInv, TypeOK, Kept, ClearSession
<1>9. CASE UNCHANGED vars
  BY <1>9 DEF WInv, Kept, vars
<1> QED BY <1>1, <1>2, <1>3, <1>4, <1>5, <1>6, <1>7, <1>8, <1>9 DEF Next, Starting

\* Once the events of a task have arrived, and its start has been answered, the
\* window shows what was last announced, for any number of tasks.
THEOREM WindowAgreesHolds == Spec => []WindowAgrees
<1>1. Init => WInv
  BY TypeInit DEF Init, WInv, Kept
<1>2. WInv /\ [Next]_vars => WInv'
  BY TypeStep, KeptStep DEF WInv
<1>3. WInv => WindowAgrees
  BY DEF WInv, Kept, WindowAgrees
<1> QED BY <1>1, <1>2, <1>3, PTL DEF Spec

-----------------------------------------------------------------------------
(* MonitorSampling.  A rate compares what is read with the reading before,  *)
(* and the history begins anew at each reading.  So, for every reading the  *)
(* program still holds, what has been counted since is what the history     *)
(* says, or less (Baselines); and what it holds is of the last snapshot.    *)

Counts(c) == DOMAIN c \subseteq Nics /\ \A n \in DOMAIN c : c[n] \in Nat
Ticks(p) == p.total \in Nat /\ p.idle \in Nat
AtMostOne(S) == \A a, b \in S : a = b

\* At most one reading of each kind is kept, and at most one is under way.
Readings ==
    /\ AtMostOne(network) /\ \A s \in network : s.at \in Nat /\ Counts(s.counts)
    /\ cpu.idle <= cpu.total
    /\ AtMostOne(processor) /\ \A p \in processor : Ticks(p)
    /\ output # Nothing =>
          /\ AtMostOne(output.counts) /\ \A c \in output.counts : Counts(c)
          /\ AtMostOne(output.read) /\ \A p \in output.read : Ticks(p)
          /\ output.traffic \in [Nics -> Nat] /\ output.busy \in [all : Int, work : Nat]

\* From one reading to the other the processor has done just this, and each
\* interface that is in both has received no more than this.
GrownBy(old, new, b) == new.total - old.total = b.all /\ new.idle - old.idle = b.all - b.work
Within(old, new, b) == \A n \in DOMAIN old \cap DOMAIN new : new[n] # Gone => new[n] - old[n] <= b[n]

Baselines ==
    /\ \A s \in network : snapshot.at = s.at /\ snapshot # Nothing /\ snapshot.network # {}
    /\ output = Nothing =>
          /\ \A s \in network : Within(s.counts, counter, traffic)
          /\ \A p \in processor : GrownBy(p, cpu, busy)
    /\ output # Nothing =>
          /\ \A c \in output.counts :
                /\ Within(c, counter, traffic)
                /\ \A s \in network : Within(s.counts, c, output.traffic)
          /\ \A r \in output.read :
                /\ GrownBy(r, cpu, busy)
                /\ \A p \in processor : GrownBy(p, r, output.busy)

SamplingInv == SamplingTypeOK /\ Readings /\ Baselines

-----------------------------------------------------------------------------
(* What the computations return.                                           *)

LEMMA Quotient ==
    ASSUME NEW a \in Nat, NEW b \in Nat \ {0}
    PROVE  a \div b \in Nat /\ (a \div b) * b <= a /\ a < (a \div b) * b + b
OBVIOUS

LEMMA Product ==
    ASSUME NEW a \in Nat, NEW b \in Nat, NEW c \in Nat, a <= b
    PROVE  a * c \in Nat /\ b * c \in Nat /\ a * c <= b * c
OBVIOUS

\* A rate that is known times the time it is of is no more than was received.
LEMMA RateBound ==
    ASSUME NEW previous \in Nat, NEW current \in Nat, NEW elapsed \in Int,
           RateBetween(previous, current, elapsed) # Unknown,
           NEW b \in Nat, current - previous <= b
    PROVE  RateBetween(previous, current, elapsed) * elapsed <= b * Second
<1> DEFINE d == current - previous
<1>1. elapsed \in Nat \ {0} /\ d \in Nat
      /\ RateBetween(previous, current, elapsed) = (d * Second) \div elapsed
  BY DEF RateBetween
<1>2. Second \in Nat
  BY SamplingAssumption
<1>3. d * Second \in Nat /\ d * Second <= b * Second /\ b * Second \in Nat
  BY <1>1, <1>2, Product
<1> HIDE DEF d
<1>4. ((d * Second) \div elapsed) * elapsed <= d * Second /\ (d * Second) \div elapsed \in Nat
  BY <1>1, <1>3, Quotient
<1> QED BY <1>1, <1>3, <1>4

\* A share of a in b is one of a thousand, and off by half a one at most.
LEMMA Rounded ==
    ASSUME NEW a \in Nat, NEW b \in Nat \ {0}, a <= b, NEW q \in Nat, NEW d \in Nat,
           d = 2 * b, q * d <= 2000 * a + b, 2000 * a + b < q * d + d
    PROVE  q \in 0 .. 1000 /\ 2 * q * b \in 2000 * a - b .. 2000 * a + b
<1>1. q <= 1000
  <2>1. SUFFICES ASSUME 1001 <= q PROVE FALSE
    OBVIOUS
  <2>2. 1001 * d <= q * d
    BY <2>1, Product
  <2> QED BY <2>2
<1>2. 2 * q * b = q * d
  OBVIOUS
<1> QED BY <1>1, <1>2

\* A usage is the share of what was worked, and of all when fewer ticks count
\* than were worked.
LEMMA UsageBound ==
    ASSUME NEW old, NEW new, Ticks(old), Ticks(new), NEW b \in [all : Int, work : Nat],
           GrownBy(old, new, b)
    PROVE  LET work == IF b.work <= b.all THEN b.work ELSE b.all
           IN  IF b.all <= 0 THEN Usage(old, new) = 0
               ELSE /\ Usage(old, new) \in 0 .. 1000
                    /\ 2 * Usage(old, new) * b.all \in 2000 * work - b.all .. 2000 * work + b.all
<1> DEFINE work == IF b.work <= b.all THEN b.work ELSE b.all
<1>1. CASE b.all <= 0
  BY <1>1 DEF Usage, Fallen, Ticks, GrownBy
<1>2. CASE b.all > 0
  <2>1. Fallen(new.total, old.total) = b.all /\ Fallen(b.all, Fallen(new.idle, old.idle)) = work
    BY <1>2 DEF Fallen, Ticks, GrownBy
  <2>2. Usage(old, new) = Tenths(work, b.all)
    BY <1>2, <2>1 DEF Usage
  <2>3. work \in Nat /\ b.all \in Nat \ {0} /\ work <= b.all
    BY <1>2
  <2> DEFINE n == 2000 * work + b.all
             d == 2 * b.all
             q == n \div d
  <2>4. n \in Nat /\ d \in Nat \ {0}
    BY <2>3
  <2>5. Usage(old, new) = q
    BY <2>2 DEF Tenths
  <2>6. q \in Nat /\ q * d <= n /\ n < q * d + d
    <3> HIDE DEF n, d
    <3> QED BY <2>4, Quotient
  <2> HIDE DEF q
  <2>7. q \in 0 .. 1000 /\ 2 * q * b.all \in 2000 * work - b.all .. 2000 * work + b.all
    BY <2>3, <2>4, <2>6, Rounded
  <2> QED BY <1>2, <2>5, <2>7 DEF work
<1> QED BY <1>1, <1>2

-----------------------------------------------------------------------------
(* The steps.                                                              *)

LEMMA SamplingInitially == SamplingInit => SamplingInv
<1> USE SamplingAssumption DEF SamplingInit
<1>1. SamplingInit => SamplingTypeOK
  BY DEF SamplingTypeOK
<1>2. SamplingInit => Readings /\ Baselines
  BY DEF Readings, Baselines, AtMostOne
<1> QED BY <1>1, <1>2 DEF SamplingInv

LEMMA SamplingTypeStep == ASSUME SamplingInv, [SamplingNext]_samplingVars PROVE SamplingTypeOK'
<1> USE SamplingAssumption DEF SamplingInv, SamplingTypeOK
<1>1. ASSUME NEW n \in Nics, Receive(n) PROVE SamplingTypeOK'
  BY <1>1 DEF Receive
<1>2. ASSUME NEW n \in Nics, Replug(n) PROVE SamplingTypeOK'
  BY <1>2 DEF Replug
<1>3. CASE Work
  <2>1. /\ cpu.total \in 0 .. MaxTicks /\ cpu.idle \in 0 .. MaxTicks /\ cpu.idle <= cpu.total
        /\ busy.all \in Int /\ busy.work \in Nat /\ busy = [all |-> busy.all, work |-> busy.work]
    BY DEF Readings
  <2>2. CASE \E idle \in {0, 1} :
                /\ cpu.total < MaxTicks
                /\ cpu' = [total |-> cpu.total + 1, idle |-> cpu.idle + idle]
                /\ busy' = [all |-> busy.all + 1, work |-> busy.work + 1 - idle]
    BY <1>3, <2>1, <2>2 DEF Work
  <2>3. CASE /\ cpu.idle > 0 /\ cpu' = [total |-> cpu.total - 1, idle |-> cpu.idle - 1]
             /\ busy' = [busy EXCEPT !.all = @ - 1]
    BY <1>3, <2>1, <2>3 DEF Work
  <2> QED BY <1>3, <2>2, <2>3 DEF Work
<1>4. CASE Tick
  BY <1>4 DEF Tick, remote
<1>5. CASE Execute
  BY <1>5 DEF Execute
<1>6. CASE Publish
  <2>1. UNCHANGED <<remote, clock>>
    BY <1>6 DEF Publish
  <2>2. \A s \in network' : s.at = clock
    BY <1>6 DEF Publish, NextNetwork
  <2>3. output # Nothing /\ output' = Nothing /\ processor' = output.read
    BY <1>6 DEF Publish, NextProcessor
  <2> QED BY <2>1, <2>2, <2>3 DEF remote
<1>7. CASE Restart
  BY <1>7 DEF Restart, remote
<1>8. CASE UNCHANGED samplingVars
  BY <1>8 DEF samplingVars, remote
<1> QED BY <1>1, <1>2, <1>3, <1>4, <1>5, <1>6, <1>7, <1>8 DEF SamplingNext

\* What the host counts, the history counts.
LEMMA HostStep ==
    ASSUME SamplingInv, (\E n \in Nics : Receive(n) \/ Replug(n)) \/ Work \/ Tick
    PROVE  Readings' /\ Baselines'
<1> USE DEF SamplingInv
<1>0. UNCHANGED <<output, network, processor, snapshot>>
  BY DEF Receive, Replug, Work, Tick
<1>1. Readings'
  <2>1. cpu'.idle <= cpu'.total
    BY DEF Readings, Receive, Replug, Work, Tick, remote, SamplingTypeOK
  <2> QED BY <1>0, <2>1 DEF Readings
<1>2. ASSUME NEW c, Counts(c), Within(c, counter, traffic) PROVE Within(c, counter, traffic)'
  <2>1. ASSUME NEW n \in Nics, Receive(n) PROVE Within(c, counter, traffic)'
    BY <1>2, <2>1 DEF Receive, SamplingTypeOK, Within, Counts, Gone
  <2>2. ASSUME NEW n \in Nics, Replug(n) PROVE Within(c, counter, traffic)'
    BY <1>2, <2>2 DEF Replug, SamplingTypeOK, Within, Counts, Gone
  <2>3. CASE Work \/ Tick
    BY <1>2, <2>3 DEF Work, Tick, remote, Within
  <2> QED BY <2>1, <2>2, <2>3
<1>3. ASSUME NEW p, Ticks(p), GrownBy(p, cpu, busy) PROVE GrownBy(p, cpu, busy)'
  <2>1. CASE Work
    BY <1>3, <2>1 DEF Work, SamplingTypeOK, GrownBy, Ticks
  <2>2. CASE UNCHANGED <<cpu, busy>>
    BY <1>3, <2>2 DEF GrownBy
  <2> QED BY <2>1, <2>2 DEF Receive, Replug, Tick, remote
<1>4. Baselines'
  <2>1. output = Nothing => /\ \A s \in network : Within(s.counts, counter, traffic)'
                            /\ \A p \in processor : GrownBy(p, cpu, busy)'
    BY <1>2, <1>3 DEF Readings, Baselines
  <2>2. output # Nothing => /\ \A c \in output.counts : Within(c, counter, traffic)'
                            /\ \A r \in output.read : GrownBy(r, cpu, busy)'
    BY <1>2, <1>3 DEF Readings, Baselines
  <2> QED BY <1>0, <2>1, <2>2 DEF Baselines, Within, GrownBy
<1> QED BY <1>1, <1>4

\* The counters are read: what the history has goes with the answer, and from
\* here it counts anew.
LEMMA ExecuteStep == ASSUME SamplingInv, Execute PROVE Readings' /\ Baselines'
<1> USE DEF SamplingInv
<1> DEFINE now == [n \in Present |-> counter[n]]
<1>1. PICK counts \in {{now}, {}}, read \in {{cpu}, {}} :
         output' = [at |-> 0, counts |-> counts, read |-> read, traffic |-> traffic, busy |-> busy]
  BY DEF Execute
<1>2. /\ output = Nothing /\ UNCHANGED <<counter, cpu, network, processor, snapshot>>
      /\ traffic' = [n \in Nics |-> 0] /\ busy' = [all |-> 0, work |-> 0]
  BY DEF Execute
<1>3. output' # Nothing
  BY <1>1 DEF Nothing
<1>4. /\ Counts(now)
      /\ \A n \in DOMAIN now : n \in Nics /\ now[n] = counter[n] /\ counter[n] \in Nat
  <2>1. DOMAIN now = Present /\ \A n \in Present : now[n] = counter[n]
    OBVIOUS
  <2>2. \A n \in Present : n \in Nics /\ counter[n] \in Nat
    <3>1. \A n \in Nics : counter[n] \in 0 .. MaxCount \cup {Gone}
      BY DEF SamplingTypeOK
    <3>2. \A i \in 0 .. MaxCount : i \in Nat
      BY SamplingAssumption
    <3> QED BY <3>1, <3>2 DEF Present
  <2> HIDE DEF now
  <2> QED BY <2>1, <2>2 DEF Counts
<1>5. Ticks(cpu)
  BY SamplingAssumption DEF Ticks, SamplingTypeOK
<1>6. /\ output'.counts = counts /\ output'.read = read
      /\ output'.traffic = traffic /\ output'.busy = busy
      /\ \A c \in counts : c = now
      /\ \A p \in read : p = cpu
  BY <1>1
<1>7. Readings'
  <2> HIDE DEF now
  <2>1. AtMostOne(counts) /\ AtMostOne(read) /\ \A c \in counts : Counts(c)
    BY <1>4, <1>6 DEF AtMostOne
  <2>2. \A p \in read : Ticks(p)
    BY <1>5, <1>6
  <2> QED BY <1>2, <1>6, <2>1, <2>2 DEF Readings, SamplingTypeOK
<1>8. Within(now, counter', traffic')
  <2> HIDE DEF now
  <2>1. \A n \in DOMAIN now : counter'[n] - now[n] = 0 /\ traffic'[n] = 0
    BY <1>2, <1>4
  <2> QED BY <2>1 DEF Within
<1>9. ASSUME NEW s \in network PROVE Within(s.counts, now, traffic)
  <2>1. Within(s.counts, counter, traffic) /\ DOMAIN counter = Nics
    BY <1>2, <1>9 DEF Baselines, SamplingTypeOK
  <2>2. \A n \in DOMAIN now : n \in Nics /\ now[n] = counter[n] /\ now[n] # Gone
    BY <1>4 DEF Gone
  <2> HIDE DEF now
  <2> QED BY <2>1, <2>2 DEF Within
<1>10. GrownBy(cpu, cpu, busy)'
  BY <1>2, <1>5 DEF GrownBy, Ticks
<1>11. \A p \in processor : GrownBy(p, cpu, busy)
  BY <1>2 DEF Baselines
<1> HIDE DEF now
<1>12. Baselines'
  <2>1. \A c \in output'.counts : /\ Within(c, counter', traffic')
                                  /\ \A s \in network : Within(s.counts, c, output'.traffic)
    BY <1>6, <1>8, <1>9
  <2>2. \A r \in output'.read : /\ GrownBy(r, cpu', busy')
                                /\ \A p \in processor : GrownBy(p, r, output'.busy)
    BY <1>2, <1>6, <1>10, <1>11 DEF GrownBy
  <2> QED BY <1>2, <1>3, <2>1, <2>2 DEF Baselines, Within, GrownBy
<1> QED BY <1>7, <1>12

\* What was read becomes the baseline, of the snapshot that is published.
LEMMA PublishStep == ASSUME SamplingInv, Publish PROVE Readings' /\ Baselines'
<1> USE DEF SamplingInv
<1>1. /\ output # Nothing /\ output' = Nothing /\ UNCHANGED <<counter, cpu, traffic, busy, clock>>
      /\ network' = {[at |-> clock, counts |-> c] : c \in output.counts}
      /\ processor' = output.read
      /\ snapshot'.at = clock
      /\ snapshot'.network = {Rates(network, c, clock) : c \in output.counts}
  BY DEF Publish, NextNetwork, NextProcessor, remote
<1>2. clock \in Nat
  BY SamplingAssumption DEF SamplingTypeOK
<1>3. \A s \in network' : s.at = clock /\ s.counts \in output.counts
  BY <1>1
<1>4. AtMostOne(network')
  BY <1>1 DEF AtMostOne, Readings
<1>5. Readings'
  BY <1>1, <1>2, <1>3, <1>4 DEF Readings, AtMostOne
<1>6. snapshot' # Nothing
  BY <1>1, <1>2 DEF Nothing
<1>7. \A s \in network' : snapshot'.at = s.at /\ snapshot'.network # {}
  BY <1>1, <1>3
<1>8. /\ \A s \in network' : Within(s.counts, counter, traffic)
      /\ \A p \in processor' : GrownBy(p, cpu, busy)
  BY <1>1, <1>3 DEF Baselines
<1>9. Baselines'
  BY <1>1, <1>6, <1>7, <1>8 DEF Baselines, Within, GrownBy
<1> QED BY <1>5, <1>9

LEMMA SamplingStep == ASSUME SamplingInv, [SamplingNext]_samplingVars PROVE SamplingInv'
<1>1. Restart => Readings' /\ Baselines'
  BY DEF SamplingInv, Restart, Readings, Baselines, AtMostOne, remote
<1>2. UNCHANGED samplingVars => Readings' /\ Baselines'
  BY DEF SamplingInv, samplingVars, remote, Readings, Baselines, Within, GrownBy
<1>3. Readings' /\ Baselines'
  BY <1>1, <1>2, HostStep, ExecuteStep, PublishStep DEF SamplingNext
<1> QED BY <1>3, SamplingTypeStep DEF SamplingInv

LEMMA SamplingInvariance == SamplingSpec => []SamplingInv
<1>1. SamplingInv /\ [SamplingNext]_samplingVars => SamplingInv'
  BY SamplingStep
<1> QED BY <1>1, SamplingInitially, PTL DEF SamplingSpec

\* The counters, the readings and the history keep their types.
THEOREM SamplingTypeCorrect == SamplingSpec => []SamplingTypeOK
<1>1. SamplingInv => SamplingTypeOK
  BY DEF SamplingInv
<1> QED BY <1>1, SamplingInvariance, PTL

-----------------------------------------------------------------------------
\* Of a reading the program holds, the rates are computed from it.
LEMMA RatesFrom ==
    ASSUME NEW S, AtMostOne(S), NEW c, NEW now, NEW n \in DOMAIN c, Rates(S, c, now)[n] # Unknown
    PROVE  \E s \in S : /\ n \in DOMAIN s.counts
                        /\ Rates(S, c, now)[n] = RateBetween(s.counts[n], c[n], now - s.at)
<1>1. PICK s \in S : n \in DOMAIN s.counts
  BY DEF Rates
<1>2. (CHOOSE r \in S : TRUE) = s
  <2>1. (CHOOSE r \in S : TRUE) \in S
    BY <1>1
  <2> QED BY <2>1 DEF AtMostOne
<1>3. Rates(S, c, now)[n] = RateBetween(s.counts[n], c[n], now - s.at)
  BY <1>1, <1>2 DEF Rates
<1> QED BY <1>1, <1>3

\* No rate says more bytes than the interface has received between the two
\* readings it is of, in the time between the two snapshots, and it is of the
\* snapshot before: for any number of interfaces, and any counts.
THEOREM RatesAreOfThePeriodHolds == SamplingSpec => RatesAreOfThePeriod
<1> DEFINE Bounded ==
        Publish => \A rates \in snapshot'.network : \A n \in DOMAIN rates :
          rates[n] # Unknown =>
              /\ snapshot # Nothing /\ snapshot.network # {}
              /\ rates[n] * (snapshot'.at - snapshot.at) <= output.traffic[n] * Second
<1>1. ASSUME SamplingInv PROVE Bounded
  <2> USE <1>1 DEF SamplingInv
  <2> SUFFICES ASSUME Publish, NEW rates \in snapshot'.network, NEW n \in DOMAIN rates,
                      rates[n] # Unknown
               PROVE  /\ snapshot # Nothing /\ snapshot.network # {}
                      /\ rates[n] * (snapshot'.at - snapshot.at) <= output.traffic[n] * Second
    OBVIOUS
  <2>1. /\ output # Nothing /\ snapshot'.at = clock
        /\ snapshot'.network = {Rates(network, c, clock) : c \in output.counts}
    BY DEF Publish
  <2>2. PICK c \in output.counts : rates = Rates(network, c, clock)
    BY <2>1
  <2>3. n \in DOMAIN c
    BY <2>2 DEF Rates
  <2>4. PICK s \in network : /\ n \in DOMAIN s.counts
                             /\ rates[n] = RateBetween(s.counts[n], c[n], clock - s.at)
    BY <2>2, <2>3, RatesFrom DEF Readings
  <2>5. /\ Counts(c) /\ Counts(s.counts) /\ s.at \in Nat /\ clock \in Nat
        /\ output.traffic \in [Nics -> Nat]
    BY <2>1, SamplingAssumption DEF Readings, SamplingTypeOK
  <2>6. /\ n \in Nics /\ c[n] \in Nat /\ s.counts[n] \in Nat /\ output.traffic[n] \in Nat
        /\ clock - s.at \in Int
    BY <2>3, <2>4, <2>5 DEF Counts
  <2>7. c[n] - s.counts[n] <= output.traffic[n]
    BY <2>1, <2>3, <2>4, <2>6 DEF Baselines, Within, Gone
  <2>8. rates[n] * (clock - s.at) <= output.traffic[n] * Second
    BY <2>4, <2>6, <2>7, RateBound
  <2> QED BY <2>1, <2>8 DEF Baselines
<1>2. SamplingInv /\ [SamplingNext]_samplingVars => [Bounded]_samplingVars
  BY <1>1
<1> QED BY <1>2, SamplingInvariance, PTL DEF SamplingSpec, RatesAreOfThePeriod

\* A CPU usage that is shown is the share of work in the ticks since the last
\* snapshot, to half a tenth of a percent, also when ticks are taken back.
THEOREM UsageIsOfThePeriodHolds == SamplingSpec => UsageIsOfThePeriod
<1> DEFINE Shown ==
        Publish /\ snapshot'.cpu # Unknown =>
          LET all == output.busy.all
              work == IF output.busy.work <= all THEN output.busy.work ELSE all
          IN  IF all <= 0 THEN snapshot'.cpu = 0
              ELSE /\ snapshot'.cpu \in 0 .. 1000
                   /\ 2 * snapshot'.cpu * all \in 2000 * work - all .. 2000 * work + all
<1>1. ASSUME SamplingInv PROVE Shown
  <2> USE <1>1 DEF SamplingInv
  <2> SUFFICES ASSUME Publish, snapshot'.cpu # Unknown PROVE Shown
    OBVIOUS
  <2> DEFINE old == CHOOSE s \in processor : TRUE
             new == CHOOSE s \in output.read : TRUE
  <2>1. /\ output # Nothing /\ processor # {} /\ output.read # {}
        /\ snapshot'.cpu = Usage(old, new)
    BY DEF Publish
  <2>2. old \in processor /\ new \in output.read
    BY <2>1
  <2> HIDE DEF old, new
  <2>3. /\ Ticks(old) /\ Ticks(new) /\ output.busy \in [all : Int, work : Nat]
        /\ GrownBy(old, new, output.busy)
    BY <2>1, <2>2 DEF Readings, Baselines
  <2> QED BY <2>1, <2>3, UsageBound
<1>2. SamplingInv /\ [SamplingNext]_samplingVars => [Shown]_samplingVars
  BY <1>1
<1> QED BY <1>2, SamplingInvariance, PTL DEF SamplingSpec, UsageIsOfThePeriod
=============================================================================
