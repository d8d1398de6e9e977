-------------------------- MODULE SafePublishProofs --------------------------
(***************************************************************************)
(* Proofs about SafePublish, for any number of transfers and any size of   *)
(* file: type correctness, that a transfer implements Publish, that only   *)
(* what is Done publishes, and that a leftover file is told of.            *)
(*                                                                         *)
(* The promise is not inductive: it rests on what a run has established    *)
(* when it comes to its rename (Ready), on what the histories say of where *)
(* a run can be (Histories), and on how an announcement relates to the     *)
(* verdict (Words, Leftovers).                                             *)
(***************************************************************************)
EXTENDS SafePublish, TLAPS

\* Whatever is at the target is whole, and a power failure spares it.
Whole == target.len = Size /\ target.by \notin Transfers \ synced

\* A run that has closed its file has a whole one, on the disk; one about to
\* replace a file may.
Ready ==
    \A t \in Transfers :
        /\ at[t] \in {"closed"} \cup Publishing => temp[t] = Size /\ t \in synced
        /\ at[t] = "replacing" => strategy[t] = "Overwrite"
        /\ at[t] \in {"new", "opening", "creating"} => temp[t] = NoFile

Histories ==
    \A t \in Transfers :
        /\ t \in published => at[t] \notin Before \cup Publishing
        /\ t \in published => t \notin early
        /\ at[t] \in Publishing => t \notin early
        /\ t \in early => t \in cancelled

\* Until the end a task in the registry has not been announced; then with
\* its verdict.
Words ==
    \A t \in Transfers :
        /\ t \in known => word[t] = Unsaid \/ (at[t] \in {"ended", "dead"} /\ word[t] = verdict[t])
        /\ t \in known /\ at[t] = "ended" => word[t] = verdict[t]
        /\ t \in published => verdict[t].what = "Done" \/ t \in lost

Leftovers ==
    \A t \in Transfers :
        at[t] \in {"over", "ended"} /\ temp[t] # NoFile => verdict[t].detail = "leftover" \/ t \in lost \cup unseen

Inv == TypeOK /\ Whole /\ Ready /\ Histories /\ Words /\ Leftovers

-----------------------------------------------------------------------------
LEMMA InvInit == Init => Inv
BY SizeAssumption, TransfersAssumption
   DEF Init, Inv, TypeOK, Whole, Ready, Histories, Words, Leftovers, Absent, Foreign, Content, NoFile,
       Before, Publishing, Unsaid, Verdicts

LEMMA TypeStep == TypeOK /\ [Next]_vars => TypeOK'
<1> SUFFICES ASSUME TypeOK, [Next]_vars PROVE TypeOK'
  OBVIOUS
<1> USE SizeAssumption DEF TypeOK, NoFile, Content, Go, jobs, files, tokens, gaps
<1>v. ASSUME NEW t \in Transfers, NEW what \in {"none", "Done", "Cancelled", "Failed"},
             NEW detail \in {"none", "leftover"},
             verdict' = [verdict EXCEPT ![t] = [what |-> what, detail |-> detail]]
      PROVE  verdict' \in [Transfers -> Verdicts]
  BY <1>v DEF Verdicts
<1>1. ASSUME NEW t \in Transfers, Begin(t) \/ OpenSource(t) \/ CreateTemp(t) PROVE TypeOK'
  <2>1. verdict' \in [Transfers -> Verdicts]
    BY <1>1, <1>v DEF Begin, OpenSource, CreateTemp, Finish
  <2>2. at' \in [Transfers -> Before \cup Publishing \cup {"cleaning", "over", "ended", "dead"}]
    BY <1>1 DEF Begin, OpenSource, CreateTemp, Finish, Before, Publishing
  <2> QED BY <1>1, <2>1, <2>2 DEF Begin, OpenSource, CreateTemp
<1>2. ASSUME NEW t \in Transfers, CopyChunk(t) \/ Flush(t) PROVE TypeOK'
  <2>1. CASE CopyChunk(t)
    <3>1. temp[t] + 1 \in -1 .. Size
      BY <2>1 DEF CopyChunk
    <3> QED BY <2>1, <3>1 DEF CopyChunk
  <2>2. CASE Flush(t)
    BY <2>2 DEF Flush, Before, Publishing
  <2> QED BY <1>2, <2>1, <2>2
<1>3. ASSUME NEW t \in Transfers,
             CopyFails(t) \/ CopyCancelled(t) \/ LastCheck(t) \/ LookLocally(t) \/ LookRemotely(t)
      PROVE  TypeOK'
  <2>1. verdict' \in [Transfers -> Verdicts]
    BY <1>3, <1>v DEF CopyFails, CopyCancelled, LastCheck, LookLocally, LookRemotely, Abandon
  <2>2. at' \in [Transfers -> Before \cup Publishing \cup {"cleaning", "over", "ended", "dead"}]
    BY <1>3 DEF CopyFails, CopyCancelled, LastCheck, LookLocally, LookRemotely, Abandon, Before, Publishing
  <2> QED BY <1>3, <2>1, <2>2 DEF CopyFails, CopyCancelled, LastCheck, LookLocally, LookRemotely
<1>4. ASSUME NEW t \in Transfers, PublishFile(t) \/ PublishUnanswered(t) \/ PublishFails(t) PROVE TypeOK'
  <2>1. verdict' \in [Transfers -> Verdicts]
    <3>2. CASE PublishFile(t) \/ PublishUnanswered(t)
      BY <3>2, <1>v DEF PublishFile, PublishUnanswered, Finish, Abandon
    <3>3. CASE PublishFails(t)
      <4>1. PICK detail \in {"none", "leftover"} : Abandon(t, "Failed", detail)
        BY <3>3 DEF PublishFails
      <4> QED BY <4>1, <1>v DEF Abandon
    <3> QED BY <1>4, <3>2, <3>3
  <2>2. at' \in [Transfers -> Before \cup Publishing \cup {"cleaning", "over", "ended", "dead"}]
    BY <1>4 DEF PublishFile, PublishUnanswered, PublishFails, Finish, Abandon
  <2>3. temp' \in [Transfers -> -1 .. Size] /\ target' \in Content
    BY <1>4 DEF PublishFile, PublishUnanswered, PublishFails, Rename
  <2> QED BY <1>4, <2>1, <2>2, <2>3 DEF PublishFile, PublishUnanswered, PublishFails, Rename
<1>5. ASSUME NEW t \in Transfers, CleanUp(t) PROVE TypeOK'
  <2>1. verdict' \in [Transfers -> Verdicts]
    <3>1. WithAppendedDetail(verdict[t]) \in Verdicts
      BY DEF WithAppendedDetail, Verdicts
    <3>2. verdict' = verdict \/ verdict' = [verdict EXCEPT ![t] = WithAppendedDetail(verdict[t])]
      BY <1>5 DEF CleanUp
    <3> QED BY <3>1, <3>2
  <2>2. temp' \in [Transfers -> -1 .. Size]
    BY <1>5 DEF CleanUp
  <2> QED BY <1>5, <2>1, <2>2 DEF CleanUp
<1>6. ASSUME NEW t \in Transfers, Report(t) PROVE TypeOK'
  BY <1>6 DEF Report
<1>7. ASSUME NEW t \in Transfers, CancelTask(t) \/ CloseSession(t) PROVE TypeOK'
  <2>1. [Unsaid EXCEPT !.what = "Cancelled"] \in Verdicts
    BY DEF Unsaid, Verdicts
  <2> QED BY <1>7, <2>1 DEF CancelTask, CloseSession, Cancelling
<1>8. ASSUME OtherProgram \/ PowerFails PROVE TypeOK'
  <2>1. CASE OtherProgram
    BY <2>1 DEF OtherProgram, Absent, Foreign
  <2>2. CASE PowerFails
    <3>1. target' \in Content /\ temp' \in [Transfers -> -1 .. Size]
      BY <2>2 DEF PowerFails
    <3> QED BY <2>2, <3>1 DEF PowerFails
  <2> QED BY <1>8, <2>1, <2>2
<1> QED
  BY <1>1, <1>2, <1>3, <1>4, <1>5, <1>6, <1>7, <1>8 DEF Next, Step, vars

LEMMA InvStep == Inv /\ [Next]_vars => Inv'
<1> SUFFICES ASSUME Inv, [Next]_vars PROVE Whole' /\ Ready' /\ Histories' /\ Words' /\ Leftovers'
  BY TypeStep DEF Inv
<1>0. TypeOK /\ TypeOK' /\ Whole /\ Ready /\ Histories /\ Words /\ Leftovers
  BY TypeStep DEF Inv
<1> USE <1>0, SizeAssumption, TransfersAssumption
    DEF TypeOK, Whole, Ready, Histories, Words, Leftovers, Before, Publishing, NoFile, Unsaid, Verdicts,
        Content, Go, Finish, Abandon, jobs, files, tokens, gaps
<1>g. ASSUME NEW t \in Transfers, NEW v, verdict' = [verdict EXCEPT ![t] = v],
             at[t] \in {"opening", "copying", "closed", "publishing"},
             NEW s \in {"over", "cleaning"}, at' = [at EXCEPT ![t] = s],
             s = "over" => temp[t] = NoFile,
             UNCHANGED <<jobs, files, tokens, word, gaps>>
      PROVE  Whole' /\ Ready' /\ Histories' /\ Words' /\ Leftovers'
  <2>1. /\ \A u \in Transfers \ {t} : verdict'[u] = verdict[u] /\ at'[u] = at[u]
        /\ at'[t] = s
    BY <1>g
  <2>2. t \notin published /\ (t \in known => word[t] = Unsaid)
    BY <1>g DEF Histories, Words
  <2>3. Whole' /\ Ready' /\ Histories'
    BY <1>g, <2>1, <2>2
  <2>4. Words'
    BY <1>g, <2>1, <2>2
  <2>5. Leftovers'
    BY <1>g, <2>1
  <2> QED BY <2>3, <2>4, <2>5
<1>1. ASSUME NEW t \in Transfers, Begin(t) \/ OpenSource(t) \/ CreateTemp(t)
      PROVE  Whole' /\ Ready' /\ Histories' /\ Words' /\ Leftovers'
  <2>1. CASE Begin(t)
    BY <2>1 DEF Begin
  <2>2. CASE OpenSource(t)
    <3>1. CASE Go(t, "creating") /\ UNCHANGED verdict
      BY <2>2, <3>1 DEF OpenSource
    <3>2. CASE Finish(t, "Failed")
      BY <2>2, <3>2, <1>g DEF OpenSource
    <3> QED BY <2>2, <3>1, <3>2 DEF OpenSource
  <2>3. CASE CreateTemp(t)
    <3>1. CASE Go(t, "copying") /\ UNCHANGED <<verdict, gaps>>
      BY <2>3, <3>1 DEF CreateTemp
    <3>2. CASE Finish(t, "Failed")
      <4>1. /\ \A u \in Transfers \ {t} : verdict'[u] = verdict[u] /\ at'[u] = at[u] /\ temp'[u] = temp[u]
            /\ at'[t] = "over" /\ at[t] = "creating" /\ lost \subseteq lost' /\ unseen' = unseen
            /\ temp'[t] = NoFile \/ t \in lost'
            /\ UNCHANGED <<jobs, synced, target, published, tokens, word>>
        BY <2>3, <3>2 DEF CreateTemp
      <4>2. t \notin published /\ (t \in known => word[t] = Unsaid)
        BY <4>1
      <4>3. Whole' /\ Ready' /\ Histories'
        BY <4>1, <4>2
      <4>4. Words'
        BY <4>1, <4>2
      <4>5. Leftovers'
        BY <4>1
      <4> QED BY <4>3, <4>4, <4>5
    <3> QED BY <2>3, <3>1, <3>2 DEF CreateTemp
  <2> QED BY <1>1, <2>1, <2>2, <2>3
<1>2. ASSUME NEW t \in Transfers, CopyChunk(t) \/ CopyFails(t) \/ CopyCancelled(t) \/ Flush(t)
      PROVE  Whole' /\ Ready' /\ Histories' /\ Words' /\ Leftovers'
  <2>1. CASE CopyChunk(t)
    BY <2>1 DEF CopyChunk
  <2>2. CASE CopyFails(t) \/ CopyCancelled(t)
    BY <2>2, <1>g DEF CopyFails, CopyCancelled
  <2>3. CASE Flush(t)
    BY <2>3 DEF Flush
  <2> QED BY <1>2, <2>1, <2>2, <2>3
<1>3. ASSUME NEW t \in Transfers, LastCheck(t) \/ LookLocally(t)
      PROVE  Whole' /\ Ready' /\ Histories' /\ Words' /\ Leftovers'
  <2>1. CASE LastCheck(t)
    <3>1. CASE t \in cancelled
      BY <2>1, <3>1, <1>g DEF LastCheck
    <3>2. CASE t \notin cancelled
      BY <2>1, <3>2 DEF LastCheck
    <3> QED BY <3>1, <3>2
  <2>2. CASE LookLocally(t)
    <3>1. CASE Go(t, "replacing") /\ strategy[t] = "Overwrite" /\ UNCHANGED verdict
      BY <2>2, <3>1 DEF LookLocally
    <3>3. CASE Go(t, "placing") /\ UNCHANGED verdict
      BY <2>2, <3>3 DEF LookLocally
    <3>2. CASE Abandon(t, "Failed", "none")
      BY <2>2, <3>2, <1>g DEF LookLocally
    <3> QED BY <2>2, <3>1, <3>2, <3>3 DEF LookLocally
  <2> QED BY <1>3, <2>1, <2>2
<1>4. ASSUME NEW t \in Transfers, LookRemotely(t)
      PROVE  Whole' /\ Ready' /\ Histories' /\ Words' /\ Leftovers'
  <2>1. CASE UNCHANGED verdict
    BY <1>4, <2>1 DEF LookRemotely, Strategies
  <2>2. CASE Abandon(t, "Failed", "none")
    BY <1>4, <2>2, <1>g DEF LookRemotely
  <2> QED BY <1>4, <2>1, <2>2 DEF LookRemotely
<1>5. ASSUME NEW t \in Transfers, PublishFile(t)
      PROVE  Whole' /\ Ready' /\ Histories' /\ Words' /\ Leftovers'
  BY <1>5 DEF PublishFile, MayRename, Rename
<1>6. ASSUME NEW t \in Transfers, PublishUnanswered(t)
      PROVE  Whole' /\ Ready' /\ Histories' /\ Words' /\ Leftovers'
  BY <1>6 DEF PublishUnanswered, MayRename, Rename
<1>7. ASSUME NEW t \in Transfers, PublishFails(t)
      PROVE  Whole' /\ Ready' /\ Histories' /\ Words' /\ Leftovers'
  <2>1. PICK v : verdict' = [verdict EXCEPT ![t] = v]
    BY <1>7 DEF PublishFails
  <2>2. /\ \A u \in Transfers \ {t} : verdict'[u] = verdict[u] /\ at'[u] = at[u] /\ temp'[u] = temp[u]
        /\ at'[t] = "cleaning"
    BY <1>7 DEF PublishFails
  <2>3. t \notin published /\ (t \in known => word[t] = Unsaid)
    BY <1>7 DEF PublishFails
  <2>4. at[t] \in Publishing /\ UNCHANGED <<jobs, synced, target, published, tokens, word, gaps>>
    BY <1>7 DEF PublishFails
  <2>5. Whole' /\ Ready' /\ Histories'
    BY <2>2, <2>3, <2>4
  <2>6. Words'
    BY <2>1, <2>2, <2>3, <2>4
  <2>7. Leftovers'
    BY <2>2, <2>4
  <2> QED BY <2>5, <2>6, <2>7
<1>8. ASSUME NEW t \in Transfers, CleanUp(t) \/ Report(t)
      PROVE  Whole' /\ Ready' /\ Histories' /\ Words' /\ Leftovers'
  <2>1. CASE CleanUp(t)
    <3>1. /\ \A u \in Transfers \ {t} : verdict'[u] = verdict[u] /\ at'[u] = at[u] /\ temp'[u] = temp[u]
          /\ at[t] = "cleaning" /\ at'[t] = "over" /\ unseen \subseteq unseen'
          /\ verdict'[t].what = verdict[t].what
          /\ \/ temp'[t] = NoFile \/ verdict'[t].detail = "leftover" \/ t \in unseen'
          /\ UNCHANGED <<jobs, synced, target, published, tokens, word, lost>>
      BY <2>1 DEF CleanUp, WithAppendedDetail
    <3>2. t \in known => word[t] = Unsaid
      BY <3>1
    <3>3. Whole' /\ Ready' /\ Histories'
      BY <3>1
    <3>4. Words'
      BY <3>1, <3>2
    <3>5. Leftovers'
      BY <3>1
    <3> QED BY <3>3, <3>4, <3>5
  <2>2. CASE Report(t)
    BY <2>2 DEF Report
  <2> QED BY <1>8, <2>1, <2>2
<1>9. ASSUME NEW t \in Transfers, CancelTask(t) \/ CloseSession(t)
      PROVE  Whole' /\ Ready' /\ Histories' /\ Words' /\ Leftovers'
  BY <1>9 DEF CancelTask, CloseSession, Cancelling
<1>10. ASSUME OtherProgram PROVE Whole' /\ Ready' /\ Histories' /\ Words' /\ Leftovers'
  BY <1>10 DEF OtherProgram, Absent, Foreign
<1>11. ASSUME PowerFails PROVE Whole' /\ Ready' /\ Histories' /\ Words' /\ Leftovers'
  BY <1>11 DEF PowerFails
<1> QED
  BY <1>1, <1>2, <1>3, <1>4, <1>5, <1>6, <1>7, <1>8, <1>9, <1>10, <1>11 DEF Next, Step, vars

LEMMA Invariance == Spec => []Inv
BY InvInit, InvStep, PTL DEF Spec

-----------------------------------------------------------------------------
\* The variables keep their types: every length, phase and announcement.
THEOREM TypeCorrect == Spec => []TypeOK
BY Invariance, PTL DEF Inv

\* No cancelled, failed or refused transfer has published its file, but for
\* the ones the model names (run_transfer_blocking, transition_task).
THEOREM OnlyDonePublishesHolds == Spec => []OnlyDonePublishes
<1>1. Inv => OnlyDonePublishes
  <2> SUFFICES ASSUME Inv, NEW t \in published
               PROVE  t \notin early /\ (word[t].what \in {"none", "Done"} \/ t \in lost \/ t \notin known)
    BY DEF OnlyDonePublishes
  <2>1. t \in Transfers
    BY DEF Inv, TypeOK
  <2>2. t \in known => word[t] = Unsaid \/ word[t] = verdict[t]
    BY <2>1 DEF Inv, Words
  <2>3. Unsaid.what = "none"
    BY DEF Unsaid
  <2> QED BY <2>1, <2>2, <2>3 DEF Inv, Histories, Words
<1> QED BY <1>1, Invariance, PTL

\* A temporary file left behind is named in the terminal event
\* (merge_cleanup_failure, transition_task).
THEOREM LeftoverToldHolds == Spec => []LeftoverTold
<1>1. Inv => LeftoverTold
  BY DEF Inv, TypeOK, Words, Leftovers, LeftoverTold
<1> QED BY <1>1, Invariance, PTL

-----------------------------------------------------------------------------
LEMMA PromiseInit == Init => Promise!Init
BY SizeAssumption, TransfersAssumption
   DEF Init, Promise!Init, Promise!Strategies, Promise!Outsiders, Strategies, Place, Fate, Absent, Foreign

\* A run that gives up or goes on, as its promise sees it.
LEMMA GivingUp ==
    ASSUME Inv, NEW t \in Transfers, at[t] \in Before \cup Publishing,
           NEW s, at' = [at EXCEPT ![t] = s], UNCHANGED <<strategy, target, published>>
    PROVE  /\ s \in {"cleaning", "over"} => Promise!GiveUp(t)
           /\ s \in Before \cup Publishing => UNCHANGED Promise!pvars
<1>1. Place' = Place
  BY DEF Place
<1>2. t \notin published /\ Fate[t] = "open"
  BY DEF Inv, Histories, Fate, Before, Publishing
<1>3. ASSUME s \in {"cleaning", "over"} PROVE Promise!GiveUp(t)
  <2>1. Fate' = [Fate EXCEPT ![t] = "given up"]
    BY <1>2, <1>3 DEF Fate, Inv, TypeOK
  <2> QED BY <1>1, <1>2, <2>1 DEF Promise!GiveUp
<1>4. ASSUME s \in Before \cup Publishing PROVE UNCHANGED Promise!pvars
  <2>1. Fate' = Fate
    BY <1>2, <1>4 DEF Fate, Inv, TypeOK, Before, Publishing
  <2> QED BY <1>1, <2>1 DEF Promise!pvars
<1> QED BY <1>3, <1>4

LEMMA PromisePut ==
    ASSUME Inv, NEW t \in Transfers, MayRename(t), Rename(t), at' = [at EXCEPT ![t] = "over"]
           \/ at' = [at EXCEPT ![t] = "cleaning"], UNCHANGED strategy
    PROVE  Promise!Put(t)
<1>1. t \notin published /\ Fate[t] = "open"
  BY DEF Inv, Histories, Fate, MayRename, Before, Publishing
<1>2. temp[t] = Size
  BY DEF Inv, Ready, MayRename, Publishing
<1>3. Place' = t
  BY <1>2 DEF Place, Rename
<1>4. Place = "nobody" \/ strategy[t] = "Overwrite"
  BY DEF Inv, Whole, Ready, MayRename, Exists, Place
<1>5. Fate' = [Fate EXCEPT ![t] = "published"]
  BY DEF Fate, Rename, Inv, TypeOK
<1> QED BY <1>1, <1>3, <1>4, <1>5 DEF Promise!Put

LEMMA PromiseStep == Inv /\ [Next]_vars => [Promise!Next]_(Promise!pvars)
<1> SUFFICES ASSUME Inv, [Next]_vars PROVE [Promise!Next]_(Promise!pvars)
  OBVIOUS
<1> USE DEF jobs, files, tokens, gaps
<1>1. ASSUME NEW t \in Transfers,
             Begin(t) \/ OpenSource(t) \/ CreateTemp(t) \/ CopyFails(t) \/ CopyCancelled(t) \/ Flush(t)
             \/ LastCheck(t) \/ LookLocally(t) \/ LookRemotely(t) \/ PublishFails(t)
      PROVE  [Promise!Next]_(Promise!pvars)
  <2>1. /\ at[t] \in Before \cup Publishing
        /\ \E s \in {"cleaning", "over"} \cup Before \cup Publishing : at' = [at EXCEPT ![t] = s]
        /\ UNCHANGED <<strategy, target, published>>
    BY <1>1 DEF Begin, OpenSource, CreateTemp, CopyFails, CopyCancelled, Flush, LastCheck, LookLocally,
                LookRemotely, PublishFails, Go, Finish, Abandon, Before, Publishing
  <2> QED BY <2>1, GivingUp DEF Promise!Next
<1>2. ASSUME NEW t \in Transfers, PublishFile(t) \/ PublishUnanswered(t)
      PROVE  [Promise!Next]_(Promise!pvars)
  BY <1>2, PromisePut DEF Promise!Next, PublishFile, PublishUnanswered, Go, Finish, Abandon
<1>3. ASSUME NEW t \in Transfers, CleanUp(t) \/ Report(t) PROVE UNCHANGED Promise!pvars
  <2>1. UNCHANGED <<strategy, target, published>>
    BY <1>3 DEF CleanUp, Report
  <2>2. Fate' = Fate
    BY <1>3 DEF CleanUp, Report, Fate, Go, Inv, TypeOK
  <2> QED BY <2>1, <2>2 DEF Promise!pvars, Place
<1>4. ASSUME NEW t \in Transfers, CopyChunk(t) \/ CancelTask(t) \/ CloseSession(t)
      PROVE  UNCHANGED Promise!pvars
  BY <1>4 DEF CopyChunk, CancelTask, CloseSession, Promise!pvars, Place, Fate
<1>5. ASSUME OtherProgram PROVE [Promise!Next]_(Promise!pvars)
  <2>1. Place' \in Promise!Outsiders
    BY <1>5 DEF OtherProgram, Place, Absent, Foreign, Promise!Outsiders
  <2>2. UNCHANGED <<strategy, Fate>>
    BY <1>5 DEF OtherProgram, Fate
  <2> QED BY <2>1, <2>2 DEF Promise!Next, Promise!Outside
<1>6. ASSUME PowerFails PROVE [Promise!Next]_(Promise!pvars)
  <2>1. Place' = Place
    BY <1>6 DEF PowerFails, Place, Inv, Whole
  <2>2. Fate' = [t \in Transfers |-> IF Fate[t] = "open" THEN "given up" ELSE Fate[t]]
    BY <1>6 DEF PowerFails, Fate
  <2> QED BY <1>6, <2>1, <2>2 DEF Promise!Next, Promise!AllGiveUp, PowerFails
<1>7. ASSUME UNCHANGED vars PROVE UNCHANGED Promise!pvars
  BY <1>7 DEF vars, Promise!pvars, Place, Fate
<1> QED
  BY <1>1, <1>2, <1>3, <1>4, <1>5, <1>6, <1>7 DEF Next, Step

\* A transfer does what Publish promises: nothing but whole files comes to
\* the target, each at most once, and over another only as agreed
\* (publish_download_file, publish_upload_file).
THEOREM PublishSpecHolds == Spec => PublishSpec
BY PromiseInit, PromiseStep, Invariance, PTL DEF Spec, PublishSpec, Promise!Spec
=============================================================================
