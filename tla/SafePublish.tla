----------------------------- MODULE SafePublish -----------------------------
(***************************************************************************)
(* SafePublish: one run of run_transfer_blocking                           *)
(* (src-tauri/src/core/sftp_service.rs) for each of several transfers to   *)
(* one target: a temporary file beside the target, copied, flushed, closed *)
(* and only then renamed; the clean-up when anything fails; and what the   *)
(* task's terminal event says of it.  The remote server is the one of      *)
(* SftpOps in ssh_transport.rs, whose semantics the tests' InMemorySftp    *)
(* spells out.                                                             *)
(*                                                                         *)
(* Environment.  Other programs write and delete the target, a transfer    *)
(* is cancelled or its session closed at any time, every operation may     *)
(* fail, a remote one also without an answer when it has taken effect, and *)
(* the power may fail, which loses local bytes not yet synced.             *)
(*                                                                         *)
(* External.  The rename of the file system and of the server is atomic,   *)
(* and replaces nothing when asked not to; what the server has             *)
(* acknowledged survives the close of its file.                            *)
(***************************************************************************)
EXTENDS Integers

CONSTANTS
    Transfers,  \* the tasks, which are also the names of their temporary files
    Size        \* the chunks of a source file

ASSUME SizeAssumption == Size \in Nat
ASSUME TransfersAssumption == {"nobody", "other", "torn"} \cap Transfers = {}

VARIABLES
    kind,       \* transfer_type: the side the target is on
    strategy,   \* conflict_strategy of each task
    at,         \* how far its run has come
    temp,       \* the length of its temporary file, NoFile if there is none
    synced,     \* the tasks whose file is on the disk for good
    target,     \* the target file
    cancelled,  \* the tasks whose token is cancelled
    known,      \* the tasks still in the registry
    verdict,    \* the TransferOutcome, and whether its detail names the temp path
    word,       \* the terminal event the window was sent
    published,  \* history: the tasks whose file came to the target
    early,      \* history: the tasks cancelled before their last check
    lost,       \* history: the tasks the server left without an answer
    unseen      \* history: the tasks whose temporary file could not be looked at

files == <<temp, synced, target, published>>
tokens == <<cancelled, known, early>>
jobs == <<kind, strategy>>
gaps == <<lost, unseen>>
vars == <<jobs, at, files, tokens, verdict, word, gaps>>

Kinds == {"Download", "Upload"}
Strategies == {"Reject", "Overwrite"}
NoFile == -1

\* The target: whose file it is, and how long.
Absent == [by |-> "nobody", len |-> Size]
Foreign == [by |-> "other", len |-> Size]
Content == [by : Transfers \cup {"nobody", "other"}, len : -1 .. Size]

Unsaid == [what |-> "none", detail |-> "none"]

Verdicts == [what : {"none", "Done", "Cancelled", "Failed"}, detail : {"none", "leftover"}]

Before == {"new", "opening", "creating", "copying", "closed"}
Publishing == {"publishing", "placing", "replacing"}

TypeOK ==
    /\ kind \in Kinds /\ strategy \in [Transfers -> Strategies]
    /\ at \in [Transfers -> Before \cup Publishing \cup {"cleaning", "over", "ended", "dead"}]
    /\ temp \in [Transfers -> -1 .. Size]
    /\ synced \subseteq Transfers
    /\ target \in Content
    /\ cancelled \subseteq Transfers /\ known \subseteq Transfers
    /\ verdict \in [Transfers -> Verdicts] /\ word \in [Transfers -> Verdicts]
    /\ published \subseteq Transfers /\ early \subseteq Transfers
    /\ lost \subseteq Transfers /\ unseen \subseteq Transfers

Init ==
    /\ kind \in Kinds /\ strategy \in [Transfers -> Strategies]
    /\ at = [t \in Transfers |-> "new"]
    /\ temp = [t \in Transfers |-> NoFile]
    /\ synced = {}
    /\ target \in {Absent, Foreign}
    /\ cancelled = {} /\ known = Transfers
    /\ verdict = [t \in Transfers |-> Unsaid] /\ word = [t \in Transfers |-> Unsaid]
    /\ published = {} /\ early = {} /\ lost = {} /\ unseen = {}

Download == kind = "Download"
Exists == target.by # "nobody"

Go(t, s) == at' = [at EXCEPT ![t] = s]

\* The run returns, with nothing to clean up.
Finish(t, what) ==
    /\ Go(t, "over")
    /\ verdict' = [verdict EXCEPT ![t] = [what |-> what, detail |-> "none"]]

\* The run gives up and cleans its temporary file up first.
Abandon(t, what, detail) ==
    /\ Go(t, "cleaning")
    /\ verdict' = [verdict EXCEPT ![t] = [what |-> what, detail |-> detail]]

-----------------------------------------------------------------------------
(* The copy.                                                               *)

\* No local or remote file is written for a task cancelled by now.
Begin(t) ==
    /\ at[t] = "new"
    /\ \/ t \notin cancelled /\ Go(t, "opening") /\ UNCHANGED verdict
       \/ t \in cancelled /\ Finish(t, "Cancelled")
       \/ Finish(t, "Failed")       \* the transport's lock is poisoned
    /\ UNCHANGED <<jobs, files, tokens, word, gaps>>

OpenSource(t) ==
    /\ at[t] = "opening"
    /\ \/ Go(t, "creating") /\ UNCHANGED verdict
       \/ Finish(t, "Failed")
    /\ UNCHANGED <<jobs, files, tokens, word, gaps>>

CreateTemp(t) ==
    /\ at[t] = "creating"
    /\ \/ /\ Go(t, "copying")
          /\ temp' = [temp EXCEPT ![t] = 0]
          /\ UNCHANGED <<verdict, gaps>>
       \/ Finish(t, "Failed") /\ UNCHANGED <<temp, gaps>>
       \/ \* The server creates the file and does not say so.
          /\ ~Download
          /\ Finish(t, "Failed")
          /\ temp' = [temp EXCEPT ![t] = 0]
          /\ lost' = lost \cup {t}
    /\ UNCHANGED <<jobs, synced, target, published, tokens, word, unseen>>

\* A turn of the loop that copies a chunk.
CopyChunk(t) ==
    /\ at[t] = "copying" /\ t \notin cancelled
    /\ temp[t] < Size
    /\ temp' = [temp EXCEPT ![t] = @ + 1]
    /\ UNCHANGED <<jobs, at, synced, target, published, tokens, verdict, word, gaps>>

\* A read, a write, the flush or the sync fails.
CopyFails(t) ==
    /\ at[t] = "copying" /\ t \notin cancelled
    /\ Abandon(t, "Failed", "none")
    /\ UNCHANGED <<jobs, files, tokens, word, gaps>>

CopyCancelled(t) ==
    /\ at[t] = "copying" /\ t \in cancelled
    /\ Abandon(t, "Cancelled", "none")
    /\ UNCHANGED <<jobs, files, tokens, word, gaps>>

\* The source is at its end: flush, sync of a local file, close.
Flush(t) ==
    /\ at[t] = "copying" /\ t \notin cancelled
    /\ temp[t] = Size
    /\ Go(t, "closed")
    /\ synced' = synced \cup {t}
    /\ UNCHANGED <<jobs, temp, target, published, tokens, verdict, word, gaps>>

-----------------------------------------------------------------------------
(* Publication.                                                            *)

LastCheckGone(t) ==                                                  \* variant
    /\ at[t] = "closed"
    /\ Go(t, "publishing") /\ UNCHANGED verdict
    /\ UNCHANGED <<jobs, files, tokens, word, gaps>>

LastCheck(t) ==
    /\ at[t] = "closed"
    /\ IF t \in cancelled THEN Abandon(t, "Cancelled", "none")
       ELSE Go(t, "publishing") /\ UNCHANGED verdict
    /\ UNCHANGED <<jobs, files, tokens, word, gaps>>

\* publish_download_file up to its rename, which replaces a file exactly if
\* the strategy says so.  Path::exists says no of a file it cannot look at.
LookLocally(t) ==
    /\ at[t] = "publishing" /\ Download
    /\ \/ /\ strategy[t] = "Overwrite"
          /\ Go(t, "replacing") /\ UNCHANGED verdict
       \/ \E seen \in {Exists, FALSE} :
             /\ strategy[t] = "Reject" /\ ~seen
             /\ Go(t, "placing") /\ UNCHANGED verdict
       \/ Abandon(t, "Failed", "none")      \* it is there, or an operation fails
    /\ UNCHANGED <<jobs, files, tokens, word, gaps>>

\* publish_upload_file up to its rename: file_size tells whether the target
\* is there, and only a file that was seen may be replaced.
LookRemotely(t) ==
    /\ at[t] = "publishing" /\ ~Download
    /\ \/ IF ~Exists THEN Go(t, "placing") /\ UNCHANGED verdict
          ELSE IF strategy[t] = "Reject" THEN Abandon(t, "Failed", "none")
          ELSE Go(t, "replacing") /\ UNCHANGED verdict
       \/ Abandon(t, "Failed", "none")
    /\ UNCHANGED <<jobs, files, tokens, word, gaps>>

MayRenameAnyhow(t) == at[t] \in {"placing", "replacing"}                 \* variant

\* The rename without the overwrite flag fails if the target is there by now.
MayRename(t) == at[t] = "replacing" \/ (at[t] = "placing" /\ ~Exists)

Rename(t) ==
    /\ target' = [by |-> t, len |-> temp[t]]
    /\ temp' = [temp EXCEPT ![t] = NoFile]
    /\ published' = published \cup {t}

PublishFile(t) ==
    /\ MayRename(t)
    /\ Rename(t)
    /\ Finish(t, "Done")
    /\ UNCHANGED <<jobs, synced, tokens, word, gaps>>

\* The server renames and does not say so.
PublishUnanswered(t) ==
    /\ MayRename(t) /\ ~Download
    /\ Rename(t)
    /\ Abandon(t, "Failed", "none")
    /\ lost' = lost \cup {t}
    /\ UNCHANGED <<jobs, synced, tokens, word, unseen>>

\* A local rename that fails deletes the temporary file itself, and says so
\* if it cannot.
PublishFails(t) ==
    /\ at[t] \in {"placing", "replacing"}
    /\ \/ /\ UNCHANGED temp
          /\ Abandon(t, "Failed", IF Download THEN "leftover" ELSE "none")
       \/ /\ Download /\ temp' = [temp EXCEPT ![t] = NoFile]
          /\ Abandon(t, "Failed", "none")
    /\ UNCHANGED <<jobs, synced, target, published, tokens, word, gaps>>

-----------------------------------------------------------------------------
(* The clean-up and the end of the task.                                   *)

WithAppendedDetail(v) == [v EXCEPT !.detail = "leftover"]

CleanUpSilent(t) ==                                                  \* variant
    /\ at[t] = "cleaning" /\ Go(t, "over")
    /\ \/ temp' = [temp EXCEPT ![t] = NoFile]
       \/ (Download => temp[t] # NoFile) /\ UNCHANGED temp
    /\ UNCHANGED <<jobs, synced, target, published, tokens, verdict, word, gaps>>

\* cleanup_download_temp, cleanup_upload_temp and merge_cleanup_failure.  The
\* server may have unlinked a file and yet give no answer; a local file that
\* cannot be looked at is taken for one that is not there.
CleanUp(t) ==
    /\ at[t] = "cleaning" /\ Go(t, "over")
    /\ \/ temp' = [temp EXCEPT ![t] = NoFile] /\ UNCHANGED <<verdict, unseen>>
       \/ /\ verdict' = [verdict EXCEPT ![t] = WithAppendedDetail(@)]
          /\ \/ (Download => temp[t] # NoFile) /\ UNCHANGED temp
             \/ ~Download /\ temp' = [temp EXCEPT ![t] = NoFile]
          /\ UNCHANGED unseen
       \/ Download /\ unseen' = unseen \cup {t} /\ UNCHANGED <<temp, verdict>>
    /\ UNCHANGED <<jobs, synced, target, published, tokens, word, lost>>

\* The worker's transition: refused if the task has left the registry.
Report(t) ==
    /\ at[t] = "over" /\ Go(t, "ended")
    /\ word' = IF t \in known THEN [word EXCEPT ![t] = verdict[t]] ELSE word
    /\ UNCHANGED <<jobs, files, tokens, verdict, gaps>>

-----------------------------------------------------------------------------
(* What happens to a transfer.                                             *)

Cancelling(t) ==
    /\ cancelled' = cancelled \cup {t}
    /\ early' = IF at[t] \in Before THEN early \cup {t} ELSE early

CancelTask(t) ==
    /\ t \in known /\ word[t] = Unsaid /\ at[t] # "dead"
    /\ Cancelling(t)
    /\ UNCHANGED <<jobs, at, files, known, verdict, word, gaps>>

\* cleanup_session: an unfinished task is announced as cancelled, whatever it
\* comes to.
CloseSession(t) ==
    /\ t \in known /\ at[t] # "dead"
    /\ known' = known \ {t}
    /\ IF word[t] = Unsaid
       THEN /\ Cancelling(t)
            /\ word' = [word EXCEPT ![t] = [Unsaid EXCEPT !.what = "Cancelled"]]
       ELSE UNCHANGED <<cancelled, early, word>>
    /\ UNCHANGED <<jobs, at, files, verdict, gaps>>

OtherProgram ==
    /\ target' \in {Absent, Foreign}
    /\ UNCHANGED <<jobs, at, temp, synced, published, tokens, verdict, word, gaps>>

\* Every run is over; local files keep what was synced.
PowerFails ==
    /\ \E t \in Transfers : at[t] # "dead"
    /\ at' = [t \in Transfers |-> "dead"]
    /\ \E cut \in 0 .. Size :
          /\ temp' = [t \in Transfers |->
                IF Download /\ t \notin synced /\ temp[t] > cut THEN cut ELSE temp[t]]
          /\ target' =
                IF Download /\ target.by \in Transfers \ synced /\ target.len > cut
                THEN [target EXCEPT !.len = cut] ELSE target
    /\ UNCHANGED <<jobs, synced, published, tokens, verdict, word, gaps>>

Step(t) ==
    \/ Begin(t) \/ OpenSource(t) \/ CreateTemp(t) \/ CopyChunk(t) \/ CopyFails(t) \/ CopyCancelled(t)
    \/ Flush(t) \/ LastCheck(t) \/ LookLocally(t) \/ LookRemotely(t)
    \/ PublishFile(t) \/ PublishUnanswered(t) \/ PublishFails(t) \/ CleanUp(t) \/ Report(t)

Next ==
    \/ \E t \in Transfers : Step(t) \/ CancelTask(t) \/ CloseSession(t)
    \/ OtherProgram
    \/ PowerFails

Spec == Init /\ [][Next]_vars

-----------------------------------------------------------------------------
(* Properties.                                                             *)

\* The target as its promise sees it; a file that is not whole is neither
\* anybody's nor nobody's.
Place == IF target.len = Size THEN target.by ELSE "torn"
Fate == [t \in Transfers |->
    IF t \in published THEN "published"
    ELSE IF at[t] \in {"cleaning", "over", "ended", "dead"} THEN "given up" ELSE "open"]

Promise == INSTANCE Publish WITH place <- Place, fate <- Fate

\* The whole of a transfer (run_transfer_blocking and its two publish
\* functions) does what Publish says: no failure, race or power failure
\* leaves a torn file, and nothing is replaced that may not be.
PublishSpec == Promise!Spec

\* A task cancelled before its last check publishes nothing, and nor does one
\* that is announced as anything but Done, unless the server's answer was lost
\* or the announcement is the closing session's.
OnlyDonePublishes ==
    \A t \in published :
        /\ t \notin early
        /\ word[t].what \in {"none", "Done"} \/ t \in lost \/ t \notin known

\* A temporary file that stays behind is named in the task's terminal event,
\* unless the server created it without an answer, the session is closed, or
\* the file could not even be looked at when it was to be removed.
LeftoverTold ==
    \A t \in Transfers :
        at[t] = "ended" /\ temp[t] # NoFile =>
            word[t].detail = "leftover" \/ t \in lost \cup unseen \/ t \notin known
=============================================================================
