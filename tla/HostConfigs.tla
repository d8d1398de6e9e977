------------------------------ MODULE HostConfigs ------------------------------
(***************************************************************************)
(* Saving and deleting host configurations: HostConfigService of           *)
(* src-tauri/src/core/host_service.rs with HostStore's hosts.json, seen    *)
(* with the credential store and the trust records it keeps in step.       *)
(*                                                                         *)
(* The three stores have no common transaction.  A command takes them one  *)
(* after the other; each write may fail, and the program may end between   *)
(* any two.  Commands are synchronous and run on the main thread, one at a *)
(* time; so is the saving of a host key by the user of an open session.    *)
(*                                                                         *)
(* The editor sends the secret of the authentication type it saves with,   *)
(* and no other, so a configuration has at most one reference.  A request  *)
(* that validation refuses changes nothing and is left out.                *)
(***************************************************************************)
EXTENDS FiniteSets

CONSTANTS
    Hosts,      \* HostConfig ids
    Endpoints   \* host and port pairs

Auths == {"Password", "PrivateKey"}
Configs == [endpoint : Endpoints, auth : Auths, ref : BOOLEAN]
Absent == [endpoint |-> "none", auth |-> "none", ref |-> FALSE]
Requests == [endpoint : Endpoints, auth : Auths, secret : BOOLEAN]
NoRequest == [endpoint |-> "none", auth |-> "none", secret |-> FALSE]

VARIABLES
    configs,    \* hosts.json: each host's configuration
    readable,   \* hosts.json can be parsed
    creds,      \* the credentials stored, by host and authentication type
    trust,      \* the endpoints with a trust record
    visited,    \* the endpoints of open sessions
    step,       \* the next step of the command that runs, or "idle"
    host,       \* the host it is about
    want,       \* the request of a save
    old,        \* the configuration the command found
    wrote,      \* written_keys is not empty
    orphaned,   \* history: unreferenced credentials that could not be deleted
    leftover,   \* history: trust records without a configuration, for a reason
    undone      \* history: referenced credentials that a compensation deleted

stores == <<configs, readable, creds, trust>>
command == <<step, host, want, old, wrote>>
reasons == <<orphaned, leftover, undone>>
vars == <<stores, visited, command, reasons>>

Steps == {"secret", "commit", "stale", "undo", "remove", "password", "passphrase", "trust"}

TypeOK ==
    /\ configs \in [Hosts -> Configs \cup {Absent}]
    /\ readable \in BOOLEAN
    /\ creds \subseteq Hosts \X Auths
    /\ trust \subseteq Endpoints
    /\ visited \subseteq Endpoints
    /\ \/ step = "idle" /\ host = "nobody" /\ want = NoRequest /\ old = Absent /\ wrote = FALSE
       \/ /\ step \in Steps /\ host \in Hosts
          /\ want \in Requests \cup {NoRequest}
          /\ step \in {"secret", "commit", "stale", "undo"} => want \in Requests
          /\ old \in Configs \cup {Absent}
          /\ wrote \in BOOLEAN
    /\ orphaned \subseteq Hosts \X Auths
    /\ leftover \subseteq Endpoints
    /\ undone \subseteq Hosts \X Auths

Init ==
    /\ configs = [h \in Hosts |-> Absent] /\ readable = TRUE
    /\ creds = {} /\ trust = {} /\ visited = {}
    /\ step = "idle" /\ host = "nobody" /\ want = NoRequest /\ old = Absent /\ wrote = FALSE
    /\ orphaned = {} /\ leftover = {} /\ undone = {}

\* The command ends.
Idle == step' = "idle" /\ host' = "nobody" /\ want' = NoRequest /\ old' = Absent /\ wrote' = FALSE

\* The credentials, and the endpoints, that the configurations cs refer to.
Refs(cs) == {k \in Hosts \X Auths : cs[k[1]] # Absent /\ cs[k[1]].auth = k[2] /\ cs[k[1]].ref}
Used(cs) == {cs[h].endpoint : h \in {g \in Hosts : cs[g] # Absent}}

-----------------------------------------------------------------------------
(* save.                                                                   *)

\* The list is loaded; a file that does not parse ends the command.
SaveBegin(h, r) ==
    /\ step = "idle" /\ readable
    /\ step' = "secret" /\ host' = h /\ want' = r /\ old' = configs[h]
    /\ UNCHANGED <<stores, visited, wrote, reasons>>

Switched == old # Absent /\ old.auth # want.auth

\* resolve_credential_ref: a secret that was given is written, and remembered
\* for the compensation.
SetSecret ==
    /\ step = "secret"
    /\ \/ /\ ~want.secret /\ step' = "commit"
          /\ UNCHANGED <<creds, wrote, orphaned, undone>>
       \/ /\ want.secret /\ step' = "commit" /\ wrote' = TRUE
          /\ creds' = creds \cup {<<host, want.auth>>}
          /\ orphaned' = orphaned \ {<<host, want.auth>>}
          /\ undone' = undone \ {<<host, want.auth>>}
       \/ /\ want.secret /\ step' = "undo"
          /\ UNCHANGED <<creds, wrote, orphaned, undone>>
    /\ UNCHANGED <<configs, readable, trust, visited, host, want, old, leftover>>

NewKeepingRef ==                                                     \* variant
    [endpoint |-> want.endpoint, auth |-> want.auth,
     ref |-> want.secret \/ (old # Absent /\ old.ref)]

\* A blank secret keeps the reference, unless the type was switched.
New ==
    [endpoint |-> want.endpoint, auth |-> want.auth,
     ref |-> want.secret \/ (old # Absent /\ ~Switched /\ old.ref)]

\* HostStore::save, the commit point.
Write(cs) ==
    /\ configs' = cs
    /\ orphaned' = orphaned \ Refs(cs) /\ leftover' = leftover \ Used(cs)
    /\ undone' = undone \cap Refs(cs)
    /\ UNCHANGED readable

\* fs::write truncates the file before it writes: a failure leaves the file as
\* it was, or unreadable.
WriteFails ==
    /\ readable' \in BOOLEAN
    /\ UNCHANGED <<configs, reasons>>

Commit ==
    /\ step = "commit"
    /\ \/ Write([configs EXCEPT ![host] = New]) /\ step' = "stale"
       \/ WriteFails /\ step' = "undo"
    /\ UNCHANGED <<creds, trust, visited, host, want, old, wrote>>

\* A credential is deleted; a failure is ignored.
DeleteCred(k, then) ==
    /\ \/ creds' = creds \ {k} /\ orphaned' = orphaned \ {k}
       \/ k \in creds /\ orphaned' = orphaned \cup ({k} \ Refs(configs)) /\ UNCHANGED creds
    /\ step' = then
    /\ UNCHANGED <<configs, readable, trust, visited, host, want, old, wrote, leftover, undone>>

\* The credential of a type that was switched from is of no more use.
DeleteStale ==
    /\ step = "stale"
    /\ \/ Switched /\ DeleteCred(<<host, old.auth>>, "trust")
       \/ /\ ~Switched /\ step' = "trust"
          /\ UNCHANGED <<stores, visited, host, want, old, wrote, reasons>>

UndoNothing ==                                                       \* variant
    /\ step = "undo"
    /\ Idle
    /\ UNCHANGED <<stores, visited, reasons>>

\* The compensation of a failed save: the credential it wrote is deleted.
Undo ==
    /\ step = "undo"
    /\ LET k == <<host, want.auth>>
       IN  \/ /\ wrote
              /\ creds' = creds \ {k} /\ orphaned' = orphaned \ {k}
              /\ undone' = undone \cup ({k} \cap Refs(configs))
           \/ /\ wrote
              /\ orphaned' = orphaned \cup ({k} \ Refs(configs)) /\ UNCHANGED <<creds, undone>>
           \/ ~wrote /\ UNCHANGED <<creds, orphaned, undone>>
    /\ Idle
    /\ UNCHANGED <<configs, readable, trust, visited, leftover>>

-----------------------------------------------------------------------------
(* delete.                                                                 *)

\* The list is loaded; the host need not be in it.
DeleteBegin(h) ==
    /\ step = "idle" /\ readable
    /\ step' = "remove" /\ host' = h /\ old' = configs[h]
    /\ UNCHANGED <<stores, visited, want, wrote, reasons>>

\* When the file cannot be written the command ends.
Remove ==
    /\ step = "remove"
    /\ \/ /\ Write([configs EXCEPT ![host] = Absent])
          /\ step' = "password" /\ UNCHANGED <<host, want, old, wrote>>
       \/ WriteFails /\ Idle
    /\ UNCHANGED <<creds, trust, visited>>

DeleteSecrets ==
    \/ step = "password" /\ DeleteCred(<<host, "Password">>, "passphrase")
    \/ step = "passphrase" /\ DeleteCred(<<host, "PrivateKey">>, "trust")

-----------------------------------------------------------------------------
(* cleanup_unreferenced_endpoint, the end of both.                         *)

MovedByEditing ==                                                    \* variant
    old # Absent /\ configs[host] # Absent /\ configs[host].endpoint # old.endpoint

\* The endpoint the command took the host away from.
Moved == old # Absent /\ (configs[host] = Absent \/ configs[host].endpoint # old.endpoint)

\* The record of the old endpoint goes when no configuration refers to it; a
\* failure is reported, and the command ends.
CleanTrust ==
    /\ step = "trust"
    /\ LET e == old.endpoint
           unused == Moved /\ e \notin Used(configs)
       IN  \/ unused /\ trust' = trust \ {e} /\ leftover' = leftover \ {e}
           \/ unused /\ leftover' = leftover \cup {e} /\ UNCHANGED trust
           \/ ~unused /\ UNCHANGED <<trust, leftover>>
    /\ Idle
    /\ UNCHANGED <<configs, readable, creds, visited, orphaned, undone>>

-----------------------------------------------------------------------------
(* The rest of the program.                                                *)

\* open_session reads the configuration once.
OpenSession(h) ==
    /\ step = "idle" /\ readable /\ configs[h] # Absent
    /\ visited' = visited \cup {configs[h].endpoint}
    /\ UNCHANGED <<stores, command, reasons>>

\* The last session of an endpoint is closed.
CloseSessions(e) ==
    /\ step = "idle"
    /\ visited' = visited \ {e}
    /\ UNCHANGED <<stores, command, reasons>>

\* accept_and_save in a session, whose configuration may have been edited or
\* deleted since it was opened.
SaveKey(e) ==
    /\ step = "idle" /\ e \in visited
    /\ trust' = trust \cup {e}
    /\ leftover' = leftover \cup ({e} \ Used(configs))
    /\ UNCHANGED <<configs, readable, creds, visited, command, orphaned, undone>>

\* The program ends, or is killed, in the middle of a command.  A write of the
\* file may have got as far as truncating it.  What the command had still to
\* delete stays.
Crash ==
    /\ step # "idle"
    /\ \/ step \in {"commit", "remove"} /\ readable' = FALSE
       \/ UNCHANGED readable
    /\ visited' = {}
    /\ Idle
    /\ orphaned' = orphaned \cup (creds \ Refs(configs))
    /\ leftover' = leftover \cup (trust \ Used(configs))
    /\ UNCHANGED <<configs, creds, trust, undone>>

-----------------------------------------------------------------------------
Save ==
    \/ \E h \in Hosts : \E r \in Requests : SaveBegin(h, r)
    \/ SetSecret \/ Commit \/ DeleteStale \/ Undo

Delete == (\E h \in Hosts : DeleteBegin(h)) \/ Remove \/ DeleteSecrets

Next ==
    \/ Save \/ Delete \/ CleanTrust \/ Crash
    \/ \E h \in Hosts : OpenSession(h)
    \/ \E e \in Endpoints : CloseSessions(e) \/ SaveKey(e)

Spec == Init /\ [][Next]_vars

-----------------------------------------------------------------------------
(* Safety.                                                                 *)

\* Between commands every credential is one that a configuration refers to, or
\* one whose deletion failed or was cut off: no sequence of saves, switches of
\* the type, failures and deletions forgets one.
OrphansAccounted == step = "idle" => creds \ Refs(configs) \subseteq orphaned

\* At every moment, inside a command too, a reference of hosts.json whose
\* credential is missing is one that a failed save had written anew and its
\* compensation deleted, and no save has written or dropped it since: no commit
\* refers to a credential that was not written, and no deletion, of a switch or
\* of a host, takes one that the file still refers to, wherever a command that
\* failed or was cut off has left the stores.
DanglingAccounted == Refs(configs) \ creds \subseteq undone

\* Between commands every trust record is of an endpoint in use, or there is a
\* reason: its removal failed or was cut off, or it was saved in a session
\* that outlived its configuration.
TrustAccounted == step = "idle" => trust \ Used(configs) \subseteq leftover
=============================================================================
