-------------------------------- MODULE Connect --------------------------------
(***************************************************************************)
(* connect_session of src-tauri/src/core/ssh_transport.rs with the two     *)
(* stores it depends on: the credential is read before the connection is   *)
(* made, the host key is verified against the trust store after the        *)
(* handshake, and only then is the credential sent.                        *)
(*                                                                         *)
(* Every attempt is the first of a Runtime Session, so what a session has  *)
(* accepted before does not matter here; that, and what several attempts   *)
(* of one session do together, is in HostIdentity, which takes the trust   *)
(* store for a single variable.  The end of an attempt makes it a new one. *)
(***************************************************************************)
CONSTANTS
    Attempts,
    Endpoints, EndpointOf,      \* [host, port] of each attempt
    Keys, NoKey,
    Credentials, CredentialOf,  \* the reference in its HostConfig
    NoCredential,               \* a private key without a passphrase
    Secrets, NoSecret

ASSUME ConnectAssumption ==
    /\ EndpointOf \in [Attempts -> Endpoints]
    /\ CredentialOf \in [Attempts -> Credentials \cup {NoCredential}]
    /\ NoKey \notin Keys
    /\ NoCredential \notin Credentials
    /\ NoSecret \notin Secrets

VARIABLES
    file, loaded, records, saved,                       \* of TrustStore
    up, primary, fallback, want, settled, gone,         \* of SecureStore
    stage,      \* where each attempt is
    key         \* the key it was presented with

T == INSTANCE TrustStore
C == INSTANCE SecureStore

\* The spelling of every endpoint survives the file: MCTrustStore has one whose
\* spelling does not.
ASSUME SpellingAssumption ==
    \A e \in Endpoints :
        /\ T!ParseHostPattern(T!FormatHostPattern(e.host, e.port)) = {e}
        /\ e = [host |-> e.host, port |-> e.port]

tvars == <<file, loaded, records, saved>>
cvars == <<up, primary, fallback, want, settled, gone>>
avars == <<stage, key>>
vars == <<tvars, cvars, avars>>

\* "Unknown" and "Changed" are the kinds of challenge that are put to the user.
Asked == {"Unknown", "Changed"}
Stages == {"new", "loaded", "presented", "trusted"} \cup Asked

TypeOK ==
    /\ loaded \in BOOLEAN /\ up \in BOOLEAN
    /\ saved \in [Endpoints -> Keys \cup {NoKey}]
    /\ stage \in [Attempts -> Stages]
    /\ key \in [Attempts -> Keys \cup {NoKey}]
    /\ \A a \in Attempts : stage[a] \notin {"new", "loaded"} => key[a] \in Keys

Init ==
    /\ T!Init /\ C!Init
    /\ stage = [a \in Attempts |-> "new"] /\ key = [a \in Attempts |-> NoKey]

Pair(a) == <<EndpointOf[a], key[a]>>

Go(a, s) == stage' = [stage EXCEPT ![a] = s] /\ UNCHANGED key
Over(a) == stage' = [stage EXCEPT ![a] = "new"] /\ key' = [key EXCEPT ![a] = NoKey]

-----------------------------------------------------------------------------
(* An attempt.                                                             *)

\* The credential is looked up by its reference.
LoadCredentials(a) ==
    /\ stage[a] = "new"
    /\ CredentialOf[a] # NoCredential => C!Reading(CredentialOf[a]) # NoSecret
    /\ Go(a, "loaded")
    /\ UNCHANGED <<tvars, cvars>>

\* The server is reached, and presents a key.
Handshake(a, k) ==
    /\ stage[a] = "loaded"
    /\ stage' = [stage EXCEPT ![a] = "presented"] /\ key' = [key EXCEPT ![a] = k]
    /\ UNCHANGED <<tvars, cvars>>

\* verify: the record of the endpoint matches the key, or the user is asked.
Verify(a) ==
    /\ stage[a] = "presented"
    /\ \E k \in Keys \cup {NoKey} :
          /\ T!LookUp(EndpointOf[a], k)
          /\ Go(a, IF k = key[a] THEN "trusted" ELSE IF k = NoKey THEN "Unknown" ELSE "Changed")
    /\ UNCHANGED cvars

\* The trust store cannot be read: the attempt fails, and nobody is asked.
VerifyFails(a) ==
    /\ stage[a] = "presented" /\ T!LoadFails
    /\ Over(a)
    /\ UNCHANGED cvars

\* For this session only.
Accept(a) ==
    /\ stage[a] \in Asked
    /\ Go(a, "trusted")
    /\ UNCHANGED <<tvars, cvars>>

\* The other attempts that are asked about the same key are let through too.
AcceptAndSave(a) ==
    /\ stage[a] \in Asked
    /\ T!Upsert(EndpointOf[a], key[a])
    /\ stage' = [b \in Attempts |->
                    IF stage[b] \in Asked /\ Pair(b) = Pair(a) THEN "trusted" ELSE stage[b]]
    /\ UNCHANGED <<cvars, key>>

\* The question stays open.
SaveFails(a) ==
    /\ stage[a] \in Asked
    /\ T!WriteFails(EndpointOf[a], key[a])
    /\ UNCHANGED <<cvars, avars>>

\* The credential is sent, if there is one; whether the server takes it does
\* not matter here.
Authenticate(a) ==
    /\ stage[a] = "trusted"
    /\ Over(a)
    /\ UNCHANGED <<tvars, cvars>>

\* No credential, no connection, no handshake, a rejection.
Fails(a) ==
    /\ stage[a] \in {"new", "loaded"} \cup Asked
    /\ Over(a)
    /\ UNCHANGED <<tvars, cvars>>

-----------------------------------------------------------------------------
(* The editor, the list of trusted hosts, and the machine.                 *)

Credential ==
    /\ \/ \E c \in Credentials :
             C!Delete(c) \/ C!DeleteFails(c) \/ \E s \in Secrets : C!Set(c, s)
       \/ C!DaemonChanges
    /\ UNCHANGED <<tvars, avars>>

\* A record is removed, by the user or with its HostConfig.
Forget(e) ==
    /\ T!Remove(e) \/ T!RemoveFails(e)
    /\ UNCHANGED <<cvars, avars>>

\* Somebody else spoils known_hosts, or mends it.
Outside ==
    /\ T!Spoil \/ T!Mend
    /\ UNCHANGED <<cvars, avars>>

Stopped ==
    /\ T!Restart
    /\ stage' = [a \in Attempts |-> "new"] /\ key' = [a \in Attempts |-> NoKey]

\* The program ends at any point and is started again, or the machine is.
Restart == Stopped /\ UNCHANGED cvars
Reboot == Stopped /\ C!Reboot

-----------------------------------------------------------------------------
Attempt(a) ==
    \/ LoadCredentials(a) \/ (\E k \in Keys : Handshake(a, k)) \/ Verify(a) \/ VerifyFails(a)
    \/ Accept(a) \/ AcceptAndSave(a) \/ SaveFails(a) \/ Authenticate(a) \/ Fails(a)

Next ==
    \/ \E a \in Attempts : Attempt(a)
    \/ Credential
    \/ \E e \in Endpoints : Forget(e)
    \/ Outside \/ Restart \/ Reboot

Spec == Init /\ [][Next]_vars

-----------------------------------------------------------------------------
\* What verify makes of a key agrees with what the user has done, through
\* failed saves, restarts and an unreadable store: a key passes unasked only if
\* it is the one last saved for the endpoint, and not removed since; a host is
\* told unknown only if there is none, and changed only if there is another.
VerdictIsOfSaved ==
    [][\A a \in Attempts : stage[a] = "presented" =>
          LET last == saved[EndpointOf[a]]
          IN  /\ stage'[a] = "trusted" => last = key[a]
              /\ stage'[a] = "Unknown" => last = NoKey
              /\ stage'[a] = "Changed" => last \notin {NoKey, key[a]}]_vars

\* A credential may be in either store, and an older one in the other.  As long
\* as the daemon has neither come nor gone since the last call that succeeded,
\* what it stored is what is read, whatever the other store had from before; and
\* a credential deleted while the daemon ran stays deleted (secure_store.rs:10).
SettledReadsBack == C!SettledReadsBack
=============================================================================
