------------------------------ MODULE SecureStore ------------------------------
(***************************************************************************)
(* The credentials of src-tauri/src/storage/secure_store.rs on Linux: the  *)
(* Secret Service, and the kernel's keyring where that does not answer.    *)
(* The program keeps nothing of its own: every call goes to the two stores *)
(* and ends before the next one.  On the other systems there is only the   *)
(* first store, which is this module with up for ever TRUE.                *)
(***************************************************************************)
CONSTANTS
    Credentials,    \* keys, titanssh-<id>-password and titanssh-<id>-passphrase
    Secrets,
    NoSecret        \* NoEntry

VARIABLES
    up,         \* the Secret Service answers
    primary,    \* what it holds of each credential
    fallback,   \* what the kernel's keyring holds
    want,       \* history: what the program has last stored, NoSecret if deleted
    settled,    \* history: the credentials that must read as want, see below
    gone        \* history: those of them deleted from both stores

cvars == <<up, primary, fallback, want, settled, gone>>
Nothing == [c \in Credentials |-> NoSecret]

Init ==
    /\ up \in BOOLEAN
    /\ primary = Nothing /\ fallback = Nothing /\ want = Nothing
    /\ settled = Credentials /\ gone = Credentials

\* get_credential, NoSecret for CredentialNotFound.
Reading(c) == IF up /\ primary[c] # NoSecret THEN primary[c] ELSE fallback[c]

\* set_credential.  An error of another kind than unavailability leaves both
\* stores alone, and the caller is told.
Set(c, s) ==
    /\ IF up THEN primary' = [primary EXCEPT ![c] = s] /\ UNCHANGED fallback
             ELSE fallback' = [fallback EXCEPT ![c] = s] /\ UNCHANGED primary
    /\ want' = [want EXCEPT ![c] = s]
    /\ settled' = settled \cup {c} /\ gone' = gone \ {c}
    /\ UNCHANGED up

CleanedFallbackNot(c) == IF up THEN fallback ELSE [fallback EXCEPT ![c] = NoSecret]  \* variant

\* What attempt_delete leaves in the two stores when neither reports an error.
CleanedPrimary(c) == IF up THEN [primary EXCEPT ![c] = NoSecret] ELSE primary
CleanedFallback(c) == [fallback EXCEPT ![c] = NoSecret]

\* delete_credential.
Delete(c) ==
    /\ primary' = CleanedPrimary(c) /\ fallback' = CleanedFallback(c)
    /\ want' = [want EXCEPT ![c] = NoSecret]
    /\ settled' = settled \cup {c}
    /\ gone' = IF up THEN gone \cup {c} ELSE gone
    /\ UNCHANGED up

\* One of the stores reports an error, or both; the other is cleaned all the
\* same, and the caller is told of the failure.
DeleteFails(c) ==
    /\ \/ up /\ UNCHANGED primary /\ fallback' \in {fallback, CleanedFallback(c)}
       \/ primary' = CleanedPrimary(c) /\ UNCHANGED fallback
    /\ settled' = settled \ {c} /\ gone' = gone \ {c}
    /\ UNCHANGED <<up, want>>

\* The daemon starts or stops.
DaemonChanges ==
    /\ up' = ~up
    /\ settled' = gone
    /\ UNCHANGED <<primary, fallback, want, gone>>

\* The kernel's keyring does not survive a reboot.
Reboot ==
    /\ fallback' = Nothing
    /\ settled' = IF up THEN settled ELSE gone \cup {c \in settled : want[c] = NoSecret}
    /\ UNCHANGED <<up, primary, want, gone>>

-----------------------------------------------------------------------------
\* A credential may be in either store, and an older one in the other
\* (secure_store.rs:10-12).  As long as the daemon has neither come nor gone
\* since the last call that succeeded, what that call stored is what is read,
\* whatever was left in the other store before; a credential deleted while the
\* daemon ran does not come back when it stops, starts, or the machine does.
SettledReadsBack == \A c \in settled : Reading(c) = want[c]
=============================================================================
