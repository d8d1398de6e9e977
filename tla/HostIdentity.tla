----------------------------- MODULE HostIdentity -----------------------------
(***************************************************************************)
(* The confirmation of host keys: HostIdentityService of                   *)
(* src-tauri/src/core/host_identity.rs with its trust store.               *)
(*                                                                         *)
(* Threads.  Every connection attempt of every capability (terminal, SFTP, *)
(* monitoring) runs verify on a thread of its own, between handshake and   *)
(* authentication.  The user's decisions, the closing of a session and the *)
(* cleaning up of records are synchronous commands: they run on the main   *)
(* thread, one after the other.  The state lock and the trust store's lock *)
(* are held for one step each, except in accept_and_save, which holds the  *)
(* first across the second.  Decisions are delivered outside both.         *)
(*                                                                         *)
(* A key stands for an algorithm and a public key blob together; its       *)
(* fingerprint is taken to determine it.  A session connects to the one    *)
(* endpoint of the HostConfig it was opened with.  A challenge is known by *)
(* the attempt that created it.                                            *)
(***************************************************************************)
EXTENDS FiniteSets

CONSTANTS
    Sessions,       \* Runtime Sessions
    Endpoints,      \* host and port pairs
    EndpointOf,     \* the endpoint of each session
    Attempts,       \* connection attempts
    SessionOf,      \* the session each is made for
    Keys,           \* the keys a server may present
    NoKey           \* what the trust store has of an endpoint without a record

ASSUME IdentityAssumption ==
    /\ EndpointOf \in [Sessions -> Endpoints]
    /\ SessionOf \in [Attempts -> Sessions]
    /\ NoKey \notin Keys
    /\ "nobody" \notin Attempts

VARIABLES
    store,      \* the TrustStore: the key recorded for each endpoint
    trusted,    \* IdentityState.trusted, by session
    pending,    \* IdentityState.pending and pending_index
    cancelled,  \* IdentityState.cancelled
    at,         \* where each attempt is in verify
    presented,  \* the key it was presented with
    snapshot,   \* stored_record: the record it found
    waitsOn,    \* the challenge it waits for
    supersedes, \* the challenges it has still to cancel
    decision,   \* ChallengeWait.decision of each challenge
    owed,       \* the decisions the main thread has still to deliver
    closeNext,  \* the session a rejection has still to close, if any
    exiting,    \* the application is in its exit handler
    quitting,   \* the challenges cancel_all has still to cancel
    vouched     \* history: what the user has stood for, <<session, key>> pairs

attempt == <<at, presented, snapshot, waitsOn, supersedes>>
state == <<trusted, pending, cancelled>>
main == <<owed, closeNext, exiting, quitting>>
vars == <<store, state, attempt, decision, main, vouched>>

Decisions == {"Accepted", "Rejected", "Cancelled"}
None == "none"
Nobody == "nobody"
Over == {"ok", "refused"}

End(a) == EndpointOf[SessionOf[a]]

TypeOK ==
    /\ store \in [Endpoints -> Keys \cup {NoKey}]
    /\ trusted \in [Sessions -> SUBSET Keys]
    /\ pending \subseteq Attempts
    /\ cancelled \subseteq Sessions
    /\ at \in [Attempts -> {"new", "lookup", "matched", "compared", "superseding", "waiting"} \cup Over]
    /\ presented \in [Attempts -> Keys \cup {NoKey}]
    /\ snapshot \in [Attempts -> Keys \cup {NoKey}]
    /\ waitsOn \in [Attempts -> Attempts \cup {Nobody}]
    /\ supersedes \in [Attempts -> SUBSET Attempts]
    /\ decision \in [Attempts -> Decisions \cup {None}]
    /\ owed \in [Attempts -> Decisions \cup {None}]
    /\ closeNext \subseteq Sessions
    /\ exiting \in BOOLEAN
    /\ quitting \subseteq Attempts
    /\ vouched \subseteq Sessions \X Keys

\* The store as an earlier run of the program left it: the user stands for it.
Init ==
    /\ store \in [Endpoints -> Keys \cup {NoKey}]
    /\ trusted = [s \in Sessions |-> {}]
    /\ pending = {} /\ cancelled = {}
    /\ at = [a \in Attempts |-> "new"]
    /\ presented = [a \in Attempts |-> NoKey]
    /\ snapshot = [a \in Attempts |-> NoKey]
    /\ waitsOn = [a \in Attempts |-> Nobody]
    /\ supersedes = [a \in Attempts |-> {}]
    /\ decision = [a \in Attempts |-> None]
    /\ owed = [a \in Attempts |-> None]
    /\ closeNext = {} /\ exiting = FALSE /\ quitting = {}
    /\ vouched = {p \in Sessions \X Keys : store[EndpointOf[p[1]]] = p[2]}

-----------------------------------------------------------------------------
(* verify.                                                                 *)

Go(a, stage) == at' = [at EXCEPT ![a] = stage]

Trust(s, k) == trusted' = [trusted EXCEPT ![s] = @ \cup {k}]

\* The server presents key k.  A closed session's attempt fails at once, a key
\* trusted in the session passes.
Present(a, k) ==
    /\ at[a] = "new"
    /\ presented' = [presented EXCEPT ![a] = k]
    /\ Go(a, CASE SessionOf[a] \in cancelled -> "refused"
               [] SessionOf[a] \notin cancelled /\ k \in trusted[SessionOf[a]] -> "ok"
               [] OTHER -> "lookup")
    /\ UNCHANGED <<store, state, snapshot, waitsOn, supersedes, decision, main, vouched>>

\* The store is read, with no other lock held; if it cannot be, the attempt
\* fails.
LookUp(a) ==
    /\ at[a] = "lookup"
    /\ \/ /\ snapshot' = [snapshot EXCEPT ![a] = store[End(a)]]
          /\ Go(a, IF store[End(a)] = presented[a] THEN "matched" ELSE "compared")
       \/ Go(a, "refused") /\ UNCHANGED snapshot
    /\ UNCHANGED <<store, state, presented, waitsOn, supersedes, decision, main, vouched>>

\* The record matched: the session remembers it, unless it was closed meanwhile.
Confirm(a) ==
    /\ at[a] = "matched"
    /\ IF SessionOf[a] \in cancelled
       THEN Go(a, "refused") /\ UNCHANGED trusted
       ELSE Trust(SessionOf[a], presented[a]) /\ Go(a, "ok")
    /\ UNCHANGED <<store, pending, cancelled, presented, snapshot, waitsOn, supersedes, decision,
                   main, vouched>>

\* The pending challenges of a's session, for the key it was presented with
\* and for another.
Same(a) == {c \in pending : SessionOf[c] = SessionOf[a] /\ presented[c] = presented[a]}
Others(a) == {c \in pending : SessionOf[c] = SessionOf[a] /\ presented[c] # presented[a]}

\* The record did not match: session and trust are looked at again, then the
\* attempt joins the challenge for its key or creates one in the place of any
\* for another key.
ComparedRefused(a) ==
    /\ at[a] = "compared"
    /\ \/ SessionOf[a] \in cancelled /\ Go(a, "refused")
       \/ SessionOf[a] \notin cancelled /\ presented[a] \in trusted[SessionOf[a]] /\ Go(a, "ok")
    /\ UNCHANGED <<store, state, presented, snapshot, waitsOn, supersedes, decision, main, vouched>>

Unconfirmed(a) ==
    /\ at[a] = "compared"
    /\ SessionOf[a] \notin cancelled
    /\ presented[a] \notin trusted[SessionOf[a]]

\* A question about the same key in the same session is shared.
Join(a) ==
    /\ Unconfirmed(a)
    /\ \E c \in Same(a) : waitsOn' = [waitsOn EXCEPT ![a] = c]
    /\ Go(a, "waiting")
    /\ UNCHANGED <<store, state, presented, snapshot, supersedes, decision, main, vouched>>

ChallengeDropping(a) ==                                              \* variant
    /\ Unconfirmed(a) /\ Same(a) = {}
    /\ pending' = (pending \ Others(a)) \cup {a}
    /\ waitsOn' = [waitsOn EXCEPT ![a] = a]
    /\ Go(a, "superseding")
    /\ UNCHANGED <<store, trusted, cancelled, presented, snapshot, supersedes, decision, main, vouched>>

Challenge(a) ==
    /\ Unconfirmed(a) /\ Same(a) = {}
    /\ pending' = (pending \ Others(a)) \cup {a}
    /\ supersedes' = [supersedes EXCEPT ![a] = Others(a)]
    /\ waitsOn' = [waitsOn EXCEPT ![a] = a]
    /\ Go(a, "superseding")
    /\ UNCHANGED <<store, trusted, cancelled, presented, snapshot, decision, main, vouched>>

\* decide, for a challenge that has been superseded.
CancelSuperseded(a) ==
    /\ at[a] = "superseding"
    /\ \E c \in supersedes[a] :
          /\ decision' = [decision EXCEPT ![c] = "Cancelled"]
          /\ supersedes' = [supersedes EXCEPT ![a] = @ \ {c}]
    /\ UNCHANGED <<store, state, at, presented, snapshot, waitsOn, main, vouched>>

\* The event goes out and the attempt waits with those that join it.
Ask(a) ==
    /\ at[a] = "superseding" /\ supersedes[a] = {}
    /\ Go(a, "waiting")
    /\ UNCHANGED <<store, state, presented, snapshot, waitsOn, supersedes, decision, main, vouched>>

\* The challenges the front end knows of.
Asked == {c \in Attempts : at[c] \in {"waiting"} \cup Over /\ waitsOn[c] = c}

WakeAnyhow(a) ==                                                     \* variant
    /\ at[a] = "waiting"
    /\ decision[waitsOn[a]] # None
    /\ Go(a, IF decision[waitsOn[a]] # "Rejected" THEN "ok" ELSE "refused")
    /\ UNCHANGED <<store, state, presented, snapshot, waitsOn, supersedes, decision, main, vouched>>

\* wait_for_decision.
Wake(a) ==
    /\ at[a] = "waiting"
    /\ decision[waitsOn[a]] # None
    /\ Go(a, IF decision[waitsOn[a]] = "Accepted" THEN "ok" ELSE "refused")
    /\ UNCHANGED <<store, state, presented, snapshot, waitsOn, supersedes, decision, main, vouched>>

Verify(a) ==
    \/ \E k \in Keys : Present(a, k)
    \/ LookUp(a) \/ Confirm(a) \/ ComparedRefused(a) \/ Join(a) \/ Challenge(a)
    \/ CancelSuperseded(a) \/ Ask(a) \/ Wake(a)

-----------------------------------------------------------------------------
(* The main thread.                                                        *)

Delivered == \A c \in Attempts : owed[c] = None

MainIdle == Delivered /\ closeNext = {} /\ ~exiting

\* The challenges in C are removed; decision d is to be delivered to each.
Decide(C, d) ==
    /\ pending' = pending \ C
    /\ owed' = [c \in Attempts |-> IF c \in C THEN d ELSE owed[c]]

\* decide, outside the lock.
Deliver ==
    /\ \E c \in Attempts :
          /\ owed[c] # None
          /\ decision' = [decision EXCEPT ![c] = owed[c]]
          /\ owed' = [owed EXCEPT ![c] = None]
    /\ UNCHANGED <<store, state, attempt, closeNext, exiting, quitting, vouched>>

\* accept: for this session only.
Accept(c) ==
    /\ MainIdle /\ c \in Asked /\ c \in pending
    /\ Decide({c}, "Accepted")
    /\ Trust(SessionOf[c], presented[c])
    /\ vouched' = vouched \cup {<<SessionOf[c], presented[c]>>}
    /\ UNCHANGED <<store, cancelled, attempt, decision, closeNext, exiting, quitting>>

\* Every pending challenge for the endpoint and the key of c, c included.
Alike(c) == {d \in pending : End(d) = End(c) /\ presented[d] = presented[c]}

\* accept_and_save.  If the record cannot be written nothing changes.
AcceptAndSave(c) ==
    /\ MainIdle /\ c \in Asked /\ c \in pending
    /\ store' = [store EXCEPT ![End(c)] = presented[c]]
    /\ Decide(Alike(c), "Accepted")
    /\ Trust(SessionOf[c], presented[c])
    /\ vouched' = vouched \cup {<<s, presented[c]>> : s \in {r \in Sessions : EndpointOf[r] = End(c)}}
    /\ UNCHANGED <<cancelled, attempt, decision, closeNext, exiting, quitting>>

\* reject_host_identity: the waiters are refused, then the session is closed.
Reject(c) ==
    /\ MainIdle /\ c \in Asked /\ c \in pending
    /\ Decide({c}, "Rejected")
    /\ closeNext' = {SessionOf[c]}
    /\ UNCHANGED <<store, trusted, cancelled, attempt, decision, exiting, quitting, vouched>>

CancelSessionForgetful(s) ==                                         \* variant
    /\ trusted' = [trusted EXCEPT ![s] = {}]
    /\ cancelled' = cancelled \cup {s}
    /\ pending' = pending \ {c \in pending : SessionOf[c] = s}
    /\ UNCHANGED owed

\* cancel_session.
CancelSession(s) ==
    /\ trusted' = [trusted EXCEPT ![s] = {}]
    /\ cancelled' = cancelled \cup {s}
    /\ Decide({c \in pending : SessionOf[c] = s}, "Cancelled")

\* close_session, of a tab or after a rejection: a second one finds the session
\* gone.  (One that follows a rejection never does, as a closed session has no
\* challenge to reject.)
CloseSession(s) ==
    /\ s \notin cancelled
    /\ \/ MainIdle
       \/ Delivered /\ s \in closeNext
    /\ CancelSession(s)
    /\ closeNext' = {}
    /\ UNCHANGED <<store, attempt, decision, exiting, quitting, vouched>>

\* forget_endpoint.
ForgetEndpoint(e) ==
    /\ MainIdle
    /\ store' = [store EXCEPT ![e] = NoKey]
    /\ UNCHANGED <<state, attempt, decision, main, vouched>>

\* cancel_all, as the application exits: the keys first, then one by one.
CancelAll ==
    /\ MainIdle
    /\ exiting' = TRUE
    /\ quitting' = pending
    /\ UNCHANGED <<store, state, attempt, decision, owed, closeNext, vouched>>

CancelById ==
    /\ exiting /\ Delivered
    /\ \E c \in quitting :
          /\ quitting' = quitting \ {c}
          /\ Decide({c} \cap pending, "Cancelled")
    /\ UNCHANGED <<store, trusted, cancelled, attempt, decision, closeNext, exiting, vouched>>

Command ==
    \/ \E c \in Attempts : Accept(c) \/ AcceptAndSave(c) \/ Reject(c)
    \/ \E s \in Sessions : CloseSession(s)
    \/ \E e \in Endpoints : ForgetEndpoint(e)
    \/ CancelAll

Next ==
    \/ \E a \in Attempts : Verify(a)
    \/ Command \/ Deliver \/ CancelById

Spec == Init /\ [][Next]_vars

\* Threads run, and a command once begun is finished.  The server is not
\* obliged to present a key, nor the user to decide.
Fairness ==
    /\ \A a \in Attempts : WF_vars(Verify(a) /\ at[a] # "new")
    /\ WF_vars(Deliver) /\ WF_vars(CancelById)
    /\ \A s \in Sessions : WF_vars(s \in closeNext /\ CloseSession(s))

FairSpec == Spec /\ Fairness

-----------------------------------------------------------------------------
(* Safety.                                                                 *)

\* No connection goes on to authenticate on a key its user does not stand for:
\* accepted for this session, or once saved for this endpoint.  Whatever races
\* with the decision, a changed key does not slip in on an older one.
OnlyVouchedKeys ==
    \A a \in Attempts : at[a] = "ok" => <<SessionOf[a], presented[a]>> \in vouched

\* What a session trusts, or the store records, the user stands for.
TrustIsVouched ==
    /\ \A s \in Sessions : \A k \in trusted[s] : <<s, k>> \in vouched
    /\ \A s \in Sessions : store[EndpointOf[s]] # NoKey => <<s, store[EndpointOf[s]]>> \in vouched

\* Whoever waits, waits for a challenge that is still open to a decision, has
\* been decided, or is about to be told: nobody is left behind when challenges
\* are superseded, merged, released by another session or cancelled.
NobodyLeftBehind ==
    \A a \in Attempts : at[a] \in {"superseding", "waiting"} =>
        LET c == waitsOn[a]
        IN  \/ c \in pending
            \/ decision[c] # None
            \/ owed[c] # None
            \/ \E b \in Attempts : at[b] = "superseding" /\ c \in supersedes[b]

\* A closed session trusts nothing, and asks nothing.
ClosedIsForgotten ==
    \A s \in cancelled : trusted[s] = {} /\ \A c \in pending : SessionOf[c] # s

\* The user is never asked about two keys of a session at a time, nor twice
\* about one.
OneQuestion == \A c, d \in pending : SessionOf[c] = SessionOf[d] => c = d

\* Attempts share the fate of a challenge only if they were shown its key, in
\* its session.
JoinedAreAlike ==
    \A a \in Attempts : waitsOn[a] # Nobody =>
        /\ SessionOf[waitsOn[a]] = SessionOf[a]
        /\ presented[waitsOn[a]] = presented[a]

\* A decision, once delivered or on its way, stands: nothing else is decided
\* of the same challenge.
DecisionsStand ==
    \A c \in Attempts :
        /\ decision[c] # None => decision'[c] = decision[c]
        /\ owed[c] # None => \/ owed'[c] = owed[c] /\ decision'[c] = None
                             \/ owed'[c] = None /\ decision'[c] = owed[c]

DecidedOnce == [][DecisionsStand]_vars

-----------------------------------------------------------------------------
(* Liveness.                                                               *)

\* When its session is closed, whoever waits is let go.
ClosedLetsGo ==
    \A a \in Attempts : SessionOf[a] \in cancelled /\ at[a] # "new" ~> at[a] \in Over

\* A decision reaches everybody who waits for it.
DecisionReaches ==
    \A a \in Attempts : at[a] = "waiting" /\ waitsOn[a] \notin pending ~> at[a] \in Over

=============================================================================
