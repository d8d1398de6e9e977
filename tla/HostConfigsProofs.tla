--------------------------- MODULE HostConfigsProofs ---------------------------
(***************************************************************************)
(* Proofs about HostConfigs, for any sets of hosts and endpoints.          *)
(*                                                                         *)
(* OrphansAccounted and TrustAccounted speak of the moments between        *)
(* commands.  Inside one, what may be unaccounted for is what the command  *)
(* has still to deal with: InFlight and EndpointInFlight say what that is  *)
(* at each step, and Stage says how far the stores are by then.            *)
(***************************************************************************)
EXTENDS HostConfigs, TLAPS

\* The credentials the running command will delete or refer to.
InFlight ==
    {k \in {host} \X Auths :
        \/ step \in {"commit", "undo"} /\ wrote /\ k[2] = want.auth
        \/ step = "stale" /\ Switched /\ k[2] = old.auth
        \/ step = "password"
        \/ step = "passphrase" /\ k[2] = "PrivateKey"}

EndpointInFlight ==
    {e \in Endpoints : /\ step \in {"stale", "password", "passphrase", "trust"}
                       /\ old # Absent /\ e = old.endpoint}

\* How far the stores are at each step.
Stage ==
    /\ step \in {"secret", "commit", "remove"} => old = configs[host]
    /\ step = "secret" => ~wrote
    /\ step = "commit" => (wrote <=> want.secret) /\ (wrote => <<host, want.auth>> \in creds)
    /\ step = "stale" => configs[host].auth = want.auth
    /\ step \in {"password", "passphrase"} => configs[host] = Absent

Accounts ==
    /\ creds \ Refs(configs) \subseteq orphaned \cup InFlight
    /\ trust \ Used(configs) \subseteq leftover \cup EndpointInFlight

IInv == TypeOK /\ Stage /\ Accounts

-----------------------------------------------------------------------------
LEMMA TypeInit == Init => TypeOK
BY DEF Init, TypeOK

LEMMA TypeStep == ASSUME TypeOK, [Next]_vars PROVE TypeOK'
<1> USE DEF TypeOK, Steps, stores, command, reasons
<1>1. ASSUME NEW h \in Hosts, NEW r \in Requests, SaveBegin(h, r) PROVE TypeOK'
  BY <1>1 DEF SaveBegin
<1>2. CASE SetSecret
  <2>1. <<host, want.auth>> \in Hosts \X Auths
    BY <1>2 DEF SetSecret, Requests
  <2>2. step' \in {"commit", "undo"} /\ wrote' \in BOOLEAN
    BY <1>2 DEF SetSecret
  <2>3. creds' \subseteq Hosts \X Auths /\ orphaned' \subseteq Hosts \X Auths
    BY <1>2, <2>1 DEF SetSecret
  <2> QED BY <1>2, <2>2, <2>3 DEF SetSecret
<1>3. CASE Commit
  <2>1. New \in Configs
    BY <1>3 DEF Commit, New, Configs, Requests, Switched, Absent
  <2> QED BY <1>3, <2>1 DEF Commit, Write, WriteFails
<1>4. CASE DeleteStale
  BY <1>4 DEF DeleteStale, DeleteCred, Switched
<1>5. CASE Undo
  BY <1>5 DEF Undo, Idle, Requests
<1>6. ASSUME NEW h \in Hosts, DeleteBegin(h) PROVE TypeOK'
  BY <1>6 DEF DeleteBegin
<1>7. CASE Remove
  BY <1>7 DEF Remove, Write, WriteFails, Idle
<1>8. CASE DeleteSecrets
  BY <1>8 DEF DeleteSecrets, DeleteCred, Auths
<1>9. CASE CleanTrust
  BY <1>9 DEF CleanTrust, Idle, Moved, Used, Configs, Absent
<1>10. CASE Crash
  BY <1>10 DEF Crash, Idle
<1>11. ASSUME NEW h \in Hosts, OpenSession(h) PROVE TypeOK'
  BY <1>11 DEF OpenSession, Configs, Absent
<1>12. ASSUME NEW e \in Endpoints, CloseSessions(e) \/ SaveKey(e) PROVE TypeOK'
  BY <1>12 DEF CloseSessions, SaveKey
<1>13. CASE UNCHANGED vars
  BY <1>13 DEF vars
<1> QED BY <1>1, <1>2, <1>3, <1>4, <1>5, <1>6, <1>7, <1>8, <1>9, <1>10, <1>11, <1>12, <1>13
      DEF Next, Save, Delete

\* hosts.json, credentials, trust records and the command keep their types.
THEOREM TypeCorrect == Spec => []TypeOK
BY TypeInit, TypeStep, PTL DEF Spec

-----------------------------------------------------------------------------
LEMMA StageStep == ASSUME TypeOK, Stage, [Next]_vars PROVE Stage'
<1> USE DEF TypeOK, Stage, Steps, stores, command, reasons
<1>1. ASSUME NEW h \in Hosts, NEW r \in Requests, SaveBegin(h, r) PROVE Stage'
  BY <1>1 DEF SaveBegin
<1>2. CASE SetSecret
  <2>1. CASE step' = "commit" /\ ~want.secret
    BY <1>2, <2>1 DEF SetSecret
  <2>2. CASE step' = "commit" /\ want.secret
    BY <1>2, <2>2 DEF SetSecret
  <2>3. CASE step' = "undo"
    BY <1>2, <2>3 DEF SetSecret
  <2> QED BY <1>2, <2>1, <2>2, <2>3 DEF SetSecret
<1>3. CASE Commit
  BY <1>3 DEF Commit, Write, WriteFails, New
<1>4. CASE DeleteStale
  BY <1>4 DEF DeleteStale, DeleteCred
<1>5. CASE Undo
  BY <1>5 DEF Undo, Idle
<1>6. ASSUME NEW h \in Hosts, DeleteBegin(h) PROVE Stage'
  BY <1>6 DEF DeleteBegin
<1>7. CASE Remove
  BY <1>7 DEF Remove, Write, WriteFails, Idle
<1>8. CASE DeleteSecrets
  BY <1>8 DEF DeleteSecrets, DeleteCred
<1>9. CASE CleanTrust
  BY <1>9 DEF CleanTrust, Idle
<1>10. CASE Crash
  BY <1>10 DEF Crash, Idle
<1>11. ASSUME NEW h \in Hosts, OpenSession(h) PROVE Stage'
  BY <1>11 DEF OpenSession
<1>12. ASSUME NEW e \in Endpoints, CloseSessions(e) \/ SaveKey(e) PROVE Stage'
  BY <1>12 DEF CloseSessions, SaveKey
<1>13. CASE UNCHANGED vars
  BY <1>13 DEF vars
<1> QED BY <1>1, <1>2, <1>3, <1>4, <1>5, <1>6, <1>7, <1>8, <1>9, <1>10, <1>11, <1>12, <1>13
      DEF Next, Save, Delete

-----------------------------------------------------------------------------
\* A commit of a save: what the host's old configuration referred to is
\* referred to by the new one or about to be deleted.
LEMMA CommitRefs ==
    ASSUME TypeOK, Stage, step = "commit",
           NEW k \in Hosts \X Auths, k \in Refs(configs)
    PROVE  \/ k \in Refs([configs EXCEPT ![host] = New])
           \/ Switched /\ k = <<host, old.auth>>
<1>1. CASE k[1] = host
  <2>1. old # Absent /\ old.ref /\ k = <<host, old.auth>>
    BY <1>1 DEF Stage, Refs
  <2>2. CASE ~Switched
    <3>1. New.auth = old.auth /\ New.ref
      BY <2>1, <2>2 DEF New, Switched
    <3>2. New # Absent
      BY <3>1 DEF New, Absent
    <3>3. host \in Hosts /\ [configs EXCEPT ![host] = New][host] = New
      BY <1>1 DEF TypeOK
    <3> QED BY <1>1, <2>1, <3>1, <3>2, <3>3 DEF Refs
  <2> QED BY <2>1, <2>2
<1>2. CASE k[1] # host
  BY <1>2 DEF TypeOK, Refs
<1> QED BY <1>1, <1>2

LEMMA CredsStep ==
    ASSUME TypeOK, Stage, Accounts, [Next]_vars
    PROVE  (creds \ Refs(configs) \subseteq orphaned \cup InFlight)'
<1> USE DEF TypeOK, Stage, Accounts, InFlight, Steps, stores, command, reasons
<1>1. ASSUME NEW h \in Hosts, NEW r \in Requests, SaveBegin(h, r)
      PROVE  (creds \ Refs(configs) \subseteq orphaned \cup InFlight)'
  BY <1>1 DEF SaveBegin, Refs
<1>2. CASE SetSecret
  BY <1>2 DEF SetSecret, Requests, Refs
<1>3. CASE Commit
  <2> DEFINE cs == [configs EXCEPT ![host] = New]
  <2>1. CASE Write(cs) /\ step' = "stale"
    <3> SUFFICES ASSUME NEW k \in creds, k \notin Refs(cs)
                 PROVE  k \in orphaned' \cup InFlight'
      BY <1>3, <2>1 DEF Commit, Write, Refs
    <3>1. CASE k \in Refs(configs)
      BY <1>3, <2>1, <3>1, CommitRefs DEF Commit, Write, Switched, Refs
    <3>2. CASE k \in orphaned
      BY <2>1, <3>2 DEF Write
    <3>3. CASE k \in InFlight
      BY <1>3, <3>3 DEF Commit, Refs, New, Absent, Requests, Auths
    <3> QED BY <3>1, <3>2, <3>3
  <2>2. CASE WriteFails /\ step' = "undo"
    BY <1>3, <2>2 DEF Commit, WriteFails, Refs
  <2> QED BY <1>3, <2>1, <2>2 DEF Commit
<1>4. CASE DeleteStale
  BY <1>4 DEF DeleteStale, DeleteCred, Switched, Refs
<1>5. CASE Undo
  BY <1>5 DEF Undo, Idle, Refs
<1>6. ASSUME NEW h \in Hosts, DeleteBegin(h)
      PROVE  (creds \ Refs(configs) \subseteq orphaned \cup InFlight)'
  BY <1>6 DEF DeleteBegin, Refs
<1>7. CASE Remove
  BY <1>7 DEF Remove, Write, WriteFails, Idle, Refs
<1>8. CASE DeleteSecrets
  BY <1>8 DEF DeleteSecrets, DeleteCred, Refs, Auths
<1>9. CASE CleanTrust
  BY <1>9 DEF CleanTrust, Idle, Refs
<1>10. CASE Crash
  BY <1>10 DEF Crash, Idle, Refs
<1>11. ASSUME NEW h \in Hosts, OpenSession(h)
       PROVE  (creds \ Refs(configs) \subseteq orphaned \cup InFlight)'
  BY <1>11 DEF OpenSession, Refs, Switched
<1>12. ASSUME NEW e \in Endpoints, CloseSessions(e) \/ SaveKey(e)
       PROVE  (creds \ Refs(configs) \subseteq orphaned \cup InFlight)'
  BY <1>12 DEF CloseSessions, SaveKey, Refs, Switched
<1>13. CASE UNCHANGED vars
  BY <1>13 DEF vars, Refs, Switched
<1> QED BY <1>1, <1>2, <1>3, <1>4, <1>5, <1>6, <1>7, <1>8, <1>9, <1>10, <1>11, <1>12, <1>13
      DEF Next, Save, Delete

LEMMA TrustStep ==
    ASSUME TypeOK, Stage, Accounts, [Next]_vars
    PROVE  (trust \ Used(configs) \subseteq leftover \cup EndpointInFlight)'
<1> USE DEF TypeOK, Stage, Accounts, EndpointInFlight, Steps, stores, command, reasons
<1>1. ASSUME NEW h \in Hosts, NEW r \in Requests, SaveBegin(h, r)
      PROVE  (trust \ Used(configs) \subseteq leftover \cup EndpointInFlight)'
  BY <1>1 DEF SaveBegin, Used
<1>2. CASE SetSecret
  BY <1>2 DEF SetSecret, Used
<1>3. CASE Commit
  BY <1>3 DEF Commit, Write, WriteFails, Used
<1>4. CASE DeleteStale
  BY <1>4 DEF DeleteStale, DeleteCred, Used
<1>5. CASE Undo
  BY <1>5 DEF Undo, Idle, Used
<1>6. ASSUME NEW h \in Hosts, DeleteBegin(h)
      PROVE  (trust \ Used(configs) \subseteq leftover \cup EndpointInFlight)'
  BY <1>6 DEF DeleteBegin, Used
<1>7. CASE Remove
  BY <1>7 DEF Remove, Write, WriteFails, Idle, Used
<1>8. CASE DeleteSecrets
  BY <1>8 DEF DeleteSecrets, DeleteCred, Used
<1>9. CASE CleanTrust
  BY <1>9 DEF CleanTrust, Idle, Moved, Used
<1>10. CASE Crash
  BY <1>10 DEF Crash, Idle, Used
<1>11. ASSUME NEW h \in Hosts, OpenSession(h)
       PROVE  (trust \ Used(configs) \subseteq leftover \cup EndpointInFlight)'
  BY <1>11 DEF OpenSession, Used
<1>12. ASSUME NEW e \in Endpoints, CloseSessions(e) \/ SaveKey(e)
       PROVE  (trust \ Used(configs) \subseteq leftover \cup EndpointInFlight)'
  BY <1>12 DEF CloseSessions, SaveKey, Used
<1>13. CASE UNCHANGED vars
  BY <1>13 DEF vars, Used
<1> QED BY <1>1, <1>2, <1>3, <1>4, <1>5, <1>6, <1>7, <1>8, <1>9, <1>10, <1>11, <1>12, <1>13
      DEF Next, Save, Delete

-----------------------------------------------------------------------------
LEMMA Invariance == Spec => []IInv
<1>1. Init => IInv
  BY TypeInit DEF Init, IInv, Stage, Accounts
<1>2. IInv /\ [Next]_vars => IInv'
  BY TypeStep, StageStep, CredsStep, TrustStep DEF IInv, Accounts
<1> QED BY <1>1, <1>2, PTL DEF Spec

\* Whatever fails or is cut off, between commands a credential nothing refers
\* to is one whose deletion failed or was cut off.
THEOREM OrphansAccountedHolds == Spec => []OrphansAccounted
<1>1. IInv => OrphansAccounted
  BY DEF IInv, Accounts, OrphansAccounted, InFlight
<1> QED BY <1>1, Invariance, PTL

\* Between commands a trust record of an unused endpoint has a reason.
THEOREM TrustAccountedHolds == Spec => []TrustAccounted
<1>1. IInv => TrustAccounted
  BY DEF IInv, Accounts, TrustAccounted, EndpointInFlight
<1> QED BY <1>1, Invariance, PTL

\* A credential is deleted that the file does not refer to.
LEMMA DeleteKeepsRefs ==
    ASSUME NEW j \in Hosts \X Auths, NEW then, DeleteCred(j, then), j \notin Refs(configs),
           NEW k \in Refs(configs)', k \notin creds'
    PROVE  k \in Refs(configs) \ creds
<1>1. k \in Refs(configs)
  BY DEF DeleteCred, Refs
<1> QED BY <1>1 DEF DeleteCred

LEMMA NoNewDangling ==
    ASSUME TypeOK, Stage, [Next]_vars, step # "undo",
           NEW k \in Refs(configs)', k \notin creds'
    PROVE  k \in Refs(configs) \ creds
<1> k \in Hosts \X Auths
  BY DEF Refs
<1>1. CASE Commit
  <2>1. CASE configs' = configs
    BY <1>1, <2>1 DEF Commit, Refs
  <2>2. CASE configs' = [configs EXCEPT ![host] = New]
    <3>1. creds' = creds /\ host \in Hosts
      BY <1>1 DEF Commit, TypeOK
    <3>2. CASE k[1] # host
      BY <2>2, <3>1, <3>2 DEF Refs, TypeOK
    <3>3. CASE k[1] = host
      <4>1. configs'[host] = New
        BY <2>2, <3>1 DEF TypeOK
      <4>2. k = <<host, want.auth>> /\ New.ref
        BY <3>3, <4>1 DEF Refs, New
      <4>3. ~want.secret
        BY <1>1, <3>1, <4>2 DEF Commit, Stage
      <4>4. old # Absent /\ old.auth = want.auth /\ old.ref /\ old = configs[host]
        BY <1>1, <4>2, <4>3 DEF Commit, New, Switched, Stage
      <4> QED BY <3>1, <4>2, <4>4 DEF Refs
    <3> QED BY <3>2, <3>3
  <2> QED BY <1>1, <2>1, <2>2 DEF Commit, Write, WriteFails
<1>2. CASE DeleteStale
  <2>1. CASE ~Switched
    BY <1>2, <2>1 DEF DeleteStale, Refs, stores
  <2>2. CASE Switched /\ DeleteCred(<<host, old.auth>>, "trust")
    <3>1. <<host, old.auth>> \in Hosts \X Auths
      BY <1>2, <2>2 DEF DeleteStale, Switched, TypeOK, Configs
    <3>2. <<host, old.auth>> \notin Refs(configs)
      BY <1>2, <2>2 DEF DeleteStale, Switched, Refs, Stage
    <3> QED BY <2>2, <3>1, <3>2, DeleteKeepsRefs
  <2> QED BY <1>2, <2>1, <2>2 DEF DeleteStale
<1>3. CASE DeleteSecrets
  <2>1. host \in Hosts /\ configs[host] = Absent
    BY <1>3 DEF DeleteSecrets, Stage, TypeOK
  <2>2. \A a \in Auths : <<host, a>> \in Hosts \X Auths /\ <<host, a>> \notin Refs(configs)
    BY <2>1 DEF Refs
  <2>3. "Password" \in Auths /\ "PrivateKey" \in Auths
    BY DEF Auths
  <2> QED BY <1>3, <2>2, <2>3, DeleteKeepsRefs DEF DeleteSecrets
<1>4. CASE Remove
  <2>1. creds' = creds /\ host \in Hosts
    BY <1>4 DEF Remove, TypeOK
  <2>2. configs' = configs \/ configs' = [configs EXCEPT ![host] = Absent]
    BY <1>4 DEF Remove, Write, WriteFails
  <2>3. \A h \in Hosts : configs'[h] = configs[h] \/ configs'[h] = Absent
    BY <2>1, <2>2 DEF TypeOK
  <2> QED BY <2>1, <2>3 DEF Refs
<1>5. CASE SetSecret
  BY <1>5 DEF SetSecret, Refs
<1>6. CASE UNCHANGED <<configs, creds>>
  BY <1>6 DEF Refs
<1> QED BY <1>1, <1>2, <1>3, <1>4, <1>5, <1>6
      DEF Next, Save, Delete, SaveBegin, DeleteBegin, CleanTrust, Crash, OpenSession,
          CloseSessions, SaveKey, Undo, stores, vars

\* A step but a compensation keeps the account of a reference that it leaves
\* dangling: a write of the credential, or a commit without the reference,
\* would end the dangling.
LEMMA UndoneKept ==
    ASSUME [Next]_vars, step # "undo",
           NEW k \in Refs(configs)', k \notin creds', k \in undone
    PROVE  k \in undone'
<1> USE DEF stores, command, reasons
<1>1. CASE SetSecret
  BY <1>1 DEF SetSecret
<1>2. CASE Commit \/ Remove
  <2>1. ASSUME NEW cs, Write(cs) PROVE k \in undone'
    BY <2>1 DEF Write, Refs
  <2>2. CASE WriteFails
    BY <2>2 DEF WriteFails
  <2> QED BY <1>2, <2>1, <2>2 DEF Commit, Remove
<1>3. CASE UNCHANGED undone
  BY <1>3
<1> QED BY <1>1, <1>2, <1>3
      DEF Next, Save, Delete, SaveBegin, DeleteBegin, DeleteStale, DeleteCred, DeleteSecrets,
          CleanTrust, Crash, OpenSession, CloseSessions, SaveKey, Undo, vars

LEMMA DanglingStep ==
    ASSUME TypeOK, Stage, DanglingAccounted, [Next]_vars
    PROVE  DanglingAccounted'
<1> SUFFICES ASSUME NEW k \in Refs(configs)', k \notin creds' PROVE k \in undone'
  BY DEF DanglingAccounted
<1>1. CASE step # "undo"
  <2>1. k \in Refs(configs) \ creds
    BY <1>1, NoNewDangling
  <2> QED BY <1>1, <2>1, UndoneKept DEF DanglingAccounted
<1>2. CASE step = "undo" /\ Undo
  BY <1>2 DEF Undo, DanglingAccounted, Refs
<1>3. CASE step = "undo" /\ UNCHANGED <<configs, creds, undone>>
  BY <1>3 DEF DanglingAccounted, Refs
<1> QED BY <1>1, <1>2, <1>3
      DEF Next, Save, Delete, SaveBegin, SetSecret, Commit, DeleteStale, DeleteBegin, Remove,
          DeleteSecrets, CleanTrust, Crash, OpenSession, CloseSessions, SaveKey, stores,
          command, reasons, vars

\* Wherever a command is, fails or is cut off, a reference that dangles is one
\* whose credential the compensation of a failed save deleted.
THEOREM DanglingAccountedHolds == Spec => []DanglingAccounted
<1>1. Init => DanglingAccounted
  BY DEF Init, DanglingAccounted, Refs
<1>2. IInv /\ DanglingAccounted /\ [Next]_vars => DanglingAccounted'
  BY DanglingStep DEF IInv
<1> QED BY <1>1, <1>2, Invariance, PTL DEF Spec
=============================================================================
