----------------------------- MODULE ConnectProofs -----------------------------
(***************************************************************************)
(* Proofs about Connect, for any attempts, endpoints, keys and credentials *)
(* whose endpoints are spelled as SpellingAssumption has it: the verdict   *)
(* on a host key follows what the user saved, and a settled credential is  *)
(* read back.                                                              *)
(***************************************************************************)
EXTENDS Connect, Integers, Sequences, TLAPS

-----------------------------------------------------------------------------
(* Credentials.                                                            *)

Credible ==
    /\ up \in BOOLEAN
    /\ primary \in [Credentials -> Secrets \cup {NoSecret}]
    /\ fallback \in [Credentials -> Secrets \cup {NoSecret}]
    /\ want \in [Credentials -> Secrets \cup {NoSecret}]
    /\ settled \subseteq Credentials /\ gone \subseteq settled

\* A deleted credential is in neither store.
GoneFromBoth ==
    \A c \in gone : primary[c] = NoSecret /\ fallback[c] = NoSecret /\ want[c] = NoSecret

\* While the daemon runs a settled credential is in its store, so that the
\* kernel's keyring may be lost.
InItsStore == \A c \in settled : up => primary[c] = want[c]

CInv == Credible /\ GoneFromBoth /\ InItsStore /\ C!SettledReadsBack

CNext ==
    \/ \E c \in Credentials : C!Delete(c) \/ C!DeleteFails(c) \/ \E s \in Secrets : C!Set(c, s)
    \/ C!DaemonChanges
    \/ C!Reboot

LEMMA CInit == C!Init => CInv
BY DEF C!Init, C!Nothing, CInv, Credible, GoneFromBoth, InItsStore, C!SettledReadsBack, C!Reading

LEMMA CStep == CInv /\ (CNext \/ UNCHANGED cvars) => CInv'
<1> SUFFICES ASSUME CInv, CNext \/ UNCHANGED cvars PROVE CInv'
  OBVIOUS
<1> USE ConnectAssumption DEF CInv, Credible, GoneFromBoth, InItsStore, C!SettledReadsBack, C!Reading
<1>1. ASSUME NEW c \in Credentials, NEW s \in Secrets, C!Set(c, s) PROVE CInv'
  BY <1>1 DEF C!Set
<1>2. ASSUME NEW c \in Credentials, C!Delete(c) PROVE CInv'
  BY <1>2 DEF C!Delete, C!CleanedPrimary, C!CleanedFallback
<1>3. ASSUME NEW c \in Credentials, C!DeleteFails(c) PROVE CInv'
  <2>1. CASE up /\ UNCHANGED primary /\ fallback' \in {fallback, C!CleanedFallback(c)}
    BY <1>3, <2>1 DEF C!DeleteFails, C!CleanedFallback
  <2>2. CASE primary' = C!CleanedPrimary(c) /\ UNCHANGED fallback
    BY <1>3, <2>2 DEF C!DeleteFails, C!CleanedPrimary
  <2> QED
    BY <1>3, <2>1, <2>2 DEF C!DeleteFails
<1>4. CASE C!DaemonChanges
  BY <1>4 DEF C!DaemonChanges
<1>5. CASE C!Reboot
  <2>1. C!SettledReadsBack'
    <3> SUFFICES ASSUME NEW c \in settled' PROVE C!Reading(c)' = want'[c]
      OBVIOUS
    <3>1. up' = up /\ primary' = primary /\ want' = want
      BY <1>5 DEF C!Reboot
    <3>2. c \in settled /\ c \in Credentials /\ fallback'[c] = NoSecret
      BY <1>5 DEF C!Reboot, C!Nothing
    <3>3. CASE up
      BY <1>5, <3>1, <3>2, <3>3 DEF C!Reboot
    <3>4. CASE ~up
      BY <1>5, <3>1, <3>2, <3>4 DEF C!Reboot
    <3> QED
      BY <3>3, <3>4
  <2>2. fallback' = [c \in Credentials |-> NoSecret]
    BY <1>5 DEF C!Reboot, C!Nothing
  <2>3. Credible'
    BY <1>5, <2>2 DEF C!Reboot
  <2>4. GoneFromBoth'
    BY <1>5, <2>2 DEF C!Reboot
  <2>5. InItsStore'
    BY <1>5 DEF C!Reboot
  <2> QED
    BY <2>1, <2>3, <2>4, <2>5
<1>6. CASE UNCHANGED cvars
  BY <1>6 DEF cvars
<1> QED
  BY <1>1, <1>2, <1>3, <1>4, <1>5, <1>6 DEF CNext

-----------------------------------------------------------------------------
(* Host keys.                                                              *)

\* The records a store should have.
Saved == {[end |-> e, key |-> saved[e]] : e \in {d \in Endpoints : saved[d] # NoKey}}

TInv ==
    /\ loaded \in BOOLEAN
    /\ saved \in [Endpoints -> Keys \cup {NoKey}]
    /\ loaded => records = Saved
    /\ file = T!SerializeRecords(Saved) \/ file = T!SerializeRecords(Saved) \cup {T!Garbage}

LEMMA GarbageIsNotRead == T!ParseEntry(T!Garbage) = {}
<1>1. Len(T!Garbage.pattern) = 1 /\ T!Garbage.pattern[1] = "["
  BY DEF T!Garbage
<1>2. T!ParseHostPattern(T!Garbage.pattern) = {}
  BY <1>1 DEF T!ParseHostPattern
<1> QED
  BY <1>2 DEF T!ParseEntry

\* What is written is read back.
LEMMA ReadsBack ==
    ASSUME saved \in [Endpoints -> Keys \cup {NoKey}]
    PROVE  T!LoadFromFile(T!SerializeRecords(Saved)) = {Saved}
<1> DEFINE line(e) == [pattern |-> T!FormatHostPattern(e.host, e.port), key |-> saved[e]]
           known == {d \in Endpoints : saved[d] # NoKey}
<1>1. T!SerializeRecords(Saved) = {line(e) : e \in known}
  <2>1. \A r \in Saved : \E e \in known : r.end = e /\ r.key = saved[e]
    BY DEF Saved
  <2>2. \A e \in known : \E r \in Saved : r.end = e /\ r.key = saved[e]
    <3>1. \A e \in known : [end |-> e, key |-> saved[e]] \in Saved
      BY DEF Saved
    <3> QED
      BY <3>1
  <2> QED
    <3> DEFINE written(r) == [pattern |-> T!FormatHostPattern(r.end.host, r.end.port), key |-> r.key]
    <3>1. T!SerializeRecords(Saved) = {written(r) : r \in Saved}
      BY DEF T!SerializeRecords
    <3>2. \A r \in Saved : \E e \in known : written(r) = line(e)
      BY <2>1
    <3>3. \A e \in known : \E r \in Saved : line(e) = written(r)
      BY <2>2
    <3> HIDE DEF line, written, known
    <3> QED
      BY <3>1, <3>2, <3>3
<1>2. \A e \in known : T!ParseEntry(line(e)) = {[end |-> e, key |-> saved[e]]}
  BY SpellingAssumption DEF T!ParseEntry
<1>3. UNION {T!ParseEntry(l) : l \in {line(e) : e \in known}} = Saved
  <2> HIDE DEF line
  <2>1. {T!ParseEntry(l) : l \in {line(e) : e \in known}} = {{[end |-> e, key |-> saved[e]]} : e \in known}
    BY <1>2
  <2> QED
    BY <2>1 DEF Saved
<1>4. \A l \in T!SerializeRecords(Saved) : T!ParseEntry(l) # {}
  <2> HIDE DEF line
  <2> QED
    BY <1>1, <1>2
<1> QED
  BY <1>1, <1>3, <1>4 DEF T!LoadFromFile

\* Whoever gets at the records gets those.
LEMMA LoadedIsSaved == TInv => \A R \in T!Loaded : R = Saved
<1> SUFFICES ASSUME TInv, NEW R \in T!Loaded PROVE R = Saved
  OBVIOUS
<1>1. CASE loaded
  BY <1>1 DEF TInv, T!Loaded
<1>2. CASE ~loaded /\ file = T!SerializeRecords(Saved)
  BY <1>2, ReadsBack DEF TInv, T!Loaded
<1>3. CASE ~loaded /\ T!Garbage \in file
  BY <1>3, GarbageIsNotRead DEF T!Loaded, T!LoadFromFile
<1> QED
  BY <1>1, <1>2, <1>3 DEF TInv

LEMMA KeyIsSaved ==
    ASSUME saved \in [Endpoints -> Keys \cup {NoKey}], NEW e \in Endpoints
    PROVE  T!KeyOf(Saved, e) = saved[e]
<1>1. CASE saved[e] = NoKey
  BY <1>1 DEF T!KeyOf, Saved
<1>2. CASE saved[e] # NoKey
  <2>1. [end |-> e, key |-> saved[e]] \in Saved
    BY <1>2 DEF Saved
  <2>2. \A r \in Saved : r.end = e => r.key = saved[e]
    BY DEF Saved
  <2> QED
    BY <2>1, <2>2 DEF T!KeyOf
<1> QED
  BY <1>1, <1>2

TNext ==
    \/ \E e \in Endpoints :
          \/ T!Remove(e) \/ T!RemoveFails(e)
          \/ \E k \in Keys \cup {NoKey} : T!LookUp(e, k)
          \/ \E k \in Keys : T!Upsert(e, k) \/ T!WriteFails(e, k)
    \/ T!LoadFails \/ T!Restart \/ T!Spoil \/ T!Mend

LEMMA TInit == T!Init => TInv
BY DEF T!Init, TInv, Saved, T!SerializeRecords

LEMMA TStep == TInv /\ (TNext \/ UNCHANGED tvars) => TInv'
<1> SUFFICES ASSUME TInv, TNext \/ UNCHANGED tvars PROVE TInv'
  OBVIOUS
<1>s. saved' = saved => Saved' = Saved
  BY DEF Saved
<1>g. T!Garbage \notin T!SerializeRecords(Saved)
  <2>1. \A r \in Saved : r.key # NoKey
    BY DEF Saved
  <2>2. \A l \in T!SerializeRecords(Saved) : l.key # NoKey
    BY <2>1 DEF T!SerializeRecords
  <2> QED
    BY <2>2 DEF T!Garbage
<1>w. \A e \in Endpoints : \A R : R = Saved =>
         T!Without(R, e) = {[end |-> d, key |-> saved[d]] : d \in {d \in Endpoints : saved[d] # NoKey /\ d # e}}
  BY DEF T!Without, Saved
<1>1. ASSUME NEW e \in Endpoints, T!Remove(e) PROVE TInv'
  <2>1. PICK R \in T!Loaded :
           /\ T!Keep(T!Without(R, e))
           /\ file' = IF T!Without(R, e) = R THEN file ELSE T!SerializeRecords(T!Without(R, e))
    BY <1>1 DEF T!Remove
  <2>2. R = Saved
    BY LoadedIsSaved
  <2>3. saved' = [saved EXCEPT ![e] = NoKey]
    BY <1>1 DEF T!Remove
  <2>4. Saved' = T!Without(R, e)
    BY <2>2, <2>3, <1>w DEF TInv, Saved
  <2> QED
    BY <2>1, <2>2, <2>3, <2>4 DEF TInv, T!Keep, T!SerializeRecords
<1>2. ASSUME NEW e \in Endpoints, NEW k \in Keys, T!Upsert(e, k) PROVE TInv'
  <2>1. PICK R \in T!Loaded :
           LET new == T!Without(R, e) \cup {[end |-> e, key |-> k]}
           IN  file' = T!SerializeRecords(new) /\ T!Keep(new)
    BY <1>2 DEF T!Upsert
  <2>2. R = Saved
    BY LoadedIsSaved
  <2>3. saved' = [saved EXCEPT ![e] = k]
    BY <1>2 DEF T!Upsert
  <2>4. Saved' = T!Without(R, e) \cup {[end |-> e, key |-> k]}
    BY <2>2, <2>3, <1>w, ConnectAssumption DEF TInv, Saved
  <2> QED
    BY <2>1, <2>3, <2>4 DEF TInv, T!Keep, T!SerializeRecords
<1>3. ASSUME \E R \in T!Loaded : T!Keep(R), UNCHANGED <<file, saved>> PROVE TInv'
  BY <1>3, <1>s, LoadedIsSaved DEF TInv, T!Keep, T!SerializeRecords
<1>4. CASE T!Restart
  BY <1>4, <1>s DEF TInv, T!Restart, T!SerializeRecords
<1>5. CASE T!Spoil
  BY <1>5, <1>s DEF TInv, T!Spoil, T!SerializeRecords, T!Garbage
<1>6. CASE T!Mend
  <2>1. file' = T!SerializeRecords(Saved)
    BY <1>6, <1>g DEF TInv, T!Mend
  <2> QED
    BY <1>6, <1>s, <2>1 DEF TInv, T!Mend, T!SerializeRecords
<1>7. CASE UNCHANGED tvars
  BY <1>7, <1>s DEF TInv, tvars, T!SerializeRecords
<1>8. CASE T!LoadFails
  BY <1>7, <1>8 DEF T!LoadFails, T!tvars, tvars
<1>9. ASSUME NEW e \in Endpoints, NEW k \in Keys \cup {NoKey}, T!LookUp(e, k) PROVE TInv'
  BY <1>9, <1>3 DEF T!LookUp
<1>10. ASSUME NEW e \in Endpoints, T!RemoveFails(e) PROVE TInv'
  BY <1>10, <1>3 DEF T!RemoveFails
<1>11. ASSUME NEW e \in Endpoints, NEW k \in Keys, T!WriteFails(e, k) PROVE TInv'
  BY <1>11, <1>3 DEF T!WriteFails
<1> QED
  BY <1>1, <1>2, <1>4, <1>5, <1>6, <1>7, <1>8, <1>9, <1>10, <1>11 DEF TNext

-----------------------------------------------------------------------------
(* Attempts.                                                               *)

AInv ==
    /\ stage \in [Attempts -> Stages]
    /\ key \in [Attempts -> Keys \cup {NoKey}]
    /\ \A a \in Attempts : stage[a] \notin {"new", "loaded"} => key[a] \in Keys

IInv == TInv /\ CInv /\ AInv

LEMMA AStep == AInv /\ [Next]_vars => AInv'
<1> SUFFICES ASSUME AInv, [Next]_vars PROVE AInv'
  OBVIOUS
<1> USE DEF AInv, Stages, Asked, Go, Over
<1>1. ASSUME NEW a \in Attempts, NEW k \in Keys, Handshake(a, k) PROVE AInv'
  BY <1>1 DEF Handshake
<1>2. ASSUME NEW a \in Attempts, LoadCredentials(a) \/ Accept(a) \/ Authenticate(a) \/ Fails(a) PROVE AInv'
  BY <1>2 DEF LoadCredentials, Accept, Authenticate, Fails
<1>3. ASSUME NEW a \in Attempts, Verify(a) PROVE AInv'
  BY <1>3 DEF Verify
<1>4. ASSUME NEW a \in Attempts, VerifyFails(a) PROVE AInv'
  BY <1>4 DEF VerifyFails
<1>5. ASSUME NEW a \in Attempts, AcceptAndSave(a) PROVE AInv'
  BY <1>5 DEF AcceptAndSave
<1>6. ASSUME NEW a \in Attempts, SaveFails(a) PROVE AInv'
  BY <1>6 DEF SaveFails, avars
<1>7. CASE Credential \/ Outside \/ \E e \in Endpoints : Forget(e)
  BY <1>7 DEF Credential, Outside, Forget, avars
<1>8. CASE Restart \/ Reboot
  BY <1>8 DEF Restart, Reboot, Stopped
<1>9. CASE UNCHANGED vars
  BY <1>9 DEF vars, avars
<1> QED
  BY <1>1, <1>2, <1>3, <1>4, <1>5, <1>6, <1>7, <1>8, <1>9 DEF Next, Attempt

\* Every step of Connect is one of each store, or leaves it alone.
LEMMA StoreSteps ==
    AInv /\ [Next]_vars => /\ CNext \/ UNCHANGED cvars
                           /\ TNext \/ UNCHANGED tvars
<1> SUFFICES ASSUME AInv, [Next]_vars
             PROVE  (CNext \/ UNCHANGED cvars) /\ (TNext \/ UNCHANGED tvars)
  OBVIOUS
<1>1. ASSUME NEW a \in Attempts, Attempt(a), ~Verify(a), ~VerifyFails(a), ~AcceptAndSave(a), ~SaveFails(a)
      PROVE  UNCHANGED cvars /\ UNCHANGED tvars
  BY <1>1 DEF Attempt, LoadCredentials, Handshake, Accept, Authenticate, Fails
<1>2. ASSUME NEW a \in Attempts, Verify(a) PROVE UNCHANGED cvars /\ TNext
  BY <1>2, ConnectAssumption DEF Verify, TNext
<1>3. ASSUME NEW a \in Attempts, VerifyFails(a) PROVE UNCHANGED cvars /\ TNext
  BY <1>3 DEF VerifyFails, TNext
<1>4. ASSUME NEW a \in Attempts, AcceptAndSave(a) PROVE UNCHANGED cvars /\ TNext
  BY <1>4, ConnectAssumption DEF AcceptAndSave, TNext, AInv, Asked
<1>5. ASSUME NEW a \in Attempts, SaveFails(a) PROVE UNCHANGED cvars /\ TNext
  BY <1>5, ConnectAssumption DEF SaveFails, TNext, AInv, Asked
<1>6. CASE Credential
  BY <1>6 DEF Credential, CNext
<1>7. ASSUME NEW e \in Endpoints, Forget(e) PROVE UNCHANGED cvars /\ TNext
  BY <1>7 DEF Forget, TNext
<1>8. CASE Outside
  BY <1>8 DEF Outside, TNext
<1>9. CASE Restart \/ Reboot
  BY <1>9 DEF Restart, Reboot, Stopped, TNext, CNext
<1>10. CASE UNCHANGED vars
  BY <1>10 DEF vars
<1> QED
  BY <1>1, <1>2, <1>3, <1>4, <1>5, <1>6, <1>7, <1>8, <1>9, <1>10 DEF Next

LEMMA IInvInit == Init => IInv
<1> SUFFICES ASSUME Init PROVE AInv
  BY CInit, TInit DEF Init, IInv
<1> QED
  BY DEF Init, AInv, Stages

\* The values the stores, their histories and the attempts take.
THEOREM InvariantHolds == Spec => []IInv
<1>1. IInv /\ [Next]_vars => IInv'
  BY AStep, CStep, TStep, StoreSteps DEF IInv
<1> QED
  BY <1>1, IInvInit, PTL DEF Spec

\* A credential reads as it was last stored, wherever it fell.
THEOREM SettledReadsBackHolds == Spec => []SettledReadsBack
<1>1. IInv => SettledReadsBack
  BY DEF IInv, CInv, SettledReadsBack
<1> QED
  BY <1>1, InvariantHolds, PTL

\* The verdict on a key is the one the user's saves and removals call for.
THEOREM VerdictIsOfSavedHolds == Spec => VerdictIsOfSaved
<1> DEFINE A ==
      \A a \in Attempts : stage[a] = "presented" =>
          LET last == saved[EndpointOf[a]]
          IN  /\ stage'[a] = "trusted" => last = key[a]
              /\ stage'[a] = "Unknown" => last = NoKey
              /\ stage'[a] = "Changed" => last \notin {NoKey, key[a]}
<1>1. IInv /\ [Next]_vars => [A]_vars
  <2> SUFFICES ASSUME IInv, Next, NEW a \in Attempts, stage[a] = "presented"
               PROVE  LET last == saved[EndpointOf[a]]
                      IN  /\ stage'[a] = "trusted" => last = key[a]
                          /\ stage'[a] = "Unknown" => last = NoKey
                          /\ stage'[a] = "Changed" => last \notin {NoKey, key[a]}
    OBVIOUS
  <2> USE ConnectAssumption DEF IInv, AInv, Stages, Asked
  <2>v. ASSUME Verify(a)
        PROVE  LET last == saved[EndpointOf[a]]
               IN  stage'[a] = IF last = key[a] THEN "trusted" ELSE IF last = NoKey THEN "Unknown" ELSE "Changed"
    <3>1. PICK k \in Keys \cup {NoKey} :
             /\ T!LookUp(EndpointOf[a], k)
             /\ Go(a, IF k = key[a] THEN "trusted" ELSE IF k = NoKey THEN "Unknown" ELSE "Changed")
      BY <2>v DEF Verify
    <3>2. \E R \in T!Loaded : k = T!KeyOf(R, EndpointOf[a])
      BY <3>1 DEF T!LookUp
    <3>3. k = saved[EndpointOf[a]]
      BY <3>2, LoadedIsSaved, KeyIsSaved DEF TInv
    <3> QED
      BY <3>1, <3>3 DEF Go
  <2>o. ASSUME NEW b \in Attempts, Attempt(b), ~Verify(a) PROVE stage'[a] \in {"presented", "new"}
    BY <2>o DEF Attempt, LoadCredentials, Handshake, Verify, VerifyFails, Accept, AcceptAndSave, SaveFails,
             Authenticate, Fails, Go, Over, avars
  <2>r. ASSUME Credential \/ Outside \/ Restart \/ Reboot \/ \E e \in Endpoints : Forget(e)
        PROVE  stage'[a] \in {"presented", "new"}
    BY <2>r DEF Credential, Outside, Restart, Reboot, Stopped, Forget, avars
  <2> QED
    BY <2>v, <2>o, <2>r DEF Next
<1> QED
  BY <1>1, InvariantHolds, PTL DEF Spec, VerdictIsOfSaved
=============================================================================
