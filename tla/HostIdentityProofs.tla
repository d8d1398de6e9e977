-------------------------- MODULE HostIdentityProofs --------------------------
(* Proofs about HostIdentity, for any sessions, attempts, endpoints and     *)
(* keys.                                                                    *)
EXTENDS HostIdentity, TLAPS

-----------------------------------------------------------------------------
(* The inductive invariant.  A challenge is in one of four places: pending, *)
(* on its way to a decision through the main thread (owed) or through the   *)
(* attempt that superseded it, or decided; and it is never in two.          *)

Early == {"new", "lookup", "matched", "compared"}

\* An attempt that has not come as far as a challenge is not one.
EarlyIsNoChallenge ==
    \A a \in Attempts : at[a] \in Early =>
        /\ a \notin pending /\ decision[a] = None /\ owed[a] = None
        /\ waitsOn[a] = Nobody
        /\ supersedes[a] = {}
        /\ \A b \in Attempts : a \notin supersedes[b] /\ waitsOn[b] # a

\* The four places are disjoint.
OnePlace ==
    \A c \in Attempts :
        /\ c \in pending => decision[c] = None /\ owed[c] = None
        /\ owed[c] # None => decision[c] = None
        /\ \A b \in Attempts : c \in supersedes[b] =>
              /\ c \notin pending /\ decision[c] = None /\ owed[c] = None
              /\ \A d \in Attempts : c \in supersedes[d] => d = b

\* An attempt that has begun was presented with a key.
Shown == \A a \in Attempts : at[a] # "new" => presented[a] \in Keys

\* The challenges an attempt has still to cancel are those of one that has not
\* gone on to wait.
SupersedingOnly == \A b \in Attempts : supersedes[b] # {} => at[b] = "superseding"

\* Whoever is past the creation of a challenge waits for one.
WaitsForOne == \A a \in Attempts : at[a] \in {"superseding", "waiting"} => waitsOn[a] # Nobody

\* What is about to let an attempt through is vouched for.
PassIsVouched ==
    \A a \in Attempts :
        /\ at[a] = "matched" => <<SessionOf[a], presented[a]>> \in vouched
        /\ decision[a] = "Accepted" \/ owed[a] = "Accepted"
              => <<SessionOf[a], presented[a]>> \in vouched

Places == EarlyIsNoChallenge /\ OnePlace /\ SupersedingOnly /\ WaitsForOne

IInv ==
    /\ TypeOK /\ Shown
    /\ Places
    /\ JoinedAreAlike
    /\ TrustIsVouched /\ PassIsVouched /\ OnlyVouchedKeys
    /\ ClosedIsForgotten /\ OneQuestion
    /\ NobodyLeftBehind

-----------------------------------------------------------------------------
\* Every step keeps the types.
LEMMA TypeStep == ASSUME TypeOK, Shown, [Next]_vars PROVE (TypeOK /\ Shown)'
<1> USE IdentityAssumption DEF TypeOK, Shown, Decisions, Over, attempt, state, main
<1>1. ASSUME NEW a \in Attempts, NEW k \in Keys, Present(a, k) PROVE (TypeOK /\ Shown)'
  BY <1>1 DEF Present, Go
<1>2. ASSUME NEW a \in Attempts, LookUp(a) PROVE (TypeOK /\ Shown)'
  BY <1>2 DEF LookUp, Go, End
<1>3. ASSUME NEW a \in Attempts, Confirm(a) PROVE (TypeOK /\ Shown)'
  BY <1>3 DEF Confirm, Go, Trust
<1>4. ASSUME NEW a \in Attempts, ComparedRefused(a) PROVE (TypeOK /\ Shown)'
  BY <1>4 DEF ComparedRefused, Go
<1>5. ASSUME NEW a \in Attempts, Join(a) PROVE (TypeOK /\ Shown)'
  BY <1>5 DEF Join, Go, Unconfirmed, Same
<1>6. ASSUME NEW a \in Attempts, Challenge(a) PROVE (TypeOK /\ Shown)'
  BY <1>6 DEF Challenge, Go, Unconfirmed, Same, Others
<1>7. ASSUME NEW a \in Attempts, CancelSuperseded(a) PROVE (TypeOK /\ Shown)'
  BY <1>7 DEF CancelSuperseded
<1>8. ASSUME NEW a \in Attempts, Ask(a) PROVE (TypeOK /\ Shown)'
  BY <1>8 DEF Ask, Go
<1>9. ASSUME NEW a \in Attempts, Wake(a) PROVE (TypeOK /\ Shown)'
  BY <1>9 DEF Wake, Go
<1>10. ASSUME NEW c \in Attempts, Accept(c) PROVE (TypeOK /\ Shown)'
  BY <1>10 DEF Accept, Asked, Decide, Trust
<1>11. ASSUME NEW c \in Attempts, AcceptAndSave(c) PROVE (TypeOK /\ Shown)'
  BY <1>11 DEF AcceptAndSave, Asked, Decide, Trust, Alike, End
<1>12. ASSUME NEW c \in Attempts, Reject(c) PROVE (TypeOK /\ Shown)'
  BY <1>12 DEF Reject, Decide
<1>13. ASSUME NEW s \in Sessions, CloseSession(s) PROVE (TypeOK /\ Shown)'
  BY <1>13 DEF CloseSession, CancelSession, Decide
<1>14. ASSUME NEW e \in Endpoints, ForgetEndpoint(e) PROVE (TypeOK /\ Shown)'
  BY <1>14 DEF ForgetEndpoint
<1>15. CASE CancelAll
  BY <1>15 DEF CancelAll
<1>16. CASE Deliver
  BY <1>16 DEF Deliver
<1>17. CASE CancelById
  BY <1>17 DEF CancelById, Decide
<1>18. CASE UNCHANGED vars
  BY <1>18 DEF vars
<1> QED BY <1>1, <1>2, <1>3, <1>4, <1>5, <1>6, <1>7, <1>8, <1>9, <1>10, <1>11, <1>12,
      <1>13, <1>14, <1>15, <1>16, <1>17, <1>18 DEF Next, Verify, Command

\* Every step keeps a challenge in one place.
LEMMA PlacesStep == ASSUME TypeOK, Places, [Next]_vars PROVE Places'
<1> USE IdentityAssumption DEF TypeOK, Decisions, Over, Places, EarlyIsNoChallenge,
      OnePlace, SupersedingOnly, WaitsForOne, Early, None, Nobody, attempt, state, main
<1>1. ASSUME NEW a \in Attempts, NEW k \in Keys, Present(a, k) PROVE Places'
  BY <1>1 DEF Present, Go
<1>2. ASSUME NEW a \in Attempts, LookUp(a) PROVE Places'
  BY <1>2 DEF LookUp, Go, End
<1>3. ASSUME NEW a \in Attempts, Confirm(a) PROVE Places'
  BY <1>3 DEF Confirm, Go, Trust
<1>4. ASSUME NEW a \in Attempts, ComparedRefused(a) PROVE Places'
  BY <1>4 DEF ComparedRefused, Go
<1>5. ASSUME NEW a \in Attempts, Join(a) PROVE Places'
  BY <1>5 DEF Join, Go, Unconfirmed, Same
<1>6. ASSUME NEW a \in Attempts, Challenge(a) PROVE Places'
  BY <1>6 DEF Challenge, Go, Unconfirmed, Same, Others
<1>7. ASSUME NEW a \in Attempts, CancelSuperseded(a) PROVE Places'
  BY <1>7 DEF CancelSuperseded
<1>8. ASSUME NEW a \in Attempts, Ask(a) PROVE Places'
  BY <1>8 DEF Ask, Go
<1>9. ASSUME NEW a \in Attempts, Wake(a) PROVE Places'
  BY <1>9 DEF Wake, Go
<1>10. ASSUME NEW c \in Attempts, Accept(c) PROVE Places'
  BY <1>10 DEF Accept, Asked, Decide, Trust
<1>11. ASSUME NEW c \in Attempts, AcceptAndSave(c) PROVE Places'
  BY <1>11 DEF AcceptAndSave, Asked, Decide, Trust, Alike, End
<1>12. ASSUME NEW c \in Attempts, Reject(c) PROVE Places'
  BY <1>12 DEF Reject, Decide
<1>13. ASSUME NEW s \in Sessions, CloseSession(s) PROVE Places'
  BY <1>13 DEF CloseSession, CancelSession, Decide
<1>14. ASSUME NEW e \in Endpoints, ForgetEndpoint(e) PROVE Places'
  BY <1>14 DEF ForgetEndpoint
<1>15. CASE CancelAll
  BY <1>15 DEF CancelAll
<1>16. CASE Deliver
  BY <1>16 DEF Deliver
<1>17. CASE CancelById
  BY <1>17 DEF CancelById, Decide
<1>18. CASE UNCHANGED vars
  BY <1>18 DEF vars
<1> QED BY <1>1, <1>2, <1>3, <1>4, <1>5, <1>6, <1>7, <1>8, <1>9, <1>10, <1>11, <1>12,
      <1>13, <1>14, <1>15, <1>16, <1>17, <1>18 DEF Next, Verify, Command

\* Attempts join challenges of their own session and key.
LEMMA JoinedStep == ASSUME TypeOK, Places, JoinedAreAlike, [Next]_vars PROVE
      JoinedAreAlike'
<1> USE IdentityAssumption DEF TypeOK, Decisions, Over, Places, EarlyIsNoChallenge,
      Early, JoinedAreAlike, Nobody, attempt, state, main
<1>1. ASSUME NEW a \in Attempts, NEW k \in Keys, Present(a, k) PROVE JoinedAreAlike'
  BY <1>1 DEF Present, Go
<1>2. ASSUME NEW a \in Attempts, LookUp(a) PROVE JoinedAreAlike'
  BY <1>2 DEF LookUp, Go, End
<1>3. ASSUME NEW a \in Attempts, Confirm(a) PROVE JoinedAreAlike'
  BY <1>3 DEF Confirm, Go, Trust
<1>4. ASSUME NEW a \in Attempts, ComparedRefused(a) PROVE JoinedAreAlike'
  BY <1>4 DEF ComparedRefused, Go
<1>5. ASSUME NEW a \in Attempts, Join(a) PROVE JoinedAreAlike'
  BY <1>5 DEF Join, Go, Unconfirmed, Same
<1>6. ASSUME NEW a \in Attempts, Challenge(a) PROVE JoinedAreAlike'
  BY <1>6 DEF Challenge, Go, Unconfirmed, Same, Others
<1>7. ASSUME NEW a \in Attempts, CancelSuperseded(a) PROVE JoinedAreAlike'
  BY <1>7 DEF CancelSuperseded
<1>8. ASSUME NEW a \in Attempts, Ask(a) PROVE JoinedAreAlike'
  BY <1>8 DEF Ask, Go
<1>9. ASSUME NEW a \in Attempts, Wake(a) PROVE JoinedAreAlike'
  BY <1>9 DEF Wake, Go
<1>10. ASSUME NEW c \in Attempts, Accept(c) PROVE JoinedAreAlike'
  BY <1>10 DEF Accept, Asked, Decide, Trust
<1>11. ASSUME NEW c \in Attempts, AcceptAndSave(c) PROVE JoinedAreAlike'
  BY <1>11 DEF AcceptAndSave, Asked, Decide, Trust, Alike, End
<1>12. ASSUME NEW c \in Attempts, Reject(c) PROVE JoinedAreAlike'
  BY <1>12 DEF Reject, Decide
<1>13. ASSUME NEW s \in Sessions, CloseSession(s) PROVE JoinedAreAlike'
  BY <1>13 DEF CloseSession, CancelSession, Decide
<1>14. ASSUME NEW e \in Endpoints, ForgetEndpoint(e) PROVE JoinedAreAlike'
  BY <1>14 DEF ForgetEndpoint
<1>15. CASE CancelAll
  BY <1>15 DEF CancelAll
<1>16. CASE Deliver
  BY <1>16 DEF Deliver
<1>17. CASE CancelById
  BY <1>17 DEF CancelById, Decide
<1>18. CASE UNCHANGED vars
  BY <1>18 DEF vars
<1> QED BY <1>1, <1>2, <1>3, <1>4, <1>5, <1>6, <1>7, <1>8, <1>9, <1>10, <1>11, <1>12,
      <1>13, <1>14, <1>15, <1>16, <1>17, <1>18 DEF Next, Verify, Command

\* Nothing passes that is not vouched for.
LEMMA VouchedStep == ASSUME IInv, [Next]_vars PROVE (TrustIsVouched /\ PassIsVouched /\
      OnlyVouchedKeys)'
<1> USE IdentityAssumption DEF IInv, TypeOK, Shown, Decisions, Over, Places,
      EarlyIsNoChallenge, OnePlace, WaitsForOne, Early, JoinedAreAlike, TrustIsVouched,
      PassIsVouched, OnlyVouchedKeys, None, Nobody, attempt, state, main
<1>1. ASSUME NEW a \in Attempts, NEW k \in Keys, Present(a, k) PROVE (TrustIsVouched /\
      PassIsVouched /\ OnlyVouchedKeys)'
  BY <1>1 DEF Present, Go
<1>2. ASSUME NEW a \in Attempts, LookUp(a) PROVE (TrustIsVouched /\ PassIsVouched /\
      OnlyVouchedKeys)'
  BY <1>2 DEF LookUp, Go, End
<1>3. ASSUME NEW a \in Attempts, Confirm(a) PROVE (TrustIsVouched /\ PassIsVouched /\
      OnlyVouchedKeys)'
  BY <1>3 DEF Confirm, Go, Trust
<1>4. ASSUME NEW a \in Attempts, ComparedRefused(a) PROVE (TrustIsVouched /\
      PassIsVouched /\ OnlyVouchedKeys)'
  BY <1>4 DEF ComparedRefused, Go
<1>5. ASSUME NEW a \in Attempts, Join(a) PROVE (TrustIsVouched /\ PassIsVouched /\
      OnlyVouchedKeys)'
  BY <1>5 DEF Join, Go, Unconfirmed, Same
<1>6. ASSUME NEW a \in Attempts, Challenge(a) PROVE (TrustIsVouched /\ PassIsVouched /\
      OnlyVouchedKeys)'
  BY <1>6 DEF Challenge, Go, Unconfirmed, Same, Others
<1>7. ASSUME NEW a \in Attempts, CancelSuperseded(a) PROVE (TrustIsVouched /\
      PassIsVouched /\ OnlyVouchedKeys)'
  BY <1>7 DEF CancelSuperseded
<1>8. ASSUME NEW a \in Attempts, Ask(a) PROVE (TrustIsVouched /\ PassIsVouched /\
      OnlyVouchedKeys)'
  BY <1>8 DEF Ask, Go
<1>9. ASSUME NEW a \in Attempts, Wake(a) PROVE (TrustIsVouched /\ PassIsVouched /\
      OnlyVouchedKeys)'
  <2>1. /\ at[a] = "waiting" /\ decision[waitsOn[a]] # None
        /\ at' = [at EXCEPT ![a] = IF decision[waitsOn[a]] = "Accepted" THEN "ok" ELSE "refused"]
    BY <1>9 DEF Wake, Go
  <2>2. UNCHANGED <<store, trusted, presented, decision, owed, vouched>>
    BY <1>9 DEF Wake
  <2>3. at'[a] = "ok" => <<SessionOf[a], presented[a]>> \in vouched
    BY <2>1
  <2>4. \A b \in Attempts : b # a => at'[b] = at[b]
    BY <2>1
  <2>5. at'[a] \in {"ok", "refused"}
    BY <2>1
  <2> QED BY <2>2, <2>3, <2>4, <2>5
<1>10. ASSUME NEW c \in Attempts, Accept(c) PROVE (TrustIsVouched /\ PassIsVouched /\
      OnlyVouchedKeys)'
  BY <1>10 DEF Accept, Asked, Decide, Trust
<1>11. ASSUME NEW c \in Attempts, AcceptAndSave(c) PROVE (TrustIsVouched /\
      PassIsVouched /\ OnlyVouchedKeys)'
  BY <1>11 DEF AcceptAndSave, Asked, Decide, Trust, Alike, End
<1>12. ASSUME NEW c \in Attempts, Reject(c) PROVE (TrustIsVouched /\ PassIsVouched /\
      OnlyVouchedKeys)'
  BY <1>12 DEF Reject, Decide
<1>13. ASSUME NEW s \in Sessions, CloseSession(s) PROVE (TrustIsVouched /\ PassIsVouched
      /\ OnlyVouchedKeys)'
  BY <1>13 DEF CloseSession, CancelSession, Decide
<1>14. ASSUME NEW e \in Endpoints, ForgetEndpoint(e) PROVE (TrustIsVouched /\
      PassIsVouched /\ OnlyVouchedKeys)'
  BY <1>14 DEF ForgetEndpoint
<1>15. CASE CancelAll
  BY <1>15 DEF CancelAll
<1>16. CASE Deliver
  BY <1>16 DEF Deliver
<1>17. CASE CancelById
  BY <1>17 DEF CancelById, Decide
<1>18. CASE UNCHANGED vars
  BY <1>18 DEF vars
<1> QED BY <1>1, <1>2, <1>3, <1>4, <1>5, <1>6, <1>7, <1>8, <1>9, <1>10, <1>11, <1>12,
      <1>13, <1>14, <1>15, <1>16, <1>17, <1>18 DEF Next, Verify, Command

\* A closed session stays forgotten, and there is one question at a time.
LEMMA ClosedStep == ASSUME TypeOK, ClosedIsForgotten, OneQuestion, [Next]_vars PROVE
      (ClosedIsForgotten /\ OneQuestion)'
<1> USE IdentityAssumption DEF TypeOK, ClosedIsForgotten, OneQuestion, attempt, state,
      main
<1>1. ASSUME NEW a \in Attempts, NEW k \in Keys, Present(a, k) PROVE (ClosedIsForgotten
      /\ OneQuestion)'
  BY <1>1 DEF Present, Go
<1>2. ASSUME NEW a \in Attempts, LookUp(a) PROVE (ClosedIsForgotten /\ OneQuestion)'
  BY <1>2 DEF LookUp, Go, End
<1>3. ASSUME NEW a \in Attempts, Confirm(a) PROVE (ClosedIsForgotten /\ OneQuestion)'
  BY <1>3 DEF Confirm, Go, Trust
<1>4. ASSUME NEW a \in Attempts, ComparedRefused(a) PROVE (ClosedIsForgotten /\
      OneQuestion)'
  BY <1>4 DEF ComparedRefused, Go
<1>5. ASSUME NEW a \in Attempts, Join(a) PROVE (ClosedIsForgotten /\ OneQuestion)'
  BY <1>5 DEF Join, Go, Unconfirmed, Same
<1>6. ASSUME NEW a \in Attempts, Challenge(a) PROVE (ClosedIsForgotten /\ OneQuestion)'
  BY <1>6 DEF Challenge, Go, Unconfirmed, Same, Others
<1>7. ASSUME NEW a \in Attempts, CancelSuperseded(a) PROVE (ClosedIsForgotten /\
      OneQuestion)'
  BY <1>7 DEF CancelSuperseded
<1>8. ASSUME NEW a \in Attempts, Ask(a) PROVE (ClosedIsForgotten /\ OneQuestion)'
  BY <1>8 DEF Ask, Go
<1>9. ASSUME NEW a \in Attempts, Wake(a) PROVE (ClosedIsForgotten /\ OneQuestion)'
  BY <1>9 DEF Wake, Go
<1>10. ASSUME NEW c \in Attempts, Accept(c) PROVE (ClosedIsForgotten /\ OneQuestion)'
  BY <1>10 DEF Accept, Asked, Decide, Trust
<1>11. ASSUME NEW c \in Attempts, AcceptAndSave(c) PROVE (ClosedIsForgotten /\
      OneQuestion)'
  BY <1>11 DEF AcceptAndSave, Asked, Decide, Trust, Alike, End
<1>12. ASSUME NEW c \in Attempts, Reject(c) PROVE (ClosedIsForgotten /\ OneQuestion)'
  BY <1>12 DEF Reject, Decide
<1>13. ASSUME NEW s \in Sessions, CloseSession(s) PROVE (ClosedIsForgotten /\
      OneQuestion)'
  BY <1>13 DEF CloseSession, CancelSession, Decide
<1>14. ASSUME NEW e \in Endpoints, ForgetEndpoint(e) PROVE (ClosedIsForgotten /\
      OneQuestion)'
  BY <1>14 DEF ForgetEndpoint
<1>15. CASE CancelAll
  BY <1>15 DEF CancelAll
<1>16. CASE Deliver
  BY <1>16 DEF Deliver
<1>17. CASE CancelById
  BY <1>17 DEF CancelById, Decide
<1>18. CASE UNCHANGED vars
  BY <1>18 DEF vars
<1> QED BY <1>1, <1>2, <1>3, <1>4, <1>5, <1>6, <1>7, <1>8, <1>9, <1>10, <1>11, <1>12,
      <1>13, <1>14, <1>15, <1>16, <1>17, <1>18 DEF Next, Verify, Command

\* Nobody is left behind.
LEMMA LeftStep == ASSUME IInv, [Next]_vars PROVE NobodyLeftBehind'
<1> USE IdentityAssumption DEF IInv, TypeOK, Decisions, Over, Places,
      EarlyIsNoChallenge, OnePlace, SupersedingOnly, WaitsForOne, Early,
      NobodyLeftBehind, None, Nobody, attempt, state, main
<1>1. ASSUME NEW a \in Attempts, NEW k \in Keys, Present(a, k) PROVE NobodyLeftBehind'
  BY <1>1 DEF Present, Go
<1>2. ASSUME NEW a \in Attempts, LookUp(a) PROVE NobodyLeftBehind'
  BY <1>2 DEF LookUp, Go, End
<1>3. ASSUME NEW a \in Attempts, Confirm(a) PROVE NobodyLeftBehind'
  BY <1>3 DEF Confirm, Go, Trust
<1>4. ASSUME NEW a \in Attempts, ComparedRefused(a) PROVE NobodyLeftBehind'
  BY <1>4 DEF ComparedRefused, Go
<1>5. ASSUME NEW a \in Attempts, Join(a) PROVE NobodyLeftBehind'
  <2>1. PICK c \in Same(a) : waitsOn' = [waitsOn EXCEPT ![a] = c]
    BY <1>5 DEF Join
  <2>2. c \in pending' /\ waitsOn'[a] = c
    BY <1>5, <2>1 DEF Join, Same
  <2>3. ASSUME NEW b \in Attempts, b # a
        PROVE  waitsOn'[b] = waitsOn[b] /\ at'[b] = at[b]
    BY <1>5, <2>1, <2>3 DEF Join, Go
  <2>4. supersedes' = supersedes /\ decision' = decision /\ owed' = owed /\ pending' =
        pending
    BY <1>5 DEF Join
  <2>5. \A b \in Attempts : at[b] = "superseding" => at'[b] = "superseding"
    BY <1>5 DEF Join, Go, Unconfirmed
  <2> QED BY <2>2, <2>3, <2>4, <2>5
<1>6. ASSUME NEW a \in Attempts, Challenge(a) PROVE NobodyLeftBehind'
  <2>1. /\ pending' = (pending \ Others(a)) \cup {a}
        /\ supersedes' = [supersedes EXCEPT ![a] = Others(a)]
        /\ waitsOn' = [waitsOn EXCEPT ![a] = a]
        /\ at' = [at EXCEPT ![a] = "superseding"] /\ at[a] = "compared"
        /\ UNCHANGED <<decision, owed>>
    BY <1>6 DEF Challenge, Go, Unconfirmed
  <2>2. a \in pending' /\ waitsOn'[a] = a /\ at'[a] = "superseding" /\ supersedes'[a] = Others(a)
    BY <2>1
  <2>3. ASSUME NEW b \in Attempts, b # a
        PROVE  waitsOn'[b] = waitsOn[b] /\ at'[b] = at[b] /\ supersedes'[b] = supersedes[b]
    BY <2>1, <2>3
  <2>4. ASSUME NEW b \in Attempts, b # a, at[b] \in {"superseding", "waiting"}
        PROVE  \/ waitsOn[b] \in pending'
               \/ decision'[waitsOn[b]] # None
               \/ owed'[waitsOn[b]] # None
               \/ \E d \in Attempts : at'[d] = "superseding" /\ waitsOn[b] \in supersedes'[d]
    <3>1. CASE waitsOn[b] \in pending
      <4>1. waitsOn[b] \in pending' \/ waitsOn[b] \in supersedes'[a]
        BY <2>1, <2>2, <3>1
      <4> QED BY <2>2, <4>1
    <3>2. CASE \E d \in Attempts : at[d] = "superseding" /\ waitsOn[b] \in supersedes[d]
      BY <2>1, <2>3, <3>2
    <3> QED BY <2>1, <2>4, <3>1, <3>2
  <2> QED BY <2>2, <2>3, <2>4
<1>7. ASSUME NEW a \in Attempts, CancelSuperseded(a) PROVE NobodyLeftBehind'
  BY <1>7 DEF CancelSuperseded
<1>8. ASSUME NEW a \in Attempts, Ask(a) PROVE NobodyLeftBehind'
  BY <1>8 DEF Ask, Go
<1>9. ASSUME NEW a \in Attempts, Wake(a) PROVE NobodyLeftBehind'
  BY <1>9 DEF Wake, Go
<1>10. ASSUME NEW c \in Attempts, Accept(c) PROVE NobodyLeftBehind'
  BY <1>10 DEF Accept, Asked, Decide, Trust
<1>11. ASSUME NEW c \in Attempts, AcceptAndSave(c) PROVE NobodyLeftBehind'
  BY <1>11 DEF AcceptAndSave, Asked, Decide, Trust, Alike, End
<1>12. ASSUME NEW c \in Attempts, Reject(c) PROVE NobodyLeftBehind'
  BY <1>12 DEF Reject, Decide
<1>13. ASSUME NEW s \in Sessions, CloseSession(s) PROVE NobodyLeftBehind'
  BY <1>13 DEF CloseSession, CancelSession, Decide
<1>14. ASSUME NEW e \in Endpoints, ForgetEndpoint(e) PROVE NobodyLeftBehind'
  BY <1>14 DEF ForgetEndpoint
<1>15. CASE CancelAll
  BY <1>15 DEF CancelAll
<1>16. CASE Deliver
  BY <1>16 DEF Deliver
<1>17. CASE CancelById
  BY <1>17 DEF CancelById, Decide
<1>18. CASE UNCHANGED vars
  BY <1>18 DEF vars
<1> QED BY <1>1, <1>2, <1>3, <1>4, <1>5, <1>6, <1>7, <1>8, <1>9, <1>10, <1>11, <1>12,
      <1>13, <1>14, <1>15, <1>16, <1>17, <1>18 DEF Next, Verify, Command

\* What has been decided stands.
LEMMA OnceStep == ASSUME IInv, [Next]_vars PROVE DecisionsStand
<1> USE IdentityAssumption DEF IInv, TypeOK, Decisions, Over, Places,
      EarlyIsNoChallenge, OnePlace, SupersedingOnly, Early, None, DecisionsStand,
      attempt, state, main
<1>1. ASSUME NEW a \in Attempts, NEW k \in Keys, Present(a, k) PROVE DecisionsStand
  BY <1>1 DEF Present, Go
<1>2. ASSUME NEW a \in Attempts, LookUp(a) PROVE DecisionsStand
  BY <1>2 DEF LookUp, Go, End
<1>3. ASSUME NEW a \in Attempts, Confirm(a) PROVE DecisionsStand
  BY <1>3 DEF Confirm, Go, Trust
<1>4. ASSUME NEW a \in Attempts, ComparedRefused(a) PROVE DecisionsStand
  BY <1>4 DEF ComparedRefused, Go
<1>5. ASSUME NEW a \in Attempts, Join(a) PROVE DecisionsStand
  BY <1>5 DEF Join, Go, Unconfirmed, Same
<1>6. ASSUME NEW a \in Attempts, Challenge(a) PROVE DecisionsStand
  BY <1>6 DEF Challenge, Go, Unconfirmed, Same, Others
<1>7. ASSUME NEW a \in Attempts, CancelSuperseded(a) PROVE DecisionsStand
  BY <1>7 DEF CancelSuperseded
<1>8. ASSUME NEW a \in Attempts, Ask(a) PROVE DecisionsStand
  BY <1>8 DEF Ask, Go
<1>9. ASSUME NEW a \in Attempts, Wake(a) PROVE DecisionsStand
  BY <1>9 DEF Wake, Go
<1>10. ASSUME NEW c \in Attempts, Accept(c) PROVE DecisionsStand
  BY <1>10 DEF Accept, Asked, Decide, Trust
<1>11. ASSUME NEW c \in Attempts, AcceptAndSave(c) PROVE DecisionsStand
  BY <1>11 DEF AcceptAndSave, Asked, Decide, Trust, Alike, End
<1>12. ASSUME NEW c \in Attempts, Reject(c) PROVE DecisionsStand
  BY <1>12 DEF Reject, Decide
<1>13. ASSUME NEW s \in Sessions, CloseSession(s) PROVE DecisionsStand
  BY <1>13 DEF CloseSession, CancelSession, Decide
<1>14. ASSUME NEW e \in Endpoints, ForgetEndpoint(e) PROVE DecisionsStand
  BY <1>14 DEF ForgetEndpoint
<1>15. CASE CancelAll
  BY <1>15 DEF CancelAll
<1>16. CASE Deliver
  BY <1>16 DEF Deliver
<1>17. CASE CancelById
  BY <1>17 DEF CancelById, Decide
<1>18. CASE UNCHANGED vars
  BY <1>18 DEF vars
<1> QED BY <1>1, <1>2, <1>3, <1>4, <1>5, <1>6, <1>7, <1>8, <1>9, <1>10, <1>11, <1>12,
      <1>13, <1>14, <1>15, <1>16, <1>17, <1>18 DEF Next, Verify, Command

-----------------------------------------------------------------------------
(* The theorems.                                                           *)

\* The invariant: through any interleaving of verify, the user's decisions and
\* the closing of sessions, a challenge is in one place and what it lets through
\* is vouched for.
THEOREM InvariantHolds == Spec => []IInv
<1>1. Init => IInv
  <2> SUFFICES ASSUME Init PROVE IInv
    OBVIOUS
  <2>1. TypeOK /\ Shown
    BY IdentityAssumption DEF Init, TypeOK, Shown, Decisions, Over
  <2>2. Places
    BY IdentityAssumption DEF Init, Early, Places, EarlyIsNoChallenge, OnePlace,
          SupersedingOnly, WaitsForOne, Nobody
  <2>3. JoinedAreAlike /\ OnlyVouchedKeys /\ NobodyLeftBehind
    BY DEF Init, JoinedAreAlike, OnlyVouchedKeys, NobodyLeftBehind
  <2>4. PassIsVouched
    BY DEF Init, PassIsVouched, None
  <2>5. TrustIsVouched
    BY IdentityAssumption DEF Init, TrustIsVouched
  <2>6. ClosedIsForgotten /\ OneQuestion
    BY DEF Init, ClosedIsForgotten, OneQuestion
  <2> QED BY <2>1, <2>2, <2>3, <2>4, <2>5, <2>6 DEF IInv
<1>2. IInv /\ [Next]_vars => IInv'
  <2> SUFFICES ASSUME IInv, [Next]_vars PROVE IInv'
    OBVIOUS
  <2>1. TypeOK' /\ Shown'
    BY TypeStep DEF IInv
  <2>2. Places'
    BY PlacesStep DEF IInv
  <2>3. JoinedAreAlike'
    BY JoinedStep DEF IInv
  <2>4. TrustIsVouched' /\ PassIsVouched' /\ OnlyVouchedKeys'
    BY VouchedStep
  <2>5. ClosedIsForgotten' /\ OneQuestion'
    BY ClosedStep DEF IInv
  <2>6. NobodyLeftBehind'
    BY LeftStep
  <2> QED BY <2>1, <2>2, <2>3, <2>4, <2>5, <2>6 DEF IInv
<1> QED BY <1>1, <1>2, PTL DEF Spec

\* The state of HostIdentityService keeps its types.
THEOREM TypeCorrect == Spec => []TypeOK
<1>1. IInv => TypeOK
  BY DEF IInv
<1> QED BY <1>1, InvariantHolds, PTL

\* verify returns Ok only for a key the user has accepted in this session, or
\* saved for this endpoint in any.
THEOREM OnlyVouchedKeysHolds == Spec => []OnlyVouchedKeys
<1>1. IInv => OnlyVouchedKeys
  BY DEF IInv
<1> QED BY <1>1, InvariantHolds, PTL

\* IdentityState.trusted and the trust store hold keys the user stands for only.
THEOREM TrustIsVouchedHolds == Spec => []TrustIsVouched
<1>1. IInv => TrustIsVouched
  BY DEF IInv
<1> QED BY <1>1, InvariantHolds, PTL

\* wait_for_decision never waits for a challenge that can no longer be decided.
THEOREM NobodyLeftBehindHolds == Spec => []NobodyLeftBehind
<1>1. IInv => NobodyLeftBehind
  BY DEF IInv
<1> QED BY <1>1, InvariantHolds, PTL

\* After cancel_session nothing of the session comes back into trusted or
\* pending, however late a verifier arrives.
THEOREM ClosedIsForgottenHolds == Spec => []ClosedIsForgotten
<1>1. IInv => ClosedIsForgotten
  BY DEF IInv
<1> QED BY <1>1, InvariantHolds, PTL

\* verify never leaves two challenges of a session pending: it merges or
\* supersedes.
THEOREM OneQuestionHolds == Spec => []OneQuestion
<1>1. IInv => OneQuestion
  BY DEF IInv
<1> QED BY <1>1, InvariantHolds, PTL

\* verify merges an attempt only into a challenge of its session, for its key.
THEOREM JoinedAreAlikeHolds == Spec => []JoinedAreAlike
<1>1. IInv => JoinedAreAlike
  BY DEF IInv
<1> QED BY <1>1, InvariantHolds, PTL

\* decide writes a challenge's decision once, and the one that was taken when it
\* was removed from pending.
THEOREM DecidedOnceHolds == Spec => DecidedOnce
<1>1. IInv /\ [Next]_vars => [DecisionsStand]_vars
  BY OnceStep
<1> QED BY <1>1, InvariantHolds, PTL DEF Spec, DecidedOnce, DecisionsStand

=============================================================================
