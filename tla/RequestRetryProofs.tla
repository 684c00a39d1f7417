------------------------- MODULE RequestRetryProofs -------------------------
(* Safety of RequestRetry, for any store of credentials and any lengths of  *)
(* time, proved from an inductive invariant.                                *)
EXTENDS RequestRetry, TLAPS

(* What remains of the deadline is no more than the configured timeout, and *)
(* what loadCredentials was given for it is still enough.                   *)
ValidityCoversDeadline ==
    /\ pc \notin {"idle", "done"} => deadline <= now + Timeout
    /\ pc \in {"list", "get"} => deadline <= now + minValidity

(* The second attempt follows a call that was answered 401, and until it    *)
(* reads its own list the credentials are those of the first.  No call is   *)
(* made without credentials.                                                *)
SecondFollowsRejection ==
    /\ pc = "call" => credentials # {}
    /\ attempt = 1 =>
         /\ previous # {} /\ previous \subseteq rejected
         /\ pc \in {"idle", "load", "list"} => credentials \subseteq previous

Inv ==
    /\ TypeOK
    /\ ValidityCoversDeadline
    /\ SecondFollowsRejection
    /\ CredentialsOutliveRequest
    /\ HelperDeadlineFits
    /\ AuthErrorIsGenuine

-----------------------------------------------------------------------------
(* Rounding up to whole seconds adds less than one of them. *)
LEMMA SecondsRoundUp ==
    ASSUME NEW rest \in Nat \ {0}
    PROVE  LET seconds == (rest + Second - 1) \div Second IN
           /\ seconds \in Nat \ {0}
           /\ rest <= seconds * Second
           /\ seconds * Second < rest + Second
  <1> DEFINE seconds == (rest + Second - 1) \div Second
  <1>1. Second \in Nat \ {0} /\ rest + Second - 1 \in Nat
    BY TimeAssumption
  <1>2. /\ seconds \in Nat
        /\ seconds * Second <= rest + Second - 1
        /\ rest + Second - 1 < seconds * Second + Second
    BY <1>1
  <1>3. seconds # 0
    BY <1>1, <1>2
  <1> HIDE DEF seconds
  <1>4. seconds * Second \in Nat
    BY <1>1, <1>2
  <1>5. rest <= seconds * Second /\ seconds * Second < rest + Second
    BY <1>1, <1>2, <1>4
  <1> QED
    BY <1>2, <1>3, <1>5 DEF seconds

(* An end of the request with an outcome that is genuine keeps the invariant.*)
LEMMA ConcludeStep ==
    ASSUME NEW outcome \in Replies \ {"none"}, Inv, pc # "done", Conclude(outcome),
           rejected' \in SUBSET Token, rejected \subseteq rejected',
           outcome = "credential_expired" => attempt = 1 /\ credentials \subseteq rejected'
    PROVE  Inv'
  <1>1. TypeOK'
    BY TimeAssumption DEF Conclude, Inv, TypeOK, host
  <1>2. AuthErrorIsGenuine'
    BY DEF Conclude, Inv, SecondFollowsRejection, AuthErrorIsGenuine
  <1>3. SecondFollowsRejection'
    BY DEF Conclude, Inv, SecondFollowsRejection
  <1> QED
    BY <1>1, <1>2, <1>3
    DEF Conclude, Inv, ValidityCoversDeadline, CredentialsOutliveRequest,
        HelperDeadlineFits, host

LEMMA FinishStep ==
    ASSUME NEW outcome \in Replies \ {"none"}, Inv, pc # "done", Finish(outcome),
           outcome = "credential_expired" => attempt = 1 /\ credentials \subseteq previous
    PROVE  Inv'
  <1>1. rejected' = rejected /\ rejected \in SUBSET Token
    BY DEF Finish, Inv, TypeOK
  <1>2. attempt = 1 => previous \subseteq rejected
    BY DEF Inv, SecondFollowsRejection
  <1> QED
    BY <1>1, <1>2, ConcludeStep DEF Finish

(* loadCredentials fails: on the second attempt there is nothing new. *)
LEMMA LoadErrorStep ==
    ASSUME Inv, pc # "done", LoadError, attempt = 1 => credentials \subseteq previous
    PROVE  Inv'
  <1>1. CASE attempt = 0
    BY <1>1, FinishStep DEF LoadError, Replies
  <1>2. CASE attempt = 1
    BY <1>2, FinishStep DEF LoadError, Replies
  <1> QED
    BY <1>1, <1>2 DEF Inv, TypeOK

-----------------------------------------------------------------------------
(* The initial states satisfy the invariant. *)
LEMMA InitialInvariant == Init => Inv
  BY TimeAssumption
  DEF Init, Inv, TypeOK, Token, Replies, ValidityCoversDeadline, SecondFollowsRejection,
      CredentialsOutliveRequest, HelperDeadlineFits, AuthErrorIsGenuine

(* Every step keeps it. *)
LEMMA InductiveInvariant == Inv /\ [Next]_vars => Inv'
  <1> SUFFICES ASSUME Inv, [Next]_vars PROVE Inv'
    OBVIOUS
  <1> USE TimeAssumption DEF host, reading, attempts, request
  <1>1. CASE Begin
    BY <1>1
    DEF Begin, Inv, TypeOK, ValidityCoversDeadline, SecondFollowsRejection,
        CredentialsOutliveRequest, HelperDeadlineFits, AuthErrorIsGenuine
  <1>2. CASE LoadTooLate
    BY <1>2, FinishStep DEF LoadTooLate, Replies
  <1>3. CASE StartLoading
    <2>1. minValidity' \in 0..Timeout /\ minValidity' > 0 /\ minValidity' = deadline - now
      BY <1>3 DEF StartLoading, TimeIsUp, Inv, TypeOK, ValidityCoversDeadline
    <2>2. TypeOK'
      BY <1>3, <2>1 DEF StartLoading, Inv, TypeOK
    <2>3. ValidityCoversDeadline'
      BY <1>3, <2>1 DEF StartLoading, Inv, TypeOK, ValidityCoversDeadline
    <2> QED
      BY <1>3, <2>2, <2>3
      DEF StartLoading, Inv, SecondFollowsRejection, CredentialsOutliveRequest,
          HelperDeadlineFits, AuthErrorIsGenuine
  <1>4. CASE ListAuths
    BY <1>4
    DEF ListAuths, Inv, TypeOK, ValidityCoversDeadline, SecondFollowsRejection,
        CredentialsOutliveRequest, HelperDeadlineFits, AuthErrorIsGenuine
  <1>5. CASE ListFails
    BY <1>5, LoadErrorStep DEF ListFails, Inv, SecondFollowsRejection
  <1>6. ASSUME NEW a \in Auth, GetAuth(a) PROVE Inv'
    <2>1. stored[a] \in Token
      BY DEF Inv, TypeOK
    <2>2. TypeOK'
      BY <1>6, <2>1 DEF GetAuth, Inv, TypeOK
    <2>3. CredentialsOutliveRequest'
      <3> SUFFICES ASSUME NEW t \in credentials'
                   PROVE  t.exp = 0 \/ t.exp > deadline + Margin
        BY <1>6 DEF GetAuth, CredentialsOutliveRequest
      <3>1. CASE t \in credentials
        BY <1>6, <3>1 DEF GetAuth, Inv, CredentialsOutliveRequest
      <3>2. CASE t = stored[a] /\ OutlivesRequest(t)
        <4>1. t.exp \in Nat
          BY <2>1, <3>2 DEF Token
        <4>2. t.exp = 0 \/ t.exp > now + minValidity + Margin
          BY <3>2, <4>1 DEF OutlivesRequest, ExpiresBefore, Inv, TypeOK
        <4>3. deadline <= now + minValidity
          BY <1>6 DEF GetAuth, Inv, ValidityCoversDeadline
        <4> QED
          BY <4>1, <4>2, <4>3 DEF Inv, TypeOK
      <3> QED
        BY <1>6, <3>1, <3>2 DEF GetAuth
    <2> QED
      BY <1>6, <2>2, <2>3
      DEF GetAuth, Inv, TypeOK, ValidityCoversDeadline, SecondFollowsRejection,
          HelperDeadlineFits, AuthErrorIsGenuine
  <1>7. ASSUME NEW a \in Auth, GetFails(a) PROVE Inv'
    BY <1>7
    DEF GetFails, Inv, TypeOK, ValidityCoversDeadline, SecondFollowsRejection,
        CredentialsOutliveRequest, HelperDeadlineFits, AuthErrorIsGenuine
  <1>8. CASE NoCredentials
    BY <1>8, LoadErrorStep DEF NoCredentials
  <1>9. CASE NothingNew
    BY <1>9, FinishStep DEF NothingNew, Loaded, Refreshed, Replies
  <1>10. CASE CallTooLate
    BY <1>10, FinishStep DEF CallTooLate, Loaded, Replies
  <1>11. CASE Call
    <2> DEFINE rest == deadline - now
    <2>1. rest \in Nat \ {0} /\ SecondsLeft = (rest + Second - 1) \div Second
      BY <1>11 DEF Call, TimeIsUp, SecondsLeft, Inv, TypeOK
    <2>2. /\ SecondsLeft \in Nat \ {0}
          /\ rest <= SecondsLeft * Second
          /\ SecondsLeft * Second < rest + Second
      BY <2>1, SecondsRoundUp
    <2>3. helperDeadline' = now + SecondsLeft * Second
      BY <1>11, <2>2 DEF Call, HelperSeconds
    <2>4. SecondsLeft * Second \in Nat
      BY <2>2
    <2> HIDE DEF rest
    <2>5. helperDeadline' \in Nat
      BY <2>3, <2>4 DEF Inv, TypeOK
    <2>6. deadline <= helperDeadline' /\ helperDeadline' < deadline + Second
      BY <2>2, <2>3, <2>4 DEF rest, Inv, TypeOK
    <2>7. TypeOK' /\ HelperDeadlineFits'
      BY <1>11, <2>5, <2>6 DEF Call, Loaded, Inv, TypeOK, HelperDeadlineFits
    <2> QED
      BY <1>11, <2>7
      DEF Call, Loaded, Inv, ValidityCoversDeadline, SecondFollowsRejection,
          CredentialsOutliveRequest, AuthErrorIsGenuine
  <1>12. CASE CallSucceeds
    BY <1>12, FinishStep DEF CallSucceeds, Replies
  <1>13. CASE CallRejected
    BY <1>13
    DEF CallRejected, Inv, TypeOK, ValidityCoversDeadline, SecondFollowsRejection,
        CredentialsOutliveRequest, HelperDeadlineFits, AuthErrorIsGenuine
  <1>14. CASE CallRejectedAgain
    BY <1>14, ConcludeStep DEF CallRejectedAgain, Inv, TypeOK, Replies
  <1>15. CASE CallFails
    BY <1>15, FinishStep DEF CallFails, Replies
  <1>16. CASE CallExpires
    BY <1>16, FinishStep DEF CallExpires, Replies
  <1>17. ASSUME NEW a \in Auth, HostRefreshes(a) PROVE Inv'
    <2>1. stored' \in [Auth -> Token]
      BY <1>17 DEF HostRefreshes, Inv, TypeOK, Token
    <2> QED
      BY <1>17, <2>1
      DEF HostRefreshes, Inv, TypeOK, ValidityCoversDeadline, SecondFollowsRejection,
          CredentialsOutliveRequest, HelperDeadlineFits, AuthErrorIsGenuine
  <1>18. ASSUME NEW a \in Auth, HostToggles(a) PROVE Inv'
    BY <1>18
    DEF HostToggles, Inv, TypeOK, ValidityCoversDeadline, SecondFollowsRejection,
        CredentialsOutliveRequest, HelperDeadlineFits, AuthErrorIsGenuine
  <1>19. CASE Tick
    BY <1>19
    DEF Tick, Inv, TypeOK, ValidityCoversDeadline, SecondFollowsRejection,
        CredentialsOutliveRequest, HelperDeadlineFits, AuthErrorIsGenuine
  <1>20. CASE UNCHANGED vars
    BY <1>20
    DEF vars, Inv, TypeOK, ValidityCoversDeadline, SecondFollowsRejection,
        CredentialsOutliveRequest, HelperDeadlineFits, AuthErrorIsGenuine
  <1> QED
    BY <1>1, <1>2, <1>3, <1>4, <1>5, <1>6, <1>7, <1>8, <1>9, <1>10, <1>11, <1>12,
       <1>13, <1>14, <1>15, <1>16, <1>17, <1>18, <1>19, <1>20
    DEF Next, Load, Decide, Answer, Environment

(* The inductive invariant holds in every reachable state. *)
THEOREM Invariant == Spec => []Inv
  <1> QED
    BY InitialInvariant, InductiveInvariant, PTL DEF Spec

(* The variables keep their types. *)
THEOREM TypesAreKept == Spec => []TypeOK
  <1>1. Inv => TypeOK
    BY DEF Inv
  <1> QED
    BY <1>1, Invariant, PTL

(* Every token sent to the helper outlives the request and the margin,      *)
(* however long the host took to hand it over.                              *)
THEOREM TokensOutliveRequest == Spec => []CredentialsOutliveRequest
  <1>1. Inv => CredentialsOutliveRequest
    BY DEF Inv
  <1> QED
    BY <1>1, Invariant, PTL

(* The helper's deadline is the plugin's, rounded up to a whole second.     *)
THEOREM DeadlinesAgree == Spec => []HelperDeadlineFits
  <1>1. Inv => HelperDeadlineFits
    BY DEF Inv
  <1> QED
    BY <1>1, Invariant, PTL

(* The client is told that its credentials expired only when every token    *)
(* the plugin read last was sent in a call the helper answered 401.         *)
THEOREM AuthErrorsAreGenuine == Spec => []AuthErrorIsGenuine
  <1>1. Inv => AuthErrorIsGenuine
    BY DEF Inv
  <1> QED
    BY <1>1, Invariant, PTL
=============================================================================
