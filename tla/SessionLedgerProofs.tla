------------------------- MODULE SessionLedgerProofs -------------------------
(* Theorems about SessionLedger: its rows keep the contract of a session for *)
(* any sessions, any bounds, and any statuses the listener is sent.          *)
EXTENDS SessionLedger, TLAPS

-----------------------------------------------------------------------------
(* The steps of the ledger, one by one *)

\* Every step is one of the actions, or changes nothing.
LEMMA LedgerActions ==
    ASSUME [LedgerNext]_ledgerVars
    PROVE  \/ \E s \in Sessions :
                \/ RunRefused(s)
                \/ StopEnqueues(s)
                \/ ReapRead(s)
                \/ SendPost(s)
                \/ SecretLost(s)
                \/ Age(s)
                \/ FinishedAges(s)
                \/ PublishHeard(s)
                \/ PublishUnheard(s)
                \/ StopUnheard(s)
                \/ DeleteSession(s)
           \/ \E s \in Sessions, ttl \in Lifetimes, c \in Callbacks : CreateSession(s, ttl, c)
           \/ \E s \in Sessions, n \in Storage : IssueCredentials(s, n)
           \/ \E s \in Sessions, m \in Storage : RunFails(s, m)
           \/ \E s \in Sessions, st \in Published : HandleStatus(s, st)
           \/ RevokeAfterCommit
           \/ ReapSettle
           \/ RecordOutcome
           \/ SenderCrash
           \/ CleanupAccounts
           \/ UNCHANGED ledgerVars
BY Zenon DEF LedgerNext, LedgerStep, RunRequest, Sender, StatusMessage, SkipStatus

-----------------------------------------------------------------------------
(* Each part of the invariant is kept by every step *)

\* What the helpers of several actions leave in each variable.
LEMMA EndNowType ==
    ASSUME LedgerTypeOK, NEW s \in Sessions, NEW st \in {"error", "stop"}, EndNow(s, st)
    PROVE  /\ status' \in [Sessions -> SessionStatus \cup {"none", "deleted"}]
           /\ finishedAt' \in [Sessions -> Nat]
           /\ age' \in [Sessions -> 0..2]
           /\ finishedLong' \in [Sessions -> BOOLEAN]
<1>t. /\ status \in [Sessions -> SessionStatus \cup {"none", "deleted"}]
      /\ finishedAt \in [Sessions -> Nat]
      /\ age \in [Sessions -> 0..2]
      /\ finishedLong \in [Sessions -> BOOLEAN]
  BY DEF LedgerTypeOK
<1>1. CASE Exists(s)
  <2>1. /\ status' = [status EXCEPT ![s] = st]
        /\ age' = [age EXCEPT ![s] = 0]
        /\ FinishNow(s)
    BY <1>1 DEF EndNow
  <2>2. st \in SessionStatus \cup {"none", "deleted"}
    BY DEF SessionStatus, Published, Terminal
  <2>3. status' \in [Sessions -> SessionStatus \cup {"none", "deleted"}]
    BY <1>t, <2>1, <2>2
  <2>4. age' \in [Sessions -> 0..2]
    BY <1>t, <2>1
  <2>5. finishedAt' \in [Sessions -> Nat] /\ finishedLong' \in [Sessions -> BOOLEAN]
    BY <1>t, <2>1 DEF FinishNow
  <2> QED
    BY <2>3, <2>4, <2>5
<1>2. CASE ~Exists(s)
  BY <1>t, <1>2 DEF EndNow
<1> QED
  BY <1>1, <1>2

LEMMA EnqueueType ==
    ASSUME LedgerTypeOK, NEW s \in Sessions, NEW st, Enqueue(s, st)
    PROVE  /\ callback' \in [Sessions -> {"none", "registered", "pending", "delivered", "failed"}]
           /\ verdict' \in [Sessions -> Terminal \cup {"none"}]
BY DEF Enqueue, LedgerTypeOK

LEMMA RevokeType ==
    ASSUME LedgerTypeOK, NEW s \in Sessions, Revoke(s)
    PROVE  /\ account' \in [Sessions -> {"none", "live", "revoked"}]
           /\ accountRow' \in [Sessions -> BOOLEAN]
BY DEF Revoke, LedgerTypeOK

LEMMA FailureType ==
    ASSUME LedgerTypeOK, Failure
    PROVE  failures' \in Nat
BY DEF Failure, LedgerTypeOK

LEMMA RevokeFailsType ==
    ASSUME LedgerTypeOK, NEW s \in Sessions, RevokeFails(s)
    PROVE  /\ account' \in [Sessions -> {"none", "live", "revoked"}]
           /\ accountRow' \in [Sessions -> BOOLEAN]
           /\ failures' \in Nat
BY DEF RevokeFails, Failure, LedgerTypeOK

\* A failed attempt leaves the row within its attempts, or failed.
LEMMA RecordFailureType ==
    ASSUME LedgerTypeOK, DecidedOnce, NEW s \in Sessions, callback[s] \in {"pending", "none"},
           RecordFailure(s)
    PROVE  /\ callback' \in [Sessions -> {"none", "registered", "pending", "delivered", "failed"}]
           /\ attempts' \in [Sessions -> 0..MaxAttempts]
<1>1. callback[s] # "none" => attempts[s] + 1 \in 0..MaxAttempts
  BY LedgerAssumption DEF DecidedOnce, LedgerTypeOK
<1> QED
  BY <1>1 DEF RecordFailure, LedgerTypeOK

\* Every transaction, call and request keeps every variable in its type.
LEMMA LedgerTypeStep ==
    ASSUME LedgerTypeOK, NothingBeforeRow, DecidedOnce, SenderHolds, [LedgerNext]_ledgerVars
    PROVE  LedgerTypeOK'
<1>p. Callbacks \subseteq BOOLEAN /\ Storage \subseteq BOOLEAN /\ MaxAttempts \in Nat
  BY LedgerAssumption
<1> USE DEF LedgerTypeOK, Terminal, Published, SessionStatus, Open, NoRead, NotPosted, rows, callbackVars, storageVars
<1>1. ASSUME NEW s \in Sessions, NEW ttl \in Lifetimes, NEW c \in Callbacks, CreateSession(s, ttl, c)
       PROVE  LedgerTypeOK'
  BY <1>1, <1>p DEF CreateSession
<1>2. ASSUME NEW s \in Sessions, NEW n \in Storage, IssueCredentials(s, n)
       PROVE  LedgerTypeOK'
  BY <1>2, <1>p DEF IssueCredentials
<1>3. ASSUME NEW s \in Sessions, NEW m \in Storage, RunFails(s, m)
       PROVE  LedgerTypeOK'
  <2>1. EndNow(s, "error") /\ Failure
    BY <1>3 DEF RunFails
  <2>2. account' \in [Sessions -> {"none", "live", "revoked"}]
    BY <1>3 DEF RunFails
  <2> QED
    BY <1>3, <2>1, <2>2, EndNowType, FailureType DEF RunFails
<1>4. ASSUME NEW s \in Sessions, RunRefused(s)
       PROVE  LedgerTypeOK'
  <2>1. EndNow(s, "stop")
    BY <1>4 DEF RunRefused
  <2>2. /\ account' \in [Sessions -> {"none", "live", "revoked"}]
        /\ accountRow' \in [Sessions -> BOOLEAN]
        /\ failures' \in Nat
    <3>1. CASE Revoke(s) /\ UNCHANGED failures
      BY <3>1, RevokeType
    <3>2. CASE RevokeFails(s)
      BY <3>2, RevokeFailsType
    <3> QED
      BY <1>4, <3>1, <3>2 DEF RunRefused
  <2> QED
    BY <1>4, <2>1, <2>2, EndNowType DEF RunRefused
<1>5. ASSUME NEW s \in Sessions, StopEnqueues(s)
       PROVE  LedgerTypeOK'
  BY <1>5, <1>p DEF StopEnqueues, Enqueue, Failure
<1>6. CASE RevokeAfterCommit
  <2>1. revoking \in Sessions
    BY <1>6 DEF RevokeAfterCommit
  <2>2. /\ account' \in [Sessions -> {"none", "live", "revoked"}]
        /\ accountRow' \in [Sessions -> BOOLEAN]
        /\ failures' \in Nat
    <3>1. CASE Revoke(revoking) /\ UNCHANGED failures
      BY <2>1, <3>1, RevokeType
    <3>2. CASE RevokeFails(revoking)
      BY <2>1, <3>2, RevokeFailsType
    <3> QED
      BY <1>6, <3>1, <3>2 DEF RevokeAfterCommit
  <2> QED
    BY <1>6, <2>2 DEF RevokeAfterCommit
<1>7. ASSUME NEW s \in Sessions, ReapRead(s)
       PROVE  LedgerTypeOK'
  <2>1. Exists(s) /\ status[s] \in SessionStatus
    BY <1>7 DEF ReapRead, Stale, NothingBeforeRow, Exists
  <2>2. reaping' \in [session : Sessions \cup {NoSession}, status : SessionStatus \cup {"none"}]
    BY <1>7, <2>1 DEF ReapRead
  <2> QED
    BY <1>7, <2>2 DEF ReapRead
<1>8. CASE ReapSettle
  BY <1>8, <1>p DEF ReapSettle, Enqueue, GiveUp
<1>9. ASSUME NEW s \in Sessions, SendPost(s)
       PROVE  LedgerTypeOK'
  <2>1. verdict[s] \in Terminal /\ heard[s] \cup {verdict[s]} \in SUBSET Terminal
    BY <1>9 DEF SendPost, Due, DecidedOnce
  <2>2. heard' \in [Sessions -> SUBSET Terminal]
    <3>1. CASE heard' = [heard EXCEPT ![s] = @ \cup {verdict[s]}]
      BY <2>1, <3>1
    <3>2. CASE UNCHANGED heard
      BY <3>2
    <3> QED
      BY <1>9, <3>1, <3>2 DEF SendPost
  <2>3. recording' \in [session : Sessions \cup {NoSession}, ok : BOOLEAN]
    <3>1. CASE recording' = [session |-> s, ok |-> TRUE]
      BY <3>1
    <3>2. CASE recording' = [session |-> s, ok |-> FALSE]
      BY <3>2
    <3> QED
      BY <1>9, <3>1, <3>2 DEF SendPost
  <2>4. failures' \in Nat
    BY <1>9, FailureType DEF SendPost
  <2> QED
    BY <1>9, <2>2, <2>3, <2>4 DEF SendPost
<1>10. CASE RecordOutcome
  <2> DEFINE s == recording.session
  <2>1. s \in Sessions /\ callback[s] \in {"pending", "none"}
    BY <1>10 DEF RecordOutcome, SenderHolds
  <2>2. /\ callback' \in [Sessions -> {"none", "registered", "pending", "delivered", "failed"}]
        /\ attempts' \in [Sessions -> 0..MaxAttempts]
    <3>1. CASE Delivered(s)
      BY <2>1, <3>1 DEF Delivered
    <3>2. CASE RecordFailure(s)
      BY <2>1, <3>2, RecordFailureType
    <3> QED
      BY <1>10, <3>1, <3>2 DEF RecordOutcome
  <2>3. failures' \in Nat
    BY <1>10, FailureType DEF RecordOutcome
  <2> QED
    BY <1>10, <2>2, <2>3 DEF RecordOutcome
<1>11. CASE SenderCrash
  BY <1>11, <1>p DEF SenderCrash, Failure
<1>12. ASSUME NEW s \in Sessions, Age(s)
        PROVE  LedgerTypeOK'
  BY <1>12, <1>p DEF Age
<1>13. ASSUME NEW s \in Sessions, FinishedAges(s)
        PROVE  LedgerTypeOK'
  BY <1>13, <1>p DEF FinishedAges
<1>14. CASE CleanupAccounts
  BY <1>14, <1>p DEF CleanupAccounts
<1>15. ASSUME NEW s \in Sessions, PublishHeard(s)
        PROVE  LedgerTypeOK'
  BY <1>15, <1>p DEF PublishHeard
<1>16. ASSUME NEW s \in Sessions, PublishUnheard(s)
        PROVE  LedgerTypeOK'
  <2>1. EndNow(s, "error") /\ published' \in Nat
    BY <1>16 DEF PublishUnheard
  <2>2. UNCHANGED <<callback, verdict>>
    BY <1>16 DEF PublishUnheard, SeenByRequest
  <2> QED
    BY <1>16, <2>1, <2>2, EndNowType DEF PublishUnheard
<1>17. ASSUME NEW s \in Sessions, StopUnheard(s)
        PROVE  LedgerTypeOK'
  <2>1. EndNow(s, "error") /\ published' \in Nat
    BY <1>17 DEF StopUnheard
  <2> QED
    BY <1>17, <2>1, EndNowType DEF StopUnheard
<1>18. ASSUME NEW s \in Sessions, DeleteSession(s)
        PROVE  LedgerTypeOK'
  BY <1>18, <1>p DEF DeleteSession
<1>19. ASSUME NEW s \in Sessions, NEW st \in Published, HandleStatus(s, st)
        PROVE  LedgerTypeOK'
  <2>1. /\ status' \in [Sessions -> SessionStatus \cup {"none", "deleted"}]
        /\ age' \in [Sessions -> 0..2]
    BY <1>19 DEF HandleStatus, SetStatus
  <2>2. /\ finishedAt' \in [Sessions -> Nat]
        /\ finishedLong' \in [Sessions -> BOOLEAN]
    <3>1. CASE FinishNow(s)
      BY <3>1 DEF FinishNow
    <3>2. CASE UNCHANGED <<finishedAt, finishedLong>>
      BY <3>2
    <3> QED
      BY <1>19, <3>1, <3>2 DEF HandleStatus, KeepOrStamp
  <2>3. /\ callback' \in [Sessions -> {"none", "registered", "pending", "delivered", "failed"}]
        /\ verdict' \in [Sessions -> Terminal \cup {"none"}]
        /\ failures' \in Nat
    <3>1. CASE Enqueue(s, st) /\ UNCHANGED failures
      BY <3>1, EnqueueType
    <3>2. CASE Failure /\ UNCHANGED <<callback, verdict>>
      BY <3>2, FailureType
    <3> QED
      BY <1>19, <3>1, <3>2 DEF HandleStatus
  <2>4. revoking' \in Sessions \cup {NoSession}
    BY <1>19 DEF HandleStatus, RevokeNext
  <2> QED
    BY <1>19, <2>1, <2>2, <2>3, <2>4 DEF HandleStatus
<1>20. CASE UNCHANGED ledgerVars
  BY <1>20 DEF ledgerVars
<1>21. ASSUME NEW s \in Sessions, SecretLost(s)
        PROVE  LedgerTypeOK'
  BY <1>21, <1>p DEF SecretLost, Failure
<1> QED
  BY LedgerActions, <1>21, <1>1, <1>2, <1>3, <1>4, <1>5, <1>6, <1>7, <1>8, <1>9, <1>10, <1>11, <1>12, <1>13, <1>14, <1>15, <1>16, <1>17, <1>18, <1>19, <1>20
  DEF ledgerVars

\* A session has nothing before its row, and no account row after it.
LEMMA BeforeRowStep ==
    ASSUME LedgerTypeOK, NothingBeforeRow, SenderHolds, [LedgerNext]_ledgerVars
    PROVE  NothingBeforeRow'
<1>p. /\ request \in [Sessions -> {"none", "created", "issued", "sent", "failed"}]
      /\ status \in [Sessions -> SessionStatus \cup {"none", "deleted"}]
      /\ finishedAt \in [Sessions -> Nat]
      /\ callback \in [Sessions -> {"none", "registered", "pending", "delivered", "failed"}]
      /\ verdict \in [Sessions -> Terminal \cup {"none"}]
      /\ attempts \in [Sessions -> 0..MaxAttempts]
      /\ accountRow \in [Sessions -> BOOLEAN]
      /\ revoking \in Sessions \cup {NoSession}
      /\ unheard \subseteq Sessions
  BY DEF LedgerTypeOK
<1> USE DEF NothingBeforeRow, Exists, Terminal, Published, SessionStatus, NoRead, NotPosted, rows, callbackVars, storageVars
<1>1. ASSUME NEW s \in Sessions, NEW ttl \in Lifetimes, NEW c \in Callbacks, CreateSession(s, ttl, c)
       PROVE  NothingBeforeRow'
  BY <1>1, <1>p DEF CreateSession
<1>2. ASSUME NEW s \in Sessions, NEW n \in Storage, IssueCredentials(s, n)
       PROVE  NothingBeforeRow'
  BY <1>2, <1>p DEF IssueCredentials
<1>3. ASSUME NEW s \in Sessions, NEW m \in Storage, RunFails(s, m)
       PROVE  NothingBeforeRow'
  BY <1>3, <1>p DEF RunFails, EndNow, FinishNow, Failure
<1>4. ASSUME NEW s \in Sessions, RunRefused(s)
       PROVE  NothingBeforeRow'
  BY <1>4, <1>p DEF RunRefused, EndNow, FinishNow, Revoke, RevokeFails, Failure
<1>5. ASSUME NEW s \in Sessions, StopEnqueues(s)
       PROVE  NothingBeforeRow'
  BY <1>5, <1>p DEF StopEnqueues, Enqueue, Failure
<1>6. CASE RevokeAfterCommit
  BY <1>6, <1>p DEF RevokeAfterCommit, Revoke, RevokeFails, Failure
<1>7. CASE ReapSettle
  BY <1>7, <1>p DEF ReapSettle, Enqueue, GiveUp
<1>8. CASE RecordOutcome
  BY <1>8, <1>p DEF RecordOutcome, Delivered, RecordFailure, Failure
<1>9. CASE CleanupAccounts
  BY <1>9, <1>p DEF CleanupAccounts
<1>10. ASSUME NEW s \in Sessions, PublishHeard(s)
        PROVE  NothingBeforeRow'
  BY <1>10, <1>p DEF PublishHeard
<1>11. ASSUME NEW s \in Sessions, PublishUnheard(s)
        PROVE  NothingBeforeRow'
  BY <1>11, <1>p DEF PublishUnheard, EndNow, FinishNow, SeenByRequest
<1>12. ASSUME NEW s \in Sessions, StopUnheard(s)
        PROVE  NothingBeforeRow'
  BY <1>12, <1>p DEF StopUnheard, EndNow, FinishNow
<1>13. ASSUME NEW s \in Sessions, DeleteSession(s)
        PROVE  NothingBeforeRow'
  BY <1>13, <1>p DEF DeleteSession
<1>14. ASSUME NEW s \in Sessions, NEW st \in Published, HandleStatus(s, st)
        PROVE  NothingBeforeRow'
  BY <1>14, <1>p DEF HandleStatus, SetStatus, KeepOrStamp, FinishNow, Enqueue, RevokeNext, Failure
<1>15. CASE UNCHANGED <<request, status, callback, verdict, attempts, finishedAt, accountRow>>
  BY <1>15
<1>16. ASSUME NEW s \in Sessions, SecretLost(s)
        PROVE  NothingBeforeRow'
  BY <1>16, <1>p DEF SecretLost, Due, Failure
<1> QED
  BY LedgerActions, <1>1, <1>2, <1>3, <1>4, <1>5, <1>6, <1>7, <1>8, <1>9, <1>10, <1>11, <1>12, <1>13, <1>14, <1>15, <1>16
  DEF ReapRead, SendPost, SenderCrash, Age, FinishedAges, ledgerVars

\* Only a registered callback is decided, and a pending one has attempts left.
LEMMA DecidedStep ==
    ASSUME LedgerTypeOK, NothingBeforeRow, DecidedOnce, SenderHolds, [LedgerNext]_ledgerVars
    PROVE  DecidedOnce'
<1>p. /\ callback \in [Sessions -> {"none", "registered", "pending", "delivered", "failed"}]
      /\ verdict \in [Sessions -> Terminal \cup {"none"}]
      /\ attempts \in [Sessions -> 0..MaxAttempts]
      /\ MaxAttempts \in Nat \ {0}
  BY LedgerAssumption DEF LedgerTypeOK
<1> USE DEF DecidedOnce, NothingBeforeRow, SenderHolds, Terminal, NoRead, NotPosted, rows, callbackVars, storageVars
<1>1. ASSUME NEW s \in Sessions, NEW ttl \in Lifetimes, NEW c \in Callbacks, CreateSession(s, ttl, c)
       PROVE  DecidedOnce'
  BY <1>1, <1>p DEF CreateSession
<1>2. ASSUME NEW s \in Sessions, StopEnqueues(s)
       PROVE  DecidedOnce'
  BY <1>2, <1>p DEF StopEnqueues, Enqueue, Failure
<1>3. CASE ReapSettle
  BY <1>3, <1>p DEF ReapSettle, Enqueue, GiveUp
<1>4. CASE RecordOutcome
  BY <1>4, <1>p DEF RecordOutcome, Delivered, RecordFailure, Failure
<1>5. ASSUME NEW s \in Sessions, PublishUnheard(s)
       PROVE  DecidedOnce'
  BY <1>5, <1>p DEF PublishUnheard, EndNow, FinishNow, SeenByRequest
<1>6. ASSUME NEW s \in Sessions, DeleteSession(s)
       PROVE  DecidedOnce'
  BY <1>6, <1>p DEF DeleteSession
<1>7. ASSUME NEW s \in Sessions, NEW st \in Published, HandleStatus(s, st)
       PROVE  DecidedOnce'
  BY <1>7, <1>p DEF HandleStatus, SetStatus, KeepOrStamp, FinishNow, Enqueue, RevokeNext, Failure
<1>8. CASE UNCHANGED <<callback, verdict, attempts>>
  BY <1>8
<1>9. ASSUME NEW s \in Sessions, SecretLost(s)
       PROVE  DecidedOnce'
  BY <1>9, <1>p DEF SecretLost, Failure
<1> QED
  BY LedgerActions, <1>1, <1>2, <1>3, <1>4, <1>5, <1>6, <1>7, <1>8, <1>9
  DEF IssueCredentials, RunFails, RunRefused, RevokeAfterCommit, ReapRead, SendPost, SenderCrash, Age, FinishedAges, CleanupAccounts, PublishHeard, StopUnheard, ledgerVars

\* Every end a process knows of comes after finished_at is set.
LEMMA StampedStep ==
    ASSUME LedgerTypeOK, NothingBeforeRow, EndIsStamped, SenderHolds, [LedgerNext]_ledgerVars
    PROVE  EndIsStamped'
<1>p. /\ request \in [Sessions -> {"none", "created", "issued", "sent", "failed"}]
      /\ status \in [Sessions -> SessionStatus \cup {"none", "deleted"}]
      /\ finishedAt \in [Sessions -> Nat]
      /\ verdict \in [Sessions -> Terminal \cup {"none"}]
      /\ account \in [Sessions -> {"none", "live", "revoked"}]
      /\ accountRow \in [Sessions -> BOOLEAN]
      /\ revoking \in Sessions \cup {NoSession}
      /\ unheard \subseteq Sessions
      /\ NoSession \notin Sessions
      /\ reaping # NoRead => reaping.session \in Sessions
  BY LedgerAssumption DEF LedgerTypeOK, SenderHolds
<1> USE DEF EndIsStamped, NothingBeforeRow, Exists, Terminal, NoRead, rows, callbackVars, storageVars
<1>1. ASSUME NEW s \in Sessions, NEW ttl \in Lifetimes, NEW c \in Callbacks, CreateSession(s, ttl, c)
       PROVE  EndIsStamped'
  BY <1>1, <1>p DEF CreateSession
<1>2. ASSUME NEW s \in Sessions, NEW n \in Storage, IssueCredentials(s, n)
       PROVE  EndIsStamped'
  BY <1>2, <1>p DEF IssueCredentials
<1>3. ASSUME NEW s \in Sessions, NEW m \in Storage, RunFails(s, m)
       PROVE  EndIsStamped'
  BY <1>3, <1>p DEF RunFails, EndNow, FinishNow, Failure
<1>4. ASSUME NEW s \in Sessions, RunRefused(s)
       PROVE  EndIsStamped'
  BY <1>4, <1>p DEF RunRefused, EndNow, FinishNow, Revoke, RevokeFails, Failure
<1>5. ASSUME NEW s \in Sessions, StopEnqueues(s)
       PROVE  EndIsStamped'
  BY <1>5, <1>p DEF StopEnqueues, Enqueue, Failure
<1>6. CASE RevokeAfterCommit
  BY <1>6, <1>p DEF RevokeAfterCommit, Revoke, RevokeFails, Failure
<1>7. ASSUME NEW s \in Sessions, ReapRead(s)
       PROVE  EndIsStamped'
  BY <1>7, <1>p DEF ReapRead, Stale
<1>8. CASE ReapSettle
  BY <1>8, <1>p DEF ReapSettle, Enqueue, GiveUp
<1>9. CASE SenderCrash
  BY <1>9, <1>p DEF SenderCrash, Failure
<1>10. ASSUME NEW s \in Sessions, PublishUnheard(s)
        PROVE  EndIsStamped'
  BY <1>10, <1>p DEF PublishUnheard, EndNow, FinishNow, SeenByRequest
<1>11. ASSUME NEW s \in Sessions, StopUnheard(s)
        PROVE  EndIsStamped'
  BY <1>11, <1>p DEF StopUnheard, EndNow, FinishNow
<1>12. ASSUME NEW s \in Sessions, DeleteSession(s)
        PROVE  EndIsStamped'
  BY <1>12, <1>p DEF DeleteSession
<1>13. ASSUME NEW s \in Sessions, NEW st \in Published, HandleStatus(s, st)
        PROVE  EndIsStamped'
  BY <1>13, <1>p DEF HandleStatus, SetStatus, KeepOrStamp, FinishNow, Enqueue, RevokeNext, Failure
<1>14. CASE UNCHANGED <<status, verdict, account, revoking, unheard, finishedAt, reaping>>
  BY <1>14
<1> QED
  BY LedgerActions, <1>1, <1>2, <1>3, <1>4, <1>5, <1>6, <1>7, <1>8, <1>9, <1>10, <1>11, <1>12, <1>13, <1>14
  DEF SendPost, SecretLost, RecordOutcome, Age, FinishedAges, CleanupAccounts, PublishHeard, ledgerVars

\* The sender holds an existing row; what it has POSTed stays pending or is deleted.
LEMMA HoldsStep ==
    ASSUME LedgerTypeOK, NothingBeforeRow, SenderHolds, [LedgerNext]_ledgerVars
    PROVE  SenderHolds'
<1>p. /\ callback \in [Sessions -> {"none", "registered", "pending", "delivered", "failed"}]
      /\ status \in [Sessions -> SessionStatus \cup {"none", "deleted"}]
      /\ NoSession \notin Sessions
  BY LedgerAssumption DEF LedgerTypeOK
<1> USE DEF SenderHolds, NothingBeforeRow, Terminal, Published, SessionStatus, Exists, NoRead, NotPosted, rows, callbackVars, storageVars
<1>1. ASSUME NEW s \in Sessions, NEW ttl \in Lifetimes, NEW c \in Callbacks, CreateSession(s, ttl, c)
       PROVE  SenderHolds'
  BY <1>1, <1>p DEF CreateSession
<1>2. ASSUME NEW s \in Sessions, NEW m \in Storage, RunFails(s, m)
       PROVE  SenderHolds'
  BY <1>2, <1>p DEF RunFails, EndNow, FinishNow, Failure
<1>3. ASSUME NEW s \in Sessions, RunRefused(s)
       PROVE  SenderHolds'
  BY <1>3, <1>p DEF RunRefused, EndNow, FinishNow, Revoke, RevokeFails, Failure
<1>4. ASSUME NEW s \in Sessions, StopEnqueues(s)
       PROVE  SenderHolds'
  BY <1>4, <1>p DEF StopEnqueues, Enqueue, Failure
<1>5. ASSUME NEW s \in Sessions, ReapRead(s)
       PROVE  SenderHolds'
  BY <1>5, <1>p DEF ReapRead, Stale
<1>6. CASE ReapSettle
  BY <1>6, <1>p DEF ReapSettle, Enqueue, GiveUp
<1>7. ASSUME NEW s \in Sessions, SendPost(s)
       PROVE  SenderHolds'
  BY <1>7, <1>p DEF SendPost, Due, Failure
<1>8. CASE RecordOutcome
  BY <1>8, <1>p DEF RecordOutcome, Delivered, RecordFailure, Failure
<1>9. CASE SenderCrash
  BY <1>9, <1>p DEF SenderCrash, Failure
<1>10. ASSUME NEW s \in Sessions, PublishUnheard(s)
        PROVE  SenderHolds'
  BY <1>10, <1>p DEF PublishUnheard, EndNow, FinishNow, SeenByRequest
<1>11. ASSUME NEW s \in Sessions, StopUnheard(s)
        PROVE  SenderHolds'
  BY <1>11, <1>p DEF StopUnheard, EndNow, FinishNow
<1>12. ASSUME NEW s \in Sessions, DeleteSession(s)
        PROVE  SenderHolds'
  BY <1>12, <1>p DEF DeleteSession
<1>13. ASSUME NEW s \in Sessions, NEW st \in Published, HandleStatus(s, st)
        PROVE  SenderHolds'
  BY <1>13, <1>p DEF HandleStatus, SetStatus, KeepOrStamp, FinishNow, Enqueue, RevokeNext, Failure
<1>14. CASE UNCHANGED <<reaping, recording, callback, status>>
  BY <1>14
<1>15. ASSUME NEW s \in Sessions, SecretLost(s)
        PROVE  SenderHolds'
  BY <1>15, <1>p DEF SecretLost, Failure
<1> QED
  BY LedgerActions, <1>1, <1>2, <1>3, <1>4, <1>5, <1>6, <1>7, <1>8, <1>9, <1>10, <1>11, <1>12, <1>13, <1>14, <1>15
  DEF IssueCredentials, RevokeAfterCommit, Age, FinishedAges, CleanupAccounts, PublishHeard, ledgerVars

-----------------------------------------------------------------------------
(* The theorems *)

\* The inductive invariant holds initially and is kept by every step.
THEOREM LedgerInductive == LedgerSpec => []LedgerInv
<1>1. LedgerInit => LedgerInv
  BY LedgerAssumption
  DEF LedgerInit, LedgerInv, LedgerTypeOK, NothingBeforeRow, DecidedOnce, EndIsStamped,
      SenderHolds, NoRead, NotPosted, Terminal, Exists
<1>2. LedgerInv /\ [LedgerNext]_ledgerVars => LedgerInv'
  BY LedgerTypeStep, BeforeRowStep, DecidedStep, StampedStep, HoldsStep DEF LedgerInv
<1> QED
  BY <1>1, <1>2, PTL DEF LedgerSpec

\* Every variable keeps its type.
THEOREM LedgerTypeCorrect == LedgerSpec => []LedgerTypeOK
<1>1. LedgerInv => LedgerTypeOK
  BY DEF LedgerInv
<1> QED
  BY <1>1, LedgerInductive, PTL

\* RevokedOnlyIfFinished: the listener, the refused run and the retries among
\* them never revoke the account of a session that has not finished.
THEOREM RevokedIsFinished == LedgerSpec => []RevokedOnlyIfFinished
<1>1. LedgerInv => RevokedOnlyIfFinished
  BY DEF LedgerInv, EndIsStamped, RevokedOnlyIfFinished
<1> QED
  BY <1>1, LedgerInductive, PTL

-----------------------------------------------------------------------------
(* The rows implement the contract *)

\* A session is finished for the contract from its first finished_at on.
LEMMA PhaseUnchanged ==
    ASSUME UNCHANGED finishedAt,
           \A s \in Sessions : status[s] = "none" <=> status'[s] = "none"
    PROVE  UNCHANGED Phase
BY DEF Phase

\* The unconditional updates of the requests: the session finishes, or had.
LEMMA EndNowPhase ==
    ASSUME LedgerTypeOK, NEW s \in Sessions, NEW st \in {"error", "stop"}, EndNow(s, st)
    PROVE  \/ UNCHANGED Phase
           \/ Phase[s] = "open" /\ Phase' = [Phase EXCEPT ![s] = "finished"]
<1>t. /\ status \in [Sessions -> SessionStatus \cup {"none", "deleted"}]
      /\ finishedAt \in [Sessions -> Nat]
  BY DEF LedgerTypeOK
<1>1. CASE Exists(s)
  <2>1. /\ status' = [status EXCEPT ![s] = st]
        /\ finishedAt' = [finishedAt EXCEPT ![s] = @ + 1]
        /\ status[s] # "none"
    BY <1>1 DEF EndNow, FinishNow, Exists
  <2>2. Phase'[s] = "finished" /\ Phase[s] \in {"open", "finished"}
    BY <1>t, <2>1 DEF Phase
  <2>3. \A x \in Sessions \ {s} : Phase'[x] = Phase[x]
    BY <1>t, <2>1 DEF Phase
  <2> QED
    BY <2>2, <2>3 DEF Phase
<1>2. CASE ~Exists(s)
  BY <1>2 DEF EndNow, Phase
<1> QED
  BY <1>1, <1>2

\* An enqueue of a finished session decides it, or changes nothing.
LEMMA EnqueueDecides ==
    ASSUME LedgerInv, NEW s \in Sessions, NEW st, Enqueue(s, st),
           UNCHANGED <<Phase, heard>>, st \in Terminal => Phase[s] = "finished"
    PROVE  [Contract!Next]_(Contract!contractVars)
<1>1. CASE st \in Terminal /\ callback[s] = "registered"
  <2>1. verdict[s] = "none" /\ verdict' = [verdict EXCEPT ![s] = st]
    BY <1>1 DEF Enqueue, LedgerInv, DecidedOnce
  <2>2. Phase' = [Phase EXCEPT ![s] = "finished"]
    BY <1>1 DEF Phase
  <2>3. Contract!Decide(s, st)
    BY <1>1, <2>1, <2>2 DEF Contract!Decide
  <2> QED
    BY <1>1, <2>3 DEF Contract!Next
<1>2. CASE ~(st \in Terminal /\ callback[s] = "registered")
  BY <1>2 DEF Enqueue, Contract!contractVars
<1> QED
  BY <1>1, <1>2

\* A step that decides nothing and tells nobody finishes a session at most.
LEMMA EndFinishes ==
    ASSUME NEW s \in Sessions, UNCHANGED <<verdict, heard>>,
           \/ UNCHANGED Phase
           \/ Phase[s] = "open" /\ Phase' = [Phase EXCEPT ![s] = "finished"]
    PROVE  [Contract!Next]_(Contract!contractVars)
<1>1. CASE UNCHANGED Phase
  BY <1>1 DEF Contract!contractVars
<1>2. CASE Phase[s] = "open" /\ Phase' = [Phase EXCEPT ![s] = "finished"]
  BY <1>2 DEF Contract!Finish, Contract!Next
<1> QED
  BY <1>1, <1>2

\* A status the listener applies finishes the session, decides it, or neither.
LEMMA StatusKeepsContract ==
    ASSUME LedgerInv, NEW s \in Sessions, NEW st \in Published, HandleStatus(s, st)
    PROVE  [Contract!Next]_(Contract!contractVars)
<1>t. /\ status \in [Sessions -> SessionStatus \cup {"none", "deleted"}]
      /\ finishedAt \in [Sessions -> Nat]
      /\ verdict \in [Sessions -> Terminal \cup {"none"}]
  BY DEF LedgerInv, LedgerTypeOK
<1>u. /\ status' = [status EXCEPT ![s] = st]
      /\ status[s] # "none" /\ st # "none"
      /\ UNCHANGED heard
  BY DEF HandleStatus, SetStatus, Exists, Published, Terminal
<1>1. CASE st \notin Terminal
  <2>1. UNCHANGED <<finishedAt, verdict>>
    BY <1>1 DEF HandleStatus, KeepOrStamp, Enqueue
  <2> QED
    BY <1>t, <1>u, <2>1, PhaseUnchanged DEF Contract!contractVars
<1>2. CASE st \in Terminal
  <2>1. \/ finishedAt[s] = 0 /\ finishedAt' = [finishedAt EXCEPT ![s] = @ + 1]
        \/ finishedAt[s] # 0 /\ UNCHANGED finishedAt
    BY <1>2 DEF HandleStatus, KeepOrStamp, FinishNow
  <2>2. Phase'[s] = "finished" /\ Phase[s] \in {"open", "finished"}
    BY <1>t, <1>u, <2>1 DEF Phase
  <2>3. \A x \in Sessions \ {s} : Phase'[x] = Phase[x]
    BY <1>t, <1>u, <2>1 DEF Phase
  <2>4. Phase' = [Phase EXCEPT ![s] = "finished"]
    BY <2>2, <2>3 DEF Phase
  <2>5. CASE callback[s] = "registered" /\ Enqueue(s, st)
    <3>1. verdict[s] = "none" /\ verdict' = [verdict EXCEPT ![s] = st]
      BY <1>2, <2>5 DEF Enqueue, LedgerInv, DecidedOnce
    <3>2. Contract!Decide(s, st)
      BY <1>u, <2>2, <2>4, <3>1 DEF Contract!Decide
    <3> QED
      BY <1>2, <3>2 DEF Contract!Next
  <2>6. CASE UNCHANGED verdict
    <3>1. \/ UNCHANGED Phase
          \/ Phase[s] = "open" /\ Phase' = [Phase EXCEPT ![s] = "finished"]
      BY <2>2, <2>4 DEF Phase
    <3> QED
      BY <1>u, <2>6, <3>1, EndFinishes
  <2> QED
    BY <2>5, <2>6 DEF HandleStatus, Enqueue
<1> QED
  BY <1>1, <1>2

\* Every step of the ledger is a step of the contract, or changes nothing in it.
LEMMA StepKeepsContract ==
    ASSUME LedgerInv, [LedgerNext]_ledgerVars
    PROVE  [Contract!Next]_(Contract!contractVars)
<1>t. /\ LedgerTypeOK
      /\ status \in [Sessions -> SessionStatus \cup {"none", "deleted"}]
      /\ finishedAt \in [Sessions -> Nat]
      /\ verdict \in [Sessions -> Terminal \cup {"none"}]
      /\ heard \in [Sessions -> SUBSET Terminal]
  BY DEF LedgerInv, LedgerTypeOK
<1> USE DEF rows, callbackVars, storageVars
<1>1. ASSUME NEW s \in Sessions, NEW ttl \in Lifetimes, NEW c \in Callbacks, CreateSession(s, ttl, c)
      PROVE  [Contract!Next]_(Contract!contractVars)
  <2>1. /\ status[s] = "none" /\ finishedAt[s] = 0
        /\ status' = [status EXCEPT ![s] = "pending"]
        /\ UNCHANGED <<finishedAt, verdict, heard>>
    BY <1>1 DEF CreateSession, LedgerInv, NothingBeforeRow
  <2>2. Phase[s] = "absent" /\ Phase' = [Phase EXCEPT ![s] = "open"]
    BY <1>t, <2>1 DEF Phase
  <2> QED
    BY <2>1, <2>2 DEF Contract!Open, Contract!Next
<1>2. ASSUME NEW s \in Sessions,
             \/ \E m \in Storage : RunFails(s, m)
             \/ RunRefused(s) \/ PublishUnheard(s) \/ StopUnheard(s)
      PROVE  [Contract!Next]_(Contract!contractVars)
  <2>1. UNCHANGED <<verdict, heard>>
    BY <1>2 DEF RunFails, RunRefused, PublishUnheard, StopUnheard, SeenByRequest
  <2>2. EndNow(s, "error") \/ EndNow(s, "stop")
    BY <1>2 DEF RunFails, RunRefused, PublishUnheard, StopUnheard
  <2> QED
    BY <1>t, <2>1, <2>2, EndNowPhase, EndFinishes
<1>3. ASSUME NEW s \in Sessions, StopEnqueues(s)
      PROVE  [Contract!Next]_(Contract!contractVars)
  <2>1. UNCHANGED <<status, finishedAt, heard>> /\ s \in unheard
    BY <1>3 DEF StopEnqueues
  <2>2. Phase[s] = "finished"
    BY <1>t, <2>1 DEF LedgerInv, EndIsStamped, NothingBeforeRow, Phase
  <2>3. UNCHANGED Phase
    BY <2>1, PhaseUnchanged
  <2>4. Enqueue(s, "error") \/ UNCHANGED verdict
    BY <1>3 DEF StopEnqueues
  <2>5. CASE UNCHANGED verdict
    BY <2>1, <2>3, <2>5 DEF Contract!contractVars
  <2> QED
    BY <2>1, <2>2, <2>3, <2>4, <2>5, EnqueueDecides
<1>4. CASE ReapSettle
  <2> DEFINE s == reaping.session
  <2>1. s \in Sessions /\ UNCHANGED <<status, finishedAt, heard>>
    BY <1>4 DEF ReapSettle, LedgerInv, SenderHolds
  <2>2. UNCHANGED Phase
    BY <2>1, PhaseUnchanged
  <2>3. CASE reaping.status \in Terminal
    <3>1. Phase[s] = "finished"
      BY <1>t, <2>1, <2>3 DEF LedgerInv, EndIsStamped, NothingBeforeRow, Phase
    <3> QED
      BY <1>4, <2>1, <2>2, <2>3, <3>1, EnqueueDecides DEF ReapSettle
  <2>4. CASE reaping.status \notin Terminal
    BY <1>4, <2>1, <2>2, <2>4 DEF ReapSettle, Contract!contractVars
  <2> QED
    BY <2>3, <2>4
<1>5. ASSUME NEW s \in Sessions, SendPost(s)
      PROVE  [Contract!Next]_(Contract!contractVars)
  <2>1. verdict[s] # "none" /\ UNCHANGED <<status, finishedAt, verdict>>
    BY <1>5 DEF SendPost, Due, LedgerInv, DecidedOnce, Terminal
  <2>2. UNCHANGED Phase
    BY <2>1, PhaseUnchanged
  <2>3. CASE heard' = [heard EXCEPT ![s] = @ \cup {verdict[s]}]
    BY <2>1, <2>2, <2>3 DEF Contract!Tell, Contract!Next
  <2>4. CASE UNCHANGED heard
    BY <2>1, <2>2, <2>4 DEF Contract!contractVars
  <2> QED
    BY <1>5, <2>3, <2>4 DEF SendPost
<1>6. ASSUME NEW s \in Sessions, DeleteSession(s)
      PROVE  [Contract!Next]_(Contract!contractVars)
  <2>1. \A x \in Sessions : status[x] = "none" <=> status'[x] = "none"
    BY <1>t, <1>6 DEF DeleteSession, Exists
  <2> QED
    BY <1>6, <2>1, PhaseUnchanged DEF DeleteSession, Contract!contractVars
<1>7. CASE UNCHANGED <<status, finishedAt, verdict, heard>>
  BY <1>7, PhaseUnchanged DEF Contract!contractVars
<1> QED
  BY LedgerActions, <1>1, <1>2, <1>3, <1>4, <1>5, <1>6, <1>7, StatusKeepsContract
  DEF IssueCredentials, ReapRead, Age, FinishedAges, PublishHeard, RevokeAfterCommit,
      SecretLost, RecordOutcome, SenderCrash, CleanupAccounts, ledgerVars

\* KeepsContract: run_session, the stop requests, the listener, the reaper, the
\* sender and deletion together implement SessionContract.
THEOREM LedgerKeepsContract == LedgerSpec => KeepsContract
<1>1. LedgerInit => Contract!Init
  BY DEF LedgerInit, Contract!Init, Phase
<1>2. LedgerInv /\ [LedgerNext]_ledgerVars => [Contract!Next]_(Contract!contractVars)
  BY StepKeepsContract
<1> QED
  BY <1>1, <1>2, LedgerInductive, PTL DEF LedgerSpec, KeepsContract, Contract!Spec

-----------------------------------------------------------------------------
(* What no step does *)

\* DecidedIsTried: the reaper's conditional update spares a decided callback,
\* so only the sender's last failed attempt gives one up.
THEOREM DecidedIsAlwaysTried == LedgerSpec => DecidedIsTried
<1>1. ASSUME LedgerInv, [LedgerNext]_ledgerVars
      PROVE  [\A s \in Sessions :
                callback[s] \in {"pending", "delivered"} /\ callback'[s] = "failed"
                  => attempts'[s] >= MaxAttempts \/ failures' # failures]_ledgerVars
  <2>t. /\ callback \in [Sessions -> {"none", "registered", "pending", "delivered", "failed"}]
        /\ attempts \in [Sessions -> 0..MaxAttempts]
        /\ MaxAttempts \in Nat
        /\ request \in [Sessions -> {"none", "created", "issued", "sent", "failed"}]
    BY <1>1, LedgerAssumption DEF LedgerInv, LedgerTypeOK
  <2> DEFINE Tried == \A s \in Sessions :
                callback[s] \in {"pending", "delivered"} /\ callback'[s] = "failed"
                  => attempts'[s] >= MaxAttempts \/ failures' # failures
  <2> USE DEF rows, callbackVars, storageVars
  <2>1. ASSUME NEW s \in Sessions, NEW ttl \in Lifetimes, NEW c \in Callbacks, CreateSession(s, ttl, c)
        PROVE  Tried
    BY <2>t, <2>1 DEF CreateSession
  <2>2. ASSUME NEW s \in Sessions,
               \/ StopEnqueues(s) \/ PublishUnheard(s) \/ DeleteSession(s)
               \/ \E st \in Published : HandleStatus(s, st)
        PROVE  Tried
    BY <2>t, <2>2 DEF StopEnqueues, PublishUnheard, SeenByRequest, DeleteSession, HandleStatus, Enqueue
  <2>3. CASE ReapSettle
    BY <2>t, <2>3 DEF ReapSettle, Enqueue, GiveUp
  <2>4. CASE RecordOutcome
    BY <2>t, <2>4 DEF RecordOutcome, Delivered, RecordFailure
  <2>5. CASE UNCHANGED callback
    BY <2>t, <2>5
  <2>6. ASSUME NEW s \in Sessions, SecretLost(s)
        PROVE  Tried
    BY <1>1, <2>6 DEF SecretLost, Failure, LedgerInv, LedgerTypeOK
  <2> QED
    BY <1>1, LedgerActions, <2>1, <2>2, <2>3, <2>4, <2>5, <2>6
    DEF IssueCredentials, RunFails, RunRefused, ReapRead, SendPost, Age, FinishedAges,
        PublishHeard, StopUnheard, RevokeAfterCommit, SenderCrash, CleanupAccounts, ledgerVars
<1> QED
  BY <1>1, LedgerInductive, PTL DEF LedgerSpec, DecidedIsTried

\* OnlyRequestsRestamp: however many terminal statuses the listener is sent, it
\* keeps the first finished_at; only a request's unconditional update moves it.
THEOREM ListenerKeepsFinishedAt == LedgerSpec => OnlyRequestsRestamp
<1>1. ASSUME LedgerInv, [LedgerNext]_ledgerVars
      PROVE  [\A s \in Sessions :
                finishedAt[s] > 0 /\ finishedAt'[s] # finishedAt[s]
                  => request'[s] # request[s] \/ s \in unheard' \ unheard]_ledgerVars
  <2>t. /\ finishedAt \in [Sessions -> Nat]
        /\ request \in [Sessions -> {"none", "created", "issued", "sent", "failed"}]
        /\ unheard \subseteq Sessions
    BY <1>1 DEF LedgerInv, LedgerTypeOK
  <2> DEFINE Kept == \A s \in Sessions :
                finishedAt[s] > 0 /\ finishedAt'[s] # finishedAt[s]
                  => request'[s] # request[s] \/ s \in unheard' \ unheard
  <2> USE DEF rows, callbackVars, storageVars
  <2>1. ASSUME NEW s \in Sessions,
               \/ \E m \in Storage : RunFails(s, m)
               \/ RunRefused(s) \/ PublishUnheard(s)
        PROVE  Kept
    BY <2>t, <2>1 DEF RunFails, RunRefused, PublishUnheard, EndNow, FinishNow
  <2>2. ASSUME NEW s \in Sessions, StopUnheard(s)
        PROVE  Kept
    BY <2>t, <2>2 DEF StopUnheard, EndNow, FinishNow
  <2>3. ASSUME NEW s \in Sessions, NEW st \in Published, HandleStatus(s, st)
        PROVE  Kept
    BY <2>t, <2>3 DEF HandleStatus, KeepOrStamp, FinishNow
  <2>4. CASE UNCHANGED finishedAt
    BY <2>t, <2>4
  <2> QED
    BY <1>1, LedgerActions, <2>1, <2>2, <2>3, <2>4
    DEF CreateSession, IssueCredentials, StopEnqueues, ReapRead, SendPost, SecretLost, Age,
        FinishedAges, PublishHeard, DeleteSession, RevokeAfterCommit, ReapSettle,
        RecordOutcome, SenderCrash, CleanupAccounts, ledgerVars
<1> QED
  BY <1>1, LedgerInductive, PTL DEF LedgerSpec, OnlyRequestsRestamp
=============================================================================
