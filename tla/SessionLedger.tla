---------------------------- MODULE SessionLedger ----------------------------
(***************************************************************************)
(* What PostgreSQL and the storage backend hold of each session, and every  *)
(* process that writes it: run_session and the stop request in django_app,  *)
(* the listener that applies the statuses crew publishes, the callback      *)
(* sender and its reaper, the deletion of a session, and the manager's      *)
(* daily clean-up of storage accounts.  The statuses are the environment's: *)
(* any of them may reach the listener for a session crew was sent, at any   *)
(* time, any number of times and in any order, so what holds here holds     *)
(* whatever crew and Redis do.                                              *)
(*                                                                         *)
(* One action is one database transaction, one call to the storage backend  *)
(* or one HTTP request.                                                     *)
(***************************************************************************)
EXTENDS Naturals

CONSTANTS
    Sessions,
    NoSession,      \* an idle process's placeholder
    Lifetimes,      \* signs of time_to_live a flow may have: subset of {-1, 0, 1}
    Callbacks,      \* may runs name a callback URL: subset of BOOLEAN
    Storage,        \* may flows need storage access: subset of BOOLEAN
    MaxAttempts,    \* attempts before a callback fails for good, len(RETRY_DELAYS) + 1
    MaxFailures,    \* bound: failures of the backend, the database and processes
    MaxUnheard      \* bound: commands published while no crew is listening

ASSUME LedgerAssumption ==
    /\ NoSession \notin Sessions
    /\ Callbacks \subseteq BOOLEAN
    /\ Storage \subseteq BOOLEAN
    /\ MaxAttempts \in Nat \ {0}

VARIABLES
    request,        \* where run_session is, for each session
    status,         \* Session.status; "none" before and "deleted" after the row
    finishedAt,     \* Session.finished_at: 0 for NULL, else which write set it
    lifetime,       \* sign of Session.time_to_live
    age,            \* age of status_updated_at: 0, past the deadline (1), past
                    \* the deadline and STALE_MARGIN (2)
    finishedLong,   \* finished_at is older than STALE_MARGIN
    callback,       \* SessionCallback.status
    verdict,        \* the status in SessionCallback.payload
    heard,          \* the statuses the receiver was told
    attempts,       \* SessionCallback.attempts
    account,        \* the temporary service account in the storage backend
    accountRow,     \* a TemporaryStorageAccount row names it
    revoking,       \* the session the listener revokes after its commit
    unheard,        \* stop requests that reached no crew, before their enqueue
    reaping,        \* the row the reaper read, with the status it read
    recording,      \* the callback just POSTed, with its outcome
    failures,
    published       \* commands published so far to no listener

rows == <<request, status, finishedAt, lifetime, age, finishedLong>>
callbackVars == <<callback, verdict, heard, attempts, reaping, recording>>
storageVars == <<account, accountRow, revoking>>
ledgerVars == <<rows, callbackVars, storageVars, unheard, failures, published>>

Terminal == {"end", "error", "stop", "expired"}
\* The statuses crew publishes.
Published == Terminal \cup {"run"}
\* The statuses the manager's sweep looks at, but for wait_for_user, which nothing sets.
Open == {"pending", "run"}
SessionStatus == Published \cup {"pending"}
NoRead == [session |-> NoSession, status |-> "none"]
NotPosted == [session |-> NoSession, ok |-> FALSE]

LedgerTypeOK ==
    /\ request \in [Sessions -> {"none", "created", "issued", "sent", "failed"}]
    /\ status \in [Sessions -> SessionStatus \cup {"none", "deleted"}]
    /\ finishedAt \in [Sessions -> Nat]
    /\ lifetime \in [Sessions -> Lifetimes \cup {0}]
    /\ age \in [Sessions -> 0..2]
    /\ finishedLong \in [Sessions -> BOOLEAN]
    /\ callback \in [Sessions -> {"none", "registered", "pending", "delivered", "failed"}]
    /\ verdict \in [Sessions -> Terminal \cup {"none"}]
    /\ heard \in [Sessions -> SUBSET Terminal]
    /\ attempts \in [Sessions -> 0..MaxAttempts]
    /\ account \in [Sessions -> {"none", "live", "revoked"}]
    /\ accountRow \in [Sessions -> BOOLEAN]
    /\ revoking \in Sessions \cup {NoSession}
    /\ unheard \subseteq Sessions
    /\ reaping \in [session : Sessions \cup {NoSession},
                    status : SessionStatus \cup {"none"}]
    /\ recording \in [session : Sessions \cup {NoSession}, ok : BOOLEAN]
    /\ failures \in Nat
    /\ published \in Nat

LedgerInit ==
    /\ request = [s \in Sessions |-> "none"]
    /\ status = [s \in Sessions |-> "none"]
    /\ finishedAt = [s \in Sessions |-> 0]
    /\ lifetime = [s \in Sessions |-> 0]
    /\ age = [s \in Sessions |-> 0]
    /\ finishedLong = [s \in Sessions |-> FALSE]
    /\ callback = [s \in Sessions |-> "none"]
    /\ verdict = [s \in Sessions |-> "none"]
    /\ heard = [s \in Sessions |-> {}]
    /\ attempts = [s \in Sessions |-> 0]
    /\ account = [s \in Sessions |-> "none"]
    /\ accountRow = [s \in Sessions |-> FALSE]
    /\ revoking = NoSession
    /\ unheard = {}
    /\ reaping = NoRead
    /\ recording = NotPosted
    /\ failures = 0
    /\ published = 0

-----------------------------------------------------------------------------
(* Helpers *)

Exists(s) == status[s] \notin {"none", "deleted"}

Failure == failures < MaxFailures /\ failures' = failures + 1

\* A database update that gives the row a status: status_updated_at starts anew.
SetStatus(s, st) ==
    /\ status' = [status EXCEPT ![s] = st]
    /\ age' = [age EXCEPT ![s] = IF st = status[s] THEN @ ELSE 0]

\* `finished_at=now`, whatever it was.
FinishNow(s) ==
    /\ finishedAt' = [finishedAt EXCEPT ![s] = @ + 1]
    /\ finishedLong' = [finishedLong EXCEPT ![s] = FALSE]

\* The queryset updates of _mark_session_error and _stop_refused_session, with
\* no condition on the status the row has by then.
EndNow(s, st) ==
    IF Exists(s)
    THEN /\ status' = [status EXCEPT ![s] = st]
         /\ age' = [age EXCEPT ![s] = 0]
         /\ FinishNow(s)
    ELSE UNCHANGED <<status, age, finishedAt, finishedLong>>

\* Mutant: the row moves whatever its status.
EnqueueAgain(s, st) ==
    IF st \in Terminal /\ callback[s] # "none"
    THEN /\ callback' = [callback EXCEPT ![s] = "pending"]
         /\ verdict' = [verdict EXCEPT ![s] = st]
    ELSE UNCHANGED <<callback, verdict>>

\* Mutant: a status that ends nothing is enqueued too.
EnqueueAnyStatus(s, st) ==
    IF callback[s] = "registered"
    THEN /\ callback' = [callback EXCEPT ![s] = "pending"]
         /\ verdict' = [verdict EXCEPT ![s] = st]
    ELSE UNCHANGED <<callback, verdict>>

\* SessionCallbackService.enqueue: only a registered row moves.
Enqueue(s, st) ==
    IF st \in Terminal /\ callback[s] = "registered"
    THEN /\ callback' = [callback EXCEPT ![s] = "pending"]
         /\ verdict' = [verdict EXCEPT ![s] = st]
    ELSE UNCHANGED <<callback, verdict>>

\* The backend confirms the account is gone, then the row is dropped.
Revoke(s) ==
    /\ account' = [account EXCEPT ![s] = IF accountRow[s] THEN "revoked" ELSE @]
    /\ accountRow' = [accountRow EXCEPT ![s] = FALSE]

\* The backend fails, or the row is still there although the account is gone.
RevokeFails(s) ==
    /\ Failure
    /\ \/ UNCHANGED account
       \/ account' = [account EXCEPT ![s] = IF accountRow[s] THEN "revoked" ELSE @]
    /\ UNCHANGED accountRow

-----------------------------------------------------------------------------
(* run_session, and the other requests *)

\* create_session: the row, and its callback in the same transaction.
CreateSession(s, ttl, hasCallback) ==
    /\ request[s] = "none"
    /\ request' = [request EXCEPT ![s] = "created"]
    /\ status' = [status EXCEPT ![s] = "pending"]
    /\ lifetime' = [lifetime EXCEPT ![s] = ttl]
    /\ callback' = [callback EXCEPT ![s] = IF hasCallback THEN "registered" ELSE "none"]
    /\ UNCHANGED <<finishedAt, age, finishedLong, verdict, heard, attempts, reaping,
                   recording, storageVars, unheard, failures, published>>

\* issue_for_session mints and persists an account when the flow needs one.
IssueCredentials(s, needed) ==
    /\ request[s] = "created"
    /\ request' = [request EXCEPT ![s] = "issued"]
    /\ needed => Exists(s)
    /\ account' = [account EXCEPT ![s] = IF needed THEN "live" ELSE "none"]
    /\ accountRow' = [accountRow EXCEPT ![s] = needed]
    /\ UNCHANGED <<status, finishedAt, lifetime, age, finishedLong, callbackVars,
                   revoking, unheard, failures, published>>

\* Anything raised while the session is built, its account minted but not
\* persisted included: the session is marked, its callback is left registered.
RunFails(s, minted) ==
    /\ request[s] \in {"created", "issued"}
    /\ Failure
    /\ request' = [request EXCEPT ![s] = "failed"]
    /\ EndNow(s, "error")
    /\ account' = [account EXCEPT
                     ![s] = IF minted /\ request[s] = "created" THEN "live" ELSE @]
    /\ UNCHANGED <<lifetime, callbackVars, accountRow, revoking, unheard, published>>

\* _stop_refused_session: admission refuses the run just before the publish.
RunRefused(s) ==
    /\ request[s] = "issued"
    /\ request' = [request EXCEPT ![s] = "failed"]
    /\ EndNow(s, "stop")
    /\ \/ Revoke(s) /\ UNCHANGED failures
       \/ RevokeFails(s)
    /\ UNCHANGED <<lifetime, callbackVars, revoking, unheard, published>>

\* publish_session_data reached a crew.
PublishHeard(s) ==
    /\ request[s] = "issued"
    /\ request' = [request EXCEPT ![s] = "sent"]
    /\ UNCHANGED <<status, finishedAt, lifetime, age, finishedLong, callbackVars,
                   storageVars, unheard, failures, published>>

\* The status run_session compares after the publish: that of the instance
\* create_session returned, which no queryset update changes.
SeenByRequest(s) == "pending"

\* It reached none: the session is marked, and enqueued if it is seen in error.
PublishUnheard(s) ==
    /\ request[s] = "issued"
    /\ published < MaxUnheard
    /\ published' = published + 1
    /\ request' = [request EXCEPT ![s] = "failed"]
    /\ EndNow(s, "error")
    /\ IF SeenByRequest(s) = "error"
       THEN Enqueue(s, "error")
       ELSE UNCHANGED <<callback, verdict>>
    /\ UNCHANGED <<lifetime, heard, attempts, reaping, recording, storageVars,
                   unheard, failures>>

\* stop_running_session reached no crew: no look at the session's status.
StopUnheard(s) ==
    /\ Exists(s)
    /\ s \notin unheard
    /\ published < MaxUnheard
    /\ published' = published + 1
    /\ EndNow(s, "error")
    /\ unheard' = unheard \cup {s}
    /\ UNCHANGED <<request, lifetime, callbackVars, storageVars, failures>>

StopEnqueues(s) ==
    /\ s \in unheard
    /\ unheard' = unheard \ {s}
    /\ \/ Enqueue(s, "error") /\ UNCHANGED failures
       \/ Failure /\ UNCHANGED <<callback, verdict>>
    /\ UNCHANGED <<rows, heard, attempts, reaping, recording, storageVars, published>>

\* Deleting a session cascades to its callback and to its account's row; the
\* account itself is left to expire.
DeleteSession(s) ==
    /\ Exists(s)
    /\ status' = [status EXCEPT ![s] = "deleted"]
    /\ callback' = [callback EXCEPT ![s] = "none"]
    /\ accountRow' = [accountRow EXCEPT ![s] = FALSE]
    /\ UNCHANGED <<request, finishedAt, lifetime, age, finishedLong, verdict, heard,
                   attempts, reaping, recording, account, revoking, unheard,
                   failures, published>>

-----------------------------------------------------------------------------
(* The status listener: one thread, one message at a time *)

\* crew speaks of the sessions it was sent; the timeout handler publishes
\* "expired" for any session of the manager's sweep.
MayBeSaid(s, st) == request[s] = "sent" \/ st = "expired"

\* An expiry that comes after the run ended by itself is refused.
Refused(s, st) == st = "expired" /\ status[s] \in {"end", "error"}

\* Mutant: the time of the first end is not kept.
StampTerminal(s, st) ==
    IF st \in Terminal THEN FinishNow(s) ELSE UNCHANGED <<finishedAt, finishedLong>>

\* finished_at keeps its first value.
KeepOrStamp(s, st) ==
    IF finishedAt[s] = 0 /\ st \in Terminal
    THEN FinishNow(s)
    ELSE UNCHANGED <<finishedAt, finishedLong>>

\* Mutant: every status change revokes.
RevokeAlways(s, st) == s

\* The session whose account is to be revoked after the commit.
RevokeNext(s, st) == IF st \in Terminal THEN s ELSE NoSession

\* session_status_handler up to its commit: the row is locked, so the status
\* and the enqueue are one step.  A failing enqueue does not undo the status.
HandleStatus(s, st) ==
    /\ revoking = NoSession
    /\ Exists(s)
    /\ ~Refused(s, st)
    /\ SetStatus(s, st)
    /\ KeepOrStamp(s, st)
    /\ \/ Enqueue(s, st) /\ UNCHANGED failures
       \/ /\ st \in Terminal /\ callback[s] = "registered"
          /\ Failure
          /\ UNCHANGED <<callback, verdict>>
    /\ revoking' = RevokeNext(s, st)
    /\ UNCHANGED <<request, lifetime, heard, attempts, reaping, recording, account,
                   accountRow, unheard, published>>

\* The message changes nothing: refused, or its session is not there.
SkipStatus(s, st) ==
    /\ revoking = NoSession
    /\ ~Exists(s) \/ Refused(s, st)
    /\ UNCHANGED ledgerVars

\* revoke_for_session, after the commit.  The row may be gone, and a failure
\* (or the listener's death) leaves the account to somebody else.
RevokeAfterCommit ==
    /\ revoking # NoSession
    /\ revoking' = NoSession
    /\ \/ Revoke(revoking) /\ UNCHANGED failures
       \/ RevokeFails(revoking)
    /\ UNCHANGED <<rows, callbackVars, unheard, published>>

-----------------------------------------------------------------------------
(* The callback sender: one process that reaps, then sends *)

\* Mutant: only rows of finished sessions are looked at.
StaleIfFinished(s) ==
    callback[s] = "registered" /\ status[s] \in Terminal /\ finishedLong[s]

\* A registered row the listener should have moved by now.
Stale(s) ==
    /\ callback[s] = "registered"
    /\ \/ status[s] \in Terminal /\ finishedLong[s]
       \/ lifetime[s] > 0 /\ age[s] = 2

ReapRead(s) ==
    /\ reaping = NoRead /\ recording = NotPosted
    /\ Stale(s)
    /\ reaping' = [session |-> s, status |-> status[s]]
    /\ UNCHANGED <<rows, callback, verdict, heard, attempts, recording, storageVars,
                   unheard, failures, published>>

\* Mutant: the row is given up whatever happened to it since it was read.
GiveUpBlindly(s) == callback' = [callback EXCEPT ![s] = "failed"]

\* _give_up, filtered on a row that is still registered.
GiveUp(s) ==
    callback' = [callback EXCEPT ![s] = IF @ = "registered" THEN "failed" ELSE @]

\* The row is settled by the status read with it, which may have changed since.
ReapSettle ==
    /\ reaping # NoRead
    /\ reaping' = NoRead
    /\ IF reaping.status \in Terminal
       THEN Enqueue(reaping.session, reaping.status)
       ELSE GiveUp(reaping.session) /\ UNCHANGED verdict
    /\ UNCHANGED <<rows, heard, attempts, recording, storageVars, unheard, failures,
                   published>>

\* The pending rows of one pass of send_due.
Due(s) == callback[s] = "pending"

\* _post: the receiver hears the verdict, or may have although the answer is lost.
SendPost(s) ==
    /\ reaping = NoRead /\ recording = NotPosted
    /\ Due(s)
    /\ \/ /\ heard' = [heard EXCEPT ![s] = @ \cup {verdict[s]}]
          /\ recording' = [session |-> s, ok |-> TRUE]
          /\ UNCHANGED failures
       \/ /\ Failure
          /\ \/ heard' = [heard EXCEPT ![s] = @ \cup {verdict[s]}]
             \/ UNCHANGED heard
          /\ recording' = [session |-> s, ok |-> FALSE]
    /\ UNCHANGED <<rows, callback, verdict, attempts, reaping, storageVars, unheard,
                   published>>

\* The receiver confirmed: the row is settled, if it is still there.
Delivered(s) ==
    /\ callback' = [callback EXCEPT ![s] = IF @ = "none" THEN @ ELSE "delivered"]
    /\ UNCHANGED attempts

\* _record_failure: due again, or failed for good.
RecordFailure(s) ==
    IF callback[s] = "none"
    THEN UNCHANGED <<callback, attempts>>
    ELSE /\ attempts' = [attempts EXCEPT ![s] = @ + 1]
         /\ callback' = [callback EXCEPT
                           ![s] = IF attempts[s] + 1 >= MaxAttempts THEN "failed" ELSE @]

\* _record_outcome; a success that cannot be recorded counts as a failed attempt.
RecordOutcome ==
    /\ recording # NotPosted
    /\ recording' = NotPosted
    /\ \/ recording.ok /\ Delivered(recording.session) /\ UNCHANGED failures
       \/ recording.ok /\ RecordFailure(recording.session) /\ Failure
       \/ ~recording.ok /\ RecordFailure(recording.session) /\ UNCHANGED failures
    /\ UNCHANGED <<rows, verdict, heard, reaping, storageVars, unheard, published>>

\* The secret cannot be decrypted any more: no attempt could succeed.
SecretLost(s) ==
    /\ reaping = NoRead /\ recording = NotPosted
    /\ Due(s)
    /\ Failure
    /\ callback' = [callback EXCEPT ![s] = "failed"]
    /\ UNCHANGED <<rows, verdict, heard, attempts, reaping, recording, storageVars,
                   unheard, published>>

\* The sender process dies between the POST and its record, or while it reaps.
SenderCrash ==
    /\ reaping # NoRead \/ recording # NotPosted
    /\ Failure
    /\ reaping' = NoRead
    /\ recording' = NotPosted
    /\ UNCHANGED <<rows, callback, verdict, heard, attempts, storageVars, unheard, published>>

-----------------------------------------------------------------------------
(* Time, and the manager's daily clean-up *)

\* status_updated_at grows old, while somebody still compares it.
Age(s) ==
    /\ Exists(s)
    /\ lifetime[s] # 0 /\ age[s] < 2
    /\ status[s] \in Open \/ callback[s] = "registered"
    /\ age' = [age EXCEPT ![s] = @ + 1]
    /\ UNCHANGED <<request, status, finishedAt, lifetime, finishedLong, callbackVars,
                   storageVars, unheard, failures, published>>

\* finished_at grows older than STALE_MARGIN.
FinishedAges(s) ==
    /\ Exists(s)
    /\ finishedAt[s] > 0 /\ ~finishedLong[s]
    /\ callback[s] = "registered"
    /\ finishedLong' = [finishedLong EXCEPT ![s] = TRUE]
    /\ UNCHANGED <<request, status, finishedAt, lifetime, age, callbackVars,
                   storageVars, unheard, failures, published>>

\* The manager deletes the account rows of finished sessions; it never calls
\* the storage backend.
CleanupAccounts ==
    /\ accountRow' = [s \in Sessions |-> accountRow[s] /\ finishedAt[s] = 0]
    /\ accountRow' # accountRow
    /\ UNCHANGED <<rows, callbackVars, account, revoking, unheard, failures, published>>

\* get_overdue_session_ids: the sessions one sweep publishes a timeout for.
Overdue(s) == status[s] \in Open /\ lifetime[s] # 0 /\ age[s] > 0

-----------------------------------------------------------------------------
RunRequest(s) ==
    \/ \E ttl \in Lifetimes, c \in Callbacks : CreateSession(s, ttl, c)
    \/ \E n \in Storage : IssueCredentials(s, n)
    \/ \E minted \in Storage : RunFails(s, minted)
    \/ RunRefused(s)

StatusMessage(s, st) == HandleStatus(s, st) \/ SkipStatus(s, st)

Sender ==
    \/ \E s \in Sessions : ReapRead(s)
    \/ ReapSettle
    \/ \E s \in Sessions : SendPost(s)
    \/ RecordOutcome

\* Every step but the ones that publish to crew or read what it published.
LedgerStep ==
    \/ \E s \in Sessions : RunRequest(s)
    \/ \E s \in Sessions : StopEnqueues(s)
    \/ RevokeAfterCommit
    \/ Sender
    \/ SenderCrash
    \/ \E s \in Sessions : SecretLost(s)
    \/ \E s \in Sessions : Age(s)
    \/ \E s \in Sessions : FinishedAges(s)
    \/ CleanupAccounts

LedgerNext ==
    \/ LedgerStep
    \/ \E s \in Sessions :
        \/ PublishHeard(s)
        \/ PublishUnheard(s)
        \/ StopUnheard(s)
        \/ DeleteSession(s)
    \/ \E s \in Sessions, st \in Published : MayBeSaid(s, st) /\ StatusMessage(s, st)

\* Time passes, and the sender's loop and a request's next statement run.
LedgerFairness ==
    /\ WF_ledgerVars(Sender)
    /\ \A s \in Sessions :
         /\ WF_ledgerVars(Age(s))
         /\ WF_ledgerVars(FinishedAges(s))
         /\ WF_ledgerVars(StopEnqueues(s))

LedgerSpec == LedgerInit /\ [][LedgerNext]_ledgerVars
FairLedgerSpec == LedgerSpec /\ LedgerFairness

-----------------------------------------------------------------------------
(* The contract the rows keep *)

Phase ==
    [s \in Sessions |->
        IF status[s] = "none" THEN "absent"
        ELSE IF finishedAt[s] = 0 THEN "open" ELSE "finished"]

Contract == INSTANCE SessionContract WITH
    Verdicts <- Terminal, Undecided <- "none",
    phase <- Phase, decided <- verdict, told <- heard

\* Whatever statuses arrive, in whatever order and however often, whoever else
\* ends, stops, reaps or deletes the session meanwhile: it finishes once and for
\* good, and the callback receiver hears of at most one end, decided at the
\* finish or after it.
KeepsContract == Contract!Spec

-----------------------------------------------------------------------------
(* Properties *)

\* The account of a session that never finished is never revoked under it.
RevokedOnlyIfFinished ==
    \A s \in Sessions : account[s] = "revoked" => finishedAt[s] > 0

\* The time a session finished is replaced only by a request that found no crew
\* or could not start its run: the listener keeps the first one, however many
\* terminal statuses it is sent, in whatever order.
OnlyRequestsRestamp ==
    [][\A s \in Sessions :
          finishedAt[s] > 0 /\ finishedAt'[s] # finishedAt[s]
            => request'[s] # request[s] \/ s \in unheard' \ unheard]_ledgerVars

\* A callback whose end is decided is given up only after all its attempts, or
\* because its secret is lost: the reaper, acting on a row it read before the
\* listener decided, leaves it alone.
DecidedIsTried ==
    [][\A s \in Sessions :
          callback[s] \in {"pending", "delivered"} /\ callback'[s] = "failed"
            => attempts'[s] >= MaxAttempts \/ failures' # failures]_ledgerVars

\* A callback that is decided is settled, through lost answers and crashes; one
\* registered for a session with a deadline is settled even if no status ever
\* arrives: the reaper enqueues it or gives it up.
CallbackIsSettled ==
    \A s \in Sessions :
        callback[s] = "pending" \/ (callback[s] = "registered" /\ lifetime[s] > 0)
            ~> callback[s] \in {"delivered", "failed", "none"}

\* run_session's comment on the enqueue that follows a publish nobody received:
\* "the status handler will never see this session end".
UnpublishedIsEnqueued ==
    [][\A s \in Sessions :
          (/\ published' # published
           /\ request'[s] # request[s]
           /\ callback[s] = "registered")
            => callback'[s] = "pending"]_ledgerVars

-----------------------------------------------------------------------------
(* The inductive invariant behind the contract *)

\* A session whose row does not exist yet has nothing else.
NothingBeforeRow ==
    \A s \in Sessions :
        /\ request[s] = "none" <=> status[s] = "none"
        /\ status[s] = "none" =>
             /\ verdict[s] = "none"
             /\ attempts[s] = 0
             /\ finishedAt[s] = 0
        /\ ~Exists(s) => callback[s] = "none" /\ ~accountRow[s]

\* The payload of a callback, and when it has one.
DecidedOnce ==
    \A s \in Sessions :
        /\ callback[s] = "registered" => verdict[s] = "none" /\ attempts[s] = 0
        /\ callback[s] = "pending" => verdict[s] \in Terminal /\ attempts[s] < MaxAttempts

\* Everything that speaks of an end comes after finished_at is set.
EndIsStamped ==
    /\ \A s \in Sessions :
         status[s] \in Terminal \/ verdict[s] # "none" \/ account[s] = "revoked"
         \/ s = revoking \/ s \in unheard
            => finishedAt[s] > 0
    /\ reaping.status \in Terminal => finishedAt[reaping.session] > 0

\* What the sender holds between two of its steps.
SenderHolds ==
    /\ reaping # NoRead => reaping.session \in Sessions
    /\ recording # NotPosted =>
         /\ recording.session \in Sessions
         /\ status[recording.session] # "none"
         /\ callback[recording.session] \in {"pending", "none"}

LedgerInv ==
    /\ LedgerTypeOK
    /\ NothingBeforeRow
    /\ DecidedOnce
    /\ EndIsStamped
    /\ SenderHolds
=============================================================================
