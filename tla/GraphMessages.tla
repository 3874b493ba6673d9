---------------------------- MODULE GraphMessages ----------------------------
(***************************************************************************)
(* The messages a run emits, from crew's XADD to the rows, token totals and *)
(* subgraph sessions django_app makes of them.  The stream is read by one   *)
(* consumer through one group; an entry is pending from its delivery to its *)
(* acknowledgement, and every delivery but the first is a claim.  The       *)
(* consumer starts over after any failure, its container may be recreated   *)
(* under another name, and the status handler writes the same session rows  *)
(* from a process of its own.                                               *)
(*                                                                         *)
(* One action is one Redis command or transaction, or one database          *)
(* transaction.  A message is what the code tells apart in it (its kind),   *)
(* and a total is the usages it is the sum of.                              *)
(***************************************************************************)
EXTENDS Naturals, FiniteSets

CONSTANTS
    Messages,       \* numbered in the order their sessions emit them
    Sessions,
    NoSession,      \* the status handler is idle
    Names,          \* host names the consumer's container may have
    FirstName,      \* the one it has at first
    SessionOf,      \* the session of each message
    KindChoices,    \* what the messages may be
    BatchSize,      \* settings.GRAPH_MESSAGE_BATCH_SIZE
    MaxLen,         \* crew's GRAPH_MESSAGE_STREAM_MAXLEN
    IsolateAfter,   \* MAX_DELIVERIES_BEFORE_ISOLATING
    FastRetries,    \* consecutive failures whose delay is below
                    \* STALE_ENTRY_IDLE_MILLISECONDS
    MaxFailures     \* bound: failed commands and transactions, repeated XADDs,
                    \* restarts of the consumer and deleted sessions, together

Kinds == {"plain", "metered", "start", "inner", "end",
          "malformed", "rejected", "unsummable", "poison"}

ASSUME GraphAssumption ==
    /\ NoSession \notin Sessions
    /\ FirstName \in Names
    /\ Messages \subseteq Nat \ {0}
    /\ SessionOf \in [Messages -> Sessions]
    /\ KindChoices \subseteq [Messages -> Kinds]
    /\ BatchSize \in Nat /\ MaxLen \in Nat
    /\ IsolateAfter \in Nat \ {0}
    /\ FastRetries \in Nat

VARIABLES
    kind,           \* what each message is; chosen once
    sent,           \* messages crew has added
    stream,         \* the entries of the stream
    lastId,         \* the id of the newest entry ever added
    lastDelivered,  \* the group's last-delivered-id
    pending,        \* the group's pending entries
    me,             \* the consumer's name
    renamed,        \* some consumer ran under another name
    pc,             \* where the consumer is
    back,           \* where it goes on after the batch it handles
    periodic,       \* it looks for abandoned entries between two reads
    mode,           \* how the batch is stored: whole, alone or isolating
    claimed,        \* the entries of the batch
    todo,           \* entries still to be stored alone
    work,           \* entries persist_batch is storing
    streak,         \* consecutive_failures
    failures,
    place,          \* the entry each row was stored from; 0 without a row
    status,         \* open, finished or deleted
    total,          \* how often each usage is in its session's stored total
    spawned,        \* how often the subgraph sessions were made
    copied,         \* the messages copied into them
    charged,        \* how often each usage was added to its session's hash
    counted,        \* the sets of counted uuids
    handling,       \* the session whose row the status handler holds
    readTotal,      \* the hash as the handler read it
    told,           \* messages published to the live views
    acked,          \* messages of acknowledged entries
    dropped         \* messages given up with a logged error

streamVars == <<sent, stream, lastId>>
groupVars == <<lastDelivered, pending>>
batchVars == <<mode, claimed, todo, work>>
processVars == <<me, renamed, pc, back, periodic, batchVars, streak>>
rowVars == <<place, status, total, spawned, copied>>
hashVars == <<charged, counted>>
handlerVars == <<handling, readTotal>>
ghostVars == <<told, acked, dropped>>
graphVars == <<kind, streamVars, groupVars, processVars, failures, rowVars, hashVars,
               handlerVars, ghostVars>>

Entry == [id : Nat \ {0}, msg : Messages]
PendingEntry == [id : Nat \ {0}, msg : Messages, owner : Names, times : Nat, idle : BOOLEAN]
Busy == {"inserting", "counting", "totalling", "subgraphing", "announcing", "next",
         "acking"}

GraphTypeOK ==
    /\ kind \in [Messages -> Kinds]
    /\ sent \subseteq Messages
    /\ stream \subseteq Entry
    /\ lastId \in Nat /\ lastDelivered \in Nat
    /\ pending \subseteq PendingEntry
    /\ me \in Names /\ renamed \in BOOLEAN
    /\ pc \in Busy \cup {"joining", "takingOver", "reviewing", "owning", "reading",
                         "checking", "asleep"}
    /\ back \in {"takingOver", "owning", "checking"}
    /\ periodic \in BOOLEAN
    /\ mode \in {"whole", "alone", "isolating"}
    /\ claimed \subseteq Entry /\ todo \cup work \subseteq claimed
    /\ streak \in Nat /\ failures \in Nat
    /\ place \in [Messages -> Nat]
    /\ status \in [Sessions -> {"open", "finished", "deleted"}]
    /\ total \in [Messages -> Nat]
    /\ spawned \in [Sessions -> Nat]
    /\ copied \in [Sessions -> SUBSET Messages]
    /\ charged \in [Messages -> Nat]
    /\ counted \subseteq Messages
    /\ handling \in Sessions \cup {NoSession}
    /\ readTotal \in [Messages -> Nat]
    /\ told \subseteq Messages /\ acked \subseteq Messages /\ dropped \subseteq Messages

GraphInit ==
    /\ kind \in KindChoices
    /\ sent = {} /\ stream = {} /\ lastId = 0
    /\ lastDelivered = 0 /\ pending = {}
    /\ me = FirstName /\ renamed = FALSE
    /\ pc = "joining" /\ back = "owning" /\ periodic = FALSE
    /\ mode = "whole" /\ claimed = {} /\ todo = {} /\ work = {}
    /\ streak = 0 /\ failures = 0
    /\ place = [m \in Messages |-> 0]
    /\ status = [s \in Sessions |-> "open"]
    /\ total = [m \in Messages |-> 0]
    /\ spawned = [s \in Sessions |-> 0]
    /\ copied = [s \in Sessions |-> {}]
    /\ charged = [m \in Messages |-> 0]
    /\ counted = {}
    /\ handling = NoSession /\ readTotal = [m \in Messages |-> 0]
    /\ told = {} /\ acked = {} /\ dropped = {}

-----------------------------------------------------------------------------
(* What the messages are *)

OfSession(s) == {m \in Messages : SessionOf[m] = s}
MessagesOf(S) == {e.msg : e \in S}
\* sum_token_usage finds usage in it.
Metered == {m \in Messages : kind[m] \in {"metered", "inner"}}
Stored == {m \in Messages : place[m] # 0}
Ends(M) == {SessionOf[m] : m \in {n \in M : kind[n] = "end"}}

\* The n entries of S with the lowest ids.
Oldest(n, S) == {e \in S : Cardinality({f \in S : f.id < e.id}) < n}

\* _parse: an XADD repeated by crew leaves one message twice in a batch.
Unrepeated(S) == {e \in S : \A f \in S : f.msg = e.msg => e.id <= f.id}

\* _payload_of and _parse drop what is no graph message.
WellFormed(S) == {e \in S : kind[e.msg] # "malformed"}

\* The entry of a pending one; gone when the stream was trimmed.
EntryOf(p) == [id |-> p.id, msg |-> p.msg]
Surviving(P) == {p \in P : EntryOf(p) \in stream}

Failure == failures < MaxFailures /\ failures' = failures + 1

-----------------------------------------------------------------------------
(* crew, the users and the status handler *)

\* aadd_graph_message: a repeated XADD adds the message again, and past the cap
\* the oldest entries go, stored or not.  graph_end is a session's last message.
Send(m, twice) ==
    /\ m \notin sent
    /\ \A n \in OfSession(SessionOf[m]) : n < m => n \in sent /\ kind[n] # "end"
    /\ IF twice THEN Failure ELSE UNCHANGED failures
    /\ sent' = sent \cup {m}
    /\ LET added == IF twice THEN {lastId + 1, lastId + 2} ELSE {lastId + 1}
           grown == stream \cup [id : added, msg : {m}]
           excess == Cardinality(grown) - MaxLen
       IN /\ lastId' = lastId + Cardinality(added)
          /\ \E k \in 0..Cardinality(grown) :
                /\ k = 0 \/ k <= excess
                /\ stream' = grown \ Oldest(k, grown)
    /\ UNCHANGED <<kind, groupVars, processVars, rowVars, hashVars, handlerVars,
                   ghostVars>>

\* session_status_handler takes the row lock and reads the hash.
StatusRead(s) ==
    /\ handling = NoSession
    /\ status[s] # "deleted"
    /\ handling' = s
    /\ readTotal' = [m \in Messages |-> IF SessionOf[m] = s THEN charged[m] ELSE 0]
    /\ UNCHANGED <<kind, streamVars, groupVars, processVars, failures, rowVars, hashVars,
                   ghostVars>>

\* Its transaction writes the status and the total it read, and commits.
StatusWrite(s, st) ==
    /\ handling = s
    /\ status' = [status EXCEPT ![s] = st]
    /\ total' = [m \in Messages |-> IF SessionOf[m] = s THEN readTotal[m] ELSE total[m]]
    /\ handling' = NoSession
    /\ readTotal' = [m \in Messages |-> 0]
    /\ UNCHANGED <<kind, streamVars, groupVars, processVars, failures, place, spawned,
                   copied, hashVars, ghostVars>>

\* The deletion of a session cascades to its messages.
DeleteSession(s) ==
    /\ status[s] # "deleted" /\ handling # s
    /\ Failure
    /\ status' = [status EXCEPT ![s] = "deleted"]
    /\ place' = [m \in Messages |-> IF SessionOf[m] = s THEN 0 ELSE place[m]]
    /\ UNCHANGED <<kind, streamVars, groupVars, processVars, total, spawned, copied,
                   hashVars, handlerVars, ghostVars>>

-----------------------------------------------------------------------------
(* How the consumer's steps end *)

\* Mutant: the retry finds the messages still to be stored alone.
NoBatchButTodo ==
    /\ claimed' = {} /\ work' = {}
    /\ mode' = "whole" /\ back' = "owning"
    /\ UNCHANGED todo

\* The consumer's locals are gone.
NoBatch ==
    /\ claimed' = {} /\ todo' = {} /\ work' = {}
    /\ mode' = "whole" /\ back' = "owning"

\* run: any exception, then the wait that doubles with the streak.
Raise ==
    /\ pc' = "asleep"
    /\ streak' = IF streak > FastRetries THEN streak ELSE streak + 1
    /\ NoBatch
    /\ periodic' = FALSE
    /\ UNCHANGED <<me, renamed>>

\* The step goes on, or its effect is there and its reply is lost.
ThenOrLost(goOn) ==
    \/ goOn /\ UNCHANGED failures
    \/ Raise /\ Failure

Goto(label) ==
    /\ pc' = label
    /\ UNCHANGED <<me, renamed, back, periodic, batchVars, streak>>

\* _handle: the batch whole, or one message at a time.
Handle(S, isolate, resume) ==
    /\ claimed' = S
    /\ mode' = IF isolate THEN "isolating" ELSE "whole"
    /\ todo' = IF isolate THEN WellFormed(S) ELSE {}
    /\ work' = IF isolate THEN {} ELSE Unrepeated(WellFormed(S))
    /\ pc' = IF isolate THEN "next" ELSE "inserting"
    /\ back' = resume
    /\ UNCHANGED <<me, renamed, periodic, streak>>

\* A delivery to this consumer: counted, and no longer idle.
Claimed(P) ==
    {[p EXCEPT !.owner = me, !.times = IF @ < IsolateAfter THEN @ + 1 ELSE @,
               !.idle = FALSE] : p \in P}

-----------------------------------------------------------------------------
(* The consumer: starting, taking over, reading *)

\* start, _ensure_group.
Join ==
    /\ pc = "joining"
    /\ periodic' = FALSE
    /\ pc' = "takingOver"
    /\ UNCHANGED <<kind, streamVars, groupVars, me, renamed, back, batchVars, streak, failures, rowVars, hashVars, handlerVars, ghostVars>>

Idle == {p \in pending : p.idle}

\* _take_over_stale_entries: XAUTOCLAIM moves idle entries of any consumer here,
\* drops those that were trimmed, and what it claimed is handled at once.
TakeOver ==
    /\ pc = "takingOver"
    /\ Idle # {}
    /\ LET batch == Oldest(BatchSize, Idle)
           kept == Claimed(Surviving(batch))
       IN /\ pending' = (pending \ batch) \cup kept
          /\ ThenOrLost(IF kept = {} THEN Goto("takingOver")
                        ELSE Handle({EntryOf(p) : p \in kept}, FALSE, "takingOver"))
    /\ UNCHANGED <<kind, streamVars, lastDelivered, rowVars, hashVars, handlerVars,
                   ghostVars>>

NothingToTakeOver ==
    /\ pc = "takingOver"
    /\ Idle = {}
    /\ Goto("reviewing")
    /\ UNCHANGED <<kind, streamVars, groupVars, failures, rowVars, hashVars, handlerVars,
                   ghostVars>>

\* Mutant: a consumer is deleted with what it has pending.
AnyOther == Names \ {me}

\* Consumers without pending entries may be long idle.
Deletable == {n \in Names \ {me} : \A p \in pending : p.owner # n}

\* _review_other_consumers: XGROUP DELCONSUMER drops what the consumer has pending.
ReviewConsumers ==
    /\ pc = "reviewing"
    /\ \E D \in SUBSET Deletable : pending' = {p \in pending : p.owner \notin D}
    /\ ThenOrLost(/\ pc' = IF periodic THEN "reading" ELSE "owning"
                  /\ periodic' = FALSE
                  /\ UNCHANGED <<me, renamed, back, batchVars, streak>>)
    /\ UNCHANGED <<kind, streamVars, lastDelivered, rowVars, hashVars, handlerVars,
                   ghostVars>>

\* Mutant: a consumer that starts reads on, past what it had not finished.
NoneOwn == {}

Own == {p \in pending : p.owner = me}

\* _process_own_pending_entries: claims its own entries, isolating when one was
\* delivered often; trimmed ones are acknowledged.
ClaimOwn ==
    /\ pc = "owning"
    /\ Own # {}
    /\ LET batch == Oldest(BatchSize, Own)
           kept == Claimed(Surviving(batch))
           often == \E p \in batch : p.times >= IsolateAfter
       IN /\ pending' = (pending \ batch) \cup kept
          /\ ThenOrLost(IF kept = {} THEN Goto("owning")
                        ELSE Handle({EntryOf(p) : p \in kept}, often, "owning"))
    /\ UNCHANGED <<kind, streamVars, lastDelivered, rowVars, hashVars, handlerVars,
                   ghostVars>>

\* start returns: the streak is over.
Started ==
    /\ pc = "owning"
    /\ Own = {}
    /\ pc' = "reading"
    /\ streak' = 0
    /\ UNCHANGED <<kind, streamVars, groupVars, me, renamed, back, periodic, batchVars, failures, rowVars, hashVars, handlerVars, ghostVars>>

Unread == {e \in stream : e.id > lastDelivered}

\* process_new, _read_new: XREADGROUP of new entries makes them pending.
ReadNew ==
    /\ pc = "reading"
    /\ Unread # {}
    /\ LET batch == Oldest(BatchSize, Unread)
       IN /\ lastDelivered' \in {e.id : e \in batch}
          /\ \A e \in batch : e.id <= lastDelivered'
          /\ pending' = pending \cup
                {[id |-> e.id, msg |-> e.msg, owner |-> me, times |-> 1, idle |-> FALSE] :
                   e \in batch}
          /\ ThenOrLost(Handle(batch, FALSE, "checking"))
    /\ UNCHANGED <<kind, streamVars, rowVars, hashVars, handlerVars, ghostVars>>

NothingToRead ==
    /\ pc = "reading"
    /\ Unread = {}
    /\ Goto("checking")
    /\ UNCHANGED <<kind, streamVars, groupVars, failures, rowVars, hashVars, handlerVars,
                   ghostVars>>

\* The rest of process_new; the streak is over when it returns.
CheckNotDue ==
    /\ pc = "checking"
    /\ pc' = "reading"
    /\ streak' = 0
    /\ UNCHANGED <<kind, streamVars, groupVars, me, renamed, back, periodic, batchVars, failures, rowVars, hashVars, handlerVars, ghostVars>>

CheckDue ==
    /\ pc = "checking"
    /\ pc' = "takingOver"
    /\ periodic' = TRUE
    /\ UNCHANGED <<kind, streamVars, groupVars, me, renamed, back, batchVars, streak, failures, rowVars, hashVars, handlerVars, ghostVars>>

\* A command of the consumer fails before it has an effect.
RedisFails ==
    /\ pc \in {"joining", "takingOver", "reviewing", "owning", "reading", "checking",
               "counting", "announcing", "acking"}
    /\ Failure
    /\ Raise
    /\ UNCHANGED <<kind, streamVars, groupVars, rowVars, hashVars, handlerVars, ghostVars>>

\* Time passes: STALE_ENTRY_IDLE_MILLISECONDS since their last delivery.  A short
\* wait leaves the consumer's own entries fresh.
GoIdle ==
    /\ pc \in {"asleep", "reading"}
    /\ LET waiting == {p \in pending : ~p.idle /\ (pc = "asleep" => p.owner # me)}
       IN /\ waiting # {}
          /\ pending' = (pending \ waiting) \cup {[p EXCEPT !.idle = TRUE] : p \in waiting}
    /\ UNCHANGED <<kind, streamVars, lastDelivered, processVars, failures, rowVars,
                   hashVars, handlerVars, ghostVars>>

\* run: the retry delay is over.  After FastRetries failures it is as long as it
\* takes an entry to be idle.
StartOver ==
    /\ pc = "asleep"
    /\ pc' = "joining"
    /\ pending' = IF streak > FastRetries
                  THEN {[p EXCEPT !.idle = TRUE] : p \in pending}
                  ELSE pending
    /\ UNCHANGED <<kind, streamVars, lastDelivered, me, renamed, back, periodic, batchVars,
                   streak, failures, rowVars, hashVars, handlerVars, ghostVars>>

\* The process dies anywhere, and starts in the same container or in a new one.
Restart(name) ==
    /\ Failure
    /\ me' = name
    /\ renamed' = (renamed \/ name # me)
    /\ pc' = "joining"
    /\ streak' = 0
    /\ NoBatch
    /\ periodic' = FALSE
    /\ UNCHANGED <<kind, streamVars, groupVars, rowVars, hashVars, handlerVars, ghostVars>>

-----------------------------------------------------------------------------
(* persist_batch, and what _handle and _persist_alone do when it raises *)

\* The next step of the batch; a message stored alone is followed by the next.
NextStep(label) ==
    /\ pc' = label
    /\ UNCHANGED <<me, renamed, back, periodic, mode, claimed, todo, streak>>

\* The first message still to be stored alone, or the acknowledgement.
StoreNext ==
    /\ pc = "next"
    /\ IF todo = {} THEN Goto("acking")
       ELSE /\ work' = Oldest(1, todo)
            /\ todo' = todo \ work'
            /\ pc' = "inserting"
            /\ UNCHANGED <<me, renamed, back, periodic, mode, claimed, streak>>
    /\ UNCHANGED <<kind, streamVars, groupVars, failures, rowVars, hashVars, handlerVars,
                   ghostVars>>

\* What the database accepts of the batch: no rejected row, no deleted session.
Accepted(S) ==
    {e \in S : kind[e.msg] # "rejected" /\ status[SessionOf[e.msg]] # "deleted"}

Poisoned == \E e \in work : kind[e.msg] = "poison" /\ e \in Accepted(work)

\* Mutant: what is stored already is not handled again.
InsertNewOnly ==
    /\ pc = "inserting"
    /\ ~Poisoned
    /\ work' = {e \in Accepted(work) : place[e.msg] = 0}
    /\ place' = [m \in Messages |->
                   IF m \in MessagesOf(work')
                   THEN (CHOOSE e \in work' : e.msg = m).id
                   ELSE place[m]]
    /\ NextStep("counting")
    /\ UNCHANGED <<kind, streamVars, groupVars, failures, status, total, spawned, copied,
                   hashVars, handlerVars, ghostVars>>

\* _drop_messages_of_deleted_sessions, _exclude_stored and _insert.
Insert ==
    /\ pc = "inserting"
    /\ ~Poisoned
    /\ work' = Accepted(work)
    /\ place' = [m \in Messages |->
                   IF place[m] = 0 /\ m \in MessagesOf(work')
                   THEN (CHOOSE e \in work' : e.msg = m).id
                   ELSE place[m]]
    /\ NextStep("counting")
    /\ UNCHANGED <<kind, streamVars, groupVars, failures, status, total, spawned, copied,
                   hashVars, handlerVars, ghostVars>>

\* Mutant: what the set of counted uuids holds is added again.
OfferedAgain == MessagesOf(work) \cap Metered

\* _add_token_usage offers every message with usage; add_once leaves out those
\* counted before.
Uncounted == (MessagesOf(work) \cap Metered) \ counted

\* add_once: the totals and the sets in one MULTI.
Count ==
    /\ pc = "counting"
    /\ \A e \in work : kind[e.msg] # "unsummable"
    /\ charged' = [m \in Messages |-> IF m \in Uncounted THEN charged[m] + 1 ELSE charged[m]]
    /\ counted' = counted \cup Uncounted
    /\ ThenOrLost(NextStep("totalling") /\ UNCHANGED work)
    /\ UNCHANGED <<kind, streamVars, groupVars, rowVars, handlerVars, ghostVars>>

\* The sessions _store_token_totals writes: those that end, and finished ones the
\* batch carries usage for.
Refreshed ==
    LET M == MessagesOf(work)
        metered == {SessionOf[m] : m \in M \cap Metered}
    IN {s \in Sessions : /\ status[s] # "deleted"
                         /\ s \in Ends(M) \/ (s \in metered /\ status[s] = "finished")}

Candidates == {SessionOf[m] : m \in MessagesOf(work)}

\* Mutant: the hash is read without the row lock.
AnyRow == TRUE

\* select_for_update: no status handler is between its read and its commit.
RowsFree == handling \notin Candidates

StoreTotals ==
    /\ pc = "totalling"
    /\ RowsFree
    /\ total' = [m \in Messages |->
                   IF SessionOf[m] \in Refreshed THEN charged[m] ELSE total[m]]
    /\ NextStep("subgraphing")
    /\ UNCHANGED <<kind, streamVars, groupVars, work, failures, place, status, spawned,
                   copied, hashVars, handlerVars, ghostVars>>

\* Mutant: subgraph sessions are for runs that have finished.
RootsFinished ==
    {s \in Ends(MessagesOf(work)) :
        /\ status[s] = "finished"
        /\ \E m \in OfSession(s) \cap Stored : kind[m] = "start"
        /\ spawned[s] = 0}

\* create_subgraph_sessions: roots with a subgraph_start among their rows and no
\* child session yet.
Roots ==
    {s \in Ends(MessagesOf(work)) :
        /\ status[s] # "deleted"
        /\ \E m \in OfSession(s) \cap Stored : kind[m] = "start"
        /\ spawned[s] = 0}

\* Mutant: the messages of the batch stand for those of the session.
InnerOfBatch(s) == {m \in OfSession(s) \cap MessagesOf(work) : kind[m] = "inner"}

\* _copy_messages_into_subgraph_sessions: the rows of messages run inside one.
Inner(s) == {m \in OfSession(s) \cap Stored : kind[m] = "inner"}

MakeSubgraphs ==
    /\ pc = "subgraphing"
    /\ handling \notin Roots
    /\ spawned' = [s \in Sessions |-> IF s \in Roots THEN spawned[s] + 1 ELSE spawned[s]]
    /\ copied' = [s \in Sessions |->
                    IF s \in Roots THEN Inner(s) ELSE copied[s]]
    /\ NextStep("announcing")
    /\ UNCHANGED <<kind, streamVars, groupVars, work, failures, place, status, total,
                   hashVars, handlerVars, ghostVars>>

\* What is not transient is logged, and graph_end is announced without them.
SubgraphsGivenUp ==
    /\ pc = "subgraphing"
    /\ Roots # {}
    /\ Failure
    /\ dropped' = dropped \cup {m \in MessagesOf(work) : kind[m] = "end"}
    /\ NextStep("announcing")
    /\ UNCHANGED <<kind, streamVars, groupVars, work, rowVars, hashVars, handlerVars, told,
                   acked>>

\* _publish.
Announce ==
    /\ pc = "announcing"
    /\ told' = told \cup MessagesOf(work)
    /\ ThenOrLost(NextStep(IF mode = "whole" THEN "acking" ELSE "next") /\ UNCHANGED work)
    /\ UNCHANGED <<kind, streamVars, groupVars, rowVars, hashVars, handlerVars, acked,
                   dropped>>

\* _acknowledge: XACK and XDEL in one MULTI.
Acknowledge ==
    /\ pc = "acking"
    /\ pending' = {p \in pending : EntryOf(p) \notin claimed}
    /\ stream' = stream \ claimed
    /\ acked' = acked \cup MessagesOf(claimed)
    /\ ThenOrLost(/\ pc' = back
                  /\ NoBatch
                  /\ UNCHANGED <<me, renamed, periodic, streak>>)
    /\ UNCHANGED <<kind, sent, lastId, lastDelivered, rowVars, hashVars,
                   handlerVars, told, dropped>>

\* _persist_alone gives the message up and goes on.
GiveUp ==
    /\ dropped' = dropped \cup MessagesOf(work)
    /\ work' = {}
    /\ NextStep("next")

\* Mutant: the error is logged and the batch goes on.
CountSwallowed ==
    /\ pc = "counting"
    /\ \E e \in work : kind[e.msg] = "unsummable"
    /\ NextStep("totalling")
    /\ UNCHANGED <<kind, streamVars, groupVars, work, failures, rowVars, hashVars,
                   handlerVars, ghostVars>>

\* An error that a retry cannot mend: int() of a usage that is no number.
CountRaises ==
    /\ pc = "counting"
    /\ \E e \in work : kind[e.msg] = "unsummable"
    /\ IF mode = "whole"
       THEN /\ mode' = "alone"
            /\ todo' = WellFormed(claimed)
            /\ work' = {}
            /\ pc' = "next"
            /\ UNCHANGED <<me, renamed, back, periodic, claimed, streak, dropped>>
       ELSE GiveUp
    /\ UNCHANGED <<kind, streamVars, groupVars, failures, rowVars, hashVars, handlerVars,
                   told, acked>>

\* A database error while the database answers: one message alone is given up if
\* it was delivered often, anything else is raised.
StatementFails ==
    IF mode = "isolating" THEN GiveUp ELSE Raise /\ UNCHANGED dropped

\* Such a message fails at every delivery.
PoisonFails ==
    /\ pc = "inserting"
    /\ Poisoned
    /\ StatementFails
    /\ UNCHANGED <<kind, streamVars, groupVars, failures, rowVars, hashVars, handlerVars,
                   told, acked>>

\* The database is down, or fails a statement once.
DatabaseFails ==
    /\ pc \in {"inserting", "totalling", "subgraphing"}
    /\ Failure
    /\ StatementFails \/ (Raise /\ UNCHANGED dropped)
    /\ UNCHANGED <<kind, streamVars, groupVars, rowVars, hashVars, handlerVars, told, acked>>

-----------------------------------------------------------------------------

Consumer ==
    \/ Join \/ TakeOver \/ NothingToTakeOver \/ ReviewConsumers \/ ClaimOwn \/ Started
    \/ ReadNew \/ NothingToRead \/ CheckNotDue \/ CheckDue \/ StartOver
    \/ StoreNext \/ Insert \/ Count \/ StoreTotals \/ MakeSubgraphs \/ Announce
    \/ Acknowledge \/ CountRaises \/ PoisonFails

GraphNext ==
    \/ \E m \in Messages, twice \in BOOLEAN : Send(m, twice)
    \/ \E s \in Sessions :
          \/ StatusRead(s)
          \/ \E st \in {"open", "finished"} : StatusWrite(s, st)
          \/ DeleteSession(s)
    \/ Consumer
    \/ SubgraphsGivenUp \/ RedisFails \/ DatabaseFails \/ GoIdle
    \/ \E name \in Names : Restart(name)

GraphSpec == GraphInit /\ [][GraphNext]_graphVars

\* The consumer's loop goes on, time passes, the periodic check comes round, a status
\* handler that has read a row writes it, and PostgreSQL queues who waits for a row.
FairGraphSpec ==
    /\ GraphSpec
    /\ WF_graphVars(Consumer)
    /\ SF_graphVars(StoreTotals) /\ SF_graphVars(MakeSubgraphs)
    /\ SF_graphVars(CheckDue)
    /\ SF_graphVars(GoIdle)
    /\ \A s \in Sessions : WF_graphVars(\E st \in {"open", "finished"} : StatusWrite(s, st))

-----------------------------------------------------------------------------
(* Properties *)

\* A message's usage is added to its session's hash exactly once when its uuid is
\* counted, however often its batch is redelivered (session_token_usage.py:80-86).
CountedOnce ==
    \A m \in Messages : charged[m] = IF m \in counted THEN 1 ELSE 0

Excused(m) ==
    \/ status[SessionOf[m]] = "deleted"
    \/ kind[m] \in {"malformed", "rejected"}
    \/ m \in dropped

\* An acknowledged entry is gone from Redis, so everything its message asks for
\* has been done: its row, its usage and its announcement, unless it was dropped
\* with an error (graph_message_stream_consumer.py:3-5).
AcknowledgedIsDone ==
    \A m \in acked : ~Excused(m) =>
        place[m] # 0 /\ m \in told /\ (m \in Metered => m \in counted)

\* A finished session whose messages were all handled has their whole usage in its
\* row, whichever of the status handler and the consumer came last
\* (graph_message_store.py:258-260).
TotalComplete ==
    \A s \in Sessions :
        (/\ status[s] = "finished"
         /\ handling # s
         /\ OfSession(s) \cap sent \subseteq acked
         /\ OfSession(s) \cap dropped = {})
        => \A m \in OfSession(s) : total[m] = charged[m]

\* The subgraph sessions of a root are made once, although graph_end may be
\* redelivered after they were (graph_message_store.py:325); and with one consumer
\* under one name they have every message that ran inside a subgraph and was not given
\* up before: one given up is stored late when its batch is delivered again.
SubgraphsComplete ==
    \A s \in Sessions :
        /\ spawned[s] <= 1
        /\ (spawned[s] > 0 /\ ~renamed /\ status[s] # "deleted")
           => {m \in OfSession(s) \cap Stored : kind[m] = "inner"} \ dropped \subseteq copied[s]

\* graph_end reaches the live views when the subgraph sessions are there.
EndIsLast ==
    \A m \in told : (kind[m] = "end" /\ ~Excused(m) /\ ~renamed) =>
        LET s == SessionOf[m]
        IN (\E n \in (OfSession(s) \cap Stored) \ dropped : kind[n] = "start")
           => spawned[s] > 0

\* One consumer under one name stores a session's messages in the order crew added
\* them, through any failures and restarts, but for those given up before
\* (graph_message_stream_consumer.py:7-14).
StoredInOrder ==
    [][\A m, n \in Messages :
          (/\ SessionOf[m] = SessionOf[n]
           /\ place[m] # 0
           /\ place[n] = 0 /\ place'[n] # 0
           /\ ~renamed /\ n \notin dropped)
          => place[m] < place'[n]]_graphVars

\* Whatever the database and Redis do for a while, each entry is handled or was
\* trimmed in the end, unless a message fails its batch every time.
EntriesAreSettled ==
    (\E m \in Messages : kind[m] = "poison") \/ [](stream # {} => <>(stream = {}))

\* run's docstring: "a batch that failed is retried until it is stored, or isolated
\* and dropped after MAX_DELIVERIES_BEFORE_ISOLATING deliveries".
PoisonIsDropped ==
    [](\A m \in Messages : (kind[m] = "poison" /\ m \in sent) => <>(stream = {}))

\* Stored now, or until their session was deleted.
Kept == {m \in Messages : place[m] # 0 \/ status[SessionOf[m]] = "deleted"}

Log == INSTANCE MessageLog WITH metered <- Metered, kept <- Kept, charged <- counted

\* Every step of the stream's parties is a step of the abstract log.
ImplementsLog == Log!Spec
=============================================================================
