----------------------------- MODULE AgentTasks -----------------------------
(***************************************************************************)
(* How crew has an agent node run by the agent service.  For each run crew  *)
(* sets a request key, adds a request to the shared stream, and reads the    *)
(* run's own result stream until an answer, a stop or its deadline; then it  *)
(* deletes both keys, which is also how it withdraws the run.  The replicas  *)
(* of the agent service share the requests through one consumer group, run   *)
(* as many as they have slots, and never claim what another replica left     *)
(* pending.                                                                 *)
(*                                                                         *)
(* One action is one Redis command, or one call of the agent to a model or a *)
(* tool.  What the loop asks the model, and how it ends, is data.           *)
(***************************************************************************)
EXTENDS Naturals, Sequences, FiniteSets

CONSTANTS
    Requests,       \* correlation ids
    Agents,         \* replicas; one that died comes back as another
    NoAgent,
    Slots,          \* AGENT_MAX_CONCURRENT_RUNS
    MaxCalls,       \* bound: calls to models and tools per run
    MaxFailures     \* bound: failed or repeated commands and crashes, together

ASSUME AgentAssumption ==
    /\ IsFiniteSet(Requests) /\ NoAgent \notin Agents
    /\ Slots \in Nat \ {0}
    /\ MaxCalls \in Nat \ {0}
    /\ MaxFailures \in Nat

\* An XADD repeated by crew's client gives a request a second entry.
Entries == Requests \X {1, 2}
RequestOf(e) == e[1]

VARIABLES
    waiter,     \* where _dispatch is
    outcome,    \* the answer it leaves with
    key,        \* requests whose key is in Redis
    queue,      \* entries of the request stream not yet read
    owner,      \* the replica an entry is pending for
    pc,         \* where the run of an entry is
    calls,      \* calls it has begun
    strays,     \* those begun when the key was gone
    results,    \* the result stream of each request
    expiring,   \* result streams with a TTL
    seen,       \* entries of it crew has read
    heard,      \* live events crew has forwarded
    up,         \* replicas alive
    stopping,   \* of them, those that read no more
    failures,
    harmed      \* requests a failure hit

crewVars == <<waiter, outcome, seen, heard>>
redisVars == <<key, queue, owner, results, expiring>>
runVars == <<pc, calls, strays>>
replicaVars == <<up, stopping>>
agentVars == <<crewVars, redisVars, runVars, replicaVars, failures, harmed>>

Answers == {"result", "error"}
InFlight == {"loading", "running", "calling", "reporting", "result", "error", "acking"}

AgentTypeOK ==
    /\ waiter \in [Requests -> {"idle", "stored", "waiting", "leaving", "done"}]
    /\ outcome \in [Requests -> Answers \cup {"none"}]
    /\ key \subseteq Requests
    /\ queue \in Seq(Entries)
    /\ owner \in [Entries -> Agents \cup {NoAgent}]
    /\ pc \in [Entries -> InFlight \cup {"unread", "over", "lost"}]
    /\ calls \in [Entries -> 0..MaxCalls]
    /\ strays \in [Entries -> 0..MaxCalls]
    /\ results \in [Requests -> Seq(Answers \cup {"live"})]
    /\ expiring \subseteq Requests
    /\ seen \in [Requests -> Nat] /\ heard \in [Requests -> Nat]
    /\ stopping \subseteq up /\ up \subseteq Agents
    /\ failures \in 0..MaxFailures /\ harmed \subseteq Requests
    /\ \A r \in Requests :
          waiter[r] \in {"idle", "stored", "waiting"} => seen[r] <= Len(results[r])

AgentInit ==
    /\ waiter = [r \in Requests |-> "idle"]
    /\ outcome = [r \in Requests |-> "none"]
    /\ key = {} /\ queue = <<>>
    /\ owner = [e \in Entries |-> NoAgent]
    /\ pc = [e \in Entries |-> "unread"]
    /\ calls = [e \in Entries |-> 0]
    /\ strays = [e \in Entries |-> 0]
    /\ results = [r \in Requests |-> <<>>]
    /\ expiring = {}
    /\ seen = [r \in Requests |-> 0] /\ heard = [r \in Requests |-> 0]
    /\ up = Agents /\ stopping = {}
    /\ failures = 0 /\ harmed = {}

Failure(R) ==
    /\ failures < MaxFailures
    /\ failures' = failures + 1
    /\ harmed' = harmed \cup R

\* A failure that hits the requests R, or none.
Possibly(failed, R) == IF failed THEN Failure(R) ELSE UNCHANGED <<failures, harmed>>

-----------------------------------------------------------------------------
(* crew: _dispatch and _await_result *)

\* _dispatch returns or raises; its local variables are gone.
End(r) ==
    /\ waiter' = [waiter EXCEPT ![r] = "done"]
    /\ outcome' = [outcome EXCEPT ![r] = "none"]
    /\ seen' = [seen EXCEPT ![r] = 0]
    /\ heard' = [heard EXCEPT ![r] = 0]

GoOn(r, where) ==
    /\ waiter' = [waiter EXCEPT ![r] = where]
    /\ UNCHANGED <<outcome, seen, heard>>

\* SET with a TTL; when it raises, what it stored stays until the TTL.
StoreRequest(r, raises) ==
    /\ waiter[r] = "idle"
    /\ Possibly(raises, {r})
    /\ key' = key \cup {r}
    /\ IF raises THEN End(r) ELSE GoOn(r, "stored")
    /\ UNCHANGED <<queue, owner, results, expiring, runVars, replicaVars>>

\* XADD, before the try: one that raises leaves the key and perhaps the entry.
Dispatch(r, copies, raises) ==
    /\ waiter[r] = "stored"
    /\ copies = 0 => raises
    /\ Possibly(raises \/ copies # 1, {r})
    /\ queue' = queue \o [i \in 1..copies |-> <<r, i>>]
    /\ IF raises THEN End(r) ELSE GoOn(r, "waiting")
    /\ UNCHANGED <<key, owner, results, expiring, runVars, replicaVars>>

\* One turn of the wait ends it without an answer: the session was stopped, the
\* deadline has passed, or the read raised.
StopWaiting(r, raises) ==
    /\ waiter[r] = "waiting"
    /\ Possibly(raises, {r})
    /\ GoOn(r, "leaving")
    /\ UNCHANGED <<redisVars, runVars, replicaVars>>

\* Mutant: the stream is read from "$".
Newest(r) == (seen[r] + 1 .. Len(results[r])) \cap {Len(results[r])}

New(r) == seen[r] + 1 .. Len(results[r])

\* XREAD returns every entry after last_id: live events up to the first answer are
\* forwarded, and the answer ends the wait.
ReadResults(r) ==
    /\ waiter[r] = "waiting"
    /\ \E last \in New(r) :
          /\ \A i \in New(r) : i < last => results[r][i] = "live"
          /\ last = Len(results[r]) \/ results[r][last] \in Answers
          /\ seen' = [seen EXCEPT ![r] = last]
          /\ heard' = [heard EXCEPT ![r] =
                         @ + Cardinality({i \in New(r) : i <= last /\ results[r][i] = "live"})]
          /\ IF results[r][last] = "live" THEN UNCHANGED <<waiter, outcome>>
             ELSE /\ waiter' = [waiter EXCEPT ![r] = "leaving"]
                  /\ outcome' = [outcome EXCEPT ![r] = results[r][last]]
    /\ UNCHANGED <<redisVars, runVars, replicaVars, failures, harmed>>

\* finally: DELETE of both keys, or nothing when Redis fails.
Leave(r, raises) ==
    /\ waiter[r] = "leaving"
    /\ Possibly(raises, {r})
    /\ End(r)
    /\ IF raises THEN UNCHANGED <<key, results, expiring>>
       ELSE /\ key' = key \ {r}
            /\ results' = [results EXCEPT ![r] = <<>>]
            /\ expiring' = expiring \ {r}
    /\ UNCHANGED <<queue, owner, runVars, replicaVars>>

\* crew dies: nobody waits any more.
CrewDies ==
    /\ LET cut == {r \in Requests : waiter[r] \in {"stored", "waiting", "leaving"}}
       IN /\ cut # {}
          /\ Failure(cut)
          /\ waiter' = [r \in Requests |-> IF r \in cut THEN "done" ELSE waiter[r]]
          /\ outcome' = [r \in Requests |-> "none"]
          /\ seen' = [r \in Requests |-> 0] /\ heard' = [r \in Requests |-> 0]
    /\ UNCHANGED <<redisVars, runVars, replicaVars>>

\* Mutant: the TTL is shorter than the wait.
AtAnyTime(r) == TRUE

\* A day, and an hour after the last publish: what ends is what nobody waits for.  A wait
\* of a day takes a list of 48 tasks or more of the longest time an agent may ask for; the
\* agent's loader takes such a run for stopped when its key is gone, and so it would be.
NobodyWaits(r) == waiter[r] = "done"

KeyExpires(r) ==
    /\ NobodyWaits(r) /\ r \in key
    /\ key' = key \ {r}
    /\ UNCHANGED <<crewVars, queue, owner, results, expiring, runVars, replicaVars, failures, harmed>>

ResultsExpire(r) ==
    /\ NobodyWaits(r) /\ r \in expiring
    /\ expiring' = expiring \ {r}
    /\ results' = [results EXCEPT ![r] = <<>>]
    /\ UNCHANGED <<crewVars, key, queue, owner, runVars, replicaVars, failures, harmed>>

-----------------------------------------------------------------------------
(* A replica: consume_requests and RequestHandler.handle *)

RunsOf(a) == {e \in Entries : owner[e] = a /\ pc[e] \in InFlight}

\* Mutant: a slot is not given back.
EverRead(a) == {e \in Entries : pc[e] # "unread"}

RunsInHand(a) == RunsOf(a)

FreeSlots(a) == IF Cardinality(RunsInHand(a)) < Slots THEN Slots - Cardinality(RunsInHand(a)) ELSE 0

\* XREADGROUP with as many as there are free slots; a reply lost to the client
\* leaves them pending for this replica, which reads only new ones.
ReadRequests(a, lost) ==
    /\ a \in up \ stopping
    /\ queue # <<>> /\ FreeSlots(a) > 0
    /\ LET n == IF Len(queue) < FreeSlots(a) THEN Len(queue) ELSE FreeSlots(a)
           read == {queue[i] : i \in 1..n}
       IN /\ Possibly(lost, {RequestOf(e) : e \in read})
          /\ queue' = SubSeq(queue, n + 1, Len(queue))
          /\ owner' = [e \in Entries |-> IF e \in read THEN a ELSE owner[e]]
          /\ pc' = [e \in Entries |->
                      IF e \in read THEN (IF lost THEN "lost" ELSE "loading") ELSE pc[e]]
    /\ UNCHANGED <<crewVars, key, results, expiring, calls, strays, replicaVars>>

At(e, label) == pc[e] = label /\ owner[e] \in up

GoTo(e, label) == pc' = [pc EXCEPT ![e] = label]

\* DataLoader.load and the runner's start; without the key, or with a request that
\* cannot be run, an error is published.
Load(e, fit) ==
    /\ At(e, "loading")
    /\ GoTo(e, IF RequestOf(e) \in key /\ fit THEN "running" ELSE "error")
    /\ UNCHANGED <<crewVars, redisVars, calls, strays, replicaVars, failures, harmed>>

\* Mutant: a run is withdrawn only before it starts.
WithdrawnAtFirst(e) == RequestOf(e) \notin key /\ calls[e] = 0

\* is_withdrawn.
Withdrawn(e) == RequestOf(e) \notin key

\* _raise_if_cancelled before a call; a Redis error counts as not withdrawn.
Check(e, blip) ==
    /\ At(e, "running")
    /\ Possibly(blip, {RequestOf(e)})
    /\ GoTo(e, IF Withdrawn(e) /\ ~blip THEN "acking" ELSE "calling")
    /\ UNCHANGED <<crewVars, redisVars, calls, strays, replicaVars>>

\* The call of a model or a tool, and then the next one or the end of the run.
Call(e, next) ==
    /\ At(e, "calling")
    /\ next = "reporting" => calls[e] + 1 < MaxCalls
    /\ calls' = [calls EXCEPT ![e] = @ + 1]
    /\ strays' = [strays EXCEPT ![e] = IF RequestOf(e) \in key THEN @ ELSE @ + 1]
    /\ GoTo(e, next)
    /\ UNCHANGED <<crewVars, redisVars, replicaVars, failures, harmed>>

\* Mutant: XADD and EXPIRE apart, and the second one does not come.
PublishOnly(e, type) ==
    /\ results' = [results EXCEPT ![RequestOf(e)] = Append(@, type)]
    /\ UNCHANGED expiring

\* RedisStreamClient.publish: XADD and EXPIRE in one MULTI, recreating a stream crew
\* has deleted.
Publish(e, type) ==
    /\ results' = [results EXCEPT ![RequestOf(e)] = Append(@, type)]
    /\ expiring' = expiring \cup {RequestOf(e)}

\* _publish_live: one that fails is only logged.
Report(e, fails) ==
    /\ At(e, "reporting")
    /\ Possibly(fails, {RequestOf(e)})
    /\ \/ Publish(e, "live")
       \/ fails /\ UNCHANGED <<results, expiring>>
    /\ GoTo(e, "running")
    /\ UNCHANGED <<crewVars, key, queue, owner, calls, strays, replicaVars>>

\* on_final and on_error.  A result whose publish raises is followed by an error;
\* an error whose publish raises is not.
Answer(e, fails) ==
    /\ \E type \in Answers :
          /\ At(e, type)
          /\ Possibly(fails, {RequestOf(e)})
          /\ \/ Publish(e, type)
             \/ fails /\ UNCHANGED <<results, expiring>>
          /\ GoTo(e, IF fails /\ type = "result" THEN "error" ELSE "acking")
    /\ UNCHANGED <<crewVars, key, queue, owner, calls, strays, replicaVars>>

\* finally: XACK, and the run's task is done.
Ack(e, fails) ==
    /\ At(e, "acking")
    /\ Possibly(fails, {RequestOf(e)})
    /\ owner' = IF fails THEN owner ELSE [owner EXCEPT ![e] = NoAgent]
    /\ GoTo(e, "over")
    /\ calls' = [calls EXCEPT ![e] = 0] /\ strays' = [strays EXCEPT ![e] = 0]
    /\ UNCHANGED <<crewVars, key, queue, results, expiring, replicaVars>>

\* A replica dies; its entries stay pending for a consumer nobody is any more.
AgentDies(a) ==
    /\ a \in up
    /\ Failure({RequestOf(e) : e \in RunsOf(a)})
    /\ up' = up \ {a} /\ stopping' = stopping \ {a}
    /\ pc' = [e \in Entries |-> IF e \in RunsOf(a) THEN "lost" ELSE pc[e]]
    /\ UNCHANGED <<crewVars, redisVars, calls, strays>>

\* Mutant: its runs are cancelled.
AgentStopsAtOnce(a) ==
    /\ a \in up \ stopping
    /\ Failure({})
    /\ stopping' = stopping \cup {a}
    /\ pc' = [e \in Entries |-> IF e \in RunsOf(a) THEN "lost" ELSE pc[e]]
    /\ UNCHANGED <<crewVars, redisVars, calls, strays, up>>

\* SIGTERM: no more is read, and every run in flight is finished first.
AgentStops(a) ==
    /\ a \in up \ stopping
    /\ Failure({})
    /\ stopping' = stopping \cup {a}
    /\ UNCHANGED <<crewVars, redisVars, runVars, up>>

-----------------------------------------------------------------------------

Run(e) ==
    \/ \E fit \in BOOLEAN : Load(e, fit)
    \/ \E b \in BOOLEAN : Check(e, b) \/ Report(e, b) \/ Answer(e, b) \/ Ack(e, b)
    \/ \E next \in {"reporting"} \cup Answers : Call(e, next)

Waiter(r) ==
    \/ \E raises \in BOOLEAN :
          \/ StoreRequest(r, raises)
          \/ \E n \in 0..2 : Dispatch(r, n, raises)
          \/ StopWaiting(r, raises) \/ Leave(r, raises)
    \/ ReadResults(r)

AgentNext ==
    \/ \E r \in Requests : Waiter(r) \/ KeyExpires(r) \/ ResultsExpire(r)
    \/ \E e \in Entries : Run(e)
    \/ \E a \in Agents : AgentDies(a) \/ AgentStops(a) \/ \E lost \in BOOLEAN : ReadRequests(a, lost)
    \/ CrewDies

AgentSpec == AgentInit /\ [][AgentNext]_agentVars

\* crew's waits have deadlines, the agent's calls have time limits, its loops go on
\* while a replica lives, and Redis keeps its TTLs.
FairAgentSpec ==
    /\ AgentSpec
    /\ \A r \in Requests :
          /\ WF_agentVars(\E n \in 0..2, raises \in BOOLEAN : Dispatch(r, n, raises))
          /\ WF_agentVars(StopWaiting(r, FALSE))
          /\ WF_agentVars(Leave(r, FALSE))
          /\ WF_agentVars(KeyExpires(r)) /\ WF_agentVars(ResultsExpire(r))
    /\ \A e \in Entries : WF_agentVars(Run(e))
    /\ \A a \in Agents : WF_agentVars(ReadRequests(a, FALSE))

-----------------------------------------------------------------------------
(* Properties *)

EntriesOf(r) == {<<r, 1>>, <<r, 2>>}
Queued(e) == \E i \in 1..Len(queue) : queue[i] = e
Answered(r) == \E i \in 1..Len(results[r]) : results[r][i] \in Answers

\* While crew waits for a request that no failure hit, the request is in the stream,
\* in the hands of a live replica, or answered: replicas that are full, stop or die
\* beside it do not lose it (agent/main.py:108-161).
NothingLost ==
    \A r \in Requests \ harmed : waiter[r] = "waiting" =>
        \/ Answered(r)
        \/ \E e \in EntriesOf(r) : Queued(e) \/ (pc[e] \in InFlight /\ owner[e] \in up)

\* A run crew has withdrawn makes no call but the one it had just checked for, and
\* one for each check that failed (data_loader.py:205-222, agent_loop.py:71-73).
WithdrawnStops ==
    \A e \in Entries : strays[e] <= IF RequestOf(e) \in harmed THEN 1 + failures ELSE 1

\* When crew leaves with an answer it has forwarded every live event of the run, each
\* once, unless a failure hit the request (agent_task_service.py:174-215).
EventsAllHeard ==
    \A r \in Requests \ harmed : outcome[r] \in Answers =>
        heard[r] = Cardinality({i \in 1..Len(results[r]) : results[r][i] = "live"})

\* Neither the request nor a result stream stays in Redis, whoever died and however
\* late an answer was published (agent_task_service.py:18-21).
NothingStays == \A r \in Requests : <>[](r \notin key /\ results[r] = <<>>)

\* Every entry of the request stream is read and its run ends, while a replica is left
\* that reads; and a run that was begun ends unless its replica dies (agent/main.py:108-161).
EntriesEnd ==
    \A e \in Entries :
        /\ Queued(e) ~> (pc[e] \in {"over", "lost"} \/ up = stopping)
        /\ pc[e] \in InFlight ~> pc[e] \in {"over", "lost"}
=============================================================================
