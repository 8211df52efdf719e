---------------------------- MODULE IndexJobQueue ----------------------------
(***************************************************************************)
(* The index job queue of the main process                                 *)
(* (src/main/agent/indexJobQueue.ts): one job at a time over all           *)
(* workspaces, interactive before reindex before warm, a running warm job  *)
(* preempted and queued again when an interactive one arrives, duplicate   *)
(* requests of one key joined to one promise, and one trailing rerun for a *)
(* request that joined a job already running.                              *)
(*                                                                         *)
(* JavaScript runs one callback at a time: every action below is a whole   *)
(* synchronous callback.  The .finally() of a settled promise runs as a    *)
(* microtask, before any other callback; `finals` are those microtasks.    *)
(* Jobs are numbered in the order their promises are made.                 *)
(***************************************************************************)
EXTENDS Naturals, Sequences

SX == INSTANCE SequencesExt

CONSTANTS
    Keys,        \* coalesce keys
    NoKey,       \* the request has no coalesce key
    Requests,    \* the requests the callers make: priority, key, whether with an abort signal
    MaxPending,  \* INDEX_JOB_QUEUE_MAX_PENDING
    MaxCalls     \* bound: enqueueIndexJob calls

Prio == {"interactive", "reindex", "warm"}
RequestRec == [priority : Prio, key : Keys \cup {NoKey}, signal : BOOLEAN]

ASSUME KeyAssumption == NoKey \notin Keys
ASSUME RequestAssumption == Requests \subseteq RequestRec
ASSUME QueueBounds == MaxPending \in Nat \ {0} /\ MaxCalls \in Nat

VARIABLES
    jobs,              \* every PendingJob made so far, with the state of its promise
    pending,           \* the queue, as numbers of jobs
    active,            \* activeJob, or NoJob
    preemptRequested,  \* activeJob.preemptRequested
    coalescePromises,  \* key -> the job whose promise a duplicate request joins, or NoJob
    trailingDirty,     \* key -> the priority of the trailing rerun, or NoRerun
    finals,            \* settled promises whose .finally() has not run yet
    unseen,            \* history: keys asked for since their last run began
    calls              \* how much of the bound is used

queueVars == <<jobs, pending, active, preemptRequested, coalescePromises, trailingDirty,
               finals, unseen, calls>>

NoJob == 0
NoRerun == "none"
Rank == [interactive |-> 0, reindex |-> 1, warm |-> 2]
JobRec == [priority : Prio, key : Keys \cup {NoKey}, signal : BOOLEAN,
           promise : {"waiting", "done", "failed", "undefined", "aborted"}]
NewJob(priority, key, signal) ==
    [priority |-> priority, key |-> key, signal |-> signal, promise |-> "waiting"]

QueueInit ==
    /\ jobs = <<>> /\ pending = <<>> /\ active = NoJob /\ preemptRequested = FALSE
    /\ coalescePromises = [k \in Keys |-> NoJob]
    /\ trailingDirty = [k \in Keys |-> NoRerun]
    /\ finals = <<>> /\ unseen = {} /\ calls = 0

-----------------------------------------------------------------------------
First(S) == CHOOSE i \in S : \A k \in S : i <= k
PendingOf(key) == {i \in DOMAIN pending : jobs[pending[i]].key = key}
WarmPending == {i \in DOMAIN pending : jobs[pending[i]].priority = "warm"}

\* Mutant: a new job goes in front of those of its own priority and past the more urgent.
InsertAtHead(queue, j, made) == <<j>> \o queue

\* Behind every job of the same or a more urgent priority.
InsertByPriority(queue, j, made) ==
    LET behind == {i \in DOMAIN queue : Rank[made[queue[i]].priority] > Rank[made[j].priority]}
    IN IF behind = {} THEN Append(queue, j) ELSE SX!InsertAt(queue, First(behind), j)

Settled(made, j, how) == [made EXCEPT ![j].promise = how]
Without(map, key, nothing) == [k \in Keys |-> IF k = key THEN nothing ELSE map[k]]
ClearCoalesceState(key) ==
    /\ coalescePromises' = Without(coalescePromises, key, NoJob)
    /\ trailingDirty' = Without(trailingDirty, key, NoRerun)
\* bindCoalescePromise attached a .finally() to the promises of keyed jobs only.
WithFinal(queued, j) == IF jobs[j].key = NoKey THEN queued ELSE Append(queued, j)

\* Mutant: the running job is preempted only when nothing else waits.
PreemptsWhenFirst(incoming) ==
    incoming = "interactive" /\ active # NoJob /\ jobs[active].priority = "warm" /\ pending = <<>>
PreemptsActive(incoming) ==
    incoming = "interactive" /\ active # NoJob /\ jobs[active].priority = "warm"

\* Mutant: the job is queued and no pump is started.
PumpOnlyQueues(queue) == active' = active /\ pending' = queue
\* The pump takes the head of the queue when the slot is free.
Pump(queue) ==
    IF active = NoJob THEN active' = Head(queue) /\ pending' = Tail(queue)
                      ELSE active' = active /\ pending' = queue

\* A run that begins sees all that was asked for before; one told to stop has seen nothing.
Seen(asked) ==
    LET began == IF active' \notin {active, NoJob} THEN {jobs'[active'].key} ELSE {}
        cutShort == IF preemptRequested' /\ ~preemptRequested THEN {jobs[active].key} ELSE {}
    IN unseen' = ((asked \ began) \cup cutShort) \cap Keys

\* The request gets a job of its own: preempt, insert, pump and bind the promise.
Accept(priority, key, signal, queue, made, promises) ==
    LET j == Len(made) + 1
        all == Append(made, NewJob(priority, key, signal))
    IN /\ jobs' = all
       /\ preemptRequested' = (preemptRequested \/ PreemptsActive(priority))
       /\ Pump(InsertByPriority(queue, j, all))
       /\ coalescePromises' = [k \in Keys |-> IF k = key THEN j ELSE promises[k]]

\* A full queue gives its oldest warm job up for a more urgent one, and refuses what it cannot
\* make room for.
HasRoom == Len(pending) < MaxPending
Displaces(priority) == ~HasRoom /\ priority # "warm" /\ WarmPending # {}
Admit(priority, key, signal, promises, dirty, queued, asked) ==
    \/ /\ HasRoom
       /\ Accept(priority, key, signal, pending, jobs, promises)
       /\ trailingDirty' = dirty /\ finals' = queued
       /\ Seen(asked)
    \/ /\ Displaces(priority)
       /\ LET at == First(WarmPending)
              dropped == pending[at]
              victim == jobs[dropped].key
          IN /\ Accept(priority, key, signal, SX!RemoveAt(pending, at),
                       Settled(jobs, dropped, "undefined"), Without(promises, victim, NoJob))
             /\ trailingDirty' = Without(dirty, victim, NoRerun)
             /\ finals' = WithFinal(queued, dropped)
             /\ Seen((asked \ {victim}) \cup {key})

-----------------------------------------------------------------------------
Called == calls < MaxCalls /\ calls' = calls + 1
Joins(r) == r.key # NoKey /\ coalescePromises[r.key] # NoJob

EnqueueNew(r) ==
    /\ Called /\ ~Joins(r)
    /\ Admit(r.priority, r.key, r.signal, coalescePromises, trailingDirty, finals,
             unseen \cup {r.key})

\* A duplicate of a queued job makes it more urgent, and its signal may abort it for all.
JoinPending(r) ==
    /\ Called /\ Joins(r) /\ PendingOf(r.key) # {}
    /\ LET at == First(PendingOf(r.key))
           j == pending[at]
           upgrade == Rank[r.priority] < Rank[jobs[j].priority]
       IN /\ jobs' = [jobs EXCEPT ![j].priority = IF upgrade THEN r.priority ELSE @,
                                  ![j].signal = @ \/ r.signal]
          /\ pending' = IF upgrade THEN InsertByPriority(SX!RemoveAt(pending, at), j, jobs')
                        ELSE pending
          /\ preemptRequested' = (preemptRequested \/ (upgrade /\ PreemptsActive(r.priority)))
    /\ UNCHANGED <<active, coalescePromises, trailingDirty, finals>>
    /\ Seen(unseen \cup {r.key})

\* Mutant: the duplicate joins and nothing remembers it.
JoinRunningUnmarked(r) ==
    /\ Called /\ Joins(r) /\ PendingOf(r.key) = {}
    /\ unseen' = unseen \cup {r.key}
    /\ UNCHANGED <<jobs, pending, active, preemptRequested, coalescePromises, trailingDirty,
                   finals>>

\* A duplicate of the running job joins its promise and leaves a mark for one rerun.
JoinRunning(r) ==
    /\ Called /\ Joins(r) /\ PendingOf(r.key) = {}
    /\ trailingDirty' = [trailingDirty EXCEPT ![r.key] = r.priority]
    /\ unseen' = unseen \cup {r.key}
    /\ UNCHANGED <<jobs, pending, active, preemptRequested, coalescePromises, finals>>

\* A pending job is taken out of the queue, and its promise answered.
GiveUp(at, how) ==
    LET j == pending[at] IN
    /\ pending' = SX!RemoveAt(pending, at)
    /\ jobs' = Settled(jobs, j, how)
    /\ ClearCoalesceState(jobs[j].key)
    /\ finals' = WithFinal(finals, j)
    /\ unseen' = unseen \ {jobs[j].key}
    /\ UNCHANGED <<active, preemptRequested, calls>>

Abort(at) == jobs[pending[at]].signal /\ GiveUp(at, "aborted")

DropPendingByCoalesceKey(key) ==
    /\ coalescePromises[key] # NoJob
    /\ \/ PendingOf(key) # {} /\ GiveUp(First(PendingOf(key)), "undefined")
       \/ /\ PendingOf(key) = {}
          /\ ClearCoalesceState(key)
          /\ unseen' = unseen \ {key}
          /\ UNCHANGED <<jobs, pending, active, preemptRequested, finals, calls>>

\* The job of the slot ends.  A preempted one is queued again under a promise of its own.
RunEnds(how) ==
    /\ active # NoJob
    /\ LET key == jobs[active].key
           copy == Len(jobs) + 1
           made == IF preemptRequested
                   THEN Append(Settled(jobs, active, "undefined"), NewJob("warm", key, FALSE))
                   ELSE Settled(jobs, active, how)
           queue == IF preemptRequested THEN InsertByPriority(pending, copy, made) ELSE pending
       IN /\ jobs' = made
          /\ coalescePromises' = [k \in Keys |-> IF preemptRequested /\ k = key THEN copy
                                                 ELSE coalescePromises[k]]
          /\ active' = IF queue = <<>> THEN NoJob ELSE Head(queue)
          /\ pending' = IF queue = <<>> THEN <<>> ELSE Tail(queue)
    /\ finals' = WithFinal(finals, active)
    /\ preemptRequested' = FALSE
    /\ Seen(unseen)
    /\ UNCHANGED <<trailingDirty, calls>>

\* The .finally() of a promise: unbind it, and turn the mark of its key into a rerun unless a
\* job of that key is queued or bound.  Nobody hears of a rerun the queue refuses.
Finally ==
    /\ finals # <<>>
    /\ LET j == Head(finals)
           key == jobs[j].key
           promises == IF coalescePromises[key] = j THEN Without(coalescePromises, key, NoJob)
                       ELSE coalescePromises
           dirty == Without(trailingDirty, key, NoRerun)
           rerun == trailingDirty[key] # NoRerun /\ PendingOf(key) = {} /\ promises[key] = NoJob
       IN \/ rerun /\ Admit(trailingDirty[key], key, FALSE, promises, dirty, Tail(finals), unseen)
          \/ /\ ~(rerun /\ (HasRoom \/ Displaces(trailingDirty[key])))
             /\ coalescePromises' = promises /\ trailingDirty' = dirty /\ finals' = Tail(finals)
             /\ UNCHANGED <<jobs, pending, active, preemptRequested, unseen>>
    /\ UNCHANGED calls

-----------------------------------------------------------------------------
Enqueue(r) == EnqueueNew(r) \/ JoinPending(r) \/ JoinRunning(r)

QueueNext ==
    \/ Finally
    \/ /\ finals = <<>>
       /\ \/ \E r \in Requests : Enqueue(r)
          \/ \E at \in DOMAIN pending : Abort(at)
          \/ \E key \in Keys : DropPendingByCoalesceKey(key)
          \/ \E how \in {"done", "failed"} : RunEnds(how)

QueueSpec == QueueInit /\ [][QueueNext]_queueVars

QueueFairness ==
    /\ WF_queueVars(Finally)
    /\ WF_queueVars(finals = <<>> /\ \E how \in {"done", "failed"} : RunEnds(how))
QueueFairSpec == QueueSpec /\ QueueFairness

-----------------------------------------------------------------------------
Queued == {pending[i] : i \in DOMAIN pending}

\* The shape of the state.  The requeued copy of a preempted job is not held to the limit of
\* the queue, yet the queue stays within it.
QueueTypeOK ==
    /\ jobs \in Seq(JobRec)
    /\ pending \in Seq(DOMAIN jobs) /\ Len(pending) <= MaxPending
    /\ active \in DOMAIN jobs \cup {NoJob}
    /\ preemptRequested \in BOOLEAN
    /\ coalescePromises \in [Keys -> DOMAIN jobs \cup {NoJob}]
    /\ trailingDirty \in [Keys -> Prio \cup {NoRerun}]
    /\ finals \in Seq(DOMAIN jobs) /\ \A i \in DOMAIN finals : jobs[finals[i]].key # NoKey
    /\ unseen \subseteq Keys
    /\ calls \in 0..MaxCalls

\* An interactive request never waits behind a warm job that has not been told to stop
\* (preemptActiveWarmIfNeeded on every path that queues one).  Of requests that wait for
\* the slot: one that joins the warm job of its own key waits for that job's end.
WarmYields ==
    (\E i \in DOMAIN pending : jobs[pending[i]].priority = "interactive")
        /\ active # NoJob /\ jobs[active].priority = "warm" => preemptRequested

\* A promise nobody has answered belongs to the job of the slot or to one in the queue: no
\* caller of the queue awaits an answer that never comes, and no answered job runs again.
NoOrphan ==
    /\ \A j \in DOMAIN jobs : jobs[j].promise = "waiting" <=> (j = active \/ j \in Queued)
    /\ \A i, k \in DOMAIN pending : pending[i] = pending[k] => i = k
    /\ active \notin Queued

\* What was asked for since the last run of its key began is still to be run: a job of the key
\* is queued, the run in the slot was told to stop and is queued again, or its end starts the
\* rerun.  In particular the rerun is never refused for want of room.
AskedIsKept ==
    \A key \in unseen :
        \/ PendingOf(key) # {}
        \/ active # NoJob /\ jobs[active].key = key /\ preemptRequested
        \/ /\ trailingDirty[key] # NoRerun
           /\ \/ active # NoJob /\ jobs[active].key = key
              \/ \E i \in DOMAIN finals : jobs[finals[i]].key = key

\* The queue implements the single-flight service.
PhaseOf(j) == IF j = active THEN "running" ELSE IF j \in Queued THEN "waiting" ELSE "settled"
Service == INSTANCE SingleFlight WITH
              phase <- [j \in DOMAIN jobs |-> PhaseOf(j)],
              rank <- [j \in DOMAIN jobs |-> Rank[jobs[j].priority]]
ServiceSpec == Service!Spec

\* Once the callers pause, every promise is answered and everything asked for is run or given
\* up: no call waits for ever, however often a warm job was preempted and queued again.
EveryoneIsAnswered ==
    []<>(unseen = {} /\ \A j \in DOMAIN jobs : jobs[j].promise # "waiting")
=============================================================================
