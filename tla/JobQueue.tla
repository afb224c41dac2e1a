------------------------------ MODULE JobQueue ------------------------------
(***************************************************************************)
(* The in-memory job queue, common/services/queue.service.ts.  A method    *)
(* runs to its end without an await, so each is one action; a job that is  *)
(* processed waits for its handler's callback or for the 30 s timeout, and *)
(* the callback of a timed-out execution may still come.                   *)
(***************************************************************************)
EXTENDS Integers, Sequences, FiniteSets

CONSTANTS
    maxConcurrency, maxAttempts, retryDelay,   \* QueueOptions
    Priorities, Delays,                        \* what the jobs may ask for
    MaxJobs, MaxTime                           \* bounds

VARIABLES
    queue,       \* ids of the queued jobs, in their order
    jobs,        \* every job added, by id; "outcome" is a history of its end
    processing,  \* ids
    isRunning,
    executing,   \* <<id, attempt>> whose callback has not come
    now

vars == <<queue, jobs, processing, isRunning, executing, now>>

JobIds == 1 .. MaxJobs
QueueJob ==
    [priority : Priorities, attempts : 0 .. maxAttempts,
     delay : Delays \cup {retryDelay * n : n \in 1 .. maxAttempts},
     createdAt : 0 .. MaxTime, outcome : {"open", "completed", "failed", "removed"}]

Init ==
    /\ queue = <<>> /\ jobs = <<>> /\ processing = {} /\ executing = {}
    /\ isRunning = FALSE /\ now = 0

-----------------------------------------------------------------------------
Ids(q) == {q[i] : i \in DOMAIN q}

\* The sequence q without the ids that are not in S.
Kept(q, S) ==
    LET kept[i \in 0 .. Len(q)] ==
          IF i = 0 THEN <<>>
          ELSE IF q[i] \in S THEN Append(kept[i - 1], q[i]) ELSE kept[i - 1]
    IN  kept[Len(q)]

\* push and a stable sort by priority: behind the jobs of at least its priority.
Sorted(q, id, js) ==
    LET before == {x \in Ids(q) : js[x].priority >= js[id].priority}
    IN  Kept(q, before) \o <<id>> \o Kept(q, Ids(q) \ before)

\* getNextJob again and again: the first due jobs that there is room for.
NextJobs(q, js, busy) ==
    LET due == Kept(q, {id \in Ids(q) : now >= js[id].createdAt + js[id].delay})
        room == maxConcurrency - Cardinality(busy)
    IN  Ids(SubSeq(due, 1, IF Len(due) < room THEN Len(due) ELSE room))

\* processQueue, on what the method that calls it has made of the queue.
ProcessQueue(q, js, busy, out) ==
    LET taken == IF isRunning THEN {} ELSE NextJobs(q, js, busy)
    IN  /\ queue' = Kept(q, Ids(q) \ taken)
        /\ jobs' = [id \in DOMAIN js |->
                      IF id \in taken THEN [js[id] EXCEPT !.attempts = @ + 1] ELSE js[id]]
        /\ processing' = busy \cup taken
        /\ isRunning' = (isRunning \/ processing' # {})
        /\ executing' = out \cup {<<id, jobs'[id].attempts>> : id \in taken}
        /\ now' = now

Add(p, d) ==
    /\ Len(jobs) < MaxJobs
    /\ LET js == Append(jobs, [priority |-> p, attempts |-> 0, delay |-> d,
                               createdAt |-> now, outcome |-> "open"])
       IN  ProcessQueue(Sorted(queue, Len(js), js), js, processing, executing)

Finished(id, outcome) == [jobs EXCEPT ![id].outcome = outcome]

\* Mutant: the job that is to be retried is not queued again.
RetryDropped(id, out) ==
    ProcessQueue(queue, jobs, processing \ {id}, out)
\* processJob when the promise of executeJob is rejected: a retry or the end.
Rejected(id, out) ==
    IF jobs[id].attempts < maxAttempts
    THEN LET js == [jobs EXCEPT ![id].delay = retryDelay * jobs[id].attempts]
         IN  ProcessQueue(Sorted(queue, id, js), js, processing \ {id}, out)
    ELSE ProcessQueue(queue, Finished(id, "failed"), processing \ {id}, out)

\* The execution the job is waiting for: a later one or the timer settles it too.
IsAwaited(e) == e[1] \in processing /\ jobs[e[1]].attempts = e[2]

\* The handler calls back, too late if the timer was first.
Callback(e) ==
    /\ e \in executing
    /\ \/ /\ IsAwaited(e)
          /\ \/ ProcessQueue(queue, Finished(e[1], "completed"), processing \ {e[1]},
                             executing \ {e})
             \/ Rejected(e[1], executing \ {e})
       \/ /\ ~IsAwaited(e)
          /\ executing' = executing \ {e}
          /\ UNCHANGED <<queue, jobs, processing, isRunning, now>>

\* 30 s without a callback.
Timeout(e) == e \in executing /\ IsAwaited(e) /\ Rejected(e[1], executing)

\* removeJob and clear: only what is queued can be taken back.
Remove(ids) ==
    /\ ids # {}
    /\ queue' = Kept(queue, Ids(queue) \ ids)
    /\ jobs' = [id \in DOMAIN jobs |->
                  IF id \in ids THEN [jobs[id] EXCEPT !.outcome = "removed"] ELSE jobs[id]]
    /\ UNCHANGED <<processing, isRunning, executing, now>>
RemoveJob(id) == id \in Ids(queue) /\ Remove({id})
Clear == Remove(Ids(queue))

Pause ==
    /\ isRunning' = FALSE
    /\ UNCHANGED <<queue, jobs, processing, executing, now>>

Resume == ~isRunning /\ ProcessQueue(queue, jobs, processing, executing)

\* Date.now(), up to the bound.
Tick ==
    /\ now < MaxTime /\ now' = now + 1
    /\ UNCHANGED <<queue, jobs, processing, isRunning, executing>>

Executions == JobIds \X (1 .. maxAttempts)

Next ==
    \/ \E p \in Priorities, d \in Delays : Add(p, d)
    \/ \E e \in Executions : Callback(e) \/ Timeout(e)
    \/ \E id \in JobIds : RemoveJob(id)
    \/ Clear \/ Pause \/ Resume \/ Tick

Spec == Init /\ [][Next]_vars

-----------------------------------------------------------------------------
TypeOK ==
    /\ queue \in Seq(JobIds)
    /\ jobs \in Seq(QueueJob)
    /\ processing \subseteq DOMAIN jobs
    /\ isRunning \in BOOLEAN
    /\ executing \subseteq Executions
    /\ now \in 0 .. MaxTime

\* Whatever is paused, resumed, timed out and retried in between, a job that has
\* not ended is in the queue once or being processed, never both and never in
\* neither, and no more than maxConcurrency are processed.
NoJobLost ==
    /\ Cardinality(processing) <= maxConcurrency
    /\ Cardinality(Ids(queue)) = Len(queue)
    /\ Ids(queue) \cap processing = {}
    /\ Ids(queue) \cup processing = {id \in DOMAIN jobs : jobs[id].outcome = "open"}

=============================================================================
