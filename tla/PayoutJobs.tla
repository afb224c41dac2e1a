------------------------------ MODULE PayoutJobs ------------------------------
(***************************************************************************)
(* The payout job queue of the backend, jobs/payout.service.ts, and the    *)
(* transactions its calls send through web3/contract.service.ts.           *)
(*                                                                         *)
(* A job is a document of the database.  Every request the server handles  *)
(* is a call, and a call is suspended at every await: between reading a    *)
(* document and saving it, and while it waits for a transaction, the       *)
(* others run.  save() writes the fields the call set on its own copy,     *)
(* whatever the document has become since it was read.                     *)
(***************************************************************************)
EXTENDS Integers, FiniteSets, Sequences
LOCAL INSTANCE TLC

CONSTANTS
    Calls,        \* the requests that may be handled at the same time
    maxRetries,   \* retryConfig.maxRetries
    BatchLimit,   \* .limit(10) of processPendingPayouts
    MaxJobs, MaxStarts, MaxDeaths   \* bounds: jobs, calls begun, calls that die

VARIABLES
    jobs,      \* the job documents, in the order of createdAt
    calls,     \* the running calls
    chain,     \* the payout transactions of each job, as the chain knows them
    doubts,    \* what happened to a job that may have it paid twice (history)
    started, deaths   \* how many calls have begun and died, for the bounds

vars == <<jobs, calls, chain, doubts, started, deaths>>

\* For TLC: the calls are interchangeable.
Symmetry == Permutations(Calls)

JobStatus == {"pending", "processing", "completed", "failed"}
Result == {"none", "txHash", "error", "cancelled"}
JobIds == 1 .. MaxJobs
Job == [status : JobStatus, result : Result]

Mode == {"none", "processPendingPayouts", "retryFailedJobs", "cancelJob"}
Call ==
    [mode : Mode,
     pc : {"idle", "findFailed", "savePending", "find", "saveProcessing",
           "attempt", "wait", "saveCancelled"},
     todo : Seq(JobIds),       \* the jobs still to do, the current one first
     seen : JobStatus,         \* the status on the call's own copy of the job
     retryCount : 0 .. maxRetries,
     tx : {"none", "sent", "mined", "reverted"}]

Doubt == {"stale save", "answer lost", "cancelled while processing"}

ASSUME CallsAssumption == IsFiniteSet(Calls)
ASSUME BoundsAssumption ==
    /\ {maxRetries, MaxJobs, MaxStarts, MaxDeaths} \subseteq Nat
    /\ BatchLimit \in Nat \ {0}

Idle ==
    [mode |-> "none", pc |-> "idle", todo |-> <<>>, seen |-> "pending",
     retryCount |-> 0, tx |-> "none"]

Init ==
    /\ jobs = <<>>
    /\ calls = [c \in Calls |-> Idle]
    /\ chain = [j \in JobIds |-> [paid |-> 0, adrift |-> 0]]
    /\ doubts = [j \in JobIds |-> {}]
    /\ started = 0 /\ deaths = 0

-----------------------------------------------------------------------------
Current(c) == Head(calls[c].todo)
At(c, pc) == calls[c].pc = pc

\* The first await of the work on one job.
Entry(mode) == IF mode = "retryFailedJobs" THEN "findFailed" ELSE "find"

\* Mutant: the last job is never taken off the list.
NextJobSticks(call) ==
    [Idle EXCEPT !.mode = call.mode, !.pc = Entry(call.mode),
                 !.todo = IF Len(call.todo) = 1 THEN call.todo ELSE Tail(call.todo)]
\* processPendingPayouts and retryAllFailedJobsForEvent go on to the next job.
NextJob(call) ==
    IF Len(call.todo) = 1 THEN Idle
    ELSE [Idle EXCEPT !.mode = call.mode, !.pc = Entry(call.mode), !.todo = Tail(call.todo)]

\* An error ends the call, but retryAllFailedJobsForEvent catches it.
AfterError(call) == IF call.mode = "retryFailedJobs" THEN NextJob(call) ELSE Idle

\* job.save(): a stale copy overwrites the document all the same.
Save(c, status, result, doubt) ==
    LET j == Current(c)
    IN /\ jobs' = [jobs EXCEPT ![j] = [status |-> status, result |-> result]]
       /\ doubts' = [doubts EXCEPT ![j] = @ \cup doubt \cup
            IF jobs[j].status # calls[c].seen THEN {"stale save"} ELSE {}]

\* A request arrives and runs up to its first await.
Start(c, call) ==
    /\ At(c, "idle")
    /\ started < MaxStarts
    /\ started' = started + 1
    /\ calls' = [calls EXCEPT ![c] = call]
    /\ UNCHANGED <<jobs, chain, doubts, deaths>>

EnqueuePayout ==
    /\ Len(jobs) < MaxJobs
    /\ jobs' = Append(jobs, [status |-> "pending", result |-> "none"])
    /\ UNCHANGED <<calls, chain, doubts, started, deaths>>

JobsWith(status) == {j \in DOMAIN jobs : jobs[j].status = status}
Lists == UNION {[1 .. n -> DOMAIN jobs] : n \in DOMAIN jobs}

\* find({status}).sort({createdAt: 1}).limit(limit) has found todo.
IsFound(todo, status, limit) ==
    LET first == {todo[i] : i \in DOMAIN todo}
    IN /\ \A i, k \in DOMAIN todo : i < k => todo[i] < todo[k]
       /\ first \subseteq JobsWith(status) /\ Len(todo) <= limit
       /\ \A j \in JobsWith(status) \ first :
             Len(todo) = limit /\ \A k \in first : k < j

On(mode, todo) == [Idle EXCEPT !.mode = mode, !.pc = Entry(mode), !.todo = todo]

\* With nothing found the call returns at once.
ProcessPendingPayouts(c, todo) ==
    /\ IsFound(todo, "pending", BatchLimit)
    /\ Start(c, On("processPendingPayouts", todo))

RetryFailedJob(c, j) == Start(c, On("retryFailedJobs", <<j>>))

RetryAllFailedJobsForEvent(c, todo) ==
    /\ IsFound(todo, "failed", MaxJobs)
    /\ Start(c, On("retryFailedJobs", todo))

\* Mutant: a completed job can be cancelled.
MayCancelAny(status) == status # "failed"
MayCancel(status) == status \in {"pending", "processing"}

CancelJob(c, j) ==
    /\ MayCancel(jobs[j].status)
    /\ Start(c, [Idle EXCEPT !.mode = "cancelJob", !.pc = "saveCancelled",
                             !.todo = <<j>>, !.seen = jobs[j].status])

SaveCancelled(c) ==
    /\ At(c, "saveCancelled")
    /\ Save(c, "failed", "cancelled",
            IF calls[c].seen = "processing" THEN {"cancelled while processing"} ELSE {})
    /\ calls' = [calls EXCEPT ![c] = Idle]
    /\ UNCHANGED <<chain, started, deaths>>

-----------------------------------------------------------------------------
(* retryFailedJob, up to its call of processJob.                             *)

FindFailed(c) ==
    LET status == jobs[Current(c)].status
    IN /\ At(c, "findFailed")
       /\ calls' = [calls EXCEPT ![c] =
            IF status = "failed" THEN [@ EXCEPT !.pc = "savePending", !.seen = status]
            ELSE AfterError(@)]
       /\ UNCHANGED <<jobs, chain, doubts, started, deaths>>

SavePending(c) ==
    /\ At(c, "savePending")
    /\ Save(c, "pending", jobs[Current(c)].result, {})
    /\ calls' = [calls EXCEPT ![c].pc = "find"]
    /\ UNCHANGED <<chain, started, deaths>>

-----------------------------------------------------------------------------
(* processJob.  The pauses between attempts are not modelled: any call may   *)
(* run between two steps as it is.                                           *)

\* Mutant: a completed job is processed again.
MayProcessAny(status) == status # "processing"
MayProcess(status) == status \in {"pending", "failed"}

Find(c) ==
    LET status == jobs[Current(c)].status
    IN /\ At(c, "find")
       /\ calls' = [calls EXCEPT ![c] =
            IF MayProcess(status) THEN [@ EXCEPT !.pc = "saveProcessing", !.seen = status]
            ELSE NextJob(@)]
       /\ UNCHANGED <<jobs, chain, doubts, started, deaths>>

SaveProcessing(c) ==
    /\ At(c, "saveProcessing")
    /\ Save(c, "processing", jobs[Current(c)].result, {})
    /\ calls' = [calls EXCEPT ![c] = [@ EXCEPT !.pc = "attempt", !.seen = "processing"]]
    /\ UNCHANGED <<chain, started, deaths>>

\* contractService.payout broadcasts distribute(...) ...
Broadcast(c) ==
    /\ At(c, "attempt")
    /\ calls' = [calls EXCEPT ![c] = [@ EXCEPT !.pc = "wait", !.tx = "sent"]]
    /\ UNCHANGED <<jobs, chain, doubts, started, deaths>>

\* Mutant: one attempt too many.
MayRetryOnceMore(retryCount) == retryCount <= maxRetries + 1
MayRetry(retryCount) == retryCount <= maxRetries

\* Mutant: no save after the last attempt.
GivesUpUnsaved(c, doubt) ==
    /\ calls' = [calls EXCEPT ![c] =
         IF MayRetry(@.retryCount + 1)
         THEN [@ EXCEPT !.pc = "attempt", !.tx = "none", !.retryCount = @ + 1]
         ELSE NextJob(@)]
    /\ doubts' = [doubts EXCEPT ![Current(c)] = @ \cup doubt]
    /\ UNCHANGED jobs
\* The catch block, and after the last attempt the final save.
AttemptFails(c, doubt) ==
    LET retryCount == calls[c].retryCount + 1
    IN \/ /\ MayRetry(retryCount)
          /\ calls' = [calls EXCEPT ![c] =
               [@ EXCEPT !.pc = "attempt", !.tx = "none", !.retryCount = retryCount]]
          /\ doubts' = [doubts EXCEPT ![Current(c)] = @ \cup doubt]
          /\ UNCHANGED jobs
       \/ /\ ~MayRetry(retryCount)
          /\ Save(c, "failed", "error", doubt)
          /\ calls' = [calls EXCEPT ![c] = NextJob(@)]

\* ... or fails before it does ...
NotSent(c) ==
    /\ At(c, "attempt")
    /\ AttemptFails(c, {})
    /\ UNCHANGED <<chain, started, deaths>>

\* One more transaction of the call's job may be mined with nobody waiting for it.
SetsAdrift(c, more) == chain' = [chain EXCEPT ![Current(c)].adrift = @ + more]

\* ... or after the node has taken the transaction: its answer got lost, and the
\* catch of payout() answers success: false as if nothing had been sent ...
AnswerLost(c) ==
    /\ At(c, "attempt")
    /\ AttemptFails(c, {"answer lost"})
    /\ SetsAdrift(c, 1)
    /\ UNCHANGED <<started, deaths>>

\* ... and awaits tx.wait(), which throws for a reverted transaction ...
Reverted(c) ==
    /\ At(c, "wait") /\ calls[c].tx = "reverted"
    /\ AttemptFails(c, {})
    /\ UNCHANGED <<chain, started, deaths>>

\* ... and may throw for one that was mined or is going to be: the connection
\* to the provider failed.  payout() answers success: false all the same.
ReceiptLost(c) ==
    /\ At(c, "wait") /\ calls[c].tx \in {"sent", "mined"}
    /\ AttemptFails(c, {"answer lost"})
    /\ SetsAdrift(c, IF calls[c].tx = "sent" THEN 1 ELSE 0)
    /\ UNCHANGED <<started, deaths>>

\* Mutant: any answer of the chain completes the job.
AnyAnswer(tx) == tx \in {"mined", "reverted"}
IsSuccess(tx) == tx = "mined"

Completed(c) ==
    /\ At(c, "wait") /\ IsSuccess(calls[c].tx)
    /\ Save(c, "completed", "txHash", {})
    /\ calls' = [calls EXCEPT ![c] = NextJob(@)]
    /\ UNCHANGED <<chain, started, deaths>>

-----------------------------------------------------------------------------
(* The chain: a transaction is mined, or reverts, or (once nobody waits for  *)
(* it) is dropped.                                                           *)

Mine(c) ==
    /\ At(c, "wait") /\ calls[c].tx = "sent"
    /\ calls' = [calls EXCEPT ![c].tx = "mined"]
    /\ chain' = [chain EXCEPT ![Current(c)].paid = @ + 1]
    /\ UNCHANGED <<jobs, doubts, started, deaths>>

RevertTransaction(c) ==
    /\ At(c, "wait") /\ calls[c].tx = "sent"
    /\ calls' = [calls EXCEPT ![c].tx = "reverted"]
    /\ UNCHANGED <<jobs, chain, doubts, started, deaths>>

MineAdrift(j) ==
    /\ chain[j].adrift > 0
    /\ chain' = [chain EXCEPT ![j].adrift = @ - 1, ![j].paid = @ + 1]
    /\ UNCHANGED <<jobs, calls, doubts, started, deaths>>

DropAdrift(j) ==
    /\ chain[j].adrift > 0
    /\ chain' = [chain EXCEPT ![j].adrift = @ - 1]
    /\ UNCHANGED <<jobs, calls, doubts, started, deaths>>

-----------------------------------------------------------------------------
(* Failures of the server.  Nothing is recorded, and nothing is resumed.     *)

\* The save after the last attempt rejects, and so nothing tells that the answer or the
\* receipt of that attempt was lost: how many transactions this leaves adrift.
LostUnsaved(c) ==
    CASE calls[c].tx = "sent" -> {1}
      [] At(c, "attempt") /\ ~MayRetry(calls[c].retryCount + 1) -> {0, 1}
      [] OTHER -> {0}

\* A query or a save rejects, before or after it took effect.
DatabaseFails(c) ==
    /\ ~At(c, "idle")
    /\ At(c, "attempt") => calls[c].retryCount \in {0, maxRetries}
    /\ At(c, "wait") => calls[c].tx = "mined" \/ calls[c].retryCount = maxRetries
    /\ deaths < MaxDeaths
    /\ deaths' = deaths + 1
    /\ calls' = [calls EXCEPT ![c] = AfterError(@)]
    /\ \E more \in LostUnsaved(c) : SetsAdrift(c, more)
    /\ UNCHANGED <<jobs, doubts, started>>

\* The process stops and is started again.
Crash ==
    /\ \E c \in Calls : ~At(c, "idle")
    /\ deaths < MaxDeaths
    /\ deaths' = deaths + 1
    /\ calls' = [c \in Calls |-> Idle]
    /\ chain' = [j \in JobIds |->
         [chain[j] EXCEPT !.adrift =
            @ + Cardinality({c \in Calls : calls[c].tx = "sent" /\ Current(c) = j})]]
    /\ UNCHANGED <<jobs, doubts, started>>

-----------------------------------------------------------------------------
\* The steps of a call that has begun, which the event loop runs in time.
Step(c) ==
    \/ FindFailed(c) \/ SavePending(c) \/ Find(c) \/ SaveProcessing(c)
    \/ Broadcast(c) \/ NotSent(c) \/ Reverted(c) \/ Completed(c) \/ SaveCancelled(c)

Settle(c) == Mine(c) \/ RevertTransaction(c)

Begin(c) ==
    \/ \E todo \in Lists :
          ProcessPendingPayouts(c, todo) \/ RetryAllFailedJobsForEvent(c, todo)
    \/ \E j \in DOMAIN jobs : RetryFailedJob(c, j) \/ CancelJob(c, j)

Next ==
    \/ EnqueuePayout
    \/ \E c \in Calls : Begin(c) \/ Step(c) \/ Settle(c)
    \/ \E c \in Calls : AnswerLost(c) \/ ReceiptLost(c) \/ DatabaseFails(c)
    \/ \E j \in JobIds : MineAdrift(j) \/ DropAdrift(j)
    \/ Crash

Spec == Init /\ [][Next]_vars

\* A call that has begun is run to its end, and a transaction somebody waits
\* for is answered.
FairSpec == Spec /\ \A c \in Calls : WF_vars(Step(c)) /\ WF_vars(Settle(c))

-----------------------------------------------------------------------------
(* Properties.                                                               *)

TypeOK ==
    /\ jobs \in Seq(Job) /\ Len(jobs) <= MaxJobs
    /\ calls \in [Calls -> Call]
    /\ \A c \in Calls : ~At(c, "idle") => calls[c].todo # <<>>
    /\ \A c \in Calls : \A k \in DOMAIN calls[c].todo : calls[c].todo[k] \in DOMAIN jobs
    /\ chain \in [JobIds -> [paid : Nat, adrift : Nat]]
    /\ doubts \in [JobIds -> SUBSET Doubt]
    /\ started \in 0 .. MaxStarts /\ deaths \in 0 .. MaxDeaths

\* A job is paid at most once, whatever is enqueued, retried, cancelled, failed
\* and restarted, unless one of three things befell it: a save over a document
\* another call had changed, an answer that got lost (the node's to a transaction it took,
\* or a receipt), or a cancellation of a job being processed.  These are all the ways the
\* queue can pay twice.
PaidOnceUnlessInDoubt ==
    \A j \in DOMAIN jobs : doubts[j] = {} => chain[j].paid + chain[j].adrift <= 1

\* A job that may be processed (again) has not been paid, with the same three
\* exceptions: status alone decides whether it is.
PayableIsUnpaid ==
    \A j \in DOMAIN jobs :
        jobs[j].status \in {"pending", "failed"} /\ doubts[j] = {} => chain[j].paid = 0

\* A job is recorded as completed only when the chain has paid it: no
\* interleaving, failure or restart makes it so otherwise.
CompletedIsPaid ==
    \A j \in DOMAIN jobs : jobs[j].status = "completed" => chain[j].paid > 0

\* A job in processing is being processed by a call, unless one died: nothing
\* but a cancellation ever takes it out of this state then.
ProcessingHasCall ==
    \A j \in DOMAIN jobs : jobs[j].status = "processing" =>
        \/ deaths > 0
        \/ \E c \in Calls : calls[c].pc \in {"attempt", "wait"} /\ Current(c) = j

\* Every call ends: the attempts are counted, and a list has an end.
CallsEnd == \A c \in Calls : ~At(c, "idle") ~> At(c, "idle")

InProcessing(j) == j \in DOMAIN jobs /\ jobs[j].status = "processing"

\* When no call dies, no job stays in processing for ever.
JobsSettle == \A j \in JobIds : InProcessing(j) ~> (~InProcessing(j) \/ deaths > 0)

\* What the comment on cancelJob promises ("Cancel a pending or processing
\* job"): no transaction is sent for a job that is recorded as cancelled.
CancelledIsNotSent ==
    [][\A c \in Calls : At(c, "attempt") /\ calls'[c].pc = "wait" =>
         jobs[Current(c)] # [status |-> "failed", result |-> "cancelled"]]_vars

=============================================================================
