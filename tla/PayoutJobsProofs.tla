--------------------------- MODULE PayoutJobsProofs ---------------------------
(***************************************************************************)
(* What TLAPS proves of PayoutJobs, for any finite set of calls, any       *)
(* number of jobs, retries and failures and any limit of a batch.          *)
(***************************************************************************)
EXTENDS PayoutJobs, FiniteSetTheorems, SequenceTheorems, TLAPS

Works(call, j) == call.pc \in {"attempt", "wait"} /\ Head(call.todo) = j

\* What a call's own fields have to do with each other: its transaction is one it waits
\* for, and the status it has seen is one that its next save starts from.
Sound(call) ==
    /\ call.tx # "none" <=> call.pc = "wait"
    /\ call.pc \in {"savePending", "saveProcessing"} => call.seen \in {"pending", "failed"}
    /\ call.pc \in {"attempt", "wait"} => call.seen = "processing"
    /\ call.pc = "saveCancelled" => call.seen \in {"pending", "processing"}

Fits(call) ==
    /\ call \in Call /\ Sound(call)
    /\ call.pc # "idle" => call.todo # <<>>
    /\ \A k \in DOMAIN call.todo : call.todo[k] \in DOMAIN jobs

\* What was mined for a call was paid for its job.
MinedIsPaid == \A c \in Calls : calls[c].tx = "mined" => chain[Current(c)].paid > 0

\* Jobs that do not exist have no transactions.
Unborn == \A j \in JobIds \ DOMAIN jobs : chain[j].paid = 0 /\ chain[j].adrift = 0

\* What is true of a job that nothing in Doubt has befallen: one call at most works on
\* it, the document says so, and it was paid only by that call's transaction or once
\* nothing could take it up again.
Certain(j) ==
    /\ \A c \in Calls : Works(calls[c], j) =>
          /\ jobs[j].status = "processing"
          /\ \A d \in Calls : Works(calls[d], j) => d = c
          /\ calls[c].tx # "mined" => chain[j].paid = 0
          /\ chain[j].adrift = 0
    /\ jobs[j].status \in {"pending", "failed"} => chain[j].paid = 0 /\ chain[j].adrift = 0
    /\ chain[j].paid + chain[j].adrift <= 1
Undoubted == \A j \in DOMAIN jobs : doubts[j] = {} => Certain(j)

IInv ==
    /\ TypeOK /\ \A c \in Calls : Sound(calls[c])
    /\ MinedIsPaid /\ CompletedIsPaid /\ Unborn /\ ProcessingHasCall /\ Undoubted

USE CallsAssumption, BoundsAssumption

-----------------------------------------------------------------------------
(* Calls and their lists.                                                    *)

LEMMA CallFields ==
  ASSUME NEW call \in Call
  PROVE  /\ call.mode \in Mode /\ call.todo \in Seq(JobIds) /\ call.seen \in JobStatus
         /\ call.retryCount \in 0 .. maxRetries
         /\ call.tx \in {"none", "sent", "mined", "reverted"}
         /\ call.pc \in {"idle", "findFailed", "savePending", "find", "saveProcessing",
                         "attempt", "wait", "saveCancelled"}
BY DEF Call

LEMMA AllFit == IInv => \A c \in Calls : Fits(calls[c])
BY DEF IInv, TypeOK, Fits, At

LEMMA HeadOfTodo ==
  ASSUME TypeOK, NEW call, Fits(call), call.pc # "idle"
  PROVE  /\ Head(call.todo) \in DOMAIN jobs /\ Head(call.todo) \in JobIds
         /\ jobs[Head(call.todo)] \in Job /\ jobs[Head(call.todo)].status \in JobStatus
<1> DEFINE j == Head(call.todo)
<1>1. call.todo \in Seq(JobIds) /\ call.todo # <<>>
  BY CallFields DEF Fits
<1>2. j \in JobIds /\ j = call.todo[1] /\ 1 \in DOMAIN call.todo
  BY <1>1, HeadTailProperties, EmptySeq, LenProperties
<1>3. j \in DOMAIN jobs
  BY <1>2 DEF Fits
<1> HIDE DEF j
<1>4. jobs[j] \in Job
  <2>1. jobs \in Seq(Job)
    BY DEF TypeOK
  <2> QED
    BY <1>3, <2>1, LenProperties, ElementOfSeq
<1>5. jobs[j].status \in JobStatus
  BY <1>4 DEF Job
<1> QED
  BY <1>2, <1>3, <1>4, <1>5 DEF j

LEMMA IdleFits == Fits(Idle) /\ Idle.pc = "idle" /\ Idle.tx = "none"
<1>1. Idle \in Call
  BY DEF Idle, Call, Mode, JobStatus
<1> QED
  BY <1>1 DEF Idle, Fits, Sound

\* A call that goes on to the next job, or ends, does not work on any yet.
LEMMA NextJobFits ==
  ASSUME NEW call, Fits(call), call.pc # "idle"
  PROVE  /\ Fits(NextJob(call)) /\ NextJob(call).tx = "none"
         /\ NextJob(call).pc \in {"idle", "find", "findFailed"}
         /\ Fits(AfterError(call)) /\ AfterError(call).tx = "none"
         /\ AfterError(call).pc \in {"idle", "find", "findFailed"}
<1>1. CASE Len(call.todo) = 1
  BY <1>1, IdleFits DEF NextJob, AfterError
<1>2. CASE Len(call.todo) # 1
  <2> DEFINE t == Tail(call.todo)
             n == [Idle EXCEPT !.mode = call.mode, !.pc = Entry(call.mode), !.todo = t]
  <2>1. call.todo \in Seq(JobIds) /\ call.todo # <<>> /\ call.mode \in Mode
    BY CallFields DEF Fits
  <2>2. t \in Seq(JobIds) /\ t # <<>>
    <3>1. /\ Len(call.todo) \in Nat \ {0} /\ t \in Seq(JobIds)
          /\ Len(t) = Len(call.todo) - 1
      BY <2>1, HeadTailProperties, EmptySeq
    <3>2. Len(t) # 0 /\ Len(<< >>) = 0
      BY <1>2, <3>1, EmptySeq
    <3> QED
      BY <3>1, <3>2
  <2>3. \A k \in DOMAIN t : t[k] \in DOMAIN jobs
    <3> TAKE k \in DOMAIN t
    <3>1. /\ t[k] = call.todo[k + 1] /\ k + 1 \in DOMAIN call.todo
      BY <2>1, <2>2, HeadTailProperties, LenProperties
    <3> QED
      BY <3>1 DEF Fits
  <2>4. NextJob(call) = n
    BY <1>2 DEF NextJob
  <2> HIDE DEF t
  <2>5. /\ n \in Call /\ n.tx = "none" /\ n.pc \in {"find", "findFailed"} /\ n.todo = t
    <3>1. Entry(call.mode) \in {"find", "findFailed"}
      BY DEF Entry
    <3>2. Idle \in Call /\ Idle.tx = "none"
      BY IdleFits DEF Fits
    <3> QED
      BY <2>1, <2>2, <3>1, <3>2 DEF Call
  <2>6. Fits(n)
    BY <2>2, <2>3, <2>5 DEF Fits, Sound
  <2> QED
    BY <2>4, <2>5, <2>6, IdleFits DEF AfterError
<1> QED
  BY <1>1, <1>2

-----------------------------------------------------------------------------
(* One step of one call, which may change one job: what it does to the       *)
(* invariant follows from what it does to that job.                          *)

\* The other jobs and calls are as they were.
OneCallOneJob(c, call, j) ==
    /\ calls' = [calls EXCEPT ![c] = call]
    /\ jobs' \in Seq(Job) /\ Len(jobs') = Len(jobs)
    /\ chain' \in [JobIds -> [paid : Nat, adrift : Nat]]
    /\ doubts' \in [JobIds -> SUBSET Doubt]
    /\ started' \in 0 .. MaxStarts /\ deaths' \in 0 .. MaxDeaths /\ deaths' >= deaths
    /\ \A i \in JobIds \ {j} : chain'[i] = chain[i] /\ doubts'[i] = doubts[i]
    /\ \A i \in DOMAIN jobs \ {j} : jobs'[i] = jobs[i]

LEMMA CallStep ==
  ASSUME IInv, NEW c \in Calls, NEW call, Fits(call), NEW j \in DOMAIN jobs,
         OneCallOneJob(c, call, j),
         call.pc \in {"attempt", "wait"} => Head(call.todo) = j,
         calls[c].pc \in {"attempt", "wait"} => Current(c) = j,
         call.tx = "mined" => chain'[j].paid > 0,
         chain'[j].paid >= chain[j].paid,
         jobs'[j].status = "completed" => chain'[j].paid > 0,
         jobs'[j].status = "processing" =>
            \/ deaths' > 0
            \/ call.pc \in {"attempt", "wait"}
            \/ jobs[j].status = "processing" /\ calls[c].pc \notin {"attempt", "wait"},
         doubts'[j] = {} => Certain(j)'
  PROVE  IInv'
<1>1. /\ \A d \in Calls : Fits(calls[d]) /\ calls[d] \in Call /\ Sound(calls[d])
      /\ call \in Call /\ Sound(call)
  BY AllFit DEF Fits
<1>2. /\ calls' \in [Calls -> Call] /\ calls'[c] = call
      /\ \A d \in Calls : d # c => calls'[d] = calls[d]
  BY <1>1 DEF OneCallOneJob, IInv, TypeOK
<1>3. DOMAIN jobs' = DOMAIN jobs /\ Len(jobs') <= MaxJobs /\ DOMAIN jobs \subseteq JobIds
  <2>1. jobs \in Seq(Job) /\ jobs' \in Seq(Job) /\ Len(jobs') = Len(jobs) /\ Len(jobs) <= MaxJobs
    BY DEF OneCallOneJob, IInv, TypeOK
  <2>2. DOMAIN jobs = 1 .. Len(jobs) /\ DOMAIN jobs' = 1 .. Len(jobs) /\ Len(jobs) \in Nat
    BY <2>1, LenProperties
  <2>3. MaxJobs \in Nat
    OBVIOUS
  <2> QED
    BY <2>1, <2>2, <2>3 DEF JobIds
<1>4. TypeOK'
  <2>1. \A d \in Calls : Fits(calls'[d])
    BY <1>1, <1>2
  <2>2. \A d \in Calls : ~At(d, "idle")' => calls'[d].todo # <<>>
    BY <2>1 DEF Fits, At
  <2>3. \A d \in Calls : \A k \in DOMAIN calls'[d].todo : calls'[d].todo[k] \in DOMAIN jobs'
    BY <1>3, <2>1 DEF Fits
  <2> QED
    BY <1>2, <1>3, <2>2, <2>3 DEF TypeOK, OneCallOneJob
<1>5. \A d \in Calls : Sound(calls'[d])
  BY <1>1, <1>2
<1>6. /\ \A i \in JobIds : chain'[i].paid >= chain[i].paid
      /\ \A i \in JobIds : chain'[i].paid \in Nat /\ chain[i].paid \in Nat
  <2>1. \A i \in JobIds : chain'[i].paid \in Nat /\ chain[i].paid \in Nat
    BY DEF OneCallOneJob, IInv, TypeOK
  <2>2. \A i \in JobIds : i = j \/ chain'[i] = chain[i]
    BY DEF OneCallOneJob
  <2>3. \A i \in JobIds : chain'[i].paid >= chain[i].paid
    BY <2>1, <2>2
  <2> QED
    BY <2>1, <2>3
<1>7. MinedIsPaid'
  <2> SUFFICES ASSUME NEW d \in Calls, calls'[d].tx = "mined"
               PROVE  chain'[Head(calls'[d].todo)].paid > 0
    BY DEF MinedIsPaid, Current
  <2>1. CASE d = c
    BY <1>1, <1>2, <2>1 DEF Sound
  <2>2. CASE d # c
    <3>1. calls'[d] = calls[d] /\ chain[Head(calls[d].todo)].paid > 0 /\ calls[d].pc = "wait"
      BY <1>1, <1>2, <2>2 DEF IInv, MinedIsPaid, Current, Sound
    <3>2. Head(calls[d].todo) \in JobIds
      BY <1>1, <3>1, HeadOfTodo DEF IInv
    <3> QED
      BY <1>6, <3>1, <3>2
  <2> QED
    BY <2>1, <2>2
<1>8. CompletedIsPaid'
  <2> SUFFICES ASSUME NEW i \in DOMAIN jobs, jobs'[i].status = "completed"
               PROVE  chain'[i].paid > 0
    BY <1>3 DEF CompletedIsPaid
  <2> QED
    BY <1>3 DEF OneCallOneJob, IInv, CompletedIsPaid
<1>9. Unborn'
  BY <1>3 DEF OneCallOneJob, IInv, Unborn
<1>10. ProcessingHasCall'
  <2> SUFFICES ASSUME NEW i \in DOMAIN jobs, jobs'[i].status = "processing", ~(deaths' > 0)
               PROVE  \E d \in Calls : Works(calls'[d], i)
    BY <1>3 DEF ProcessingHasCall, Works, Current
  <2>1. deaths = 0 /\ (jobs[i].status = "processing" => \E d \in Calls : Works(calls[d], i))
    BY DEF OneCallOneJob, IInv, TypeOK, ProcessingHasCall, Works, Current
  <2>2. CASE i = j
    BY <1>2, <2>1, <2>2 DEF Works
  <2>3. CASE i # j
    BY <1>2, <2>1, <2>3 DEF OneCallOneJob, Works, Current
  <2> QED
    BY <2>2, <2>3
<1>11. Undoubted'
  <2> SUFFICES ASSUME NEW i \in DOMAIN jobs, i # j, doubts'[i] = {}
               PROVE  Certain(i)'
    BY <1>3 DEF Undoubted
  <2>1. Certain(i) /\ jobs'[i] = jobs[i] /\ chain'[i] = chain[i]
    BY <1>3 DEF OneCallOneJob, IInv, Undoubted
  <2>2. \A d \in Calls : Works(calls'[d], i) => d # c /\ Works(calls[d], i)
    BY <1>2 DEF Works
  <2> QED
    BY <1>2, <2>1, <2>2 DEF Certain
<1> QED
  BY <1>4, <1>5, <1>7, <1>8, <1>9, <1>10, <1>11 DEF IInv

-----------------------------------------------------------------------------
(* Saves.                                                                    *)

LEMMA SaveStep ==
  ASSUME IInv, NEW c \in Calls, ~At(c, "idle"), NEW call, Fits(call),
         NEW status \in JobStatus, NEW result \in Result, NEW doubt \in SUBSET Doubt,
         Save(c, status, result, doubt),
         calls' = [calls EXCEPT ![c] = call],
         chain' \in [JobIds -> [paid : Nat, adrift : Nat]],
         \A i \in JobIds \ {Current(c)} : chain'[i] = chain[i],
         chain'[Current(c)].paid = chain[Current(c)].paid,
         doubt = {} => chain' = chain,
         UNCHANGED <<started, deaths>>,
         call.tx # "mined",
         call.pc \in {"attempt", "wait"} => Head(call.todo) = Current(c),
         call.pc \in {"attempt", "wait"} <=> status = "processing",
         status = "completed" => calls[c].tx = "mined",
         doubt = {} =>
            \/ /\ calls[c].pc \in {"attempt", "wait"}
               /\ status = "completed" \/ (status = "failed" /\ calls[c].tx # "mined")
            \/ /\ calls[c].pc \notin {"attempt", "wait"}
               /\ calls[c].seen \in {"pending", "failed"} /\ status # "completed"
  PROVE  IInv'
<1>0. PICK j \in DOMAIN jobs : j = Current(c) /\ j \in JobIds
  <2>1. Fits(calls[c]) /\ calls[c].pc # "idle"
    BY AllFit DEF At
  <2> QED
    BY <2>1, HeadOfTodo DEF IInv, Current
<1> DEFINE job == [status |-> status, result |-> result]
           more == doubt \cup IF jobs[j].status # calls[c].seen THEN {"stale save"} ELSE {}
<1>1. j \in DOMAIN jobs /\ j \in JobIds /\ job \in Job
  BY <1>0 DEF Job
<1>2. jobs' = [jobs EXCEPT ![j] = job] /\ doubts' = [doubts EXCEPT ![j] = @ \cup more]
  BY <1>0 DEF Save
<1>3. /\ jobs' \in Seq(Job) /\ Len(jobs') = Len(jobs) /\ jobs'[j] = job
      /\ \A i \in DOMAIN jobs \ {j} : jobs'[i] = jobs[i]
  <2>1. jobs \in Seq(Job) /\ j \in 1 .. Len(jobs) /\ DOMAIN jobs = 1 .. Len(jobs)
    BY <1>1, LenProperties DEF IInv, TypeOK
  <2> HIDE DEF job
  <2>2. [jobs EXCEPT ![j] = job] \in Seq(Job) /\ Len([jobs EXCEPT ![j] = job]) = Len(jobs)
    BY <1>1, <2>1, ExceptSeq
  <2> QED
    BY <1>1, <1>2, <2>1, <2>2, LenProperties
<1>4. /\ doubts' \in [JobIds -> SUBSET Doubt] /\ doubts'[j] = doubts[j] \cup more
      /\ \A i \in JobIds \ {j} : doubts'[i] = doubts[i]
  <2>1. more \in SUBSET Doubt
    BY DEF Doubt
  <2> HIDE DEF more
  <2> QED
    BY <1>1, <1>2, <2>1 DEF IInv, TypeOK
<1>5. calls[c].pc \in {"attempt", "wait"} => Current(c) = j
  BY <1>0
<1>6. OneCallOneJob(c, call, j)
  <2>1. deaths \in Nat
    BY DEF IInv, TypeOK
  <2>2. started' \in 0 .. MaxStarts /\ deaths' \in 0 .. MaxDeaths /\ deaths' >= deaths
    BY <2>1 DEF IInv, TypeOK
  <2> QED
    BY <1>0, <1>3, <1>4, <2>2 DEF OneCallOneJob
<1>7. /\ chain[j].paid \in Nat /\ chain[j].adrift \in Nat
      /\ chain'[j].paid = chain[j].paid
  BY <1>0, <1>1 DEF IInv, TypeOK
<1>8. status = "completed" => chain'[j].paid > 0
  BY <1>0, <1>7 DEF IInv, MinedIsPaid
<1>9. ASSUME doubts'[j] = {} PROVE Certain(j)'
  <2>1. doubt = {} /\ jobs[j].status = calls[c].seen /\ doubts[j] = {} /\ chain' = chain
    BY <1>4, <1>9
  <2>2. Certain(j)
    BY <1>1, <2>1 DEF IInv, Undoubted
  <2>3. calls'[c] = call /\ \A d \in Calls : d # c => calls'[d] = calls[d]
    BY DEF IInv, TypeOK
  <2>4. CASE calls[c].pc \in {"attempt", "wait"}
    <3>1. Works(calls[c], j) /\ status \in {"completed", "failed"}
      BY <1>0, <2>1, <2>4 DEF Works, Current
    <3>2. \A d \in Calls : ~Works(calls'[d], j)
      BY <2>2, <2>3, <3>1 DEF Certain, Works
    <3> QED
      BY <1>3, <2>1, <2>2, <2>4, <3>1, <3>2 DEF Certain
  <2>5. CASE calls[c].pc \notin {"attempt", "wait"}
    <3>1. jobs[j].status \in {"pending", "failed"}
      BY <2>1, <2>5
    <3>2. chain[j].paid = 0 /\ chain[j].adrift = 0 /\ \A d \in Calls : ~Works(calls[d], j)
      BY <2>2, <3>1 DEF Certain
    <3>3. \A d \in Calls : Works(calls'[d], j) => d = c /\ status = "processing"
      BY <2>3, <3>2 DEF Works
    <3> QED
      BY <1>3, <2>1, <3>2, <3>3 DEF Certain
  <2> QED
    BY <2>4, <2>5
<1>10. jobs'[j].status = status
  BY <1>3
<1>11. call.pc \in {"attempt", "wait"} => Head(call.todo) = j
  BY <1>0
<1> QED
  BY <1>1, <1>5, <1>6, <1>7, <1>8, <1>9, <1>10, <1>11, CallStep

-----------------------------------------------------------------------------
(* Steps that leave the job documents alone.                                 *)

\* A call that does not work on a job, before the step and after it.
LEMMA LeavesStep ==
  ASSUME IInv, NEW c \in Calls, NEW call, Fits(call), NEW j \in DOMAIN jobs,
         calls' = [calls EXCEPT ![c] = call],
         UNCHANGED <<jobs, chain, doubts>>,
         started' \in 0 .. MaxStarts, deaths' \in 0 .. MaxDeaths, deaths' >= deaths,
         call.pc \notin {"attempt", "wait"},
         calls[c].pc \notin {"attempt", "wait"}
  PROVE  IInv'
<1>1. OneCallOneJob(c, call, j)
  BY DEF OneCallOneJob, IInv, TypeOK
<1>2. call.tx # "mined"
  BY DEF Fits, Sound
<1>3. chain'[j].paid >= chain[j].paid /\ deaths \in Nat /\ deaths' \in Nat
  <2>1. j \in JobIds
    <3>1. jobs \in Seq(Job) /\ Len(jobs) <= MaxJobs
      BY DEF IInv, TypeOK
    <3>2. DOMAIN jobs = 1 .. Len(jobs) /\ Len(jobs) \in Nat
      BY <3>1, LenProperties
    <3> QED
      BY <3>1, <3>2 DEF JobIds
  <2> QED
    BY <2>1 DEF IInv, TypeOK
<1>4. jobs'[j].status = "completed" => chain'[j].paid > 0
  BY DEF IInv, CompletedIsPaid
<1>5. ASSUME doubts'[j] = {} PROVE Certain(j)'
  <2>1. Certain(j)
    BY <1>5 DEF IInv, Undoubted
  <2>2. \A d \in Calls : Works(calls'[d], j) => d # c /\ calls'[d] = calls[d]
    BY DEF IInv, TypeOK, Works
  <2> QED
    BY <2>1, <2>2 DEF Certain
<1> QED
  BY <1>1, <1>2, <1>3, <1>4, <1>5, CallStep

\* A call that goes on working on its job, with no transaction mined.
LEMMA StaysStep ==
  ASSUME IInv, NEW c \in Calls, NEW call, Fits(call),
         calls' = [calls EXCEPT ![c] = call],
         calls[c].pc \in {"attempt", "wait"}, call.pc \in {"attempt", "wait"},
         call.todo = calls[c].todo, call.tx # "mined",
         UNCHANGED <<jobs, started, deaths>>,
         chain' \in [JobIds -> [paid : Nat, adrift : Nat]],
         doubts' \in [JobIds -> SUBSET Doubt],
         \A i \in JobIds \ {Current(c)} : chain'[i] = chain[i] /\ doubts'[i] = doubts[i],
         chain'[Current(c)].paid = chain[Current(c)].paid,
         doubts'[Current(c)] = {} =>
            doubts[Current(c)] = {} /\ chain' = chain /\ calls[c].tx # "mined"
  PROVE  IInv'
<1>1. PICK j \in DOMAIN jobs : j = Current(c) /\ j \in JobIds
  BY AllFit, HeadOfTodo DEF IInv, Current
<1>2. OneCallOneJob(c, call, j)
  BY <1>1 DEF OneCallOneJob, IInv, TypeOK
<1>3. chain'[j].paid >= chain[j].paid
  BY <1>1 DEF IInv, TypeOK
<1>4. jobs'[j].status = "completed" => chain'[j].paid > 0
  BY <1>1 DEF IInv, CompletedIsPaid
<1>5. ASSUME doubts'[j] = {} PROVE Certain(j)'
  <2>1. Certain(j) /\ chain'[j] = chain[j] /\ calls[c].tx # "mined"
    BY <1>1, <1>5 DEF IInv, Undoubted
  <2>2. \A d \in Calls : Works(calls'[d], j) <=> Works(calls[d], j)
    BY DEF IInv, TypeOK, Works
  <2>3. \A d \in Calls : calls'[d].tx # "mined" => calls[d].tx # "mined"
    BY <2>1 DEF IInv, TypeOK
  <2> QED
    BY <2>1, <2>2, <2>3 DEF Certain
<1>6. Head(call.todo) = j
  BY <1>1 DEF Current
<1> QED
  BY <1>1, <1>2, <1>3, <1>4, <1>5, <1>6, CallStep

-----------------------------------------------------------------------------
(* The initial state, and the steps that begin a call.                       *)

LEMMA InitIInv == Init => IInv
<1> SUFFICES ASSUME Init PROVE IInv
  OBVIOUS
<1>1. /\ jobs \in Seq(Job) /\ Len(jobs) = 0 /\ DOMAIN jobs = {}
  <2>1. jobs \in Seq(Job) /\ Len(jobs) = 0
    BY EmptySeq DEF Init
  <2> QED
    BY <2>1, LenProperties
<1>2. calls \in [Calls -> Call] /\ \A c \in Calls : calls[c] = Idle
  BY IdleFits DEF Init, Fits
<1>3. \A c \in Calls : Fits(calls[c]) /\ calls[c].pc = "idle" /\ calls[c].tx = "none"
  <2>1. Fits(Idle) /\ Idle.pc = "idle" /\ Idle.tx = "none"
    BY IdleFits
  <2> QED
    BY <1>2, <2>1
<1>4. TypeOK
  <2>1. \A c \in Calls : \A k \in DOMAIN calls[c].todo : calls[c].todo[k] \in DOMAIN jobs
    BY <1>3 DEF Fits
  <2>2. /\ chain \in [JobIds -> [paid : Nat, adrift : Nat]]
        /\ doubts \in [JobIds -> SUBSET Doubt]
        /\ started \in 0 .. MaxStarts /\ deaths \in 0 .. MaxDeaths
    BY DEF Init
  <2> QED
    BY <1>1, <1>2, <1>3, <2>1, <2>2 DEF TypeOK, At
<1>5. (\A c \in Calls : Sound(calls[c])) /\ MinedIsPaid
  BY <1>3 DEF Fits, MinedIsPaid
<1>6. CompletedIsPaid /\ ProcessingHasCall /\ Undoubted
  BY <1>1 DEF CompletedIsPaid, ProcessingHasCall, Undoubted
<1>7. Unborn
  BY DEF Init, Unborn
<1> QED
  BY <1>4, <1>5, <1>6, <1>7 DEF IInv

LEMMA JobsDomain ==
  ASSUME TypeOK
  PROVE  DOMAIN jobs = 1 .. Len(jobs) /\ Len(jobs) \in Nat /\ DOMAIN jobs \subseteq JobIds
<1>1. jobs \in Seq(Job) /\ Len(jobs) <= MaxJobs
  BY DEF TypeOK
<1>2. DOMAIN jobs = 1 .. Len(jobs) /\ Len(jobs) \in Nat
  BY <1>1, LenProperties
<1> QED
  BY <1>1, <1>2 DEF JobIds

LEMMA ListFits ==
  ASSUME TypeOK, NEW todo \in Lists, NEW mode \in Mode
  PROVE  /\ Fits(On(mode, todo)) /\ On(mode, todo).pc \in {"find", "findFailed"}
         /\ DOMAIN jobs # {}
<1>1. PICK n \in DOMAIN jobs : todo \in [1 .. n -> DOMAIN jobs]
  BY DEF Lists
<1>2. n \in Nat \ {0} /\ DOMAIN jobs \subseteq JobIds
  BY JobsDomain
<1>3. todo \in Seq(JobIds)
  <2>1. todo \in [1 .. n -> JobIds]
    BY <1>1, <1>2
  <2> QED
    BY <1>2, <2>1, SeqDef
<1>4. todo # <<>>
  <2>1. DOMAIN todo = 1 .. n /\ DOMAIN todo = 1 .. Len(todo)
    BY <1>1, <1>3, LenProperties
  <2> SUFFICES ASSUME todo = <<>> PROVE FALSE
    OBVIOUS
  <2>2. Len(todo) = 0
    BY EmptySeq
  <2> QED
    BY <1>2, <2>1, <2>2
<1>5. \A k \in DOMAIN todo : todo[k] \in DOMAIN jobs
  BY <1>1
<1>6. /\ On(mode, todo) \in Call /\ On(mode, todo).pc \in {"find", "findFailed"}
      /\ On(mode, todo).tx = "none" /\ On(mode, todo).todo = todo
  <2>1. Entry(mode) \in {"find", "findFailed"}
    BY DEF Entry
  <2>2. Idle \in Call /\ Idle.tx = "none"
    BY IdleFits DEF Fits
  <2> QED
    BY <1>3, <2>1, <2>2 DEF Call, On
<1> QED
  BY <1>1, <1>4, <1>5, <1>6 DEF Fits, Sound

LEMMA StartStep ==
  ASSUME IInv, NEW c \in Calls, NEW call, Fits(call), NEW j \in DOMAIN jobs,
         call.pc \notin {"attempt", "wait"}, Start(c, call)
  PROVE  IInv'
<1>1. /\ started' \in 0 .. MaxStarts /\ deaths' \in 0 .. MaxDeaths /\ deaths' >= deaths
      /\ calls[c].pc = "idle"
  <2>1. started \in 0 .. MaxStarts /\ deaths \in 0 .. MaxDeaths
    BY DEF IInv, TypeOK
  <2>2. started < MaxStarts /\ started' = started + 1 /\ deaths' = deaths /\ At(c, "idle")
    BY DEF Start
  <2> QED
    BY <2>1, <2>2 DEF At
<1>2. calls' = [calls EXCEPT ![c] = call] /\ UNCHANGED <<jobs, chain, doubts>>
  BY DEF Start
<1> QED
  BY <1>1, <1>2, LeavesStep

\* Also a call about the job it was asked to retry or to cancel.
LEMMA BeginStep == ASSUME IInv, NEW c \in Calls, Begin(c) PROVE IInv'
<1>0. TypeOK
  BY DEF IInv
<1>1. ASSUME NEW todo \in Lists,
             ProcessPendingPayouts(c, todo) \/ RetryAllFailedJobsForEvent(c, todo)
      PROVE  IInv'
  <2>1. PICK mode \in Mode : Start(c, On(mode, todo))
    BY <1>1 DEF ProcessPendingPayouts, RetryAllFailedJobsForEvent, Mode
  <2>2. Fits(On(mode, todo)) /\ On(mode, todo).pc \notin {"attempt", "wait"}
    BY <1>0, ListFits
  <2>3. PICK j \in DOMAIN jobs : TRUE
    BY <1>0, ListFits
  <2> QED
    BY <2>1, <2>2, <2>3, StartStep
<1>2. ASSUME NEW j \in DOMAIN jobs, RetryFailedJob(c, j) \/ CancelJob(c, j)
      PROVE  IInv'
  <2>1. /\ j \in JobIds /\ <<j>> \in Seq(JobIds) /\ <<j>> # <<>>
        /\ \A k \in DOMAIN <<j>> : <<j>>[k] \in DOMAIN jobs
    BY <1>0, JobsDomain
  <2>2. Idle \in Call /\ Idle.tx = "none"
    BY IdleFits DEF Fits
  <2>3. CASE RetryFailedJob(c, j)
    <3>1. /\ On("retryFailedJobs", <<j>>) \in Call
          /\ On("retryFailedJobs", <<j>>).pc = "findFailed"
          /\ On("retryFailedJobs", <<j>>).tx = "none"
          /\ On("retryFailedJobs", <<j>>).todo = <<j>>
      BY <2>1, <2>2 DEF On, Call, Entry, Mode
    <3>2. Fits(On("retryFailedJobs", <<j>>))
      BY <2>1, <3>1 DEF Fits, Sound
    <3> QED
      BY <2>3, <3>1, <3>2, StartStep DEF RetryFailedJob
  <2>4. CASE CancelJob(c, j)
    <3> DEFINE call == [Idle EXCEPT !.mode = "cancelJob", !.pc = "saveCancelled",
                                    !.todo = <<j>>, !.seen = jobs[j].status]
    <3>1. jobs[j].status \in {"pending", "processing"}
      BY <2>4 DEF CancelJob, MayCancel
    <3>2. /\ call \in Call /\ call.pc = "saveCancelled" /\ call.tx = "none"
          /\ call.todo = <<j>> /\ call.seen = jobs[j].status
      BY <2>1, <2>2, <3>1 DEF Call, Mode, JobStatus
    <3>3. Start(c, call)
      BY <2>4 DEF CancelJob
    <3> HIDE DEF call
    <3>4. Fits(call)
      BY <2>1, <3>1, <3>2 DEF Fits, Sound
    <3> QED
      BY <3>2, <3>3, <3>4, StartStep
  <2> QED
    BY <1>2, <2>3, <2>4
<1> QED
  BY <1>1, <1>2 DEF Begin

-----------------------------------------------------------------------------
(* The steps of a call.                                                      *)

LEMMA CallFitsNow ==
  ASSUME IInv, NEW c \in Calls, ~At(c, "idle")
  PROVE  /\ TypeOK /\ Fits(calls[c]) /\ calls[c] \in Call /\ calls[c].pc # "idle"
         /\ Sound(calls[c])
         /\ Current(c) \in DOMAIN jobs /\ Current(c) \in JobIds
         /\ jobs[Current(c)].status \in JobStatus /\ jobs[Current(c)].result \in Result
<1>1. Fits(calls[c]) /\ calls[c].pc # "idle" /\ TypeOK
  BY AllFit DEF At, IInv
<1>2. /\ Current(c) \in DOMAIN jobs /\ Current(c) \in JobIds
      /\ jobs[Current(c)] \in Job /\ jobs[Current(c)].status \in JobStatus
  BY <1>1, HeadOfTodo DEF Current
<1> QED
  BY <1>1, <1>2 DEF Fits, Job

\* The call's next state when its list stays what it is.
LEMMA SameList ==
  ASSUME NEW call, Fits(call), call.pc # "idle",
         NEW new \in Call, Sound(new), new.todo = call.todo
  PROVE  Fits(new)
BY DEF Fits

\* Steps that end in neither a save nor a transaction.
LEMMA ReadStep ==
  ASSUME IInv, NEW c \in Calls, FindFailed(c) \/ Find(c)
  PROVE  IInv'
<1>1. ~At(c, "idle") /\ calls[c].pc \notin {"attempt", "wait"}
  BY DEF FindFailed, Find, At
<1> DEFINE status == jobs[Current(c)].status
<1>2. /\ TypeOK /\ Fits(calls[c]) /\ calls[c].pc # "idle" /\ status \in JobStatus
      /\ calls[c] \in Call /\ Sound(calls[c]) /\ Current(c) \in DOMAIN jobs
  BY <1>1, CallFitsNow
<1>3. PICK call : /\ Fits(call) /\ call.pc \notin {"attempt", "wait"}
                  /\ calls' = [calls EXCEPT ![c] = call]
  <2>1. /\ Fits(NextJob(calls[c])) /\ NextJob(calls[c]).pc \notin {"attempt", "wait"}
        /\ Fits(AfterError(calls[c])) /\ AfterError(calls[c]).pc \notin {"attempt", "wait"}
    BY <1>2, NextJobFits
  <2>2. calls[c].tx = "none"
    BY <1>1, <1>2, CallFields DEF Sound
  <2>3. CASE FindFailed(c)
    <3>1. CASE status = "failed"
      <4> DEFINE new == [calls[c] EXCEPT !.pc = "savePending", !.seen = status]
      <4>1. calls' = [calls EXCEPT ![c] = new]
        BY <2>3, <3>1 DEF FindFailed
      <4>2. /\ new \in Call /\ new.pc = "savePending" /\ new.seen = status
            /\ new.tx = calls[c].tx /\ new.todo = calls[c].todo
        BY <1>2 DEF Call
      <4>3. Fits(new)
        <5> HIDE DEF new
        <5> QED
          BY <1>2, <2>2, <3>1, <4>2, SameList DEF Sound
      <4> QED
        BY <4>1, <4>2, <4>3
    <3>2. CASE status # "failed"
      BY <2>1, <2>3, <3>2 DEF FindFailed
    <3> QED
      BY <3>1, <3>2
  <2>4. CASE Find(c)
    <3>1. CASE MayProcess(status)
      <4> DEFINE new == [calls[c] EXCEPT !.pc = "saveProcessing", !.seen = status]
      <4>1. calls' = [calls EXCEPT ![c] = new]
        BY <2>4, <3>1 DEF Find
      <4>2. /\ new \in Call /\ new.pc = "saveProcessing" /\ new.seen = status
            /\ new.tx = calls[c].tx /\ new.todo = calls[c].todo
        BY <1>2 DEF Call
      <4>3. Fits(new)
        <5> HIDE DEF new
        <5>1. status \in {"pending", "failed"}
          BY <3>1 DEF MayProcess
        <5> QED
          BY <1>2, <2>2, <3>1, <4>2, <5>1, SameList DEF Sound
      <4> QED
        BY <4>1, <4>2, <4>3
    <3>2. CASE ~MayProcess(status)
      BY <2>1, <2>4, <3>2 DEF Find
    <3> QED
      BY <3>1, <3>2
  <2> QED
    BY <2>3, <2>4
<1>4. /\ UNCHANGED <<jobs, chain, doubts>>
      /\ started' \in 0 .. MaxStarts /\ deaths' \in 0 .. MaxDeaths /\ deaths' >= deaths
  <2>1. UNCHANGED <<jobs, chain, doubts, started, deaths>>
    BY DEF FindFailed, Find
  <2>2. started \in 0 .. MaxStarts /\ deaths \in 0 .. MaxDeaths
    BY <1>2 DEF TypeOK
  <2> QED
    BY <2>1, <2>2
<1> QED
  BY <1>1, <1>2, <1>3, <1>4, LeavesStep

-----------------------------------------------------------------------------
(* The steps of a call that save, or wait for a transaction.                 *)

LEMMA SavePendingStep == ASSUME IInv, NEW c \in Calls, SavePending(c) PROVE IInv'
<1>1. calls[c].pc = "savePending" /\ ~At(c, "idle")
  BY DEF SavePending, At
<1> DEFINE new == [calls[c] EXCEPT !.pc = "find"]
           result == jobs[Current(c)].result
<1>2. /\ Fits(calls[c]) /\ calls[c] \in Call /\ calls[c].pc # "idle" /\ Sound(calls[c])
      /\ result \in Result /\ Current(c) \in JobIds
  BY <1>1, CallFitsNow
<1>3. /\ new \in Call /\ new.pc = "find" /\ new.tx = calls[c].tx /\ new.todo = calls[c].todo
      /\ calls' = [calls EXCEPT ![c] = new]
      /\ UNCHANGED <<chain, started, deaths>> /\ Save(c, "pending", result, {})
  BY <1>2 DEF Call, SavePending
<1> HIDE DEF new, result
<1>4. Fits(new) /\ new.tx = "none"
  BY <1>1, <1>2, <1>3, SameList DEF Sound
<1>5. calls[c].seen \in {"pending", "failed"}
  BY <1>1, <1>2 DEF Sound
<1>6. chain' \in [JobIds -> [paid : Nat, adrift : Nat]] /\ chain' = chain
  BY <1>3 DEF IInv, TypeOK
<1>7. "pending" \in JobStatus /\ {} \in SUBSET Doubt
  BY DEF JobStatus
<1> QED
  BY <1>1, <1>2, <1>3, <1>4, <1>5, <1>6, <1>7, SaveStep

LEMMA SaveProcessingStep == ASSUME IInv, NEW c \in Calls, SaveProcessing(c) PROVE IInv'
<1>1. calls[c].pc = "saveProcessing" /\ ~At(c, "idle")
  BY DEF SaveProcessing, At
<1> DEFINE new == [calls[c] EXCEPT !.pc = "attempt", !.seen = "processing"]
           result == jobs[Current(c)].result
<1>2. /\ Fits(calls[c]) /\ calls[c] \in Call /\ calls[c].pc # "idle" /\ Sound(calls[c])
      /\ result \in Result /\ Current(c) \in JobIds
  BY <1>1, CallFitsNow
<1>3. /\ new \in Call /\ new.pc = "attempt" /\ new.seen = "processing"
      /\ new.tx = calls[c].tx /\ new.todo = calls[c].todo
      /\ calls' = [calls EXCEPT ![c] = new]
      /\ UNCHANGED <<chain, started, deaths>> /\ Save(c, "processing", result, {})
  BY <1>2 DEF Call, SaveProcessing, JobStatus
<1> HIDE DEF new, result
<1>4. Fits(new) /\ new.tx = "none" /\ Head(new.todo) = Current(c)
  BY <1>1, <1>2, <1>3, SameList DEF Sound, Current
<1>5. calls[c].seen \in {"pending", "failed"}
  BY <1>1, <1>2 DEF Sound
<1>6. chain' \in [JobIds -> [paid : Nat, adrift : Nat]] /\ chain' = chain
  BY <1>3 DEF IInv, TypeOK
<1>7. "processing" \in JobStatus /\ {} \in SUBSET Doubt
  BY DEF JobStatus
<1> QED
  BY <1>1, <1>2, <1>3, <1>4, <1>5, <1>6, <1>7, SaveStep

LEMMA SaveCancelledStep == ASSUME IInv, NEW c \in Calls, SaveCancelled(c) PROVE IInv'
<1>1. calls[c].pc = "saveCancelled" /\ ~At(c, "idle")
  BY DEF SaveCancelled, At
<1> DEFINE doubt == IF calls[c].seen = "processing" THEN {"cancelled while processing"} ELSE {}
<1>2. Sound(calls[c]) /\ Current(c) \in JobIds
  BY <1>1, CallFitsNow
<1>3. /\ Fits(Idle) /\ Idle.tx = "none" /\ Idle.pc = "idle"
      /\ calls' = [calls EXCEPT ![c] = Idle]
      /\ UNCHANGED <<chain, started, deaths>> /\ Save(c, "failed", "cancelled", doubt)
  BY IdleFits DEF SaveCancelled
<1>4. doubt = {} => calls[c].seen \in {"pending", "failed"}
  BY <1>1, <1>2 DEF Sound
<1>5. doubt \in SUBSET Doubt
  BY DEF Doubt
<1> HIDE DEF doubt
<1>6. chain' \in [JobIds -> [paid : Nat, adrift : Nat]] /\ chain' = chain
  BY <1>3 DEF IInv, TypeOK
<1>7. "failed" \in JobStatus /\ "cancelled" \in Result
  BY DEF JobStatus, Result
<1> QED
  BY <1>1, <1>2, <1>3, <1>4, <1>5, <1>6, <1>7, SaveStep

LEMMA CompletedStep == ASSUME IInv, NEW c \in Calls, Completed(c) PROVE IInv'
<1>1. calls[c].pc = "wait" /\ calls[c].tx = "mined" /\ ~At(c, "idle")
  BY DEF Completed, At, IsSuccess
<1>2. Fits(calls[c]) /\ calls[c].pc # "idle" /\ Current(c) \in JobIds
  BY <1>1, CallFitsNow
<1> DEFINE new == NextJob(calls[c])
<1>3. /\ Fits(new) /\ new.tx = "none" /\ new.pc \in {"idle", "find", "findFailed"}
      /\ calls' = [calls EXCEPT ![c] = new]
      /\ UNCHANGED <<chain, started, deaths>> /\ Save(c, "completed", "txHash", {})
  BY <1>2, NextJobFits DEF Completed
<1> HIDE DEF new
<1>4. chain' \in [JobIds -> [paid : Nat, adrift : Nat]] /\ chain' = chain
  BY <1>3 DEF IInv, TypeOK
<1>5. "completed" \in JobStatus /\ "txHash" \in Result /\ {} \in SUBSET Doubt
  BY DEF JobStatus, Result
<1> QED
  BY <1>1, <1>2, <1>3, <1>4, <1>5, SaveStep

LEMMA AttemptFailsStep ==
  ASSUME IInv, NEW c \in Calls, NEW doubt \in SUBSET Doubt,
         calls[c].pc \in {"attempt", "wait"}, AttemptFails(c, doubt),
         chain' \in [JobIds -> [paid : Nat, adrift : Nat]],
         \A i \in JobIds \ {Current(c)} : chain'[i] = chain[i],
         chain'[Current(c)].paid = chain[Current(c)].paid,
         doubt = {} => chain' = chain /\ calls[c].tx # "mined",
         UNCHANGED <<started, deaths>>
  PROVE  IInv'
<1>1. ~At(c, "idle")
  BY DEF At
<1>2. /\ Fits(calls[c]) /\ calls[c] \in Call /\ calls[c].pc # "idle" /\ Sound(calls[c])
      /\ Current(c) \in JobIds
  BY <1>1, CallFitsNow
<1> DEFINE retryCount == calls[c].retryCount + 1
<1>3. CASE MayRetry(retryCount)
  <2> DEFINE new == [calls[c] EXCEPT !.pc = "attempt", !.tx = "none",
                                     !.retryCount = retryCount]
  <2>1. /\ calls' = [calls EXCEPT ![c] = new] /\ UNCHANGED jobs
        /\ doubts' = [doubts EXCEPT ![Current(c)] = @ \cup doubt]
    BY <1>3 DEF AttemptFails
  <2>2. retryCount \in 0 .. maxRetries
    <3>1. calls[c].retryCount \in 0 .. maxRetries /\ maxRetries \in Nat
      BY <1>2, CallFields
    <3> QED
      BY <1>3, <3>1 DEF MayRetry
  <2> HIDE DEF retryCount
  <2>3. /\ new \in Call /\ new.pc = "attempt" /\ new.tx = "none"
        /\ new.seen = calls[c].seen /\ new.todo = calls[c].todo
    BY <1>2, <2>2 DEF Call
  <2> HIDE DEF new
  <2>4. Fits(new)
    BY <1>2, <2>3, SameList DEF Sound
  <2>5. /\ doubts' \in [JobIds -> SUBSET Doubt]
        /\ \A i \in JobIds \ {Current(c)} : doubts'[i] = doubts[i]
        /\ doubts'[Current(c)] = doubts[Current(c)] \cup doubt
    BY <1>2, <2>1 DEF IInv, TypeOK
  <2>6. new.tx # "mined"
    BY <2>3
  <2>7. doubts'[Current(c)] = {} =>
          doubts[Current(c)] = {} /\ chain' = chain /\ calls[c].tx # "mined"
    BY <2>5
  <2> QED
    BY <2>1, <2>3, <2>4, <2>5, <2>6, <2>7, StaysStep
<1>4. CASE ~MayRetry(retryCount)
  <2> DEFINE new == NextJob(calls[c])
  <2>1. /\ Fits(new) /\ new.tx = "none" /\ new.pc \in {"idle", "find", "findFailed"}
        /\ calls' = [calls EXCEPT ![c] = new] /\ Save(c, "failed", "error", doubt)
    BY <1>2, <1>4, NextJobFits DEF AttemptFails
  <2> HIDE DEF new
  <2>2. "failed" \in JobStatus /\ "error" \in Result
    BY DEF JobStatus, Result
  <2> QED
    BY <1>1, <2>1, <2>2, SaveStep
<1> QED
  BY <1>3, <1>4

-----------------------------------------------------------------------------
(* Transactions.                                                             *)

LEMMA SetsAdriftIs ==
  ASSUME IInv, NEW c \in Calls, NEW j \in JobIds, j = Current(c), NEW more \in Nat,
         SetsAdrift(c, more)
  PROVE  /\ chain' \in [JobIds -> [paid : Nat, adrift : Nat]]
         /\ chain'[j].paid = chain[j].paid /\ chain'[j].adrift = chain[j].adrift + more
         /\ \A i \in JobIds \ {j} : chain'[i] = chain[i]
<1>1. chain \in [JobIds -> [paid : Nat, adrift : Nat]]
  BY DEF IInv, TypeOK
<1>2. PICK known \in [paid : Nat, adrift : Nat] : known = chain[j]
  BY <1>1
<1> DEFINE adrift == known.adrift + more
           new == [known EXCEPT !.adrift = adrift]
<1>3. chain' = [chain EXCEPT ![j] = new]
  BY <1>1, <1>2 DEF SetsAdrift
<1>4. /\ new \in [paid : Nat, adrift : Nat]
      /\ new.paid = known.paid /\ new.adrift = adrift
  <2>1. known.adrift \in Nat
    OBVIOUS
  <2>2. adrift \in Nat
    BY <2>1
  <2> HIDE DEF adrift
  <2> QED
    BY <2>2
<1> HIDE DEF new
<1> QED
  BY <1>1, <1>2, <1>3, <1>4

LEMMA AttemptStep ==
  ASSUME IInv, NEW c \in Calls,
         NotSent(c) \/ Reverted(c) \/ AnswerLost(c) \/ ReceiptLost(c)
  PROVE  IInv'
<1>1. calls[c].pc \in {"attempt", "wait"} /\ ~At(c, "idle") /\ UNCHANGED <<started, deaths>>
  BY DEF NotSent, Reverted, AnswerLost, ReceiptLost, At
<1>2. Sound(calls[c]) /\ Current(c) \in JobIds
  BY <1>1, CallFitsNow
<1>3. CASE NotSent(c) \/ Reverted(c)
  <2>1. AttemptFails(c, {}) /\ chain' = chain /\ calls[c].tx # "mined"
    BY <1>2, <1>3 DEF NotSent, Reverted, At, Sound
  <2>2. chain' \in [JobIds -> [paid : Nat, adrift : Nat]]
    BY <2>1 DEF IInv, TypeOK
  <2> QED
    BY <1>1, <1>2, <2>1, <2>2, AttemptFailsStep
<1>4. CASE AnswerLost(c) \/ ReceiptLost(c)
  <2>1. PICK more \in Nat : SetsAdrift(c, more) /\ AttemptFails(c, {"answer lost"})
    BY <1>4 DEF AnswerLost, ReceiptLost
  <2>2. {"answer lost"} \in SUBSET Doubt /\ {"answer lost"} # {}
    BY DEF Doubt
  <2>3. /\ chain' \in [JobIds -> [paid : Nat, adrift : Nat]]
        /\ chain'[Current(c)].paid = chain[Current(c)].paid
        /\ \A i \in JobIds \ {Current(c)} : chain'[i] = chain[i]
    BY <1>2, <2>1, SetsAdriftIs
  <2> QED
    BY <1>1, <1>2, <2>1, <2>2, <2>3, AttemptFailsStep
<1> QED
  BY <1>3, <1>4

\* A query or a save that rejects ends the call, or the work on this job.
LEMMA DatabaseFailsStep == ASSUME IInv, NEW c \in Calls, DatabaseFails(c) PROVE IInv'
<1>1. /\ ~At(c, "idle") /\ deaths < MaxDeaths /\ deaths' = deaths + 1
      /\ calls' = [calls EXCEPT ![c] = AfterError(calls[c])]
      /\ UNCHANGED <<jobs, doubts, started>>
  BY DEF DatabaseFails
<1>2. TypeOK /\ Fits(calls[c]) /\ calls[c].pc # "idle" /\ Sound(calls[c])
  BY <1>1, CallFitsNow
<1>3. PICK call : call = AfterError(calls[c])
  OBVIOUS
<1>4. Fits(call) /\ call.pc \notin {"attempt", "wait"} /\ call.tx = "none"
  BY <1>2, <1>3, NextJobFits
<1>5. PICK j \in DOMAIN jobs : j = Current(c) /\ j \in JobIds
  BY <1>1, CallFitsNow
<1>6. PICK more \in LostUnsaved(c) : SetsAdrift(c, more)
  BY DEF DatabaseFails
<1>7. /\ more \in {0, 1}
      /\ more = 1 => calls[c].pc \in {"attempt", "wait"} /\ calls[c].tx # "mined"
  BY <1>2 DEF LostUnsaved, At, Sound
<1>8. /\ chain' \in [JobIds -> [paid : Nat, adrift : Nat]]
      /\ chain'[j].paid = chain[j].paid /\ chain'[j].adrift = chain[j].adrift + more
      /\ \A i \in JobIds \ {j} : chain'[i] = chain[i]
  BY <1>5, <1>6, <1>7, SetsAdriftIs
<1>9. /\ started' \in 0 .. MaxStarts /\ deaths' \in 0 .. MaxDeaths /\ deaths' >= deaths
      /\ deaths' > 0 /\ deaths \in Nat
  <2>1. started \in 0 .. MaxStarts /\ deaths \in 0 .. MaxDeaths
    BY <1>2 DEF TypeOK
  <2> QED
    BY <1>1, <2>1
<1>10. OneCallOneJob(c, call, j)
  BY <1>1, <1>3, <1>8, <1>9 DEF OneCallOneJob, IInv, TypeOK
<1>11. chain[j].paid \in Nat /\ chain[j].adrift \in Nat
  BY <1>5, <1>2 DEF TypeOK
<1>12. jobs'[j].status = "completed" => chain'[j].paid > 0
  BY <1>1, <1>8 DEF IInv, CompletedIsPaid
<1>13. ASSUME doubts'[j] = {} PROVE Certain(j)'
  <2>1. Certain(j)
    BY <1>1, <1>13 DEF IInv, Undoubted
  <2>2. calls'[c] = call /\ \A d \in Calls : d # c => calls'[d] = calls[d]
    BY <1>1, <1>3 DEF IInv, TypeOK
  <2>3. \A d \in Calls : Works(calls'[d], j) => d # c /\ Works(calls[d], j)
    BY <1>4, <2>2 DEF Works
  <2>4. CASE more = 0
    <3>1. chain'[j].adrift = chain[j].adrift
      BY <1>8, <1>11, <2>4
    <3> QED
      BY <1>1, <1>8, <2>1, <2>2, <2>3, <3>1 DEF Certain
  <2>5. CASE more = 1
    <3>1. Works(calls[c], j) /\ calls[c].tx # "mined"
      BY <1>5, <1>7, <2>5 DEF Works, Current
    <3>2. /\ jobs[j].status = "processing" /\ chain[j].paid = 0 /\ chain[j].adrift = 0
          /\ \A d \in Calls : ~Works(calls'[d], j)
      BY <2>1, <2>3, <3>1 DEF Certain
    <3>3. chain'[j].paid = 0 /\ chain'[j].adrift = 1
      BY <1>8, <2>5, <3>2
    <3> QED
      BY <1>1, <3>2, <3>3 DEF Certain
  <2> QED
    BY <1>7, <2>4, <2>5
<1>14. chain'[j].paid >= chain[j].paid /\ call.tx # "mined"
  BY <1>4, <1>8, <1>11
<1> QED
  BY <1>4, <1>5, <1>9, <1>10, <1>12, <1>13, <1>14, CallStep

LEMMA BroadcastStep ==
  ASSUME IInv, NEW c \in Calls, Broadcast(c) \/ RevertTransaction(c)
  PROVE  IInv'
<1>1. /\ ~At(c, "idle") /\ calls[c].pc \in {"attempt", "wait"}
      /\ UNCHANGED <<jobs, chain, doubts, started, deaths>>
  BY DEF Broadcast, RevertTransaction, At
<1>2. /\ Fits(calls[c]) /\ calls[c] \in Call /\ calls[c].pc # "idle" /\ Sound(calls[c])
      /\ Current(c) \in JobIds
  BY <1>1, CallFitsNow
<1>3. calls[c].tx # "mined"
  BY <1>2 DEF Broadcast, RevertTransaction, At, Sound
<1>4. PICK new \in Call : /\ calls' = [calls EXCEPT ![c] = new]
                          /\ new.pc = "wait" /\ new.tx \in {"sent", "reverted"}
                          /\ new.seen = calls[c].seen /\ new.todo = calls[c].todo
  <2>1. CASE Broadcast(c)
    <3> DEFINE new == [calls[c] EXCEPT !.pc = "wait", !.tx = "sent"]
    <3>1. calls' = [calls EXCEPT ![c] = new]
      BY <2>1 DEF Broadcast
    <3>2. /\ new \in Call /\ new.pc = "wait" /\ new.tx = "sent"
          /\ new.seen = calls[c].seen /\ new.todo = calls[c].todo
      BY <1>2 DEF Call
    <3> QED
      BY <3>1, <3>2
  <2>2. CASE RevertTransaction(c)
    <3> DEFINE new == [calls[c] EXCEPT !.tx = "reverted"]
    <3>1. calls' = [calls EXCEPT ![c] = new] /\ calls[c].pc = "wait"
      BY <2>2 DEF RevertTransaction, At
    <3>2. /\ new \in Call /\ new.pc = "wait" /\ new.tx = "reverted"
          /\ new.seen = calls[c].seen /\ new.todo = calls[c].todo
      BY <1>2, <3>1 DEF Call
    <3> QED
      BY <3>1, <3>2
  <2> QED
    BY <2>1, <2>2
<1>5. Fits(new)
  BY <1>1, <1>2, <1>4, SameList DEF Sound
<1>6. /\ chain' \in [JobIds -> [paid : Nat, adrift : Nat]]
      /\ doubts' \in [JobIds -> SUBSET Doubt]
  BY <1>1 DEF IInv, TypeOK
<1> QED
  BY <1>1, <1>3, <1>4, <1>5, <1>6, StaysStep

LEMMA MineStep == ASSUME IInv, NEW c \in Calls, Mine(c) PROVE IInv'
<1>1. calls[c].pc = "wait" /\ calls[c].tx = "sent" /\ ~At(c, "idle")
  BY DEF Mine, At
<1>2. /\ Fits(calls[c]) /\ calls[c] \in Call /\ calls[c].pc # "idle" /\ Sound(calls[c])
  BY <1>1, CallFitsNow
<1>3. PICK j \in DOMAIN jobs : j = Current(c) /\ j \in JobIds
  BY <1>1, CallFitsNow
<1> DEFINE new == [calls[c] EXCEPT !.tx = "mined"]
<1>4. /\ calls' = [calls EXCEPT ![c] = new] /\ chain' = [chain EXCEPT ![j].paid = @ + 1]
      /\ UNCHANGED <<jobs, doubts, started, deaths>>
  BY <1>3 DEF Mine
<1>5. /\ new \in Call /\ new.pc = "wait" /\ new.tx = "mined"
      /\ new.seen = calls[c].seen /\ new.todo = calls[c].todo
  BY <1>1, <1>2 DEF Call
<1> HIDE DEF new
<1>6. Fits(new) /\ Head(new.todo) = j
  BY <1>1, <1>2, <1>3, <1>5, SameList DEF Sound, Current
<1>7. /\ chain' \in [JobIds -> [paid : Nat, adrift : Nat]]
      /\ chain'[j].paid = chain[j].paid + 1 /\ chain'[j].adrift = chain[j].adrift
      /\ chain[j].paid \in Nat /\ chain[j].adrift \in Nat
      /\ \A i \in JobIds \ {j} : chain'[i] = chain[i]
  <2>1. chain \in [JobIds -> [paid : Nat, adrift : Nat]]
    BY DEF IInv, TypeOK
  <2> QED
    BY <1>3, <1>4, <2>1
<1>8. OneCallOneJob(c, new, j)
  BY <1>4, <1>7 DEF OneCallOneJob, IInv, TypeOK
<1>9. ASSUME doubts'[j] = {} PROVE Certain(j)'
  <2>1. Certain(j) /\ Works(calls[c], j)
    BY <1>1, <1>3, <1>4, <1>9 DEF IInv, Undoubted, Works, Current
  <2>2. /\ jobs[j].status = "processing" /\ chain[j].paid = 0 /\ chain[j].adrift = 0
        /\ \A d \in Calls : Works(calls[d], j) => d = c
    BY <1>1, <2>1 DEF Certain
  <2>3. \A d \in Calls : Works(calls'[d], j) => d = c /\ calls'[d] = new
    BY <1>4, <2>2 DEF IInv, TypeOK, Works
  <2> QED
    BY <1>4, <1>5, <1>7, <2>2, <2>3 DEF Certain
<1>10. chain'[j].paid > 0 /\ chain'[j].paid >= chain[j].paid
  BY <1>7
<1> QED
  BY <1>3, <1>5, <1>6, <1>8, <1>9, <1>10, CallStep

\* A transaction nobody waits for any more is mined, or dropped.
LEMMA AdriftStep ==
  ASSUME IInv, NEW j \in JobIds, MineAdrift(j) \/ DropAdrift(j)
  PROVE  IInv'
<1>1. UNCHANGED <<jobs, calls, doubts, started, deaths>> /\ chain[j].adrift > 0
  BY DEF MineAdrift, DropAdrift
<1>2. chain \in [JobIds -> [paid : Nat, adrift : Nat]] /\ TypeOK
  BY DEF IInv, TypeOK
<1>3. /\ chain' \in [JobIds -> [paid : Nat, adrift : Nat]]
      /\ \A i \in JobIds : i # j => chain'[i] = chain[i]
      /\ chain'[j].paid >= chain[j].paid
      /\ chain'[j].paid + chain'[j].adrift <= chain[j].paid + chain[j].adrift
  <2>1. PICK known \in [paid : Nat, adrift : Nat] : known = chain[j]
    BY <1>2
  <2>2. known.paid \in Nat /\ known.adrift \in Nat /\ known.adrift - 1 \in Nat
    BY <1>1, <2>1
  <2>3. PICK new \in [paid : Nat, adrift : Nat] :
           /\ chain' = [chain EXCEPT ![j] = new]
           /\ new.paid \in {known.paid, known.paid + 1} /\ new.adrift = known.adrift - 1
           /\ new.paid + new.adrift <= known.paid + known.adrift
    <3>1. CASE MineAdrift(j)
      <4> DEFINE new == [known EXCEPT !.adrift = known.adrift - 1, !.paid = known.paid + 1]
      <4>1. chain' = [chain EXCEPT ![j] = new]
        BY <1>2, <2>1, <3>1 DEF MineAdrift
      <4> DEFINE less == [known EXCEPT !.adrift = known.adrift - 1]
      <4>2. /\ new \in [paid : Nat, adrift : Nat]
            /\ new.paid = known.paid + 1 /\ new.adrift = known.adrift - 1
        <5>1. /\ less \in [paid : Nat, adrift : Nat]
              /\ less.paid = known.paid /\ less.adrift = known.adrift - 1
          BY <2>2
        <5>2. new = [less EXCEPT !.paid = known.paid + 1]
          OBVIOUS
        <5>3. known.paid + 1 \in Nat
          BY <2>2
        <5> HIDE DEF less, new
        <5> QED
          BY <5>1, <5>2, <5>3
      <4> HIDE DEF new
      <4>3. /\ new.paid \in {known.paid, known.paid + 1}
            /\ new.paid + new.adrift <= known.paid + known.adrift
        BY <2>2, <4>2
      <4> QED
        BY <4>1, <4>2, <4>3
    <3>2. CASE DropAdrift(j)
      <4> DEFINE new == [known EXCEPT !.adrift = known.adrift - 1]
      <4>1. chain' = [chain EXCEPT ![j] = new]
        BY <1>2, <2>1, <3>2 DEF DropAdrift
      <4>2. /\ new \in [paid : Nat, adrift : Nat]
            /\ new.paid = known.paid /\ new.adrift = known.adrift - 1
        BY <2>2
      <4> HIDE DEF new
      <4>3. /\ new.paid \in {known.paid, known.paid + 1}
            /\ new.paid + new.adrift <= known.paid + known.adrift
        BY <2>2, <4>2
      <4> QED
        BY <4>1, <4>2, <4>3
    <3> QED
      BY <3>1, <3>2
  <2> QED
    BY <1>2, <2>1, <2>2, <2>3
<1>4. chain[j].paid \in Nat /\ chain[j].adrift \in Nat
  BY <1>2
<1>5. j \in DOMAIN jobs
  <2>1. chain[j].adrift # 0
    BY <1>1, <1>4
  <2> QED
    BY <2>1 DEF IInv, Unborn
<1>6. TypeOK'
  BY <1>1, <1>2, <1>3 DEF TypeOK, At
<1>7. \A i \in JobIds : chain'[i].paid >= chain[i].paid /\ chain[i].paid \in Nat
                        /\ chain'[i].paid \in Nat
  <2>1. \A i \in JobIds : chain[i].paid \in Nat /\ chain'[i].paid \in Nat
    BY <1>2, <1>3
  <2> QED
    BY <1>3, <2>1
<1>8. DOMAIN jobs \subseteq JobIds
  BY <1>2, JobsDomain
<1>9. (\A c \in Calls : Sound(calls'[c])) /\ ProcessingHasCall' /\ Unborn'
  BY <1>1, <1>3, <1>5 DEF IInv, ProcessingHasCall, At, Current, Unborn
<1>10. CompletedIsPaid'
  BY <1>1, <1>7, <1>8 DEF IInv, CompletedIsPaid
<1>11. MinedIsPaid'
  <2> SUFFICES ASSUME NEW c \in Calls, calls[c].tx = "mined"
               PROVE  chain'[Current(c)].paid > 0
    BY <1>1 DEF MinedIsPaid, Current
  <2>1. chain[Current(c)].paid > 0 /\ ~At(c, "idle")
    BY DEF IInv, MinedIsPaid, Sound, At
  <2>2. Current(c) \in JobIds
    BY <2>1, CallFitsNow
  <2> QED
    BY <1>7, <2>1, <2>2
<1>12. Undoubted'
  <2> SUFFICES ASSUME NEW i \in DOMAIN jobs, doubts[i] = {} PROVE Certain(i)'
    BY <1>1 DEF Undoubted
  <2>1. Certain(i)
    BY DEF IInv, Undoubted
  <2>2. CASE i # j
    BY <1>1, <1>3, <1>8, <2>1, <2>2 DEF Certain
  <2>3. CASE i = j
    <3>1. chain[j].adrift # 0 /\ \A c \in Calls : ~Works(calls[c], j)
      BY <1>1, <1>4, <2>1, <2>3 DEF Certain
    <3>2. jobs[j].status \notin {"pending", "failed"}
      BY <2>1, <2>3, <3>1 DEF Certain
    <3>3. chain'[j].paid + chain'[j].adrift <= 1
      <4>1. chain'[j].paid \in Nat /\ chain'[j].adrift \in Nat
        BY <1>3
      <4>2. chain[j].paid + chain[j].adrift <= 1
        BY <2>1, <2>3 DEF Certain
      <4> QED
        BY <1>3, <1>4, <4>1, <4>2
    <3> QED
      BY <1>1, <2>3, <3>1, <3>2, <3>3 DEF Certain
  <2> QED
    BY <2>2, <2>3
<1> QED
  BY <1>6, <1>9, <1>10, <1>11, <1>12 DEF IInv

-----------------------------------------------------------------------------
(* A new job, and a crash.                                                   *)

LEMMA EnqueuePayoutStep == ASSUME IInv, EnqueuePayout PROVE IInv'
<1> DEFINE n == Len(jobs) + 1
           job == [status |-> "pending", result |-> "none"]
<1>1. /\ jobs' = Append(jobs, job) /\ Len(jobs) < MaxJobs
      /\ UNCHANGED <<calls, chain, doubts, started, deaths>>
  BY DEF EnqueuePayout
<1>2. TypeOK /\ jobs \in Seq(Job) /\ job \in Job
  BY DEF IInv, TypeOK, Job, JobStatus, Result
<1>3. DOMAIN jobs = 1 .. Len(jobs) /\ Len(jobs) \in Nat /\ DOMAIN jobs \subseteq JobIds
  BY <1>2, JobsDomain
<1>4. job.status = "pending"
  OBVIOUS
<1> HIDE DEF job
<1>5. /\ jobs' \in Seq(Job) /\ Len(jobs') = Len(jobs) + 1
      /\ \A i \in DOMAIN jobs : jobs'[i] = jobs[i]
      /\ jobs'[n] = job
  BY <1>1, <1>2, <1>3, AppendProperties
<1>6. /\ DOMAIN jobs' = DOMAIN jobs \cup {n} /\ n \in JobIds /\ n \notin DOMAIN jobs
  <2>1. DOMAIN jobs' = 1 .. Len(jobs) + 1
    BY <1>5, LenProperties
  <2> QED
    BY <1>1, <1>3, <2>1 DEF JobIds
<1>7. chain[n].paid = 0 /\ chain[n].adrift = 0
  BY <1>6 DEF IInv, Unborn
<1>8. \A c \in Calls : ~Works(calls[c], n)
  <2> SUFFICES ASSUME NEW c \in Calls, Works(calls[c], n) PROVE FALSE
    OBVIOUS
  <2>1. calls[c].pc # "idle" /\ Current(c) = n
    BY DEF Works, Current
  <2> QED
    BY <1>6, <2>1, CallFitsNow DEF At
<1>9. TypeOK'
  <2>1. Len(jobs') <= MaxJobs
    BY <1>1, <1>3, <1>5
  <2>2. \A c \in Calls : \A k \in DOMAIN calls'[c].todo : calls'[c].todo[k] \in DOMAIN jobs'
    BY <1>1, <1>2, <1>6 DEF TypeOK
  <2> QED
    BY <1>1, <1>2, <1>5, <2>1, <2>2 DEF TypeOK, At
<1>10. (\A c \in Calls : Sound(calls'[c])) /\ MinedIsPaid' /\ Unborn'
  BY <1>1, <1>6 DEF IInv, MinedIsPaid, Current, Unborn
<1> HIDE DEF n
<1>11. CompletedIsPaid'
  BY <1>1, <1>4, <1>5, <1>6 DEF IInv, CompletedIsPaid
<1>12. ProcessingHasCall'
  BY <1>1, <1>4, <1>5, <1>6 DEF IInv, ProcessingHasCall, At, Current
<1>13. Undoubted'
  <2> SUFFICES ASSUME NEW i \in DOMAIN jobs', doubts[i] = {} PROVE Certain(i)'
    BY <1>1 DEF Undoubted
  <2>1. CASE i \in DOMAIN jobs
    <3>1. Certain(i) /\ jobs'[i] = jobs[i]
      BY <1>5, <2>1 DEF IInv, Undoubted
    <3> QED
      BY <1>1, <3>1 DEF Certain
  <2>2. CASE i = n
    BY <1>1, <1>7, <1>8, <2>2 DEF Certain
  <2> QED
    BY <1>6, <2>1, <2>2
<1> QED
  BY <1>9, <1>10, <1>11, <1>12, <1>13 DEF IInv

\* The transactions of job j that somebody waits for are adrift after a crash.
Adrift(j) == {c \in Calls : calls[c].tx = "sent" /\ Current(c) = j}

LEMMA AdriftCalls ==
  ASSUME IInv, NEW j
  PROVE  /\ Cardinality(Adrift(j)) \in Nat
         /\ Adrift(j) = {} => Cardinality(Adrift(j)) = 0
         /\ \A c \in Adrift(j) : Works(calls[c], j) /\ j \in DOMAIN jobs
         /\ \A c : Adrift(j) = {c} => Cardinality(Adrift(j)) = 1
<1>1. IsFiniteSet(Adrift(j))
  <2>1. Adrift(j) \in SUBSET Calls
    BY DEF Adrift
  <2> QED
    BY <2>1, FS_Subset
<1>2. Cardinality(Adrift(j)) \in Nat
  BY <1>1, FS_CardinalityType
<1>3. Adrift(j) = {} => Cardinality(Adrift(j)) = 0
  BY FS_EmptySet
<1>4. \A c : Adrift(j) = {c} => Cardinality(Adrift(j)) = 1
  BY FS_Singleton
<1>5. ASSUME NEW c \in Adrift(j) PROVE Works(calls[c], j) /\ j \in DOMAIN jobs
  <2>1. c \in Calls /\ calls[c].pc = "wait" /\ Current(c) = j
    BY <1>5 DEF Adrift, IInv, Sound
  <2>2. j \in DOMAIN jobs
    BY <2>1, CallFitsNow DEF At
  <2> QED
    BY <2>1, <2>2 DEF Works, Current
<1> QED
  BY <1>2, <1>3, <1>4, <1>5

LEMMA CrashStep == ASSUME IInv, Crash PROVE IInv'
<1>1. /\ calls' = [c \in Calls |-> Idle] /\ UNCHANGED <<jobs, doubts, started>>
      /\ deaths < MaxDeaths /\ deaths' = deaths + 1
      /\ chain' = [j \in JobIds |->
                      [chain[j] EXCEPT !.adrift = @ + Cardinality(Adrift(j))]]
  BY DEF Crash, Adrift
<1>2. TypeOK /\ chain \in [JobIds -> [paid : Nat, adrift : Nat]]
  BY DEF IInv, TypeOK
<1>3. ASSUME NEW j \in JobIds
      PROVE  /\ chain'[j] \in [paid : Nat, adrift : Nat]
             /\ chain'[j].paid = chain[j].paid
             /\ chain'[j].adrift = chain[j].adrift + Cardinality(Adrift(j))
             /\ chain[j].paid \in Nat /\ chain[j].adrift \in Nat
  <2>1. PICK known \in [paid : Nat, adrift : Nat] : known = chain[j]
    BY <1>2
  <2>2. PICK more \in Nat : more = Cardinality(Adrift(j))
    BY AdriftCalls
  <2> DEFINE adrift == known.adrift + more
             new == [known EXCEPT !.adrift = adrift]
  <2>3. chain'[j] = new
    BY <1>1, <2>1, <2>2
  <2>4. known.paid \in Nat /\ known.adrift \in Nat
    OBVIOUS
  <2>5. adrift \in Nat
    BY <2>4
  <2>6. new \in [paid : Nat, adrift : Nat] /\ new.paid = known.paid /\ new.adrift = adrift
    <3> HIDE DEF adrift
    <3> QED
      BY <2>5
  <2> HIDE DEF new
  <2> QED
    BY <2>1, <2>2, <2>3, <2>4, <2>6
<1>4. /\ calls' \in [Calls -> Call]
      /\ \A c \in Calls : calls'[c].pc = "idle" /\ calls'[c].tx = "none" /\ Fits(calls'[c])
  <2>1. Idle \in Call /\ Idle.pc = "idle" /\ Idle.tx = "none" /\ Fits(Idle)
    BY IdleFits DEF Fits
  <2> QED
    BY <1>1, <2>1
<1>5. DOMAIN jobs \subseteq JobIds
  BY <1>2, JobsDomain
<1>6. deaths' \in 0 .. MaxDeaths /\ deaths' > 0
  BY <1>1, <1>2 DEF TypeOK
<1>7. TypeOK'
  <2>1. chain' \in [JobIds -> [paid : Nat, adrift : Nat]]
    <3>1. \A j \in JobIds : chain'[j] \in [paid : Nat, adrift : Nat]
      BY <1>3
    <3>2. DOMAIN chain' = JobIds /\ chain' = [j \in JobIds |-> chain'[j]]
      BY <1>1
    <3> QED
      BY <3>1, <3>2
  <2>2. \A c \in Calls : \A k \in DOMAIN calls'[c].todo : calls'[c].todo[k] \in DOMAIN jobs'
    BY <1>1, <1>4 DEF Fits
  <2> QED
    BY <1>1, <1>2, <1>4, <1>6, <2>1, <2>2 DEF TypeOK, At
<1>8. (\A c \in Calls : Sound(calls'[c])) /\ MinedIsPaid' /\ ProcessingHasCall'
  BY <1>4, <1>6 DEF Fits, MinedIsPaid, ProcessingHasCall
<1>9. CompletedIsPaid'
  BY <1>1, <1>3, <1>5 DEF IInv, CompletedIsPaid
<1>10. Unborn'
  <2> SUFFICES ASSUME NEW j \in JobIds \ DOMAIN jobs
               PROVE  chain'[j].paid = 0 /\ chain'[j].adrift = 0
    BY <1>1 DEF Unborn
  <2>1. Cardinality(Adrift(j)) = 0
    BY AdriftCalls
  <2> QED
    BY <1>3, <2>1 DEF IInv, Unborn
<1>11. Undoubted'
  <2> SUFFICES ASSUME NEW j \in DOMAIN jobs, doubts[j] = {} PROVE Certain(j)'
    BY <1>1 DEF Undoubted
  <2>1. Certain(j) /\ j \in JobIds
    BY <1>5 DEF IInv, Undoubted
  <2>2. \A c \in Calls : ~Works(calls'[c], j)
    BY <1>4 DEF Works
  <2>3. CASE Adrift(j) = {}
    <3>1. chain'[j].paid = chain[j].paid /\ chain'[j].adrift = chain[j].adrift
      BY <1>3, <2>1, <2>3, AdriftCalls
    <3> QED
      BY <1>1, <2>1, <2>2, <3>1 DEF Certain
  <2>4. CASE Adrift(j) # {}
    <3>1. PICK c \in Adrift(j) : Works(calls[c], j)
      BY <2>4, AdriftCalls
    <3>2. /\ c \in Calls /\ calls[c].tx # "mined" /\ jobs[j].status = "processing"
          /\ chain[j].paid = 0 /\ chain[j].adrift = 0
          /\ \A d \in Calls : Works(calls[d], j) => d = c
      BY <2>1, <3>1 DEF Certain, Adrift
    <3>3. Adrift(j) = {c}
      <4>1. \A d \in Adrift(j) : d \in Calls /\ Works(calls[d], j)
        BY AdriftCalls DEF Adrift
      <4> QED
        BY <3>1, <3>2, <4>1
    <3>4. chain'[j].paid = 0 /\ chain'[j].adrift = 1
      BY <1>3, <2>1, <3>2, <3>3, AdriftCalls
    <3> QED
      BY <1>1, <2>2, <3>2, <3>4 DEF Certain
  <2> QED
    BY <2>3, <2>4
<1> QED
  BY <1>7, <1>8, <1>9, <1>10, <1>11 DEF IInv

-----------------------------------------------------------------------------
(* The theorems.                                                             *)

LEMMA NextIInv == IInv /\ [Next]_vars => IInv'
<1> SUFFICES ASSUME IInv, [Next]_vars PROVE IInv'
  OBVIOUS
<1>1. CASE EnqueuePayout
  BY <1>1, EnqueuePayoutStep
<1>2. ASSUME NEW c \in Calls, Begin(c) PROVE IInv'
  BY <1>2, BeginStep
<1>3. ASSUME NEW c \in Calls, Step(c) PROVE IInv'
  <2>1. CASE FindFailed(c) \/ Find(c)
    BY <2>1, ReadStep
  <2>2. CASE SavePending(c)
    BY <2>2, SavePendingStep
  <2>3. CASE SaveProcessing(c)
    BY <2>3, SaveProcessingStep
  <2>4. CASE SaveCancelled(c)
    BY <2>4, SaveCancelledStep
  <2>5. CASE Broadcast(c)
    BY <2>5, BroadcastStep
  <2>6. CASE NotSent(c) \/ Reverted(c)
    BY <2>6, AttemptStep
  <2>7. CASE Completed(c)
    BY <2>7, CompletedStep
  <2> QED
    BY <1>3, <2>1, <2>2, <2>3, <2>4, <2>5, <2>6, <2>7 DEF Step
<1>4. ASSUME NEW c \in Calls, Settle(c) PROVE IInv'
  BY <1>4, MineStep, BroadcastStep DEF Settle
<1>5. ASSUME NEW c \in Calls, AnswerLost(c) \/ ReceiptLost(c) PROVE IInv'
  BY <1>5, AttemptStep
<1>6. ASSUME NEW c \in Calls, DatabaseFails(c) PROVE IInv'
  BY <1>6, DatabaseFailsStep
<1>7. ASSUME NEW j \in JobIds, MineAdrift(j) \/ DropAdrift(j) PROVE IInv'
  BY <1>7, AdriftStep
<1>8. CASE Crash
  BY <1>8, CrashStep
<1>9. CASE UNCHANGED vars
  <2>1. UNCHANGED <<jobs, calls, chain, doubts, started, deaths>>
    BY <1>9 DEF vars
  <2>2. TypeOK' /\ (\A c \in Calls : Sound(calls'[c])) /\ MinedIsPaid' /\ CompletedIsPaid'
    BY <2>1 DEF IInv, TypeOK, At, MinedIsPaid, CompletedIsPaid, Current
  <2>3. Unborn' /\ ProcessingHasCall' /\ Undoubted'
    BY <2>1 DEF IInv, Unborn, ProcessingHasCall, Undoubted, Certain, At, Current
  <2> QED
    BY <2>2, <2>3 DEF IInv
<1> QED
  BY <1>1, <1>2, <1>3, <1>4, <1>5, <1>6, <1>7, <1>8, <1>9 DEF Next

LEMMA SpecIInv == Spec => []IInv
<1>1. Init => IInv
  BY InitIInv
<1>2. IInv /\ [Next]_vars => IInv'
  BY NextIInv
<1> QED
  BY <1>1, <1>2, PTL DEF Spec

\* The documents, the calls and the chain stay what the schema and the code say they are:
\* above all, no call ever works on a job that is not there.
THEOREM TypeCorrect == Spec => []TypeOK
<1>1. IInv => TypeOK
  BY DEF IInv
<1> QED
  BY <1>1, SpecIInv, PTL

\* However the calls of the queue are interleaved, retried, failed and crashed, a job is
\* recorded as completed only when a transaction of its own was mined.
THEOREM CompletedArePaid == Spec => []CompletedIsPaid
<1>1. IInv => CompletedIsPaid
  BY DEF IInv
<1> QED
  BY <1>1, SpecIInv, PTL

\* As long as no call has died, a job whose document says it is being processed is being
\* processed: only a failed query or a crash leaves one behind that nothing takes up.
THEOREM ProcessingIsHandled == Spec => []ProcessingHasCall
<1>1. IInv => ProcessingHasCall
  BY DEF IInv
<1> QED
  BY <1>1, SpecIInv, PTL

\* Whatever runs at the same time, the queue pays a job at most once, and no more than one
\* transaction of it can still be mined, unless a save was stale, the answer to a transaction
\* or its receipt was lost, or a job being processed was cancelled.
THEOREM PaidOnce == Spec => []PaidOnceUnlessInDoubt
<1>1. IInv => PaidOnceUnlessInDoubt
  BY DEF IInv, Undoubted, Certain, PaidOnceUnlessInDoubt
<1> QED
  BY <1>1, SpecIInv, PTL

\* With the same exceptions, a job that processJob would take up (again) is not paid yet.
THEOREM PayableUnpaid == Spec => []PayableIsUnpaid
<1>1. IInv => PayableIsUnpaid
  BY DEF IInv, Undoubted, Certain, PayableIsUnpaid
<1> QED
  BY <1>1, SpecIInv, PTL

===============================================================================
