----------------------------- MODULE EmailQueue -----------------------------
(***************************************************************************)
(* The mail queue of notifications/services/email.service.ts.  The mails   *)
(* are sent one after the other, each across an await; whoever calls       *)
(* queueEmail or clearQueue meanwhile changes the queue under the loop.    *)
(* Sending is storing a notification for every recipient, which the        *)
(* schema refuses: it requires a recipientAddress, a title and another     *)
(* type.  Only a mail without recipients is sent without an error.         *)
(***************************************************************************)
EXTENDS Integers, Sequences

CONSTANTS
    Priorities,      \* of 0 .. 2: high, normal, low
    Schedules,       \* scheduledFor, 0 for a mail that is to be sent at once
    maxRetries,
    MaxMails, MaxTime    \* bounds

VARIABLES
    queue,        \* ids, 0 for the undefined that shift() gives on an empty queue
    mails,        \* every mail queued, by id; "end" is a history of how it left
    isProcessing,
    sending,      \* the id of the item whose send is awaited, or 0
    crashed,      \* processQueue was rejected: nothing handles it, the process ends
    now

vars == <<queue, mails, isProcessing, sending, crashed, now>>

EmailQueueItem ==
    [priority : Priorities, scheduledFor : Schedules, recipients : {0, 1},
     retries : 0 .. maxRetries + MaxMails, end : {"queued", "sent", "failed", "cleared"}]

Init ==
    /\ queue = <<>> /\ mails = <<>> /\ isProcessing = FALSE /\ sending = 0
    /\ crashed = FALSE /\ now = 0

-----------------------------------------------------------------------------
\* The sequence q without the ids that are not in S.
Kept(q, S) ==
    LET kept[i \in 0 .. Len(q)] ==
          IF i = 0 THEN <<>>
          ELSE IF q[i] \in S THEN Append(kept[i - 1], q[i]) ELSE kept[i - 1]
    IN  kept[Len(q)]

\* sort is stable and puts the undefined ones last.
Sorted(q, ms) ==
    LET Of(p) == Kept(q, {id \in DOMAIN ms : ms[id].priority = p})
    IN  Of(0) \o Of(1) \o Of(2) \o Kept(q, {0})

\* The head of processQueue's loop: the item it goes on to send, if it does.
Loop(q, ms) ==
    IF q = <<>> \/ (q[1] # 0 /\ ms[q[1]].scheduledFor > now)
    THEN isProcessing' = FALSE /\ sending' = 0 /\ crashed' = FALSE
    ELSE isProcessing' = TRUE /\ sending' = q[1] /\ crashed' = (q[1] = 0)

\* Mutant: processing starts before the mail is in the queue.
StartedTooEarly(p, at, to) ==
    LET ms == Append(mails, [priority |-> p, scheduledFor |-> at, recipients |-> to,
                             retries |-> 0, end |-> "queued"])
    IN  /\ mails' = ms
        /\ queue' = Sorted(Append(queue, Len(ms)), ms)
        /\ IF isProcessing THEN UNCHANGED <<isProcessing, sending, crashed>>
                           ELSE Loop(queue, ms)
Queued(p, at, to) ==
    LET ms == Append(mails, [priority |-> p, scheduledFor |-> at, recipients |-> to,
                             retries |-> 0, end |-> "queued"])
        q == Sorted(Append(queue, Len(ms)), ms)
    IN  /\ mails' = ms /\ queue' = q
        /\ IF isProcessing THEN UNCHANGED <<isProcessing, sending, crashed>>
                           ELSE Loop(q, ms)
QueueEmail(p, at, to) ==
    ~crashed /\ Len(mails) < MaxMails /\ Queued(p, at, to) /\ UNCHANGED now

\* this.queue.shift(), which need not be the mail that was sent.
Rest(q) == IF q = <<>> THEN <<>> ELSE Tail(q)
Leaves(q, ms, how) ==
    IF q = <<>> \/ q[1] = 0 THEN ms ELSE [ms EXCEPT ![q[1]].end = how]

\* The end of the loop's try: the send was fulfilled or rejected.
Sent ==
    /\ ~crashed /\ sending # 0 /\ mails[sending].recipients = 0
    /\ queue' = Rest(queue) /\ mails' = Leaves(queue, mails, "sent")
    /\ sending' = 0 /\ UNCHANGED <<isProcessing, crashed, now>>
SendFailed ==
    /\ ~crashed /\ sending # 0 /\ mails[sending].recipients # 0
    /\ LET ms == [mails EXCEPT ![sending].retries = @ + 1]
       IN  IF ms[sending].retries >= maxRetries
           THEN queue' = Rest(queue) /\ mails' = Leaves(queue, ms, "failed")
           ELSE /\ queue' = Append(Rest(queue), IF queue = <<>> THEN 0 ELSE queue[1])
                /\ mails' = ms
    /\ sending' = 0 /\ UNCHANGED <<isProcessing, crashed, now>>

\* After the 100 ms between two mails.
NextMail ==
    /\ ~crashed /\ isProcessing /\ sending = 0
    /\ Loop(queue, mails)
    /\ UNCHANGED <<queue, mails, now>>

ClearQueue ==
    /\ ~crashed /\ queue # <<>>
    /\ queue' = <<>>
    /\ mails' = [id \in DOMAIN mails |->
                   IF mails[id].end = "queued" THEN [mails[id] EXCEPT !.end = "cleared"]
                   ELSE mails[id]]
    /\ UNCHANGED <<isProcessing, sending, crashed, now>>

\* new Date(), up to the bound.
Tick == ~crashed /\ now < MaxTime /\ now' = now + 1
        /\ UNCHANGED <<queue, mails, isProcessing, sending, crashed>>

Next ==
    \/ \E p \in Priorities, at \in Schedules, to \in {0, 1} : QueueEmail(p, at, to)
    \/ Sent \/ SendFailed \/ NextMail \/ ClearQueue \/ Tick

Spec == Init /\ [][Next]_vars

-----------------------------------------------------------------------------
TypeOK ==
    /\ queue \in Seq(0 .. MaxMails)
    /\ mails \in Seq(EmailQueueItem)
    /\ isProcessing \in BOOLEAN /\ crashed \in BOOLEAN
    /\ sending \in 0 .. MaxMails
    /\ now \in 0 .. MaxTime

\* "Max retries reached for email <id>", "Remove from queue": a mail is given up only
\* when its own retries are used up.
GivenUpAfterRetries ==
    \A id \in DOMAIN mails : mails[id].end = "failed" => mails[id].retries >= maxRetries

\* Nothing restarts the queue but queueEmail, so it must not rest before a mail that
\* could be sent: whatever was queued, moved or cleared in between, when the loop is
\* not running the head is a mail that was scheduled for later.
RestsBeforeScheduled ==
    ~isProcessing /\ queue # <<>> => queue[1] # 0 /\ mails[queue[1]].scheduledFor > 0

=============================================================================
