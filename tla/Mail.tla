-------------------------------- MODULE Mail --------------------------------
(***************************************************************************)
(* The SMTP service, common/services/mail.service.ts: a connection that is *)
(* verified and retried by a timer, and a queue of the mails that were     *)
(* asked for while there was none.  A mail is the promise its caller has.  *)
(***************************************************************************)
EXTENDS Integers, Sequences, FiniteSets

CONSTANTS
    maxReconnectAttempts,
    MaxMails, MaxVerifies      \* bounds

VARIABLES
    credentials,        \* config.auth has a user and a password
    transporter,        \* there is one
    isConnected,
    reconnectAttempts,
    timer,              \* a reconnection is due
    verifying,          \* verify() calls awaited, by who called
    mailQueue,          \* ids of mails
    loop,               \* processMailQueue: what it awaits, and for which mail
    sending,            \* mails handed to the transporter by their caller
    mails,              \* what became of the promise of every mail
    verifies            \* verify() calls so far, bounded

vars == <<credentials, transporter, isConnected, reconnectAttempts, timer, verifying,
          mailQueue, loop, sending, mails, verifies>>
connection == <<credentials, transporter, isConnected, reconnectAttempts, timer,
                verifying, verifies>>

Callers == {"reconnect", "test", "config"}
Idle == [at |-> "idle", mail |-> 0]

\* onModuleInit, as far as the first verify() or the first reconnection timer.
Init ==
    /\ credentials \in BOOLEAN /\ transporter = credentials /\ isConnected = FALSE
    /\ reconnectAttempts = (IF credentials THEN 0 ELSE 1) /\ timer = ~credentials
    /\ verifying = (IF credentials THEN {"reconnect"} ELSE {})
    /\ mailQueue = <<>> /\ loop = Idle /\ sending = {} /\ mails = <<>>
    /\ verifies = Cardinality(verifying)

-----------------------------------------------------------------------------
Usable == isConnected /\ transporter

\* The loop of processMailQueue from its test on.  A mail whose transporter is gone is
\* queued again by sendMail, and the loop waits for a promise only it could settle.
Continue(q, connected) ==
    IF q = <<>> \/ ~connected
    THEN loop' = Idle /\ mailQueue' = q
    ELSE /\ loop' = [at |-> IF transporter THEN "sending" ELSE "requeued", mail |-> q[1]]
         /\ mailQueue' = IF transporter THEN Tail(q) ELSE Append(Tail(q), q[1])

\* scheduleReconnect.
ScheduleReconnect ==
    IF reconnectAttempts >= maxReconnectAttempts
    THEN UNCHANGED <<reconnectAttempts, timer>>
    ELSE reconnectAttempts' = reconnectAttempts + 1 /\ timer' = TRUE

\* verifyConnection: without a transporter it throws before isConnected is touched.
Verify(who, has) ==
    /\ transporter' = has /\ UNCHANGED <<isConnected, mailQueue, loop, sending, mails>>
    /\ IF has
       THEN /\ verifies < MaxVerifies /\ verifies' = verifies + 1
            /\ who \notin verifying /\ verifying' = verifying \cup {who}
            /\ UNCHANGED reconnectAttempts
       ELSE UNCHANGED <<verifying, verifies>>

\* The timer's callback: initializeTransporter, then verifyConnection.
Reconnect ==
    /\ timer
    /\ Verify("reconnect", transporter \/ credentials)
    /\ IF transporter' THEN timer' = FALSE
       ELSE timer' = (reconnectAttempts < maxReconnectAttempts)
            /\ reconnectAttempts' = reconnectAttempts + (IF timer' THEN 1 ELSE 0)
    /\ UNCHANGED credentials
TestConnection ==
    /\ transporter /\ Verify("test", transporter)
    /\ UNCHANGED <<credentials, timer>>
UpdateConfig(c) ==
    /\ credentials' = c
    /\ Verify("config", c)
    /\ UNCHANGED <<timer>> /\ (~c => UNCHANGED reconnectAttempts)

\* verify() succeeds: the queue is processed, unless it is being processed.
Verified(who) ==
    /\ who \in verifying /\ verifying' = verifying \ {who}
    /\ isConnected' = TRUE /\ reconnectAttempts' = 0
    /\ IF loop # Idle \/ mailQueue = <<>> THEN UNCHANGED <<loop, mailQueue>>
       ELSE Continue(mailQueue, TRUE)
    /\ UNCHANGED <<credentials, transporter, timer, sending, mails, verifies>>
\* It fails: only the reconnection timer tries again.
VerifyFailed(who) ==
    /\ who \in verifying /\ verifying' = verifying \ {who}
    /\ isConnected' = FALSE
    /\ IF who = "reconnect" THEN ScheduleReconnect
                            ELSE UNCHANGED <<reconnectAttempts, timer>>
    /\ UNCHANGED <<credentials, transporter, mailQueue, loop, sending, mails, verifies>>

\* sendMail and queueMail.
SendMail ==
    /\ Len(mails) < MaxMails
    /\ mails' = Append(mails, "waiting")
    /\ IF Usable THEN sending' = sending \cup {Len(mails')} /\ UNCHANGED mailQueue
                 ELSE mailQueue' = Append(mailQueue, Len(mails')) /\ UNCHANGED sending
    /\ UNCHANGED <<connection, loop>>

\* The transporter's answer, to the caller or to the loop, which then waits 100 ms.
Answer(id, how) ==
    /\ id \in sending /\ sending' = sending \ {id}
    /\ mails' = [mails EXCEPT ![id] = how]
    /\ UNCHANGED <<connection, mailQueue, loop>>
LoopAnswer(how) ==
    /\ loop.at = "sending"
    /\ mails' = [mails EXCEPT ![loop.mail] = how]
    /\ loop' = [at |-> "delay", mail |-> 0]
    /\ UNCHANGED <<connection, mailQueue, sending>>
LoopContinues ==
    /\ loop.at = "delay" /\ Continue(mailQueue, isConnected)
    /\ UNCHANGED <<connection, sending, mails>>

\* clearQueue rejects what is queued, also the mail the loop waits for.
ClearQueue ==
    /\ mailQueue # <<>> /\ mailQueue' = <<>>
    /\ mails' = [id \in DOMAIN mails |->
                   IF \E i \in DOMAIN mailQueue : mailQueue[i] = id THEN "rejected" ELSE mails[id]]
    /\ loop' = IF loop.at = "requeued" THEN [at |-> "delay", mail |-> 0] ELSE loop
    /\ UNCHANGED <<connection, sending>>

\* onModuleDestroy: the timer is cleared, what is awaited goes on.
Destroy ==
    /\ timer' = FALSE /\ transporter' = FALSE
    /\ UNCHANGED <<credentials, isConnected, reconnectAttempts, verifying, verifies,
                   mailQueue, loop, sending, mails>>

Next ==
    \/ Destroy \/ Reconnect \/ TestConnection \/ \E c \in BOOLEAN : UpdateConfig(c)
    \/ \E who \in Callers : Verified(who) \/ VerifyFailed(who)
    \/ SendMail \/ LoopContinues \/ ClearQueue
    \/ \E how \in {"resolved", "rejected"} :
         LoopAnswer(how) \/ \E id \in sending : Answer(id, how)

Spec == Init /\ [][Next]_vars

-----------------------------------------------------------------------------
TypeOK ==
    /\ {credentials, transporter, isConnected, timer} \subseteq BOOLEAN
    /\ reconnectAttempts \in 0 .. maxReconnectAttempts
    /\ verifying \subseteq Callers /\ verifies \in 0 .. MaxVerifies
    /\ mailQueue \in Seq(1 .. MaxMails)
    /\ loop \in [at : {"idle", "sending", "requeued", "delay"}, mail : 0 .. MaxMails]
    /\ sending \subseteq DOMAIN mails
    /\ mails \in Seq({"waiting", "resolved", "rejected"})

\* Whatever the connection does, every mail whose caller still waits has a place from
\* which it can be settled, the queue, the loop or the transporter, and no mail is in
\* two of them, so none is sent twice.
EveryMailHasAPlace ==
    LET queued == {mailQueue[i] : i \in DOMAIN mailQueue}
        held == IF loop.at = "sending" THEN {loop.mail} ELSE {}
    IN  /\ queued \cup held \cup sending = {id \in DOMAIN mails : mails[id] = "waiting"}
        /\ Cardinality(queued) = Len(mailQueue)
        /\ queued \cap (held \cup sending) = {} /\ held \cap sending = {}

=============================================================================
