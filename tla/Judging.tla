------------------------------- MODULE Judging -------------------------------
(***************************************************************************)
(* Judging one event: its judges (events/events.service.ts), the projects  *)
(* submitted to it (submissions/submissions.service.ts), the scores, and   *)
(* the payout jobs enqueued when a submission is marked as a winner        *)
(* (judging/judging.service.ts).                                           *)
(*                                                                         *)
(* As in PayoutJobs, a request is a call that is suspended at every await. *)
(* Mongoose's save() writes the fields the call has changed on its copy; a *)
(* document whose array was replaced is saved only if no array of it was   *)
(* replaced since it was read (its version), else the call fails.          *)
(***************************************************************************)
EXTENDS Integers, FiniteSets, Sequences, SequencesExt

CONSTANTS
    Calls,              \* the requests that may be handled at the same time
    Accounts,           \* addresses
    Host,               \* event.host
    InitialJudges,      \* event.judges as the event was created
    InitialSubmissions, \* the participants who have submitted, in this order
    Participants,       \* who may submit now
    JudgeLists,         \* the lists of judges the host's requests may name
    Scores,             \* the scores a judge may give
    GivenVerdicts,      \* the status and score, or none, that a request may give
    Rewards,            \* the values of rewardAmount
    MaxSubmissions, MaxStarts, MaxDeaths  \* bounds: documents, calls, calls that die

VARIABLES
    event,         \* the event's document
    submissions,   \* the submissions' documents, in the order of their creation
    judgeScores,   \* the service's map, in memory
    jobs,          \* the payout jobs enqueued
    calls,         \* the running calls
    overlapped,    \* submissions one judge scored in two calls at once (history)
    started, deaths   \* how many calls have begun and died, for the bounds

vars == <<event, submissions, judgeScores, jobs, calls, overlapped, started, deaths>>

SubmissionStatus == {"submitted", "accepted", "rejected", "winner"}
Verdicts == SubmissionStatus \ {"submitted"}
NoScore == -1
SubmissionIds == 1 .. MaxSubmissions
Judged == [status : SubmissionStatus, score : Scores \cup {NoScore}]
Submission == [participant : Accounts, status : SubmissionStatus, score : Scores \cup {NoScore}]
Event == [exists : BOOLEAN, judges : SUBSET Accounts, version : Nat, rewardAmount : Rewards]
Job == [winners : SUBSET SubmissionIds, amount : Nat]

Call ==
    [pc : {"idle", "create", "checkDuplicate", "insert",
           "isJudge", "isHost", "findSubmission", "findToUpdate", "saveStatus",
           "getWinners", "findReward", "enqueue",
           "findEvent", "saveEvent", "deleteEvent"},
     account : Accounts, sub : SubmissionIds \cup {0}, verdict : Judged,
     isJudge : BOOLEAN,
     copy : Judged \cup Event,            \* the document the call has read
     edit : {"invite", "remove", "update", "delete"},
     judges : SUBSET Accounts,            \* the judges the request names
     rewardAmount : SUBSET Rewards,       \* the one it gives or has read, or none
     winners : SUBSET SubmissionIds]

ASSUME AccountsAssumption ==
    /\ IsFiniteSet(Calls) /\ IsFiniteSet(Accounts)
    /\ Host \in Accounts /\ Participants \subseteq Accounts
    /\ InitialJudges \subseteq Accounts /\ JudgeLists \subseteq SUBSET Accounts
    /\ InitialSubmissions \in Seq(Accounts) /\ Len(InitialSubmissions) <= MaxSubmissions
ASSUME BoundsAssumption ==
    /\ Scores \subseteq 0 .. 100 /\ Rewards \subseteq Nat
    /\ GivenVerdicts \subseteq [status : Verdicts, score : Scores \cup {NoScore}]
    /\ {MaxSubmissions, MaxStarts, MaxDeaths} \subseteq Nat

NoVerdict == [status |-> "submitted", score |-> NoScore]
Idle ==
    [pc |-> "idle", account |-> Host, sub |-> 0, verdict |-> NoVerdict, isJudge |-> FALSE,
     copy |-> NoVerdict, edit |-> "update", judges |-> {}, rewardAmount |-> {},
     winners |-> {}]

NewSubmission(participant) ==
    [participant |-> participant, status |-> "submitted", score |-> NoScore]

Init ==
    /\ event \in {[exists |-> TRUE, judges |-> InitialJudges, version |-> 0,
                   rewardAmount |-> amount] : amount \in Rewards}
    /\ submissions = [k \in DOMAIN InitialSubmissions |-> NewSubmission(InitialSubmissions[k])]
    /\ judgeScores = [s \in SubmissionIds |-> [a \in Accounts |-> NoScore]]
    /\ jobs = <<>>
    /\ calls = [c \in Calls |-> Idle]
    /\ overlapped = {}
    /\ started = 0 /\ deaths = 0

-----------------------------------------------------------------------------
At(c, pc) == calls[c].pc = pc
AnyAt(pc) == {c \in Calls : At(c, pc)}

\* The call goes on to another await, with what it keeps, or it ends.
Continue(c, call) == calls' = [calls EXCEPT ![c] = call]
GoTo(c, pc) == Continue(c, [calls[c] EXCEPT !.pc = pc])
End(c) == Continue(c, Idle)

OnlyCalls == UNCHANGED <<event, submissions, judgeScores, jobs, overlapped, started, deaths>>

Start(c, call) ==
    /\ At(c, "idle")
    /\ started < MaxStarts
    /\ started' = started + 1
    /\ Continue(c, call)
    /\ UNCHANGED <<event, submissions, judgeScores, jobs, overlapped, deaths>>

\* eventsService.findById throws when the event is gone.
FindEvent(c, found) == IF event.exists THEN found ELSE End(c)

-----------------------------------------------------------------------------
(* submissions.create.  Whether the event is running is not modelled: a      *)
(* request outside its dates changes nothing.                                *)

Creating == UNION {AnyAt(pc) : pc \in {"create", "checkDuplicate", "insert"}}

Create(c, participant) ==
    /\ Len(submissions) + Cardinality(Creating) < MaxSubmissions
    /\ Start(c, [Idle EXCEPT !.pc = "create", !.account = participant])

CreateFindsEvent(c) ==
    /\ At(c, "create")
    /\ FindEvent(c, GoTo(c, "checkDuplicate"))
    /\ OnlyCalls

HasSubmitted(participant) ==
    \E s \in DOMAIN submissions : submissions[s].participant = participant

CheckDuplicate(c) ==
    /\ At(c, "checkDuplicate")
    /\ IF HasSubmitted(calls[c].account) THEN End(c) ELSE GoTo(c, "insert")
    /\ OnlyCalls

Insert(c) ==
    /\ At(c, "insert")
    /\ submissions' = Append(submissions, NewSubmission(calls[c].account))
    /\ End(c)
    /\ UNCHANGED <<event, judgeScores, jobs, overlapped, started, deaths>>

-----------------------------------------------------------------------------
(* scoreSubmission, up to the verdict in the submission's document.          *)

ScoreSubmission(c, account, s, verdict) ==
    Start(c, [Idle EXCEPT !.pc = "isJudge", !.account = account, !.sub = s,
                          !.verdict = verdict])

IsJudge(c) ==
    /\ At(c, "isJudge")
    /\ FindEvent(c, Continue(c, [calls[c] EXCEPT
           !.pc = "isHost", !.isJudge = calls[c].account \in event.judges]))
    /\ OnlyCalls

IsHost(c) ==
    /\ At(c, "isHost")
    /\ IF calls[c].isJudge \/ calls[c].account = Host
       THEN FindEvent(c, GoTo(c, "findSubmission"))
       ELSE End(c)
    /\ OnlyCalls

\* Another call of the same judge is still to save a score of this submission.
ScoresAtOnce(c) ==
    \E d \in Calls \ {c} :
        /\ calls[d].pc \in {"findToUpdate", "saveStatus"}
        /\ calls[d].account = calls[c].account /\ calls[d].sub = calls[c].sub
        /\ calls[d].verdict.score # NoScore

\* Mutant: the first score of a judge stays.
RecordFirst(scores, account, score) ==
    [scores EXCEPT ![account] = IF @ = NoScore THEN score ELSE @]
\* Mutant: a judge's scores add up.
RecordSum(scores, account, score) ==
    [scores EXCEPT ![account] = IF score = NoScore THEN @ ELSE IF @ = NoScore THEN score ELSE @ + score]
RecordJudgeScore(scores, account, score) ==
    [scores EXCEPT ![account] = IF score = NoScore THEN @ ELSE score]

\* The submission is found (none is ever deleted); the score is recorded before
\* the document is.
FindSubmission(c) ==
    LET s == calls[c].sub
        score == calls[c].verdict.score
    IN /\ At(c, "findSubmission")
       /\ judgeScores' = [judgeScores EXCEPT ![s] = RecordJudgeScore(@, calls[c].account, score)]
       /\ overlapped' = overlapped \cup
            IF score # NoScore /\ ScoresAtOnce(c) THEN {s} ELSE {}
       /\ GoTo(c, "findToUpdate")
       /\ UNCHANGED <<event, submissions, jobs, started, deaths>>

FindToUpdate(c) ==
    LET s == calls[c].sub
    IN /\ At(c, "findToUpdate")
       /\ Continue(c, [calls[c] EXCEPT !.pc = "saveStatus",
              !.copy = [status |-> submissions[s].status, score |-> submissions[s].score]])
       /\ OnlyCalls

\* A field set to the value the copy had is not written.
Written(current, copied, new) == IF new = copied THEN current ELSE new
Updated(submission, copy, verdict) ==
    [submission EXCEPT
        !.status = Written(@, copy.status, verdict.status),
        !.score = IF verdict.score = NoScore THEN @ ELSE Written(@, copy.score, verdict.score)]

SaveStatus(c) ==
    LET call == calls[c]
    IN /\ At(c, "saveStatus")
       /\ submissions' = [submissions EXCEPT ![call.sub] = Updated(@, call.copy, call.verdict)]
       /\ Continue(c, IF call.verdict.status = "winner"
                      THEN [call EXCEPT !.pc = "getWinners", !.copy = NoVerdict]
                      ELSE Idle)
       /\ UNCHANGED <<event, judgeScores, jobs, overlapped, started, deaths>>

-----------------------------------------------------------------------------
(* enqueuePayoutForWinner: a job for everybody who is a winner by now.       *)

Winners == {s \in DOMAIN submissions : submissions[s].status = "winner"}

GetWinners(c) ==
    /\ At(c, "getWinners")
    /\ Continue(c, IF Winners = {} THEN Idle
                   ELSE [calls[c] EXCEPT !.pc = "findReward", !.winners = Winners])
    /\ OnlyCalls

FindReward(c) ==
    /\ At(c, "findReward")
    /\ FindEvent(c, Continue(c, [calls[c] EXCEPT
           !.pc = "enqueue", !.rewardAmount = {event.rewardAmount}]))
    /\ OnlyCalls

AmountPerWinner(totalAmount, winners) == totalAmount \div Cardinality(winners)

\* Mutant: an event that has a job gets no other.
EnqueuedOnce(winners, amount) ==
    IF jobs = <<>> THEN <<[winners |-> winners, amount |-> amount]>> ELSE jobs
Enqueued(winners, amount) == Append(jobs, [winners |-> winners, amount |-> amount])

Enqueue(c) ==
    LET winners == calls[c].winners
        totalAmount == CHOOSE amount \in calls[c].rewardAmount : TRUE
    IN /\ At(c, "enqueue")
       /\ jobs' = Enqueued(winners, AmountPerWinner(totalAmount, winners))
       /\ End(c)
       /\ UNCHANGED <<event, submissions, judgeScores, overlapped, started, deaths>>

-----------------------------------------------------------------------------
(* The host's requests about the event.  An update need not name judges; the *)
(* lists that are named are never empty.                                     *)

Request(edit) == [Idle EXCEPT !.pc = "findEvent", !.edit = edit]

InviteJudges(c, judges) == Start(c, [Request("invite") EXCEPT !.judges = judges])
RemoveJudge(c, judge) == Start(c, [Request("remove") EXCEPT !.judges = {judge}])
Update(c, judges, amount) ==
    Start(c, [Request("update") EXCEPT !.judges = judges, !.rewardAmount = amount])
Delete(c) == Start(c, Request("delete"))

Edited(judges, call) ==
    CASE call.edit = "invite" -> judges \cup call.judges
      [] call.edit = "remove" -> judges \ call.judges
      [] OTHER                -> IF call.judges = {} THEN judges ELSE call.judges

\* An invitation or a removal that changes nothing is not saved.
FindToEdit(c) ==
    /\ At(c, "findEvent")
    /\ FindEvent(c,
         CASE calls[c].edit = "delete" -> GoTo(c, "deleteEvent")
           [] calls[c].edit # "delete" /\ calls[c].edit # "update"
              /\ Edited(event.judges, calls[c]) = event.judges -> End(c)
           [] OTHER -> Continue(c, [calls[c] EXCEPT !.pc = "saveEvent", !.copy = event]))
    /\ OnlyCalls

\* Mutant: the list of judges is written whatever has become of it.
AnyVersion(version, copied) == TRUE
SameVersion(version, copied) == version = copied

SavedEvent(call) ==
    LET judges == Edited(call.copy.judges, call)
        newList == judges # call.copy.judges
    IN IF event.exists /\ (newList => SameVersion(event.version, call.copy.version))
       THEN [event EXCEPT
               !.judges = IF newList THEN judges ELSE @,
               !.version = IF newList THEN @ + 1 ELSE @,
               !.rewardAmount = IF call.rewardAmount \in {{}, {call.copy.rewardAmount}} THEN @
                                ELSE CHOOSE amount \in call.rewardAmount : TRUE]
       ELSE event

SaveEvent(c) ==
    /\ At(c, "saveEvent")
    /\ event' = SavedEvent(calls[c])
    /\ End(c)
    /\ UNCHANGED <<submissions, judgeScores, jobs, overlapped, started, deaths>>

DeleteEvent(c) ==
    /\ At(c, "deleteEvent")
    /\ event' = [event EXCEPT !.exists = FALSE]
    /\ End(c)
    /\ UNCHANGED <<submissions, judgeScores, jobs, overlapped, started, deaths>>

-----------------------------------------------------------------------------
(* Failures.                                                                 *)

\* A query or a save rejects.
DatabaseFails(c) ==
    /\ ~At(c, "idle")
    /\ deaths < MaxDeaths
    /\ deaths' = deaths + 1
    /\ End(c)
    /\ UNCHANGED <<event, submissions, judgeScores, jobs, overlapped, started>>

\* The process stops and is started again, without the scores in memory.
Crash ==
    /\ deaths < MaxDeaths
    /\ deaths' = deaths + 1
    /\ calls' = [c \in Calls |-> Idle]
    /\ judgeScores' = [s \in SubmissionIds |-> [a \in Accounts |-> NoScore]]
    /\ UNCHANGED <<event, submissions, jobs, overlapped, started>>

-----------------------------------------------------------------------------
Begin(c) ==
    \/ \E p \in Participants : Create(c, p)
    \/ \E a \in Accounts, s \in DOMAIN submissions, verdict \in GivenVerdicts :
          ScoreSubmission(c, a, s, verdict)
    \/ \E list \in JudgeLists : InviteJudges(c, list)
    \/ \E list \in JudgeLists : \E judge \in list : RemoveJudge(c, judge)
    \/ \E list \in JudgeLists \cup {{}}, amount \in {{}} \cup {{r} : r \in Rewards} :
          Update(c, list, amount)
    \/ Delete(c)

Step(c) ==
    \/ CreateFindsEvent(c) \/ CheckDuplicate(c) \/ Insert(c)
    \/ IsJudge(c) \/ IsHost(c) \/ FindSubmission(c) \/ FindToUpdate(c) \/ SaveStatus(c)
    \/ GetWinners(c) \/ FindReward(c) \/ Enqueue(c)
    \/ FindToEdit(c) \/ SaveEvent(c) \/ DeleteEvent(c)

Next == Crash \/ \E c \in Calls : Begin(c) \/ Step(c) \/ DatabaseFails(c)

Spec == Init /\ [][Next]_vars

-----------------------------------------------------------------------------
\* Every variable keeps its type: a judge's score is one somebody gave.
TypeOK ==
    /\ event \in Event
    /\ submissions \in Seq(Submission) /\ Len(submissions) <= MaxSubmissions
    /\ judgeScores \in [SubmissionIds -> [Accounts -> Scores \cup {NoScore}]]
    /\ jobs \in Seq(Job)
    /\ calls \in [Calls -> Call]
    /\ overlapped \subseteq SubmissionIds
    /\ started \in 0 .. MaxStarts /\ deaths \in 0 .. MaxDeaths

\* A verdict on s that has been saved, and what follows it has not been done.
IsEnqueuing(s) ==
    \E c \in Calls : calls[c].sub = s /\ calls[c].pc \in {"getWinners", "findReward", "enqueue"}

\* While the event exists and no call fails, a submission that is a winner, and
\* whose verdict is not being handled, is paid by some job: no interleaving of
\* verdicts leaves a winner out of every list getWinners returns
\* (judging.service.ts:145-158).
WinnerIsEnqueued ==
    \A s \in Winners :
        event.exists /\ deaths = 0 /\ ~IsEnqueuing(s) => \E n \in DOMAIN jobs : s \in jobs[n].winners

IsSaving(s) ==
    \E c \in Calls : calls[c].sub = s /\ calls[c].pc \in {"findToUpdate", "saveStatus"}

\* The score in a submission's document is the latest score of one of its judges,
\* however the calls that record scores in memory and then in the document
\* interleave, unless one judge scores it in two calls at once or a call fails
\* (judging.service.ts:135-149).
ScoreIsSomeJudges ==
    \A s \in DOMAIN submissions \ overlapped :
        deaths = 0 /\ ~IsSaving(s) /\ submissions[s].score # NoScore =>
            \E a \in Accounts : judgeScores[s][a] = submissions[s].score

EndsSave(c, edits) == At(c, "saveEvent") /\ calls[c].edit \in edits /\ calls'[c] = Idle

\* An account becomes a judge only by a request that names it and stops being one
\* only by a request that removes it or lists the judges without it: two requests
\* of the host that edit the same list never undo each other
\* (events.service.ts:97-103, 168-169, 197-206).
JudgesChangeAsAsked ==
    [][/\ \A a \in event'.judges \ event.judges :
             \E c \in Calls : EndsSave(c, {"invite", "update"}) /\ a \in calls[c].judges
       /\ \A a \in event.judges \ event'.judges :
             \E c \in Calls :
                \/ EndsSave(c, {"remove"}) /\ a \in calls[c].judges
                \/ EndsSave(c, {"update"}) /\ a \notin calls[c].judges]_vars

Due(s) ==
    LET Share(n) == IF s \in jobs[n].winners THEN jobs[n].amount ELSE 0
    IN FoldLeft(+, 0, [n \in DOMAIN jobs |-> Share(n)])

\* When no verdict is being handled, the jobs enqueued pay every winner the same:
\* "Calculate amount per winner (equal distribution for MVP)"
\* (judging.service.ts:178).  Refuted.
EqualDistribution ==
    (\A c \in Calls : At(c, "idle")) => \A s, t \in Winners : Due(s) = Due(t)

\* A participant submits to an event at most once: "You have already submitted to
\* this event" (submissions.service.ts:156).  Refuted.
OneSubmissionEach ==
    \A s, t \in DOMAIN submissions :
        submissions[s].participant = submissions[t].participant => s = t
=============================================================================
