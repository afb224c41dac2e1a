---------------------------- MODULE Submissions ----------------------------
(***************************************************************************)
(* Who sees which submissions of one event, and what is counted of them    *)
(* (submissions/submissions.service.ts).  findByEvent asks for the event   *)
(* up to three times before its query; judges, statuses and submissions    *)
(* change in between.  How a verdict comes about is left to module Judging.*)
(*                                                                         *)
(* SubmissionStatus has no PENDING and no APPROVED, so the participant's   *)
(* update and delete, which ask for PENDING, are refused.                  *)
(***************************************************************************)
EXTENDS Integers, Sequences, FiniteSets, FiniteSetsExt

CONSTANTS
    Calls, Scores,                    \* requests handled at once
    limit,                            \* of getTopSubmissions
    MaxSubmissions, MaxChanges        \* bounds

VARIABLES
    exists, judge,    \* the event's document, and whether the caller is one of its judges
    submissions,      \* in the order of createdAt: [status, score]
    calls,            \* [op, caller, step, seen]; caller of findByEvent is "nobody" if unknown
    began,            \* history: submissions there were when each call came
    winners,          \* history: submissions that were winners at some time since then
    judged,           \* history: whether the caller was a judge always, and ever, since then
    changes

vars == <<exists, judge, submissions, calls, began, winners, judged, changes>>

SubmissionStatus == {"submitted", "accepted", "rejected", "winner"}
PENDING == "undefined"
NoScore == -1
Callers == {"nobody", "host", "other"}
Ops == {"findByEvent", "update", "delete"}

findByEventAndStatus(status) == {n \in DOMAIN submissions : submissions[n].status = status}
getWinners == findByEventAndStatus("winner")

Init ==
    /\ exists = TRUE /\ judge \in BOOLEAN /\ submissions = <<>> /\ changes = 0
    /\ calls = [c \in Calls |-> [op |-> "update", caller |-> "nobody", step |-> "new", seen |-> {}]]
    /\ began = [c \in Calls |-> {}] /\ winners = [c \in Calls |-> {}]
    /\ judged = [c \in Calls |-> {}]

-----------------------------------------------------------------------------
Goto(c, step) == calls' = [calls EXCEPT ![c].step = step]
Document == <<exists, judge, submissions>>
History == <<began, winners, judged, changes>>

Request(c, op, caller) ==
    /\ calls[c].step = "new"
    /\ calls' = [calls EXCEPT ![c].op = op, ![c].caller = caller, ![c].step = "findById"]
    /\ began' = [began EXCEPT ![c] = DOMAIN submissions]
    /\ winners' = [winners EXCEPT ![c] = getWinners]
    /\ judged' = [judged EXCEPT ![c] = {judge}]
    /\ UNCHANGED <<Document, changes>>

\* EventsService.findById, of findByEvent, of isHost and of isJudge.
findById(c, step, next) ==
    /\ calls[c].op = "findByEvent" /\ calls[c].step = step
    /\ Goto(c, IF exists THEN next ELSE "notFound")
    /\ UNCHANGED <<Document, History>>
VerifyEvent(c) == findById(c, "findById", IF calls[c].caller = "nobody" THEN "winners" ELSE "isHost")
isHost(c) == findById(c, "isHost", IF calls[c].caller = "host" THEN "all" ELSE "isJudge")
isJudge(c) == findById(c, "isJudge", IF judge THEN "all" ELSE "winners")

\* Its query, with the filter it has come to.
findByEvent(c) ==
    /\ calls[c].step \in {"all", "winners"}
    /\ calls' = [calls EXCEPT ![c].step = "done",
                              ![c].seen = IF calls[c].step = "all" THEN DOMAIN submissions ELSE getWinners]
    /\ UNCHANGED <<Document, History>>

\* Of a participant's own submission.
MayChange(status) == status = PENDING
update(c) == calls[c].op = "update" /\ \E n \in DOMAIN submissions :
                 Goto(c, IF MayChange(submissions[n].status) THEN "save" ELSE "refused")
delete(c) == calls[c].op = "delete" /\ \E n \in DOMAIN submissions :
                 Goto(c, IF MayChange(submissions[n].status) THEN "deleteOne" ELSE "refused")
ChangeOwn(c) ==
    /\ calls[c].step = "findById" /\ (update(c) \/ delete(c))
    /\ UNCHANGED <<Document, History>>

Change == changes < MaxChanges /\ changes' = changes + 1 /\ UNCHANGED <<calls, began>>
Recorded == winners' = [c \in Calls |-> winners[c] \cup getWinners']

create ==
    /\ Change /\ Len(submissions) < MaxSubmissions
    /\ submissions' = Append(submissions, [status |-> "submitted", score |-> NoScore])
    /\ UNCHANGED <<exists, judge, winners, judged>>

\* A save of updateStatus, or all of bulkUpdateStatus; both keep the score if given none.
Updated(n, status, score) ==
    [status |-> status, score |-> IF score = NoScore THEN submissions[n].score ELSE score]
bulkUpdateStatus(ns, status, score) ==
    /\ Change /\ ns # {}
    /\ submissions' = [n \in DOMAIN submissions |->
                         IF n \in ns THEN Updated(n, status, score) ELSE submissions[n]]
    /\ Recorded /\ UNCHANGED <<exists, judge, judged>>
updateStatus(n, status, score) == bulkUpdateStatus({n}, status, score)

EditJudges ==
    /\ Change /\ judge' = ~judge
    /\ judged' = [c \in Calls |-> judged[c] \cup {judge'}]
    /\ UNCHANGED <<exists, submissions, winners>>
DeleteEvent == Change /\ exists /\ exists' = FALSE /\ UNCHANGED <<judge, submissions, winners, judged>>

Next ==
    \/ \E c \in Calls :
          \/ \E op \in Ops, caller \in Callers : Request(c, op, caller)
          \/ VerifyEvent(c) \/ isHost(c) \/ isJudge(c) \/ findByEvent(c) \/ ChangeOwn(c)
    \/ create \/ EditJudges \/ DeleteEvent
    \/ \E status \in SubmissionStatus, score \in Scores \cup {NoScore} :
          \/ \E n \in DOMAIN submissions : updateStatus(n, status, score)
          \/ bulkUpdateStatus(DOMAIN submissions, status, score)

Spec == Init /\ [][Next]_vars

-----------------------------------------------------------------------------
\* What the readers compute from the documents, whose scores are those that are stored.
ScoresOf(ns) == {submissions[n].score : n \in {m \in ns : submissions[m].score # NoScore}}
SumOf(ns) ==
    LET scored == {n \in ns : submissions[n].score # NoScore}
        sum[n \in 0 .. Len(submissions)] ==
          IF n = 0 THEN 0 ELSE sum[n - 1] + (IF n \in scored THEN submissions[n].score ELSE 0)
    IN  sum[Len(submissions)]
Statistics(ns) ==
    LET scored == {n \in ns : submissions[n].score # NoScore} IN
    [total |-> Cardinality(ns), scored |-> Cardinality(scored), sum |-> SumOf(ns),
     highestScore |-> IF scored = {} THEN 0 ELSE Max(ScoresOf(ns)),
     lowestScore |-> IF scored = {} THEN 0 ELSE Min(ScoresOf(ns))]
getStatistics == Statistics(DOMAIN submissions)
countByStatus(status) == Cardinality(findByEventAndStatus(status))

\* getJudgingAnalytics asks findByEvent without an address.
getJudgingAnalytics == Statistics(getWinners)

filterSubmissions(minScore, maxScore) ==
    {n \in DOMAIN submissions : submissions[n].score \in Scores
                                /\ submissions[n].score >= minScore /\ submissions[n].score <= maxScore}
\* MongoDB may order equal scores in any way.
Better(m, n) ==
    \/ submissions[m].score > submissions[n].score
    \/ submissions[m].score = submissions[n].score /\ m < n
getTopSubmissions ==
    LET scored == {n \in DOMAIN submissions : submissions[n].score # NoScore}
        all == Cardinality(scored)
        IsPlaced(n, i) == i = 1 + Cardinality({m \in scored : Better(m, n)})
    IN  [i \in 1 .. (IF all < limit THEN all ELSE limit) |-> CHOOSE n \in scored : IsPlaced(n, i)]

TypeOK ==
    /\ exists \in BOOLEAN /\ judge \in BOOLEAN
    /\ submissions \in Seq([status : SubmissionStatus, score : Scores \cup {NoScore}])
    /\ \A c \in Calls :
         /\ calls[c].op \in Ops /\ calls[c].caller \in Callers
         /\ calls[c].step \in {"new", "findById", "isHost", "isJudge", "all", "winners", "done",
                               "notFound", "refused", "save", "deleteOne"}

IsHostOrJudge(c, wasJudge) ==
    calls[c].caller = "host" \/ (calls[c].caller = "other" /\ wasJudge)

\* Whoever is shown a submission that has not been a winner since the request came is the
\* host, or has been a judge since; and the host, and whoever has been a judge all along,
\* is shown everything there was when the request came.  A participant changes nothing.
OnlyJudgesSeeAll ==
    \A c \in Calls :
        /\ calls[c].step = "done" =>
             /\ calls[c].seen \subseteq winners[c] \/ IsHostOrJudge(c, judged[c] # {FALSE})
             /\ IsHostOrJudge(c, judged[c] = {TRUE}) => began[c] \subseteq calls[c].seen
        /\ calls[c].step \notin {"save", "deleteOne"}

\* The readers agree with each other: the counts by status add up to the total, the best
\* of getTopSubmissions has the highest score and no other submission a higher one than
\* its last, and the analytics of the winners lie within the statistics of all.
ReadersAgree ==
    LET all == getStatistics
        won == getJudgingAnalytics
        top == getTopSubmissions
    IN  /\ all.total = countByStatus("submitted") + countByStatus("accepted")
                         + countByStatus("rejected") + countByStatus("winner")
        /\ all.sum >= all.scored * all.lowestScore /\ all.sum <= all.scored * all.highestScore
        /\ filterSubmissions(all.lowestScore, all.highestScore)
             = {n \in DOMAIN submissions : submissions[n].score # NoScore}
        /\ top # <<>> =>
             /\ submissions[top[1]].score = all.highestScore
             /\ \A n \in filterSubmissions(submissions[top[Len(top)]].score + 1, all.highestScore) :
                   \E i \in DOMAIN top : top[i] = n
        /\ won.scored <= all.scored
        /\ won.scored > 0 => won.lowestScore >= all.lowestScore /\ won.highestScore <= all.highestScore
=============================================================================
