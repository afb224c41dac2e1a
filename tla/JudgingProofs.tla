---------------------------- MODULE JudgingProofs ----------------------------
(***************************************************************************)
(* What TLAPS proves of Judging, for any finite sets of calls and          *)
(* accounts, any requests of the host and any verdicts of the judges.      *)
(***************************************************************************)
EXTENDS Judging, FiniteSetTheorems, SequenceTheorems, TLAPS

\* What a call's own fields have to do with where it is.
Fits(call) ==
    /\ call \in Call
    /\ call.pc \in {"isJudge", "isHost", "findSubmission", "findToUpdate", "saveStatus",
                    "getWinners", "findReward", "enqueue"} => call.sub \in DOMAIN submissions
    /\ call.pc = "saveStatus" => call.copy \in Judged
    /\ call.pc = "saveEvent" => call.copy \in Event /\ call.edit # "delete"
    /\ call.pc = "enqueue" => call.rewardAmount # {}
    /\ call.pc \in {"findReward", "enqueue"} => call.winners # {}
AllFit == \A c \in Calls : Fits(calls[c])

\* There is room for the submissions being created.
Room == Len(submissions) + Cardinality(Creating) <= MaxSubmissions

\* A copy of the event with its version has its judges.
Fresh(call) ==
    call.pc = "saveEvent" =>
        /\ call.copy.version <= event.version
        /\ call.copy.version = event.version => call.copy.judges = event.judges
CopiesFresh == \A c \in Calls : Fresh(calls[c])

\* The call whose verdict on s made it a winner, and will enqueue a job that pays it.
Pays(call, s) ==
    /\ call.sub = s
    /\ \/ call.pc = "getWinners"
       \/ call.pc \in {"findReward", "enqueue"} /\ s \in call.winners
IsPaid(s) == \E n \in DOMAIN jobs : s \in jobs[n].winners
WinnersKept ==
    event.exists /\ deaths = 0 =>
        \A s \in Winners : IsPaid(s) \/ \E c \in Calls : Pays(calls[c], s)

\* A call that is still to save its score has recorded it, for its judge, and no other
\* call of that judge has recorded one since.
Saves(call, s) ==
    call.sub = s /\ call.pc \in {"findToUpdate", "saveStatus"} /\ call.verdict.score # NoScore
Recorded(call) ==
    \A s \in SubmissionIds \ overlapped :
        Saves(call, s) => judgeScores[s][call.account] = call.verdict.score
AllRecorded == deaths = 0 => \A c \in Calls : Recorded(calls[c])

\* The score of a submission is the latest of some judge, or a call is going to replace it:
\* one that has not read it yet, or has read one that differs from its own.
Held(s) ==
    \/ submissions[s].score = NoScore
    \/ \E a \in Accounts : judgeScores[s][a] = submissions[s].score
WillWrite(call, s) ==
    Saves(call, s) /\ (call.pc = "saveStatus" => call.copy.score # call.verdict.score)
ScoresKept ==
    deaths = 0 =>
        \A s \in DOMAIN submissions \ overlapped :
            Held(s) \/ \E c \in Calls : WillWrite(calls[c], s)

IInv ==
    /\ TypeOK /\ AllFit /\ Room /\ CopiesFresh
    /\ WinnersKept /\ AllRecorded /\ ScoresKept

USE AccountsAssumption, BoundsAssumption

CreatePc == {"create", "checkDuplicate", "insert"}

-----------------------------------------------------------------------------
(* Idle calls, and calls that change.                                        *)

LEMMA VerdictTypes ==
  /\ NoVerdict \in Judged /\ NoVerdict.score = NoScore
  /\ \A verdict \in GivenVerdicts : verdict \in Judged
  /\ \A verdict \in Judged : verdict.status \in SubmissionStatus
                             /\ verdict.score \in Scores \cup {NoScore}
BY DEF NoVerdict, Judged, Verdicts, SubmissionStatus

LEMMA IdleFits == Fits(Idle) /\ Idle.pc = "idle" /\ Idle \in Call
<1>1. Idle \in Call
  BY VerdictTypes DEF Idle, Call
<1>2. Idle.pc = "idle"
  BY DEF Idle
<1> QED
  BY <1>1, <1>2 DEF Fits

LEMMA CallFields ==
  ASSUME NEW call \in Call
  PROVE  /\ call.account \in Accounts /\ call.sub \in SubmissionIds \cup {0}
         /\ call.verdict \in Judged /\ call.copy \in Judged \cup Event
         /\ call.judges \in SUBSET Accounts /\ call.rewardAmount \in SUBSET Rewards
         /\ call.winners \in SUBSET SubmissionIds
         /\ call.edit \in {"invite", "remove", "update", "delete"}
BY DEF Call

LEMMA SubmissionsDomain ==
  ASSUME TypeOK
  PROVE  /\ DOMAIN submissions = 1 .. Len(submissions) /\ Len(submissions) \in Nat
         /\ DOMAIN submissions \subseteq SubmissionIds
         /\ \A s \in DOMAIN submissions : submissions[s] \in Submission
<1>1. submissions \in Seq(Submission) /\ Len(submissions) <= MaxSubmissions
  BY DEF TypeOK
<1>2. DOMAIN submissions = 1 .. Len(submissions) /\ Len(submissions) \in Nat
  BY <1>1, LenProperties
<1>3. \A s \in DOMAIN submissions : submissions[s] \in Submission
  BY <1>1, <1>2, ElementOfSeq
<1> QED
  BY <1>1, <1>2, <1>3 DEF SubmissionIds

\* How many calls are creating a submission after one call has become another.
LEMMA CreatingCounted ==
  ASSUME NEW c \in Calls, NEW call, calls' = [calls EXCEPT ![c] = call],
         calls \in [Calls -> Call]
  PROVE  /\ Cardinality(Creating) \in Nat /\ Cardinality(Creating') \in Nat
         /\ call.pc \notin CreatePc => Cardinality(Creating') <= Cardinality(Creating)
         /\ call.pc \notin CreatePc /\ calls[c].pc \in CreatePc =>
               Cardinality(Creating') = Cardinality(Creating) - 1
         /\ call.pc \in CreatePc /\ calls[c].pc \in CreatePc =>
               Cardinality(Creating') = Cardinality(Creating)
         /\ Cardinality(Creating') <= Cardinality(Creating) + 1
<1>1. /\ Creating = {d \in Calls : calls[d].pc \in CreatePc}
      /\ Creating' = {d \in Calls : calls'[d].pc \in CreatePc}
  BY DEF Creating, AnyAt, At, CreatePc
<1>2. calls'[c] = call /\ \A d \in Calls : d # c => calls'[d] = calls[d]
  OBVIOUS
<1>3. IsFiniteSet(Creating) /\ IsFiniteSet(Creating')
  BY <1>1, FS_Subset
<1>4. Cardinality(Creating) \in Nat /\ Cardinality(Creating') \in Nat
  BY <1>3, FS_CardinalityType
<1>5. CASE call.pc \in CreatePc /\ calls[c].pc \in CreatePc
  <2>1. Creating' = Creating
    BY <1>1, <1>2, <1>5
  <2> QED
    BY <1>4, <1>5, <2>1
<1>6. CASE call.pc \in CreatePc /\ calls[c].pc \notin CreatePc
  <2>1. Creating' = Creating \cup {c} /\ c \notin Creating
    BY <1>1, <1>2, <1>6
  <2>2. Cardinality(Creating') = Cardinality(Creating) + 1
    BY <1>3, <2>1, FS_AddElement
  <2> QED
    BY <1>4, <1>6, <2>2
<1>7. CASE call.pc \notin CreatePc /\ calls[c].pc \in CreatePc
  <2>1. Creating' = Creating \ {c} /\ c \in Creating
    BY <1>1, <1>2, <1>7
  <2>2. Cardinality(Creating') = Cardinality(Creating) - 1
    BY <1>3, <2>1, FS_RemoveElement
  <2> QED
    BY <1>4, <1>7, <2>2
<1>8. CASE call.pc \notin CreatePc /\ calls[c].pc \notin CreatePc
  <2>1. Creating' = Creating
    BY <1>1, <1>2, <1>8
  <2> QED
    BY <1>4, <1>8, <2>1
<1> QED
  BY <1>5, <1>6, <1>7, <1>8

-----------------------------------------------------------------------------
(* One call becomes another: what that and the data it changes do to the     *)
(* invariant.                                                                *)

\* TypeOK but for the calls.
DataOK ==
    /\ event \in Event
    /\ submissions \in Seq(Submission) /\ Len(submissions) <= MaxSubmissions
    /\ judgeScores \in [SubmissionIds -> [Accounts -> Scores \cup {NoScore}]]
    /\ jobs \in Seq(Job)
    /\ overlapped \subseteq SubmissionIds
    /\ started \in 0 .. MaxStarts /\ deaths \in 0 .. MaxDeaths

LEMMA CallStep ==
  ASSUME IInv, NEW c \in Calls, NEW call, Fits(call)', DataOK', Room',
         calls' = [calls EXCEPT ![c] = call],
         DOMAIN submissions \subseteq DOMAIN submissions',
         \/ event'.version = event.version /\ event'.judges = event.judges
         \/ event'.version > event.version,
         call.pc = "saveEvent" => call.copy = event',
         event'.exists => event.exists, deaths' >= deaths, overlapped \subseteq overlapped',
         \A n \in DOMAIN jobs : n \in DOMAIN jobs' /\ jobs'[n] = jobs[n],
         event'.exists /\ deaths' = 0 =>
            \A s \in Winners' : \/ IsPaid(s)' \/ Pays(call, s)
                                \/ s \in Winners /\ ~Pays(calls[c], s),
         deaths' = 0 => Recorded(call)',
         deaths' = 0 =>
            \A d \in Calls \ {c}, s \in SubmissionIds \ overlapped' :
                Saves(calls[d], s) =>
                    judgeScores'[s][calls[d].account] = judgeScores[s][calls[d].account],
         deaths' = 0 =>
            \A s \in DOMAIN submissions' \ overlapped' :
                \/ Held(s)' \/ WillWrite(call, s)
                \/ s \in DOMAIN submissions /\ (Held(s) => Held(s)') /\ ~WillWrite(calls[c], s)
  PROVE  IInv'
<1>1. /\ calls \in [Calls -> Call] /\ call \in Call
      /\ calls' \in [Calls -> Call] /\ calls'[c] = call
      /\ \A d \in Calls \ {c} : calls'[d] = calls[d]
  BY DEF IInv, TypeOK, Fits
<1>2. TypeOK'
  BY <1>1 DEF DataOK, TypeOK
<1>3. AllFit'
  <2> SUFFICES ASSUME NEW d \in Calls PROVE Fits(calls[d])'
    BY DEF AllFit
  <2>1. CASE d = c
    BY <1>1, <2>1 DEF Fits
  <2>2. CASE d # c
    <3>1. Fits(calls[d]) /\ calls'[d] = calls[d]
      BY <1>1, <2>2 DEF IInv, AllFit
    <3> QED
      BY <3>1, <1>1, <2>2 DEF Fits
  <2> QED
    BY <2>1, <2>2
<1>4. CopiesFresh'
  <2> SUFFICES ASSUME NEW d \in Calls, calls'[d].pc = "saveEvent"
               PROVE  /\ calls'[d].copy.version <= event'.version
                      /\ calls'[d].copy.version = event'.version =>
                            calls'[d].copy.judges = event'.judges
    BY DEF CopiesFresh, Fresh
  <2>1. event \in Event /\ event' \in Event
    BY DEF IInv, TypeOK, DataOK
  <2>2. event.version \in Nat /\ event'.version \in Nat
    BY <2>1 DEF Event
  <2>3. CASE d = c
    BY <1>1, <2>2, <2>3
  <2>4. CASE d # c
    <3>1. /\ calls'[d] = calls[d] /\ calls[d].copy \in Event
          /\ calls[d].copy.version <= event.version
          /\ calls[d].copy.version = event.version => calls[d].copy.judges = event.judges
      BY <1>1, <2>4 DEF IInv, CopiesFresh, Fresh, AllFit, Fits
    <3>2. calls[d].copy.version \in Nat
      BY <3>1 DEF Event
    <3> QED
      BY <2>2, <3>1, <3>2
  <2> QED
    BY <2>3, <2>4
<1>5. deaths \in Nat /\ deaths' \in Nat
  BY DEF IInv, TypeOK, DataOK
<1>6. WinnersKept'
  <2> SUFFICES ASSUME event'.exists, deaths' = 0, NEW s \in Winners',
                      ~IsPaid(s)', ~Pays(call, s)
               PROVE  \E d \in Calls : Pays(calls'[d], s)
    BY <1>1 DEF WinnersKept
  <2>1. deaths = 0 /\ event.exists /\ s \in Winners /\ ~Pays(calls[c], s)
    BY <1>5
  <2>2. ~IsPaid(s)
    BY DEF IsPaid
  <2>3. PICK d \in Calls : Pays(calls[d], s)
    BY <2>1, <2>2 DEF IInv, WinnersKept
  <2> QED
    BY <1>1, <2>1, <2>3
<1>7. AllRecorded'
  <2> SUFFICES ASSUME deaths' = 0, NEW d \in Calls \ {c} PROVE Recorded(calls[d])'
    BY <1>1 DEF AllRecorded, Recorded
  <2>1. deaths = 0
    BY <1>5
  <2>2. Recorded(calls[d]) /\ calls'[d] = calls[d]
    BY <1>1, <2>1 DEF IInv, AllRecorded
  <2> QED
    BY <2>2 DEF Recorded
<1>8. ScoresKept'
  <2> SUFFICES ASSUME deaths' = 0, NEW s \in DOMAIN submissions' \ overlapped',
                      ~Held(s)', ~WillWrite(call, s)
               PROVE  \E d \in Calls : WillWrite(calls'[d], s)
    BY <1>1 DEF ScoresKept
  <2>1. deaths = 0 /\ s \in DOMAIN submissions \ overlapped /\ ~Held(s)
        /\ ~WillWrite(calls[c], s)
    BY <1>5
  <2>2. PICK d \in Calls : WillWrite(calls[d], s)
    BY <2>1 DEF IInv, ScoresKept
  <2> QED
    BY <1>1, <2>1, <2>2
<1> QED
  BY <1>2, <1>3, <1>4, <1>6, <1>7, <1>8 DEF IInv

\* A step that changes one call and no data.
LEMMA QuietStep ==
  ASSUME IInv, NEW c \in Calls, NEW call, Fits(call),
         calls' = [calls EXCEPT ![c] = call],
         UNCHANGED <<event, submissions, judgeScores, jobs, overlapped>>,
         started' \in 0 .. MaxStarts, deaths' \in 0 .. MaxDeaths, deaths' >= deaths,
         call.pc \in CreatePc /\ calls[c].pc \notin CreatePc =>
            Len(submissions) + Cardinality(Creating) < MaxSubmissions,
         call.pc = "saveEvent" => call.copy = event,
         event.exists /\ deaths' = 0 => \A s \in Winners : Pays(calls[c], s) => Pays(call, s),
         deaths' = 0 => Recorded(call),
         deaths' = 0 =>
            \A s \in DOMAIN submissions \ overlapped :
                WillWrite(calls[c], s) => WillWrite(call, s) \/ Held(s)
  PROVE  IInv'
<1>1. Fits(call)'
  BY DEF Fits
<1>2. DataOK'
  BY DEF DataOK, IInv, TypeOK
<1>3. Room'
  <2>1. /\ Cardinality(Creating) \in Nat /\ Cardinality(Creating') \in Nat
        /\ call.pc \notin CreatePc => Cardinality(Creating') <= Cardinality(Creating)
        /\ call.pc \in CreatePc /\ calls[c].pc \in CreatePc =>
               Cardinality(Creating') = Cardinality(Creating)
        /\ Cardinality(Creating') <= Cardinality(Creating) + 1
    BY CreatingCounted DEF IInv, TypeOK
  <2>2. Len(submissions) \in Nat /\ MaxSubmissions \in Nat
    BY SubmissionsDomain DEF IInv
  <2>3. Len(submissions) + Cardinality(Creating) <= MaxSubmissions /\ submissions' = submissions
    BY DEF IInv, Room
  <2> QED
    BY <2>1, <2>2, <2>3 DEF Room
<1>4. Winners' = Winners
  BY DEF Winners
<1>5. \A s : IsPaid(s)' = IsPaid(s)
  BY DEF IsPaid
<1>6. \A s : Held(s)' = Held(s)
  BY DEF Held
<1>7. Recorded(call)' = Recorded(call)
  BY DEF Recorded
<1> QED
  BY <1>1, <1>2, <1>3, <1>4, <1>5, <1>6, <1>7, CallStep

-----------------------------------------------------------------------------
(* The initial state, and the requests.                                      *)

LEMMA InitIInv == Init => IInv
<1> SUFFICES ASSUME Init PROVE IInv
  OBVIOUS
<1>1. calls \in [Calls -> Call] /\ \A c \in Calls : calls[c] = Idle
  BY IdleFits DEF Init
<1>2. \A c \in Calls : calls[c].pc = "idle" /\ Fits(calls[c])
  BY <1>1, IdleFits
<1>3. /\ submissions \in Seq(Submission) /\ Len(submissions) = Len(InitialSubmissions)
      /\ \A s \in DOMAIN submissions : /\ submissions[s].status = "submitted"
                                       /\ submissions[s].score = NoScore
  <2>1. /\ InitialSubmissions \in Seq(Accounts) /\ Len(InitialSubmissions) \in Nat
        /\ DOMAIN InitialSubmissions = 1 .. Len(InitialSubmissions)
    BY LenProperties
  <2>2. \A k \in DOMAIN InitialSubmissions :
           /\ NewSubmission(InitialSubmissions[k]) \in Submission
           /\ NewSubmission(InitialSubmissions[k]).status = "submitted"
           /\ NewSubmission(InitialSubmissions[k]).score = NoScore
    <3> TAKE k \in DOMAIN InitialSubmissions
    <3>1. InitialSubmissions[k] \in Accounts
      BY <2>1, ElementOfSeq
    <3> QED
      BY <3>1 DEF NewSubmission, Submission, SubmissionStatus
  <2>3. submissions \in [1 .. Len(InitialSubmissions) -> Submission]
    BY <2>1, <2>2 DEF Init
  <2>4. submissions \in Seq(Submission)
    BY <2>1, <2>3, SeqDef
  <2>5. DOMAIN submissions = 1 .. Len(submissions) /\ Len(submissions) \in Nat
    BY <2>4, LenProperties
  <2>6. Len(submissions) = Len(InitialSubmissions)
    BY <2>1, <2>3, <2>5
  <2> QED
    BY <2>1, <2>2, <2>4, <2>6 DEF Init
<1>4. TypeOK
  <2>1. event \in Event
    <3>1. PICK amount \in Rewards :
             event = [exists |-> TRUE, judges |-> InitialJudges, version |-> 0,
                      rewardAmount |-> amount]
      BY DEF Init
    <3>2. InitialJudges \in SUBSET Accounts /\ 0 \in Nat /\ TRUE \in BOOLEAN
      OBVIOUS
    <3> QED
      BY <3>1, <3>2 DEF Event
  <2>2. judgeScores \in [SubmissionIds -> [Accounts -> Scores \cup {NoScore}]]
    BY DEF Init
  <2>3. jobs \in Seq(Job) /\ overlapped \subseteq SubmissionIds
    BY EmptySeq DEF Init
  <2>4. started \in 0 .. MaxStarts /\ deaths \in 0 .. MaxDeaths
    BY DEF Init
  <2> QED
    BY <1>1, <1>3, <2>1, <2>2, <2>3, <2>4 DEF TypeOK
<1>5. AllFit /\ CopiesFresh
  BY <1>2 DEF AllFit, CopiesFresh, Fresh
<1>6. Room
  <2>1. Creating = {}
    BY <1>2 DEF Creating, AnyAt, At
  <2>2. Cardinality(Creating) = 0 /\ Len(submissions) \in Nat
    BY <1>3, <2>1, FS_EmptySet, LenProperties
  <2> QED
    BY <1>3, <2>2 DEF Room
<1>7. WinnersKept
  BY <1>3 DEF WinnersKept, Winners
<1>8. AllRecorded
  BY <1>2 DEF AllRecorded, Recorded, Saves
<1>9. ScoresKept
  BY <1>3 DEF ScoresKept, Held
<1> QED
  BY <1>4, <1>5, <1>6, <1>7, <1>8, <1>9 DEF IInv

LEMMA StartStep ==
  ASSUME IInv, NEW c \in Calls, NEW call, Fits(call), Start(c, call),
         call.pc \notin {"findToUpdate", "saveStatus", "saveEvent"},
         call.pc \in CreatePc => Len(submissions) + Cardinality(Creating) < MaxSubmissions
  PROVE  IInv'
<1>1. /\ calls[c].pc = "idle" /\ calls' = [calls EXCEPT ![c] = call]
      /\ UNCHANGED <<event, submissions, judgeScores, jobs, overlapped, deaths>>
      /\ started < MaxStarts /\ started' = started + 1
  BY DEF Start, At, Continue
<1>2. started' \in 0 .. MaxStarts /\ deaths' \in 0 .. MaxDeaths /\ deaths' >= deaths
  BY <1>1 DEF IInv, TypeOK
<1>3. /\ Recorded(call) /\ \A s : ~Pays(calls[c], s) /\ ~WillWrite(calls[c], s)
  BY <1>1 DEF Recorded, Saves, Pays, WillWrite
<1> QED
  BY <1>1, <1>2, <1>3, QuietStep

LEMMA BeginStep == ASSUME IInv, NEW c \in Calls, Begin(c) PROVE IInv'
<1>1. ASSUME NEW p \in Participants, Create(c, p) PROVE IInv'
  <2> DEFINE call == [Idle EXCEPT !.pc = "create", !.account = p]
  <2>1. call \in Call /\ call.pc = "create"
    BY IdleFits DEF Call
  <2>2. Start(c, call) /\ Len(submissions) + Cardinality(Creating) < MaxSubmissions
    BY <1>1 DEF Create
  <2> HIDE DEF call
  <2>3. Fits(call)
    BY <2>1 DEF Fits
  <2> QED
    BY <2>1, <2>2, <2>3, StartStep
<1>2. ASSUME NEW a \in Accounts, NEW s \in DOMAIN submissions, NEW verdict \in GivenVerdicts,
             ScoreSubmission(c, a, s, verdict)
      PROVE  IInv'
  <2> DEFINE call == [Idle EXCEPT !.pc = "isJudge", !.account = a, !.sub = s,
                                  !.verdict = verdict]
  <2>1. s \in SubmissionIds /\ verdict \in Judged
    BY SubmissionsDomain, VerdictTypes DEF IInv
  <2>2. call \in Call /\ call.pc = "isJudge" /\ call.sub = s
    BY <2>1, IdleFits DEF Call
  <2>3. Start(c, call)
    BY <1>2 DEF ScoreSubmission
  <2> HIDE DEF call
  <2>4. Fits(call)
    BY <2>2 DEF Fits
  <2> QED
    BY <2>2, <2>3, <2>4, StartStep DEF CreatePc
<1>3. ASSUME NEW call \in Call, call.pc = "findEvent", Start(c, call) PROVE IInv'
  <2>1. Fits(call)
    BY <1>3 DEF Fits
  <2> QED
    BY <1>3, <2>1, StartStep DEF CreatePc
<1>4. ASSUME NEW edit \in {"invite", "remove", "update", "delete"},
             NEW judges \in SUBSET Accounts, NEW amount \in SUBSET Rewards
      PROVE  /\ Request(edit) \in Call /\ Request(edit).pc = "findEvent"
             /\ [Request(edit) EXCEPT !.judges = judges] \in Call
             /\ [Request(edit) EXCEPT !.judges = judges].pc = "findEvent"
             /\ [Request(edit) EXCEPT !.judges = judges, !.rewardAmount = amount] \in Call
             /\ [Request(edit) EXCEPT !.judges = judges, !.rewardAmount = amount].pc
                   = "findEvent"
  <2>1. Request(edit) \in Call /\ Request(edit).pc = "findEvent"
    BY IdleFits DEF Request, Call
  <2> QED
    BY <2>1 DEF Call
<1>5. ASSUME NEW list \in JudgeLists, InviteJudges(c, list) PROVE IInv'
  <2>1. list \in SUBSET Accounts
    OBVIOUS
  <2> QED
    BY <1>3, <1>4, <1>5, <2>1 DEF InviteJudges
<1>6. ASSUME NEW list \in JudgeLists, NEW judge \in list, RemoveJudge(c, judge) PROVE IInv'
  <2>1. {judge} \in SUBSET Accounts
    OBVIOUS
  <2> QED
    BY <1>3, <1>4, <1>6, <2>1 DEF RemoveJudge
<1>7. ASSUME NEW list \in JudgeLists \cup {{}},
             NEW amount \in {{}} \cup {{r} : r \in Rewards}, Update(c, list, amount)
      PROVE  IInv'
  <2>1. list \in SUBSET Accounts /\ amount \in SUBSET Rewards
    OBVIOUS
  <2> QED
    BY <1>3, <1>4, <1>7, <2>1 DEF Update
<1>8. ASSUME Delete(c) PROVE IInv'
  BY <1>3, <1>4, <1>8 DEF Delete
<1> QED
  BY <1>1, <1>2, <1>5, <1>6, <1>7, <1>8 DEF Begin

-----------------------------------------------------------------------------
(* The steps that change one call only.                                      *)

LEMMA CallNow ==
  ASSUME IInv, NEW c \in Calls
  PROVE  /\ TypeOK /\ calls[c] \in Call /\ Fits(calls[c])
         /\ started \in 0 .. MaxStarts /\ deaths \in 0 .. MaxDeaths /\ deaths >= deaths
<1>1. started \in 0 .. MaxStarts /\ deaths \in 0 .. MaxDeaths
  BY DEF IInv, TypeOK
<1> QED
  BY <1>1 DEF IInv, TypeOK, AllFit

\* A call that is not about to save a score or to enqueue a job goes on, or ends.
LEMMA GoOnStep ==
  ASSUME IInv, NEW c \in Calls, NEW call, Fits(call), Continue(c, call), OnlyCalls,
         calls[c].pc \notin {"findToUpdate", "saveStatus", "getWinners", "findReward", "enqueue"},
         call.pc \notin {"findToUpdate", "saveStatus"},
         call.pc \in CreatePc => calls[c].pc \in CreatePc,
         call.pc = "saveEvent" => call.copy = event
  PROVE  IInv'
<1>1. /\ calls' = [calls EXCEPT ![c] = call]
      /\ UNCHANGED <<event, submissions, judgeScores, jobs, overlapped, started, deaths>>
  BY DEF Continue, OnlyCalls
<1>2. started' \in 0 .. MaxStarts /\ deaths' \in 0 .. MaxDeaths /\ deaths' >= deaths
  BY <1>1, CallNow
<1>3. /\ Recorded(call) /\ \A s : ~Pays(calls[c], s) /\ ~WillWrite(calls[c], s)
  BY DEF Recorded, Saves, Pays, WillWrite
<1> QED
  BY <1>1, <1>2, <1>3, QuietStep

LEMMA ReadStep ==
  ASSUME IInv, NEW c \in Calls,
         CreateFindsEvent(c) \/ CheckDuplicate(c) \/ IsJudge(c) \/ IsHost(c) \/ FindToEdit(c)
  PROVE  IInv'
<1>1. /\ OnlyCalls
      /\ calls[c].pc \in {"create", "checkDuplicate", "isJudge", "isHost", "findEvent"}
  BY DEF CreateFindsEvent, CheckDuplicate, IsJudge, IsHost, FindToEdit, At
<1>2. TypeOK /\ calls[c] \in Call /\ Fits(calls[c]) /\ event \in Event
  BY CallNow DEF TypeOK
<1>3. CASE End(c)
  BY <1>1, <1>3, IdleFits, GoOnStep DEF End, CreatePc
<1>4. ASSUME NEW pc \in {"checkDuplicate", "insert", "findSubmission", "deleteEvent"},
             GoTo(c, pc), pc \in CreatePc => calls[c].pc \in CreatePc,
             pc = "findSubmission" => calls[c].pc = "isHost"
      PROVE  IInv'
  <2> DEFINE call == [calls[c] EXCEPT !.pc = pc]
  <2>1. call \in Call /\ call.pc = pc /\ call.sub = calls[c].sub
    BY <1>2 DEF Call
  <2>2. Continue(c, call)
    BY <1>4 DEF GoTo
  <2> HIDE DEF call
  <2>3. Fits(call)
    BY <1>2, <1>4, <2>1 DEF Fits
  <2> QED
    BY <1>1, <1>4, <2>1, <2>2, <2>3, GoOnStep
<1>5. CASE CreateFindsEvent(c) /\ ~End(c)
  <2>1. GoTo(c, "checkDuplicate") /\ calls[c].pc = "create"
    BY <1>5 DEF CreateFindsEvent, FindEvent, At
  <2> QED
    BY <1>4, <2>1 DEF CreatePc
<1>6. CASE CheckDuplicate(c) /\ ~End(c)
  <2>1. GoTo(c, "insert") /\ calls[c].pc = "checkDuplicate"
    BY <1>6 DEF CheckDuplicate, At
  <2> QED
    BY <1>4, <2>1 DEF CreatePc
<1>7. CASE IsHost(c) /\ ~End(c)
  <2>1. GoTo(c, "findSubmission") /\ calls[c].pc = "isHost"
    BY <1>7 DEF IsHost, FindEvent, At
  <2> QED
    BY <1>4, <2>1 DEF CreatePc
<1>8. CASE IsJudge(c) /\ ~End(c)
  <2> DEFINE isJudge == calls[c].account \in event.judges
             call == [calls[c] EXCEPT !.pc = "isHost", !.isJudge = isJudge]
  <2>1. call \in Call /\ call.pc = "isHost" /\ call.sub = calls[c].sub
    <3>1. isJudge \in BOOLEAN
      OBVIOUS
    <3> HIDE DEF isJudge
    <3> QED
      BY <1>2, <3>1 DEF Call
  <2>2. Continue(c, call) /\ calls[c].pc = "isJudge"
    BY <1>8 DEF IsJudge, FindEvent, At
  <2> HIDE DEF call
  <2>3. Fits(call)
    BY <1>2, <2>1, <2>2 DEF Fits
  <2> QED
    BY <1>1, <2>1, <2>2, <2>3, GoOnStep DEF CreatePc
<1>9. CASE FindToEdit(c) /\ ~End(c)
  <2>1. CASE calls[c].edit = "delete"
    <3>1. GoTo(c, "deleteEvent")
      BY <1>9, <2>1 DEF FindToEdit, FindEvent
    <3> QED
      BY <1>4, <3>1 DEF CreatePc
  <2>2. CASE calls[c].edit # "delete"
    <3> DEFINE call == [calls[c] EXCEPT !.pc = "saveEvent", !.copy = event]
    <3>1. Continue(c, call)
      BY <1>9, <2>2 DEF FindToEdit, FindEvent
    <3>2. call \in Call /\ call.pc = "saveEvent" /\ call.copy = event
          /\ call.edit = calls[c].edit
      BY <1>2 DEF Call
    <3> HIDE DEF call
    <3>3. Fits(call)
      BY <1>2, <2>2, <3>2 DEF Fits
    <3> QED
      BY <1>1, <3>1, <3>2, <3>3, GoOnStep DEF CreatePc
  <2> QED
    BY <2>1, <2>2
<1> QED
  BY <1>3, <1>5, <1>6, <1>7, <1>8, <1>9

\* FindToUpdate: a copy that already has the call's score has a score of its judge.
LEMMA FindToUpdateStep == ASSUME IInv, NEW c \in Calls, FindToUpdate(c) PROVE IInv'
<1> DEFINE s == calls[c].sub
           copy == [status |-> submissions[s].status, score |-> submissions[s].score]
           call == [calls[c] EXCEPT !.pc = "saveStatus", !.copy = copy]
<1>1. /\ calls[c].pc = "findToUpdate" /\ calls' = [calls EXCEPT ![c] = call]
      /\ UNCHANGED <<event, submissions, judgeScores, jobs, overlapped, started, deaths>>
  BY DEF FindToUpdate, At, Continue, OnlyCalls
<1>2. /\ TypeOK /\ calls[c] \in Call /\ Fits(calls[c])
      /\ started' \in 0 .. MaxStarts /\ deaths' \in 0 .. MaxDeaths /\ deaths' >= deaths
  BY <1>1, CallNow
<1>3. s \in DOMAIN submissions /\ s \in SubmissionIds /\ submissions[s] \in Submission
  BY <1>1, <1>2, SubmissionsDomain DEF Fits
<1>4. copy \in Judged /\ copy.score = submissions[s].score
  BY <1>3 DEF Judged, Submission
<1> HIDE DEF copy
<1>5. /\ call \in Call /\ call.pc = "saveStatus" /\ call.sub = s /\ call.copy = copy
      /\ call.verdict = calls[c].verdict /\ call.account = calls[c].account
  BY <1>2, <1>4 DEF Call
<1> HIDE DEF call
<1>6. Fits(call)
  BY <1>3, <1>4, <1>5 DEF Fits
<1>7. \A t : /\ ~Pays(calls[c], t)
             /\ Saves(call, t) <=> Saves(calls[c], t)
  BY <1>1, <1>5 DEF Pays, Saves
<1>8. ASSUME deaths' = 0 PROVE Recorded(calls[c]) /\ Recorded(call)
  <2>1. Recorded(calls[c])
    BY <1>1, <1>8 DEF IInv, AllRecorded
  <2> QED
    BY <1>5, <1>7, <2>1 DEF Recorded
<1>9. ASSUME deaths' = 0, NEW t \in DOMAIN submissions \ overlapped, WillWrite(calls[c], t)
      PROVE  WillWrite(call, t) \/ Held(t)
  <2>1. Saves(calls[c], t) /\ t = s /\ Saves(call, t)
    BY <1>7, <1>9 DEF WillWrite, Saves
  <2>2. judgeScores[s][calls[c].account] = calls[c].verdict.score
    BY <1>3, <1>8, <1>9, <2>1 DEF Recorded
  <2>3. CASE submissions[s].score = calls[c].verdict.score
    <3>1. calls[c].account \in Accounts
      BY <1>2, CallFields
    <3> QED
      BY <2>1, <2>2, <2>3, <3>1 DEF Held
  <2>4. CASE submissions[s].score # calls[c].verdict.score
    BY <1>4, <1>5, <2>1, <2>4 DEF WillWrite
  <2> QED
    BY <2>3, <2>4
<1> QED
  BY <1>1, <1>2, <1>5, <1>6, <1>7, <1>8, <1>9, QuietStep DEF CreatePc

LEMMA WinnersStep ==
  ASSUME IInv, NEW c \in Calls, GetWinners(c) \/ FindReward(c)
  PROVE  IInv'
<1>1. /\ calls[c].pc \in {"getWinners", "findReward"}
      /\ UNCHANGED <<event, submissions, judgeScores, jobs, overlapped, started, deaths>>
  BY DEF GetWinners, FindReward, At, OnlyCalls
<1>2. /\ TypeOK /\ calls[c] \in Call /\ Fits(calls[c])
      /\ started' \in 0 .. MaxStarts /\ deaths' \in 0 .. MaxDeaths /\ deaths' >= deaths
  BY <1>1, CallNow
<1>3. PICK call :
         /\ Fits(call) /\ calls' = [calls EXCEPT ![c] = call]
         /\ call.pc \in {"idle", "findReward", "enqueue"}
         /\ event.exists => \A s \in Winners : Pays(calls[c], s) => Pays(call, s)
  <2>1. CASE GetWinners(c) /\ Winners = {}
    BY <2>1, IdleFits DEF GetWinners, Continue
  <2>2. CASE GetWinners(c) /\ Winners # {}
    <3> DEFINE call == [calls[c] EXCEPT !.pc = "findReward", !.winners = Winners]
    <3>1. calls' = [calls EXCEPT ![c] = call] /\ calls[c].pc = "getWinners"
      BY <2>2 DEF GetWinners, Continue, At
    <3>2. Winners \in SUBSET SubmissionIds
      BY <1>2, SubmissionsDomain DEF Winners
    <3>3. /\ call \in Call /\ call.pc = "findReward" /\ call.winners = Winners
          /\ call.sub = calls[c].sub
      BY <1>2, <3>2 DEF Call
    <3> HIDE DEF call
    <3>4. Fits(call)
      BY <1>2, <2>2, <3>1, <3>3 DEF Fits
    <3>5. \A s \in Winners : Pays(calls[c], s) => Pays(call, s)
      BY <3>3 DEF Pays
    <3> QED
      BY <3>1, <3>3, <3>4, <3>5
  <2>3. CASE FindReward(c) /\ ~event.exists
    BY <2>3, IdleFits DEF FindReward, FindEvent, End, Continue
  <2>4. CASE FindReward(c) /\ event.exists
    <3> DEFINE amounts == {event.rewardAmount}
               call == [calls[c] EXCEPT !.pc = "enqueue", !.rewardAmount = amounts]
    <3>1. calls' = [calls EXCEPT ![c] = call] /\ calls[c].pc = "findReward"
      BY <2>4 DEF FindReward, FindEvent, Continue, At
    <3>2. amounts \in SUBSET Rewards /\ amounts # {}
      BY <1>2 DEF TypeOK, Event
    <3> HIDE DEF amounts
    <3>3. /\ call \in Call /\ call.pc = "enqueue" /\ call.winners = calls[c].winners
          /\ call.sub = calls[c].sub /\ call.rewardAmount = amounts
      BY <1>2, <3>2 DEF Call
    <3> HIDE DEF call
    <3>4. Fits(call)
      BY <1>2, <3>1, <3>2, <3>3 DEF Fits
    <3>5. \A s \in Winners : Pays(calls[c], s) => Pays(call, s)
      BY <3>1, <3>3 DEF Pays
    <3> QED
      BY <3>1, <3>3, <3>4, <3>5
  <2> QED
    BY <2>1, <2>2, <2>3, <2>4
<1>4. Recorded(call) /\ \A s : ~WillWrite(calls[c], s)
  BY <1>1, <1>3 DEF Recorded, Saves, WillWrite
<1> QED
  BY <1>1, <1>2, <1>3, <1>4, QuietStep DEF CreatePc

LEMMA DatabaseFailsStep == ASSUME IInv, NEW c \in Calls, DatabaseFails(c) PROVE IInv'
<1>1. /\ calls' = [calls EXCEPT ![c] = Idle] /\ deaths < MaxDeaths /\ deaths' = deaths + 1
      /\ UNCHANGED <<event, submissions, judgeScores, jobs, overlapped, started>>
  BY DEF DatabaseFails, End, Continue
<1>2. started \in 0 .. MaxStarts /\ deaths \in 0 .. MaxDeaths
  BY CallNow
<1>3. /\ started' \in 0 .. MaxStarts /\ deaths' \in 0 .. MaxDeaths /\ deaths' >= deaths
      /\ deaths' # 0
  BY <1>1, <1>2
<1> QED
  BY <1>1, <1>3, IdleFits, QuietStep DEF CreatePc

-----------------------------------------------------------------------------
(* The steps that change data.                                               *)

LEMMA DataNow ==
  ASSUME IInv
  PROVE  /\ DataOK /\ Room /\ calls \in [Calls -> Call]
         /\ deaths \in Nat /\ event.version \in Nat /\ MaxSubmissions \in Nat
         /\ Len(submissions) \in Nat
<1>1. DataOK /\ Room /\ calls \in [Calls -> Call] /\ event \in Event
  BY DEF IInv, TypeOK, DataOK
<1>2. deaths \in Nat /\ event.version \in Nat
  BY <1>1 DEF DataOK, Event
<1> QED
  BY <1>1, <1>2, SubmissionsDomain DEF IInv

\* The room there is when no submission is added and no call starts to create one.
LEMMA RoomKept ==
  ASSUME IInv, NEW c \in Calls, NEW call, calls' = [calls EXCEPT ![c] = call],
         call.pc \notin CreatePc, Len(submissions') = Len(submissions)
  PROVE  Room'
<1>1. /\ Cardinality(Creating) \in Nat /\ Cardinality(Creating') \in Nat
      /\ Cardinality(Creating') <= Cardinality(Creating)
  BY CreatingCounted, DataNow
<1>2. /\ Len(submissions) \in Nat /\ MaxSubmissions \in Nat
      /\ Len(submissions) + Cardinality(Creating) <= MaxSubmissions
  BY DataNow DEF Room
<1> QED
  BY <1>1, <1>2 DEF Room

LEMMA InsertStep == ASSUME IInv, NEW c \in Calls, Insert(c) PROVE IInv'
<1> DEFINE new == NewSubmission(calls[c].account)
<1>1. /\ calls[c].pc = "insert" /\ calls' = [calls EXCEPT ![c] = Idle]
      /\ submissions' = Append(submissions, new)
      /\ UNCHANGED <<event, judgeScores, jobs, overlapped, started, deaths>>
  BY DEF Insert, At, End, Continue
<1>2. DataOK /\ Room /\ calls \in [Calls -> Call] /\ calls[c] \in Call /\ TypeOK
  BY DataNow DEF IInv
<1>3. new \in Submission /\ new.status = "submitted" /\ new.score = NoScore
  BY <1>2, CallFields DEF NewSubmission, Submission, SubmissionStatus
<1> HIDE DEF new
<1>4. DOMAIN submissions = 1 .. Len(submissions) /\ Len(submissions) \in Nat
  BY <1>2, SubmissionsDomain
<1>5. /\ submissions' \in Seq(Submission) /\ Len(submissions') = Len(submissions) + 1
      /\ \A s \in DOMAIN submissions : submissions'[s] = submissions[s]
      /\ submissions'[Len(submissions) + 1] = new
  <2>1. submissions \in Seq(Submission)
    BY <1>2 DEF DataOK
  <2> QED
    BY <1>1, <1>3, <1>4, <2>1, AppendProperties
<1>6. DOMAIN submissions' = DOMAIN submissions \cup {Len(submissions) + 1}
  <2>1. DOMAIN submissions' = 1 .. Len(submissions) + 1
    BY <1>5, LenProperties
  <2> QED
    BY <1>4, <2>1
<1>7. Room'
  <2>1. /\ Cardinality(Creating) \in Nat /\ Cardinality(Creating') \in Nat
        /\ Cardinality(Creating') = Cardinality(Creating) - 1
    BY <1>1, <1>2, CreatingCounted, IdleFits DEF CreatePc
  <2>2. Len(submissions) + Cardinality(Creating) <= MaxSubmissions /\ MaxSubmissions \in Nat
    BY <1>2 DEF Room
  <2> QED
    BY <1>4, <1>5, <2>1, <2>2 DEF Room
<1>8. DataOK'
  <2>1. Len(submissions') <= MaxSubmissions
    <3>1. Cardinality(Creating') \in Nat
      BY <1>1, <1>2, CreatingCounted
    <3> QED
      BY <1>4, <1>5, <1>7, <3>1 DEF Room
  <2> QED
    BY <1>1, <1>2, <1>5, <2>1 DEF DataOK
<1>9. Fits(Idle)'
  BY IdleFits DEF Fits
<1>10. \A s \in Winners' : s \in Winners /\ ~Pays(calls[c], s)
  BY <1>1, <1>3, <1>5, <1>6 DEF Winners, Pays
<1>11. Recorded(Idle)'
  BY IdleFits DEF Recorded, Saves
<1>12. ASSUME NEW s \in DOMAIN submissions' \ overlapped'
       PROVE  \/ Held(s)'
              \/ s \in DOMAIN submissions /\ (Held(s) => Held(s)') /\ ~WillWrite(calls[c], s)
  <2>1. CASE s \in DOMAIN submissions
    <3>1. submissions'[s] = submissions[s] /\ ~WillWrite(calls[c], s)
      BY <1>1, <1>5, <2>1 DEF WillWrite, Saves
    <3>2. Held(s) => Held(s)'
      BY <1>1, <3>1 DEF Held
    <3> QED
      BY <2>1, <3>1, <3>2
  <2>2. CASE s = Len(submissions) + 1
    BY <1>3, <1>5, <2>2 DEF Held
  <2> QED
    BY <1>6, <2>1, <2>2
<1>13. deaths' >= deaths
  BY <1>1, DataNow
<1> QED
  BY <1>1, <1>6, <1>7, <1>8, <1>9, <1>10, <1>11, <1>12, <1>13, IdleFits, CallStep

LEMMA FindSubmissionStep == ASSUME IInv, NEW c \in Calls, FindSubmission(c) PROVE IInv'
<1>0. PICK s, score, account, call :
         /\ s = calls[c].sub /\ score = calls[c].verdict.score
         /\ account = calls[c].account /\ call = [calls[c] EXCEPT !.pc = "findToUpdate"]
  OBVIOUS
<1>1. /\ calls[c].pc = "findSubmission" /\ calls' = [calls EXCEPT ![c] = call]
      /\ judgeScores' = [judgeScores EXCEPT ![s] =
                            RecordJudgeScore(judgeScores[s], account, score)]
      /\ overlapped' = overlapped \cup IF score # NoScore /\ ScoresAtOnce(c) THEN {s} ELSE {}
      /\ UNCHANGED <<event, submissions, jobs, started, deaths>>
  BY <1>0 DEF FindSubmission, At, GoTo, Continue
<1>2. DataOK /\ calls \in [Calls -> Call] /\ calls[c] \in Call /\ Fits(calls[c]) /\ TypeOK
  BY DataNow, CallNow DEF IInv
<1>3. s \in DOMAIN submissions /\ s \in SubmissionIds
  BY <1>0, <1>1, <1>2, SubmissionsDomain DEF Fits
<1>4. score \in Scores \cup {NoScore} /\ account \in Accounts
  BY <1>0, <1>2, CallFields, VerdictTypes
<1>5. /\ call \in Call /\ call.pc = "findToUpdate" /\ call.sub = s
      /\ call.verdict = calls[c].verdict /\ call.account = account
  BY <1>0, <1>2 DEF Call
<1>6. judgeScores \in [SubmissionIds -> [Accounts -> Scores \cup {NoScore}]]
  BY <1>2 DEF DataOK
<1>7. /\ judgeScores' \in [SubmissionIds -> [Accounts -> Scores \cup {NoScore}]]
      /\ \A t \in SubmissionIds \ {s} : judgeScores'[t] = judgeScores[t]
      /\ score = NoScore => judgeScores'[s] = judgeScores[s]
      /\ score # NoScore => judgeScores'[s][account] = score
      /\ \A a \in Accounts \ {account} : judgeScores'[s][a] = judgeScores[s][a]
  <2>1. PICK row \in [Accounts -> Scores \cup {NoScore}] :
           /\ judgeScores' = [judgeScores EXCEPT ![s] = row]
           /\ score = NoScore => row = judgeScores[s]
           /\ score # NoScore => row[account] = score
           /\ \A a \in Accounts \ {account} : row[a] = judgeScores[s][a]
    <3>1. judgeScores[s] \in [Accounts -> Scores \cup {NoScore}]
      BY <1>3, <1>6
    <3>2. CASE score = NoScore
      <4>1. RecordJudgeScore(judgeScores[s], account, score) = judgeScores[s]
        BY <3>1, <3>2 DEF RecordJudgeScore
      <4> QED
        BY <1>1, <3>1, <3>2, <4>1
    <3>3. CASE score # NoScore
      <4> DEFINE row == [judgeScores[s] EXCEPT ![account] = score]
      <4>1. judgeScores' = [judgeScores EXCEPT ![s] = row]
        BY <1>1, <3>3 DEF RecordJudgeScore
      <4>2. /\ row \in [Accounts -> Scores \cup {NoScore}] /\ row[account] = score
            /\ \A a \in Accounts \ {account} : row[a] = judgeScores[s][a]
        BY <1>4, <3>1
      <4> HIDE DEF row
      <4> QED
        BY <3>3, <4>1, <4>2
    <3> QED
      BY <3>2, <3>3
  <2> QED
    BY <1>3, <1>6, <2>1
<1>8. overlapped' \subseteq SubmissionIds /\ overlapped \subseteq overlapped'
  BY <1>1, <1>2, <1>3 DEF DataOK
<1>9. DataOK'
  BY <1>1, <1>2, <1>7, <1>8 DEF DataOK
<1>10. Fits(call)'
  BY <1>1, <1>3, <1>5 DEF Fits
<1>11. Room'
  BY <1>1, <1>5, RoomKept DEF CreatePc
<1>12. \A t \in Winners' : t \in Winners /\ ~Pays(calls[c], t)
  BY <1>1 DEF Winners, Pays
<1>13. Recorded(call)'
  BY <1>0, <1>3, <1>5, <1>7 DEF Recorded, Saves
<1>14. ASSUME NEW d \in Calls \ {c}, NEW t \in SubmissionIds \ overlapped',
              Saves(calls[d], t)
       PROVE  judgeScores'[t][calls[d].account] = judgeScores[t][calls[d].account]
  <2>1. calls[d].account \in Accounts
    <3>1. calls[d] \in Call
      BY <1>2
    <3> QED
      BY <3>1, CallFields
  <2>2. CASE t = s /\ calls[d].account = account /\ score # NoScore
    <3>1. ScoresAtOnce(c)
      BY <1>0, <1>14, <2>2 DEF ScoresAtOnce, Saves
    <3> QED
      BY <1>1, <1>14, <2>2, <3>1
  <2> QED
    BY <1>7, <1>14, <2>1, <2>2
<1>15. ASSUME NEW t \in DOMAIN submissions \ overlapped'
       PROVE  \/ WillWrite(call, t)
              \/ t \in DOMAIN submissions /\ (Held(t) => Held(t)') /\ ~WillWrite(calls[c], t)
  <2>1. ~WillWrite(calls[c], t) /\ t \in SubmissionIds
    BY <1>1, <1>2, SubmissionsDomain DEF WillWrite, Saves
  <2>2. CASE t = s /\ score # NoScore
    BY <1>0, <1>5, <2>2 DEF WillWrite, Saves
  <2>3. CASE t # s \/ score = NoScore
    <3>1. judgeScores'[t] = judgeScores[t] /\ submissions' = submissions
      BY <1>1, <1>7, <2>1, <2>3
    <3> QED
      BY <2>1, <3>1 DEF Held
  <2> QED
    BY <2>2, <2>3
<1>16. deaths' >= deaths /\ event.version = event'.version /\ event'.judges = event.judges
  BY <1>1, DataNow
<1> QED
  BY <1>1, <1>5, <1>8, <1>9, <1>10, <1>11, <1>12, <1>13, <1>14, <1>15, <1>16, CallStep

LEMMA SaveStatusStep == ASSUME IInv, NEW c \in Calls, SaveStatus(c) PROVE IInv'
<1>0. PICK s, old, call :
         /\ s = calls[c].sub /\ old = calls[c]
         /\ call = IF old.verdict.status = "winner"
                   THEN [old EXCEPT !.pc = "getWinners", !.copy = NoVerdict] ELSE Idle
  OBVIOUS
<1>1. /\ old.pc = "saveStatus" /\ calls' = [calls EXCEPT ![c] = call]
      /\ submissions' = [submissions EXCEPT ![s] =
                            Updated(submissions[s], old.copy, old.verdict)]
      /\ UNCHANGED <<event, judgeScores, jobs, overlapped, started, deaths>>
  BY <1>0 DEF SaveStatus, At, Continue
<1>2. DataOK /\ calls \in [Calls -> Call] /\ old \in Call /\ Fits(old) /\ TypeOK
  BY <1>0, DataNow, CallNow DEF IInv
<1>3. /\ s \in DOMAIN submissions /\ s \in SubmissionIds /\ submissions[s] \in Submission
      /\ old.sub = s /\ old.account \in Accounts
  BY <1>0, <1>1, <1>2, SubmissionsDomain, CallFields DEF Fits
<1>4. old.verdict \in Judged /\ old.copy \in Judged
  BY <1>1, <1>2, CallFields DEF Fits
<1>5. PICK new \in Submission :
         /\ submissions' = [submissions EXCEPT ![s] = new]
         /\ new.status = Written(submissions[s].status, old.copy.status, old.verdict.status)
         /\ new.score = IF old.verdict.score = NoScore THEN submissions[s].score
                        ELSE Written(submissions[s].score, old.copy.score, old.verdict.score)
  <2> DEFINE status == Written(submissions[s].status, old.copy.status, old.verdict.status)
             score == IF old.verdict.score = NoScore THEN submissions[s].score
                      ELSE Written(submissions[s].score, old.copy.score, old.verdict.score)
             new == [submissions[s] EXCEPT !.status = status, !.score = score]
  <2>1. submissions' = [submissions EXCEPT ![s] = new]
    BY <1>1 DEF Updated
  <2>2. status \in SubmissionStatus /\ score \in Scores \cup {NoScore}
    BY <1>3, <1>4, VerdictTypes DEF Written, Submission
  <2> HIDE DEF status, score
  <2>3. new \in Submission /\ new.status = status /\ new.score = score
    BY <1>3, <2>2 DEF Submission
  <2> HIDE DEF new
  <2> QED
    BY <2>1, <2>3 DEF status, score
<1>6. /\ submissions' \in Seq(Submission) /\ Len(submissions') = Len(submissions)
      /\ DOMAIN submissions' = DOMAIN submissions /\ submissions'[s] = new
      /\ \A t \in DOMAIN submissions \ {s} : submissions'[t] = submissions[t]
  <2>1. submissions \in Seq(Submission) /\ DOMAIN submissions = 1 .. Len(submissions)
    BY <1>2, SubmissionsDomain DEF DataOK
  <2>2. /\ [submissions EXCEPT ![s] = new] \in Seq(Submission)
        /\ Len([submissions EXCEPT ![s] = new]) = Len(submissions)
    BY <1>3, <2>1, ExceptSeq
  <2> QED
    BY <1>3, <1>5, <2>1, <2>2, LenProperties
<1>7. DataOK'
  BY <1>1, <1>2, <1>6 DEF DataOK
<1>8. /\ Fits(call)' /\ call.pc \in {"idle", "getWinners"}
      /\ old.verdict.status = "winner" => call.pc = "getWinners" /\ call.sub = s
  <2>1. CASE old.verdict.status = "winner"
    <3>1. call \in Call /\ call.pc = "getWinners" /\ call.sub = s
      BY <1>0, <1>2, <1>3, <2>1, VerdictTypes DEF Call
    <3> QED
      BY <1>3, <1>6, <3>1 DEF Fits
  <2>2. CASE old.verdict.status # "winner"
    BY <1>0, <2>2, IdleFits DEF Fits
  <2> QED
    BY <2>1, <2>2
<1>9. Room'
  BY <1>1, <1>6, <1>8, RoomKept DEF CreatePc
<1>10. ASSUME NEW t \in Winners' PROVE Pays(call, t) \/ (t \in Winners /\ ~Pays(calls[c], t))
  <2>1. ~Pays(calls[c], t) /\ t \in DOMAIN submissions /\ submissions'[t].status = "winner"
    BY <1>0, <1>1, <1>6 DEF Pays, Winners
  <2>2. CASE t # s
    BY <1>6, <2>1, <2>2 DEF Winners
  <2>3. CASE t = s /\ old.verdict.status = "winner"
    BY <1>8, <2>3 DEF Pays
  <2>4. CASE t = s /\ old.verdict.status # "winner"
    <3>1. submissions[s].status = "winner"
      BY <1>5, <1>6, <2>1, <2>4 DEF Written
    <3> QED
      BY <2>1, <2>4, <3>1 DEF Winners
  <2> QED
    BY <2>2, <2>3, <2>4
<1>11. Recorded(call)'
  BY <1>8 DEF Recorded, Saves
<1>12. ASSUME deaths' = 0, NEW t \in DOMAIN submissions \ overlapped
       PROVE  Held(t)' \/ ((Held(t) => Held(t)') /\ ~WillWrite(calls[c], t))
  <2>1. CASE t = s /\ WillWrite(old, s)
    <3>1. /\ old.verdict.score # NoScore /\ old.copy.score # old.verdict.score /\ Saves(old, s)
      BY <1>1, <2>1 DEF WillWrite, Saves
    <3>2. submissions'[s].score = old.verdict.score
      BY <1>5, <1>6, <3>1 DEF Written
    <3>3. judgeScores[s][old.account] = old.verdict.score
      BY <1>0, <1>1, <1>3, <1>12, <2>1, <3>1 DEF IInv, AllRecorded, Recorded
    <3> QED
      BY <1>1, <1>3, <2>1, <3>2, <3>3 DEF Held
  <2>2. CASE t = s /\ ~WillWrite(old, s)
    <3>1. submissions'[s].score = submissions[s].score
      BY <1>1, <1>3, <1>5, <1>6, <2>2 DEF WillWrite, Saves, Written
    <3> QED
      BY <1>0, <1>1, <2>2, <3>1 DEF Held
  <2>3. CASE t # s
    <3>1. submissions'[t] = submissions[t] /\ ~WillWrite(calls[c], t)
      BY <1>0, <1>6, <2>3 DEF WillWrite, Saves
    <3> QED
      BY <1>1, <3>1 DEF Held
  <2> QED
    BY <2>1, <2>2, <2>3
<1>13. deaths' >= deaths
  BY <1>1, DataNow
<1> QED
  BY <1>1, <1>6, <1>7, <1>8, <1>9, <1>10, <1>11, <1>12, <1>13, CallStep

LEMMA EnqueueStep == ASSUME IInv, NEW c \in Calls, Enqueue(c) PROVE IInv'
<1>0. PICK old, job :
         /\ old = calls[c]
         /\ job = [winners |-> old.winners,
                   amount |-> AmountPerWinner(CHOOSE amount \in old.rewardAmount : TRUE,
                                              old.winners)]
  OBVIOUS
<1>1. /\ old.pc = "enqueue" /\ calls' = [calls EXCEPT ![c] = Idle]
      /\ jobs' = Append(jobs, job)
      /\ UNCHANGED <<event, submissions, judgeScores, overlapped, started, deaths>>
  BY <1>0 DEF Enqueue, Enqueued, At, End, Continue
<1>2. DataOK /\ old \in Call /\ Fits(old) /\ TypeOK /\ jobs \in Seq(Job)
  BY <1>0, DataNow, CallNow DEF IInv, DataOK
<1>3. job \in Job /\ job.winners = old.winners
  <2>1. PICK amount \in Nat : amount = CHOOSE a \in old.rewardAmount : TRUE
    <3>1. old.rewardAmount # {} /\ old.rewardAmount \in SUBSET Rewards
      BY <1>1, <1>2, CallFields DEF Fits
    <3> QED
      BY <3>1
  <2>2. /\ old.winners # {} /\ old.winners \in SUBSET SubmissionIds
    BY <1>1, <1>2, CallFields DEF Fits
  <2>3. PICK count \in Nat : count = Cardinality(old.winners) /\ count > 0
    <3>1. IsFiniteSet(SubmissionIds)
      BY FS_Interval DEF SubmissionIds
    <3>2. IsFiniteSet(old.winners)
      BY <2>2, <3>1, FS_Subset
    <3>3. Cardinality(old.winners) \in Nat /\ Cardinality(old.winners) # 0
      BY <2>2, <3>2, FS_CardinalityType, FS_EmptySet
    <3> QED
      BY <3>3
  <2>4. amount \div count \in Nat
    BY <2>3
  <2>5. job = [winners |-> old.winners, amount |-> amount \div count]
    BY <1>0, <2>1, <2>3 DEF AmountPerWinner
  <2> QED
    BY <2>2, <2>4, <2>5 DEF Job
<1>4. /\ jobs' \in Seq(Job) /\ jobs'[Len(jobs) + 1] = job
      /\ \A n \in DOMAIN jobs : n \in DOMAIN jobs' /\ jobs'[n] = jobs[n]
      /\ Len(jobs) + 1 \in DOMAIN jobs'
  <2>1. DOMAIN jobs = 1 .. Len(jobs) /\ Len(jobs) \in Nat
    BY <1>2, LenProperties
  <2>2. /\ jobs' \in Seq(Job) /\ Len(jobs') = Len(jobs) + 1
        /\ jobs'[Len(jobs) + 1] = job /\ \A n \in 1 .. Len(jobs) : jobs'[n] = jobs[n]
    BY <1>1, <1>2, <1>3, <2>1, AppendProperties
  <2>3. DOMAIN jobs' = 1 .. Len(jobs) + 1
    BY <2>2, LenProperties
  <2> QED
    BY <2>1, <2>2, <2>3
<1>5. DataOK'
  BY <1>1, <1>2, <1>4 DEF DataOK
<1>6. Fits(Idle)' /\ Recorded(Idle)'
  BY IdleFits DEF Fits, Recorded, Saves
<1>7. Room'
  BY <1>1, IdleFits, RoomKept DEF CreatePc
<1>8. ASSUME NEW s \in Winners' PROVE IsPaid(s)' \/ (s \in Winners /\ ~Pays(calls[c], s))
  <2>1. s \in Winners
    BY <1>1 DEF Winners
  <2>2. CASE Pays(calls[c], s)
    <3>1. s \in job.winners
      BY <1>0, <1>1, <1>3, <2>2 DEF Pays
    <3> QED
      BY <1>4, <3>1 DEF IsPaid
  <2> QED
    BY <2>1, <2>2
<1>9. \A s \in DOMAIN submissions : (Held(s) => Held(s)') /\ ~WillWrite(calls[c], s)
  BY <1>0, <1>1 DEF Held, WillWrite, Saves
<1>10. deaths' >= deaths
  BY <1>1, DataNow
<1> QED
  BY <1>1, <1>4, <1>5, <1>6, <1>7, <1>8, <1>9, <1>10, IdleFits, CallStep

\* What saving a call's copy of the event does to the event: a list of judges is written
\* only over the one the call has read.
LEMMA SavedEventIs ==
  ASSUME IInv, NEW c \in Calls, At(c, "saveEvent")
  PROVE  /\ SavedEvent(calls[c]) \in Event
         /\ SavedEvent(calls[c]).exists = event.exists
         /\ \/ /\ SavedEvent(calls[c]).version = event.version
               /\ SavedEvent(calls[c]).judges = event.judges
            \/ /\ SavedEvent(calls[c]).version = event.version + 1
               /\ SavedEvent(calls[c]).judges = Edited(event.judges, calls[c])
<1>0. PICK call, old : call = calls[c] /\ old = event
  OBVIOUS
<1>1. /\ call \in Call /\ call.copy \in Event /\ old \in Event
      /\ call.copy.version = old.version => call.copy.judges = old.judges
  BY <1>0, CallNow DEF Fits, At, TypeOK, IInv, CopiesFresh, Fresh
<1> DEFINE judges == Edited(call.copy.judges, call)
           newList == judges # call.copy.judges
           amount == IF call.rewardAmount \in {{}, {call.copy.rewardAmount}}
                     THEN old.rewardAmount ELSE CHOOSE amount \in call.rewardAmount : TRUE
<1>2. amount \in Rewards
  <2>1. old.rewardAmount \in Rewards /\ call.rewardAmount \in SUBSET Rewards
    BY <1>1, CallFields DEF Event
  <2> QED
    BY <2>1
<1>3. judges \in SUBSET Accounts
  <2>1. call.copy.judges \in SUBSET Accounts /\ call.judges \in SUBSET Accounts
    BY <1>1, CallFields DEF Event
  <2> QED
    BY <2>1 DEF Edited
<1>4. CASE old.exists /\ newList /\ old.version = call.copy.version
  <2> DEFINE new == [old EXCEPT !.judges = judges, !.version = old.version + 1,
                                !.rewardAmount = amount]
  <2>1. SavedEvent(call) = new
    BY <1>0, <1>4 DEF SavedEvent, SameVersion
  <2>2. judges = Edited(old.judges, call)
    BY <1>1, <1>4
  <2>3. old.version + 1 \in Nat
    BY <1>1 DEF Event
  <2> HIDE DEF judges, amount
  <2>4. /\ new \in Event /\ new.exists = old.exists /\ new.version = old.version + 1
        /\ new.judges = judges
    BY <1>1, <1>2, <1>3, <2>3 DEF Event
  <2> QED
    BY <1>0, <2>1, <2>2, <2>4
<1>5. CASE old.exists /\ ~newList
  <2> DEFINE new == [old EXCEPT !.judges = old.judges, !.version = old.version,
                                !.rewardAmount = amount]
  <2>1. SavedEvent(call) = new
    BY <1>0, <1>5 DEF SavedEvent
  <2> HIDE DEF amount
  <2>2. old.judges \in SUBSET Accounts /\ old.version \in Nat
    BY <1>1 DEF Event
  <2>3. /\ new \in Event /\ new.exists = old.exists /\ new.version = old.version
        /\ new.judges = old.judges
    BY <1>1, <1>2, <2>2 DEF Event
  <2> QED
    BY <1>0, <2>1, <2>3
<1>6. CASE ~old.exists \/ (newList /\ old.version # call.copy.version)
  <2>1. SavedEvent(call) = old
    BY <1>0, <1>6 DEF SavedEvent, SameVersion
  <2> QED
    BY <1>0, <1>1, <2>1
<1> QED
  BY <1>4, <1>5, <1>6

\* A step that changes the event, and ends its call.
LEMMA EventStep ==
  ASSUME IInv, NEW c \in Calls, calls[c].pc \in {"saveEvent", "deleteEvent"}, End(c),
         event' \in Event, event'.exists => event.exists,
         \/ event'.version = event.version /\ event'.judges = event.judges
         \/ event'.version > event.version,
         UNCHANGED <<submissions, judgeScores, jobs, overlapped, started, deaths>>
  PROVE  IInv'
<1>1. calls' = [calls EXCEPT ![c] = Idle] /\ DataOK'
  BY DataNow DEF End, Continue, DataOK
<1>2. Fits(Idle)' /\ Recorded(Idle)'
  BY IdleFits DEF Fits, Recorded, Saves
<1>3. Room'
  BY <1>1, IdleFits, RoomKept DEF CreatePc
<1>4. \A s \in Winners' : s \in Winners /\ ~Pays(calls[c], s)
  BY DEF Winners, Pays
<1>5. \A s \in DOMAIN submissions : (Held(s) => Held(s)') /\ ~WillWrite(calls[c], s)
  BY DEF Held, WillWrite, Saves
<1>6. deaths' >= deaths
  BY DataNow
<1> QED
  BY <1>1, <1>2, <1>3, <1>4, <1>5, <1>6, IdleFits, CallStep

LEMMA SaveEventStep == ASSUME IInv, NEW c \in Calls, SaveEvent(c) PROVE IInv'
<1>1. /\ At(c, "saveEvent") /\ calls[c].pc = "saveEvent" /\ event' = SavedEvent(calls[c])
      /\ End(c) /\ UNCHANGED <<submissions, judgeScores, jobs, overlapped, started, deaths>>
  BY DEF SaveEvent, At
<1>2. event.version \in Nat
  BY DataNow
<1> QED
  BY <1>1, <1>2, SavedEventIs, EventStep

LEMMA DeleteEventStep == ASSUME IInv, NEW c \in Calls, DeleteEvent(c) PROVE IInv'
<1>1. /\ calls[c].pc = "deleteEvent" /\ event' = [event EXCEPT !.exists = FALSE]
      /\ End(c) /\ UNCHANGED <<submissions, judgeScores, jobs, overlapped, started, deaths>>
  BY DEF DeleteEvent, At
<1>2. event \in Event
  BY DataNow DEF DataOK
<1>3. /\ event' \in Event /\ ~event'.exists /\ event'.version = event.version
      /\ event'.judges = event.judges
  BY <1>1, <1>2 DEF Event
<1> QED
  BY <1>1, <1>3, EventStep

LEMMA CrashStep == ASSUME IInv, Crash PROVE IInv'
<1>1. /\ calls' = [c \in Calls |-> Idle] /\ deaths < MaxDeaths /\ deaths' = deaths + 1
      /\ judgeScores' = [s \in SubmissionIds |-> [a \in Accounts |-> NoScore]]
      /\ UNCHANGED <<event, submissions, jobs, overlapped, started>>
  BY DEF Crash
<1>2. DataOK /\ deaths \in 0 .. MaxDeaths
  BY DataNow DEF DataOK
<1>3. deaths' \in 0 .. MaxDeaths /\ deaths' # 0
  BY <1>1, <1>2
<1>4. calls' \in [Calls -> Call] /\ \A c \in Calls : calls'[c] = Idle
  BY <1>1, IdleFits
<1>5. TypeOK'
  <2>1. judgeScores' \in [SubmissionIds -> [Accounts -> Scores \cup {NoScore}]]
    BY <1>1
  <2> QED
    BY <1>1, <1>2, <1>3, <1>4, <2>1 DEF DataOK, TypeOK
<1>6. AllFit' /\ CopiesFresh'
  BY <1>4, IdleFits DEF AllFit, Fits, CopiesFresh, Fresh
<1>7. Room'
  <2>1. Creating' = {}
    BY <1>4, IdleFits DEF Creating, AnyAt, At
  <2>2. Creating \in SUBSET Calls
    BY DEF Creating, AnyAt
  <2>3. Cardinality(Creating') = 0 /\ Cardinality(Creating) \in Nat
    BY <2>1, <2>2, FS_EmptySet, FS_Subset, FS_CardinalityType
  <2>4. /\ Len(submissions) \in Nat /\ MaxSubmissions \in Nat
        /\ Len(submissions) + Cardinality(Creating) <= MaxSubmissions
    BY DataNow DEF Room
  <2> QED
    BY <1>1, <2>3, <2>4 DEF Room
<1>8. WinnersKept' /\ AllRecorded' /\ ScoresKept'
  BY <1>3 DEF WinnersKept, AllRecorded, ScoresKept
<1> QED
  BY <1>5, <1>6, <1>7, <1>8 DEF IInv

-----------------------------------------------------------------------------
(* The theorems.                                                             *)

LEMMA NextIInv == IInv /\ [Next]_vars => IInv'
<1> SUFFICES ASSUME IInv, [Next]_vars PROVE IInv'
  OBVIOUS
<1>1. CASE Crash
  BY <1>1, CrashStep
<1>2. ASSUME NEW c \in Calls, Begin(c) PROVE IInv'
  BY <1>2, BeginStep
<1>3. ASSUME NEW c \in Calls, DatabaseFails(c) PROVE IInv'
  BY <1>3, DatabaseFailsStep
<1>4. ASSUME NEW c \in Calls, Step(c) PROVE IInv'
  <2>1. CASE CreateFindsEvent(c) \/ CheckDuplicate(c) \/ IsJudge(c) \/ IsHost(c)
             \/ FindToEdit(c)
    BY <2>1, ReadStep
  <2>2. CASE Insert(c)
    BY <2>2, InsertStep
  <2>3. CASE FindSubmission(c)
    BY <2>3, FindSubmissionStep
  <2>4. CASE FindToUpdate(c)
    BY <2>4, FindToUpdateStep
  <2>5. CASE SaveStatus(c)
    BY <2>5, SaveStatusStep
  <2>6. CASE GetWinners(c) \/ FindReward(c)
    BY <2>6, WinnersStep
  <2>7. CASE Enqueue(c)
    BY <2>7, EnqueueStep
  <2>8. CASE SaveEvent(c)
    BY <2>8, SaveEventStep
  <2>9. CASE DeleteEvent(c)
    BY <2>9, DeleteEventStep
  <2> QED
    BY <1>4, <2>1, <2>2, <2>3, <2>4, <2>5, <2>6, <2>7, <2>8, <2>9 DEF Step
<1>5. CASE UNCHANGED vars
  <2>1. UNCHANGED <<event, submissions, judgeScores, jobs, calls, overlapped, started, deaths>>
    BY <1>5 DEF vars
  <2>2. TypeOK' /\ AllFit' /\ CopiesFresh'
    BY <2>1 DEF IInv, TypeOK, AllFit, Fits, CopiesFresh, Fresh
  <2>3. Room'
    <3>1. Creating' = Creating
      BY <2>1 DEF Creating, AnyAt, At
    <3> QED
      BY <2>1, <3>1 DEF IInv, Room
  <2>4. WinnersKept' /\ AllRecorded' /\ ScoresKept'
    BY <2>1 DEF IInv, WinnersKept, Winners, IsPaid, AllRecorded, Recorded, ScoresKept, Held
  <2> QED
    BY <2>2, <2>3, <2>4 DEF IInv
<1> QED
  BY <1>1, <1>2, <1>3, <1>4, <1>5 DEF Next

LEMMA SpecIInv == Spec => []IInv
<1>1. Init => IInv
  BY InitIInv
<1>2. IInv /\ [Next]_vars => IInv'
  BY NextIInv
<1> QED
  BY <1>1, <1>2, PTL DEF Spec

\* Every variable keeps its type: above all, no score but one that was given or none is
\* ever recorded, and what a call names is there.
THEOREM TypeCorrect == Spec => []TypeOK
<1>1. IInv => TypeOK
  BY DEF IInv
<1> QED
  BY <1>1, SpecIInv, PTL

\* However verdicts interleave, a winner whose verdict is dealt with is paid by some job,
\* as long as the event exists and no call fails.
THEOREM WinnersAreEnqueued == Spec => []WinnerIsEnqueued
<1>1. IInv => WinnerIsEnqueued
  BY DEF IInv, WinnersKept, Pays, IsPaid, WinnerIsEnqueued, IsEnqueuing
<1> QED
  BY <1>1, SpecIInv, PTL

\* The score in a document is the latest score of one of its judges, however the calls that
\* record scores and save them interleave, as long as no judge scores a submission in two
\* calls at once and no call fails.
THEOREM ScoresAreJudges == Spec => []ScoreIsSomeJudges
<1>1. IInv => ScoreIsSomeJudges
  BY DEF IInv, ScoresKept, Held, WillWrite, Saves, ScoreIsSomeJudges, IsSaving
<1> QED
  BY <1>1, SpecIInv, PTL

\* Only a saved request of the host changes the judges.
LEMMA JudgesChange ==
  ASSUME IInv, [Next]_vars, event'.judges # event.judges
  PROVE  \E c \in Calls : SaveEvent(c)
<1>1. event \in Event
  BY DataNow DEF DataOK
<1>2. event' # event
  OBVIOUS
<1>3. ~Crash /\ ~UNCHANGED vars
  BY <1>2 DEF Crash, vars
<1>4. \A c \in Calls : ~Begin(c) /\ ~DatabaseFails(c)
  BY <1>2 DEF Begin, DatabaseFails, Create, ScoreSubmission, InviteJudges, RemoveJudge, Update,
              Delete, Start
<1>5. \A c \in Calls : ~DeleteEvent(c)
  <2> SUFFICES ASSUME NEW c \in Calls, DeleteEvent(c) PROVE FALSE
    OBVIOUS
  <2>1. event' = [event EXCEPT !.exists = FALSE]
    BY DEF DeleteEvent
  <2> QED
    BY <1>1, <2>1 DEF Event
<1>6. PICK c \in Calls : Step(c)
  BY <1>3, <1>4 DEF Next
<1>7. /\ ~CreateFindsEvent(c) /\ ~CheckDuplicate(c) /\ ~IsJudge(c) /\ ~IsHost(c)
      /\ ~FindToUpdate(c) /\ ~GetWinners(c) /\ ~FindReward(c) /\ ~FindToEdit(c)
  BY <1>2 DEF CreateFindsEvent, CheckDuplicate, IsJudge, IsHost, FindToUpdate, GetWinners,
              FindReward, FindToEdit, OnlyCalls
<1>8. ~Insert(c) /\ ~FindSubmission(c) /\ ~SaveStatus(c) /\ ~Enqueue(c)
  BY <1>2 DEF Insert, FindSubmission, SaveStatus, Enqueue
<1> QED
  BY <1>5, <1>6, <1>7, <1>8 DEF Step

LEMMA SavedAsAsked ==
  ASSUME IInv, NEW c \in Calls, SaveEvent(c), event'.judges # event.judges
  PROVE  /\ \A a \in event'.judges \ event.judges :
               EndsSave(c, {"invite", "update"}) /\ a \in calls[c].judges
         /\ \A a \in event.judges \ event'.judges :
               \/ EndsSave(c, {"remove"}) /\ a \in calls[c].judges
               \/ EndsSave(c, {"update"}) /\ a \notin calls[c].judges
<1>1. /\ At(c, "saveEvent") /\ event' = SavedEvent(calls[c])
      /\ calls' = [calls EXCEPT ![c] = Idle]
  BY DEF SaveEvent, End, Continue
<1>2. calls'[c] = Idle
  BY <1>1, DataNow
<1>3. event'.judges = Edited(event.judges, calls[c])
  BY <1>1, SavedEventIs
<1>4. calls[c].edit \in {"invite", "remove", "update"}
  BY <1>1, CallNow, CallFields DEF Fits, At
<1>5. CASE calls[c].edit = "invite"
  BY <1>1, <1>2, <1>3, <1>5 DEF Edited, EndsSave
<1>6. CASE calls[c].edit = "remove"
  BY <1>1, <1>2, <1>3, <1>6 DEF Edited, EndsSave
<1>7. CASE calls[c].edit = "update"
  BY <1>1, <1>2, <1>3, <1>7 DEF Edited, EndsSave
<1> QED
  BY <1>4, <1>5, <1>6, <1>7

\* An account becomes a judge only by a request that names it, and stops being one only by a
\* request that removes it or lists the judges without it: because a list is written only
\* over the one it was made from, no two requests undo each other.
THEOREM JudgesAsAsked == Spec => JudgesChangeAsAsked
<1> DEFINE AsAsked ==
      /\ \A a \in event'.judges \ event.judges :
            \E c \in Calls : EndsSave(c, {"invite", "update"}) /\ a \in calls[c].judges
      /\ \A a \in event.judges \ event'.judges :
            \E c \in Calls :
               \/ EndsSave(c, {"remove"}) /\ a \in calls[c].judges
               \/ EndsSave(c, {"update"}) /\ a \notin calls[c].judges
<1>1. IInv /\ [Next]_vars => [AsAsked]_vars
  <2> SUFFICES ASSUME IInv, [Next]_vars PROVE AsAsked
    OBVIOUS
  <2>1. CASE event'.judges = event.judges
    BY <2>1
  <2>2. CASE event'.judges # event.judges
    <3>1. PICK c \in Calls : SaveEvent(c)
      BY <2>2, JudgesChange
    <3> QED
      BY <2>2, <3>1, SavedAsAsked
  <2> QED
    BY <2>1, <2>2
<1> QED
  BY <1>1, SpecIInv, PTL DEF Spec, JudgesChangeAsAsked

===============================================================================
