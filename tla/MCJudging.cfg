SPECIFICATION Spec
CONSTANTS
    host = host
    judge = judge
    winner = winner
    Calls = {c1, c2}
    Accounts = {host, judge, winner}
    Host = host
    InitialJudges = {judge}
    InitialSubmissions <- MCSubmissions
    Participants = {host}
    JudgeLists <- MCJudgeLists
    Scores = {1, 2}
    GivenVerdicts <- MCVerdicts
    Rewards = {3, 4}
    MaxSubmissions = 3
    MaxStarts = 3
    MaxDeaths = 1
SYMMETRY Symmetry
INVARIANTS
    TypeOK
    WinnerIsEnqueued
    ScoreIsSomeJudges
PROPERTIES
    JudgesChangeAsAsked
CHECK_DEADLOCK FALSE
