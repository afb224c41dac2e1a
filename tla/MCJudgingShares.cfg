\* The host marks the submissions as winners, one or two at a time.
SPECIFICATION Spec
CONSTANTS
    host = host
    judge = judge
    winner = winner
    Calls = {c1, c2}
    Accounts = {host, judge, winner}
    Host = host
    InitialJudges = {judge}
    InitialSubmissions <- MCSubmissions
    Participants = {}
    JudgeLists = {}
    Scores = {1, 2}
    GivenVerdicts <- MCVerdicts
    Rewards = {4}
    MaxSubmissions = 2
    MaxStarts = 2
    MaxDeaths = 0
SYMMETRY Symmetry
INVARIANT
    EqualDistribution
CHECK_DEADLOCK FALSE
