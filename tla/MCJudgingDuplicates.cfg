\* Two requests of one participant.
SPECIFICATION Spec
CONSTANTS
    host = host
    judge = judge
    winner = winner
    Calls = {c1, c2}
    Accounts = {host, judge, winner}
    Host = host
    InitialJudges = {judge}
    InitialSubmissions <- MCSubmissions
    Participants = {host}
    JudgeLists = {}
    Scores = {}
    GivenVerdicts = {}
    Rewards = {4}
    MaxSubmissions = 4
    MaxStarts = 2
    MaxDeaths = 0
SYMMETRY Symmetry
INVARIANT
    OneSubmissionEach
CHECK_DEADLOCK FALSE
