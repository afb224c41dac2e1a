SPECIFICATION FairSpec
CONSTANTS
    Calls = {c1, c2}
    maxRetries = 1
    BatchLimit = 1
    MaxJobs = 2
    MaxStarts = 3
    MaxDeaths = 1
PROPERTIES
    CallsEnd
    JobsSettle
CHECK_DEADLOCK FALSE
