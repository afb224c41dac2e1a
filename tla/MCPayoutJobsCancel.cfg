SPECIFICATION Spec
CONSTANTS
    Calls = {c1, c2}
    maxRetries = 1
    BatchLimit = 2
    MaxJobs = 1
    MaxStarts = 2
    MaxDeaths = 0
PROPERTY
    CancelledIsNotSent
CHECK_DEADLOCK FALSE
