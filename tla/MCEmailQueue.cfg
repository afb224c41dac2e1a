SPECIFICATION Spec
CONSTANTS
    Priorities = {0, 1}
    Schedules = {0, 1}
    maxRetries = 2
    MaxMails = 2
    MaxTime = 1
INVARIANT
    GivenUpAfterRetries
CHECK_DEADLOCK FALSE
