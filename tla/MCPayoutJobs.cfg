SPECIFICATION Spec
CONSTANTS
    Calls = {c1, c2}
    maxRetries = 1
    BatchLimit = 2
    MaxJobs = 2
    MaxStarts = 3
    MaxDeaths = 1
SYMMETRY Symmetry
INVARIANTS
    TypeOK
    PaidOnceUnlessInDoubt
    PayableIsUnpaid
    CompletedIsPaid
    ProcessingHasCall
CHECK_DEADLOCK FALSE
