SPECIFICATION Spec
CONSTANTS
    Calls = {c1, c2}
    Accounts = {alice}
    NONCE_TTL = 1
    MaxTime = 3
    MaxNonces = 1
    MaxStarts = 3
    MaxDeaths = 0
SYMMETRY Symmetry
INVARIANT
    OneTimeUse
CHECK_DEADLOCK FALSE
