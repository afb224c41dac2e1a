SPECIFICATION Spec
CONSTANTS
    Calls = {c1, c2}
    Accounts = {alice, bob}
    NONCE_TTL = 1
    MaxTime = 3
    MaxNonces = 3
    MaxStarts = 5
    MaxDeaths = 1
SYMMETRY Symmetry
INVARIANTS
    TypeOK
    OutdatedNonceOpensNothing
    UsedNonceIsGone
CHECK_DEADLOCK FALSE
