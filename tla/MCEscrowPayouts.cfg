SPECIFICATION Spec
CONSTANTS
    admin = admin
    host = host
    judge = judge
    Accounts = {admin, host, judge}
    Contracts = {host, judge}
    Admin = admin
    InitialGrants <- MCGrants
    RoleChanges <- MCRoleChanges
    ETH = eth
    Tokens = {eth, erc20}
    Amounts = {2}
    StrayAmounts = {1}
    SignatureCounts = {2}
    Batches <- MCBatches
    MIN_REQUIRED_SIGNATURES = 2
    MAX_BATCH_SIZE = 2
    EMERGENCY_TIMELOCK = 1
    MaxStray = 1
    Events = {1}
    MaxPools = 1
    MaxRequests = 2
    MaxTotal = 4
    MaxTime = 2
INVARIANTS
    TypeOK
    PaidIsExecuted
    QuorumBeforePayout
PROPERTIES
    NoticeBeforeReturn
    ImplementsCustody
