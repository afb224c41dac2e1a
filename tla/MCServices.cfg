SPECIFICATION Spec
CONSTANTS
    k1 = k1
    k2 = k2
    k3 = k3
    TaskIds = {k1}
    CronPatterns <- HourlyPattern
    HourLength = 2
    DayLength = 4
    MaxTasks = 2
    MaxTaskTimers = 3
    MaxRuns = 1
    MaxTaskTime = 1
    CacheKeys = {k1, k2, k3}
    maxSize = 1
    defaultTTL = 1
    Ttls = {0}
    MaxFills = 1
    MaxCacheTime = 1
    Users = {k1, k2}
    maxSessionsPerUser = 2
    sessionDuration = 1
    idleTimeout = 1
    slidingExpiration = TRUE
    MaxSessions = 4
    MaxSessionTime = 2
    threshold = 2
    timeout = 1
    MaxInFlight = 3
    MaxLog = 6
    MaxBreakerTime = 3
    SocketIds = {k1, k2}
    maxReconnects = 1
    MaxTimers = 3
    MaxReconnects = 2
    Accounts = {k1, k2}
    Host = k1
    MaxRouteChanges = 1
    Roles = {1, 2}
    defaultRole = 1
    TOKEN_EXPIRY = 2
    Requests = {k1}
    MaxRoleChanges = 2
    MaxTokenTime = 3
    Readers = {k1}
    Scores = {0, 50}
    topLimit = 1
    MaxSubmissions = 2
    MaxEntryChanges = 4
    maxConcurrency = 2
    jobAttempts = 2
    jobDelay = 1
    JobPriorities = {0, 1}
    JobDelays = {0}
    MaxJobs = 2
    MaxJobTime = 1
    maxReconnectAttempts = 2
    MaxQueuedMails = 2
    MaxVerifies = 3
    bufferLimit = 2
    MaxEntries = 3
    MaxAuditFailures = 1
    HookIds = {k1, k2}
    hookRetries = 2
    hookDelay = 1
    MaxDeliveries = 2
    MaxHookTime = 1
    MailPriorities = {0, 1}
    MailSchedules = {0, 1}
    mailRetries = 2
    MaxMails = 2
    MaxMailTime = 1
    windowMs = 2
    maxRequests = 2
    blockDuration = 1
    capacity = 2
    refillRate = 1
    refillInterval = 2
    recordAge = 3
    Throttles <- TwoThrottles
    MaxGrants = 5
    MaxLimitTime = 5
    maxAttempts = 3
    initialDelay = 4
    maxDelay = 6
    backoffMultiplier = 2
    FeatureKeys = {k1}
    max_retries = 2
    MaxFeatureCalls = 2
    keep = 2
    TimedCalls = {k1}
    MaxValues = 3
    MaxMetricTime = 1
    JudgedSubmissions = {1, 2}
    JudgesScores = {0, 60, 100}
    MaxScorings = 5
    TopicIds = {k1, k2}
    AccountSets <- ThreeAccountSets
    Ethereum = {"x"}
    MaxTopicTime = 1
    WalletCalls = {k1, k2}
    Payouts <- OnePayout
    MaxFunds = 2
    MaxCrashes = 1
    confirmations = 2
    NetworkCallers = {k1, k2}
    MaxBlock = 2
    FileNames = {k1, k2}
    MaxUploads = 2
    MaxUploadTime = 1
    maxBackups = 1
    retention = 0
    MaxCreated = 2
    MaxBackupTime = 1
    bufferSize = 2
    maxFileSize = 1
    maxFiles = 1
    MaxLogEntries = 3
    MaxDays = 2
    MaxLogTime = 5
    SponsorEvents = {k1, k2}
    MaxSponsorRequests = 4
    StatusCalls = {k1, k2}
    pageSize = 2
    MaxDocs = 4
    MaxPageChanges = 2
    TeamUsers = {k1, k2}
    TeamNames = {1, 2}
    TeamCalls = {k1, k2}
    MaxTeams = 2
INVARIANTS
    TypeOK
    NoWorkIsLost
    ActiveTaskHasTimer
    StoppedIsQuiet
    OnlyImportsOverfill
    AccessIsRight
    AllowedRate
    CountsAddUp
    OpenAfterRunOfFailures
    ReconnectsHadAttempts
    QueuesAreServed
    BooksMatchTheChain
    FilesMatchRecords
    DocumentsAreAsAsked
    WalletSessionsAreRight
    ScoresAreRight
CHECK_DEADLOCK FALSE
