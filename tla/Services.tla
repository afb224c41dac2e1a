------------------------------ MODULE Services ------------------------------
(***************************************************************************)
(* Those of the services that keep their state to themselves of which more *)
(* than TLC can check is proved, with what they promise: the proofs are in *)
(* ServicesProofs, for any values of the constants.                        *)
(***************************************************************************)
EXTENDS Integers

CONSTANTS
    TaskIds, CronPatterns, HourLength, DayLength, MaxTasks, MaxTaskTimers, MaxRuns, MaxTaskTime,
    CacheKeys, maxSize, defaultTTL, Ttls, MaxFills, MaxCacheTime,
    Users, maxSessionsPerUser, sessionDuration, idleTimeout, slidingExpiration,
    MaxSessions, MaxSessionTime,
    threshold, timeout, MaxInFlight, MaxLog, MaxBreakerTime,
    SocketIds, maxReconnects, MaxTimers, MaxReconnects,
    Accounts, Host, MaxRouteChanges,
    Roles, defaultRole, TOKEN_EXPIRY, Requests, MaxRoleChanges, MaxTokenTime,
    Readers, Scores, topLimit, MaxSubmissions, MaxEntryChanges,
    maxConcurrency, jobAttempts, jobDelay, JobPriorities, JobDelays, MaxJobs, MaxJobTime,
    maxReconnectAttempts, MaxQueuedMails, MaxVerifies,
    bufferLimit, MaxEntries, MaxAuditFailures,
    HookIds, hookRetries, hookDelay, MaxDeliveries, MaxHookTime,
    MailPriorities, MailSchedules, mailRetries, MaxMails, MaxMailTime,
    windowMs, maxRequests, blockDuration, capacity, refillRate, refillInterval, recordAge,
    Throttles, MaxGrants, MaxLimitTime,
    maxAttempts, initialDelay, maxDelay, backoffMultiplier,
    FeatureKeys, max_retries, MaxFeatureCalls,
    keep, TimedCalls, MaxValues, MaxMetricTime,
    JudgedSubmissions, JudgesScores, MaxScorings

VARIABLES
    objects, tasks, taskTimers, started, live, runs, schedulerRuns, clock,
    cache, filling, imports, cacheTime,
    sessions, userSessions, created, sessionTime,
    failures, lastFailureTime, isOpen, inFlight, log, breakerTime,
    state, reconnectTimers, timers, pending,
    roleOf, eventThere, eventJudges, walletConfig, clientThere, request, rolesSince,
    judgeSinceAsked, sameEvent, routeChanges,
    userRole, tokens, tokenLogin, guarded, rolesHeld, roleLast, roleChanges, tokenTime,
    eventExists, isTheJudge, submissions, entryCalls, entriesAtStart, winnersSince,
    judgeSince, entryChanges,
    queue, jobs, processing, isRunning, executing, jobTime,
    credentials, transporter, isConnected, reconnectAttempts, timer, verifying, mailQueue,
    loop, sending, mails, verifies,
    logged, buffer, flushing, stored, removed, ticking, auditFailures,
    endpoints, deliveries, deliveryQueue, hookStep, hookTime,
    emailQueue, emails, isProcessing, emailSent, crashed, emailTime,
    limiter, record, timestamps, entry, bucket, grants, through, limitTime,
    method, attempt, delay, retryStep, onRetry, retryable, slept,
    service, cache_enabled, featureCache, metrics, featureCalls, featuresAsked,
    counter, gauge, metricValues, timed, recorded, metricTime,
    judgeScores, score, called

Tasks == INSTANCE Scheduler WITH
    Ids <- TaskIds, MaxTimers <- MaxTaskTimers, MaxTime <- MaxTaskTime,
    isRunning <- schedulerRuns, timers <- taskTimers
Cached == INSTANCE Cache WITH Keys <- CacheKeys, MaxTime <- MaxCacheTime, now <- cacheTime
Logins == INSTANCE Sessions WITH MaxTime <- MaxSessionTime, now <- sessionTime
Breaker == INSTANCE CircuitBreaker WITH MaxTime <- MaxBreakerTime, now <- breakerTime
Sockets == INSTANCE Reconnection WITH Sockets <- SocketIds, maxAttempts <- maxReconnects
Routed == INSTANCE Routes WITH
    MaxChanges <- MaxRouteChanges, users <- roleOf, exists <- eventThere,
    judges <- eventJudges, wallet <- walletConfig, configured <- clientThere,
    held <- rolesSince, wasJudge <- judgeSinceAsked, undisturbed <- sameEvent,
    changes <- routeChanges
Signers == INSTANCE Tokens WITH
    default <- defaultRole, MaxChanges <- MaxRoleChanges, MaxTime <- MaxTokenTime,
    users <- userRole, login <- tokenLogin, requests <- guarded, held <- rolesHeld,
    last <- roleLast, changes <- roleChanges, now <- tokenTime
Entries == INSTANCE Submissions WITH
    Calls <- Readers, limit <- topLimit, MaxChanges <- MaxEntryChanges,
    exists <- eventExists, judge <- isTheJudge, calls <- entryCalls,
    began <- entriesAtStart, winners <- winnersSince, judged <- judgeSince,
    changes <- entryChanges
Queue == INSTANCE JobQueue WITH
    maxAttempts <- jobAttempts, retryDelay <- jobDelay, Priorities <- JobPriorities,
    Delays <- JobDelays, MaxTime <- MaxJobTime, now <- jobTime
Smtp == INSTANCE Mail WITH MaxMails <- MaxQueuedMails
Audit == INSTANCE AuditBuffer WITH
    MaxFailures <- MaxAuditFailures, failures <- auditFailures
Hooks == INSTANCE Webhooks WITH
    Endpoints <- HookIds, maxRetries <- hookRetries, retryDelay <- hookDelay,
    MaxTime <- MaxHookTime, pc <- hookStep, now <- hookTime
Emails == INSTANCE EmailQueue WITH
    Priorities <- MailPriorities, Schedules <- MailSchedules, maxRetries <- mailRetries,
    MaxTime <- MaxMailTime, queue <- emailQueue, mails <- emails, sending <- emailSent,
    now <- emailTime
Limits == INSTANCE RateLimiter WITH MaxTime <- MaxLimitTime, now <- limitTime
Retries == INSTANCE RetryHandler WITH pc <- retryStep
Features == INSTANCE FeatureServices WITH
    Keys <- FeatureKeys, MaxCalls <- MaxFeatureCalls, cache <- featureCache,
    calls <- featureCalls, asked <- featuresAsked
Measured == INSTANCE Metrics WITH
    Calls <- TimedCalls, MaxTime <- MaxMetricTime, calls <- timed,
    values <- metricValues, now <- metricTime
Verdicts == INSTANCE JudgingScores WITH
    Submissions <- JudgedSubmissions, Scores <- JudgesScores, MaxCalls <- MaxScorings

-----------------------------------------------------------------------------
\* The sessions and the index of them by user agree, within the limit; the role in a token
\* outlives the user's by less than the token's lifetime; all submissions are shown only to
\* the host and to those who were judges; and every request comes to the route it is for,
\* which does it for those who have the role, answers truly and tells others nothing
\* (session.service.ts, auth.service.ts, submissions.service.ts, the controllers).
AccessIsRight ==
    /\ Logins!IndexAgrees /\ Signers!RolesAreNotOutlived /\ Entries!OnlyJudgesSeeAll
    /\ Routed!OwnRouteServes /\ Routed!DoneForTheEntitled /\ Routed!OthersLearnNothing
    /\ Routed!HostIsServed /\ Routed!AnswersAreTrue

\* No piece of work that was handed over is lost while the process runs, or done twice at
\* once: a queued job until it has ended, a mail whose sender still waits, an audit entry
\* whatever flush fails (queue.service.ts, mail.service.ts, audit.service.ts).
NoWorkIsLost == Queue!NoJobLost /\ Smtp!EveryMailHasAPlace /\ Audit!EveryEntryIsKept

\* What the limiters let through in any span of time is bounded, and what they say of it
\* is right (rate-limiter.service.ts, throttle.guard.ts, rate-limit.middleware.ts).
AllowedRate ==
    Limits!WindowRate /\ Limits!GuardRate /\ Limits!BucketRate /\ Limits!InfoIsKept

\* Counts of attempts and of calls agree with what was done, across retries and overlap
\* (retry-handler.ts, services/*.py); and statistics with the values they are of
\* (metrics.service.ts).
CountsAddUp ==
    Retries!AttemptsAddUp /\ Features!EveryCallIsCounted /\ Measured!StatsAreOfTheLast

\* No queue rests with something in it that could be sent, and the head of the queue of
\* webhooks is what is being sent (webhook.service.ts, email.service.ts).
QueuesAreServed == Hooks!QueueIsServed /\ Emails!RestsBeforeScheduled

\* A task that is shown as active has a timer that will fire (scheduler.service.ts).
ActiveTaskHasTimer == Tasks!ActiveTaskHasTimer

\* A task that was stopped starts no more, not even by a timer that the map of timers has
\* forgotten (scheduler.service.ts).
StoppedIsQuiet == Tasks!StoppedIsQuiet

\* Factories that end in any order do not fill the cache past maxSize (cache.service.ts).
OnlyImportsOverfill == Cached!OnlyImportsOverfill

\* The circuit opens after a run of failures, and only then (retry-handler.ts).
OpenAfterRunOfFailures == Breaker!OpenAfterRunOfFailures

\* Reconnections are counted for attempts that were made (reconnection-handler.ts).
ReconnectsHadAttempts == Sockets!ReconnectsHadAttempts

\* One judge who differs from four or more has no part in the score, and the ranking
\* follows the scores; and what is counted of the submissions agrees, whoever counts it
\* (judging.service.ts, submissions.service.ts).
ScoresAreRight ==
    Verdicts!DissenterIsOutvoted /\ Verdicts!RankingFollowsScores /\ Entries!ReadersAgree
=============================================================================
