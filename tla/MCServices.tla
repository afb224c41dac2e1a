----------------------------- MODULE MCServices -----------------------------
(***************************************************************************)
(* The services that keep their state to themselves, checked together.     *)
(* None reads or writes what another one has, so a behaviour of the whole  *)
(* is one behaviour of each, and it is enough to let one of them run at a  *)
(* time: part says which, all the others stay as they began.               *)
(***************************************************************************)
EXTENDS Services, Records

CONSTANTS k1, k2, k3     \* keys, users, sockets, endpoints, ... as the part needs

VARIABLES
    part     \* the component of this behaviour

\* Values of constants that a .cfg cannot write.
HourlyPattern == {<<1, -1>>}
OnePayout == {<<1, 1>>}
TwoThrottles == {[limit |-> 3, ttl |-> 1], [limit |-> 2, ttl |-> 4]}
ThreeAccountSets ==
    {{<<"eip155", "x">>}, {<<"sol", "y">>, <<"eip155", "x">>}, {<<"sol", "y">>}}

queueVars == <<queue, jobs, processing, isRunning, executing, jobTime>>
tasksVars == <<objects, tasks, taskTimers, started, live, runs, schedulerRuns, clock>>
cachedVars == <<cache, filling, imports, cacheTime>>
loginsVars == <<sessions, userSessions, created, sessionTime>>
limitsVars == <<limiter, record, timestamps, entry, bucket, grants, through, limitTime>>
retriesVars == <<method, attempt, delay, retryStep, onRetry, retryable, slept>>
breakerVars == <<failures, lastFailureTime, isOpen, inFlight, log, breakerTime>>
socketsVars == <<state, reconnectTimers, timers, pending>>
hooksVars == <<endpoints, deliveries, deliveryQueue, hookStep, hookTime>>
walletsVars == <<wallet, cached, walletCalls, txs, balance, funded, transactions,
                  deposits, watchers, crashes>>
emailsVars == <<emailQueue, emails, isProcessing, emailSent, crashed, emailTime>>
smtpVars == <<credentials, transporter, isConnected, reconnectAttempts, timer, verifying,
               mailQueue, loop, sending, mails, verifies>>
auditVars == <<logged, buffer, flushing, stored, removed, ticking, auditFailures>>
filesVars == <<uploads, disk, saving, deleting, given, clashed, count, uploadTime>>
dumpsVars == <<backups, metadata, archives, creating, backupDeletes, restoring, backupTime>>
featuresVars == <<service, cache_enabled, featureCache, metrics, featureCalls, featuresAsked>>
topicsVars == <<enabled, session, used, disconnecting, cleanup, cleaned, extended,
                 topicTime>>
sponsorVars == <<doc, requests, sponsorRequests, promised>>
verdictsVars == <<judgeScores, score, called>>
signersVars == <<userRole, tokens, tokenLogin, guarded, rolesHeld, roleLast, roleChanges,
                  tokenTime>>
listedVars == <<listing, listedDocs, newest, page, pageData, pageTotal, pagesGot,
                 repeated, atStart, came, went, torn>>
statusesVars == <<event, eventCalls, overtaken>>
entriesVars == <<eventExists, isTheJudge, submissions, entryCalls, entriesAtStart,
                  winnersSince, judgeSince, entryChanges>>
chainVars == <<contractConfig, factory, chainBlock, chainTx>>
contractVars == <<contractOp, contractCall, txLost, txStatus, txWait, txWaited>>
networkVars == <<networkInfo, networkCalls>>
measuredVars == <<counter, gauge, metricValues, timed, recorded, metricTime>>
logsVars == <<logToFile, currentLogFile, logBuffer, logFiles, logEntries, logCleared,
               logRemoved, logDay, logTime>>
teamVars == <<teams, teamCalls>>
routedVars == <<roleOf, eventThere, eventJudges, walletConfig, clientThere, request,
                 rolesSince, judgeSinceAsked, sameEvent, routeChanges>>

Parts ==
    {"job queue", "scheduler", "cache", "sessions", "rate limiter", "retries", "breaker",
     "reconnection", "webhooks", "escrow wallet", "email queue", "mail", "audit",
     "uploads", "backups", "features", "WalletConnect", "sponsors", "scores", "tokens",
     "pages", "event statuses", "submissions", "contract service", "network info",
     "metrics", "log files", "teams", "routes"}

\* A part that does not run needs only one of its initial states.
Init ==
    /\ part \in Parts
    /\ Queue!Init /\ Tasks!Init /\ Cached!Init /\ Logins!Init /\ Breaker!Init
    /\ Sockets!Init /\ Hooks!Init /\ Wallets!Init /\ Emails!Init /\ Audit!Init
    /\ Files!Init /\ Dumps!Init /\ Sponsor!Init /\ Verdicts!Init /\ Signers!Init
    /\ Statuses!Init /\ Measured!Init
    /\ Limits!Init
    /\ part # "rate limiter" => limiter = "fixed"
    /\ Retries!Init
    /\ part # "retries" => method = "execute"
    /\ Smtp!Init
    /\ part # "mail" => credentials
    /\ Features!Init
    /\ part # "features" => service = "payment" /\ cache_enabled
    /\ Topics!Init
    /\ part # "WalletConnect" => enabled
    /\ Listed!Init
    /\ part # "pages" => listing = "events" /\ newest = 0
    /\ Entries!Init
    /\ part # "submissions" => isTheJudge
    /\ Contract!Init
    /\ part # "contract service" => factory /\ contractOp = "fundEvent"
    /\ part = "network info" => contractConfig # "read"
    /\ part \notin {"contract service", "network info"} => contractConfig = "none"
    /\ Logs!Init
    /\ part # "log files" => logToFile
    /\ Team!Init
    /\ Routed!Init
    \* The event is a host's.  No route depends on two of judges, wallet and client.
    /\ roleOf[k1] = "host" /\ eventJudges \in {{}, {k2}}
    /\ clientThere = (walletConfig = "active")
    /\ eventJudges # {} => walletConfig = "active"
    /\ part # "routes" =>
        roleOf[k2] = "none" /\ eventJudges = {} /\ walletConfig = "none"

\* The step is p's own.
Only(p) ==
    /\ part = p /\ UNCHANGED part
    /\ p # "job queue" => UNCHANGED queueVars
    /\ p # "scheduler" => UNCHANGED tasksVars
    /\ p # "cache" => UNCHANGED cachedVars
    /\ p # "sessions" => UNCHANGED loginsVars
    /\ p # "rate limiter" => UNCHANGED limitsVars
    /\ p # "retries" => UNCHANGED retriesVars
    /\ p # "breaker" => UNCHANGED breakerVars
    /\ p # "reconnection" => UNCHANGED socketsVars
    /\ p # "webhooks" => UNCHANGED hooksVars
    /\ p # "escrow wallet" => UNCHANGED walletsVars
    /\ p # "email queue" => UNCHANGED emailsVars
    /\ p # "mail" => UNCHANGED smtpVars
    /\ p # "audit" => UNCHANGED auditVars
    /\ p # "uploads" => UNCHANGED filesVars
    /\ p # "backups" => UNCHANGED dumpsVars
    /\ p # "features" => UNCHANGED featuresVars
    /\ p # "WalletConnect" => UNCHANGED topicsVars
    /\ p # "sponsors" => UNCHANGED sponsorVars
    /\ p # "scores" => UNCHANGED verdictsVars
    /\ p # "tokens" => UNCHANGED signersVars
    /\ p # "pages" => UNCHANGED listedVars
    /\ p # "event statuses" => UNCHANGED statusesVars
    /\ p # "submissions" => UNCHANGED entriesVars
    \* The transaction, and what is read of the network, share nothing but the chain.
    /\ p \notin {"contract service", "network info"} => UNCHANGED chainVars
    /\ p # "contract service" => UNCHANGED contractVars
    /\ p # "network info" => UNCHANGED networkVars
    /\ p # "metrics" => UNCHANGED measuredVars
    /\ p # "log files" => UNCHANGED logsVars
    /\ p # "teams" => UNCHANGED teamVars
    /\ p # "routes" => UNCHANGED routedVars

Next ==
    \/ part = "job queue" /\ Queue!Next /\ Only("job queue")
    \/ part = "scheduler" /\ Tasks!Next /\ Only("scheduler")
    \/ part = "cache" /\ Cached!Next /\ Only("cache")
    \/ part = "sessions" /\ Logins!Next /\ Only("sessions")
    \/ part = "rate limiter" /\ Limits!Next /\ Only("rate limiter")
    \/ part = "retries" /\ Retries!Next /\ Only("retries")
    \/ part = "breaker" /\ Breaker!Next /\ Only("breaker")
    \/ part = "reconnection" /\ Sockets!Next /\ Only("reconnection")
    \/ part = "webhooks" /\ Hooks!Next /\ Only("webhooks")
    \/ part = "escrow wallet" /\ Wallets!Next /\ Only("escrow wallet")
    \/ part = "email queue" /\ Emails!Next /\ Only("email queue")
    \/ part = "mail" /\ Smtp!Next /\ Only("mail")
    \/ part = "audit" /\ Audit!Next /\ Only("audit")
    \/ part = "uploads" /\ Files!Next /\ Only("uploads")
    \/ part = "backups" /\ Dumps!Next /\ Only("backups")
    \/ part = "features" /\ Features!Next /\ Only("features")
    \/ part = "WalletConnect" /\ Topics!Next /\ Only("WalletConnect")
    \/ part = "sponsors" /\ Sponsor!Next /\ Only("sponsors")
    \/ part = "scores" /\ Verdicts!Next /\ Only("scores")
    \/ part = "tokens" /\ Signers!Next /\ Only("tokens")
    \/ part = "pages" /\ Listed!Next /\ Only("pages")
    \/ part = "event statuses" /\ Statuses!Next /\ Only("event statuses")
    \/ part = "submissions" /\ Entries!Next /\ Only("submissions")
    \/ part = "contract service" /\ Contract!Next /\ Only("contract service")
    \/ part = "network info" /\ Contract!Next /\ Only("network info")
    \/ part = "metrics" /\ Measured!Next /\ Only("metrics")
    \/ part = "log files" /\ Logs!Next /\ Only("log files")
    \/ part = "teams" /\ Team!Next /\ Only("teams")
    \/ part = "routes" /\ Routed!Next /\ Only("routes")

vars == <<part, queueVars, tasksVars, cachedVars, loginsVars, limitsVars,
          retriesVars, breakerVars, socketsVars, hooksVars, walletsVars, emailsVars,
          smtpVars, auditVars, filesVars, dumpsVars, featuresVars, topicsVars,
          sponsorVars, verdictsVars, signersVars, listedVars, statusesVars, entriesVars,
          chainVars, contractVars, networkVars, measuredVars, logsVars, teamVars, routedVars>>

Spec == Init /\ [][Next]_vars

-----------------------------------------------------------------------------
TypeOK ==
    /\ Queue!TypeOK /\ Tasks!TypeOK /\ Cached!TypeOK /\ Logins!TypeOK /\ Limits!TypeOK
    /\ Retries!TypeOK /\ Breaker!TypeOK /\ Sockets!TypeOK /\ Hooks!TypeOK /\ Wallets!TypeOK
    /\ Emails!TypeOK /\ Smtp!TypeOK /\ Audit!TypeOK /\ Files!TypeOK /\ Dumps!TypeOK
    /\ Features!TypeOK /\ Topics!TypeOK /\ Sponsor!TypeOK /\ Verdicts!TypeOK /\ Signers!TypeOK
    /\ Listed!TypeOK /\ Statuses!TypeOK /\ Entries!TypeOK /\ Contract!TypeOK
    /\ Measured!TypeOK /\ Logs!TypeOK /\ Team!TypeOK /\ Routed!TypeOK
=============================================================================
