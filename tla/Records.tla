------------------------------ MODULE Records ------------------------------
(***************************************************************************)
(* The services that keep documents, files and books, side by side, and    *)
(* what they promise; the proofs are in RecordsProofs, for any values of   *)
(* the constants.                                                          *)
(***************************************************************************)
EXTENDS Integers

CONSTANTS
    TopicIds, AccountSets, Ethereum, MaxTopicTime,
    WalletCalls, Payouts, MaxFunds, MaxCrashes,
    confirmations, NetworkCallers, MaxBlock,
    FileNames, MaxUploads, MaxUploadTime,
    maxBackups, retention, MaxCreated, MaxBackupTime,
    bufferSize, maxFileSize, maxFiles, MaxLogEntries, MaxDays, MaxLogTime,
    SponsorEvents, MaxSponsorRequests,
    StatusCalls,
    pageSize, MaxDocs, MaxPageChanges,
    TeamUsers, TeamNames, TeamCalls, MaxTeams

VARIABLES
    enabled, session, used, disconnecting, cleanup, cleaned, extended, topicTime,
    wallet, cached, walletCalls, txs, balance, funded, transactions, deposits, watchers,
    crashes,
    contractConfig, factory, chainBlock, chainTx, contractOp, contractCall, txLost,
    txStatus, txWait, txWaited, networkInfo, networkCalls,
    uploads, disk, saving, deleting, given, clashed, count, uploadTime,
    backups, metadata, archives, creating, backupDeletes, restoring, backupTime,
    logToFile, currentLogFile, logBuffer, logFiles, logEntries, logCleared, logRemoved,
    logDay, logTime,
    doc, requests, sponsorRequests, promised,
    event, eventCalls, overtaken,
    listing, listedDocs, newest, page, pageData, pageTotal, pagesGot, repeated, atStart,
    came, went, torn,
    teams, teamCalls

Topics == INSTANCE WalletConnect WITH
    Topics <- TopicIds, Accounts <- AccountSets, MaxTime <- MaxTopicTime, now <- topicTime
Wallets == INSTANCE EscrowWallet WITH Calls <- WalletCalls, calls <- walletCalls
Contract == INSTANCE ContractService WITH
    Callers <- NetworkCallers, config <- contractConfig, block <- chainBlock, tx <- chainTx,
    op <- contractOp, call <- contractCall, lost <- txLost, status <- txStatus,
    wait <- txWait, waited <- txWaited, calls <- networkCalls
Files == INSTANCE Uploads WITH
    Names <- FileNames, MaxTime <- MaxUploadTime, now <- uploadTime
Dumps == INSTANCE Backups WITH
    MaxTime <- MaxBackupTime, disk <- archives, deleting <- backupDeletes, now <- backupTime
Logs == INSTANCE LogFiles WITH
    keep <- bufferSize, MaxEntries <- MaxLogEntries, MaxTime <- MaxLogTime,
    files <- logFiles, entries <- logEntries, cleared <- logCleared, removed <- logRemoved,
    today <- logDay, now <- logTime
Sponsor == INSTANCE Sponsors WITH
    Events <- SponsorEvents, MaxRequests <- MaxSponsorRequests, asked <- sponsorRequests
Statuses == INSTANCE EventStatuses WITH Calls <- StatusCalls, calls <- eventCalls
Listed == INSTANCE Pages WITH
    limit <- pageSize, MaxChanges <- MaxPageChanges, data <- pageData, total <- pageTotal,
    docs <- listedDocs, got <- pagesGot
Team == INSTANCE Teams WITH
    Users <- TeamUsers, Names <- TeamNames, Calls <- TeamCalls, calls <- teamCalls

-----------------------------------------------------------------------------
\* The clean-up of WalletConnect sessions takes only what has expired, and the ways to ask
\* for a session's addresses, and to count sessions, agree (walletconnect.service.ts).
WalletSessionsAreRight ==
    Topics!OnlyExpiredAreCleaned /\ Topics!AddressChecksAgree /\ Topics!StatsAgree

\* Every transfer of the escrow wallet has its record, and none is sent twice; what is said
\* of a transaction or of the network the chain has had (wallet/escrow.service.ts,
\* contract.service.ts).
BooksMatchTheChain ==
    Wallets!EveryPaymentIsRecorded /\ Contract!ReportsAreTrue /\ Contract!InfoIsOfOneRefresh

\* Records and files agree: uploads, backups that are said to be complete, and the log that
\* is kept (file-upload.service.ts, backup.service.ts, logger.service.ts).
FilesMatchRecords == Files!RecordsMatchFiles /\ Dumps!CompletedHasArchive /\ Logs!LogsAreKept

\* Requests that overlap: a confirmed addition to a sponsor, or a confirmed change of an
\* event, is undone by no other, no two teams of an event get one name, however many find
\* it free, and a walk through the pages misses only what changed meanwhile
\* (sponsors.service.ts, events.service.ts, teams.service.ts, the listings).
DocumentsAreAsAsked ==
    /\ Sponsor!AddedEventStays /\ Statuses!StatusIsAsAsked /\ Listed!WalkSeesAll
    /\ Team!NamesAreUnique
=============================================================================
