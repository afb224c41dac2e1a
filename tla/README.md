# Verification of hacknest-backend

TLA+ models of the prize escrow contract and the backend of Hacknest, a platform
for hackathons and grants, with the TLC runs that check them and the theorems
that TLAPS proves about them. `src/` below is the repository.

## 1. Inventory

The repository has three parts: the Solidity contract `PrizePoolEscrow`
(`src/backend/contracts`), a NestJS backend on MongoDB (`src/backend/src`), and twenty
Python files that are copies of one cache-and-retry skeleton (`src/src/services`). The
`AppModule` wires Auth, Users, Events, Submissions, Judging, Web3, Jobs and Wallet;
the other backend modules are written but no module imports them.

| Component | State | Operations | What is hard |
|---|---|---|---|
| Prize escrow (contract) | pools, payout requests with approvals, winners, roles, pause flag, balances | create, fund, request, approve (and execute), reject, emergency withdrawal, refund, lock, pause, roles | sending ETH runs the recipient's code in the middle of a function; one balance is shared by all pools; a revert undoes everything |
| Payout jobs (`jobs/`, `web3/contract.service.ts`) | job documents, transactions | enqueue, process, process pending, retry, cancel | every call is suspended at every await, documents are saved over newer versions, an answer or a receipt can be lost, the process can stop |
| Judging (`judging/`) | scores in memory, submission status | score, mark winner (enqueues a payout job), rank | two judges marking winners at once; a job per mark, for all winners so far |
| Submissions, Events | documents with status, judges and participants | create, update, bulk update, invite, remove, publish, close | find-then-save races; status changes without a current check |
| Sign-in (`auth/`, `users/`) | one nonce per address, users, tokens | issue nonce, log in, refresh | validate and consume are two database calls |
| Wallets (`wallet/`) | the encrypted wallet and a cache of it, deposits, payouts, their records | generate, load, deactivate, record deposit, execute payout, await confirmation | a cached wallet outlives its deactivation; the balance is read before the transfer; the record is saved after it; a timeout races the confirmation |
| Contract service (`web3/`) | provider, signer, the last network information | send, wait, status, refresh | each answer is put together from several reads of a chain that moves on |
| Job queue, scheduler, cache, sessions, rate limiters (`common/services`, `common/guards`, `common/middleware`) | maps in memory, timers | add, process, pause, schedule, expire, evict, refill, refresh | a job's timeout races its callback; timers that the map has forgotten; limits and windows at their boundaries |
| Retries, circuit breaker, reconnection (`common/utils`, `common/websocket`) | closures, states by socket, timers | execute, open, half-open, reconnect, reset | calls overlap; replaced timers fire late |
| Webhooks, notification mails, SMTP, audit log | queues, documents | trigger, deliver, retry, flush, clear, reconnect | the head of a queue is taken before an await and removed after it; flushes overlap and fail |
| Uploads, backups, log files, metrics | records in memory, files | upload, delete, back up, clean up, rotate, record | a record and its file change in different steps |
| WalletConnect (`auth/walletconnect.service.ts`) | the client library's sessions | verify, disconnect, clean up | a list read before awaits; wallets act at any time |
| HTTP layer (controllers, guards, `main.ts`) | routes, the request being answered | route, authenticate, validate, answer | roles, judges and the event change between the guard, the handler's reads and its save; errors that are no `HttpException` |
| Sponsors, teams, and the listings of events, users, sponsors and teams | documents | create, edit, delete, page through | copies of documents, a check before a save, a page and its count from different moments |
| Python services (`src/services`) | cache and counts | process, retry, metrics | coroutines share a cache and counters |
| Prizes, activity, comments, notifications, analytics, health | documents | membership, awards, logs, reads | not reachable or without effect as written, see section 6 |

How they interact: judging calls events (who may judge), submissions (status) and jobs
(`enqueuePayout`); jobs call the contract service, which sends transactions and waits
for receipts; the wallet service sends transfers of its own. The backend holds the
contract's ABI, but no service calls the escrow contract: the two meet only through
their users. The remaining services keep what they have to themselves: none calls another
one or shares a document with it.

What makes each component correct, in short: the escrow stays solvent, its books add
up, payouts have their quorum, money never leaves twice or early; a job is paid once
and its record agrees with the chain; a winner is paid the announced share once; a
nonce opens one session; statuses only move along their diagram; counters and maps of
the in-memory services stay within their limits and nothing in them waits for ever.

`PROJECT.json` lists every component with its status and the hazards with their lines.

## 2. Modules

| Module | What it is |
|---|---|
| `PrizePoolEscrow` | the contract, with callbacks and reverts |
| `PrizeCustody` | what the contract promises, one step per transaction; `PrizePoolEscrow` implements it |
| `PrizePoolEscrowProofs` | theorems about `PrizePoolEscrow`: types, ledger, quorum, pools that end, money that goes back, the sums in its books, and that it implements `PrizeCustody` |
| `MCPrizePoolEscrow` | constants for TLC (two configurations) |
| `PayoutJobs` | the payout job queue and the transactions it sends (three configurations) |
| `PayoutJobsProofs` | theorems about `PayoutJobs` |
| `Judging` | one event: its judges, submissions, scores, and the jobs that verdicts enqueue |
| `MCJudging` | constants and symmetry for TLC (three configurations) |
| `JudgingProofs` | theorems about `Judging` |
| `SignIn` | nonces, logins and users (two configurations) |
| `SignInProofs` | theorems about `SignIn` |
| `EscrowWallet` | the custodial wallet: generating, loading, deposits, payouts |
| `Routes` | from a request to its answer: every route that is mounted, its guards, what its handler finds |
| `ContractService` | sending, waiting for and asking about transactions; what is read of the network |
| `JobQueue`, `Scheduler`, `Cache`, `Sessions`, `RateLimiter` | the in-memory services |
| `RetryHandler`, `CircuitBreaker`, `Reconnection` | retry loops, the circuit breaker, WebSocket reconnection |
| `Webhooks`, `EmailQueue`, `Mail`, `AuditBuffer` | queues that are worked on across awaits |
| `Uploads`, `Backups`, `LogFiles`, `Metrics` | files and their records, statistics |
| `WalletConnect`, `Tokens` | wallets' sessions; what a token is good for |
| `JudgingScores`, `Submissions`, `EventStatuses`, `Pages` | aggregated scores, readers of submissions, an event's status, paginated reads |
| `Sponsors`, `Teams`, `FeatureServices` | one sponsor's document; the teams of the events; the Python services |
| `Services` | `Sessions`, `CircuitBreaker`, `Reconnection`, `Cache`, `Scheduler`, `Routes`, `Tokens`, `Submissions`, `JobQueue`, `Mail`, `AuditBuffer`, `RetryHandler`, `FeatureServices`, `Metrics`, `EmailQueue`, `Webhooks`, `RateLimiter` and `JudgingScores` side by side, and what they promise together |
| `ServicesProofs` | theorems about the first eleven of these and about `Services` |
| `DeliveryProofs` | theorems about the other seven, what stands between a request and its effect, and about what is computed of submissions |
| `Records` | `WalletConnect`, `EscrowWallet`, `ContractService`, `Uploads`, `Backups`, `LogFiles`, `Sponsors`, `EventStatuses`, `Pages` and `Teams` side by side, and what they promise together |
| `RecordsProofs` | theorems about these ten: what has to match something outside, and requests that overlap on documents |
| `MCServices` | extends `Services` and `Records`: twenty-eight of the modules above in one specification for TLC |
| `MCServicesProofs` | theorems about `MCServices`: what is proved of the parts holds of the whole |
| `MCEmailQueue.cfg` | runs `EmailQueue` by itself |

### PrizePoolEscrow

State. `storage` is all a transaction can change: `prizePools`, `payoutRequests`,
`eventWinners`, the counters, the roles, `paused` (the contract's own variables, by
their names) and `balance`, what the contract holds of each token. Three histories
complete it: ETH received for no pool (`stray`), and what each pool has `paid` and
`returned`. `committed` is `storage` as of the last finished transaction. `frame` is the
function that is sending money and how far it is, `now` the block's timestamp.

Actions. Each external function is an action with the function's `require`s as guards
and its assignments as effects. A function that sends no ETH is one step; `fundPool`
is two actions for its two branches, `approvePayout` two, without and with the last
signature. `_executePayout` is a frame: `ApproveAndExecute` opens it, then each
transfer is `TransferToRecipient` and, when the recipient's code has returned,
`TransferReturns`, and `FinishPayout` does the subtraction at the end.
`executeEmergencyWithdraw` and `refundPool` empty the pool, send (`ReturnToHost`) and
finish. While `frame.callee` runs, that account may call every function, the
`nonReentrant` ones excepted (they require an idle frame, as the guard's flag does);
the private `_executePayout` is `nonReentrant` too, so an approval from inside a callback
that would execute is not possible, and one that would not is. `Revert` may end
any frame at any point and puts `committed` back.

Abstracted: `createdAt` is the flag `exists`; `reason`, `lockUntil` and other timestamps
nothing reads are left out; roles are those of OpenZeppelin's AccessControl as the
contract uses it; ERC20 tokens transfer exactly the amount asked for and call nobody.

Two places where the documentation reads otherwise, checked as the code has it: a
payout is approved by judges *or admins* (README.md:93 "Judges approve"), and
`Approved` is a status no function assigns (README.md:86).

### PrizeCustody

A vault is opened with a quorum, takes deposits, releases the amount of a pending
request once when enough different signers stand behind it, or returns all that is
left, and is closed for good when nothing is left. `ImplementsCustody` maps the
committed storage to it: every transaction, with all its callbacks, is one step of
every vault and request it touches.

### PayoutJobs

State. `jobs` are the job documents (`status` and the kind of `result`); `calls` are the
requests being handled, each with its place in the code (`pc`), the jobs it still has
to do, the status on its own copy of the document, its attempt count and the state
of the transaction it waits for. `chain` counts the payments made for each job and the
transactions nobody waits for any longer. `doubts` is history: what befell a job that
can have it paid twice.

Actions. A step is the code between two awaits. `processJob` is `Find`,
`SaveProcessing`, then attempts and waits; the catch block and the final save are
`AttemptFails`. `await eventContract.distribute(...)` (contract.service.ts:268) may answer
(`Broadcast`), reject with nothing sent (`NotSent`), or reject although the node has taken
the transaction (`AnswerLost`); `tx.wait()` may answer (`Completed`), throw for a reverted
transaction (`Reverted`) or for one that is mined or will be (`ReceiptLost`). The catch at 282
answers `success: false` in each case, and the loop of `processJob` sends again.
`processPendingPayouts` and `retryAllFailedJobsForEvent` run over the list they found;
`retryFailedJob` is a list of one, with `FindFailed` and `SavePending` before;
`cancelJob` is `CancelJob` (the read and its check) and `SaveCancelled`. `Save` writes
over whatever the document has become. `DatabaseFails` ends a call (caught by
`retryAllFailedJobsForEvent` alone; `return job.save()` is outside the reach of the
`try` around it, since it is not awaited), possibly after a last attempt whose answer was
lost (`LostUnsaved`); `Crash` ends them all.

Abstracted: the winners and amounts of a job (a payment pays the job), times and
delays, other job types. The chain is external: a transaction is mined, reverts, or is
abandoned and then mined or dropped. `chain` here and `tx` in `ContractService` are two
views of it: there the reads of one transaction's state are what matters.

### Judging

State. `event` (its judges with Mongoose's version of the array, its reward, and
whether it still exists), `submissions` (the documents, in the order of their
creation), `judgeScores` (the service's map, lost when the process stops), `jobs` (what
has been enqueued) and `calls`, suspended requests as in `PayoutJobs`. `overlapped` is
history: submissions one judge scored in two calls at once.

Actions. A verdict is `ScoreSubmission`, `IsJudge` and `IsHost` (two reads of the event),
`FindSubmission` (which records the score in memory), `FindToUpdate` and `SaveStatus`
(updateStatus), and for a winner `GetWinners`, `FindReward`, `Enqueue`. Submitting is
`Create`, `CreateFindsEvent`, `CheckDuplicate`, `Insert`. The host's requests are
`InviteJudges`, `RemoveJudge`, `Update` and `Delete`, then `FindToEdit` and `SaveEvent` or
`DeleteEvent`. A save writes the fields that differ from the call's copy (`Written`); one
that replaces the list of judges fails when the list was replaced since it was read
(`SameVersion`). `DatabaseFails` and `Crash` are as in `PayoutJobs`.

Abstracted: the event's dates and status (a request outside the dates changes
nothing; nothing modelled here reads the status, which `EventStatuses` has), texts and
signatures, the aggregated scores (computed on demand, in `JudgingScores`). An update that
names judges names at least one (`ArrayNotEmpty`).

The code is modelled as it runs when transpiled, for it does not type-check:
`EventStatus.ACTIVE` and `SubmissionStatus.PENDING` do not exist, so `addParticipant`,
`publishResults`, and the update and deletion of a submission always refuse; `EventStatuses` and
`Submissions` have them as they are, here they are left out. `validateSubmissionData`
requires a `projectTitle`, which the DTO of the HTTP endpoint does not have; `create` is
modelled as the service's method, called with valid data.

### SignIn

State. `nonces` is the collection, one document or none per address; nonces are numbered
as they are generated (`issued`), `written` is history (those that reached the
collection, and so a client). `users` and `sessions` (tokens given for each nonce) are
what a login produces, `now` is the clock, `calls` the suspended requests.

Actions. `IssueNonce` and `UpsertNonce` are `issueNonce` before and at its query. A login
is `Login`, `FindNonce` (validateNonce's query), `CheckNonce` (the expiry and the
signature), then `DeleteExpired`, or `ConsumeNonce` and `UpsertUser`, which also gives the
token. `Reap` is the TTL index, which may remove an expired document at any time, or late;
`Fails` ends a call without an answer. Both deletions name only the address, as in the
code: they delete whatever nonce it has by then.

Abstracted: signatures are valid or not; a token is a count, its lifetime and role
are in `Tokens`. The nonce's randomness is its newness.

### The services

Each of the following modules is one service with its own state; its header says what a
step is. Where a method runs to its end without an await it is one action; where it
awaits, it is one action per await, with the call's place in a record. Times are a
clock that `Tick` advances, values are numbers or members of a small set, and each
bound (`Max...`) is in the guard of an action that begins something.

- `EscrowWallet`. `wallet` is the `WalletConfig` document, `cached` whether `walletCache` has it,
  `calls` the deposits, payouts and deactivations under way, `txs` and `balance` the
  chain, `transactions` the `WalletTransaction` records. `executePayout` is
  `CheckBalance`, then `sendTransaction` and `RecordSent` (or `RecordFailed`, the catch) per
  recipient; `waitForConfirmation` runs beside it. Every save may fail, with or without the
  document having been written, and `Crash` loses requests, cache and watchers.
- `ContractService`. One transaction on its way through the chain, with a sender, a
  `getTransactionStatus` (three reads) and a `waitForTransaction`; and overlapping calls that
  refresh the network information, put statistics together or estimate gas.
- `Routes`. `Table` has the routes of all mounted controllers in the order in which Express
  tries them, each with its guards, the status of its success and what its handler
  asks for. `request` is one request, `Ask` what happens up to its first await (routing, the
  token, the pipe for an open route), `Validate` the guards; then comes one action per
  handler, or per kind of handler, up to its next await: the reads of the event
  (`findById`), the check of its host, the save. `users`, `judges` and the event change
  meanwhile; a save of a list of judges fails when the list was replaced since it was
  read (`fresh`). `catch` is the exception filter: only an `HttpException` keeps its status.
  What a handler does once it may is in the module of its service. `held`, `wasJudge` and
  `undisturbed` are history, since the request came.
- `Teams`. `createTeam` is `FindByName` and `Save`, with the unique index behind them; the
  owner's operations and the invited user's end at their first check (`IsOwner`). What comes
  after the check is not modelled, and `TypeOK` says that no request gets there.
- `JobQueue`. `queue`, `jobs` and `processing` as in the service; `executing` are the handlers
  that have not called back, also those whose job was retried after a timeout.
- `Scheduler`. `tasks` and `timers` are the two maps by id; `objects`, `started` and `live` are the
  task objects and timers themselves, which outlive their entry when it is replaced.
- `Cache`, `Sessions`. The maps with their times. In `Cache`, `filling` counts the `getOrSet`
  calls that wait for their factory; in `Sessions`, reading an outdated session destroys it.
- `RateLimiter`. The fixed window with its block, the sliding window and the throttle guard,
  the middleware and the token bucket, one per behaviour (`limiter`). The guard takes limit and
  window from the handler a request is for (`Throttles`) and keeps one list of times for all of
  them; the others have one configuration, though `checkLimit` takes it with each call.
- `RetryHandler`, `CircuitBreaker`, `Reconnection`. One call of any retry loop (`method` says
  which); overlapping calls of a breaker; sockets with timers of which the map knows the last.
- `Webhooks`, `EmailQueue`. One loop over a queue, whose head is taken before an await and
  shifted after it, and everything that changes the queue meanwhile. `Webhooks` has the
  loop that turns without an await while every delivery waits for its retry (`"spin"`): no
  other action is possible until one is due.
- `Mail`. The connection, its reconnection timer and verifications, and the promise of every
  mail, in the queue, the loop or the transporter.
- `AuditBuffer`, `Uploads`, `Backups`, `LogFiles`. What is in memory against what is stored:
  flushes that overlap and fail, files that are written or unlinked a step before their
  record changes, clean-ups that walk a list they read, files of several days.
- `Metrics`. A counter, a gauge, a histogram and timings, with `time` calls under way.
- `WalletConnect`. The client's sessions, which wallets open, extend and delete, and the
  clean-up with the rest of its list.
- `Tokens`. The role in the user's document, in the tokens and in the requests behind
  either guard; `login` is a login or refresh that has read the user and not yet signed.
- `JudgingScores`. The judges' scores of every winner; the normalized score and the
  ranking are operators on them, fractions where the code has floats. What is only shown, the
  suspicion of bias, the consensus and the analytics, is left out.
- `Submissions`. A `findByEvent` with its up to three reads of the event before its query,
  against verdicts, edits of the judges and new submissions; the statistics are operators.
- `EventStatuses`. The finds and saves of the requests that edit the status of one event,
  with the branches that `EventStatus.ACTIVE`, which does not exist, makes unreachable.
- `Pages`. A client that walks through the pages of one of seven listings; `find` and
  `countDocuments` of a page are two reads in either order.
- `Sponsors`. Requests with the copy they loaded; a `push` is sent as one, a replaced array
  on condition of the version.
- `FeatureServices`. The coroutines of one of the twenty Python services.

`MCServices` puts them side by side with constants for TLC; eighteen of them are instances of
`Services` and ten of `Records`, whose constants the cfg gives, so that the properties TLC
checks of these are the definitions the theorems are about. Since none reads or writes what
another has, a behaviour of the whole is an interleaving of behaviours that do not touch
each other, and an invariant that speaks of one of them holds in all interleavings if it
holds when that one runs alone: `part` says which one runs, the others stay at one of
their initial states. Its invariants are conjunctions of the modules' own, grouped by what they
are about:

| Invariant | Conjuncts |
|---|---|
| `NoWorkIsLost` | `JobQueue!NoJobLost` (an open job is queued or processed, never both or neither), `Mail!EveryMailHasAPlace`, `AuditBuffer!EveryEntryIsKept` |
| `ActiveTaskHasTimer`, `StoppedIsQuiet` | of `Scheduler`: an active task will run, a stopped one will not, whatever timers were replaced |
| `OnlyImportsOverfill` | of `Cache`: nothing but `import` exceeds `maxSize` |
| `AccessIsRight` | `Sessions!IndexAgrees`, `Tokens!RolesAreNotOutlived`, `Submissions!OnlyJudgesSeeAll`; of `Routes`: `OwnRouteServes`, `DoneForTheEntitled`, `OthersLearnNothing`, `HostIsServed`, `AnswersAreTrue` |
| `AllowedRate` | of `RateLimiter`: what any span of time lets through (`WindowRate`, `GuardRate`, `BucketRate`), and `InfoIsKept` |
| `CountsAddUp` | `RetryHandler!AttemptsAddUp`, `FeatureServices!EveryCallIsCounted`, `Metrics!StatsAreOfTheLast` |
| `OpenAfterRunOfFailures` | of `CircuitBreaker` |
| `ReconnectsHadAttempts` | of `Reconnection` |
| `QueuesAreServed` | `Webhooks!QueueIsServed`, `EmailQueue!RestsBeforeScheduled` |
| `BooksMatchTheChain` | `EscrowWallet!EveryPaymentIsRecorded`, `ContractService!ReportsAreTrue` and `InfoIsOfOneRefresh` |
| `FilesMatchRecords` | `Uploads!RecordsMatchFiles`, `Backups!CompletedHasArchive`, `LogFiles!LogsAreKept` |
| `DocumentsAreAsAsked` | `Sponsors!AddedEventStays`, `EventStatuses!StatusIsAsAsked`, `Pages!WalkSeesAll`, `Teams!NamesAreUnique` |
| `WalletSessionsAreRight` | of `WalletConnect`: `OnlyExpiredAreCleaned`, `AddressChecksAgree`, `StatsAgree` |
| `ScoresAreRight` | `JudgingScores!DissenterIsOutvoted` and `RankingFollowsScores`, `Submissions!ReadersAgree` |

The invariants are stated around what these services do that may surprise. The models
have all of it:

- queue.service.ts:78: after a job, "Continue processing" calls `processQueue`, which returns
  at once because `isRunning` is still set, and it stays so: what was added or is to be
  retried meanwhile waits until `pause` and `resume`. `NoJobLost` says it is still there.
- scheduler.service.ts:240: `resume` and `scheduleOnce` put a timer over one that still fires; a
  one-time task comes back from `resume` as an interval.
- cache.service.ts:80: every caller that finds nothing runs the factory; 340: `import` does not
  look at the limit, nor `updateTTL` (220) at whether the entry has expired.
- session.service.ts:165, 187: `updateActivity` and `refreshSession` revive a session after its
  end as long as nobody has read it; 84: a session nobody has read since counts for the limit.
- rate-limiter.service.ts:63: a fixed window allows up to one less than twice its limit in a span
  of its own length.
- throttle.guard.ts:31-37, 55-56: the list of times is one per address, and each handler stores
  it filtered by its own window. A handler with a longer one therefore lets more through than
  its limit when one with a shorter is called in between; `GuardRate` says that this, and the
  clean-up after an hour, are the only ways.
- retry-handler.ts:118: `executeWithResult` reports `maxAttempts` attempts for an error that was
  not retried.
- webhook.service.ts:190: the loop turns without an await while every delivery waits for
  its retry, so the process answers nothing until one is due.
- mail.service.ts:277: the loop awaits `sendMail`, which queues the mail again when the
  connection is gone: the mail then waits for a loop that waits for it, until
  `clearQueue`.
- audit.service.ts:423: an `insertMany` that fails half-way stores some entries twice.
- wallet/escrow.service.ts:146: a payment whose record cannot be saved is recorded as
  `FAILED` by the catch. When the record was written and only the answer was lost, it has both:
  the first stays `PENDING` for good, since nobody waits for its confirmation.
  `EveryPaymentIsRecorded` says that this is the only way to two records (`AnswerLost`).
- contract.service.ts:125, 357: the block number and the gas price are of different moments;
  a transaction can be said to have one confirmation less than a wait has just counted.
- file-upload.service.ts:197: files of one name in one millisecond share an id.
- walletconnect.service.ts:284: the clean-up disconnects a session that its wallet extended after
  the list was read, though it is no longer expired (`extended`); no other live one.
- judging.service.ts:265: of four judges one who dissents upwards counts in full, one who
  dissents downwards not at all, and of three nobody is ever left out (`LeftOut`).
- sponsors.service.ts:136: two additions of one event at once list it twice.
- logger.service.ts:58: the size of the file is looked at only at the start and by
  `enableFileLogging`, so one file may grow over days.
- payment.py:71-88 (and its copies): calls with one key that overlap are all processed.
- email.service.ts: `createNotificationRecord` leaves out `recipientAddress` and `title`, which the
  schema requires, and writes a type it does not have, so that every mail with a recipient
  fails; and when the queue is cleared during a failing send, the loop queues `undefined`
  and the next round throws outside its `try` (`crashed`).

- events.controller.ts:473: GET `events/search` is never reached, since GET `events/:id` (86) is
  declared before it and takes "search" for an id, which is answered with 500.
- events.controller.ts:322, 428: adding a participant and publishing results are always
  answered with 403 (`EventStatus.ACTIVE`); submissions.controller.ts:37: a submission always
  with 400 (`projectTitle`).
- jobs.controller.ts:51, 59 and payout.service.ts:188 throw plain errors: a stranger, a missing
  list of winners and a missing job are answered with 500, where the decorators say 403 and
  404. So is a status that is none (events.controller.ts:396), which only the schema checks.
- auth.controller.ts: without a client of WalletConnect the answer is 400, not the 503 of the
  decorators; the POST routes without `@HttpCode` answer 201 where some decorators say 200.
- wallet.controller.ts:88: a payout needs the role of a host, not to be the host of the event, and
  with an id that is none the first payment is sent before its record fails; `getEscrowAddress`
  fails for ever once the escrow wallet has been deactivated.
- team.schema.ts:35: `ownerId` is an ObjectId, so that `team.ownerId !== userId` always holds: no
  user is recognised as the owner of a team, and nobody is ever invited, though the comments at
  teams.service.ts:117, 161 and the routes of the controller say that owners update and invite.

## 3. Runs

| Run | Configuration | States | What it shows |
|---|---|---|---|
| `escrow_payouts` | 1 pool, 2 requests, 3 accounts (2 contracts), deposits of 2 up to 4, batches of 1 and 2 payments, time 1..2, timelock 1 | 570,648 | types, quorum, each payout paid once and in full, notice before money goes back, refinement |
| `escrow_custody` | 2 pools sharing the balance, ETH and an ERC20 token, 1 request, 1 stray wei | 1,442,616 | solvency, ledgers, winners, closed pools stay closed |
| `payout_jobs` | 2 jobs, 2 calls at a time, 3 calls in all, 2 attempts each, 1 failure of the server | 3,722,530 (with symmetry) | payments against job records, for every interleaving |
| `payout_jobs_settle` | the same, lists of 1, no symmetry | 204,876 | every call ends, no job stays in processing unless a call died |
| `payout_jobs_cancel` | 1 job, 2 calls | violation | cancelling a job that is being processed does not stop its payment |
| `judging` | 3 accounts, 2 submissions and 1 more, 2 calls at a time, 3 in all, 2 scores, 2 rewards, 1 failure | 2,044,846 (with symmetry) | winners are enqueued, scores agree, edits of the judges do not undo each other |
| `judging_shares` | 2 submissions, 2 calls | violation | marking two winners one after the other pays them different totals |
| `judging_duplicates` | 2 calls of 1 participant | violation | both submit |
| `sign_in` | 2 addresses, 3 nonces, 2 calls at a time, 5 in all, lifetime 1, time 0..3, 1 failure | 850,876 (with symmetry) | outdated nonces open nothing, used ones are gone |
| `sign_in_once` | 1 nonce, 2 logins | violation | both logins get a token |
| `services` | the twenty-eight modules, each with the constants that `MCServices` gives it | 531,407 | the invariants of the table above |
| `email_retries` | 2 mails, 2 priorities, 2 attempts, time 0..1 | violation | a mail is given up in the place of another one |

Why the bounds are enough. Escrow: two requests against one pool give the conflict
between them (a request reserves nothing, so the second may exceed what remains),
two pools give the shared balance, two contracts among three accounts give callbacks
by winners and hosts and by accounts with different roles; two payments per batch
give a callback between transfers; `MIN_REQUIRED_SIGNATURES` is the contract's 2; the
time limit lets the timelock expire. Jobs: two calls are enough for any stale save,
the third call retries or cancels what they left; `maxRetries` is 1 (3 in the code),
which gives a first, a further and a last attempt's failure. Judging: two submissions
are two winners, four verdicts tell a score from none and a winner from the rest, and
the third call meets what two interleaved ones have left. Sign-in: three nonces and five
calls let two logins overlap with the replacement of their nonce and with its expiry.
Services: each has two of what it keeps apart (jobs, sockets, endpoints, requests, mails),
limits and retry counts of 1 or 2, so that both the last and a further one happen, and
enough time for one expiry; `Scheduler` has two task objects for one id and three
timers, which replaces a timer twice; `RateLimiter` five grants over two windows,
and two handlers whose windows are shorter and longer than the clean-up's age;
`JudgingScores` five judges, from which on any lone dissenter is left out, and scores on
both sides of the middle; `Teams` two requests and two names, so that the index refuses one; `Submissions` four
changes around one reader; `EscrowWallet` two requests, two recipients and one crash; `Routes`
a host, another account in each of the roles or without one, and one change while the request
waits. All bounds are in guards
of actions that begin something (`MaxPools`, `MaxTotal`, `MaxStarts`, ...), never of one
that finishes.

Deadlock is checked for the escrow (a frame can always end). It is not for the jobs, the
judging, the sign-in and the services: when the calls of the bound have been used up, nothing
more happens, a retry loop ends, and a process whose mail loop was rejected has stopped.

Fairness. None for the escrow: every call is somebody's decision. None for the services,
of which only safety is claimed. `payout_jobs_settle`
assumes weak fairness of each call's own steps (the event loop runs a ready
continuation; a pause between attempts ends) and of the answer to a transaction
somebody waits for. The second is an assumption on the chain and the provider:
`tx.wait()` has no timeout in the code.

The findings. `CancelledIsNotSent` states the comment of `cancelJob`
(src/backend/src/jobs/payout.service.ts:242, "Cancel a pending or processing job"). In the
run a job is claimed, cancelled and then paid: `processJob` never reads the document
again. The job then shows `failed`, "Job cancelled by user", until the worker's save
turns it into `completed`; if that save is lost, a retry pays it again.

`EqualDistribution` states judging.service.ts:178, "equal distribution": every mark of a
winner enqueues a job for all winners so far, so the first of two is due the whole
reward and then half of it again, the second half. `OneSubmissionEach` states the
refusal of a second submission (submissions.service.ts:156): the check and the insert are
two calls and the index is not unique. `OneTimeUse` states auth.service.ts:67,
"one-time use": validating and consuming a nonce are two calls, too.
`GivenUpAfterRetries` states email.service.ts:328, "Max retries reached for email": what is
removed is the head of the queue, which by then may be another mail. Two more things
the model has, which no document contradicts: a winner without a job, when the process
stops after the verdict was saved, and a judge who scores shortly after being removed.

Every property of a passing run has a mutant in `PROJECT.json`, a plausible mistake
in the code it is about, under which TLC finds it violated.

## 4. Proofs

`PrizePoolEscrowProofs` proves, for all values of the constants that satisfy the
assumptions of `PrizePoolEscrow` (finitely many accounts, natural numbers for amounts,
non-empty `Events`, at least one pool allowed, and at least one signature required of a
pool: `MIN_REQUIRED_SIGNATURES` is 2 in the contract, PrizePoolEscrow.sol:104):

- `TypeCorrect`: `Spec => []TypeOK`; every amount stays a natural number.
- `LedgerHolds`: `Spec => []PoolLedger`; totalAmount = remaining + paid + returned.
- `QuorumHolds`: `Spec => []QuorumBeforePayout`.

The last two speak of `committed` only, and are not inductive. The inductive invariant
`IInv` adds what holds in the middle of a transaction:

- `OpenLedger`: the ledger of `storage`, where a running payout has already paid
  `InFlight(p)`, which `remainingAmount` still contains;
- `Shape`: entries are used in order, unused ones hold no money, a request's pool exists;
- `Signed`: `approvalCount` is the cardinality of `approvals`, and an executed request
  has enough of them;
- `FrameOK`: an idle contract has `storage = committed`; a running payout belongs to the
  pool of its request and is within its batch.

`Shape`, `Signed` and the ledger hold of `committed` too, which is what `Revert` needs.
The proof has one lemma on what each operation does to the books (`...Effect`), one on
what each step preserves (`...Step`), and one, `NextIInv`, that carries the result over
to `committed`. Subtractions need no case of their own in the ledger: `FinishPayout`
has the checked subtraction as its guard.

The same module goes on from there and proves `EndedPoolsEmpty`
(`[]TerminalPoolsEmpty`), `EndedPoolsStay` (`TerminalPoolsFrozen`) and `NoticeGiven`
(`NoticeBeforeReturn`). To `IInv` it adds `Closing`:

- `Ended`: a `Completed` or `Cancelled` pool exists and is empty, in `storage` too;
- `Batched`, `SomePaid`: every request pays somebody something, so a payout that has come
  past its first transfer has paid more than nothing. A request may still be pending when
  its pool ends and a signer may approve it then; its checked subtraction from an empty
  pool is what fails;
- `EndedStays`: the running transaction has not touched a pool that had ended before it;
- `ReturnsAnnounced`: what it has returned was announced, or is a refund of an open pool
  that had paid nobody when the transaction began.

`Moves` says what any step but a revert may do to a pool, a return and a request; every
action is shown to be such a step, and `MovesClose` and `RevertCloses` do the rest. That
`paid` stays follows from the ledger, all the other terms of which do.

The rest of the module proves the sums: `AlwaysSolvent` (`[]Solvency`), `PaidInFull`
(`[]PaidIsExecuted`) and `WinnersComplete` (`[]WinnersAddUp`). All three compare a balance
with a fold over the pools, the requests or a list of payments. The library's
definition of a fold chooses a function that satisfies its equation, so the first lemmas
show that there is one: a number is a pile of coins, and the number of all coins
(`Cardinality` of a union of disjoint piles) satisfies the equation; two functions that do
agree on every finite set, or there were a smallest number of elements on which they differ
(`LeastNatural`, from the library's theorem on well-founded orders, whose form needs no
operator as an argument). From then on a sum is used by what happens to it when one
term changes (`SumChange`), when none does (`SumSame`) and when a list grows
(`TotalAppend`). The invariant `Booked` says what the sums are within a transaction:

- `OpenSolvency`: balances cover the pools' `remainingAmount` less what the running
  payout has already sent, wei for wei with what came in for no pool;
- `OpenPaid`: what a pool has paid, and the rest of the batch that is due, are its executed
  requests: the request is marked before the first transfer;
- `OpenWinners`: the winners listed for an event miss the recipient that is being called;
- `PaidSoFar`: `frame.totalPaid` is the sum of the payments before the current one, so that
  what `FinishPayout` subtracts is what left.

`EscrowKeepsCustody` is `Spec => ImplementsCustody`: each transaction, with all callbacks
in it, is one step of `PrizeCustody` or a stutter. Since only its end changes
`committed`, the proof carries along what a transaction has done so far: `Tx` relates
`committed` to `storage`. The running frame's pool has paid `InFlight` and nothing else of it
has changed, or it was emptied; the frame's request was pending, is executed and has
the signatures; every other pool is as it was or was created in this transaction; every
other request is as it was, or was pending (or did not exist) and is pending or
rejected, with no signer lost. `Plain` says that a pool never created requires no
signature and that one which returned money has ended. `Transacts` is what `Tx` comes to
when the transaction ends, and the lemmas `VaultSteps` and `RequestSteps` read it as
steps of the vaults and the requests. A payout needs `PaidSoFar` and `OpenPaid` here as
well: what the vault releases is the whole batch, once.

`SignInProofs` proves of `SignIn`, for any finite set of calls and addresses, any number
of nonces and any lifetime: `TypeCorrect`, `OutdatedIsRefused` and `UsedIsGone`, that is
all that `sign_in` checks. Its `IInv` adds that a stored nonce has one owner (`Stored`),
that a nonce on its way to the collection is new (`Issuing`), that a login's nonce is
nobody else's once it was found and nobody's once it was consumed (`Given`), and where a
login with an outdated nonce can be (`Outdated`: before the query with a nonce that its
address does not have, or after it with an expired document). `Allowed` is what `IInv`
asks of one call; `CallStep` covers all steps that change only a call, `Deletion` what a
deletion does to the calls of others.

`PayoutJobsProofs` proves of `PayoutJobs`, for any finite set of calls and any number of
jobs, starts, retries, crashes and failed queries, all the invariants `payout_jobs` checks:
`TypeCorrect`, `CompletedArePaid`, `ProcessingIsHandled`, `PaidOnce` and `PayableUnpaid`.
The last two speak of jobs without an entry in `doubts`, and the document alone does not
tell whether such a job is being paid. Its `IInv` adds what does:

- `Sound`: a call's own fields agree, above all the status its next save starts from;
- `MinedIsPaid`: the transaction a call saw mined paid the job it works on;
- `Unborn`: a job that does not exist has no transactions, so a new one starts without any;
- `Undoubted`: of a job nothing has befallen (`Certain`), one call at most works on it, its
  document says `processing`, it was paid only by that call's transaction, and while it
  is `pending` or `failed` nothing was paid or can still be mined.

`Sound` and `MinedIsPaid` give `CompletedIsPaid`; `Certain` gives both theorems about
paying once, and is what a save over a changed document, a lost answer (of the node
or of `wait`) or a cancellation breaks, which are the entries of `doubts`. `CallStep` says what a step of one
call that touches one job does to all of this, and each action is an instance of it;
`Crash` has a proof of its own, since it ends all calls at once.

`JudgingProofs` proves of `Judging`, for any accounts, calls, scores and numbers of
submissions: `TypeCorrect`, `WinnersAreEnqueued`, `ScoresAreJudges` and the action property
`JudgesAsAsked`. Its `IInv` adds

- `Room`: the submissions being created still fit (the bound is in the guard that begins one);
- `CopiesFresh`: a copy of the event with the document's version has its judges. A save
  needs that version, so that what it replaces is what it was made from;
- `WinnersKept`: a winner is in some job or belongs to a call that is still to enqueue one.
  A later verdict in either direction cannot remove it from a list that a call holds,
  and a winner that a list missed has a call of its own;
- `AllRecorded`, `ScoresKept`: the score in a document is one that a judge still holds, or
  a call that has recorded its own is still to write over it. A save leaves the score
  alone exactly when the copy had it already, and so has a judge.

`ServicesProofs` is about services that have little state and many interleavings. Each is an
`INSTANCE` of its module, with limits on its constants, an inductive invariant and its own
theorems; two services whose variables have the same name share nothing but the name.

- `Sessions` (`SessionsTypeCorrect`, `IndexIsRight`): `IndexOK` (a user is in the index
  exactly when it has a stored session, with all of them) and `WithinLimit` are inductive as
  they stand: at the limit `createSession` destroys at least one session of the user, also
  when it finds outdated ones first.
- `CircuitBreaker` (`BreakerTypeCorrect`, `OpensAfterARun`), for a threshold of at least 1.
  The property is about the log, the code knows a counter: `LastRun` says that `failures` is
  the length of the run of failures the log ends with, and a closed circuit has counted fewer
  than `threshold`. A success or a failure changes nothing about the runs that were complete
  before it (`RunsStay`), a close makes all of them old.
- `Reconnection` (`ReconnectionTypeCorrect`, `CountedReconnectsHadAttempts`): `Earned` adds to the
  property that a socket's timers that fired are no more than the timers no longer pending,
  which bounds every count by the timers there were.
- `Cache` (`CacheStaysWithinSize`): `set` leaves no more entries than there were, or than
  `maxSize` (`SetEffect`), and stores an entry of now (`CacheTypeCorrect`).
- `Scheduler` (`SchedulerTypeCorrect`, `ActiveTasksHaveTimers`, `StoppedTasksAreQuiet`). The first
  property is not inductive, for a stop clears timers by their numbers and `resume` enables an
  object: `TasksOK` says that no object is under two ids, `TaskTimersOK` that the timer the map has
  for an id was started for it, `OwnTimers` that a timer's task is under no other id. A timer that
  the map has lost can then start nothing that was stopped. Removing a run from the list keeps
  the other ones (`OnceRunsRemove`).

- `Routes`, for any accounts and any number of changes to users and events while a request
  waits (`RouteLimits`): `RoutesTypeCorrect`, `RoutesAreTheirOwn`, `OnlyForTheEntitled`,
  `NothingForOthers`, `HostGetsThrough` and `TrueAnswers`. A guard reads the caller's role, the
  handler the event and its judges at later awaits, and each may be changed in between, so what
  an answer says is about several moments. `TableOK` is about every route of the table (its
  guard, its success status, that what is the host's has the host's guard), and `ServedOK` says
  that a request always comes to one of them, the first that fits. `RouteInv` says of a waiting
  request which guards it has passed, what it has seen, and how what has been true since it came
  (`held`, `wasJudge`, `undisturbed`) relates to the documents as they are (`OnItsWay`); of an
  answered one it says what the status means (`Right`), which the theorems are read off. One
  lemma stands for each way a step ends (`GoOn`, `SucceedStep`, `RefuseStep`, `FailStep`,
  `NotFoundStep`), one for each handler, and `ChangeStep` says that a change of a document leaves
  both parts alone. `RoutesAreTheirOwn` is about the table: a route of it that takes the URL
  of another one is that one, but for the known exception (`RoutesAreApart`).
- `Tokens` (`TokensTypeCorrect`, `RolesEndWithTheToken`). The invariant dates the role in the
  token (`RolesSince`) and carries that date through a request that waits between the guards
  (`Guarded`): a request let in at any later time was let in by a token that had not expired.
- `Submissions` (`EntriesTypeCorrect`, `AllSeenByJudges`). A call reads the event up to three
  times, and the judges may change after each; `CallOK` says what each of its steps has seen.
- `AccessStaysRight` combines the results on sessions, tokens, submissions and routes: it is the
  invariant `AccessIsRight` of the run, of `Services` with any values of its constants.
- `JobQueue`, `Mail`, `AuditBuffer` (`WorkTypeCorrect`, `WorkIsNotLost`: `NoWorkIsLost`). Each of the
  three says where work is, and its invariant also that it is there once, for a queue with
  a repetition loses count: `Distinct`, with the lemmas from `Elements` to `JoinedElements`
  about sequences without repetitions. `Kept`, which removes from the queue of jobs, is a
  recursive function that `KeptIs` shows to exist and to keep what it should. `JobsOK` is
  what every method hands on to `processQueue` and what that leaves (`attempts` ends at its limit
  because a job is queued only below it); `JobLimits` says that a job is tried at
  least once. `MailsOK` gives a waiting mail one of three places, the queue,
  the loop or a transport. `PlacesOK` keeps buffer and flushes apart, and `CopiesOK` counts: an
  entry that is held was stored at most once per failed flush, one that is not at most
  once more.

`DeliveryProofs` goes on with the services that stand between a request and its effect, and
with what is computed of submissions.

- `RetryHandler`, `FeatureServices`, `Metrics` (`CountersTypeCorrect`, `CountsStayRight`: `CountsAddUp`).
  While a loop sleeps, its callback has been told of the attempt that failed, before that of
  the last one; every pause is at least the first (`DoubledIs` for the recursive `Doubled`,
  the `delay` variable for the capped one). A coroutine that is under way is counted with its
  number, so that calls which end together are told apart. Of the metrics' lists, dropping the
  first of one too many leaves the last of what was recorded; that the percentiles
  are in order follows from `Ranked`, which a CHOOSE always finds a value for.
- `Webhooks` (`HooksTypeCorrect`). What is being sent is the head of the queue and all
  others in it are below their retries; the turn of the queue after a failure
  takes the head off and may put it last, and no delivery is in it twice (`HooksInv`).
- `EmailQueue`: the loop stops only when its head is none, or waits (`HeadWaits`), and sorting
  takes only what is there (`EmailInv`). `QueuesStayServed` is `QueuesAreServed` of the two.
  `MailQueueTypeCorrect` bounds a mail's retries. `shift` removes the head, which need not be the mail
  that was sent, so a mail may be tried again after its own retries are used up; but each such
  time another mail was dropped in its stead. A mail in a queue of `l` mails out of `n` has
  therefore used no more than `maxRetries + n - l` (`Retried`), for which sorting must not
  make the queue longer (`SortedFits`, from `KeptFit` about disjoint sets of ids).
- `RateLimiter` (`LimitersTypeCorrect`, `RatesAreKept`: `AllowedRate`). What the property says of
  the history of grants the code knows as a record that starts over: the history splits at
  the time the record began into what was allowed before the window and no more than was counted in it
  (`Window`), and any span of a window's length meets two of these at most, of which the
  first gave its first request before the span or the second is the last. The sliding window's list
  is a suffix of the history, without what is older than the window; the guard's too, and the last
  request it leaves out is older than the window of a request that came after it, or than the
  clean-up's (`Forgotten`), from which `GuardRate` follows for the ones before it. Of a bucket, `Lasts` says that its tokens
  and the grants since any request are together at most the capacity and the refills since
  then. The assumption `windowMs <= recordAge` is about the clean-up that drops records by
  their age: it drops them after an hour, the longest window configured
  (rate-limiter.service.ts:164, 370-390). With a longer window a record is dropped in it, and the property is false.

- `JudgingScores`, `Submissions` (`ScoresTypeCorrect`, `ScoresStayRight`: `ScoresAreRight`). Most of it is about
  operators. Sums are recursive functions, used through what bounds them (`Between`, `SumBetween`): how much
  one judge who differs from all others counts needs the place of a quartile in a list in which
  all but one are equal (`OutvotedPlace`, `OutvotedOfFour`) and that the first and the last of the
  order are the lowest and the highest (`EndsOfOrder`), by which nobody of three is left out
  (`FewAllCount`); the ranks need that fractions are ordered (`HigherIsTransitive`). `OrderedIsNumbered` is about any finite set under a strict
  total order: its numbering by the count of what comes before is a bijection. The ranks, the list of
  the best submissions and, in `MCServicesProofs`, the list of backups are instances of it.
  `StatisticsAre` and `TopIsTheBest` read the statistics and the best off the collection.

`RecordsProofs` is about the services of `Records`, again each an instance of its module with limits on its constants and an invariant of its own; where counting comes
in, an instance's `Cardinality` is first shown to be the one of the library. Each of the four
properties of `Records` that `services` checks is the conclusion of one theorem.

- `EscrowWallet` (`WalletsTypeCorrect`, `PaymentsAreRecorded`), for any requests, recipients, funds
  and crashes; `PayoutsAreLists`: a payout names at least one recipient, amounts are natural
  numbers. The invariant ties the three places a payment leaves its mark in: a transaction is
  for a recipient that its call has come to, for the current one only past sending (`TxsFit`);
  a record is for a recipient left behind or whose save was just answered by an error
  (`RecordsFit`) and has the hash of his transaction or none (`HashesFit`); every recipient left
  behind has a record (`AllRecorded`); no two transactions are for the same one (`OnceSent`), and
  two records only where the first was saved without an answer, so that nobody follows it
  (`OnceRecorded`, with `AllUnsaved` before the second is written); a call about to record has a
  last transaction (`JustSent`), and a confirmed one was mined (`ConfirmedIsMined`).
- `ContractService`. `ReportsInv` follows the three reads behind `getTransactionStatus`, and the
  wait beside them, as the chain moves on: a receipt once read stays true (`StatusOK`), and
  what a wait has counted is one confirmation more than a status read later can be short of
  (`WaitOK`). `InfoInv` orders the numbers a call puts together: none is older than the call, and the gas
  price is never older than the block number it is shown with. Both and `EscrowWallet`'s give
  `BooksStayRight` (`BooksMatchTheChain`).
- `WalletConnect` (`WalletSessionsStayRight`), for any finite set of topics: what the clean-up has
  still to disconnect was used once and is expired or extended (`TopicsInv`, with `ListOK` for
  the list it walks). That the two ways to ask for an address agree, and that the statistics
  add up, are facts about the operators (of `byNamespace`, that each group is among the
  sessions that were counted).
- `Uploads`, `Backups`, `LogFiles` (`FilesStayRight`). `UploadOK`: an id given once goes one way,
  through one upload, to file, record and, through deletions that may overlap, to neither;
  while it is being uploaded nobody can delete it. `CompletedHasArchive` is inductive with the
  types of `DumpsInv`: a clean-up takes the record of an archive with its file. `DirectoryInv`
  bounds the log files other than the current one by `maxFiles`, which is what survives the
  rename and the removal of a rotation; files are told apart by their times. The buffer
  keeps at least one entry (`LogLimits`).
- `Sponsors`. A copy with the document's version has its list (`SponsorInv`), so that a removal that
  replaces the list, which is on condition of the version, forgets nobody's addition; the
  recursive function `Without` is shown to exist and to keep every other event (`WithoutIs`).
- `EventStatuses`. A call that nobody overtook between its find and its save finds the event as
  it was, and a confirmed one leaves what it asked for (`StatusCallOK`).
- `Teams`. The index keeps names apart, and a request told that its team was saved finds it
  there (`TeamCallOK`). As `ownerId` never equals a user's id (`TeamOK`), no request gets past
  the check of the owner, which the types need.
- `Pages`, for pages of at least one document (`PageLimits`) and any number of changes. The walk's
  position is a number of places (`Bound`), the documents move under it. Of what matched at the
  start and the client does not have, `Passed` are those no later page will bring: gone, or
  listed before the bound. One document that ceases to match adds at most one to
  them (`PassedWithout`: itself, or the one that slips over the bound), one that comes none
  (`PassedWith`), so there are at most `went` (`WalkOK`). The last page ends the listing
  but for what came between its count and its find (`MissingBound`, `LastPage`), so that `torn`
  pays for the rest. As long as nothing comes, all that was given is listed before the
  bound (`OnceOK`), so nothing is given twice. The places are cardinalities of sets of newer
  documents, and the lemmas from `RankType` to `RankedBeyond` are all the proof knows of them.
  With the three before it: `DocumentsStayRight` (`DocumentsAreAsAsked`).

The type invariants of these services (`WalletsTypeCorrect`, `ContractTypes`, `TopicsTypes`, `UploadsTypes`,
`LogsTypes`, `SponsorTypes`, `StatusesTypes`, `TeamsTypes`, `PagesAreTyped`) mostly add to the invariants above
that histories and times stay within their bounds. In `Pages` a page has no more documents than
`pageSize`, because no two have one place (`PageFits`).

`MCServicesProofs` is about the whole, `MCServices`. One lemma for each part (`QueueRun` to `ContractRun`)
shows that its share of a behaviour is a behaviour of the part: its initial states are the part's, its
steps are the part's or leave its variables alone. With them the theorems about the parts become
theorems about the specification TLC runs: `ServicesTypeCorrect` is `Spec => []TypeOK`,
`ServicesKeepTheirPromises` has all the other fifteen invariants of the run `services`. `ServicesLimits`
collects what the parts ask of their configuration, and `MCServices.cfg` satisfies it. What
a part does not ask for, such as the number of jobs, users or mails, is arbitrary.

Every invariant, action property and refinement that a passing run checks is thus proved for all
values of the constants within the limits named. Only model-checked is liveness, which is out of
the prover's reach: `CallsEnd` and `JobsSettle` of the payout jobs, with their fairness. The runs
that find a disagreement with a document are model-checked by their nature.

## 5. Plan

Written and proved first was what moves money: the escrow, the payout jobs, the judging
that starts them, the sign-in before them, then the wallet and the services. What
would come next, in this order:

1. Prizes, once their schema and service agree (section 6).
2. The three hazards of `PROJECT.json` that no property covers, once the code says what is to
   happen in them: a verdict saved without its job, a judge removed while a verdict is
   given, a nonce deleted by its address.

## 6. Not modelled

`PROJECT.json` names every component with its status. What has no module:

- The controller of the teams calls methods its service does not have; no module mounts it.
- Prizes (`prizes/`): the fields and statuses the service writes are not the schema's; every
  save fails its validation and no state is reached.
- Activity, comments, notifications: what activity logs does not fit its schema; the other two
  have controllers whose services do not exist.
- Analytics returns zeros; health checks only read.
- Encryption, validation and configuration are calls of libraries and pure functions.
- The logging interceptor; `ParseObjectIdPipe` and `ValidationExceptionFilter`, which no route uses.
  `AuthMiddleware` reads `payload.address`, which the tokens do not carry, so that the request
  has no address; of what it does, `Tokens` has the role.
- `src/abi.ts` is data.

Parts of modelled components that are left out: what the judging only shows (consensus,
controversy, the suspicion of bias, analytics); the rate limiter's rule manager and
strategies, which pass configurations on, and its decorator, which does nothing; `clearAll`,
signatures and statistics of the webhooks; `metadata.json` and a restart in `Backups`; templates
of both mail services; the getters of the contract service that read once and keep nothing;
the query optimizer and index manager, whose paginated read is in `Pages`; an event's
dates and texts, and the searches by text. `closeRegistration` sets a field that is not in the
schema, so it changes nothing (`EventStatuses`). `Pages` assumes that no two documents have the
same `createdAt`.
