-------------------------- MODULE PrizePoolEscrow --------------------------
(***************************************************************************)
(* The escrow contract contracts/PrizePoolEscrow.sol: prize pools that     *)
(* hold ETH or one ERC20 token, payout requests released by several        *)
(* signatures, refunds, a time-locked emergency withdrawal, and the roles  *)
(* that allow each call.                                                   *)
(*                                                                         *)
(* Everything a transaction may change is one record, storage; committed   *)
(* is its value after the last transaction, which a revert puts back.  A   *)
(* call that sends no ETH is one step.  A call that sends ETH runs the     *)
(* recipient's code: it is a frame of several steps, and while the         *)
(* recipient runs (frame.callee) it may call the contract again, the       *)
(* nonReentrant functions excepted.                                        *)
(***************************************************************************)
EXTENDS Integers, FiniteSets, Sequences, SequencesExt

CONSTANTS
    Accounts,       \* addresses, the zero address excluded
    Contracts,      \* the addresses with code, which runs when they receive ETH
    Admin,          \* the constructor's argument
    InitialGrants,  \* the roles granted by the deployment, after the constructor
    RoleChanges,    \* the <<role, account>> pairs the admin may grant or revoke
    Events,         \* event ids (all > 0)
    Tokens, ETH,    \* token addresses; ETH is address(0)
    Amounts,        \* what a call may deposit
    StrayAmounts,   \* ETH a call may send that no pool accounts for
    SignatureCounts,\* the requiredSignatures arguments
    Batches,        \* the recipients/amounts arguments, as sequences of pairs
    MIN_REQUIRED_SIGNATURES, MAX_BATCH_SIZE, EMERGENCY_TIMELOCK,
    MaxPools, MaxRequests, MaxTotal, MaxStray, MaxTime   \* bounds of the model

VARIABLES
    storage,     \* contract storage, token balances and the transfers made
    committed,   \* storage as of the last finished transaction
    frame,       \* the function that is sending ETH, and how far it is
    now          \* block.timestamp

vars == <<storage, committed, frame, now>>

Roles == {"DEFAULT_ADMIN_ROLE", "HOST_ROLE", "JUDGE_ROLE", "ADMIN_ROLE"}
PoolStatus == {"Active", "Locked", "Completed", "Cancelled"}
PayoutStatus == {"Pending", "Approved", "Executed", "Rejected"}
PoolIds == 0 .. MaxPools - 1
PayoutIds == 0 .. MaxRequests - 1
Payment == [recipient : Accounts, amount : Nat]
Winner == [recipient : Accounts, amount : Nat, rank : Nat]
NoOne == "no one"    \* frame.callee when no recipient is running

ASSUME AccountsAssumption ==
    /\ IsFiniteSet(Accounts)
    /\ Contracts \subseteq Accounts
    /\ Admin \in Accounts
    /\ NoOne \notin Accounts
    /\ InitialGrants \in [Roles -> SUBSET Accounts]
    /\ RoleChanges \subseteq Roles \X Accounts

ASSUME ArgumentsAssumption ==
    /\ Events # {}
    /\ ETH \in Tokens
    /\ Amounts \subseteq Nat
    /\ StrayAmounts \subseteq Nat
    /\ SignatureCounts \subseteq Nat
    /\ Batches \subseteq Seq(Payment)

ASSUME BoundsAssumption ==
    /\ MIN_REQUIRED_SIGNATURES \in Nat \ {0}
    /\ MAX_BATCH_SIZE \in Nat
    /\ EMERGENCY_TIMELOCK \in Nat
    /\ MaxPools \in Nat \ {0}
    /\ MaxRequests \in Nat
    /\ {MaxTotal, MaxStray, MaxTime} \subseteq Nat

-----------------------------------------------------------------------------
(* createdAt is kept as exists (createdAt > 0); lockUntil, reason and the    *)
(* timestamps that nothing reads are left out, and so is poolPayoutRequests, *)
(* which PoolPayoutRequests below computes.  balance is what the contract    *)
(* holds of each token; stray, paid and returned are its history: received   *)
(* for no pool, paid out of a pool, returned to a pool's host.               *)

PrizePool ==
    [exists : BOOLEAN, eventId : Events, host : Accounts,
     totalAmount : Nat, remainingAmount : Nat, tokenAddress : Tokens,
     status : PoolStatus, requiredSignatures : Nat,
     emergencyWithdrawable : BOOLEAN, emergencyWithdrawTime : Nat]

PayoutRequest ==
    [exists : BOOLEAN, poolId : PoolIds, batch : Seq(Payment),
     status : PayoutStatus, approvalCount : Nat, approvals : SUBSET Accounts]

Storage ==
    [roles : [Roles -> SUBSET Accounts], paused : BOOLEAN,
     prizePools : [PoolIds -> PrizePool], poolCounter : 0 .. MaxPools,
     payoutRequests : [PayoutIds -> PayoutRequest],
     payoutRequestCounter : 0 .. MaxRequests,
     eventWinners : [Events -> Seq(Winner)],
     balance : [Tokens -> Nat], stray : [Tokens -> Nat],
     paid : [PoolIds -> Nat], returned : [PoolIds -> Nat]]

Frame ==
    [fn : {"none", "_executePayout", "executeEmergencyWithdraw", "refundPool"},
     poolId : PoolIds, payoutId : Nat, i : Nat, totalPaid : Nat,
     callee : Accounts \cup {NoOne}]

\* A mapping entry never written holds zeros: address(0), Active, Pending.
\* Which host, event or pool stands for zero does not matter: every read of
\* them is behind exists.
ZeroPool ==
    [exists |-> FALSE, eventId |-> CHOOSE e \in Events : TRUE, host |-> Admin,
     totalAmount |-> 0, remainingAmount |-> 0, tokenAddress |-> ETH,
     status |-> "Active", requiredSignatures |-> 0,
     emergencyWithdrawable |-> FALSE, emergencyWithdrawTime |-> 0]

ZeroRequest ==
    [exists |-> FALSE, poolId |-> 0, batch |-> <<>>, status |-> "Pending",
     approvalCount |-> 0, approvals |-> {}]

NoFrame ==
    [fn |-> "none", poolId |-> 0, payoutId |-> 0, i |-> 0, totalPaid |-> 0,
     callee |-> NoOne]

-----------------------------------------------------------------------------
HasRole(role, account) == account \in storage.roles[role]
Total(batch) == SumFunction([k \in DOMAIN batch |-> batch[k].amount])
PoolPayoutRequests(s, p) ==
    {r \in PayoutIds : s.payoutRequests[r].exists /\ s.payoutRequests[r].poolId = p}

Idle == frame.fn = "none"
whenNotPaused == ~storage.paused
nonReentrant == Idle

\* msg.sender is anyone at the top level of a transaction, and within one only
\* the recipient of ETH whose code is running.
Calls(sender) ==
    \/ Idle
    \/ /\ frame.callee = sender /\ sender \in Contracts
       /\ storage.prizePools[frame.poolId].tokenAddress = ETH

\* A call without a frame of its own ends its transaction, unless a recipient
\* made it from inside another one.
InOneStep ==
    /\ UNCHANGED <<frame, now>>
    /\ committed' = IF Idle THEN storage' ELSE committed

Init ==
    /\ storage =
         [roles |-> [role \in Roles |->
             InitialGrants[role] \cup
                 (IF role \in {"DEFAULT_ADMIN_ROLE", "ADMIN_ROLE"} THEN {Admin} ELSE {})],
          paused |-> FALSE,
          prizePools |-> [p \in PoolIds |-> ZeroPool], poolCounter |-> 0,
          payoutRequests |-> [r \in PayoutIds |-> ZeroRequest],
          payoutRequestCounter |-> 0,
          eventWinners |-> [e \in Events |-> <<>>],
          balance |-> [t \in Tokens |-> 0], stray |-> [t \in Tokens |-> 0],
          paid |-> [p \in PoolIds |-> 0], returned |-> [p \in PoolIds |-> 0]]
    /\ committed = storage
    /\ frame = NoFrame
    /\ now = 1

-----------------------------------------------------------------------------
(* Funding.  Every payable function accepts msg.value; a pool of an ERC20    *)
(* token does not record it, and the contract keeps it as stray ETH.         *)

\* Mutant: any ETH sent is credited to the pool, whatever its token.
CreditsAnyToken(tokenAddress, value) == value
InitialAmount(tokenAddress, value) == IF tokenAddress = ETH THEN value ELSE 0

CreatePrizePool(sender, eventId, tokenAddress, requiredSignatures, value) ==
    LET p == storage.poolCounter
        initialAmount == InitialAmount(tokenAddress, value)
    IN /\ Calls(sender) /\ whenNotPaused
       /\ HasRole("HOST_ROLE", sender) \/ HasRole("ADMIN_ROLE", sender)
       /\ requiredSignatures >= MIN_REQUIRED_SIGNATURES
       /\ tokenAddress = ETH => value > 0
       /\ p < MaxPools
       /\ storage.stray[ETH] + value - initialAmount <= MaxStray
       /\ storage' = [storage EXCEPT
            !.poolCounter = p + 1,
            !.prizePools[p] =
                [exists |-> TRUE, eventId |-> eventId, host |-> sender,
                 totalAmount |-> initialAmount, remainingAmount |-> initialAmount,
                 tokenAddress |-> tokenAddress, status |-> "Active",
                 requiredSignatures |-> requiredSignatures,
                 emergencyWithdrawable |-> FALSE, emergencyWithdrawTime |-> 0],
            !.balance[ETH] = @ + value,
            !.stray[ETH] = @ + (value - initialAmount)]
       /\ InOneStep

\* Mutant: the status of the pool is not checked.
MayFundAnyStatus(p) == whenNotPaused /\ nonReentrant /\ storage.prizePools[p].exists
MayFund(p) ==
    /\ whenNotPaused /\ nonReentrant
    /\ storage.prizePools[p].exists
    /\ storage.prizePools[p].status = "Active"

\* Mutant: remainingAmount is not increased.
CreditTotalOnly(pool, amount) == [pool EXCEPT !.totalAmount = @ + amount]
Credit(pool, amount) ==
    [pool EXCEPT !.totalAmount = @ + amount, !.remainingAmount = @ + amount]

FundPoolWithETH(p, value) ==
    /\ MayFund(p)
    /\ storage.prizePools[p].tokenAddress = ETH
    /\ value > 0
    /\ storage.prizePools[p].totalAmount + value <= MaxTotal
    /\ storage' = [storage EXCEPT
         !.prizePools[p] = Credit(@, value),
         !.balance[ETH] = @ + value]
    /\ InOneStep

\* The token's transferFrom, and the ETH sent along with the call.
Received(balance, token, amount, value) ==
    [balance EXCEPT ![token] = @ + amount, ![ETH] = @ + value]

FundPoolWithToken(p, amount, value) ==
    LET token == storage.prizePools[p].tokenAddress
    IN /\ MayFund(p)
       /\ token # ETH
       /\ amount > 0
       /\ storage.prizePools[p].totalAmount + amount <= MaxTotal
       /\ storage.stray[ETH] + value <= MaxStray
       /\ storage' = [storage EXCEPT
            !.prizePools[p] = Credit(@, amount),
            !.balance = Received(@, token, amount, value),
            !.stray[ETH] = @ + value]
       /\ InOneStep

\* receive(): ETH sent to the contract without a call.
Receive(sender, value) ==
    /\ Calls(sender)
    /\ value > 0
    /\ storage.stray[ETH] + value <= MaxStray
    /\ storage' = [storage EXCEPT !.balance[ETH] = @ + value, !.stray[ETH] = @ + value]
    /\ InOneStep

-----------------------------------------------------------------------------
(* Payout requests.  A request is checked against the amount that remains    *)
(* when it is made and reserves nothing.                                     *)

RequestPayout(sender, p, batch) ==
    LET r == storage.payoutRequestCounter
        pool == storage.prizePools[p]
    IN /\ Calls(sender) /\ whenNotPaused
       /\ \E role \in {"HOST_ROLE", "JUDGE_ROLE", "ADMIN_ROLE"} : HasRole(role, sender)
       /\ Len(batch) \in 1 .. MAX_BATCH_SIZE
       /\ pool.exists
       /\ pool.status \in {"Active", "Locked"}
       /\ \A k \in DOMAIN batch : batch[k].amount > 0
       /\ Total(batch) <= pool.remainingAmount
       /\ r < MaxRequests
       /\ storage' = [storage EXCEPT
            !.payoutRequestCounter = r + 1,
            !.payoutRequests[r] =
                [exists |-> TRUE, poolId |-> p, batch |-> batch, status |-> "Pending",
                 approvalCount |-> 0, approvals |-> {}]]
       /\ InOneStep

\* Mutant: a request that has been executed or rejected still counts.
IsAnyRequest(r) == storage.payoutRequests[r].exists
IsPending(r) ==
    /\ storage.payoutRequests[r].exists
    /\ storage.payoutRequests[r].status = "Pending"

\* Mutant: an account may approve twice.
MayApproveAgain(sender, r) ==
    /\ Calls(sender) /\ whenNotPaused
    /\ HasRole("JUDGE_ROLE", sender) \/ HasRole("ADMIN_ROLE", sender)
    /\ IsPending(r)
MayApprove(sender, r) ==
    /\ Calls(sender) /\ whenNotPaused
    /\ HasRole("JUDGE_ROLE", sender) \/ HasRole("ADMIN_ROLE", sender)
    /\ IsPending(r)
    /\ sender \notin storage.payoutRequests[r].approvals

ReachesQuorum(r) ==
    LET request == storage.payoutRequests[r]
    IN request.approvalCount + 1 >= storage.prizePools[request.poolId].requiredSignatures

Approved(request, sender) ==
    [request EXCEPT !.approvals = @ \cup {sender}, !.approvalCount = @ + 1]

\* approvePayout, when signatures are still missing ...
ApprovePayout(sender, r) ==
    /\ MayApprove(sender, r)
    /\ ~ReachesQuorum(r)
    /\ storage' = [storage EXCEPT !.payoutRequests[r] = Approved(@, sender)]
    /\ InOneStep

\* ... and with the last one: the private _executePayout begins.
ApproveAndExecute(sender, r) ==
    /\ MayApprove(sender, r) /\ nonReentrant
    /\ ReachesQuorum(r)
    /\ storage' = [storage EXCEPT
         !.payoutRequests[r] = [Approved(@, sender) EXCEPT !.status = "Executed"]]
    /\ frame' = [fn |-> "_executePayout", poolId |-> storage.payoutRequests[r].poolId,
                 payoutId |-> r, i |-> 1, totalPaid |-> 0, callee |-> NoOne]
    /\ UNCHANGED <<committed, now>>

RejectPayout(sender, r) ==
    /\ Calls(sender)
    /\ HasRole("ADMIN_ROLE", sender)
    /\ IsPending(r)
    /\ storage' = [storage EXCEPT !.payoutRequests[r].status = "Rejected"]
    /\ InOneStep

-----------------------------------------------------------------------------
(* _executePayout, one transfer at a time.  remainingAmount is reduced only  *)
(* after the last transfer, and the subtraction reverts on underflow.        *)

InExecutePayout == frame.fn = "_executePayout"
FrameBatch == storage.payoutRequests[frame.payoutId].batch

TransferToRecipient ==
    LET p == frame.poolId
        token == storage.prizePools[p].tokenAddress
        amount == FrameBatch[frame.i].amount
    IN /\ InExecutePayout /\ frame.callee = NoOne
       /\ frame.i <= Len(FrameBatch)
       /\ amount <= storage.balance[token]
       /\ storage' = [storage EXCEPT !.balance[token] = @ - amount, !.paid[p] = @ + amount]
       /\ frame' = [frame EXCEPT !.callee = FrameBatch[frame.i].recipient]
       /\ UNCHANGED <<committed, now>>

\* Mutant: the record holds the total paid before it, not its own amount.
WinnerOfRunningTotal(payment) ==
    [recipient |-> payment.recipient, amount |-> frame.totalPaid, rank |-> frame.i]
WinnerOf(payment) ==
    [recipient |-> payment.recipient, amount |-> payment.amount, rank |-> frame.i]

TransferReturns ==
    LET eventId == storage.prizePools[frame.poolId].eventId
        payment == FrameBatch[frame.i]
    IN /\ InExecutePayout /\ frame.callee # NoOne
       /\ storage' = [storage EXCEPT !.eventWinners[eventId] = Append(@, WinnerOf(payment))]
       /\ frame' = [frame EXCEPT !.callee = NoOne, !.i = @ + 1,
                    !.totalPaid = @ + payment.amount]
       /\ UNCHANGED <<committed, now>>

\* Mutant: unchecked arithmetic.
NeverUnderflows(minuend, subtrahend) == TRUE
NoUnderflow(minuend, subtrahend) == minuend >= subtrahend

\* Mutant: every payout completes its pool.
AlwaysCompleted(pool, remaining) ==
    [pool EXCEPT !.remainingAmount = remaining, !.status = "Completed"]
AfterPayout(pool, remaining) ==
    [pool EXCEPT !.remainingAmount = remaining,
                 !.status = IF remaining = 0 THEN "Completed" ELSE @]

FinishPayout ==
    LET p == frame.poolId
        remainingAmount == storage.prizePools[p].remainingAmount
    IN /\ InExecutePayout /\ frame.callee = NoOne
       /\ frame.i > Len(FrameBatch)
       /\ NoUnderflow(remainingAmount, frame.totalPaid)
       /\ storage' = [storage EXCEPT
            !.prizePools[p] = AfterPayout(@, remainingAmount - frame.totalPaid)]
       /\ frame' = NoFrame
       /\ committed' = storage'
       /\ UNCHANGED now

\* The transaction fails: the recipient refuses, gas runs out, a require or a
\* checked subtraction fails.
Revert ==
    /\ ~Idle
    /\ storage' = committed
    /\ frame' = NoFrame
    /\ UNCHANGED <<committed, now>>

-----------------------------------------------------------------------------
(* Emergency withdrawal and refund: the pool is emptied and Cancelled before *)
(* its host is sent the money.                                               *)

\* Mutant: the status is not updated.
EmptiedOnly(pool) == [pool EXCEPT !.remainingAmount = 0]
Emptied(pool) == [pool EXCEPT !.remainingAmount = 0, !.status = "Cancelled"]

ReturnToHost(fn, p) ==
    LET pool == storage.prizePools[p]
    IN /\ pool.remainingAmount <= storage.balance[pool.tokenAddress]
       /\ storage' = [storage EXCEPT
            !.prizePools[p] = Emptied(@),
            !.balance[pool.tokenAddress] = @ - pool.remainingAmount,
            !.returned[p] = @ + pool.remainingAmount]
       /\ frame' = [NoFrame EXCEPT !.fn = fn, !.poolId = p, !.callee = pool.host]
       /\ UNCHANGED <<committed, now>>

InitiateEmergencyWithdraw(sender, p) ==
    /\ Calls(sender)
    /\ HasRole("ADMIN_ROLE", sender)
    /\ storage.prizePools[p].exists
    /\ storage.prizePools[p].remainingAmount > 0
    /\ ~storage.prizePools[p].emergencyWithdrawable
    /\ storage' = [storage EXCEPT
         !.prizePools[p] = [@ EXCEPT !.emergencyWithdrawable = TRUE,
                                     !.emergencyWithdrawTime = now + EMERGENCY_TIMELOCK]]
    /\ InOneStep

ExecuteEmergencyWithdraw(sender, p) ==
    /\ nonReentrant
    /\ HasRole("ADMIN_ROLE", sender)
    /\ storage.prizePools[p].emergencyWithdrawable
    /\ now >= storage.prizePools[p].emergencyWithdrawTime
    /\ storage.prizePools[p].remainingAmount > 0
    /\ ReturnToHost("executeEmergencyWithdraw", p)

\* Mutant: whether payouts were made is not checked.
IsActive(p) == storage.prizePools[p].status = "Active"
IsUntouched(p) ==
    /\ storage.prizePools[p].status = "Active"
    /\ storage.prizePools[p].remainingAmount = storage.prizePools[p].totalAmount

RefundPool(sender, p) ==
    /\ nonReentrant
    /\ storage.prizePools[p].exists
    /\ sender = storage.prizePools[p].host \/ HasRole("ADMIN_ROLE", sender)
    /\ IsUntouched(p)
    /\ ReturnToHost("refundPool", p)

FinishReturnToHost ==
    /\ frame.fn \in {"executeEmergencyWithdraw", "refundPool"}
    /\ frame' = NoFrame
    /\ committed' = storage
    /\ UNCHANGED <<storage, now>>

-----------------------------------------------------------------------------
(* Administration.  lockPool asks for no existing pool: a locked entry that  *)
(* does not exist yet is overwritten when the pool is created.               *)

LockPool(sender, p) ==
    /\ Calls(sender)
    /\ HasRole("ADMIN_ROLE", sender)
    /\ storage.prizePools[p].status = "Active"
    /\ storage' = [storage EXCEPT !.prizePools[p].status = "Locked"]
    /\ InOneStep

SetPaused(sender, paused) ==
    /\ Calls(sender)
    /\ HasRole("ADMIN_ROLE", sender)
    /\ storage.paused # paused
    /\ storage' = [storage EXCEPT !.paused = paused]
    /\ InOneStep

\* OpenZeppelin AccessControl: DEFAULT_ADMIN_ROLE administers every role, and an
\* account may give up its own.
GrantRole(sender, role, account) ==
    /\ Calls(sender)
    /\ HasRole("DEFAULT_ADMIN_ROLE", sender)
    /\ storage' = [storage EXCEPT !.roles[role] = @ \cup {account}]
    /\ InOneStep

RevokeRole(sender, role, account) ==
    /\ Calls(sender)
    /\ sender = account \/ HasRole("DEFAULT_ADMIN_ROLE", sender)
    /\ storage' = [storage EXCEPT !.roles[role] = @ \ {account}]
    /\ InOneStep

\* Blocks follow one another; a transaction runs within one.
Tick ==
    /\ Idle
    /\ now < MaxTime
    /\ now' = now + 1
    /\ UNCHANGED <<storage, committed, frame>>

-----------------------------------------------------------------------------
Funding ==
    \/ \E sender \in Accounts, e \in Events, t \in Tokens, n \in SignatureCounts,
          value \in Amounts \cup StrayAmounts : CreatePrizePool(sender, e, t, n, value)
    \/ \E p \in PoolIds, value \in Amounts : FundPoolWithETH(p, value)
    \/ \E p \in PoolIds, amount \in Amounts, value \in StrayAmounts \cup {0} :
          FundPoolWithToken(p, amount, value)
    \/ \E sender \in Accounts, value \in StrayAmounts : Receive(sender, value)

Requests ==
    \/ \E sender \in Accounts, p \in PoolIds, b \in Batches : RequestPayout(sender, p, b)
    \/ \E sender \in Accounts, r \in PayoutIds : ApprovePayout(sender, r)
    \/ \E sender \in Accounts, r \in PayoutIds : ApproveAndExecute(sender, r)
    \/ \E sender \in Accounts, r \in PayoutIds : RejectPayout(sender, r)

\* What the virtual machine does on its own once a transfer has begun.
Progress == TransferToRecipient \/ TransferReturns \/ FinishPayout \/ FinishReturnToHost \/ Revert

Withdrawals ==
    \/ \E sender \in Accounts, p \in PoolIds : InitiateEmergencyWithdraw(sender, p)
    \/ \E sender \in Accounts, p \in PoolIds : ExecuteEmergencyWithdraw(sender, p)
    \/ \E sender \in Accounts, p \in PoolIds : RefundPool(sender, p)

Administration ==
    \/ \E sender \in Accounts, p \in PoolIds : LockPool(sender, p)
    \/ \E sender \in Accounts, paused \in BOOLEAN : SetPaused(sender, paused)
    \/ \E sender \in Accounts, change \in RoleChanges :
          GrantRole(sender, change[1], change[2]) \/ RevokeRole(sender, change[1], change[2])

Next == Funding \/ Requests \/ Progress \/ Withdrawals \/ Administration \/ Tick

Spec == Init /\ [][Next]_vars

-----------------------------------------------------------------------------
(* Properties.  They are about committed: what a reader of the chain sees.   *)

\* Type correctness.
TypeOK ==
    /\ storage \in Storage /\ committed \in Storage
    /\ frame \in Frame
    /\ now \in Nat

PoolsHolding(s, token) ==
    {p \in PoolIds : s.prizePools[p].exists /\ s.prizePools[p].tokenAddress = token}

HeldFor(s, token) ==
    SumFunctionOnSet([p \in PoolIds |-> s.prizePools[p].remainingAmount], PoolsHolding(s, token))

\* The contract can honour every pool at once: of each token it holds exactly
\* what remains in the pools of that token, and the strays no pool accounts
\* for.  All pools share one balance, so a wrong amount in any function would
\* spend another pool's money.
Solvency ==
    \A t \in Tokens :
        committed.balance[t] =
            committed.stray[t] + HeldFor(committed, t)

\* What was deposited in a pool is what remains in it, was paid to winners and
\* went back to its host, through any interleaving of deposits, callbacks,
\* payouts, refunds and reverts (totalAmount and remainingAmount are kept
\* separately and updated by four functions).
LedgerOf(s, p) ==
    s.prizePools[p].totalAmount =
        s.prizePools[p].remainingAmount + s.paid[p] + s.returned[p]
PoolLedger == \A p \in PoolIds : LedgerOf(committed, p)

ExecutedFrom(s, p) ==
    SumFunctionOnSet([r \in PayoutIds |-> Total(s.payoutRequests[r].batch)],
        {r \in PoolPayoutRequests(s, p) : s.payoutRequests[r].status = "Executed"})

\* The money paid out of a pool is the sum of its executed requests: none is
\* paid twice, in part, or without being executed.
PaidIsExecuted ==
    \A p \in PoolIds : committed.paid[p] = ExecutedFrom(committed, p)

PoolsOf(s, e) == {p \in PoolIds : s.prizePools[p].exists /\ s.prizePools[p].eventId = e}

\* The audit trail getEventWinners returns adds up to the payouts of the pools
\* of the event.
WinnersAddUp ==
    \A e \in Events :
        Total(committed.eventWinners[e]) = SumFunctionOnSet(committed.paid, PoolsOf(committed, e))

\* An executed request has been approved by as many different accounts as its
\* pool requires, and by at least MIN_REQUIRED_SIGNATURES (README.md:92),
\* although the code only counts the approvals.
QuorumBeforePayout ==
    \A r \in PayoutIds :
        LET request == committed.payoutRequests[r]
        IN request.status = "Executed" =>
            /\ Cardinality(request.approvals)
                   >= committed.prizePools[request.poolId].requiredSignatures
            /\ Cardinality(request.approvals) >= MIN_REQUIRED_SIGNATURES

Terminal(s, p) == s.prizePools[p].status \in {"Completed", "Cancelled"}

\* A Completed or Cancelled pool is finished: it is empty, and nothing is ever
\* added to it, paid from it or changed in it again, not even by a request
\* that was still pending when it ended.
TerminalPoolsEmpty ==
    \A p \in PoolIds : Terminal(committed, p) => committed.prizePools[p].remainingAmount = 0
TerminalPoolsFrozen ==
    [][\A p \in PoolIds : Terminal(committed, p) =>
          /\ committed'.prizePools[p] = committed.prizePools[p]
          /\ committed'.paid[p] = committed.paid[p]]_vars

\* Money goes back to the host of a pool that is locked, or has already paid
\* somebody, only after the announced waiting time (README.md:94-95: refundable
\* only if no payouts have been made; time-locked emergency).
NoticeBeforeReturn ==
    [][\A p \in PoolIds :
          /\ committed'.returned[p] > committed.returned[p]
          /\ committed.prizePools[p].status = "Locked" \/ committed.paid[p] > 0
          => /\ committed.prizePools[p].emergencyWithdrawable
             /\ now >= committed.prizePools[p].emergencyWithdrawTime]_vars

\* The escrow implements PrizeCustody: every transaction, with everything its
\* callbacks did, is one legal step of each vault and each request.
VaultOf(s, p) ==
    [quorum |-> s.prizePools[p].requiredSignatures,
     deposited |-> s.prizePools[p].totalAmount,
     paid |-> s.paid[p], returned |-> s.returned[p], closed |-> Terminal(s, p)]

RequestState(request) ==
    CASE ~request.exists -> "none"
      [] request.exists /\ request.status = "Pending" -> "pending"
      [] request.exists /\ request.status = "Executed" -> "executed"
      [] OTHER -> "rejected"
RequestOf(s, r) ==
    LET request == s.payoutRequests[r]
    IN [state |-> RequestState(request), vault |-> request.poolId,
        amount |-> Total(request.batch), signers |-> request.approvals]

AbstractVaults == [p \in PoolIds |-> VaultOf(committed, p)]
AbstractRequests == [r \in PayoutIds |-> RequestOf(committed, r)]

Custody == INSTANCE PrizeCustody WITH
    Vaults <- PoolIds, Requests <- PayoutIds, Signers <- Accounts,
    MinQuorum <- MIN_REQUIRED_SIGNATURES,
    vaults <- AbstractVaults, requests <- AbstractRequests
ImplementsCustody == Custody!Spec

=============================================================================
