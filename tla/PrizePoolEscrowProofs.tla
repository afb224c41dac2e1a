----------------------- MODULE PrizePoolEscrowProofs -----------------------
(***************************************************************************)
(* Theorems about PrizePoolEscrow for every value of its constants: type   *)
(* correctness, the ledger of every pool, the quorum behind every executed *)
(* payout; a Completed or Cancelled pool is empty and stays as it is, and  *)
(* money goes back to a host only after the notice, once a pool is locked  *)
(* or has paid somebody.  Then about the sums in the books: the contract   *)
(* holds what its pools need, pays exactly its executed requests, and      *)
(* lists what it paid; and the escrow implements PrizeCustody.             *)
(***************************************************************************)
EXTENDS PrizePoolEscrow, FiniteSetTheorems, WellFoundedInduction, TLAPS

LEMMA FirstNumbers ==
  ASSUME NEW n \in Nat
  PROVE  IsFiniteSet(1 .. n) /\ Cardinality(1 .. n) = n
BY FS_Interval

USE AccountsAssumption, ArgumentsAssumption, BoundsAssumption

-----------------------------------------------------------------------------
(* What the helpers that rewrite one pool or one request return.             *)

LEMMA PoolFields ==
  ASSUME NEW pool \in PrizePool
  PROVE  /\ pool.totalAmount \in Nat /\ pool.remainingAmount \in Nat
         /\ pool.requiredSignatures \in Nat /\ pool.exists \in BOOLEAN
         /\ pool.tokenAddress \in Tokens /\ pool.host \in Accounts
         /\ pool.eventId \in Events
BY DEF PrizePool

LEMMA PoolUpdates ==
  ASSUME NEW pool \in PrizePool, NEW m \in Nat, NEW n \in Nat, NEW st \in PoolStatus
  PROVE  /\ [pool EXCEPT !.totalAmount = m, !.remainingAmount = n] \in PrizePool
         /\ [pool EXCEPT !.remainingAmount = m, !.status = st] \in PrizePool
         /\ [pool EXCEPT !.emergencyWithdrawable = TRUE, !.emergencyWithdrawTime = m] \in PrizePool
         /\ [pool EXCEPT !.status = st] \in PrizePool
BY DEF PrizePool

LEMMA CreditPool ==
  ASSUME NEW pool \in PrizePool, NEW v \in Nat
  PROVE  /\ Credit(pool, v) \in PrizePool
         /\ Credit(pool, v).totalAmount = pool.totalAmount + v
         /\ Credit(pool, v).remainingAmount = pool.remainingAmount + v
         /\ Credit(pool, v).exists = pool.exists
         /\ Credit(pool, v).requiredSignatures = pool.requiredSignatures
         /\ Credit(pool, v).tokenAddress = pool.tokenAddress
         /\ Credit(pool, v).eventId = pool.eventId
<1> DEFINE m == pool.totalAmount + v
           n == pool.remainingAmount + v
<1>1. m \in Nat /\ n \in Nat
  BY PoolFields
<1>2. Credit(pool, v) = [pool EXCEPT !.totalAmount = m, !.remainingAmount = n]
  BY DEF Credit
<1> HIDE DEF m, n
<1>3. /\ Credit(pool, v) \in PrizePool
      /\ Credit(pool, v).totalAmount = m /\ Credit(pool, v).remainingAmount = n
      /\ Credit(pool, v).exists = pool.exists
      /\ Credit(pool, v).requiredSignatures = pool.requiredSignatures
      /\ Credit(pool, v).tokenAddress = pool.tokenAddress
      /\ Credit(pool, v).eventId = pool.eventId
  BY <1>1, <1>2 DEF PrizePool
<1> QED  BY <1>3 DEF m, n

LEMMA PayPool ==
  ASSUME NEW pool \in PrizePool, NEW n \in Nat
  PROVE  /\ AfterPayout(pool, n) \in PrizePool
         /\ AfterPayout(pool, n).totalAmount = pool.totalAmount
         /\ AfterPayout(pool, n).remainingAmount = n
         /\ AfterPayout(pool, n).exists = pool.exists
         /\ AfterPayout(pool, n).requiredSignatures = pool.requiredSignatures
         /\ AfterPayout(pool, n).tokenAddress = pool.tokenAddress
         /\ AfterPayout(pool, n).eventId = pool.eventId
<1>1. pool.status \in PoolStatus  BY DEF PrizePool
<1>2. AfterPayout(pool, n) \in PrizePool
  BY <1>1, PoolUpdates DEF AfterPayout, PoolStatus
<1> QED  BY <1>2 DEF AfterPayout, PrizePool

LEMMA EmptyPool ==
  ASSUME NEW pool \in PrizePool
  PROVE  /\ Emptied(pool) \in PrizePool
         /\ Emptied(pool).totalAmount = pool.totalAmount
         /\ Emptied(pool).remainingAmount = 0
         /\ Emptied(pool).exists = pool.exists
         /\ Emptied(pool).requiredSignatures = pool.requiredSignatures
         /\ Emptied(pool).tokenAddress = pool.tokenAddress
         /\ Emptied(pool).eventId = pool.eventId
<1>1. Emptied(pool) \in PrizePool
  BY PoolUpdates DEF Emptied, PoolStatus
<1> QED  BY <1>1 DEF Emptied, PrizePool

LEMMA RequestFields ==
  ASSUME NEW q \in PayoutRequest
  PROVE  /\ q.exists \in BOOLEAN /\ q.poolId \in PoolIds /\ q.batch \in Seq(Payment)
         /\ q.approvalCount \in Nat /\ q.approvals \in SUBSET Accounts
BY DEF PayoutRequest

LEMMA RequestUpdates ==
  ASSUME NEW q \in PayoutRequest, NEW a \in SUBSET Accounts, NEW n \in Nat, NEW st \in PayoutStatus
  PROVE  /\ [q EXCEPT !.approvals = a, !.approvalCount = n] \in PayoutRequest
         /\ [q EXCEPT !.status = st] \in PayoutRequest
BY DEF PayoutRequest

LEMMA ApproveRequest ==
  ASSUME NEW q \in PayoutRequest, NEW sender \in Accounts
  PROVE  /\ Approved(q, sender) \in PayoutRequest
         /\ Approved(q, sender).approvals = q.approvals \cup {sender}
         /\ Approved(q, sender).approvalCount = q.approvalCount + 1
         /\ Approved(q, sender).exists = q.exists
         /\ Approved(q, sender).poolId = q.poolId
         /\ Approved(q, sender).batch = q.batch
         /\ Approved(q, sender).status = q.status
<1> DEFINE a == q.approvals \cup {sender}
           n == q.approvalCount + 1
           new == Approved(q, sender)
<1>1. a \in SUBSET Accounts /\ n \in Nat
  BY RequestFields
<1>2. new = [q EXCEPT !.approvals = a, !.approvalCount = n]
  BY DEF Approved
<1> HIDE DEF a, n, new
<1>3. /\ new \in PayoutRequest /\ new.approvals = a /\ new.approvalCount = n
      /\ new.exists = q.exists /\ new.poolId = q.poolId
      /\ new.batch = q.batch /\ new.status = q.status
  BY <1>1, <1>2 DEF PayoutRequest
<1> QED  BY <1>3 DEF a, n, new

-----------------------------------------------------------------------------
(* What each operation does to the books, the components of storage that     *)
(* the invariants speak of, and to what the contract holds.                  *)

Books(s) ==
    <<s.prizePools, s.poolCounter, s.payoutRequests, s.payoutRequestCounter, s.paid, s.returned>>
Holdings(s) == <<s.balance, s.stray, s.eventWinners>>

LEMMA Difference ==
  ASSUME NEW m \in Nat, NEW n \in Nat, n <= m
  PROVE  m - n \in Nat
OBVIOUS

LEMMA StorageFields ==
  ASSUME NEW s \in Storage
  PROVE  /\ s.prizePools \in [PoolIds -> PrizePool] /\ s.poolCounter \in 0 .. MaxPools
         /\ s.payoutRequests \in [PayoutIds -> PayoutRequest]
         /\ s.payoutRequestCounter \in 0 .. MaxRequests
         /\ s.balance \in [Tokens -> Nat] /\ s.stray \in [Tokens -> Nat]
         /\ s.paid \in [PoolIds -> Nat] /\ s.returned \in [PoolIds -> Nat]
         /\ s.roles \in [Roles -> SUBSET Accounts]
         /\ s.eventWinners \in [Events -> Seq(Winner)]
BY DEF Storage

NewPool(sender, e, t, n, value) ==
    [exists |-> TRUE, eventId |-> e, host |-> sender,
     totalAmount |-> InitialAmount(t, value), remainingAmount |-> InitialAmount(t, value),
     tokenAddress |-> t, status |-> "Active", requiredSignatures |-> n,
     emergencyWithdrawable |-> FALSE, emergencyWithdrawTime |-> 0]

LEMMA CreateEffect ==
  ASSUME storage \in Storage, NEW sender \in Accounts, NEW e \in Events, NEW t \in Tokens,
         NEW n \in SignatureCounts, NEW value \in Amounts \cup StrayAmounts,
         CreatePrizePool(sender, e, t, n, value)
  PROVE  /\ storage' \in Storage
         /\ storage.poolCounter \in PoolIds
         /\ storage'.poolCounter = storage.poolCounter + 1
         /\ NewPool(sender, e, t, n, value) \in PrizePool
         /\ storage'.prizePools = [storage.prizePools EXCEPT
                ![storage.poolCounter] = NewPool(sender, e, t, n, value)]
         /\ UNCHANGED <<storage.payoutRequests, storage.payoutRequestCounter,
                        storage.paid, storage.returned>>
<1> DEFINE p == storage.poolCounter
           ia == InitialAmount(t, value)
           new == NewPool(sender, e, t, n, value)
           b == storage.balance[ETH] + value
           s == storage.stray[ETH] + (value - ia)
<1>1. p \in PoolIds /\ p + 1 \in 0 .. MaxPools
  BY StorageFields DEF CreatePrizePool, PoolIds
<1>2. ia \in Nat /\ b \in Nat /\ s \in Nat
  <2>1. value \in Nat /\ ia \in {0, value}
    BY DEF InitialAmount
  <2>2. storage.balance[ETH] \in Nat /\ storage.stray[ETH] \in Nat
    BY StorageFields
  <2> HIDE DEF ia
  <2> QED  BY <2>1, <2>2
<1>3. new \in PrizePool
  BY <1>2 DEF PrizePool, PoolStatus, NewPool
<1>4. storage' = [storage EXCEPT !.poolCounter = p + 1, !.prizePools[p] = new,
                     !.balance[ETH] = b, !.stray[ETH] = s]
  BY DEF CreatePrizePool, NewPool
<1> HIDE DEF p, new, b, s, ia
<1>5. storage' \in Storage
  BY <1>1, <1>2, <1>3, <1>4 DEF Storage
<1>6. /\ storage'.poolCounter = p + 1
      /\ storage'.prizePools = [storage.prizePools EXCEPT ![p] = new]
      /\ UNCHANGED <<storage.payoutRequests, storage.payoutRequestCounter,
                     storage.paid, storage.returned>>
  BY <1>4 DEF Storage
<1> QED  BY <1>1, <1>3, <1>5, <1>6 DEF p, new

\* ETH sent for a pool of another token is kept.
Surplus(t, value) == value - InitialAmount(t, value)

LEMMA CreateHoldings ==
  ASSUME storage \in Storage, NEW sender, NEW e, NEW t, NEW n,
         NEW value \in Amounts \cup StrayAmounts, CreatePrizePool(sender, e, t, n, value)
  PROVE  /\ storage'.eventWinners = storage.eventWinners
         /\ storage'.balance = [storage.balance EXCEPT ![ETH] = @ + value]
         /\ storage'.stray = [storage.stray EXCEPT ![ETH] = @ + Surplus(t, value)]
<1> DEFINE p == storage.poolCounter
           new == NewPool(sender, e, t, n, value)
           b == storage.balance[ETH] + value
           s == storage.stray[ETH] + Surplus(t, value)
<1>1. storage' = [storage EXCEPT !.poolCounter = p + 1, !.prizePools[p] = new,
                     !.balance[ETH] = b, !.stray[ETH] = s]
  BY DEF CreatePrizePool, NewPool, Surplus
<1> HIDE DEF p, new, b, s
<1>2. /\ storage'.eventWinners = storage.eventWinners
      /\ storage'.balance = [storage.balance EXCEPT ![ETH] = b]
      /\ storage'.stray = [storage.stray EXCEPT ![ETH] = s]
  BY <1>1 DEF Storage
<1> QED  BY <1>2 DEF b, s

LEMMA ReceivedType ==
  ASSUME NEW balance \in [Tokens -> Nat], NEW token \in Tokens, NEW m \in Nat, NEW n \in Nat
  PROVE  Received(balance, token, m, n) \in [Tokens -> Nat]
<1> DEFINE more == balance[token] + m
<1>1. more \in Nat  OBVIOUS
<1>2. [balance EXCEPT ![token] = more] \in [Tokens -> Nat]
  BY <1>1
<1> DEFINE b == [balance EXCEPT ![token] = more]
<1>3. b[ETH] + n \in Nat
  BY <1>2
<1>4. balance[ETH] + n \in Nat
  OBVIOUS
<1> QED  BY <1>2, <1>3, <1>4 DEF Received

LEMMA FundEffect ==
  ASSUME storage \in Storage, NEW p \in PoolIds, NEW v \in Amounts, NEW w \in StrayAmounts \cup {0},
         FundPoolWithETH(p, v) \/ FundPoolWithToken(p, v, w)
  PROVE  /\ storage' \in Storage
         /\ storage'.prizePools = [storage.prizePools EXCEPT ![p] = Credit(@, v)]
         /\ UNCHANGED <<storage.poolCounter, storage.payoutRequests,
                        storage.payoutRequestCounter, storage.paid, storage.returned,
                        storage.eventWinners>>
         /\ \/ /\ storage.prizePools[p].tokenAddress = ETH
               /\ storage'.balance = [storage.balance EXCEPT ![ETH] = @ + v]
               /\ storage'.stray = storage.stray
            \/ /\ storage.prizePools[p].tokenAddress # ETH
               /\ storage'.balance =
                    Received(storage.balance, storage.prizePools[p].tokenAddress, v, w)
               /\ storage'.stray = [storage.stray EXCEPT ![ETH] = @ + w]
<1> DEFINE pool == storage.prizePools[p]
           token == pool.tokenAddress
           new == Credit(pool, v)
           bEth == storage.balance[ETH] + v
           bTok == Received(storage.balance, token, v, w)
           s == storage.stray[ETH] + w
<1>1. new \in PrizePool
  BY StorageFields, CreditPool
<1>2. token \in Tokens
  BY StorageFields, PoolFields
<1>3. v \in Nat /\ w \in Nat /\ storage.balance \in [Tokens -> Nat]
      /\ storage.stray \in [Tokens -> Nat]
  BY StorageFields
<1>3a. bEth \in Nat /\ s \in Nat
  BY <1>3
<1>3b. bTok \in [Tokens -> Nat]
  BY <1>2, <1>3, ReceivedType
<1>4. CASE FundPoolWithETH(p, v)
  <2>1. /\ token = ETH
        /\ storage' = [storage EXCEPT !.prizePools[p] = new, !.balance[ETH] = bEth]
    BY <1>4 DEF FundPoolWithETH
  <2> HIDE DEF new, bEth
  <2>2. storage' \in Storage
    BY <1>1, <1>3a, <2>1 DEF Storage
  <2>3. /\ storage'.prizePools = [storage.prizePools EXCEPT ![p] = new]
        /\ UNCHANGED <<storage.poolCounter, storage.payoutRequests,
                       storage.payoutRequestCounter, storage.paid, storage.returned,
                       storage.eventWinners>>
        /\ storage'.balance = [storage.balance EXCEPT ![ETH] = bEth]
        /\ storage'.stray = storage.stray
    BY <2>1 DEF Storage
  <2> QED  BY <2>1, <2>2, <2>3 DEF new, bEth
<1>5. CASE FundPoolWithToken(p, v, w)
  <2>1. /\ token # ETH
        /\ storage' = [storage EXCEPT !.prizePools[p] = new, !.balance = bTok, !.stray[ETH] = s]
    BY <1>5 DEF FundPoolWithToken
  <2> HIDE DEF new, bTok, s
  <2>2. storage' \in Storage
    BY <1>1, <1>3a, <1>3b, <2>1 DEF Storage
  <2>3. /\ storage'.prizePools = [storage.prizePools EXCEPT ![p] = new]
        /\ UNCHANGED <<storage.poolCounter, storage.payoutRequests,
                       storage.payoutRequestCounter, storage.paid, storage.returned,
                       storage.eventWinners>>
        /\ storage'.balance = bTok
        /\ storage'.stray = [storage.stray EXCEPT ![ETH] = s]
    BY <2>1 DEF Storage
  <2> QED  BY <2>1, <2>2, <2>3 DEF new, bTok, s
<1> QED  BY <1>4, <1>5

LEMMA RequestEffect ==
  ASSUME storage \in Storage, NEW sender \in Accounts, NEW p \in PoolIds, NEW b \in Batches,
         RequestPayout(sender, p, b)
  PROVE  LET r == storage.payoutRequestCounter
             new == [exists |-> TRUE, poolId |-> p, batch |-> b, status |-> "Pending",
                     approvalCount |-> 0, approvals |-> {}]
         IN /\ storage' \in Storage
            /\ r \in PayoutIds
            /\ storage.prizePools[p].exists
            /\ storage'.payoutRequestCounter = r + 1
            /\ new \in PayoutRequest
            /\ storage'.payoutRequests = [storage.payoutRequests EXCEPT ![r] = new]
            /\ UNCHANGED <<storage.prizePools, storage.poolCounter, storage.paid, storage.returned>>
            /\ UNCHANGED Holdings(storage)
<1> DEFINE r == storage.payoutRequestCounter
           new == [exists |-> TRUE, poolId |-> p, batch |-> b, status |-> "Pending",
                   approvalCount |-> 0, approvals |-> {}]
<1>1. r \in PayoutIds /\ r + 1 \in 0 .. MaxRequests /\ storage.prizePools[p].exists
  BY DEF RequestPayout, Storage, PayoutIds
<1>2. new \in PayoutRequest
  BY DEF PayoutRequest, PayoutStatus
<1>3. storage' = [storage EXCEPT !.payoutRequestCounter = r + 1, !.payoutRequests[r] = new]
  BY DEF RequestPayout
<1> HIDE DEF r, new
<1>4. storage' \in Storage
  BY <1>1, <1>2, <1>3 DEF Storage
<1>5. /\ storage'.payoutRequestCounter = r + 1
      /\ storage'.payoutRequests = [storage.payoutRequests EXCEPT ![r] = new]
      /\ UNCHANGED <<storage.prizePools, storage.poolCounter, storage.paid, storage.returned>>
      /\ UNCHANGED Holdings(storage)
  BY <1>3 DEF Storage, Holdings
<1> QED  BY <1>1, <1>2, <1>4, <1>5 DEF r, new

\* approvePayout and rejectPayout replace one request by another.
LEMMA OneRequestEffect ==
  ASSUME storage \in Storage, NEW r \in PayoutIds, NEW new \in PayoutRequest,
         storage' = [storage EXCEPT !.payoutRequests[r] = new]
  PROVE  /\ storage' \in Storage
         /\ storage'.payoutRequests = [storage.payoutRequests EXCEPT ![r] = new]
         /\ UNCHANGED <<storage.prizePools, storage.poolCounter,
                        storage.payoutRequestCounter, storage.paid, storage.returned>>
         /\ UNCHANGED Holdings(storage)
BY DEF Storage, Holdings

LEMMA ApproveEffect ==
  ASSUME storage \in Storage, NEW sender \in Accounts, NEW r \in PayoutIds,
         ApprovePayout(sender, r)
  PROVE  /\ storage' \in Storage
         /\ storage'.payoutRequests =
              [storage.payoutRequests EXCEPT ![r] = Approved(@, sender)]
         /\ UNCHANGED <<storage.prizePools, storage.poolCounter,
                        storage.payoutRequestCounter, storage.paid, storage.returned>>
         /\ UNCHANGED Holdings(storage)
<1> DEFINE new == Approved(storage.payoutRequests[r], sender)
<1>1. new \in PayoutRequest
  BY StorageFields, ApproveRequest
<1>2. storage' = [storage EXCEPT !.payoutRequests[r] = new]
  BY DEF ApprovePayout
<1> QED  BY <1>1, <1>2, OneRequestEffect

LEMMA ExecuteEffect ==
  ASSUME storage \in Storage, NEW sender \in Accounts, NEW r \in PayoutIds,
         ApproveAndExecute(sender, r)
  PROVE  /\ storage' \in Storage
         /\ storage'.payoutRequests = [storage.payoutRequests EXCEPT
                ![r] = [Approved(@, sender) EXCEPT !.status = "Executed"]]
         /\ UNCHANGED <<storage.prizePools, storage.poolCounter,
                        storage.payoutRequestCounter, storage.paid, storage.returned>>
         /\ UNCHANGED Holdings(storage)
<1> DEFINE approved == Approved(storage.payoutRequests[r], sender)
           new == [approved EXCEPT !.status = "Executed"]
<1>1. approved \in PayoutRequest
  BY StorageFields, ApproveRequest
<1>2. storage' = [storage EXCEPT !.payoutRequests[r] = new]
  BY DEF ApproveAndExecute
<1>3. new \in PayoutRequest
  <2> HIDE DEF approved
  <2> QED  BY <1>1, RequestUpdates DEF PayoutStatus
<1> QED  BY <1>2, <1>3, OneRequestEffect

LEMMA RejectEffect ==
  ASSUME storage \in Storage, NEW sender \in Accounts, NEW r \in PayoutIds,
         RejectPayout(sender, r)
  PROVE  /\ storage' \in Storage
         /\ storage'.payoutRequests =
              [storage.payoutRequests EXCEPT ![r] = [@ EXCEPT !.status = "Rejected"]]
         /\ UNCHANGED <<storage.prizePools, storage.poolCounter,
                        storage.payoutRequestCounter, storage.paid, storage.returned>>
         /\ UNCHANGED Holdings(storage)
<1> DEFINE new == [storage.payoutRequests[r] EXCEPT !.status = "Rejected"]
<1>1. new \in PayoutRequest
  BY StorageFields, RequestUpdates DEF PayoutStatus
<1>2. storage' = [storage EXCEPT !.payoutRequests[r] = new]
  BY DEF RejectPayout
<1> QED  BY <1>1, <1>2, OneRequestEffect

LEMMA TransferEffect ==
  ASSUME storage \in Storage, frame \in Frame, TransferToRecipient,
         FrameBatch[frame.i] \in Payment
  PROVE  /\ storage' \in Storage
         /\ storage'.paid = [storage.paid EXCEPT
                ![frame.poolId] = @ + FrameBatch[frame.i].amount]
         /\ UNCHANGED <<storage.prizePools, storage.poolCounter, storage.payoutRequests,
                        storage.payoutRequestCounter, storage.returned,
                        storage.stray, storage.eventWinners>>
         /\ storage.prizePools[frame.poolId].tokenAddress \in Tokens
         /\ FrameBatch[frame.i].amount <=
              storage.balance[storage.prizePools[frame.poolId].tokenAddress]
         /\ storage'.balance = [storage.balance EXCEPT
                ![storage.prizePools[frame.poolId].tokenAddress] =
                    @ - FrameBatch[frame.i].amount]
<1> DEFINE p == frame.poolId
           t == storage.prizePools[p].tokenAddress
           n == FrameBatch[frame.i].amount
           b == storage.balance[t] - n
           m == storage.paid[p] + n
<1>1. p \in PoolIds /\ n \in Nat
  BY DEF Frame, Payment
<1>2. t \in Tokens
  BY <1>1, StorageFields, PoolFields
<1>3. n <= storage.balance[t]
  BY DEF TransferToRecipient
<1>4. storage' = [storage EXCEPT !.balance[t] = b, !.paid[p] = m]
  BY DEF TransferToRecipient
<1>5. b \in Nat /\ m \in Nat
  <2>1. storage.balance[t] \in Nat /\ storage.paid[p] \in Nat
    BY <1>1, <1>2, StorageFields
  <2> HIDE DEF t, n, p
  <2> QED  BY <2>1, <1>1, <1>3
<1> HIDE DEF b, m, t, n
<1>6. storage' \in Storage
  BY <1>1, <1>2, <1>4, <1>5 DEF Storage
<1>7. /\ storage'.paid = [storage.paid EXCEPT ![p] = m]
      /\ UNCHANGED <<storage.prizePools, storage.poolCounter, storage.payoutRequests,
                     storage.payoutRequestCounter, storage.returned,
                     storage.stray, storage.eventWinners>>
      /\ storage'.balance = [storage.balance EXCEPT ![t] = b]
  BY <1>4 DEF Storage
<1> QED  BY <1>2, <1>3, <1>6, <1>7 DEF b, m, n, t

LEMMA FinishEffect ==
  ASSUME storage \in Storage, frame \in Frame, FinishPayout
  PROVE  LET p == frame.poolId
             n == storage.prizePools[p].remainingAmount - frame.totalPaid
         IN /\ storage' \in Storage
            /\ n \in Nat
            /\ storage'.prizePools = [storage.prizePools EXCEPT ![p] = AfterPayout(@, n)]
            /\ UNCHANGED <<storage.poolCounter, storage.payoutRequests,
                           storage.payoutRequestCounter, storage.paid, storage.returned>>
            /\ UNCHANGED Holdings(storage)
<1> DEFINE p == frame.poolId
           n == storage.prizePools[p].remainingAmount - frame.totalPaid
           new == AfterPayout(storage.prizePools[p], n)
<1>1. p \in PoolIds /\ frame.totalPaid \in Nat
  BY DEF Frame
<1>2. storage.prizePools[p].remainingAmount \in Nat
  BY <1>1, StorageFields, PoolFields
<1>3. frame.totalPaid <= storage.prizePools[p].remainingAmount
  BY DEF FinishPayout, NoUnderflow
<1>4. n \in Nat
  <2> HIDE DEF p
  <2> QED  BY <1>1, <1>2, <1>3, Difference
<1>5. new \in PrizePool
  <2>1. storage.prizePools[p] \in PrizePool
    BY <1>1, StorageFields
  <2> HIDE DEF p, n
  <2> QED  BY <1>4, <2>1, PayPool
<1>6. storage' = [storage EXCEPT !.prizePools[p] = new]
  BY DEF FinishPayout
<1> HIDE DEF new
<1>7. /\ storage' \in Storage
      /\ storage'.prizePools = [storage.prizePools EXCEPT ![p] = new]
      /\ UNCHANGED <<storage.poolCounter, storage.payoutRequests,
                     storage.payoutRequestCounter, storage.paid, storage.returned>>
      /\ UNCHANGED Holdings(storage)
  BY <1>1, <1>5, <1>6 DEF Storage, Holdings
<1> QED  BY <1>4, <1>7 DEF new

LEMMA ReturnEffect ==
  ASSUME storage \in Storage, NEW fn, NEW p \in PoolIds, ReturnToHost(fn, p)
  PROVE  /\ storage' \in Storage
         /\ storage'.prizePools = [storage.prizePools EXCEPT ![p] = Emptied(@)]
         /\ storage'.returned =
              [storage.returned EXCEPT ![p] = @ + storage.prizePools[p].remainingAmount]
         /\ UNCHANGED <<storage.poolCounter, storage.payoutRequests,
                        storage.payoutRequestCounter, storage.paid,
                        storage.stray, storage.eventWinners>>
         /\ storage.prizePools[p].tokenAddress \in Tokens
         /\ storage.prizePools[p].remainingAmount <=
              storage.balance[storage.prizePools[p].tokenAddress]
         /\ storage'.balance = [storage.balance EXCEPT
                ![storage.prizePools[p].tokenAddress] =
                    @ - storage.prizePools[p].remainingAmount]
<1> DEFINE pool == storage.prizePools[p]
           n == pool.remainingAmount
           t == pool.tokenAddress
           new == Emptied(pool)
           b == storage.balance[t] - n
           m == storage.returned[p] + n
<1>1. n \in Nat /\ t \in Tokens
  BY StorageFields, PoolFields
<1>2. new \in PrizePool
  BY StorageFields, EmptyPool
<1>3. /\ n <= storage.balance[t]
      /\ storage' = [storage EXCEPT !.prizePools[p] = new, !.balance[t] = b, !.returned[p] = m]
  BY DEF ReturnToHost
<1>4. b \in Nat /\ m \in Nat
  <2>1. storage.balance[t] \in Nat /\ storage.returned[p] \in Nat
    BY <1>1, StorageFields
  <2>2. n <= storage.balance[t]
    BY <1>3
  <2> HIDE DEF t, n
  <2>3. b \in Nat
    BY <2>1, <2>2, <1>1, Difference
  <2>4. m \in Nat
    BY <2>1, <1>1
  <2> QED  BY <2>3, <2>4
<1>5. m = storage.returned[p] + storage.prizePools[p].remainingAmount
  OBVIOUS
<1>5a. b = storage.balance[t] - storage.prizePools[p].remainingAmount
  OBVIOUS
<1> HIDE DEF new, b, m, t, n
<1>6. storage' \in Storage
  BY <1>1, <1>2, <1>3, <1>4 DEF Storage
<1>7. /\ storage'.prizePools = [storage.prizePools EXCEPT ![p] = new]
      /\ storage'.returned = [storage.returned EXCEPT ![p] = m]
      /\ UNCHANGED <<storage.poolCounter, storage.payoutRequests,
                     storage.payoutRequestCounter, storage.paid,
                     storage.stray, storage.eventWinners>>
      /\ storage'.balance = [storage.balance EXCEPT ![t] = b]
  BY <1>3 DEF Storage
<1> QED  BY <1>1, <1>3, <1>5, <1>5a, <1>6, <1>7 DEF new, n, t


\* initiateEmergencyWithdraw and lockPool change nothing of a pool that the
\* ledger or the quorum depends on.
SameAccounts(new, old) ==
    /\ new.totalAmount = old.totalAmount /\ new.remainingAmount = old.remainingAmount
    /\ new.exists = old.exists /\ new.requiredSignatures = old.requiredSignatures
    /\ new.tokenAddress = old.tokenAddress /\ new.eventId = old.eventId

LEMMA InitiateEffect ==
  ASSUME storage \in Storage, now \in Nat, NEW sender \in Accounts, NEW p \in PoolIds,
         InitiateEmergencyWithdraw(sender, p) \/ LockPool(sender, p)
  PROVE  /\ storage' \in Storage
         /\ \E new \in PrizePool :
              /\ SameAccounts(new, storage.prizePools[p])
              /\ storage'.prizePools = [storage.prizePools EXCEPT ![p] = new]
         /\ UNCHANGED <<storage.poolCounter, storage.payoutRequests,
                        storage.payoutRequestCounter, storage.paid, storage.returned>>
         /\ UNCHANGED Holdings(storage)
<1> DEFINE pool == storage.prizePools[p]
           at == now + EMERGENCY_TIMELOCK
           initiated == [pool EXCEPT !.emergencyWithdrawable = TRUE, !.emergencyWithdrawTime = at]
           locked == [pool EXCEPT !.status = "Locked"]
<1>1. at \in Nat /\ pool \in PrizePool
  BY StorageFields
<1>2. initiated \in PrizePool /\ locked \in PrizePool
  <2> HIDE DEF at, pool
  <2> QED  BY <1>1, PoolUpdates DEF PoolStatus
<1>3. SameAccounts(initiated, pool) /\ SameAccounts(locked, pool)
  <2> HIDE DEF at, pool
  <2> QED  BY <1>1 DEF SameAccounts, PrizePool
<1>4. \/ storage' = [storage EXCEPT !.prizePools[p] = initiated]
      \/ storage' = [storage EXCEPT !.prizePools[p] = locked]
  BY DEF InitiateEmergencyWithdraw, LockPool
<1> HIDE DEF initiated, locked
<1>5. PICK new \in PrizePool : /\ SameAccounts(new, pool)
                               /\ storage' = [storage EXCEPT !.prizePools[p] = new]
  BY <1>2, <1>3, <1>4
<1>6. /\ storage' \in Storage
      /\ storage'.prizePools = [storage.prizePools EXCEPT ![p] = new]
      /\ UNCHANGED <<storage.poolCounter, storage.payoutRequests,
                     storage.payoutRequestCounter, storage.paid, storage.returned>>
      /\ UNCHANGED Holdings(storage)
  BY <1>5 DEF Storage, Holdings
<1> QED  BY <1>5, <1>6

LEMMA BooksUntouched ==
  ASSUME storage \in Storage, frame \in Frame,
         FrameBatch[frame.i] \in Payment \/ ~TransferReturns,
         \/ \E sender \in Accounts, v \in StrayAmounts : Receive(sender, v)
         \/ \E sender \in Accounts, paused \in BOOLEAN : SetPaused(sender, paused)
         \/ \E sender \in Accounts, change \in RoleChanges :
               GrantRole(sender, change[1], change[2]) \/ RevokeRole(sender, change[1], change[2])
         \/ TransferReturns
  PROVE  storage' \in Storage /\ UNCHANGED Books(storage)
<1>1. CASE \E sender \in Accounts, v \in StrayAmounts : Receive(sender, v)
  <2>1. PICK sender \in Accounts, v \in StrayAmounts : Receive(sender, v)
    BY <1>1
  <2> DEFINE b == storage.balance[ETH] + v
             s == storage.stray[ETH] + v
  <2>2. storage.balance[ETH] \in Nat /\ storage.stray[ETH] \in Nat /\ v \in Nat
    BY StorageFields
  <2>3. b \in Nat /\ s \in Nat
    BY <2>2
  <2>4. storage' = [storage EXCEPT !.balance[ETH] = b, !.stray[ETH] = s]
    BY <2>1 DEF Receive
  <2> HIDE DEF b, s
  <2> QED  BY <2>3, <2>4 DEF Storage, Books
<1>2. CASE \E sender \in Accounts, paused \in BOOLEAN : SetPaused(sender, paused)
  BY <1>2 DEF SetPaused, Storage, Books
<1>3. CASE \E sender \in Accounts, change \in RoleChanges :
             GrantRole(sender, change[1], change[2]) \/ RevokeRole(sender, change[1], change[2])
  <2>1. PICK sender \in Accounts, change \in RoleChanges :
             GrantRole(sender, change[1], change[2]) \/ RevokeRole(sender, change[1], change[2])
    BY <1>3
  <2>2. change[1] \in Roles /\ change[2] \in Accounts
    OBVIOUS
  <2> DEFINE role == change[1]
             more == storage.roles[role] \cup {change[2]}
             less == storage.roles[role] \ {change[2]}
  <2>3. more \in SUBSET Accounts /\ less \in SUBSET Accounts
    BY <2>2, StorageFields
  <2>4. \/ storage' = [storage EXCEPT !.roles[role] = more]
        \/ storage' = [storage EXCEPT !.roles[role] = less]
    BY <2>1 DEF GrantRole, RevokeRole
  <2>5. PICK accounts \in SUBSET Accounts : storage' = [storage EXCEPT !.roles[role] = accounts]
    BY <2>3, <2>4
  <2> HIDE DEF role
  <2> QED  BY <2>2, <2>5 DEF Storage, Books, role
<1>4. CASE TransferReturns
  <2> DEFINE e == storage.prizePools[frame.poolId].eventId
             w == Append(storage.eventWinners[e], WinnerOf(FrameBatch[frame.i]))
  <2>1. e \in Events
    BY StorageFields, PoolFields DEF Frame
  <2>2. WinnerOf(FrameBatch[frame.i]) \in Winner
    BY <1>4 DEF WinnerOf, Winner, Payment, Frame
  <2>3. w \in Seq(Winner)
    BY <2>1, <2>2, StorageFields
  <2>4. storage' = [storage EXCEPT !.eventWinners[e] = w]
    BY <1>4 DEF TransferReturns
  <2> HIDE DEF e, w
  <2> QED  BY <2>1, <2>3, <2>4 DEF Storage, Books
<1> QED  BY <1>1, <1>2, <1>3, <1>4

-----------------------------------------------------------------------------
(* The inductive invariant.  PoolLedger and QuorumBeforePayout speak of      *)
(* committed; they follow from what holds of storage at every step, where a  *)
(* running payout has moved InFlight and not yet reduced remainingAmount.    *)

\* Entries are used in order, and an unused pool has no money.
Shape(s) ==
    /\ \A p \in PoolIds : s.prizePools[p].exists <=> p < s.poolCounter
    /\ \A r \in PayoutIds : s.payoutRequests[r].exists <=> r < s.payoutRequestCounter
    /\ \A p \in PoolIds : ~s.prizePools[p].exists =>
          /\ s.prizePools[p].totalAmount = 0 /\ s.prizePools[p].remainingAmount = 0
          /\ s.paid[p] = 0 /\ s.returned[p] = 0
    /\ \A r \in PayoutIds : s.payoutRequests[r].exists =>
          s.prizePools[s.payoutRequests[r].poolId].exists

\* approvalCount counts the approvals, and a request executes with enough.
Signed(s) ==
    /\ \A p \in PoolIds : s.prizePools[p].exists =>
          s.prizePools[p].requiredSignatures >= MIN_REQUIRED_SIGNATURES
    /\ \A r \in PayoutIds :
          s.payoutRequests[r].approvalCount = Cardinality(s.payoutRequests[r].approvals)
    /\ \A r \in PayoutIds : s.payoutRequests[r].status = "Executed" =>
          /\ s.payoutRequests[r].exists
          /\ s.payoutRequests[r].approvalCount >=
               s.prizePools[s.payoutRequests[r].poolId].requiredSignatures

FrameOK ==
    /\ Idle => storage = committed /\ frame = NoFrame
    /\ InExecutePayout =>
         /\ frame.payoutId \in PayoutIds
         /\ storage.payoutRequests[frame.payoutId].exists
         /\ storage.payoutRequests[frame.payoutId].poolId = frame.poolId
         /\ frame.i \in 1 .. Len(FrameBatch) + 1
         /\ frame.callee # NoOne => frame.i <= Len(FrameBatch)

Current == IF frame.callee = NoOne THEN 0 ELSE FrameBatch[frame.i].amount
InFlight(p) ==
    IF InExecutePayout /\ frame.poolId = p THEN frame.totalPaid + Current ELSE 0

OpenLedger ==
    \A p \in PoolIds :
        storage.prizePools[p].totalAmount + InFlight(p) =
            storage.prizePools[p].remainingAmount + storage.paid[p] + storage.returned[p]

IInv ==
    /\ TypeOK
    /\ Shape(storage) /\ Signed(storage)
    /\ FrameOK
    /\ OpenLedger
    /\ Shape(committed) /\ Signed(committed) /\ PoolLedger

LEMMA InitIInv == Init => IInv
<1> SUFFICES ASSUME Init PROVE IInv
  OBVIOUS
<1>0. 0 \in PoolIds /\ (CHOOSE e \in Events : TRUE) \in Events
  BY DEF PoolIds
<1>1. ZeroPool \in PrizePool
  BY <1>0 DEF ZeroPool, PrizePool, PoolStatus
<1>2. ZeroRequest \in PayoutRequest
  BY <1>0 DEF ZeroRequest, PayoutRequest, PayoutStatus
<1>3. [role \in Roles |-> InitialGrants[role] \cup
         (IF role \in {"DEFAULT_ADMIN_ROLE", "ADMIN_ROLE"} THEN {Admin} ELSE {})]
      \in [Roles -> SUBSET Accounts]
  OBVIOUS
<1>4. storage \in Storage
  BY <1>1, <1>2, <1>3 DEF Init, Storage
<1>5. TypeOK
  BY <1>0, <1>4 DEF Init, TypeOK, NoFrame, Frame
<1>6. /\ storage.prizePools = [p \in PoolIds |-> ZeroPool] /\ storage.poolCounter = 0
      /\ storage.payoutRequests = [r \in PayoutIds |-> ZeroRequest]
      /\ storage.payoutRequestCounter = 0
      /\ storage.paid = [p \in PoolIds |-> 0] /\ storage.returned = [p \in PoolIds |-> 0]
  BY DEF Init
<1>7. Shape(storage)
  BY <1>6 DEF Shape, ZeroPool, ZeroRequest, PoolIds, PayoutIds
<1>8. Signed(storage)
  <2>1. \A p \in PoolIds : ~storage.prizePools[p].exists
    BY <1>6 DEF ZeroPool
  <2>2. \A r \in PayoutIds : /\ storage.payoutRequests[r].approvalCount = 0
                             /\ storage.payoutRequests[r].approvals = {}
                             /\ storage.payoutRequests[r].status # "Executed"
    BY <1>6 DEF ZeroRequest
  <2> QED  BY <2>1, <2>2, FS_EmptySet DEF Signed
<1>9. FrameOK
  BY DEF Init, FrameOK, Idle, NoFrame, InExecutePayout
<1>10. \A p \in PoolIds : InFlight(p) = 0 /\ LedgerOf(storage, p)
  BY <1>6 DEF InFlight, InExecutePayout, Init, NoFrame, LedgerOf, ZeroPool
<1>11. OpenLedger
  BY <1>6, <1>10 DEF OpenLedger, ZeroPool
<1>12. PoolLedger
  BY <1>10 DEF PoolLedger, LedgerOf, Init
<1> QED  BY <1>5, <1>7, <1>8, <1>9, <1>11, <1>12 DEF IInv, Init

LEMMA CurrentPayment ==
  ASSUME IInv, InExecutePayout, frame.i <= Len(FrameBatch)
  PROVE  FrameBatch[frame.i] \in Payment
<1>1. FrameBatch \in Seq(Payment)
  BY StorageFields, RequestFields DEF IInv, TypeOK, FrameOK, FrameBatch
<1>2. frame.i \in 1 .. Len(FrameBatch)
  BY <1>1 DEF IInv, TypeOK, FrameOK
<1> QED  BY <1>1, <1>2

LEMMA InFlightType ==
  ASSUME IInv, NEW p \in PoolIds
  PROVE  InFlight(p) \in Nat
<1>1. frame.totalPaid \in Nat
  BY DEF IInv, TypeOK, Frame
<1>2. InExecutePayout => Current \in Nat
  BY CurrentPayment DEF IInv, FrameOK, Current, Payment
<1> QED  BY <1>1, <1>2 DEF InFlight

\* The steps that leave the requests alone, and what exists and how many
\* signatures it takes.
LEMMA PoolStep ==
  ASSUME storage \in Storage, storage' \in Storage, Shape(storage), Signed(storage),
         UNCHANGED <<storage.poolCounter, storage.payoutRequests, storage.payoutRequestCounter>>,
         \A p \in PoolIds :
           /\ storage'.prizePools[p].exists = storage.prizePools[p].exists
           /\ storage'.prizePools[p].requiredSignatures = storage.prizePools[p].requiredSignatures
           /\ ~storage.prizePools[p].exists =>
                /\ storage'.prizePools[p].totalAmount = 0
                /\ storage'.prizePools[p].remainingAmount = 0
                /\ storage'.paid[p] = 0 /\ storage'.returned[p] = 0
  PROVE  Shape(storage') /\ Signed(storage')
<1>1. \A r \in PayoutIds : storage.payoutRequests[r].poolId \in PoolIds
  BY StorageFields, RequestFields
<1>2. Shape(storage')
  BY <1>1 DEF Shape
<1>3. Signed(storage')
  BY <1>1 DEF Signed, Shape
<1> QED  BY <1>2, <1>3

\* The steps that replace one existing request, keeping what it asks for.
LEMMA RequestStep ==
  ASSUME storage \in Storage, storage' \in Storage, Shape(storage), Signed(storage),
         UNCHANGED <<storage.prizePools, storage.poolCounter, storage.payoutRequestCounter,
                     storage.paid, storage.returned>>,
         NEW r \in PayoutIds, NEW new \in PayoutRequest,
         storage'.payoutRequests = [storage.payoutRequests EXCEPT ![r] = new],
         storage.payoutRequests[r].exists,
         new.exists, new.poolId = storage.payoutRequests[r].poolId,
         new.approvalCount = Cardinality(new.approvals),
         new.status = "Executed" =>
            new.approvalCount >= storage.prizePools[new.poolId].requiredSignatures
  PROVE  Shape(storage') /\ Signed(storage')
<1>0. storage.payoutRequests \in [PayoutIds -> PayoutRequest]
  BY StorageFields
<1>1. \A q \in PayoutIds : storage'.payoutRequests[q] =
         IF q = r THEN new ELSE storage.payoutRequests[q]
  BY <1>0
<1>2. Shape(storage')
  BY <1>1 DEF Shape
<1>3. Signed(storage')
  BY <1>1 DEF Signed
<1> QED  BY <1>2, <1>3

\* What a step must establish, and how it may change committed.
Good ==
    /\ TypeOK
    /\ Shape(storage) /\ Signed(storage)
    /\ FrameOK
    /\ OpenLedger
Commits == committed' = committed \/ (committed' = storage' /\ Idle')
Stays == \A p \in PoolIds : InFlight(p)' = InFlight(p)

LEMMA IInvFacts ==
  ASSUME IInv
  PROVE  /\ storage \in Storage /\ committed \in Storage /\ frame \in Frame /\ now \in Nat
         /\ Shape(storage) /\ Signed(storage) /\ FrameOK /\ OpenLedger
         /\ storage.prizePools \in [PoolIds -> PrizePool]
         /\ storage.payoutRequests \in [PayoutIds -> PayoutRequest]
         /\ storage.paid \in [PoolIds -> Nat] /\ storage.returned \in [PoolIds -> Nat]
BY StorageFields DEF IInv, TypeOK

\* A call of one step leaves the running transaction as it is.
LEMMA OneStep ==
  ASSUME IInv, InOneStep, storage' \in Storage,
         \A r \in PayoutIds : storage.payoutRequests[r].exists =>
            /\ storage'.payoutRequests[r].exists
            /\ storage'.payoutRequests[r].poolId = storage.payoutRequests[r].poolId
            /\ storage'.payoutRequests[r].batch = storage.payoutRequests[r].batch
  PROVE  /\ TypeOK' /\ FrameOK'
         /\ Stays /\ Commits
<1>1. InExecutePayout => FrameBatch' = FrameBatch
  BY DEF IInv, FrameOK, FrameBatch, InOneStep
<1>2. TypeOK'
  BY DEF IInv, TypeOK, InOneStep
<1>3. FrameOK'
  BY <1>1 DEF IInv, FrameOK, InOneStep, Idle, InExecutePayout
<1>4. \A p \in PoolIds : InFlight(p)' = InFlight(p)
  BY <1>1 DEF InFlight, Current, InOneStep, InExecutePayout
<1> QED  BY <1>2, <1>3, <1>4 DEF InOneStep, Idle, Stays, Commits

LEMMA LedgerTerms ==
  ASSUME IInv, NEW p \in PoolIds
  PROVE  /\ InFlight(p) \in Nat /\ storage.paid[p] \in Nat /\ storage.returned[p] \in Nat
         /\ storage.prizePools[p].totalAmount \in Nat
         /\ storage.prizePools[p].remainingAmount \in Nat
         /\ storage.prizePools[p].totalAmount + InFlight(p) =
              storage.prizePools[p].remainingAmount + storage.paid[p] + storage.returned[p]
BY IInvFacts, InFlightType, PoolFields DEF OpenLedger

\* The four ways a step moves money between the terms of OpenLedger.
LEMMA LedgerMoves ==
  ASSUME IInv, NEW p \in PoolIds, NEW v \in Nat
  PROVE  LET total == storage.prizePools[p].totalAmount
             remaining == storage.prizePools[p].remainingAmount
         IN /\ (total + v) + InFlight(p) =
                 (remaining + v) + storage.paid[p] + storage.returned[p]
            /\ total + (InFlight(p) + v) =
                 remaining + (storage.paid[p] + v) + storage.returned[p]
            /\ total = (remaining - InFlight(p)) + storage.paid[p] + storage.returned[p]
            /\ total + InFlight(p) = storage.paid[p] + (storage.returned[p] + remaining)
<1> DEFINE total == storage.prizePools[p].totalAmount
           remaining == storage.prizePools[p].remainingAmount
           inFlight == InFlight(p)
           paid == storage.paid[p]
           returned == storage.returned[p]
<1>1. /\ inFlight \in Nat /\ paid \in Nat /\ returned \in Nat /\ total \in Nat
      /\ remaining \in Nat /\ total + inFlight = remaining + paid + returned
  BY LedgerTerms
<1> HIDE DEF total, remaining, inFlight, paid, returned
<1>2. /\ (total + v) + inFlight = (remaining + v) + paid + returned
      /\ total + (inFlight + v) = remaining + (paid + v) + returned
      /\ total = (remaining - inFlight) + paid + returned
      /\ total + inFlight = paid + (returned + remaining)
  BY <1>1
<1> QED  BY <1>2 DEF total, remaining, inFlight, paid, returned

\* An account that has not approved yet adds one to the count and to the set.
LEMMA OneMoreSigner ==
  ASSUME IInv, NEW sender \in Accounts, NEW r \in PayoutIds,
         sender \notin storage.payoutRequests[r].approvals
  PROVE  LET old == storage.payoutRequests[r]
             new == Approved(old, sender)
         IN /\ new \in PayoutRequest /\ new.approvalCount = Cardinality(new.approvals)
            /\ new.approvalCount = old.approvalCount + 1
            /\ new.exists = old.exists /\ new.poolId = old.poolId
            /\ new.batch = old.batch /\ new.status = old.status
<1> DEFINE old == storage.payoutRequests[r]
           new == Approved(old, sender)
<1>1. /\ new \in PayoutRequest /\ new.approvals = old.approvals \cup {sender}
      /\ new.approvalCount = old.approvalCount + 1
      /\ new.exists = old.exists /\ new.poolId = old.poolId
      /\ new.batch = old.batch /\ new.status = old.status
  BY IInvFacts, ApproveRequest
<1>2. IsFiniteSet(old.approvals)
  BY IInvFacts, RequestFields, FS_Subset
<1>3. Cardinality(old.approvals \cup {sender}) = Cardinality(old.approvals) + 1
  BY <1>2, FS_AddElement
<1>4. old.approvalCount = Cardinality(old.approvals)
  BY IInvFacts DEF Signed
<1> QED  BY <1>1, <1>3, <1>4

LEMMA StandingStill ==
  ASSUME IInv, UNCHANGED <<storage, committed, frame>>, now' \in Nat
  PROVE  Good' /\ Commits
<1>1. TypeOK' /\ FrameOK' /\ Stays /\ Commits
  BY IInvFacts DEF TypeOK, FrameOK, Idle, InExecutePayout, FrameBatch, Stays, InFlight,
                   Current, Commits
<1>2. Shape(storage') /\ Signed(storage') /\ OpenLedger'
  BY IInvFacts, <1>1 DEF OpenLedger, Stays
<1> QED  BY <1>1, <1>2 DEF Good

LEMMA CreateStep ==
  ASSUME IInv, NEW sender \in Accounts, NEW e \in Events, NEW t \in Tokens,
         NEW n \in SignatureCounts, NEW value \in Amounts \cup StrayAmounts,
         CreatePrizePool(sender, e, t, n, value)
  PROVE  Good' /\ Commits
<1> DEFINE q == storage.poolCounter
           new == NewPool(sender, e, t, n, value)
<1>1. /\ storage' \in Storage /\ q \in PoolIds /\ storage'.poolCounter = q + 1
      /\ new \in PrizePool
      /\ storage'.prizePools = [storage.prizePools EXCEPT ![q] = new]
      /\ UNCHANGED <<storage.payoutRequests, storage.payoutRequestCounter,
                     storage.paid, storage.returned>>
  <2>1. storage \in Storage
    BY IInvFacts
  <2> QED  BY <2>1, CreateEffect
<1>2. InOneStep /\ n >= MIN_REQUIRED_SIGNATURES
  BY DEF CreatePrizePool
<1>3. TypeOK' /\ FrameOK' /\ Stays /\ Commits
  BY <1>1, <1>2, OneStep
<1>4. /\ new.exists /\ new.requiredSignatures = n
      /\ new.totalAmount = InitialAmount(t, value) /\ new.remainingAmount = InitialAmount(t, value)
  BY DEF NewPool
<1>5. ~storage.prizePools[q].exists
  BY IInvFacts, <1>1 DEF Shape, PoolIds
<1>6. \A p \in PoolIds : storage'.prizePools[p] = IF p = q THEN new ELSE storage.prizePools[p]
  BY IInvFacts, <1>1
<1> HIDE DEF new
<1>7. Shape(storage')
  <2>1. \A p \in PoolIds : p < q + 1 <=> (p < q \/ p = q)
    BY <1>1 DEF PoolIds
  <2>2. \A r \in PayoutIds : storage.payoutRequests[r].poolId \in PoolIds
    BY IInvFacts, RequestFields
  <2> QED  BY IInvFacts, <1>1, <1>4, <1>5, <1>6, <2>1, <2>2 DEF Shape
<1>8. Signed(storage')
  <2>1. \A r \in PayoutIds : storage.payoutRequests[r].poolId \in PoolIds
    BY IInvFacts, RequestFields
  <2>2. \A r \in PayoutIds : storage.payoutRequests[r].exists => storage.payoutRequests[r].poolId # q
    BY IInvFacts, <1>5, <2>1 DEF Shape
  <2> QED  BY IInvFacts, <1>1, <1>2, <1>4, <1>6, <2>1, <2>2 DEF Signed
<1>9. OpenLedger'
  <2>1. InFlight(q) = 0
    <3>1. CASE InExecutePayout
      BY IInvFacts, <1>1, <1>5, <3>1 DEF InFlight, FrameOK, Shape
    <3>2. CASE ~InExecutePayout
      BY <3>2 DEF InFlight
    <3> QED  BY <3>1, <3>2
  <2>2. new.totalAmount \in Nat
    BY <1>1, PoolFields
  <2> SUFFICES ASSUME NEW p \in PoolIds
               PROVE  storage'.prizePools[p].totalAmount + InFlight(p) =
                        storage'.prizePools[p].remainingAmount + storage.paid[p] + storage.returned[p]
    BY <1>1, <1>3 DEF OpenLedger, Stays
  <2>3. CASE p = q
    <3>1. storage.paid[p] = 0 /\ storage.returned[p] = 0
      BY IInvFacts, <1>5, <2>3 DEF Shape
    <3> QED  BY <1>4, <1>6, <2>1, <2>2, <2>3, <3>1
  <2>4. CASE p # q
    BY <1>6, <2>4, LedgerTerms
  <2> QED  BY <2>3, <2>4
<1> QED  BY <1>3, <1>7, <1>8, <1>9 DEF Good

LEMMA FundStep ==
  ASSUME IInv, NEW q \in PoolIds, NEW v \in Amounts, NEW w \in StrayAmounts \cup {0},
         FundPoolWithETH(q, v) \/ FundPoolWithToken(q, v, w)
  PROVE  Good' /\ Commits
<1> DEFINE old == storage.prizePools[q]
           new == Credit(old, v)
<1>1. /\ storage' \in Storage
      /\ storage'.prizePools = [storage.prizePools EXCEPT ![q] = new]
      /\ UNCHANGED <<storage.poolCounter, storage.payoutRequests,
                     storage.payoutRequestCounter, storage.paid, storage.returned>>
  <2>1. storage \in Storage
    BY IInvFacts
  <2> QED  BY <2>1, FundEffect
<1>2. InOneStep /\ old.exists
  BY DEF FundPoolWithETH, FundPoolWithToken, MayFund
<1>3. TypeOK' /\ FrameOK' /\ Stays /\ Commits
  BY <1>1, <1>2, OneStep
<1>4. /\ new.totalAmount = old.totalAmount + v /\ new.remainingAmount = old.remainingAmount + v
      /\ new.exists = old.exists /\ new.requiredSignatures = old.requiredSignatures
  BY IInvFacts, CreditPool
<1>5. \A p \in PoolIds : storage'.prizePools[p] = IF p = q THEN new ELSE storage.prizePools[p]
  BY IInvFacts, <1>1
<1> HIDE DEF new
<1>6. Shape(storage') /\ Signed(storage')
  <2>1. \A p \in PoolIds :
         /\ storage'.prizePools[p].exists = storage.prizePools[p].exists
         /\ storage'.prizePools[p].requiredSignatures = storage.prizePools[p].requiredSignatures
         /\ ~storage.prizePools[p].exists =>
              /\ storage'.prizePools[p].totalAmount = 0
              /\ storage'.prizePools[p].remainingAmount = 0
              /\ storage'.paid[p] = 0 /\ storage'.returned[p] = 0
    <3> TAKE p \in PoolIds
    <3>1. CASE p = q
      BY <1>2, <1>4, <1>5, <3>1
    <3>2. CASE p # q
      <4>1. storage'.prizePools[p] = storage.prizePools[p]
        BY <1>5, <3>2
      <4>2. Shape(storage)
        BY IInvFacts
      <4> QED  BY <1>1, <4>1, <4>2 DEF Shape
    <3> QED  BY <3>1, <3>2
  <2>2. storage \in Storage /\ Shape(storage) /\ Signed(storage)
    BY IInvFacts
  <2> QED  BY <1>1, <2>1, <2>2, PoolStep
<1>7. OpenLedger'
  <2> SUFFICES ASSUME NEW p \in PoolIds
               PROVE  storage'.prizePools[p].totalAmount + InFlight(p) =
                        storage'.prizePools[p].remainingAmount + storage.paid[p] + storage.returned[p]
    BY <1>1, <1>3 DEF OpenLedger, Stays
  <2>1. /\ (storage.prizePools[p].totalAmount + v) + InFlight(p) =
             (storage.prizePools[p].remainingAmount + v) + storage.paid[p] + storage.returned[p]
    BY LedgerMoves
  <2>2. CASE p = q
    BY <1>4, <1>5, <2>1, <2>2
  <2>3. CASE p # q
    BY <1>5, <2>3, LedgerTerms
  <2> QED  BY <2>2, <2>3
<1> QED  BY <1>3, <1>6, <1>7 DEF Good

LEMMA RequestPayoutStep ==
  ASSUME IInv, NEW sender \in Accounts, NEW q \in PoolIds, NEW b \in Batches,
         RequestPayout(sender, q, b)
  PROVE  Good' /\ Commits
<1> DEFINE r == storage.payoutRequestCounter
           new == [exists |-> TRUE, poolId |-> q, batch |-> b, status |-> "Pending",
                   approvalCount |-> 0, approvals |-> {}]
<1>1. /\ storage' \in Storage /\ r \in PayoutIds
      /\ storage.prizePools[q].exists /\ storage'.payoutRequestCounter = r + 1
      /\ storage'.payoutRequests = [storage.payoutRequests EXCEPT ![r] = new]
      /\ UNCHANGED <<storage.prizePools, storage.poolCounter, storage.paid, storage.returned>>
  <2>1. storage \in Storage
    BY IInvFacts
  <2> QED  BY <2>1, RequestEffect
<1>2. /\ new.exists /\ new.poolId = q /\ new.status = "Pending"
      /\ new.approvalCount = 0 /\ new.approvals = {}
  OBVIOUS
<1> HIDE DEF new
<1>3. ~storage.payoutRequests[r].exists
  BY IInvFacts, <1>1 DEF Shape, PayoutIds
<1>4. \A s \in PayoutIds :
         storage'.payoutRequests[s] = IF s = r THEN new ELSE storage.payoutRequests[s]
  BY IInvFacts, <1>1
<1>5. TypeOK' /\ FrameOK' /\ Stays /\ Commits
  <2>1. InOneStep
    BY DEF RequestPayout
  <2> QED  BY <1>1, <1>3, <1>4, <2>1, OneStep
<1>6. Shape(storage')
  <2>1. \A s \in PayoutIds : s < r + 1 <=> (s < r \/ s = r)
    BY <1>1 DEF PayoutIds
  <2> QED  BY IInvFacts, <1>1, <1>2, <1>3, <1>4, <2>1 DEF Shape
<1>7. Signed(storage')
  BY IInvFacts, <1>1, <1>2, <1>3, <1>4, FS_EmptySet DEF Signed
<1>8. OpenLedger'
  BY IInvFacts, <1>1, <1>5 DEF OpenLedger, Stays
<1> QED  BY <1>1, <1>5, <1>6, <1>7, <1>8 DEF Good

LEMMA ApproveStep ==
  ASSUME IInv, NEW sender \in Accounts, NEW r \in PayoutIds, ApprovePayout(sender, r)
  PROVE  Good' /\ Commits
<1> DEFINE old == storage.payoutRequests[r]
           new == Approved(old, sender)
<1>1. /\ storage' \in Storage
      /\ storage'.payoutRequests = [storage.payoutRequests EXCEPT ![r] = new]
      /\ UNCHANGED <<storage.prizePools, storage.poolCounter,
                     storage.payoutRequestCounter, storage.paid, storage.returned>>
  <2>1. storage \in Storage
    BY IInvFacts
  <2> QED  BY <2>1, ApproveEffect
<1>2. InOneStep /\ old.exists /\ old.status = "Pending" /\ sender \notin old.approvals
  BY DEF ApprovePayout, MayApprove, IsPending
<1>3. /\ new \in PayoutRequest /\ new.approvalCount = Cardinality(new.approvals)
      /\ new.exists /\ new.poolId = old.poolId /\ new.batch = old.batch
      /\ new.status = "Pending"
  BY IInvFacts, <1>2, OneMoreSigner
<1> HIDE DEF new
<1>4. Shape(storage') /\ Signed(storage')
  BY IInvFacts, <1>1, <1>2, <1>3, RequestStep
<1>5. TypeOK' /\ FrameOK' /\ Stays /\ Commits
  BY IInvFacts, <1>1, <1>2, <1>3, OneStep
<1>6. OpenLedger'
  BY IInvFacts, <1>1, <1>5 DEF OpenLedger, Stays
<1> QED  BY <1>4, <1>5, <1>6 DEF Good

LEMMA RejectStep ==
  ASSUME IInv, NEW sender \in Accounts, NEW r \in PayoutIds, RejectPayout(sender, r)
  PROVE  Good' /\ Commits
<1> DEFINE old == storage.payoutRequests[r]
           new == [old EXCEPT !.status = "Rejected"]
<1>1. /\ storage' \in Storage
      /\ storage'.payoutRequests = [storage.payoutRequests EXCEPT ![r] = new]
      /\ UNCHANGED <<storage.prizePools, storage.poolCounter,
                     storage.payoutRequestCounter, storage.paid, storage.returned>>
  <2>1. storage \in Storage
    BY IInvFacts
  <2> QED  BY <2>1, RejectEffect
<1>2. InOneStep /\ old.exists
  BY DEF RejectPayout, IsPending
<1>3. /\ new \in PayoutRequest /\ new.approvalCount = Cardinality(new.approvals)
      /\ new.exists /\ new.poolId = old.poolId /\ new.batch = old.batch
      /\ new.status = "Rejected"
  <2>1. old \in PayoutRequest /\ old.approvalCount = Cardinality(old.approvals)
    BY IInvFacts DEF Signed
  <2> HIDE DEF old
  <2> QED  BY <1>2, <2>1 DEF PayoutRequest, PayoutStatus
<1> HIDE DEF new
<1>4. Shape(storage') /\ Signed(storage')
  BY IInvFacts, <1>1, <1>2, <1>3, RequestStep
<1>5. TypeOK' /\ FrameOK' /\ Stays /\ Commits
  BY IInvFacts, <1>1, <1>2, <1>3, OneStep
<1>6. OpenLedger'
  BY IInvFacts, <1>1, <1>5 DEF OpenLedger, Stays
<1> QED  BY <1>4, <1>5, <1>6 DEF Good

LEMMA ExecuteStep ==
  ASSUME IInv, NEW sender \in Accounts, NEW r \in PayoutIds, ApproveAndExecute(sender, r)
  PROVE  Good' /\ Commits
<1> DEFINE old == storage.payoutRequests[r]
           approved == Approved(old, sender)
           new == [approved EXCEPT !.status = "Executed"]
<1>1. /\ storage' \in Storage
      /\ storage'.payoutRequests = [storage.payoutRequests EXCEPT ![r] = new]
      /\ UNCHANGED <<storage.prizePools, storage.poolCounter,
                     storage.payoutRequestCounter, storage.paid, storage.returned>>
  <2>1. storage \in Storage
    BY IInvFacts
  <2> QED  BY <2>1, ExecuteEffect
<1>2. /\ Idle /\ old.exists /\ sender \notin old.approvals
      /\ old.approvalCount + 1 >= storage.prizePools[old.poolId].requiredSignatures
  BY DEF ApproveAndExecute, MayApprove, IsPending, ReachesQuorum, nonReentrant
<1>3. /\ new \in PayoutRequest /\ new.approvalCount = Cardinality(new.approvals)
      /\ new.exists /\ new.poolId = old.poolId /\ new.batch = old.batch
      /\ new.approvalCount = old.approvalCount + 1
  <2>1. /\ approved \in PayoutRequest /\ approved.approvalCount = Cardinality(approved.approvals)
        /\ approved.exists /\ approved.poolId = old.poolId /\ approved.batch = old.batch
        /\ approved.approvalCount = old.approvalCount + 1
    BY IInvFacts, <1>2, OneMoreSigner
  <2> HIDE DEF approved, old
  <2> QED  BY <2>1 DEF PayoutRequest, PayoutStatus
<1> HIDE DEF new, approved
<1>4. Shape(storage') /\ Signed(storage')
  BY IInvFacts, <1>1, <1>2, <1>3, RequestStep
<1>5. /\ frame'.fn = "_executePayout" /\ frame'.poolId = old.poolId /\ frame'.payoutId = r
      /\ frame'.i = 1 /\ frame'.totalPaid = 0 /\ frame'.callee = NoOne
      /\ frame' = [fn |-> "_executePayout", poolId |-> old.poolId,
                   payoutId |-> r, i |-> 1, totalPaid |-> 0, callee |-> NoOne]
      /\ UNCHANGED <<committed, now>>
  BY DEF ApproveAndExecute
<1>6. storage'.payoutRequests[r] = new /\ old.poolId \in PoolIds /\ new.batch \in Seq(Payment)
  BY IInvFacts, <1>1, <1>3, RequestFields
<1>7. TypeOK'
  <2>1. frame' \in Frame
    BY <1>5, <1>6 DEF Frame, PayoutIds
  <2> QED  BY IInvFacts, <1>1, <1>5, <2>1 DEF TypeOK
<1>8. FrameOK'
  <2>1. 1 \in 1 .. Len(new.batch) + 1
    BY <1>6
  <2> QED  BY <1>3, <1>5, <1>6, <2>1 DEF FrameOK, Idle, InExecutePayout, FrameBatch
<1>9. \A p \in PoolIds : InFlight(p) = 0 /\ InFlight(p)' = 0
  BY <1>2, <1>5 DEF InFlight, Current, InExecutePayout, Idle
<1>10. OpenLedger'
  BY IInvFacts, <1>1, <1>9 DEF OpenLedger
<1> QED  BY <1>4, <1>5, <1>7, <1>8, <1>10 DEF Good, Commits

LEMMA TransferStep ==
  ASSUME IInv, TransferToRecipient
  PROVE  Good' /\ Commits
<1> DEFINE q == frame.poolId
           v == FrameBatch[frame.i].amount
<1>1. /\ InExecutePayout /\ frame.callee = NoOne /\ frame.i <= Len(FrameBatch)
      /\ frame' = [frame EXCEPT !.callee = FrameBatch[frame.i].recipient]
      /\ UNCHANGED <<committed, now>>
  BY DEF TransferToRecipient
<1>2. FrameBatch[frame.i] \in Payment
  BY <1>1, CurrentPayment
<1>3. v \in Nat /\ q \in PoolIds /\ FrameBatch[frame.i].recipient \in Accounts
  BY IInvFacts, <1>2 DEF Payment, Frame
<1>4. /\ storage' \in Storage
      /\ storage'.paid = [storage.paid EXCEPT ![q] = @ + v]
      /\ UNCHANGED <<storage.prizePools, storage.poolCounter, storage.payoutRequests,
                     storage.payoutRequestCounter, storage.returned>>
  BY IInvFacts, <1>2, TransferEffect
<1>5. /\ frame' \in Frame /\ frame'.callee # NoOne /\ frame'.fn = frame.fn
      /\ frame'.poolId = q /\ frame'.payoutId = frame.payoutId
      /\ frame'.i = frame.i /\ frame'.totalPaid = frame.totalPaid
  BY IInvFacts, <1>1, <1>3 DEF Frame
<1>6. FrameBatch' = FrameBatch
  BY <1>4, <1>5 DEF FrameBatch
<1>7. TypeOK' /\ FrameOK'
  BY IInvFacts, <1>1, <1>4, <1>5, <1>6 DEF TypeOK, FrameOK, Idle, InExecutePayout
<1>8. Shape(storage') /\ Signed(storage')
  <2>1. storage.prizePools[q].exists
    BY IInvFacts, <1>1 DEF FrameOK, Shape
  <2>2. \A p \in PoolIds : p # q => storage'.paid[p] = storage.paid[p]
    BY IInvFacts, <1>4
  <2>3. \A p \in PoolIds :
           /\ storage'.prizePools[p].exists = storage.prizePools[p].exists
           /\ storage'.prizePools[p].requiredSignatures = storage.prizePools[p].requiredSignatures
           /\ ~storage.prizePools[p].exists =>
                /\ storage'.prizePools[p].totalAmount = 0
                /\ storage'.prizePools[p].remainingAmount = 0
                /\ storage'.paid[p] = 0 /\ storage'.returned[p] = 0
    BY IInvFacts, <1>4, <2>1, <2>2 DEF Shape
  <2> QED  BY IInvFacts, <1>4, <2>3, PoolStep
<1>9. OpenLedger'
  <2> SUFFICES ASSUME NEW p \in PoolIds
               PROVE  storage.prizePools[p].totalAmount + InFlight(p)' =
                        storage.prizePools[p].remainingAmount + storage'.paid[p] + storage.returned[p]
    BY <1>4 DEF OpenLedger
  <2>1. CASE p = q
    <3>1. InFlight(p) = frame.totalPaid /\ InFlight(p)' = frame.totalPaid + v
      BY IInvFacts, <1>1, <1>5, <1>6, <2>1 DEF InFlight, Current, InExecutePayout, Frame
    <3>2. InFlight(p)' = InFlight(p) + v
      BY <3>1
    <3>3. storage'.paid[p] = storage.paid[p] + v
      BY IInvFacts, <1>4, <2>1
    <3> HIDE DEF q, v
    <3> QED  BY <1>3, <3>2, <3>3, LedgerMoves
  <2>2. CASE p # q
    <3>1. InFlight(p)' = InFlight(p) /\ storage'.paid[p] = storage.paid[p]
      BY IInvFacts, <1>4, <1>5, <2>2 DEF InFlight
    <3> QED  BY <3>1, LedgerTerms
  <2> QED  BY <2>1, <2>2
<1> QED  BY <1>1, <1>7, <1>8, <1>9 DEF Good, Commits

LEMMA ReturnsStep ==
  ASSUME IInv, TransferReturns
  PROVE  Good' /\ Commits
<1>1. /\ InExecutePayout /\ frame.callee # NoOne
      /\ frame' = [frame EXCEPT !.callee = NoOne, !.i = @ + 1,
                    !.totalPaid = @ + FrameBatch[frame.i].amount]
      /\ UNCHANGED <<committed, now>>
  BY DEF TransferReturns
<1>2. frame.i <= Len(FrameBatch) /\ FrameBatch[frame.i] \in Payment
  BY IInvFacts, <1>1, CurrentPayment DEF FrameOK
<1>3. storage' \in Storage /\ UNCHANGED Books(storage)
  BY IInvFacts, <1>2, BooksUntouched
<1> DEFINE v == FrameBatch[frame.i].amount
           j == frame.i + 1
           sum == frame.totalPaid + v
<1>4. v \in Nat /\ j \in Nat /\ sum \in Nat
  BY IInvFacts, <1>2 DEF Payment, Frame
<1>5. frame' = [frame EXCEPT !.callee = NoOne, !.i = j, !.totalPaid = sum]
  BY <1>1
<1>6. j \in 1 .. Len(FrameBatch) + 1
  BY IInvFacts, <1>1, <1>2 DEF FrameOK
<1> HIDE DEF v, j, sum
<1>7. /\ frame' \in Frame /\ frame'.callee = NoOne /\ frame'.fn = frame.fn
      /\ frame'.poolId = frame.poolId /\ frame'.payoutId = frame.payoutId
      /\ frame'.i = j /\ frame'.totalPaid = sum
  BY IInvFacts, <1>4, <1>5 DEF Frame
<1>8. FrameBatch' = FrameBatch
  BY <1>3, <1>7 DEF FrameBatch, Books
<1>9. TypeOK' /\ FrameOK'
  BY IInvFacts, <1>1, <1>3, <1>6, <1>7, <1>8 DEF TypeOK, FrameOK, Idle, InExecutePayout, Books
<1>10. \A p \in PoolIds : InFlight(p)' = InFlight(p)
  <2>1. sum + 0 = frame.totalPaid + v
    BY <1>4 DEF sum
  <2> QED  BY <1>1, <1>7, <2>1 DEF InFlight, Current, InExecutePayout, v
<1>11. Shape(storage') /\ Signed(storage') /\ OpenLedger'
  BY IInvFacts, <1>3, <1>10 DEF Shape, Signed, OpenLedger, Books
<1> QED  BY <1>1, <1>9, <1>11 DEF Good, Commits

LEMMA NoFrameType == NoFrame \in Frame
BY DEF NoFrame, Frame, PoolIds

LEMMA FinishPayoutStep ==
  ASSUME IInv, FinishPayout
  PROVE  Good' /\ Commits
<1> DEFINE q == frame.poolId
           old == storage.prizePools[q]
           n == old.remainingAmount - frame.totalPaid
           new == AfterPayout(old, n)
<1>1. /\ InExecutePayout /\ frame.callee = NoOne
      /\ frame' = NoFrame /\ committed' = storage' /\ now' = now
  BY DEF FinishPayout
<1>2. q \in PoolIds /\ frame.totalPaid \in Nat
  BY IInvFacts DEF Frame
<1>3. /\ storage' \in Storage /\ n \in Nat
      /\ storage'.prizePools = [storage.prizePools EXCEPT ![q] = new]
      /\ UNCHANGED <<storage.poolCounter, storage.payoutRequests,
                     storage.payoutRequestCounter, storage.paid, storage.returned>>
  <2>1. storage \in Storage /\ frame \in Frame
    BY IInvFacts
  <2> QED  BY <2>1, FinishEffect
<1>4. /\ new.remainingAmount = n /\ new.totalAmount = old.totalAmount
      /\ new.exists = old.exists /\ new.requiredSignatures = old.requiredSignatures
  BY IInvFacts, <1>2, <1>3, PayPool
<1>5. \A p \in PoolIds : storage'.prizePools[p] = IF p = q THEN new ELSE storage.prizePools[p]
  BY IInvFacts, <1>3
<1> HIDE DEF new
<1>6. TypeOK' /\ FrameOK'
  BY IInvFacts, <1>1, <1>3, NoFrameType DEF TypeOK, FrameOK, Idle, InExecutePayout, NoFrame
<1>7. old.exists
  BY IInvFacts, <1>1, <1>2 DEF FrameOK, Shape
<1>8. Shape(storage') /\ Signed(storage')
  <2>1. \A p \in PoolIds :
           /\ storage'.prizePools[p].exists = storage.prizePools[p].exists
           /\ storage'.prizePools[p].requiredSignatures = storage.prizePools[p].requiredSignatures
           /\ ~storage.prizePools[p].exists =>
                /\ storage'.prizePools[p].totalAmount = 0
                /\ storage'.prizePools[p].remainingAmount = 0
                /\ storage'.paid[p] = 0 /\ storage'.returned[p] = 0
    <3> SUFFICES ASSUME NEW p \in PoolIds
                 PROVE  /\ storage'.prizePools[p].exists = storage.prizePools[p].exists
                        /\ storage'.prizePools[p].requiredSignatures =
                             storage.prizePools[p].requiredSignatures
                        /\ ~storage.prizePools[p].exists =>
                             /\ storage'.prizePools[p].totalAmount = 0
                             /\ storage'.prizePools[p].remainingAmount = 0
                             /\ storage'.paid[p] = 0 /\ storage'.returned[p] = 0
      OBVIOUS
    <3>1. UNCHANGED <<storage.paid, storage.returned>>
      BY <1>3
    <3>2. CASE p = q
      BY <1>4, <1>5, <1>7, <3>2
    <3>3. CASE p # q
      BY IInvFacts, <1>5, <3>1, <3>3 DEF Shape
    <3> QED  BY <3>2, <3>3
  <2> QED  BY IInvFacts, <1>3, <2>1, PoolStep
<1>9. OpenLedger'
  <2>1. \A p \in PoolIds : InFlight(p)' = 0
    BY <1>1 DEF InFlight, InExecutePayout, NoFrame
  <2> SUFFICES ASSUME NEW p \in PoolIds
               PROVE  storage'.prizePools[p].totalAmount + 0 =
                        storage'.prizePools[p].remainingAmount + storage.paid[p] + storage.returned[p]
    BY <1>3, <2>1 DEF OpenLedger
  <2>2. CASE p = q
    <3>1. InFlight(p) = frame.totalPaid
      BY <1>1, <1>2, <2>2 DEF InFlight, Current
    <3>2. storage'.prizePools[p].remainingAmount = storage.prizePools[p].remainingAmount - InFlight(p)
          /\ storage'.prizePools[p].totalAmount = storage.prizePools[p].totalAmount
      BY <1>4, <1>5, <2>2, <3>1
    <3>3. storage.prizePools[p].totalAmount =
            (storage.prizePools[p].remainingAmount - InFlight(p)) + storage.paid[p] + storage.returned[p]
      BY LedgerMoves
    <3> QED  BY <3>2, <3>3, LedgerTerms
  <2>3. CASE p # q
    <3>1. InFlight(p) = 0
      BY <2>3 DEF InFlight
    <3> QED  BY <1>5, <2>3, <3>1, LedgerTerms
  <2> QED  BY <2>2, <2>3
<1> QED  BY <1>1, <1>6, <1>8, <1>9 DEF Good, Commits, FrameOK, Idle, NoFrame

LEMMA RevertStep ==
  ASSUME IInv, Revert
  PROVE  Good' /\ Commits
<1>1. storage' = committed /\ frame' = NoFrame /\ UNCHANGED <<committed, now>>
  BY DEF Revert
<1>2. TypeOK' /\ FrameOK'
  BY IInvFacts, <1>1, NoFrameType DEF TypeOK, FrameOK, Idle, InExecutePayout, NoFrame
<1>3. Shape(storage') /\ Signed(storage')
  BY <1>1 DEF IInv
<1>4. OpenLedger'
  <2>1. \A p \in PoolIds : InFlight(p)' = 0 /\ LedgerOf(committed, p)
    BY <1>1 DEF IInv, PoolLedger, InFlight, InExecutePayout, NoFrame
  <2>2. \A p \in PoolIds : committed.prizePools[p].totalAmount \in Nat
    BY IInvFacts, StorageFields, PoolFields
  <2> QED  BY <1>1, <2>1, <2>2 DEF OpenLedger, LedgerOf
<1> QED  BY <1>1, <1>2, <1>3, <1>4 DEF Good, Commits

\* executeEmergencyWithdraw and refundPool, as far as the host's call ...
LEMMA ReturnStep ==
  ASSUME IInv, NEW q \in PoolIds, NEW fn \in {"executeEmergencyWithdraw", "refundPool"},
         Idle, ReturnToHost(fn, q)
  PROVE  Good' /\ Commits
<1> DEFINE old == storage.prizePools[q]
           new == Emptied(old)
<1>1. /\ frame' = [NoFrame EXCEPT !.fn = fn, !.poolId = q, !.callee = old.host]
      /\ UNCHANGED <<committed, now>>
  BY DEF ReturnToHost
<1>2. /\ storage' \in Storage
      /\ storage'.prizePools = [storage.prizePools EXCEPT ![q] = new]
      /\ storage'.returned = [storage.returned EXCEPT ![q] = @ + old.remainingAmount]
      /\ UNCHANGED <<storage.poolCounter, storage.payoutRequests,
                     storage.payoutRequestCounter, storage.paid>>
  <2>1. storage \in Storage
    BY IInvFacts
  <2> QED  BY <2>1, ReturnEffect
<1>3. /\ new.remainingAmount = 0 /\ new.totalAmount = old.totalAmount
      /\ new.exists = old.exists /\ new.requiredSignatures = old.requiredSignatures
  BY IInvFacts, EmptyPool
<1>4. \A p \in PoolIds : storage'.prizePools[p] = IF p = q THEN new ELSE storage.prizePools[p]
  BY IInvFacts, <1>2
<1> HIDE DEF new
<1>5. old.host \in Accounts
  BY IInvFacts, PoolFields
<1>6. frame' \in Frame /\ frame'.fn = fn
  <2> HIDE DEF old
  <2> QED  BY <1>1, <1>5, NoFrameType DEF NoFrame, Frame
<1>7. TypeOK' /\ FrameOK'
  BY IInvFacts, <1>1, <1>2, <1>6 DEF TypeOK, FrameOK, Idle, InExecutePayout
<1>8. \A p \in PoolIds :
         storage'.returned[p] = IF p = q THEN storage.returned[p] + storage.prizePools[p].remainingAmount
                                ELSE storage.returned[p]
  BY IInvFacts, <1>2
<1>9. Shape(storage') /\ Signed(storage')
  <2>1. \A p \in PoolIds :
           /\ storage'.prizePools[p].exists = storage.prizePools[p].exists
           /\ storage'.prizePools[p].requiredSignatures = storage.prizePools[p].requiredSignatures
           /\ ~storage.prizePools[p].exists =>
                /\ storage'.prizePools[p].totalAmount = 0
                /\ storage'.prizePools[p].remainingAmount = 0
                /\ storage'.paid[p] = 0 /\ storage'.returned[p] = 0
    <3> SUFFICES ASSUME NEW p \in PoolIds
                 PROVE  /\ storage'.prizePools[p].exists = storage.prizePools[p].exists
                        /\ storage'.prizePools[p].requiredSignatures =
                             storage.prizePools[p].requiredSignatures
                        /\ ~storage.prizePools[p].exists =>
                             /\ storage'.prizePools[p].totalAmount = 0
                             /\ storage'.prizePools[p].remainingAmount = 0
                             /\ storage'.paid[p] = 0 /\ storage'.returned[p] = 0
      OBVIOUS
    <3>1. ~storage.prizePools[p].exists =>
             /\ storage.prizePools[p].totalAmount = 0 /\ storage.prizePools[p].remainingAmount = 0
             /\ storage.paid[p] = 0 /\ storage.returned[p] = 0
      BY IInvFacts DEF Shape
    <3>2. storage'.paid = storage.paid
      BY <1>2
    <3>3. CASE p = q
      BY <1>3, <1>4, <1>8, <3>1, <3>2, <3>3
    <3>4. CASE p # q
      BY <1>4, <1>8, <3>1, <3>2, <3>4
    <3> QED  BY <3>3, <3>4
  <2> QED  BY IInvFacts, <1>2, <2>1, PoolStep
<1>10. OpenLedger'
  <2>1. \A p \in PoolIds : InFlight(p)' = 0 /\ InFlight(p) = 0
    BY <1>6 DEF InFlight, InExecutePayout, Idle
  <2> SUFFICES ASSUME NEW p \in PoolIds
               PROVE  storage'.prizePools[p].totalAmount + 0 =
                        storage'.prizePools[p].remainingAmount + storage.paid[p] + storage'.returned[p]
    BY <1>2, <2>1 DEF OpenLedger
  <2>2. CASE p = q
    <3>1. storage.prizePools[p].totalAmount + InFlight(p) =
            storage.paid[p] + (storage.returned[p] + storage.prizePools[p].remainingAmount)
      BY LedgerMoves
    <3>2. /\ storage'.prizePools[p].totalAmount = storage.prizePools[p].totalAmount
          /\ storage'.prizePools[p].remainingAmount = 0
          /\ storage'.returned[p] = storage.returned[p] + storage.prizePools[p].remainingAmount
      BY <1>3, <1>4, <1>8, <2>2
    <3> QED  BY <2>1, <3>1, <3>2, LedgerTerms
  <2>3. CASE p # q
    BY <1>4, <1>8, <2>1, <2>3, LedgerTerms
  <2> QED  BY <2>2, <2>3
<1> QED  BY <1>1, <1>7, <1>9, <1>10 DEF Good, Commits

\* ... and after it.
LEMMA FinishReturnStep ==
  ASSUME IInv, FinishReturnToHost
  PROVE  Good' /\ Commits
<1>1. /\ frame.fn # "_executePayout" /\ frame' = NoFrame /\ committed' = storage
      /\ UNCHANGED <<storage, now>>
  BY DEF FinishReturnToHost
<1>2. TypeOK' /\ FrameOK'
  BY IInvFacts, <1>1, NoFrameType DEF TypeOK, FrameOK, Idle, InExecutePayout, NoFrame
<1>3. Shape(storage') /\ Signed(storage')
  BY IInvFacts, <1>1
<1>4. \A p \in PoolIds : InFlight(p)' = InFlight(p)
  BY <1>1 DEF InFlight, InExecutePayout, NoFrame
<1>5. OpenLedger'
  BY IInvFacts, <1>1, <1>4 DEF OpenLedger
<1> QED  BY <1>1, <1>2, <1>3, <1>5 DEF Good, Commits, Idle, NoFrame

LEMMA MarkStep ==
  ASSUME IInv, NEW sender \in Accounts, NEW q \in PoolIds,
         InitiateEmergencyWithdraw(sender, q) \/ LockPool(sender, q)
  PROVE  Good' /\ Commits
<1>1. PICK new \in PrizePool :
        /\ SameAccounts(new, storage.prizePools[q])
        /\ storage'.prizePools = [storage.prizePools EXCEPT ![q] = new]
  <2>1. storage \in Storage /\ now \in Nat
    BY IInvFacts
  <2> QED  BY <2>1, InitiateEffect
<1>2. /\ storage' \in Storage
      /\ UNCHANGED <<storage.poolCounter, storage.payoutRequests,
                     storage.payoutRequestCounter, storage.paid, storage.returned>>
  <2>1. storage \in Storage /\ now \in Nat
    BY IInvFacts
  <2> QED  BY <2>1, InitiateEffect
<1>3. \A p \in PoolIds : SameAccounts(storage'.prizePools[p], storage.prizePools[p])
  BY IInvFacts, <1>1 DEF SameAccounts
<1>4. TypeOK' /\ FrameOK' /\ Stays /\ Commits
  <2>1. InOneStep
    BY DEF InitiateEmergencyWithdraw, LockPool
  <2> QED  BY <1>2, <2>1, OneStep
<1>5. Shape(storage') /\ Signed(storage')
  BY IInvFacts, <1>2, <1>3, PoolStep DEF SameAccounts, Shape
<1>6. OpenLedger'
  BY IInvFacts, <1>2, <1>3, <1>4 DEF OpenLedger, Stays, SameAccounts
<1> QED  BY <1>4, <1>5, <1>6 DEF Good

\* receive, pause, unpause, grantRole and revokeRole.
LEMMA OtherStep ==
  ASSUME IInv, InOneStep,
         \/ \E sender \in Accounts, v \in StrayAmounts : Receive(sender, v)
         \/ \E sender \in Accounts, paused \in BOOLEAN : SetPaused(sender, paused)
         \/ \E sender \in Accounts, change \in RoleChanges :
               GrantRole(sender, change[1], change[2]) \/ RevokeRole(sender, change[1], change[2])
  PROVE  Good' /\ Commits
<1>1. storage' \in Storage /\ UNCHANGED Books(storage)
  <2>1. ASSUME TransferReturns PROVE FALSE
    <3> DEFINE j == frame.i + 1
               sum == frame.totalPaid + FrameBatch[frame.i].amount
    <3>1. frame.callee # NoOne /\ frame' = [frame EXCEPT !.callee = NoOne, !.i = j, !.totalPaid = sum]
      BY <2>1 DEF TransferReturns
    <3>2. frame' = frame
      BY DEF InOneStep
    <3> HIDE DEF j, sum
    <3> QED  BY IInvFacts, <3>1, <3>2 DEF Frame
  <2> QED  BY IInvFacts, <2>1, BooksUntouched
<1>2. TypeOK' /\ FrameOK' /\ Stays /\ Commits
  BY <1>1, OneStep DEF Books
<1>3. Shape(storage') /\ Signed(storage') /\ OpenLedger'
  BY IInvFacts, <1>1, <1>2 DEF Shape, Signed, OpenLedger, Stays, Books
<1> QED  BY <1>2, <1>3 DEF Good

LEMMA StepIsGood ==
  ASSUME IInv, Next
  PROVE  Good' /\ Commits
<1>1. CASE Funding
  <2>1. ASSUME NEW sender \in Accounts, NEW v \in StrayAmounts, Receive(sender, v)
        PROVE  Good' /\ Commits
    BY <2>1, OtherStep DEF Receive
  <2> QED  BY <1>1, <2>1, CreateStep, FundStep DEF Funding
<1>2. CASE Requests
  BY <1>2, RequestPayoutStep, ApproveStep, ExecuteStep, RejectStep DEF Requests
<1>3. CASE Progress
  BY <1>3, TransferStep, ReturnsStep, FinishPayoutStep, FinishReturnStep, RevertStep DEF Progress
<1>4. CASE Withdrawals
  <2>1. ASSUME NEW sender \in Accounts, NEW p \in PoolIds, ExecuteEmergencyWithdraw(sender, p)
        PROVE  Good' /\ Commits
    BY <2>1, ReturnStep DEF ExecuteEmergencyWithdraw, nonReentrant
  <2>2. ASSUME NEW sender \in Accounts, NEW p \in PoolIds, RefundPool(sender, p)
        PROVE  Good' /\ Commits
    BY <2>2, ReturnStep DEF RefundPool, nonReentrant
  <2> QED  BY <1>4, <2>1, <2>2, MarkStep DEF Withdrawals
<1>5. CASE Administration
  <2>1. ASSUME NEW sender \in Accounts, NEW paused \in BOOLEAN, SetPaused(sender, paused)
        PROVE  Good' /\ Commits
    BY <2>1, OtherStep DEF SetPaused
  <2>2. ASSUME NEW sender \in Accounts, NEW change \in RoleChanges,
               GrantRole(sender, change[1], change[2]) \/ RevokeRole(sender, change[1], change[2])
        PROVE  Good' /\ Commits
    <3>1. InOneStep
      BY <2>2 DEF GrantRole, RevokeRole
    <3> QED  BY <2>2, <3>1, OtherStep
  <2> QED  BY <1>5, <2>1, <2>2, MarkStep DEF Administration
<1>6. CASE Tick
  <2>1. now' \in Nat /\ UNCHANGED <<storage, committed, frame>>
    BY <1>6, IInvFacts DEF Tick
  <2> QED  BY <2>1, StandingStill
<1> QED  BY <1>1, <1>2, <1>3, <1>4, <1>5, <1>6 DEF Next

LEMMA NextIInv ==
  ASSUME IInv, [Next]_vars
  PROVE  IInv'
<1>1. Good' /\ Commits
  <2>1. CASE UNCHANGED vars
    BY <2>1, IInvFacts, StandingStill DEF vars
  <2> QED  BY <2>1, StepIsGood
<1>2. CASE committed' = committed
  BY <1>1, <1>2 DEF IInv, Good, PoolLedger, LedgerOf, Shape, Signed
<1>3. CASE committed' = storage' /\ Idle'
  <2>1. Shape(committed') /\ Signed(committed')
    BY <1>1, <1>3 DEF Good
  <2>2. PoolLedger'
    <3> SUFFICES ASSUME NEW p \in PoolIds PROVE LedgerOf(committed', p)
      BY DEF PoolLedger, LedgerOf
    <3>1. InFlight(p)' = 0 /\ storage' \in Storage
      BY <1>1, <1>3 DEF InFlight, InExecutePayout, Idle, Good, TypeOK
    <3>2. storage'.prizePools[p].totalAmount \in Nat
      BY <3>1, StorageFields, PoolFields
    <3>3. storage'.prizePools[p].totalAmount + 0 =
            storage'.prizePools[p].remainingAmount + storage'.paid[p] + storage'.returned[p]
      BY <1>1, <3>1 DEF Good, OpenLedger
    <3> QED  BY <1>3, <3>2, <3>3 DEF LedgerOf
  <2> QED  BY <1>1, <2>1, <2>2 DEF IInv, Good
<1> QED  BY <1>1, <1>2, <1>3 DEF Commits

-----------------------------------------------------------------------------
(* The theorems.                                                             *)

LEMMA Invariance == Spec => []IInv
<1> QED  BY InitIInv, NextIInv, PTL DEF Spec

\* Every reachable state of the escrow is well typed: in particular every
\* amount is a natural number, so no subtraction of the contract (checked ones
\* revert) goes below zero, whatever the recipients of ETH do when called.
THEOREM TypeCorrect == Spec => []TypeOK
<1>1. IInv => TypeOK
  BY DEF IInv
<1> QED  BY <1>1, Invariance, PTL

\* After every transaction the totalAmount of every pool is what remains in
\* it, was paid to winners and was returned to its host, for any number of
\* pools, requests, accounts and callbacks.
THEOREM LedgerHolds == Spec => []PoolLedger
<1>1. IInv => PoolLedger
  BY DEF IInv
<1> QED  BY <1>1, Invariance, PTL

\* Every executed request was approved by at least requiredSignatures, hence
\* MIN_REQUIRED_SIGNATURES, different accounts.
THEOREM QuorumHolds == Spec => []QuorumBeforePayout
<1>1. ASSUME IInv, NEW r \in PayoutIds, committed.payoutRequests[r].status = "Executed"
      PROVE  /\ Cardinality(committed.payoutRequests[r].approvals) >=
                  committed.prizePools[committed.payoutRequests[r].poolId].requiredSignatures
             /\ Cardinality(committed.payoutRequests[r].approvals) >= MIN_REQUIRED_SIGNATURES
  <2> DEFINE request == committed.payoutRequests[r]
             pool == committed.prizePools[request.poolId]
  <2>1. /\ request.approvalCount = Cardinality(request.approvals)
        /\ request.exists /\ request.approvalCount >= pool.requiredSignatures
    BY <1>1 DEF IInv, Signed
  <2>2. request \in PayoutRequest /\ request.poolId \in PoolIds
    BY <1>1, IInvFacts, StorageFields, RequestFields
  <2>3. pool.exists
    BY <1>1, <2>1 DEF IInv, Shape
  <2>4. pool.requiredSignatures >= MIN_REQUIRED_SIGNATURES
    BY <1>1, <2>2, <2>3 DEF IInv, Signed
  <2>5. pool.requiredSignatures \in Nat /\ request.approvalCount \in Nat
    BY <1>1, <2>2, IInvFacts, StorageFields, RequestFields, PoolFields
  <2> HIDE DEF request, pool
  <2>6. request.approvalCount >= MIN_REQUIRED_SIGNATURES
    BY <2>1, <2>4, <2>5
  <2> QED  BY <2>1, <2>6 DEF request, pool
<1>2. IInv => QuorumBeforePayout
  BY <1>1 DEF QuorumBeforePayout
<1> QED  BY <1>2, Invariance, PTL

-----------------------------------------------------------------------------
(* How pools end, and money goes back.  The invariant, on top of IInv: what  *)
(* a transaction in progress may have done since committed.                  *)

\* A pool that has ended exists and is empty.
Ended(s) ==
    \A p \in PoolIds : Terminal(s, p) =>
        s.prizePools[p].exists /\ s.prizePools[p].remainingAmount = 0

\* Every request pays somebody something.
Positive(batch) == batch # <<>> /\ \A k \in DOMAIN batch : batch[k].amount > 0
Batched(s) ==
    \A r \in PayoutIds : s.payoutRequests[r].exists => Positive(s.payoutRequests[r].batch)

\* What a running payout has transferred so far.
SomePaid == InExecutePayout /\ frame.i > 1 => frame.totalPaid > 0

\* No transaction touches a pool that had ended before it.
EndedStays ==
    \A p \in PoolIds : Terminal(committed, p) =>
        /\ storage.prizePools[p] = committed.prizePools[p]
        /\ storage.returned[p] = committed.returned[p]

\* What a transaction returns to a host was announced before it, or is a refund of a
\* pool that is open and has paid nobody.
Announced(p) ==
    LET pool == committed.prizePools[p]
    IN \/ pool.emergencyWithdrawable /\ now >= pool.emergencyWithdrawTime
       \/ pool.status = "Active" /\ committed.paid[p] = 0
ReturnsAnnounced ==
    \A p \in PoolIds : storage.returned[p] # committed.returned[p] => Announced(p)

Closing ==
    /\ Ended(storage) /\ Ended(committed)
    /\ Batched(storage) /\ Batched(committed)
    /\ SomePaid /\ EndedStays /\ ReturnsAnnounced

-----------------------------------------------------------------------------
(* What every step but a revert does to pools, returns and requests, and     *)
(* why that is enough.                                                       *)

\* A pool changes only before it has ended, and ends empty.
PoolMoves(p) ==
    \/ storage'.prizePools[p] = storage.prizePools[p]
    \/ /\ ~Terminal(storage, p)
       /\ Terminal(storage', p) =>
            storage'.prizePools[p].exists /\ storage'.prizePools[p].remainingAmount = 0

\* A return is announced and begins a transaction.
ReturnMoves(p) ==
    \/ storage'.returned[p] = storage.returned[p]
    \/ ~Terminal(storage, p) /\ Announced(p) /\ UNCHANGED <<committed, now>> /\ Idle

RequestMoves(r) ==
    storage'.payoutRequests[r].exists =>
        \/ /\ storage.payoutRequests[r].exists
           /\ storage'.payoutRequests[r].batch = storage.payoutRequests[r].batch
        \/ Positive(storage'.payoutRequests[r].batch)

Moves ==
    /\ \A p \in PoolIds : PoolMoves(p) /\ ReturnMoves(p)
    /\ \A r \in PayoutIds : RequestMoves(r)
    /\ SomePaid'
    /\ now' >= now

LEMMA ClosingFacts ==
  ASSUME Closing
  PROVE  /\ Ended(storage) /\ Ended(committed) /\ Batched(storage) /\ Batched(committed)
         /\ SomePaid /\ EndedStays /\ ReturnsAnnounced
BY DEF Closing

LEMMA StillAnnounced ==
  ASSUME IInv, NEW p \in PoolIds, Announced(p), committed' = committed,
         now' >= now, now' \in Nat
  PROVE  Announced(p)'
<1>1. now \in Nat /\ committed.prizePools[p].emergencyWithdrawTime \in Nat
  <2>1. committed.prizePools[p] \in PrizePool
    BY IInvFacts, StorageFields
  <2> QED  BY <2>1, IInvFacts DEF PrizePool
<1>2. ASSUME now >= committed.prizePools[p].emergencyWithdrawTime
      PROVE  now' >= committed.prizePools[p].emergencyWithdrawTime
  <2> DEFINE time == committed.prizePools[p].emergencyWithdrawTime
  <2> HIDE DEF time
  <2>1. time \in Nat /\ now >= time
    BY <1>1, <1>2 DEF time
  <2>2. now' >= time
    BY <1>1, <2>1
  <2> QED  BY <2>2 DEF time
<1> QED  BY <1>2 DEF Announced

LEMMA MovesClose ==
  ASSUME IInv, IInv', Closing, Moves, Commits
  PROVE  Closing'
<1>1. Ended(storage')
  BY ClosingFacts DEF Moves, PoolMoves, Ended, Terminal
<1>2. Batched(storage')
  BY ClosingFacts DEF Moves, RequestMoves, Batched
<1>3. SomePaid'
  BY DEF Moves
<1>4. CASE committed' = committed
  <2>1. Ended(committed') /\ Batched(committed')
    BY <1>4, ClosingFacts
  <2>2. EndedStays'
    <3> SUFFICES ASSUME NEW p \in PoolIds, Terminal(committed, p)
                 PROVE  /\ storage'.prizePools[p] = committed.prizePools[p]
                        /\ storage'.returned[p] = committed.returned[p]
      BY <1>4 DEF EndedStays
    <3>1. /\ storage.prizePools[p] = committed.prizePools[p]
          /\ storage.returned[p] = committed.returned[p]
      BY ClosingFacts DEF EndedStays
    <3>2. Terminal(storage, p)
      BY <3>1 DEF Terminal
    <3> QED  BY <3>1, <3>2 DEF Moves, PoolMoves, ReturnMoves
  <2>3. ReturnsAnnounced'
    <3> SUFFICES ASSUME NEW p \in PoolIds, storage'.returned[p] # committed.returned[p]
                 PROVE  Announced(p)'
      BY <1>4 DEF ReturnsAnnounced
    <3>1. Announced(p)
      BY ClosingFacts DEF Moves, ReturnMoves, ReturnsAnnounced
    <3>2. now' >= now /\ now' \in Nat
      BY DEF Moves, IInv, TypeOK
    <3> QED  BY <1>4, <3>1, <3>2, StillAnnounced
  <2> QED  BY <1>1, <1>2, <1>3, <2>1, <2>2, <2>3 DEF Closing
<1>5. CASE committed' = storage'
  <2>1. Ended(committed') /\ Batched(committed') /\ EndedStays' /\ ReturnsAnnounced'
    BY <1>1, <1>2, <1>5 DEF EndedStays, ReturnsAnnounced
  <2> QED  BY <1>1, <1>2, <1>3, <2>1 DEF Closing
<1> QED  BY <1>4, <1>5 DEF Commits

\* A revert puts back what closes already.
LEMMA RevertCloses ==
  ASSUME IInv, Closing, Revert
  PROVE  Closing'
<1>1. storage' = committed /\ committed' = committed /\ frame' = NoFrame
  BY DEF Revert
<1>2. SomePaid'
  BY <1>1 DEF SomePaid, InExecutePayout, NoFrame
<1>3. EndedStays' /\ ReturnsAnnounced'
  BY <1>1 DEF EndedStays, ReturnsAnnounced
<1> QED  BY <1>1, <1>2, <1>3, ClosingFacts DEF Closing

-----------------------------------------------------------------------------
(* The steps.                                                                *)

LEMMA NowIsKept == ASSUME IInv, now' = now PROVE now' >= now
BY IInvFacts

\* One pool is replaced.
LEMMA OnePool ==
  ASSUME IInv, NEW q \in PoolIds, NEW new \in PrizePool,
         storage'.prizePools = [storage.prizePools EXCEPT ![q] = new],
         ~Terminal(storage, q),
         new.status \in {"Completed", "Cancelled"} => new.exists /\ new.remainingAmount = 0
  PROVE  \A p \in PoolIds : PoolMoves(p)
<1>1. \A p \in PoolIds : storage'.prizePools[p] = IF p = q THEN new ELSE storage.prizePools[p]
  BY IInvFacts
<1> QED  BY <1>1 DEF PoolMoves, Terminal

\* Requests are left alone.
LEMMA SameRequests ==
  ASSUME UNCHANGED storage.payoutRequests
  PROVE  \A r \in PayoutIds : RequestMoves(r)
BY DEF RequestMoves

\* A running frame is left alone.
LEMMA SameFrame ==
  ASSUME IInv, Closing, InOneStep
  PROVE  SomePaid' /\ now' >= now
<1>1. frame' = frame /\ now' = now
  BY DEF InOneStep
<1> QED  BY <1>1, NowIsKept, ClosingFacts DEF SomePaid, InExecutePayout

LEMMA StillMoves ==
  ASSUME Closing, UNCHANGED <<storage, frame>>, now' >= now
  PROVE  Moves
<1>1. SomePaid'
  BY ClosingFacts DEF SomePaid, InExecutePayout
<1> QED  BY <1>1 DEF Moves, PoolMoves, ReturnMoves, RequestMoves

LEMMA OtherMoves ==
  ASSUME IInv, Closing, InOneStep,
         \/ \E sender \in Accounts, v \in StrayAmounts : Receive(sender, v)
         \/ \E sender \in Accounts, paused \in BOOLEAN : SetPaused(sender, paused)
         \/ \E sender \in Accounts, change \in RoleChanges :
               GrantRole(sender, change[1], change[2]) \/ RevokeRole(sender, change[1], change[2])
  PROVE  Moves
<1>1. UNCHANGED <<storage.prizePools, storage.payoutRequests, storage.returned>>
  <2>1. ASSUME TransferReturns PROVE FALSE
    <3> DEFINE j == frame.i + 1
               sum == frame.totalPaid + FrameBatch[frame.i].amount
    <3>1. frame.callee # NoOne /\ frame' = [frame EXCEPT !.callee = NoOne, !.i = j, !.totalPaid = sum]
      BY <2>1 DEF TransferReturns
    <3>2. frame' = frame
      BY DEF InOneStep
    <3> HIDE DEF j, sum
    <3> QED  BY IInvFacts, <3>1, <3>2 DEF Frame
  <2> QED  BY IInvFacts, <2>1, BooksUntouched DEF Books
<1> QED  BY <1>1, SameFrame, SameRequests DEF Moves, PoolMoves, ReturnMoves

LEMMA CreateMoves ==
  ASSUME IInv, Closing, NEW sender \in Accounts, NEW e \in Events, NEW t \in Tokens,
         NEW n \in SignatureCounts, NEW value \in Amounts \cup StrayAmounts,
         CreatePrizePool(sender, e, t, n, value)
  PROVE  Moves
<1> DEFINE q == storage.poolCounter
           new == NewPool(sender, e, t, n, value)
<1>1. /\ q \in PoolIds /\ new \in PrizePool
      /\ storage'.prizePools = [storage.prizePools EXCEPT ![q] = new]
      /\ storage'.payoutRequests = storage.payoutRequests
      /\ storage'.returned = storage.returned
  BY IInvFacts, CreateEffect
<1>2. ~storage.prizePools[q].exists
  BY IInvFacts, <1>1 DEF Shape, PoolIds
<1>3. ~Terminal(storage, q)
  BY <1>1, <1>2, ClosingFacts DEF Ended
<1>4. new.status = "Active"
  BY DEF NewPool
<1> HIDE DEF new
<1>5. \A p \in PoolIds : PoolMoves(p)
  BY <1>1, <1>3, <1>4, OnePool
<1>6. InOneStep
  BY DEF CreatePrizePool
<1> QED  BY <1>1, <1>5, <1>6, SameFrame, SameRequests DEF Moves, ReturnMoves

LEMMA FundMoves ==
  ASSUME IInv, Closing, NEW q \in PoolIds, NEW v \in Amounts, NEW w \in StrayAmounts \cup {0},
         FundPoolWithETH(q, v) \/ FundPoolWithToken(q, v, w)
  PROVE  Moves
<1> DEFINE old == storage.prizePools[q]
           new == Credit(old, v)
<1>1. /\ storage'.prizePools = [storage.prizePools EXCEPT ![q] = new]
      /\ UNCHANGED <<storage.payoutRequests, storage.returned>>
  <2>1. storage \in Storage
    BY IInvFacts
  <2> QED  BY <2>1, FundEffect
<1>2. InOneStep /\ old.status = "Active"
  BY DEF FundPoolWithETH, FundPoolWithToken, MayFund
<1>3. ~Terminal(storage, q)
  BY <1>2 DEF Terminal
<1>4. old \in PrizePool /\ new \in PrizePool
  BY IInvFacts, CreditPool
<1>5. new.status = "Active"
  <2> DEFINE m == old.totalAmount + v
             k == old.remainingAmount + v
  <2>1. new = [old EXCEPT !.totalAmount = m, !.remainingAmount = k]
    BY DEF Credit
  <2> HIDE DEF m, k
  <2> QED  BY <1>2, <1>4, <2>1 DEF PrizePool
<1> HIDE DEF new
<1>6. \A p \in PoolIds : PoolMoves(p)
  BY <1>1, <1>3, <1>4, <1>5, OnePool
<1> QED  BY <1>1, <1>2, <1>6, SameFrame, SameRequests DEF Moves, ReturnMoves

LEMMA RequestPayoutMoves ==
  ASSUME IInv, Closing, NEW sender \in Accounts, NEW p \in PoolIds, NEW b \in Batches,
         RequestPayout(sender, p, b)
  PROVE  Moves
<1> DEFINE q == storage.payoutRequestCounter
           new == [exists |-> TRUE, poolId |-> p, batch |-> b, status |-> "Pending",
                   approvalCount |-> 0, approvals |-> {}]
<1>1. /\ q \in PayoutIds
      /\ storage'.payoutRequests = [storage.payoutRequests EXCEPT ![q] = new]
      /\ UNCHANGED <<storage.prizePools, storage.returned>>
  <2>1. storage \in Storage
    BY IInvFacts
  <2> QED  BY <2>1, RequestEffect
<1>2. new.batch = b
  OBVIOUS
<1>3. Positive(b)
  <2>1. Len(b) # 0 /\ \A k \in DOMAIN b : b[k].amount > 0
    BY DEF RequestPayout
  <2> QED  BY <2>1 DEF Positive
<1> HIDE DEF new
<1>4. \A r \in PayoutIds :
        storage'.payoutRequests[r] = IF r = q THEN new ELSE storage.payoutRequests[r]
  BY IInvFacts, <1>1
<1>5. \A r \in PayoutIds : RequestMoves(r)
  BY <1>2, <1>3, <1>4 DEF RequestMoves
<1>6. InOneStep
  BY DEF RequestPayout
<1> QED  BY <1>1, <1>5, <1>6, SameFrame DEF Moves, PoolMoves, ReturnMoves

\* A request is replaced by one that asks for the same.
LEMMA OneRequest ==
  ASSUME IInv, NEW q \in PayoutIds, NEW new,
         storage'.payoutRequests = [storage.payoutRequests EXCEPT ![q] = new],
         storage.payoutRequests[q].exists, new.batch = storage.payoutRequests[q].batch
  PROVE  \A r \in PayoutIds : RequestMoves(r)
<1>1. \A r \in PayoutIds :
        storage'.payoutRequests[r] = IF r = q THEN new ELSE storage.payoutRequests[r]
  BY IInvFacts
<1> QED  BY <1>1 DEF RequestMoves

LEMMA DecisionMoves ==
  ASSUME IInv, Closing, NEW sender \in Accounts, NEW q \in PayoutIds,
         ApprovePayout(sender, q) \/ RejectPayout(sender, q) \/ ApproveAndExecute(sender, q)
  PROVE  Moves
<1> DEFINE old == storage.payoutRequests[q]
           approved == Approved(old, sender)
<1>1. storage \in Storage /\ old \in PayoutRequest
  BY IInvFacts
<1>2. old.exists
  BY DEF ApprovePayout, RejectPayout, ApproveAndExecute, MayApprove, IsPending
<1>3. approved \in PayoutRequest /\ approved.batch = old.batch
  BY <1>1, ApproveRequest
<1>4. CASE ApprovePayout(sender, q)
  <2>1. /\ storage'.payoutRequests = [storage.payoutRequests EXCEPT ![q] = approved]
        /\ UNCHANGED <<storage.prizePools, storage.returned>>
    BY <1>1, <1>4, ApproveEffect
  <2>2. \A r \in PayoutIds : RequestMoves(r)
    <3> HIDE DEF approved
    <3> QED  BY <1>2, <1>3, <2>1, OneRequest
  <2>3. InOneStep
    BY <1>4 DEF ApprovePayout
  <2> QED  BY <2>1, <2>2, <2>3, SameFrame DEF Moves, PoolMoves, ReturnMoves
<1>5. CASE RejectPayout(sender, q)
  <2> DEFINE new == [old EXCEPT !.status = "Rejected"]
  <2>1. /\ storage'.payoutRequests = [storage.payoutRequests EXCEPT ![q] = new]
        /\ UNCHANGED <<storage.prizePools, storage.returned>>
    BY <1>1, <1>5, RejectEffect
  <2>2. new.batch = old.batch
    BY <1>1 DEF PayoutRequest
  <2>3. \A r \in PayoutIds : RequestMoves(r)
    <3> HIDE DEF new
    <3> QED  BY <1>2, <2>1, <2>2, OneRequest
  <2>4. InOneStep
    BY <1>5 DEF RejectPayout
  <2> QED  BY <2>1, <2>3, <2>4, SameFrame DEF Moves, PoolMoves, ReturnMoves
<1>6. CASE ApproveAndExecute(sender, q)
  <2> DEFINE new == [approved EXCEPT !.status = "Executed"]
  <2>1. /\ storage'.payoutRequests = [storage.payoutRequests EXCEPT ![q] = new]
        /\ UNCHANGED <<storage.prizePools, storage.returned>>
    BY <1>1, <1>6, ExecuteEffect
  <2>2. new.batch = old.batch
    <3> HIDE DEF approved
    <3> QED  BY <1>3 DEF PayoutRequest
  <2>3. \A r \in PayoutIds : RequestMoves(r)
    <3> HIDE DEF new
    <3> QED  BY <1>2, <2>1, <2>2, OneRequest
  <2>4. frame'.i = 1 /\ now' = now
    BY <1>6 DEF ApproveAndExecute
  <2>5. SomePaid'
    BY <2>4 DEF SomePaid
  <2> QED  BY <2>1, <2>3, <2>4, <2>5, NowIsKept DEF Moves, PoolMoves, ReturnMoves
<1> QED  BY <1>4, <1>5, <1>6

LEMMA TransferMoves ==
  ASSUME IInv, Closing, TransferToRecipient
  PROVE  Moves
<1>1. /\ InExecutePayout /\ frame.i <= Len(FrameBatch)
      /\ frame' = [frame EXCEPT !.callee = FrameBatch[frame.i].recipient] /\ now' = now
  BY DEF TransferToRecipient
<1>2. UNCHANGED <<storage.prizePools, storage.payoutRequests, storage.returned>>
  BY IInvFacts, <1>1, CurrentPayment, TransferEffect
<1>3. frame'.fn = frame.fn /\ frame'.i = frame.i /\ frame'.totalPaid = frame.totalPaid
  BY IInvFacts, <1>1 DEF Frame
<1>4. SomePaid'
  BY <1>3, ClosingFacts DEF SomePaid, InExecutePayout
<1> QED  BY <1>1, <1>2, <1>4, NowIsKept, SameRequests DEF Moves, PoolMoves, ReturnMoves

\* The batch of a running payout.
LEMMA RunningBatch ==
  ASSUME IInv, Closing, InExecutePayout
  PROVE  /\ FrameBatch \in Seq(Payment) /\ Positive(FrameBatch)
         /\ frame.i \in Nat /\ frame.totalPaid \in Nat
<1>1. /\ frame.payoutId \in PayoutIds
      /\ storage.payoutRequests[frame.payoutId].exists
  BY IInvFacts DEF FrameOK
<1>2. FrameBatch \in Seq(Payment)
  BY <1>1, IInvFacts, RequestFields DEF FrameBatch
<1>3. Positive(FrameBatch)
  BY <1>1, ClosingFacts DEF Batched, FrameBatch
<1> QED  BY <1>2, <1>3, IInvFacts DEF Frame

LEMMA ReturnsMoves ==
  ASSUME IInv, Closing, TransferReturns
  PROVE  Moves
<1> DEFINE amount == FrameBatch[frame.i].amount
           sum == frame.totalPaid + amount
           j == frame.i + 1
<1>1. /\ InExecutePayout /\ frame.callee # NoOne /\ now' = now
      /\ frame' = [frame EXCEPT !.callee = NoOne, !.i = j, !.totalPaid = sum]
  BY DEF TransferReturns
<1>2. frame.i \in 1 .. Len(FrameBatch)
  BY <1>1, IInvFacts, RunningBatch DEF FrameOK
<1>3. FrameBatch[frame.i] \in Payment
  BY <1>1, <1>2, RunningBatch
<1>4. UNCHANGED <<storage.prizePools, storage.payoutRequests, storage.returned>>
  BY IInvFacts, <1>3, BooksUntouched DEF Books
<1>5. sum > 0
  <2>1. amount \in Nat /\ amount > 0 /\ frame.totalPaid \in Nat
    BY <1>1, <1>2, <1>3, RunningBatch DEF Positive, Payment
  <2> HIDE DEF amount
  <2> QED  BY <2>1
<1> HIDE DEF amount, sum, j
<1>6. frame'.totalPaid = sum
  BY IInvFacts, <1>1 DEF Frame
<1>7. SomePaid'
  BY <1>5, <1>6 DEF SomePaid
<1> QED  BY <1>1, <1>4, <1>7, NowIsKept, SameRequests DEF Moves, PoolMoves, ReturnMoves

\* A payout that finishes was from a pool with money left: it has paid something, and
\* the subtraction of what it paid is checked.
LEMMA FinishPayoutMoves ==
  ASSUME IInv, Closing, FinishPayout
  PROVE  Moves
<1> DEFINE q == frame.poolId
           old == storage.prizePools[q]
           n == old.remainingAmount - frame.totalPaid
           new == AfterPayout(old, n)
<1>1. /\ InExecutePayout /\ frame.i > Len(FrameBatch) /\ frame' = NoFrame /\ now' = now
      /\ frame.totalPaid <= old.remainingAmount
  BY DEF FinishPayout, NoUnderflow
<1>2. q \in PoolIds /\ old \in PrizePool /\ old.remainingAmount \in Nat
  BY IInvFacts, PoolFields DEF Frame
<1>3. frame.totalPaid > 0
  <2>1. Len(FrameBatch) \in Nat /\ Len(FrameBatch) # 0
    BY <1>1, RunningBatch DEF Positive
  <2>2. frame.i > 1
    BY <1>1, <2>1, RunningBatch
  <2> QED  BY <1>1, <2>2, ClosingFacts DEF SomePaid
<1>4. old.remainingAmount # 0
  <2> HIDE DEF old
  <2> QED  BY <1>1, <1>2, <1>3, RunningBatch
<1>5. ~Terminal(storage, q)
  BY <1>2, <1>4, ClosingFacts DEF Ended
<1>6. /\ n \in Nat
      /\ storage'.prizePools = [storage.prizePools EXCEPT ![q] = new]
      /\ UNCHANGED <<storage.payoutRequests, storage.returned>>
  <2>1. storage \in Storage /\ frame \in Frame
    BY IInvFacts
  <2> QED  BY <2>1, FinishEffect
<1>7. old.exists
  BY IInvFacts, <1>1, <1>2 DEF FrameOK, Shape
<1>8. old.status \notin {"Completed", "Cancelled"}
  BY <1>5 DEF Terminal
<1>9. new \in PrizePool /\ new.remainingAmount = n /\ new.exists
  <2> HIDE DEF n, old
  <2> QED  BY <1>2, <1>6, <1>7, PayPool
<1>10. new.status \in {"Completed", "Cancelled"} => n = 0
  <2> HIDE DEF n, old
  <2> QED  BY <1>2, <1>8 DEF AfterPayout, PrizePool
<1> HIDE DEF new, n
<1>11. \A p \in PoolIds : PoolMoves(p)
  BY <1>2, <1>5, <1>6, <1>9, <1>10, OnePool
<1>12. SomePaid'
  BY <1>1 DEF SomePaid, InExecutePayout, NoFrame
<1> QED  BY <1>1, <1>6, <1>11, <1>12, NowIsKept, SameRequests DEF Moves, ReturnMoves

\* A pool is returned to its host because the waiting time is over, or because all
\* that was deposited is still there.
LEMMA ReturnToHostMoves ==
  ASSUME IInv, Closing, NEW sender \in Accounts, NEW q \in PoolIds,
         ExecuteEmergencyWithdraw(sender, q) \/ RefundPool(sender, q)
  PROVE  Moves
<1> DEFINE old == storage.prizePools[q]
           new == Emptied(old)
<1>1. Idle /\ committed = storage
  BY IInvFacts DEF ExecuteEmergencyWithdraw, RefundPool, nonReentrant, FrameOK
<1>2. PICK fn \in {"executeEmergencyWithdraw", "refundPool"} : ReturnToHost(fn, q)
  BY DEF ExecuteEmergencyWithdraw, RefundPool
<1>3. /\ frame' = [NoFrame EXCEPT !.fn = fn, !.poolId = q, !.callee = old.host]
      /\ UNCHANGED <<committed, now>>
  BY <1>2 DEF ReturnToHost
<1>4. /\ storage'.prizePools = [storage.prizePools EXCEPT ![q] = new]
      /\ storage'.returned = [storage.returned EXCEPT ![q] = @ + old.remainingAmount]
      /\ UNCHANGED storage.payoutRequests
  <2>1. storage \in Storage
    BY IInvFacts
  <2> QED  BY <1>2, <2>1, ReturnEffect
<1>5. old \in PrizePool /\ new \in PrizePool /\ new.exists = old.exists /\ new.remainingAmount = 0
  BY IInvFacts, EmptyPool
<1>6. \/ old.emergencyWithdrawable /\ now >= old.emergencyWithdrawTime /\ old.remainingAmount > 0
      \/ old.exists /\ old.status = "Active" /\ old.remainingAmount = old.totalAmount
  BY DEF ExecuteEmergencyWithdraw, RefundPool, IsUntouched
<1>7. old.exists
  <2>1. old.remainingAmount > 0 => old.exists
    BY <1>5, IInvFacts DEF Shape
  <2> QED  BY <1>6, <2>1
<1>8. ~Terminal(storage, q)
  <2>1. old.remainingAmount > 0 => old.remainingAmount # 0
    BY <1>5, PoolFields
  <2>2. Terminal(storage, q) => old.remainingAmount = 0
    BY ClosingFacts DEF Ended
  <2> QED  BY <1>6, <2>1, <2>2 DEF Terminal
<1>9. Announced(q)
  <2>1. CASE old.emergencyWithdrawable /\ now >= old.emergencyWithdrawTime
    BY <1>1, <2>1 DEF Announced
  <2>2. CASE old.status = "Active" /\ old.remainingAmount = old.totalAmount
    <3> DEFINE total == old.totalAmount
               remaining == old.remainingAmount
               paid == storage.paid[q]
               returned == storage.returned[q]
    <3>1. total = remaining + paid + returned
      BY <1>1 DEF IInv, PoolLedger, LedgerOf
    <3>2. total \in Nat /\ remaining \in Nat /\ paid \in Nat /\ returned \in Nat
      BY LedgerTerms
    <3>3. remaining = total
      BY <2>2
    <3> HIDE DEF total, remaining, paid, returned
    <3>4. paid = 0
      BY <3>1, <3>2, <3>3
    <3> QED  BY <1>1, <2>2, <3>4 DEF Announced, paid
  <2> QED  BY <1>6, <2>1, <2>2
<1>10. \A p \in PoolIds : PoolMoves(p)
  <2> HIDE DEF new
  <2> QED  BY <1>4, <1>5, <1>7, <1>8, OnePool
<1>11. \A p \in PoolIds : ReturnMoves(p)
  <2> SUFFICES ASSUME NEW p \in PoolIds PROVE ReturnMoves(p)
    OBVIOUS
  <2>1. CASE p = q
    BY <1>1, <1>3, <1>8, <1>9, <2>1 DEF ReturnMoves
  <2>2. CASE p # q
    <3>1. storage'.returned[p] = storage.returned[p]
      BY <1>4, <2>2, IInvFacts
    <3> QED  BY <3>1 DEF ReturnMoves
  <2> QED  BY <2>1, <2>2
<1>12. SomePaid'
  <2>1. frame'.fn = fn
    BY <1>3 DEF NoFrame
  <2> QED  BY <2>1 DEF SomePaid, InExecutePayout
<1> QED  BY <1>3, <1>4, <1>10, <1>11, <1>12, NowIsKept, SameRequests DEF Moves

LEMMA FinishReturnMoves ==
  ASSUME IInv, FinishReturnToHost
  PROVE  Moves
<1>1. frame' = NoFrame /\ UNCHANGED <<storage, now>>
  BY DEF FinishReturnToHost
<1>2. SomePaid'
  BY <1>1 DEF SomePaid, InExecutePayout, NoFrame
<1> QED  BY <1>1, <1>2, NowIsKept DEF Moves, PoolMoves, ReturnMoves, RequestMoves

\* The notice and the lock leave an ended pool alone: it has nothing left and is not
\* Active.
LEMMA MarkMoves ==
  ASSUME IInv, Closing, NEW sender \in Accounts, NEW q \in PoolIds,
         InitiateEmergencyWithdraw(sender, q) \/ LockPool(sender, q)
  PROVE  Moves
<1> DEFINE old == storage.prizePools[q]
           at == now + EMERGENCY_TIMELOCK
           initiated == [old EXCEPT !.emergencyWithdrawable = TRUE, !.emergencyWithdrawTime = at]
           locked == [old EXCEPT !.status = "Locked"]
<1>1. at \in Nat /\ old \in PrizePool
  BY IInvFacts
<1>2. /\ initiated \in PrizePool /\ initiated.status = old.status
      /\ locked \in PrizePool /\ locked.status = "Locked"
  <2> HIDE DEF at, old
  <2>1. initiated \in PrizePool /\ locked \in PrizePool
    BY <1>1, PoolUpdates DEF PoolStatus
  <2>2. initiated.status = old.status /\ locked.status = "Locked"
    BY <1>1 DEF PrizePool
  <2> QED  BY <2>1, <2>2
<1>3. ~Terminal(storage, q)
  <2>1. CASE InitiateEmergencyWithdraw(sender, q)
    <3>1. old.remainingAmount # 0
      BY <1>1, <2>1, PoolFields DEF InitiateEmergencyWithdraw
    <3> QED  BY <3>1, ClosingFacts DEF Ended
  <2>2. CASE LockPool(sender, q)
    BY <2>2 DEF LockPool, Terminal
  <2> QED  BY <2>1, <2>2
<1>4. /\ InOneStep
      /\ \/ storage' = [storage EXCEPT !.prizePools[q] = initiated]
         \/ storage' = [storage EXCEPT !.prizePools[q] = locked]
  BY DEF InitiateEmergencyWithdraw, LockPool
<1>5. old.status \notin {"Completed", "Cancelled"}
  BY <1>3 DEF Terminal
<1> HIDE DEF initiated, locked
<1>6. PICK new \in PrizePool : /\ new.status \notin {"Completed", "Cancelled"}
                               /\ storage' = [storage EXCEPT !.prizePools[q] = new]
  BY <1>2, <1>4, <1>5
<1>7. /\ storage'.prizePools = [storage.prizePools EXCEPT ![q] = new]
      /\ UNCHANGED <<storage.payoutRequests, storage.returned>>
  BY <1>6, IInvFacts DEF Storage
<1>8. \A p \in PoolIds : PoolMoves(p)
  BY <1>3, <1>6, <1>7, OnePool
<1> QED  BY <1>4, <1>7, <1>8, SameFrame, SameRequests DEF Moves, ReturnMoves

LEMMA StepMoves ==
  ASSUME IInv, Closing, [Next]_vars
  PROVE  Moves \/ Revert
<1>1. CASE Funding
  <2>1. ASSUME NEW sender \in Accounts, NEW v \in StrayAmounts, Receive(sender, v)
        PROVE  Moves
    BY <2>1, OtherMoves DEF Receive
  <2> QED  BY <1>1, <2>1, CreateMoves, FundMoves DEF Funding
<1>2. CASE Requests
  BY <1>2, RequestPayoutMoves, DecisionMoves DEF Requests
<1>3. CASE Progress
  BY <1>3, TransferMoves, ReturnsMoves, FinishPayoutMoves, FinishReturnMoves DEF Progress
<1>4. CASE Withdrawals
  BY <1>4, ReturnToHostMoves, MarkMoves DEF Withdrawals
<1>5. CASE Administration
  <2>1. ASSUME NEW sender \in Accounts, NEW paused \in BOOLEAN, SetPaused(sender, paused)
        PROVE  Moves
    BY <2>1, OtherMoves DEF SetPaused
  <2>2. ASSUME NEW sender \in Accounts, NEW change \in RoleChanges,
               GrantRole(sender, change[1], change[2]) \/ RevokeRole(sender, change[1], change[2])
        PROVE  Moves
    <3>1. InOneStep
      BY <2>2 DEF GrantRole, RevokeRole
    <3> QED  BY <2>2, <3>1, OtherMoves
  <2> QED  BY <1>5, <2>1, <2>2, MarkMoves DEF Administration
<1>6. CASE Tick
  <2>1. now' >= now /\ UNCHANGED <<storage, frame>>
    BY <1>6, IInvFacts DEF Tick
  <2> QED  BY <2>1, StillMoves
<1>7. CASE UNCHANGED vars
  BY <1>7, IInvFacts, StillMoves DEF vars
<1> QED  BY <1>1, <1>2, <1>3, <1>4, <1>5, <1>6, <1>7 DEF Next

LEMMA StepCommits ==
  ASSUME IInv, [Next]_vars
  PROVE  Commits
<1>1. CASE UNCHANGED vars
  BY <1>1 DEF vars, Commits
<1> QED  BY <1>1, StepIsGood

LEMMA InitCloses == Init => Closing
<1> SUFFICES ASSUME Init PROVE Closing
  OBVIOUS
<1>1. /\ committed = storage /\ frame = NoFrame
      /\ storage.prizePools = [p \in PoolIds |-> ZeroPool]
      /\ storage.payoutRequests = [r \in PayoutIds |-> ZeroRequest]
  BY DEF Init
<1>2. Ended(storage) /\ Batched(storage)
  BY <1>1 DEF Ended, Batched, Terminal, ZeroPool, ZeroRequest
<1> QED  BY <1>1, <1>2 DEF Closing, SomePaid, InExecutePayout, NoFrame, EndedStays,
                           ReturnsAnnounced

-----------------------------------------------------------------------------
(* The theorems.                                                             *)

LEMMA ClosingInvariance == Spec => [](IInv /\ Closing)
<1>1. Init => IInv /\ Closing
  BY InitIInv, InitCloses
<1>2. IInv /\ Closing /\ [Next]_vars => (IInv /\ Closing)'
  BY NextIInv, StepMoves, StepCommits, MovesClose, RevertCloses
<1> QED  BY <1>1, <1>2, PTL DEF Spec

\* A pool that is Completed or Cancelled has nothing left, whatever requests were
\* pending when it ended and whatever the recipients of ETH do when called.
THEOREM EndedPoolsEmpty == Spec => []TerminalPoolsEmpty
<1>1. Closing => TerminalPoolsEmpty
  BY DEF Closing, Ended, TerminalPoolsEmpty
<1> QED  BY <1>1, ClosingInvariance, PTL

LEMMA SameRest ==
  ASSUME NEW m \in Nat, NEW n \in Nat, NEW x \in Nat, NEW y \in Nat, m + x + n = m + y + n
  PROVE  x = y
OBVIOUS

\* No transaction changes a pool that has ended or pays from it.  What is paid follows
\* from the ledger, of which every other term stays.
THEOREM EndedPoolsStay == Spec => TerminalPoolsFrozen
<1>1. ASSUME IInv, IInv', Closing, [Next]_vars, NEW p \in PoolIds, Terminal(committed, p)
      PROVE  /\ committed'.prizePools[p] = committed.prizePools[p]
             /\ committed'.paid[p] = committed.paid[p]
  <2>1. CASE committed' = committed
    BY <2>1
  <2>2. CASE committed' = storage' /\ committed' # committed
    <3>1. Moves
      BY <1>1, <2>2, StepMoves DEF Revert
    <3>2. /\ storage.prizePools[p] = committed.prizePools[p]
          /\ storage.returned[p] = committed.returned[p]
      BY <1>1, ClosingFacts DEF EndedStays
    <3>3. Terminal(storage, p)
      BY <1>1, <3>2 DEF Terminal
    <3>4. /\ committed'.prizePools[p] = committed.prizePools[p]
          /\ committed'.returned[p] = committed.returned[p]
      BY <2>2, <3>1, <3>2, <3>3 DEF Moves, PoolMoves, ReturnMoves
    <3>5. committed.prizePools[p].remainingAmount + committed'.paid[p] + committed.returned[p] =
            committed.prizePools[p].remainingAmount + committed.paid[p] + committed.returned[p]
      BY <1>1, <3>4 DEF IInv, PoolLedger, LedgerOf
    <3>6. /\ committed.prizePools[p].remainingAmount \in Nat /\ committed.returned[p] \in Nat
          /\ committed.paid[p] \in Nat /\ committed'.paid[p] \in Nat
      <4>1. committed \in Storage /\ committed' \in Storage
        BY <1>1 DEF IInv, TypeOK
      <4> QED  BY <4>1, StorageFields, PoolFields
    <3>7. committed'.paid[p] = committed.paid[p]
      BY <3>5, <3>6, SameRest
    <3> QED  BY <3>4, <3>7
  <2> QED  BY <1>1, <2>1, <2>2, StepCommits DEF Commits
<1>2. (IInv /\ Closing) /\ (IInv /\ Closing)' /\ [Next]_vars =>
        [\A p \in PoolIds : Terminal(committed, p) =>
            /\ committed'.prizePools[p] = committed.prizePools[p]
            /\ committed'.paid[p] = committed.paid[p]]_vars
  BY <1>1
<1> QED  BY <1>2, ClosingInvariance, PTL DEF Spec, TerminalPoolsFrozen

\* What goes back to the host of a pool that is locked or has paid somebody was
\* announced as the emergency withdrawal, and the waiting time is over.
THEOREM NoticeGiven == Spec => NoticeBeforeReturn
<1>1. ASSUME IInv, Closing, [Next]_vars, NEW p \in PoolIds,
             committed'.returned[p] > committed.returned[p],
             committed.prizePools[p].status = "Locked" \/ committed.paid[p] > 0
      PROVE  /\ committed.prizePools[p].emergencyWithdrawable
             /\ now >= committed.prizePools[p].emergencyWithdrawTime
  <2>1. committed.returned[p] \in Nat /\ committed.paid[p] \in Nat
    BY <1>1, IInvFacts, StorageFields
  <2>2. committed'.returned[p] # committed.returned[p]
    <3>1. ASSUME committed'.returned[p] = committed.returned[p] PROVE FALSE
      BY <1>1, <2>1, <3>1
    <3> QED  BY <3>1
  <2>3. committed' = storage' /\ Moves
    BY <1>1, <2>2, StepMoves, StepCommits DEF Commits, Revert
  <2>4. storage.returned[p] # committed.returned[p]
    BY <2>2, <2>3 DEF Moves, ReturnMoves
  <2>5. Announced(p)
    BY <1>1, <2>4, ClosingFacts DEF ReturnsAnnounced
  <2> QED  BY <1>1, <2>1, <2>5 DEF Announced
<1>2. (IInv /\ Closing) /\ [Next]_vars =>
        [\A p \in PoolIds :
            /\ committed'.returned[p] > committed.returned[p]
            /\ committed.prizePools[p].status = "Locked" \/ committed.paid[p] > 0
            => /\ committed.prizePools[p].emergencyWithdrawable
               /\ now >= committed.prizePools[p].emergencyWithdrawTime]_vars
  BY <1>1
<1> QED  BY <1>2, ClosingInvariance, PTL DEF Spec, NoticeBeforeReturn

-----------------------------------------------------------------------------
(* Sums.  SumFunctionOnSet is a fold, chosen among the functions that        *)
(* satisfy its equation.  To show that there is one, and one only, each      *)
(* number is counted in coins: the sum is the number of coins.               *)

\* A set of natural numbers has a least element.
LEMMA LeastNatural ==
  ASSUME NEW T, T \subseteq Nat, T # {}
  PROVE  \E n \in T : \A m \in T : n <= m
<1>1. IsWellFoundedOn({ss \in Nat \X Nat : ss[1] < ss[2]}, Nat)
  BY NatLessThanWellFounded DEF OpToRel
<1>2. PICK R : R = {ss \in Nat \X Nat : ss[1] < ss[2]}
  OBVIOUS
<1>3. \E n \in T : \A m \in T : ~ (<<m, n>> \in R)
  BY <1>1, <1>2, WFMin
<1>4. \A m, n \in Nat : m < n => <<m, n>> \in R
  <2> SUFFICES ASSUME NEW m \in Nat, NEW n \in Nat, m < n PROVE <<m, n>> \in R
    OBVIOUS
  <2>1. <<m, n>> \in Nat \X Nat /\ <<m, n>>[1] = m /\ <<m, n>>[2] = n
    OBVIOUS
  <2> QED  BY <1>2, <2>1
<1>5. \A m, n \in Nat : m < n \/ n <= m
  OBVIOUS
<1> QED  BY <1>3, <1>4, <1>5

\* g satisfies the equation by which the fold is defined.
Summing(f, S, g) ==
    g = [s \in SUBSET S |->
            IF s = {} THEN 0 ELSE f[CHOOSE x \in s : TRUE] + g[s \ {CHOOSE x \in s : TRUE}]]

LEMMA SumUnfolds ==
  ASSUME NEW f, NEW S, \E g : Summing(f, S, g)
  PROVE  \E g : Summing(f, S, g) /\ SumFunctionOnSet(f, S) = g[S]
<1> DEFINE iter == CHOOSE g : g = [s \in SUBSET S |->
            IF s = {} THEN 0 ELSE f[CHOOSE x \in s : TRUE] + g[s \ {CHOOSE x \in s : TRUE}]]
<1>1. SumFunctionOnSet(f, S) = iter[S]
  BY DEF SumFunctionOnSet, FoldFunctionOnSet, MapThenFoldSet
<1>2. Summing(f, S, iter)
  BY DEF Summing
<1> QED BY <1>1, <1>2

Pile(f, x) == {x} \X (1 .. f[x])
Coins(f, S) == UNION {Pile(f, x) : x \in S}

LEMMA PileSize ==
  ASSUME NEW f, NEW x, f[x] \in Nat
  PROVE  IsFiniteSet(Pile(f, x)) /\ Cardinality(Pile(f, x)) = f[x]
<1>1. IsFiniteSet({x}) /\ Cardinality({x}) = 1
  BY FS_Singleton
<1>2. IsFiniteSet(1 .. f[x]) /\ Cardinality(1 .. f[x]) = f[x]
  BY FirstNumbers
<1>3. PICK A, B : A = {x} /\ B = 1 .. f[x]
  OBVIOUS
<1>4. IsFiniteSet(A \X B) /\ Cardinality(A \X B) = Cardinality(A) * Cardinality(B)
  BY <1>1, <1>2, <1>3, FS_Product
<1>5. Cardinality(A \X B) = f[x]
  BY <1>1, <1>2, <1>3, <1>4
<1>6. Pile(f, x) = A \X B
  BY <1>3 DEF Pile
<1> QED  BY <1>4, <1>5, <1>6

LEMMA CoinsFinite ==
  ASSUME NEW f, NEW S, IsFiniteSet(S), \A x \in S : f[x] \in Nat
  PROVE  IsFiniteSet(Coins(f, S)) /\ Cardinality(Coins(f, S)) \in Nat
<1> DEFINE piles == {Pile(f, x) : x \in S}
           pile == [x \in S |-> Pile(f, x)]
<1>1. pile \in Surjection(S, piles)
  BY DEF Surjection
<1>2. IsFiniteSet(piles)
  <2> HIDE DEF pile, piles
  <2> QED  BY <1>1, FS_Surjection
<1>3. \A P \in piles : IsFiniteSet(P)
  BY PileSize
<1>4. IsFiniteSet(UNION piles)
  <2> HIDE DEF piles
  <2> QED  BY <1>2, <1>3, FS_UNION
<1> QED  BY <1>4, FS_CardinalityType DEF Coins

LEMMA CoinsAdd ==
  ASSUME NEW f, NEW S, IsFiniteSet(S), \A y \in S : f[y] \in Nat, NEW x, x \notin S, f[x] \in Nat
  PROVE  Cardinality(Coins(f, S \cup {x})) = f[x] + Cardinality(Coins(f, S))
<1>1. Coins(f, S \cup {x}) = Coins(f, S) \cup Pile(f, x)
  BY DEF Coins
<1>2. Coins(f, S) \cap Pile(f, x) = {}
  <2> SUFFICES ASSUME NEW c \in Coins(f, S), c \in Pile(f, x) PROVE FALSE
    OBVIOUS
  <2>1. PICK y \in S : c \in Pile(f, y)
    BY DEF Coins
  <2> QED  BY <2>1 DEF Pile
<1>3. /\ IsFiniteSet(Coins(f, S)) /\ IsFiniteSet(Pile(f, x))
      /\ Cardinality(Pile(f, x)) = f[x] /\ Cardinality(Coins(f, S)) \in Nat
  BY CoinsFinite, PileSize
<1>4. Cardinality(Coins(f, S) \cup Pile(f, x))
         = Cardinality(Coins(f, S)) + Cardinality(Pile(f, x)) - Cardinality({})
  <2>1. Cardinality(Coins(f, S) \cup Pile(f, x)) = Cardinality(Coins(f, S))
           + Cardinality(Pile(f, x)) - Cardinality(Coins(f, S) \cap Pile(f, x))
    BY <1>3, FS_Union
  <2> QED  BY <1>2, <2>1
<1>5. Cardinality({}) = 0
  BY FS_EmptySet
<1> DEFINE a == Cardinality(Coins(f, S))
           b == Cardinality(Pile(f, x))
           c == Cardinality(Coins(f, S) \cup Pile(f, x))
<1>6. c = a + b - 0 /\ a \in Nat /\ b = f[x]
  BY <1>3, <1>4, <1>5
<1>7. c = f[x] + a
  <2> HIDE DEF a, b, c
  <2> QED  BY <1>6
<1> QED  BY <1>1, <1>7

\* The count of coins is a function as the fold asks for ...
LEMMA CountSums ==
  ASSUME NEW f, NEW S, IsFiniteSet(S), \A x \in S : f[x] \in Nat
  PROVE  Summing(f, S, [s \in SUBSET S |-> Cardinality(Coins(f, s))])
<1> DEFINE count == [s \in SUBSET S |-> Cardinality(Coins(f, s))]
<1>1. ASSUME NEW s \in SUBSET S, s # {}, NEW x \in s
      PROVE  count[s] = f[x] + count[s \ {x}]
  <2>1. IsFiniteSet(s \ {x}) /\ s \ {x} \in SUBSET S
    BY FS_Subset
  <2>2. (s \ {x}) \cup {x} = s
    OBVIOUS
  <2>3. Cardinality(Coins(f, (s \ {x}) \cup {x})) = f[x] + Cardinality(Coins(f, s \ {x}))
    BY <2>1, CoinsAdd
  <2> QED  BY <2>1, <2>2, <2>3
<1>2. count[{}] = 0
  BY FS_EmptySet DEF Coins
<1> HIDE DEF count
<1>3. \A s \in SUBSET S : count[s] =
        IF s = {} THEN 0 ELSE f[CHOOSE x \in s : TRUE] + count[s \ {CHOOSE x \in s : TRUE}]
  <2> SUFFICES ASSUME NEW s \in SUBSET S, s # {}
               PROVE  count[s] = f[CHOOSE x \in s : TRUE] + count[s \ {CHOOSE x \in s : TRUE}]
    BY <1>2
  <2>1. (CHOOSE x \in s : TRUE) \in s
    OBVIOUS
  <2> QED  BY <1>1, <2>1
<1>4. count = [s \in SUBSET S |-> count[s]]
  BY DEF count
<1> QED  BY <1>3, <1>4 DEF Summing, count

\* ... and the only one.
LEMMA SumIsCount ==
  ASSUME NEW f, NEW S, IsFiniteSet(S), \A x \in S : f[x] \in Nat
  PROVE  SumFunctionOnSet(f, S) = Cardinality(Coins(f, S))
<1> DEFINE count == [s \in SUBSET S |-> Cardinality(Coins(f, s))]
<1>1. PICK g : Summing(f, S, g) /\ SumFunctionOnSet(f, S) = g[S]
  BY CountSums, SumUnfolds
<1>2. Summing(f, S, count)
  BY CountSums
<1> HIDE DEF count
<1> DEFINE wrong == {Cardinality(s) : s \in {t \in SUBSET S : g[t] # count[t]}}
<1>3. wrong = {}
  <2> SUFFICES ASSUME wrong # {} PROVE FALSE
    OBVIOUS
  <2>1. \A s \in SUBSET S : IsFiniteSet(s) /\ Cardinality(s) \in Nat
    BY FS_Subset, FS_CardinalityType
  <2>2. wrong \subseteq Nat
    BY <2>1
  <2> HIDE DEF wrong
  <2>3. PICK n \in wrong : \A m \in wrong : n <= m
    BY <2>2, LeastNatural
  <2>4. PICK s \in SUBSET S : Cardinality(s) = n /\ g[s] # count[s]
    BY <2>3 DEF wrong
  <2>5. s # {}
    BY <1>1, <1>2, <2>4 DEF Summing
  <2> DEFINE x == CHOOSE y \in s : TRUE
  <2>6. x \in s
    BY <2>5
  <2>7. g[s] = f[x] + g[s \ {x}] /\ count[s] = f[x] + count[s \ {x}]
    BY <1>1, <1>2, <2>5 DEF Summing
  <2> HIDE DEF x
  <2>8. /\ s \ {x} \in SUBSET S /\ Cardinality(s \ {x}) = Cardinality(s) - 1
        /\ Cardinality(s) \in Nat
    BY <2>1, <2>6, FS_RemoveElement
  <2>9. g[s \ {x}] # count[s \ {x}]
    BY <2>4, <2>7
  <2>10. Cardinality(s \ {x}) \in wrong
    BY <2>8, <2>9 DEF wrong
  <2> QED  BY <2>3, <2>4, <2>8, <2>10
<1>4. g[S] = count[S]
  BY <1>3
<1> QED  BY <1>1, <1>4 DEF count

LEMMA SumType ==
  ASSUME NEW f, NEW S, IsFiniteSet(S), \A x \in S : f[x] \in Nat
  PROVE  SumFunctionOnSet(f, S) \in Nat
BY SumIsCount, CoinsFinite

LEMMA SumEmpty ==
  ASSUME NEW f
  PROVE  SumFunctionOnSet(f, {}) = 0
<1>1. Coins(f, {}) = {}
  BY DEF Coins
<1> QED  BY <1>1, SumIsCount, FS_EmptySet

LEMMA SumAdd ==
  ASSUME NEW f, NEW S, IsFiniteSet(S), \A y \in S : f[y] \in Nat, NEW x, x \notin S, f[x] \in Nat
  PROVE  SumFunctionOnSet(f, S \cup {x}) = f[x] + SumFunctionOnSet(f, S)
<1>1. IsFiniteSet(S \cup {x})
  BY FS_AddElement
<1>2. SumFunctionOnSet(f, S \cup {x}) = Cardinality(Coins(f, S \cup {x}))
  BY <1>1, SumIsCount
<1> QED  BY <1>2, SumIsCount, CoinsAdd

LEMMA SumSame ==
  ASSUME NEW f, NEW g, NEW S, IsFiniteSet(S), \A x \in S : f[x] \in Nat /\ g[x] = f[x]
  PROVE  SumFunctionOnSet(g, S) = SumFunctionOnSet(f, S)
<1>1. Coins(f, S) = Coins(g, S)
  BY DEF Coins, Pile
<1> QED  BY <1>1, SumIsCount

\* One summand changes.
LEMMA SumChange ==
  ASSUME NEW f, NEW g, NEW S, IsFiniteSet(S), \A y \in S : f[y] \in Nat /\ g[y] \in Nat,
         NEW x \in S, \A y \in S \ {x} : g[y] = f[y]
  PROVE  SumFunctionOnSet(g, S) + f[x] = SumFunctionOnSet(f, S) + g[x]
<1> DEFINE R == S \ {x}
<1>1. IsFiniteSet(R) /\ x \notin R /\ R \cup {x} = S
  BY FS_Subset
<1>2. SumFunctionOnSet(f, R \cup {x}) = f[x] + SumFunctionOnSet(f, R)
  BY <1>1, SumAdd
<1>3. SumFunctionOnSet(g, R \cup {x}) = g[x] + SumFunctionOnSet(g, R)
  BY <1>1, SumAdd
<1>4. SumFunctionOnSet(g, R) = SumFunctionOnSet(f, R) /\ SumFunctionOnSet(f, R) \in Nat
  BY <1>1, SumSame, SumType
<1> DEFINE a == SumFunctionOnSet(f, S)
           b == SumFunctionOnSet(g, S)
           c == SumFunctionOnSet(f, R)
           m == f[x]
           n == g[x]
<1>5. a = m + c /\ b = n + c /\ c \in Nat /\ m \in Nat /\ n \in Nat
  BY <1>1, <1>2, <1>3, <1>4
<1> HIDE DEF a, b, c, m, n
<1>6. b + m = a + n
  BY <1>5
<1> QED  BY <1>6 DEF a, b, m, n

-----------------------------------------------------------------------------
(* Totals of batches and of lists of winners.                                *)

AmountsOf(batch) == [k \in DOMAIN batch |-> batch[k].amount]
PaidBefore(batch, i) == SumFunctionOnSet(AmountsOf(batch), 1 .. i - 1)

LEMMA TotalIsSum ==
  ASSUME NEW S, \A w \in S : w.amount \in Nat, NEW batch \in Seq(S)
  PROVE  /\ Total(batch) = SumFunctionOnSet(AmountsOf(batch), 1 .. Len(batch))
         /\ IsFiniteSet(1 .. Len(batch)) /\ Len(batch) \in Nat
         /\ \A k \in 1 .. Len(batch) : AmountsOf(batch)[k] \in Nat
                                         /\ AmountsOf(batch)[k] = batch[k].amount
<1>1. DOMAIN batch = 1 .. Len(batch) /\ Len(batch) \in Nat
  OBVIOUS
<1>2. IsFiniteSet(1 .. Len(batch))
  BY <1>1, FS_Interval
<1>3. \A k \in 1 .. Len(batch) : batch[k] \in S
  OBVIOUS
<1>4. Total(batch) = SumFunctionOnSet(AmountsOf(batch), 1 .. Len(batch))
  BY <1>1 DEF Total, SumFunction, AmountsOf
<1> QED  BY <1>1, <1>2, <1>3, <1>4 DEF AmountsOf

LEMMA TotalType ==
  ASSUME NEW S, \A w \in S : w.amount \in Nat, NEW batch \in Seq(S)
  PROVE  Total(batch) \in Nat
BY TotalIsSum, SumType

LEMMA TotalEmpty == Total(<<>>) = 0
<1>1. DOMAIN AmountsOf(<<>>) = {}
  BY DEF AmountsOf
<1> QED  BY <1>1, SumEmpty DEF Total, SumFunction, AmountsOf

LEMMA PaidBeforeFirst ==
  ASSUME NEW batch
  PROVE  PaidBefore(batch, 1) = 0
<1>1. 1 .. 1 - 1 = {}
  OBVIOUS
<1> QED  BY <1>1, SumEmpty DEF PaidBefore

LEMMA PaidBeforeNext ==
  ASSUME NEW S, \A w \in S : w.amount \in Nat, NEW batch \in Seq(S), NEW i \in 1 .. Len(batch)
  PROVE  PaidBefore(batch, i + 1) = PaidBefore(batch, i) + batch[i].amount
<1>1. /\ 1 .. (i + 1) - 1 = (1 .. i - 1) \cup {i} /\ i \notin 1 .. i - 1
      /\ 1 .. i - 1 \subseteq 1 .. Len(batch)
  OBVIOUS
<1>2. IsFiniteSet(1 .. i - 1)
  BY <1>1, TotalIsSum, FS_Subset
<1> DEFINE f == AmountsOf(batch)
<1>3. f[i] = batch[i].amount /\ f[i] \in Nat /\ \A k \in 1 .. i - 1 : f[k] \in Nat
  BY <1>1, TotalIsSum
<1> HIDE DEF f
<1>4. SumFunctionOnSet(f, (1 .. i - 1) \cup {i}) = f[i] + SumFunctionOnSet(f, 1 .. i - 1)
  BY <1>1, <1>2, <1>3, SumAdd
<1>5. SumFunctionOnSet(f, 1 .. i - 1) \in Nat
  BY <1>2, <1>3, SumType
<1>6. SumFunctionOnSet(f, (1 .. i - 1) \cup {i}) = SumFunctionOnSet(f, 1 .. i - 1) + f[i]
  BY <1>3, <1>4, <1>5
<1> QED  BY <1>1, <1>3, <1>6 DEF PaidBefore, f

LEMMA PaidBeforeEnd ==
  ASSUME NEW S, \A w \in S : w.amount \in Nat, NEW batch \in Seq(S)
  PROVE  PaidBefore(batch, Len(batch) + 1) = Total(batch)
<1>1. 1 .. (Len(batch) + 1) - 1 = 1 .. Len(batch)
  BY TotalIsSum
<1> QED  BY <1>1, TotalIsSum DEF PaidBefore

LEMMA TotalAppend ==
  ASSUME NEW S, \A w \in S : w.amount \in Nat, NEW batch \in Seq(S), NEW w \in S
  PROVE  Total(Append(batch, w)) = Total(batch) + w.amount
<1> DEFINE more == Append(batch, w)
           n == Len(batch) + 1
<1>1. /\ more \in Seq(S) /\ Len(more) = n /\ n \in 1 .. Len(more) /\ more[n] = w
      /\ \A k \in 1 .. Len(batch) : more[k] = batch[k]
  OBVIOUS
<1>2. Total(more) = PaidBefore(more, n + 1)
  BY <1>1, PaidBeforeEnd
<1>3. PaidBefore(more, n + 1) = PaidBefore(more, n) + more[n].amount
  <2> HIDE DEF n, more
  <2> QED  BY <1>1, PaidBeforeNext
<1>4. PaidBefore(more, n) = Total(batch)
  <2>1. 1 .. n - 1 = 1 .. Len(batch)
    BY TotalIsSum
  <2>2. \A k \in 1 .. Len(batch) : AmountsOf(batch)[k] \in Nat
                                     /\ AmountsOf(more)[k] = AmountsOf(batch)[k]
    <3> SUFFICES ASSUME NEW k \in 1 .. Len(batch)
                 PROVE  AmountsOf(batch)[k] \in Nat /\ AmountsOf(more)[k] = AmountsOf(batch)[k]
      OBVIOUS
    <3> HIDE DEF more, n
    <3>1. k \in 1 .. Len(more) /\ more[k] = batch[k]
      BY <1>1 DEF n
    <3>2. AmountsOf(more)[k] = more[k].amount
      BY <1>1, <3>1, TotalIsSum
    <3>3. AmountsOf(batch)[k] \in Nat /\ AmountsOf(batch)[k] = batch[k].amount
      BY TotalIsSum
    <3> QED  BY <3>1, <3>2, <3>3
  <2> HIDE DEF more, n
  <2>3. SumFunctionOnSet(AmountsOf(more), 1 .. Len(batch)) = Total(batch)
    BY <2>2, SumSame, TotalIsSum
  <2> QED  BY <2>1, <2>3 DEF PaidBefore
<1> QED  BY <1>1, <1>2, <1>3, <1>4

-----------------------------------------------------------------------------
(* The sums of the books.                                                    *)


LEMMA FiniteIds == IsFiniteSet(PoolIds) /\ IsFiniteSet(PayoutIds)
<1>1. 0 \in Int /\ MaxPools - 1 \in Int /\ MaxRequests - 1 \in Int
  OBVIOUS
<1>2. IsFiniteSet(0 .. MaxPools - 1) /\ IsFiniteSet(0 .. MaxRequests - 1)
  BY <1>1, FS_Interval
<1> QED  BY <1>2 DEF PoolIds, PayoutIds

LEMMA PaymentAmounts ==
    /\ \A w \in Payment : w.amount \in Nat
    /\ \A w \in Winner : w.amount \in Nat
BY DEF Payment, Winner

RemainingOf(s) == [p \in PoolIds |-> s.prizePools[p].remainingAmount]

LEMMA HeldType ==
  ASSUME NEW s \in Storage, NEW t
  PROVE  /\ HeldFor(s, t) = SumFunctionOnSet(RemainingOf(s), PoolsHolding(s, t))
         /\ HeldFor(s, t) \in Nat
         /\ IsFiniteSet(PoolsHolding(s, t)) /\ PoolsHolding(s, t) \subseteq PoolIds
         /\ \A p \in PoolIds : RemainingOf(s)[p] = s.prizePools[p].remainingAmount
                               /\ RemainingOf(s)[p] \in Nat
<1>1. PoolsHolding(s, t) \subseteq PoolIds
  BY DEF PoolsHolding
<1>2. IsFiniteSet(PoolsHolding(s, t))
  BY <1>1, FiniteIds, FS_Subset
<1>3. \A p \in PoolIds : RemainingOf(s)[p] = s.prizePools[p].remainingAmount
                        /\ RemainingOf(s)[p] \in Nat
  BY StorageFields, PoolFields DEF RemainingOf
<1>4. HeldFor(s, t) = SumFunctionOnSet(RemainingOf(s), PoolsHolding(s, t))
  BY DEF HeldFor, RemainingOf
<1> QED  BY <1>1, <1>2, <1>3, <1>4, SumType

LEMMA HeldSame ==
  ASSUME NEW s \in Storage, NEW n \in Storage, NEW t,
         \A p \in PoolIds :
            /\ n.prizePools[p].exists = s.prizePools[p].exists
            /\ n.prizePools[p].tokenAddress = s.prizePools[p].tokenAddress
            /\ n.prizePools[p].remainingAmount = s.prizePools[p].remainingAmount
  PROVE  HeldFor(n, t) = HeldFor(s, t)
<1>1. PoolsHolding(n, t) = PoolsHolding(s, t)
  BY DEF PoolsHolding
<1>2. \A p \in PoolsHolding(s, t) : RemainingOf(s)[p] \in Nat
                                   /\ RemainingOf(n)[p] = RemainingOf(s)[p]
  BY HeldType
<1> QED  BY <1>1, <1>2, HeldType, SumSame

\* What remains in one pool changes.
LEMMA HeldChange ==
  ASSUME NEW s \in Storage, NEW n \in Storage, NEW t, NEW q \in PoolIds,
         s.prizePools[q].exists,
         \A p \in PoolIds :
            /\ n.prizePools[p].exists = s.prizePools[p].exists
            /\ n.prizePools[p].tokenAddress = s.prizePools[p].tokenAddress
            /\ p # q => n.prizePools[p].remainingAmount = s.prizePools[p].remainingAmount
  PROVE  /\ t = s.prizePools[q].tokenAddress =>
              HeldFor(n, t) + s.prizePools[q].remainingAmount =
                HeldFor(s, t) + n.prizePools[q].remainingAmount
         /\ t # s.prizePools[q].tokenAddress => HeldFor(n, t) = HeldFor(s, t)
<1>1. PoolsHolding(n, t) = PoolsHolding(s, t)
  BY DEF PoolsHolding
<1>2. \A p \in PoolsHolding(s, t) :
         /\ RemainingOf(s)[p] \in Nat /\ RemainingOf(n)[p] \in Nat
         /\ p # q => RemainingOf(n)[p] = RemainingOf(s)[p]
  BY HeldType
<1>3. q \in PoolsHolding(s, t) <=> t = s.prizePools[q].tokenAddress
  BY DEF PoolsHolding
<1>4. ASSUME t = s.prizePools[q].tokenAddress
      PROVE  HeldFor(n, t) + s.prizePools[q].remainingAmount =
               HeldFor(s, t) + n.prizePools[q].remainingAmount
  <2>1. SumFunctionOnSet(RemainingOf(n), PoolsHolding(s, t)) + RemainingOf(s)[q] =
          SumFunctionOnSet(RemainingOf(s), PoolsHolding(s, t)) + RemainingOf(n)[q]
    BY <1>2, <1>3, <1>4, HeldType, SumChange
  <2> QED  BY <1>1, <2>1, HeldType
<1>5. ASSUME t # s.prizePools[q].tokenAddress
      PROVE  HeldFor(n, t) = HeldFor(s, t)
  <2>1. \A p \in PoolsHolding(s, t) : RemainingOf(s)[p] \in Nat
                                     /\ RemainingOf(n)[p] = RemainingOf(s)[p]
    BY <1>2, <1>3, <1>5
  <2> QED  BY <1>1, <2>1, HeldType, SumSame
<1> QED  BY <1>4, <1>5

\* A pool is created.
LEMMA HeldNew ==
  ASSUME NEW s \in Storage, NEW n \in Storage, NEW t, NEW q \in PoolIds,
         ~s.prizePools[q].exists, n.prizePools[q].exists,
         \A p \in PoolIds : p # q => n.prizePools[p] = s.prizePools[p]
  PROVE  /\ t = n.prizePools[q].tokenAddress =>
              HeldFor(n, t) = HeldFor(s, t) + n.prizePools[q].remainingAmount
         /\ t # n.prizePools[q].tokenAddress => HeldFor(n, t) = HeldFor(s, t)
<1>1. \A p \in PoolsHolding(s, t) : p # q /\ RemainingOf(s)[p] \in Nat
                                   /\ RemainingOf(n)[p] = RemainingOf(s)[p]
  <2>1. \A p \in PoolsHolding(s, t) : p \in PoolIds /\ p # q
    BY DEF PoolsHolding
  <2> QED  BY <2>1, HeldType
<1>2. SumFunctionOnSet(RemainingOf(n), PoolsHolding(s, t)) = HeldFor(s, t)
  BY <1>1, HeldType, SumSame
<1>3. ASSUME t = n.prizePools[q].tokenAddress
      PROVE  HeldFor(n, t) = HeldFor(s, t) + n.prizePools[q].remainingAmount
  <2>1. PoolsHolding(n, t) = PoolsHolding(s, t) \cup {q} /\ q \notin PoolsHolding(s, t)
    BY <1>3 DEF PoolsHolding
  <2>2. \A p \in PoolsHolding(s, t) : RemainingOf(n)[p] \in Nat
    BY <1>1
  <2>3. SumFunctionOnSet(RemainingOf(n), PoolsHolding(s, t) \cup {q}) =
          RemainingOf(n)[q] + SumFunctionOnSet(RemainingOf(n), PoolsHolding(s, t))
    BY <2>1, <2>2, HeldType, SumAdd
  <2>4. HeldFor(n, t) = n.prizePools[q].remainingAmount + HeldFor(s, t)
    BY <1>2, <2>1, <2>3, HeldType
  <2>5. n.prizePools[q].remainingAmount \in Nat /\ HeldFor(s, t) \in Nat
    BY HeldType
  <2> QED  BY <2>4, <2>5
<1>4. ASSUME t # n.prizePools[q].tokenAddress
      PROVE  HeldFor(n, t) = HeldFor(s, t)
  <2>1. PoolsHolding(n, t) = PoolsHolding(s, t)
    BY <1>4 DEF PoolsHolding
  <2> QED  BY <1>2, <2>1, HeldType
<1> QED  BY <1>3, <1>4

TotalsOf(s) == [r \in PayoutIds |-> Total(s.payoutRequests[r].batch)]
Executed(s, p) ==
    {r \in PoolPayoutRequests(s, p) : s.payoutRequests[r].status = "Executed"}

LEMMA ExecutedType ==
  ASSUME NEW s \in Storage, NEW p
  PROVE  /\ ExecutedFrom(s, p) = SumFunctionOnSet(TotalsOf(s), Executed(s, p))
         /\ ExecutedFrom(s, p) \in Nat
         /\ IsFiniteSet(Executed(s, p)) /\ Executed(s, p) \subseteq PayoutIds
         /\ \A r \in PayoutIds : TotalsOf(s)[r] = Total(s.payoutRequests[r].batch)
                                 /\ TotalsOf(s)[r] \in Nat
<1>1. Executed(s, p) \subseteq PayoutIds
  BY DEF Executed, PoolPayoutRequests
<1>2. IsFiniteSet(Executed(s, p))
  BY <1>1, FiniteIds, FS_Subset
<1>3. \A r \in PayoutIds : s.payoutRequests[r].batch \in Seq(Payment)
  BY StorageFields, RequestFields
<1>4. \A r \in PayoutIds : TotalsOf(s)[r] = Total(s.payoutRequests[r].batch)
                          /\ TotalsOf(s)[r] \in Nat
  BY <1>3, PaymentAmounts, TotalType DEF TotalsOf
<1>5. ExecutedFrom(s, p) = SumFunctionOnSet(TotalsOf(s), Executed(s, p))
  BY DEF ExecutedFrom, TotalsOf, Executed
<1> QED  BY <1>1, <1>2, <1>4, <1>5, SumType

IsExecuted(request) == request.exists /\ request.status = "Executed"

\* No request is executed.
LEMMA ExecutedSame ==
  ASSUME NEW s \in Storage, NEW n \in Storage, NEW p,
         \A r \in PayoutIds : n.payoutRequests[r] = s.payoutRequests[r]
           \/ (~IsExecuted(s.payoutRequests[r]) /\ ~IsExecuted(n.payoutRequests[r]))
  PROVE  ExecutedFrom(n, p) = ExecutedFrom(s, p)
<1>1. Executed(n, p) = Executed(s, p)
  BY DEF Executed, PoolPayoutRequests, IsExecuted
<1>2. \A r \in Executed(s, p) : n.payoutRequests[r] = s.payoutRequests[r]
  BY DEF Executed, PoolPayoutRequests, IsExecuted
<1>3. \A r \in Executed(s, p) : TotalsOf(s)[r] \in Nat /\ TotalsOf(n)[r] = TotalsOf(s)[r]
  BY <1>2, ExecutedType
<1> QED  BY <1>1, <1>3, ExecutedType, SumSame

\* One request is executed.
LEMMA ExecutedNew ==
  ASSUME NEW s \in Storage, NEW n \in Storage, NEW p, NEW q \in PayoutIds,
         ~IsExecuted(s.payoutRequests[q]), IsExecuted(n.payoutRequests[q]),
         \A r \in PayoutIds : r # q => n.payoutRequests[r] = s.payoutRequests[r]
  PROVE  /\ p = n.payoutRequests[q].poolId =>
              ExecutedFrom(n, p) = ExecutedFrom(s, p) + Total(n.payoutRequests[q].batch)
         /\ p # n.payoutRequests[q].poolId => ExecutedFrom(n, p) = ExecutedFrom(s, p)
<1>1. \A r \in Executed(s, p) : r # q /\ TotalsOf(s)[r] \in Nat /\ TotalsOf(n)[r] = TotalsOf(s)[r]
  <2>1. \A r \in Executed(s, p) : r \in PayoutIds /\ r # q
    BY DEF Executed, PoolPayoutRequests, IsExecuted
  <2> QED  BY <2>1, ExecutedType
<1>2. SumFunctionOnSet(TotalsOf(n), Executed(s, p)) = ExecutedFrom(s, p)
  BY <1>1, ExecutedType, SumSame
<1>3. ASSUME p = n.payoutRequests[q].poolId
      PROVE  ExecutedFrom(n, p) = ExecutedFrom(s, p) + Total(n.payoutRequests[q].batch)
  <2>1. Executed(n, p) = Executed(s, p) \cup {q} /\ q \notin Executed(s, p)
    BY <1>3 DEF Executed, PoolPayoutRequests, IsExecuted
  <2>2. \A r \in Executed(s, p) : TotalsOf(n)[r] \in Nat
    BY <1>1
  <2>3. SumFunctionOnSet(TotalsOf(n), Executed(s, p) \cup {q}) =
          TotalsOf(n)[q] + SumFunctionOnSet(TotalsOf(n), Executed(s, p))
    BY <2>1, <2>2, ExecutedType, SumAdd
  <2>4. ExecutedFrom(n, p) = Total(n.payoutRequests[q].batch) + ExecutedFrom(s, p)
    BY <1>2, <2>1, <2>3, ExecutedType
  <2>5. Total(n.payoutRequests[q].batch) \in Nat /\ ExecutedFrom(s, p) \in Nat
    BY ExecutedType
  <2> QED  BY <2>4, <2>5
<1>4. ASSUME p # n.payoutRequests[q].poolId
      PROVE  ExecutedFrom(n, p) = ExecutedFrom(s, p)
  <2>1. Executed(n, p) = Executed(s, p)
    BY <1>4 DEF Executed, PoolPayoutRequests, IsExecuted
  <2> QED  BY <1>2, <2>1, ExecutedType
<1> QED  BY <1>3, <1>4

PaidFor(s, e) == SumFunctionOnSet(s.paid, PoolsOf(s, e))

LEMMA PaidForType ==
  ASSUME NEW s \in Storage, NEW e
  PROVE  /\ PaidFor(s, e) \in Nat
         /\ IsFiniteSet(PoolsOf(s, e)) /\ PoolsOf(s, e) \subseteq PoolIds
         /\ \A p \in PoolIds : s.paid[p] \in Nat
<1>1. PoolsOf(s, e) \subseteq PoolIds
  BY DEF PoolsOf
<1>2. IsFiniteSet(PoolsOf(s, e))
  BY <1>1, FiniteIds, FS_Subset
<1>3. \A p \in PoolIds : s.paid[p] \in Nat
  BY StorageFields
<1> QED  BY <1>1, <1>2, <1>3, SumType DEF PaidFor

LEMMA PaidForSame ==
  ASSUME NEW s \in Storage, NEW n \in Storage, NEW e, n.paid = s.paid,
         \A p \in PoolIds :
            /\ n.prizePools[p].exists = s.prizePools[p].exists
            /\ n.prizePools[p].eventId = s.prizePools[p].eventId
  PROVE  PaidFor(n, e) = PaidFor(s, e)
<1>1. PoolsOf(n, e) = PoolsOf(s, e)
  BY DEF PoolsOf
<1> QED  BY <1>1 DEF PaidFor

\* A new pool has paid nothing.
LEMMA PaidForNew ==
  ASSUME NEW s \in Storage, NEW n \in Storage, NEW e, NEW q \in PoolIds,
         n.paid = s.paid, s.paid[q] = 0, ~s.prizePools[q].exists, n.prizePools[q].exists,
         \A p \in PoolIds : p # q => n.prizePools[p] = s.prizePools[p]
  PROVE  PaidFor(n, e) = PaidFor(s, e)
<1>1. CASE n.prizePools[q].eventId = e
  <2>1. PoolsOf(n, e) = PoolsOf(s, e) \cup {q} /\ q \notin PoolsOf(s, e)
    BY <1>1 DEF PoolsOf
  <2>2. SumFunctionOnSet(s.paid, PoolsOf(s, e) \cup {q}) =
          s.paid[q] + SumFunctionOnSet(s.paid, PoolsOf(s, e))
    <3>1. \A p \in PoolsOf(s, e) : s.paid[p] \in Nat
      BY PaidForType
    <3> QED  BY <2>1, <3>1, PaidForType, SumAdd
  <2>3. SumFunctionOnSet(s.paid, PoolsOf(s, e)) \in Nat
    BY PaidForType DEF PaidFor
  <2> QED  BY <2>1, <2>2, <2>3 DEF PaidFor
<1>2. CASE n.prizePools[q].eventId # e
  <2>1. PoolsOf(n, e) = PoolsOf(s, e)
    BY <1>2 DEF PoolsOf
  <2> QED  BY <2>1 DEF PaidFor
<1> QED  BY <1>1, <1>2

\* A pool pays.
LEMMA PaidForChange ==
  ASSUME NEW s \in Storage, NEW n \in Storage, NEW e, NEW q \in PoolIds, NEW v \in Nat,
         s.prizePools[q].exists, n.prizePools = s.prizePools,
         n.paid[q] = s.paid[q] + v, \A p \in PoolIds : p # q => n.paid[p] = s.paid[p]
  PROVE  /\ e = s.prizePools[q].eventId => PaidFor(n, e) = PaidFor(s, e) + v
         /\ e # s.prizePools[q].eventId => PaidFor(n, e) = PaidFor(s, e)
<1>1. PoolsOf(n, e) = PoolsOf(s, e) /\ (q \in PoolsOf(s, e) <=> e = s.prizePools[q].eventId)
  BY DEF PoolsOf
<1>2. PICK f, g : f = s.paid /\ g = n.paid
  OBVIOUS
<1>3. \A p \in PoolsOf(s, e) :
         /\ f[p] \in Nat /\ g[p] \in Nat
         /\ p # q => g[p] = f[p]
  BY <1>2, PaidForType
<1>5. ASSUME e = s.prizePools[q].eventId PROVE PaidFor(n, e) = PaidFor(s, e) + v
  <2>1. SumFunctionOnSet(g, PoolsOf(s, e)) + f[q] =
          SumFunctionOnSet(f, PoolsOf(s, e)) + g[q]
    <3>1. IsFiniteSet(PoolsOf(s, e)) /\ q \in PoolsOf(s, e)
      BY <1>1, <1>5, PaidForType
    <3> QED  BY ONLY <1>3, <3>1, SumChange
  <2>2. PaidFor(n, e) + s.paid[q] = PaidFor(s, e) + (s.paid[q] + v)
    BY <1>1, <1>2, <2>1 DEF PaidFor
  <2>3. PaidFor(n, e) \in Nat /\ PaidFor(s, e) \in Nat /\ s.paid[q] \in Nat
    BY PaidForType
  <2> DEFINE a == PaidFor(n, e)
             b == PaidFor(s, e)
             c == s.paid[q]
  <2> HIDE DEF a, b, c
  <2>4. a + c = b + (c + v) /\ a \in Nat /\ b \in Nat /\ c \in Nat
    BY <2>2, <2>3 DEF a, b, c
  <2>5. a = b + v
    BY <2>4
  <2> QED  BY <2>5 DEF a, b
<1>6. ASSUME e # s.prizePools[q].eventId PROVE PaidFor(n, e) = PaidFor(s, e)
  <2>1. SumFunctionOnSet(g, PoolsOf(s, e)) = SumFunctionOnSet(f, PoolsOf(s, e))
    <3>1. IsFiniteSet(PoolsOf(s, e))
      BY PaidForType
    <3>2. \A p \in PoolsOf(s, e) : f[p] \in Nat /\ g[p] = f[p]
      BY <1>1, <1>3, <1>6
    <3> QED  BY ONLY <3>1, <3>2, SumSame
  <2> QED  BY <1>1, <1>2, <2>1 DEF PaidFor
<1> QED  BY <1>5, <1>6

-----------------------------------------------------------------------------
(* The inductive invariant.  Within a transaction the payout in progress has *)
(* transferred InFlight, which the pool still counts as remaining; its       *)
(* request is executed and Due in full; the current recipient is not listed. *)

InFlightOf(t) ==
    IF InExecutePayout /\ storage.prizePools[frame.poolId].tokenAddress = t
    THEN InFlight(frame.poolId) ELSE 0
Due(p) == IF InExecutePayout /\ frame.poolId = p THEN Total(FrameBatch) ELSE 0
Unrecorded(e) ==
    IF InExecutePayout /\ storage.prizePools[frame.poolId].eventId = e THEN Current ELSE 0

OpenSolvency ==
    \A t \in Tokens : storage.balance[t] + InFlightOf(t) = storage.stray[t] + HeldFor(storage, t)
OpenPaid ==
    \A p \in PoolIds : storage.paid[p] + Due(p) = ExecutedFrom(storage, p) + InFlight(p)
OpenWinners ==
    \A e \in Events : Total(storage.eventWinners[e]) + Unrecorded(e) = PaidFor(storage, e)
PaidSoFar == InExecutePayout => frame.totalPaid = PaidBefore(FrameBatch, frame.i)

OpenBooks == OpenSolvency /\ OpenPaid /\ OpenWinners /\ PaidSoFar
Booked == OpenBooks /\ Solvency /\ PaidIsExecuted /\ WinnersAddUp

LEMMA FramePool ==
  ASSUME IInv, InExecutePayout
  PROVE  /\ frame.poolId \in PoolIds /\ storage.prizePools[frame.poolId].exists
         /\ storage.prizePools[frame.poolId].tokenAddress \in Tokens
         /\ storage.prizePools[frame.poolId].eventId \in Events
         /\ FrameBatch \in Seq(Payment) /\ frame.payoutId \in PayoutIds
         /\ storage.payoutRequests[frame.payoutId].exists
         /\ storage.payoutRequests[frame.payoutId].poolId = frame.poolId
         /\ frame.i \in 1 .. Len(FrameBatch) + 1 /\ frame.totalPaid \in Nat
         /\ Current \in Nat /\ Total(FrameBatch) \in Nat
         /\ InFlight(frame.poolId) = frame.totalPaid + Current
<1>1. /\ frame.payoutId \in PayoutIds /\ storage.payoutRequests[frame.payoutId].exists
      /\ storage.payoutRequests[frame.payoutId].poolId = frame.poolId
      /\ frame.i \in 1 .. Len(FrameBatch) + 1
      /\ frame.callee # NoOne => frame.i <= Len(FrameBatch)
  BY IInvFacts DEF FrameOK
<1>2. frame.poolId \in PoolIds /\ frame.totalPaid \in Nat
  BY IInvFacts DEF Frame
<1>3. storage.prizePools[frame.poolId].exists
  BY <1>1, IInvFacts DEF Shape
<1>4. FrameBatch \in Seq(Payment)
  BY <1>1, IInvFacts, RequestFields DEF FrameBatch
<1>5. Current \in Nat
  BY <1>1, CurrentPayment DEF Current, Payment
<1>6. Total(FrameBatch) \in Nat
  BY <1>4, PaymentAmounts, TotalType
<1>7. /\ storage.prizePools[frame.poolId].tokenAddress \in Tokens
      /\ storage.prizePools[frame.poolId].eventId \in Events
  BY <1>2, IInvFacts, PoolFields
<1> QED  BY <1>1, <1>2, <1>3, <1>4, <1>5, <1>6, <1>7 DEF InFlight

LEMMA TokenTerms ==
  ASSUME IInv, OpenBooks, NEW t \in Tokens
  PROVE  /\ storage.balance[t] \in Nat /\ storage.stray[t] \in Nat
         /\ HeldFor(storage, t) \in Nat /\ InFlightOf(t) \in Nat
         /\ storage.balance[t] + InFlightOf(t) = storage.stray[t] + HeldFor(storage, t)
<1>1. InFlightOf(t) \in Nat
  BY FramePool, InFlightType DEF InFlightOf
<1>2. storage.balance[t] \in Nat /\ storage.stray[t] \in Nat /\ HeldFor(storage, t) \in Nat
  BY IInvFacts, StorageFields, HeldType
<1> QED  BY <1>1, <1>2 DEF OpenBooks, OpenSolvency

LEMMA PoolTerms ==
  ASSUME IInv, OpenBooks, NEW p \in PoolIds
  PROVE  /\ storage.paid[p] \in Nat /\ Due(p) \in Nat /\ ExecutedFrom(storage, p) \in Nat
         /\ InFlight(p) \in Nat
         /\ storage.paid[p] + Due(p) = ExecutedFrom(storage, p) + InFlight(p)
<1>1. Due(p) \in Nat /\ InFlight(p) \in Nat
  BY FramePool, InFlightType DEF Due
<1>2. storage.paid[p] \in Nat /\ ExecutedFrom(storage, p) \in Nat
  BY IInvFacts, StorageFields, ExecutedType
<1> QED  BY <1>1, <1>2 DEF OpenBooks, OpenPaid

LEMMA EventTerms ==
  ASSUME IInv, OpenBooks, NEW e \in Events
  PROVE  /\ storage.eventWinners[e] \in Seq(Winner) /\ Total(storage.eventWinners[e]) \in Nat
         /\ Unrecorded(e) \in Nat /\ PaidFor(storage, e) \in Nat
         /\ Total(storage.eventWinners[e]) + Unrecorded(e) = PaidFor(storage, e)
<1>1. storage.eventWinners[e] \in Seq(Winner)
  BY IInvFacts, StorageFields
<1>2. Total(storage.eventWinners[e]) \in Nat
  BY <1>1, PaymentAmounts, TotalType
<1>3. Unrecorded(e) \in Nat
  BY FramePool DEF Unrecorded
<1>4. PaidFor(storage, e) \in Nat
  BY IInvFacts, PaidForType
<1> QED  BY <1>1, <1>2, <1>3, <1>4 DEF OpenBooks, OpenWinners

\* What the running payout contributes stays.
FrameStays ==
    /\ \A t \in Tokens : InFlightOf(t)' = InFlightOf(t)
    /\ \A p \in PoolIds : Due(p)' = Due(p) /\ InFlight(p)' = InFlight(p)
    /\ \A e \in Events : Unrecorded(e)' = Unrecorded(e)
    /\ PaidSoFar'

LEMMA OneStepStays ==
  ASSUME IInv, OpenBooks, InOneStep,
         \A p \in PoolIds : storage.prizePools[p].exists =>
            /\ storage'.prizePools[p].tokenAddress = storage.prizePools[p].tokenAddress
            /\ storage'.prizePools[p].eventId = storage.prizePools[p].eventId,
         \A r \in PayoutIds : storage.payoutRequests[r].exists =>
            storage'.payoutRequests[r].batch = storage.payoutRequests[r].batch
  PROVE  FrameStays
<1>1. frame' = frame
  BY DEF InOneStep
<1>2. CASE InExecutePayout
  <2>1. FrameBatch' = FrameBatch
    BY <1>1, <1>2, FramePool DEF FrameBatch
  <2>2. /\ storage'.prizePools[frame.poolId].tokenAddress =
             storage.prizePools[frame.poolId].tokenAddress
        /\ storage'.prizePools[frame.poolId].eventId = storage.prizePools[frame.poolId].eventId
    BY <1>2, FramePool
  <2>3. Current' = Current /\ \A p \in PoolIds : InFlight(p)' = InFlight(p)
    BY <1>1, <2>1 DEF Current, InFlight, InExecutePayout
  <2>4. InFlight(frame.poolId)' = InFlight(frame.poolId)
    BY <1>1, <2>3 DEF InFlight, InExecutePayout
  <2>5. PaidSoFar'
    BY <1>1, <2>1 DEF OpenBooks, PaidSoFar, InExecutePayout
  <2> QED  BY <1>1, <2>1, <2>2, <2>3, <2>4, <2>5
           DEF FrameStays, InFlightOf, Due, Unrecorded, InExecutePayout
<1>3. CASE ~InExecutePayout
  BY <1>1, <1>3 DEF FrameStays, InFlightOf, Due, InFlight, Unrecorded, PaidSoFar, InExecutePayout
<1> QED  BY <1>2, <1>3

\* The steps that leave what one of the sums speaks of alone ...
LEMMA QuietSolvency ==
  ASSUME IInv, OpenBooks, storage' \in Storage, FrameStays,
         storage'.balance = storage.balance, storage'.stray = storage.stray,
         \A p \in PoolIds :
            /\ storage'.prizePools[p].exists = storage.prizePools[p].exists
            /\ storage'.prizePools[p].tokenAddress = storage.prizePools[p].tokenAddress
            /\ storage'.prizePools[p].remainingAmount = storage.prizePools[p].remainingAmount
  PROVE  OpenSolvency'
<1>0. storage \in Storage
  BY IInvFacts
<1> SUFFICES ASSUME NEW t \in Tokens
             PROVE  storage'.balance[t] + InFlightOf(t)' = storage'.stray[t] + HeldFor(storage', t)
  BY DEF OpenSolvency
<1>1. HeldFor(storage', t) = HeldFor(storage, t)
  BY <1>0, HeldSame
<1>2. InFlightOf(t)' = InFlightOf(t)
  BY DEF FrameStays
<1> QED  BY <1>1, <1>2, TokenTerms

LEMMA QuietPaid ==
  ASSUME IInv, OpenBooks, storage' \in Storage, FrameStays, storage'.paid = storage.paid,
         \A r \in PayoutIds : storage'.payoutRequests[r] = storage.payoutRequests[r]
           \/ (~IsExecuted(storage.payoutRequests[r]) /\ ~IsExecuted(storage'.payoutRequests[r]))
  PROVE  OpenPaid'
<1>0. storage \in Storage
  BY IInvFacts
<1> SUFFICES ASSUME NEW p \in PoolIds
             PROVE  storage'.paid[p] + Due(p)' = ExecutedFrom(storage', p) + InFlight(p)'
  BY DEF OpenPaid
<1>1. ExecutedFrom(storage', p) = ExecutedFrom(storage, p)
  BY <1>0, ExecutedSame
<1> QED  BY <1>1, PoolTerms DEF FrameStays

LEMMA QuietWinners ==
  ASSUME IInv, OpenBooks, storage' \in Storage, FrameStays,
         storage'.paid = storage.paid, storage'.eventWinners = storage.eventWinners,
         \A p \in PoolIds :
            /\ storage'.prizePools[p].exists = storage.prizePools[p].exists
            /\ storage'.prizePools[p].eventId = storage.prizePools[p].eventId
  PROVE  OpenWinners'
<1>0. storage \in Storage
  BY IInvFacts
<1> SUFFICES ASSUME NEW e \in Events
             PROVE  Total(storage'.eventWinners[e]) + Unrecorded(e)' = PaidFor(storage', e)
  BY DEF OpenWinners
<1>1. PaidFor(storage', e) = PaidFor(storage, e)
  BY <1>0, PaidForSame
<1>2. Unrecorded(e)' = Unrecorded(e)
  BY DEF FrameStays
<1> QED  BY <1>1, <1>2, EventTerms

\* ... and those that leave all of it alone.
LEMMA QuietBooks ==
  ASSUME IInv, OpenBooks, storage' \in Storage, FrameStays,
         UNCHANGED storage.paid, UNCHANGED Holdings(storage),
         \A p \in PoolIds :
            /\ storage'.prizePools[p].exists = storage.prizePools[p].exists
            /\ storage'.prizePools[p].tokenAddress = storage.prizePools[p].tokenAddress
            /\ storage'.prizePools[p].eventId = storage.prizePools[p].eventId
            /\ storage'.prizePools[p].remainingAmount = storage.prizePools[p].remainingAmount,
         \A r \in PayoutIds : storage'.payoutRequests[r] = storage.payoutRequests[r]
           \/ (~IsExecuted(storage.payoutRequests[r]) /\ ~IsExecuted(storage'.payoutRequests[r]))
  PROVE  OpenBooks'
<1>1. /\ storage'.balance = storage.balance /\ storage'.stray = storage.stray
      /\ storage'.eventWinners = storage.eventWinners
  BY DEF Holdings
<1>2. OpenSolvency'
  BY <1>1, QuietSolvency
<1>3. OpenPaid'
  BY QuietPaid
<1>4. OpenWinners'
  BY <1>1, QuietWinners
<1> QED  BY <1>2, <1>3, <1>4 DEF OpenBooks, FrameStays

-----------------------------------------------------------------------------
(* The steps.                                                                *)

LEMMA CreateBooks ==
  ASSUME IInv, OpenBooks, NEW sender \in Accounts, NEW e \in Events, NEW t \in Tokens,
         NEW n \in SignatureCounts, NEW value \in Amounts \cup StrayAmounts,
         CreatePrizePool(sender, e, t, n, value)
  PROVE  OpenBooks'
<1> DEFINE new == NewPool(sender, e, t, n, value)
           ia == InitialAmount(t, value)
<1>q. PICK q : q = storage.poolCounter
  OBVIOUS
<1>0. storage \in Storage /\ storage' \in Storage
  <2>1. storage \in Storage
    BY IInvFacts
  <2> QED  BY <2>1, CreateEffect
<1>1. /\ q \in PoolIds
      /\ storage'.prizePools = [storage.prizePools EXCEPT ![q] = new]
      /\ storage'.payoutRequests = storage.payoutRequests /\ storage'.paid = storage.paid
  BY <1>0, <1>q, CreateEffect
<1>2. /\ storage'.eventWinners = storage.eventWinners
      /\ storage'.balance = [storage.balance EXCEPT ![ETH] = @ + value]
      /\ storage'.stray = [storage.stray EXCEPT ![ETH] = @ + Surplus(t, value)]
  <2>1. storage \in Storage
    BY <1>0
  <2> QED  BY ONLY <2>1, CreateHoldings, CreatePrizePool(sender, e, t, n, value),
                   value \in Amounts \cup StrayAmounts
<1>3. ~storage.prizePools[q].exists /\ storage.paid[q] = 0
  BY IInvFacts, <1>1, <1>q DEF Shape, PoolIds
<1>4. new.exists /\ new.tokenAddress = t /\ new.remainingAmount = ia /\ new.eventId = e
  BY DEF NewPool
<1> HIDE DEF new
<1>5. \A p \in PoolIds : storage'.prizePools[p] = IF p = q THEN new ELSE storage.prizePools[p]
  BY IInvFacts, <1>1
<1>6. FrameStays
  <2>1. InOneStep
    BY DEF CreatePrizePool
  <2> QED  BY <1>1, <1>3, <1>5, <2>1, OneStepStays
<1>7. OpenSolvency'
  <2> SUFFICES ASSUME NEW u \in Tokens
               PROVE  storage'.balance[u] + InFlightOf(u)' = storage'.stray[u] + HeldFor(storage', u)
    BY DEF OpenSolvency
  <2> DEFINE b == storage.balance[u]
             m == InFlightOf(u)
             k == storage.stray[u]
             h == HeldFor(storage, u)
             x == Surplus(t, value)
  <2>1. b \in Nat /\ m \in Nat /\ k \in Nat /\ h \in Nat /\ b + m = k + h
    BY TokenTerms
  <2>2. HeldFor(storage', u) = IF u = t THEN h + ia ELSE h
    <3>1. storage'.prizePools[q].exists /\ storage'.prizePools[q].tokenAddress = t
          /\ storage'.prizePools[q].remainingAmount = ia
          /\ \A p \in PoolIds : p # q => storage'.prizePools[p] = storage.prizePools[p]
      BY <1>1, <1>4, <1>5
    <3>2. /\ u = storage'.prizePools[q].tokenAddress =>
               HeldFor(storage', u) = HeldFor(storage, u) + storage'.prizePools[q].remainingAmount
          /\ u # storage'.prizePools[q].tokenAddress => HeldFor(storage', u) = HeldFor(storage, u)
      <4>1. PICK s0, n0 : s0 = storage /\ n0 = storage'
        OBVIOUS
      <4>2. /\ s0 \in Storage /\ n0 \in Storage /\ q \in PoolIds
            /\ ~s0.prizePools[q].exists /\ n0.prizePools[q].exists
            /\ \A p \in PoolIds : p # q => n0.prizePools[p] = s0.prizePools[p]
        BY ONLY <1>0, <1>1, <1>3, <3>1, <4>1
      <4>3. /\ u = n0.prizePools[q].tokenAddress =>
                  HeldFor(n0, u) = HeldFor(s0, u) + n0.prizePools[q].remainingAmount
            /\ u # n0.prizePools[q].tokenAddress => HeldFor(n0, u) = HeldFor(s0, u)
        BY ONLY <4>2, HeldNew
      <4> QED  BY ONLY <4>1, <4>3
    <3> HIDE DEF ia
    <3> QED  BY <3>1, <3>2
  <2>3. InFlightOf(u)' = m
    BY <1>6 DEF FrameStays
  <2>4. /\ storage'.balance[u] = IF u = ETH THEN b + value ELSE b
        /\ storage'.stray[u] = IF u = ETH THEN k + x ELSE k
    <3>1. storage.balance \in [Tokens -> Nat] /\ storage.stray \in [Tokens -> Nat]
      BY <1>0, StorageFields
    <3> HIDE DEF x
    <3> QED  BY <1>2, <3>1 DEF x
  <2>5. value \in Nat /\ (t = ETH => ia = value) /\ (t # ETH => ia = 0) /\ x = value - ia
    BY DEF InitialAmount, Surplus
  <2> HIDE DEF b, m, k, h, ia, x
  <2>6. CASE u = ETH /\ t = ETH
    <3>1. storage'.balance[u] = b + value /\ storage'.stray[u] = k + 0 /\ HeldFor(storage', u) = h + value
      BY <2>2, <2>4, <2>5, <2>6
    <3> QED  BY <2>1, <2>3, <2>5, <3>1
  <2>7. CASE u = ETH /\ t # ETH
    <3>1. storage'.balance[u] = b + value /\ storage'.stray[u] = k + value /\ HeldFor(storage', u) = h
      BY <2>2, <2>4, <2>5, <2>7
    <3> QED  BY <2>1, <2>3, <2>5, <3>1
  <2>8. CASE u # ETH
    <3>1. storage'.balance[u] = b /\ storage'.stray[u] = k /\ HeldFor(storage', u) = h
      BY <2>1, <2>2, <2>4, <2>5, <2>8
    <3> QED  BY <2>1, <2>3, <3>1
  <2> QED  BY <2>6, <2>7, <2>8
<1>8. OpenPaid'
  <2>1. \A r \in PayoutIds : storage'.payoutRequests[r] = storage.payoutRequests[r]
           \/ (~IsExecuted(storage.payoutRequests[r]) /\ ~IsExecuted(storage'.payoutRequests[r]))
    BY <1>1
  <2> QED  BY <1>0, <1>1, <1>6, <2>1, QuietPaid
<1>9. OpenWinners'
  <2> SUFFICES ASSUME NEW d \in Events
               PROVE  Total(storage'.eventWinners[d]) + Unrecorded(d)' = PaidFor(storage', d)
    BY DEF OpenWinners
  <2>1. PaidFor(storage', d) = PaidFor(storage, d)
    <3>1. /\ storage'.prizePools[q].exists /\ storage'.paid = storage.paid
          /\ \A p \in PoolIds : p # q => storage'.prizePools[p] = storage.prizePools[p]
      BY <1>1, <1>4, <1>5
    <3>2. PICK s0, n0 : s0 = storage /\ n0 = storage'
      OBVIOUS
    <3>3. /\ s0 \in Storage /\ n0 \in Storage /\ q \in PoolIds
          /\ n0.paid = s0.paid /\ s0.paid[q] = 0
          /\ ~s0.prizePools[q].exists /\ n0.prizePools[q].exists
          /\ \A p \in PoolIds : p # q => n0.prizePools[p] = s0.prizePools[p]
      BY ONLY <1>0, <1>1, <1>3, <3>1, <3>2
    <3>4. PaidFor(n0, d) = PaidFor(s0, d)
      BY ONLY <3>3, PaidForNew
    <3> QED  BY ONLY <3>2, <3>4
  <2> QED  BY <1>2, <1>6, <2>1, EventTerms DEF FrameStays
<1> QED  BY <1>6, <1>7, <1>8, <1>9 DEF OpenBooks, FrameStays

LEMMA FundBooks ==
  ASSUME IInv, OpenBooks, NEW q \in PoolIds, NEW v \in Amounts, NEW w \in StrayAmounts \cup {0},
         FundPoolWithETH(q, v) \/ FundPoolWithToken(q, v, w)
  PROVE  OpenBooks'
<1> DEFINE old == storage.prizePools[q]
           new == Credit(old, v)
           t == old.tokenAddress
<1>0. storage \in Storage
  BY IInvFacts
<1>1. /\ storage' \in Storage
      /\ storage'.prizePools = [storage.prizePools EXCEPT ![q] = new]
      /\ storage'.payoutRequests = storage.payoutRequests
      /\ storage'.paid = storage.paid /\ storage'.eventWinners = storage.eventWinners
      /\ \/ /\ t = ETH
            /\ storage'.balance = [storage.balance EXCEPT ![ETH] = @ + v]
            /\ storage'.stray = storage.stray
         \/ /\ t # ETH
            /\ storage'.balance = Received(storage.balance, t, v, w)
            /\ storage'.stray = [storage.stray EXCEPT ![ETH] = @ + w]
  BY <1>0, FundEffect
<1>2. InOneStep /\ old.exists
  BY DEF FundPoolWithETH, FundPoolWithToken, MayFund
<1>3. /\ new.remainingAmount = old.remainingAmount + v /\ new.exists = old.exists
      /\ new.tokenAddress = t /\ new.eventId = old.eventId
  BY IInvFacts, CreditPool
<1> HIDE DEF new
<1>4. \A p \in PoolIds : storage'.prizePools[p] = IF p = q THEN new ELSE storage.prizePools[p]
  BY IInvFacts, <1>1
<1>5. \A p \in PoolIds :
         /\ storage'.prizePools[p].exists = storage.prizePools[p].exists
         /\ storage'.prizePools[p].tokenAddress = storage.prizePools[p].tokenAddress
         /\ storage'.prizePools[p].eventId = storage.prizePools[p].eventId
         /\ p # q => storage'.prizePools[p].remainingAmount = storage.prizePools[p].remainingAmount
  BY <1>3, <1>4
<1>6. FrameStays
  BY <1>1, <1>2, <1>5, OneStepStays
<1>7. OpenSolvency'
  <2> SUFFICES ASSUME NEW u \in Tokens
               PROVE  storage'.balance[u] + InFlightOf(u)' = storage'.stray[u] + HeldFor(storage', u)
    BY DEF OpenSolvency
  <2> DEFINE b == storage.balance[u]
             m == InFlightOf(u)
             k == storage.stray[u]
             h == HeldFor(storage, u)
             i == HeldFor(storage', u)
             r == old.remainingAmount
  <2>1. b \in Nat /\ m \in Nat /\ k \in Nat /\ h \in Nat /\ b + m = k + h
    BY TokenTerms
  <2>2. r \in Nat /\ i \in Nat /\ v \in Nat /\ w \in Nat
    <3>1. r \in Nat
      BY <1>0, StorageFields, PoolFields
    <3>2. i \in Nat
      BY <1>1, HeldType
    <3> QED  BY <3>1, <3>2
  <2>3. (u = t => i + r = h + (r + v)) /\ (u # t => i = h)
    <3>1. storage'.prizePools[q].remainingAmount = r + v
      BY <1>3, <1>4
    <3>2. /\ u = storage.prizePools[q].tokenAddress =>
               HeldFor(storage', u) + storage.prizePools[q].remainingAmount =
                 HeldFor(storage, u) + storage'.prizePools[q].remainingAmount
          /\ u # storage.prizePools[q].tokenAddress => HeldFor(storage', u) = HeldFor(storage, u)
      <4>1. storage.prizePools[q].exists /\ storage' \in Storage /\ q \in PoolIds
        BY <1>1, <1>2
      <4> QED  BY ONLY <1>0, <1>5, <4>1, HeldChange
    <3> QED  BY ONLY <3>1, <3>2
  <2>4. InFlightOf(u)' = m
    BY <1>6 DEF FrameStays
  <2>5. storage.balance \in [Tokens -> Nat] /\ storage.stray \in [Tokens -> Nat] /\ t \in Tokens
    BY <1>0, StorageFields, PoolFields
  <2>6. CASE t = ETH /\ storage'.balance = [storage.balance EXCEPT ![ETH] = @ + v]
             /\ storage'.stray = storage.stray
    <3>1. storage'.balance[u] = (IF u = t THEN b + v ELSE b) /\ storage'.stray[u] = k
      BY <2>5, <2>6
    <3> HIDE DEF b, m, k, h, i, r, t
    <3>2. storage'.balance[u] + m = storage'.stray[u] + i
      BY <2>1, <2>2, <2>3, <3>1
    <3> QED  BY <2>4, <3>2 DEF i
  <2>7. CASE t # ETH /\ storage'.balance = Received(storage.balance, t, v, w)
             /\ storage'.stray = [storage.stray EXCEPT ![ETH] = @ + w]
    <3>1. /\ u = t => storage'.balance[u] = b + v /\ storage'.stray[u] = k
          /\ u = ETH => storage'.balance[u] = b + w /\ storage'.stray[u] = k + w
          /\ u # t /\ u # ETH => storage'.balance[u] = b /\ storage'.stray[u] = k
      <4> HIDE DEF t
      <4> QED  BY <2>5, <2>7 DEF Received
    <3> HIDE DEF b, m, k, h, i, r, t
    <3>2. storage'.balance[u] + m = storage'.stray[u] + i
      <4>1. CASE u = t
        BY <2>1, <2>2, <2>3, <3>1, <4>1
      <4>2. CASE u = ETH
        BY <2>1, <2>2, <2>3, <2>7, <3>1, <4>2
      <4>3. CASE u # t /\ u # ETH
        BY <2>1, <2>2, <2>3, <3>1, <4>3
      <4> QED  BY <4>1, <4>2, <4>3
    <3> QED  BY <2>4, <3>2 DEF i
  <2> QED  BY <1>1, <2>6, <2>7
<1>8. OpenPaid' /\ OpenWinners'
  BY <1>1, <1>5, <1>6, QuietPaid, QuietWinners
<1> QED  BY <1>6, <1>7, <1>8 DEF OpenBooks, FrameStays

\* receive() adds to the balance and to the strays.
LEMMA ReceiveBooks ==
  ASSUME IInv, OpenBooks, NEW sender \in Accounts, NEW v \in StrayAmounts, Receive(sender, v)
  PROVE  OpenBooks'
<1> DEFINE b == storage.balance[ETH] + v
           k == storage.stray[ETH] + v
<1>0. storage \in Storage /\ v \in Nat /\ InOneStep
  BY IInvFacts DEF Receive
<1>1. b \in Nat /\ k \in Nat
  BY <1>0, StorageFields
<1>2. storage' = [storage EXCEPT !.balance[ETH] = b, !.stray[ETH] = k]
  BY DEF Receive
<1>3. /\ storage' \in Storage /\ UNCHANGED Books(storage)
      /\ storage'.eventWinners = storage.eventWinners
      /\ storage'.balance = [storage.balance EXCEPT ![ETH] = b]
      /\ storage'.stray = [storage.stray EXCEPT ![ETH] = k]
  <2> HIDE DEF b, k
  <2> QED  BY <1>0, <1>1, <1>2 DEF Storage, Books
<1>4. FrameStays
  BY <1>0, <1>3, OneStepStays DEF Books
<1>5. OpenSolvency'
  <2> SUFFICES ASSUME NEW u \in Tokens
               PROVE  storage'.balance[u] + InFlightOf(u)' = storage'.stray[u] + HeldFor(storage', u)
    BY DEF OpenSolvency
  <2>1. HeldFor(storage', u) = HeldFor(storage, u)
    BY <1>0, <1>3, HeldSame DEF Books
  <2>2. storage.balance \in [Tokens -> Nat] /\ storage.stray \in [Tokens -> Nat]
    BY <1>0, StorageFields
  <2>3. /\ storage'.balance[u] = IF u = ETH THEN storage.balance[u] + v ELSE storage.balance[u]
        /\ storage'.stray[u] = IF u = ETH THEN storage.stray[u] + v ELSE storage.stray[u]
    BY <1>3, <2>2
  <2>4. InFlightOf(u)' = InFlightOf(u)
    BY <1>4 DEF FrameStays
  <2> DEFINE b0 == storage.balance[u]
             k0 == storage.stray[u]
             m == InFlightOf(u)
             h == HeldFor(storage, u)
  <2>5. b0 \in Nat /\ m \in Nat /\ k0 \in Nat /\ h \in Nat /\ b0 + m = k0 + h
    BY TokenTerms
  <2>6. \/ storage'.balance[u] = b0 + v /\ storage'.stray[u] = k0 + v
        \/ storage'.balance[u] = b0 /\ storage'.stray[u] = k0
    BY <2>3
  <2>7. InFlightOf(u)' = m /\ HeldFor(storage', u) = h
    BY <2>1, <2>4
  <2> HIDE DEF b0, k0, m, h
  <2> QED  BY ONLY <1>0, <2>5, <2>6, <2>7
<1>6. OpenPaid' /\ OpenWinners'
  <2>1. /\ storage'.payoutRequests = storage.payoutRequests /\ storage'.paid = storage.paid
        /\ storage'.prizePools = storage.prizePools
    BY <1>3 DEF Books
  <2> QED  BY <1>3, <1>4, <2>1, QuietPaid, QuietWinners
<1> QED  BY <1>4, <1>5, <1>6 DEF OpenBooks, FrameStays

\* The steps that leave every pool alone, and every executed request.
LEMMA RequestBooks ==
  ASSUME IInv, OpenBooks, InOneStep, storage' \in Storage, NEW r \in PayoutIds, NEW new,
         storage'.prizePools = storage.prizePools, storage'.paid = storage.paid,
         UNCHANGED Holdings(storage),
         storage'.payoutRequests = [storage.payoutRequests EXCEPT ![r] = new],
         ~IsExecuted(storage.payoutRequests[r]), ~IsExecuted(new),
         storage.payoutRequests[r].exists => new.batch = storage.payoutRequests[r].batch
  PROVE  OpenBooks'
<1>1. \A k \in PayoutIds :
         storage'.payoutRequests[k] = IF k = r THEN new ELSE storage.payoutRequests[k]
  BY IInvFacts
<1>2. FrameStays
  BY <1>1, OneStepStays
<1>3. \A k \in PayoutIds : storage'.payoutRequests[k] = storage.payoutRequests[k]
         \/ (~IsExecuted(storage.payoutRequests[k]) /\ ~IsExecuted(storage'.payoutRequests[k]))
  BY <1>1
<1> QED  BY <1>2, <1>3, QuietBooks

LEMMA RequestPayoutBooks ==
  ASSUME IInv, OpenBooks, NEW sender \in Accounts, NEW q \in PoolIds, NEW b \in Batches,
         RequestPayout(sender, q, b)
  PROVE  OpenBooks'
<1> DEFINE new == [exists |-> TRUE, poolId |-> q, batch |-> b, status |-> "Pending",
                   approvalCount |-> 0, approvals |-> {}]
<1>q. PICK r : r = storage.payoutRequestCounter
  OBVIOUS
<1>1. /\ storage' \in Storage /\ r \in PayoutIds
      /\ storage'.payoutRequests = [storage.payoutRequests EXCEPT ![r] = new]
      /\ storage'.prizePools = storage.prizePools /\ storage'.paid = storage.paid
      /\ UNCHANGED Holdings(storage)
  <2>1. storage \in Storage
    BY IInvFacts
  <2> QED  BY <1>q, <2>1, RequestEffect
<1>2. ~storage.payoutRequests[r].exists
  BY IInvFacts, <1>1, <1>q DEF Shape, PayoutIds
<1>3. ~IsExecuted(storage.payoutRequests[r]) /\ ~IsExecuted(new)
  BY <1>2 DEF IsExecuted
<1>4. InOneStep
  BY DEF RequestPayout
<1> HIDE DEF new
<1> QED  BY <1>1, <1>2, <1>3, <1>4, RequestBooks

LEMMA DecisionBooks ==
  ASSUME IInv, OpenBooks, NEW sender \in Accounts, NEW r \in PayoutIds,
         ApprovePayout(sender, r) \/ RejectPayout(sender, r)
  PROVE  OpenBooks'
<1> DEFINE old == storage.payoutRequests[r]
<1>0. storage \in Storage /\ old \in PayoutRequest
  BY IInvFacts
<1>1. InOneStep /\ old.status = "Pending"
  BY DEF ApprovePayout, MayApprove, RejectPayout, IsPending
<1>2. PICK new : \/ new = Approved(old, sender) /\ ApprovePayout(sender, r)
                 \/ new = [old EXCEPT !.status = "Rejected"] /\ RejectPayout(sender, r)
  OBVIOUS
<1>3. new.batch = old.batch /\ new.status # "Executed"
  <2>1. CASE new = Approved(old, sender)
    <3> HIDE DEF old
    <3> QED  BY <1>0, <1>1, <2>1, ApproveRequest
  <2>2. CASE new = [old EXCEPT !.status = "Rejected"]
    <3> HIDE DEF old
    <3> QED  BY <1>0, <2>2 DEF PayoutRequest
  <2> QED  BY <1>2, <2>1, <2>2
<1>4. /\ storage' \in Storage
      /\ storage'.payoutRequests = [storage.payoutRequests EXCEPT ![r] = new]
      /\ storage'.prizePools = storage.prizePools /\ storage'.paid = storage.paid
      /\ UNCHANGED Holdings(storage)
  BY <1>0, <1>2, ApproveEffect, RejectEffect
<1>5. ~IsExecuted(old) /\ ~IsExecuted(new)
  BY <1>1, <1>3 DEF IsExecuted
<1> QED  BY <1>1, <1>3, <1>4, <1>5, RequestBooks

\* The last signature: the request is executed, and all of it is due.
LEMMA ExecuteBooks ==
  ASSUME IInv, OpenBooks, NEW sender \in Accounts, NEW r \in PayoutIds,
         ApproveAndExecute(sender, r)
  PROVE  OpenBooks'
<1> DEFINE old == storage.payoutRequests[r]
           approved == Approved(old, sender)
           new == [approved EXCEPT !.status = "Executed"]
<1>0. storage \in Storage /\ old \in PayoutRequest
  BY IInvFacts
<1>1. /\ storage' \in Storage
      /\ storage'.payoutRequests = [storage.payoutRequests EXCEPT ![r] = new]
      /\ storage'.prizePools = storage.prizePools /\ storage'.paid = storage.paid
      /\ UNCHANGED Holdings(storage)
  BY <1>0, ExecuteEffect
<1>2. Idle /\ old.exists /\ old.status = "Pending"
  BY DEF ApproveAndExecute, MayApprove, IsPending, nonReentrant
<1>3. new.exists /\ new.status = "Executed" /\ new.poolId = old.poolId /\ new.batch = old.batch
  <2>1. /\ approved \in PayoutRequest /\ approved.exists = old.exists
        /\ approved.poolId = old.poolId /\ approved.batch = old.batch
    <3> HIDE DEF old
    <3> QED  BY <1>0, ApproveRequest
  <2> HIDE DEF approved, old
  <2> QED  BY <1>2, <2>1 DEF PayoutRequest
<1> HIDE DEF new, approved
<1>4. \A k \in PayoutIds :
         storage'.payoutRequests[k] = IF k = r THEN new ELSE storage.payoutRequests[k]
  BY <1>0, <1>1, IInvFacts
<1>5. /\ frame.fn = "none" /\ frame'.fn = "_executePayout" /\ frame'.poolId = old.poolId
      /\ frame'.payoutId = r /\ frame'.i = 1 /\ frame'.totalPaid = 0 /\ frame'.callee = NoOne
  BY <1>2 DEF ApproveAndExecute, Idle
<1>6. ~InExecutePayout /\ InExecutePayout' /\ Current' = 0 /\ FrameBatch' = new.batch
  BY <1>4, <1>5 DEF InExecutePayout, Current, FrameBatch
<1>7. /\ storage'.balance = storage.balance /\ storage'.stray = storage.stray
      /\ storage'.eventWinners = storage.eventWinners
  BY <1>1 DEF Holdings
<1>8. /\ \A p \in PoolIds : InFlight(p) = 0 /\ InFlight(p)' = 0
      /\ \A t \in Tokens : InFlightOf(t) = 0 /\ InFlightOf(t)' = 0
      /\ \A e \in Events : Unrecorded(e) = 0 /\ Unrecorded(e)' = 0
      /\ \A p \in PoolIds : Due(p) = 0 /\ Due(p)' = IF p = old.poolId THEN Total(new.batch) ELSE 0
  <2>1. InFlight(frame.poolId)' = 0 /\ \A p \in PoolIds : InFlight(p) = 0 /\ InFlight(p)' = 0
    BY <1>5, <1>6 DEF InFlight
  <2>2. \A t \in Tokens : InFlightOf(t) = 0 /\ InFlightOf(t)' = 0
    BY <1>6, <2>1 DEF InFlightOf
  <2>3. \A e \in Events : Unrecorded(e) = 0 /\ Unrecorded(e)' = 0
    BY <1>6 DEF Unrecorded
  <2>4. \A p \in PoolIds : Due(p) = 0 /\ Due(p)' = IF p = old.poolId THEN Total(new.batch) ELSE 0
    BY <1>5, <1>6 DEF Due
  <2> QED  BY <2>1, <2>2, <2>3, <2>4
<1>9. OpenSolvency'
  <2> SUFFICES ASSUME NEW t \in Tokens
               PROVE  storage'.balance[t] + InFlightOf(t)' = storage'.stray[t] + HeldFor(storage', t)
    BY DEF OpenSolvency
  <2>1. HeldFor(storage', t) = HeldFor(storage, t)
    BY <1>0, <1>1, HeldSame
  <2> QED  BY <1>7, <1>8, <2>1, TokenTerms
<1>10. OpenPaid'
  <2> SUFFICES ASSUME NEW p \in PoolIds
               PROVE  storage'.paid[p] + Due(p)' = ExecutedFrom(storage', p) + InFlight(p)'
    BY DEF OpenPaid
  <2>1. PICK s0, n0 : s0 = storage /\ n0 = storage'
    OBVIOUS
  <2>2. /\ s0 \in Storage /\ n0 \in Storage
        /\ ~IsExecuted(s0.payoutRequests[r]) /\ IsExecuted(n0.payoutRequests[r])
        /\ \A k \in PayoutIds : k # r => n0.payoutRequests[k] = s0.payoutRequests[k]
        /\ n0.payoutRequests[r] = new
    BY <1>0, <1>1, <1>2, <1>3, <1>4, <2>1 DEF IsExecuted
  <2>3. /\ p = n0.payoutRequests[r].poolId =>
              ExecutedFrom(n0, p) = ExecutedFrom(s0, p) + Total(n0.payoutRequests[r].batch)
        /\ p # n0.payoutRequests[r].poolId => ExecutedFrom(n0, p) = ExecutedFrom(s0, p)
    BY ONLY <2>2, ExecutedNew
  <2>4. /\ storage.paid[p] \in Nat /\ ExecutedFrom(storage, p) \in Nat
        /\ storage.paid[p] + 0 = ExecutedFrom(storage, p) + 0 /\ Total(new.batch) \in Nat
    <3>1. Total(n0.payoutRequests[r].batch) \in Nat
      BY ONLY <2>2, ExecutedType
    <3> QED  BY <1>8, <2>2, <3>1, PoolTerms
  <2> DEFINE a == storage.paid[p]
             b == ExecutedFrom(storage, p)
             c == Total(new.batch)
  <2>5. ExecutedFrom(storage', p) = IF p = old.poolId THEN b + c ELSE b
    BY ONLY <1>3, <2>1, <2>2, <2>3
  <2>6. storage'.paid[p] = a /\ Due(p)' = (IF p = old.poolId THEN c ELSE 0) /\ InFlight(p)' = 0
    BY <1>1, <1>8
  <2>7. a \in Nat /\ b \in Nat /\ c \in Nat /\ a + 0 = b + 0
    BY <2>4
  <2> HIDE DEF a, b, c
  <2> QED  BY <2>5, <2>6, <2>7
<1>11. OpenWinners'
  <2> SUFFICES ASSUME NEW e \in Events
               PROVE  Total(storage'.eventWinners[e]) + Unrecorded(e)' = PaidFor(storage', e)
    BY DEF OpenWinners
  <2>1. PaidFor(storage', e) = PaidFor(storage, e)
    BY <1>0, <1>1, PaidForSame
  <2> QED  BY <1>7, <1>8, <2>1, EventTerms
<1>12. PaidSoFar'
  BY <1>5, PaidBeforeFirst DEF PaidSoFar
<1> QED  BY <1>9, <1>10, <1>11, <1>12 DEF OpenBooks

\* One transfer: the money leaves the balance, and is in flight until the pool
\* is written at the end.
LEMMA TransferBooks ==
  ASSUME IInv, OpenBooks, TransferToRecipient
  PROVE  OpenBooks'
<1>q. PICK q, t, v : /\ q = frame.poolId /\ t = storage.prizePools[frame.poolId].tokenAddress
                     /\ v = FrameBatch[frame.i].amount
  OBVIOUS
<1>1. /\ InExecutePayout /\ frame.callee = NoOne /\ frame.i <= Len(FrameBatch)
      /\ frame' = [frame EXCEPT !.callee = FrameBatch[frame.i].recipient]
  BY DEF TransferToRecipient
<1>2. FrameBatch[frame.i] \in Payment
  BY <1>1, CurrentPayment
<1>3. v \in Nat /\ FrameBatch[frame.i].recipient \in Accounts
  BY <1>2, <1>q DEF Payment
<1>4. /\ q \in PoolIds /\ storage.prizePools[q].exists /\ frame.totalPaid \in Nat
      /\ InFlight(q) = frame.totalPaid + Current
  BY <1>1, <1>q, FramePool
<1>5. /\ storage' \in Storage
      /\ storage'.paid = [storage.paid EXCEPT ![q] = @ + v]
      /\ storage'.prizePools = storage.prizePools
      /\ storage'.payoutRequests = storage.payoutRequests
      /\ storage'.stray = storage.stray /\ storage'.eventWinners = storage.eventWinners
      /\ t \in Tokens /\ v <= storage.balance[t]
      /\ storage'.balance = [storage.balance EXCEPT ![t] = @ - v]
  <2>1. storage \in Storage /\ frame \in Frame
    BY IInvFacts
  <2> QED  BY <1>1, <1>2, <1>q, <2>1, TransferEffect
<1>6. /\ frame'.callee # NoOne /\ frame'.fn = frame.fn /\ frame'.poolId = frame.poolId
      /\ frame'.payoutId = frame.payoutId
      /\ frame'.i = frame.i /\ frame'.totalPaid = frame.totalPaid
  BY IInvFacts, <1>1, <1>3 DEF Frame
<1>7. FrameBatch' = FrameBatch /\ InExecutePayout' /\ Current = 0 /\ Current' = v
  <2>1. FrameBatch' = FrameBatch
    BY <1>5, <1>6 DEF FrameBatch
  <2> QED  BY <1>1, <1>6, <1>q, <2>1 DEF InExecutePayout, Current
<1>8. /\ \A p \in PoolIds : InFlight(p)' = IF p = q THEN InFlight(p) + v ELSE InFlight(p)
      /\ InFlight(frame.poolId)' = InFlight(q) + v
  <2>1. InFlight(q) = frame.totalPaid + 0 /\ (frame.totalPaid + 0) + v = frame.totalPaid + v
    BY <1>3, <1>4, <1>7
  <2>2. frame'.totalPaid + Current' = InFlight(q) + v
    BY <1>6, <1>7, <2>1
  <2> QED  BY <1>1, <1>6, <1>7, <1>q, <2>2 DEF InFlight
<1>9. \A u \in Tokens : InFlightOf(u)' = IF u = t THEN InFlightOf(u) + v ELSE InFlightOf(u)
  BY <1>1, <1>5, <1>6, <1>7, <1>8, <1>q DEF InFlightOf
<1>10. /\ \A p \in PoolIds : Due(p)' = Due(p)
       /\ \A e \in Events : /\ Unrecorded(e) = 0
                            /\ Unrecorded(e)' = IF e = storage.prizePools[q].eventId THEN v ELSE 0
  BY <1>1, <1>5, <1>6, <1>7, <1>q DEF Due, Unrecorded
<1>11. OpenSolvency'
  <2> SUFFICES ASSUME NEW u \in Tokens
               PROVE  storage'.balance[u] + InFlightOf(u)' = storage'.stray[u] + HeldFor(storage', u)
    BY DEF OpenSolvency
  <2>1. HeldFor(storage', u) = HeldFor(storage, u)
    BY <1>5, IInvFacts, HeldSame
  <2> DEFINE b == storage.balance[u]
             m == InFlightOf(u)
             k == storage.stray[u]
             h == HeldFor(storage, u)
  <2>2. b \in Nat /\ m \in Nat /\ k \in Nat /\ h \in Nat /\ b + m = k + h
    BY TokenTerms
  <2>3. storage'.balance[u] = IF u = t THEN b - v ELSE b
    BY <1>5, IInvFacts, StorageFields
  <2>4. InFlightOf(u)' = (IF u = t THEN m + v ELSE m) /\ storage'.stray[u] = k
        /\ HeldFor(storage', u) = h
    BY <1>5, <1>9, <2>1
  <2> HIDE DEF b, m, k, h
  <2> QED  BY <1>3, <2>2, <2>3, <2>4
<1>12. OpenPaid'
  <2> SUFFICES ASSUME NEW p \in PoolIds
               PROVE  storage'.paid[p] + Due(p)' = ExecutedFrom(storage', p) + InFlight(p)'
    BY DEF OpenPaid
  <2>1. ExecutedFrom(storage', p) = ExecutedFrom(storage, p)
    BY <1>5, IInvFacts, ExecutedSame
  <2> DEFINE a == storage.paid[p]
             d == Due(p)
             x == ExecutedFrom(storage, p)
             m == InFlight(p)
  <2>2. a \in Nat /\ d \in Nat /\ x \in Nat /\ m \in Nat /\ a + d = x + m
    BY PoolTerms
  <2>3. storage'.paid[p] = (IF p = q THEN a + v ELSE a) /\ Due(p)' = d
        /\ ExecutedFrom(storage', p) = x /\ InFlight(p)' = IF p = q THEN m + v ELSE m
    BY <1>4, <1>5, <1>8, <1>10, <2>1, IInvFacts
  <2> HIDE DEF a, d, x, m
  <2> QED  BY <1>3, <2>2, <2>3
<1>13. OpenWinners'
  <2> SUFFICES ASSUME NEW e \in Events
               PROVE  Total(storage'.eventWinners[e]) + Unrecorded(e)' = PaidFor(storage', e)
    BY DEF OpenWinners
  <2>1. PICK s0, n0 : s0 = storage /\ n0 = storage'
    OBVIOUS
  <2>2. /\ s0 \in Storage /\ n0 \in Storage
        /\ s0.prizePools[q].exists /\ n0.prizePools = s0.prizePools
        /\ n0.paid[q] = s0.paid[q] + v /\ \A p \in PoolIds : p # q => n0.paid[p] = s0.paid[p]
    BY <1>4, <1>5, <2>1, IInvFacts
  <2>3. /\ e = s0.prizePools[q].eventId => PaidFor(n0, e) = PaidFor(s0, e) + v
        /\ e # s0.prizePools[q].eventId => PaidFor(n0, e) = PaidFor(s0, e)
    BY ONLY <1>3, <1>4, <2>2, PaidForChange
  <2> DEFINE w == Total(storage.eventWinners[e])
             x == PaidFor(storage, e)
  <2>4. w \in Nat /\ x \in Nat /\ w + 0 = x
    BY <1>10, EventTerms
  <2>5. PaidFor(storage', e) = IF e = storage.prizePools[q].eventId THEN x + v ELSE x
    BY ONLY <2>1, <2>3
  <2>6. Total(storage'.eventWinners[e]) = w
        /\ Unrecorded(e)' = IF e = storage.prizePools[q].eventId THEN v ELSE 0
    BY <1>5, <1>10
  <2> HIDE DEF w, x
  <2> QED  BY <1>3, <2>4, <2>5, <2>6
<1>14. PaidSoFar'
  BY <1>6, <1>7, <1>1 DEF OpenBooks, PaidSoFar
<1> QED  BY <1>11, <1>12, <1>13, <1>14 DEF OpenBooks

\* The recipient returns: it is listed among the winners.
LEMMA ReturnsEffect ==
  ASSUME IInv, TransferReturns
  PROVE  LET e == storage.prizePools[frame.poolId].eventId
             winner == WinnerOf(FrameBatch[frame.i])
         IN /\ storage' \in Storage /\ e \in Events /\ winner \in Winner
            /\ winner.amount = FrameBatch[frame.i].amount
            /\ storage'.eventWinners = [storage.eventWinners EXCEPT ![e] = Append(@, winner)]
            /\ storage'.prizePools = storage.prizePools /\ storage'.paid = storage.paid
            /\ storage'.payoutRequests = storage.payoutRequests
            /\ storage'.balance = storage.balance /\ storage'.stray = storage.stray
<1> DEFINE e == storage.prizePools[frame.poolId].eventId
           winner == WinnerOf(FrameBatch[frame.i])
           more == Append(storage.eventWinners[e], winner)
<1>1. InExecutePayout /\ frame.callee # NoOne
  BY DEF TransferReturns
<1>2. frame.i <= Len(FrameBatch) /\ FrameBatch[frame.i] \in Payment
  BY IInvFacts, <1>1, CurrentPayment DEF FrameOK
<1>3. storage \in Storage /\ frame.i \in Nat /\ e \in Events
  BY IInvFacts, <1>1, FramePool DEF Frame
<1>4. winner \in Winner /\ winner.amount = FrameBatch[frame.i].amount
  BY <1>2, <1>3 DEF WinnerOf, Winner, Payment
<1>5. storage' = [storage EXCEPT !.eventWinners[e] = more]
  BY DEF TransferReturns
<1>6. storage.eventWinners[e] \in Seq(Winner)
  BY <1>3, StorageFields
<1> HIDE DEF e, winner
<1>7. more \in Seq(Winner)
  BY <1>4, <1>6
<1> HIDE DEF more
<1>8. /\ storage' \in Storage
      /\ storage'.eventWinners = [storage.eventWinners EXCEPT ![e] = more]
      /\ storage'.prizePools = storage.prizePools /\ storage'.paid = storage.paid
      /\ storage'.payoutRequests = storage.payoutRequests
      /\ storage'.balance = storage.balance /\ storage'.stray = storage.stray
  BY <1>3, <1>5, <1>7 DEF Storage
<1> QED  BY <1>3, <1>4, <1>8 DEF e, winner, more

LEMMA ReturnsBooks ==
  ASSUME IInv, OpenBooks, TransferReturns
  PROVE  OpenBooks'
<1>q. PICK q, d, v, winner :
        /\ q = frame.poolId /\ d = storage.prizePools[frame.poolId].eventId
        /\ v = FrameBatch[frame.i].amount /\ winner = WinnerOf(FrameBatch[frame.i])
  OBVIOUS
<1> DEFINE j == frame.i + 1
           sum == frame.totalPaid + v
<1>1. /\ InExecutePayout /\ frame.callee # NoOne
      /\ frame' = [frame EXCEPT !.callee = NoOne, !.i = j, !.totalPaid = sum]
  BY <1>q DEF TransferReturns
<1>2. /\ storage' \in Storage /\ d \in Events /\ winner \in Winner /\ winner.amount = v
      /\ storage'.eventWinners = [storage.eventWinners EXCEPT ![d] = Append(@, winner)]
      /\ storage'.prizePools = storage.prizePools /\ storage'.paid = storage.paid
      /\ storage'.payoutRequests = storage.payoutRequests
      /\ storage'.balance = storage.balance /\ storage'.stray = storage.stray
  BY <1>q, ReturnsEffect
<1>3. /\ frame.i \in 1 .. Len(FrameBatch) /\ FrameBatch \in Seq(Payment)
      /\ frame.totalPaid \in Nat
  <2>1. frame.i <= Len(FrameBatch)
    BY IInvFacts, <1>1 DEF FrameOK
  <2> QED  BY <1>1, <2>1, FramePool
<1>4. v \in Nat
  <2>1. FrameBatch[frame.i] \in Payment
    BY <1>1, <1>3, CurrentPayment
  <2> QED  BY <2>1, <1>q DEF Payment
<1>5. /\ frame'.callee = NoOne /\ frame'.fn = frame.fn /\ frame'.poolId = frame.poolId
      /\ frame'.payoutId = frame.payoutId /\ frame'.i = j /\ frame'.totalPaid = sum
  <2> HIDE DEF j, sum
  <2> QED  BY IInvFacts, <1>1 DEF Frame
<1>6. FrameBatch' = FrameBatch /\ InExecutePayout' /\ Current = v /\ Current' = 0
  <2>1. FrameBatch' = FrameBatch
    BY <1>2, <1>5 DEF FrameBatch
  <2> QED  BY <1>1, <1>5, <1>q, <2>1 DEF InExecutePayout, Current
<1>7. /\ \A p \in PoolIds : InFlight(p)' = InFlight(p) /\ Due(p)' = Due(p)
      /\ \A t \in Tokens : InFlightOf(t)' = InFlightOf(t)
  <2>1. sum + 0 = frame.totalPaid + v
    BY <1>3, <1>4
  <2>2. frame'.totalPaid + Current' = frame.totalPaid + Current
    BY <1>5, <1>6, <2>1
  <2>3. /\ \A p \in PoolIds : InFlight(p)' = InFlight(p) /\ Due(p)' = Due(p)
        /\ InFlight(frame.poolId)' = InFlight(frame.poolId)
    BY <1>1, <1>5, <1>6, <2>2 DEF InFlight, Due
  <2> QED  BY <1>1, <1>2, <1>5, <1>6, <2>3 DEF InFlightOf
<1>8. \A e \in Events : /\ Unrecorded(e) = IF e = d THEN v ELSE 0
                        /\ Unrecorded(e)' = 0
  BY <1>1, <1>6, <1>q DEF Unrecorded
<1>9. OpenSolvency'
  <2> SUFFICES ASSUME NEW t \in Tokens
               PROVE  storage'.balance[t] + InFlightOf(t)' = storage'.stray[t] + HeldFor(storage', t)
    BY DEF OpenSolvency
  <2>1. HeldFor(storage', t) = HeldFor(storage, t)
    BY <1>2, IInvFacts, HeldSame
  <2> QED  BY <1>2, <1>7, <2>1, TokenTerms
<1>10. OpenPaid'
  <2> SUFFICES ASSUME NEW p \in PoolIds
               PROVE  storage'.paid[p] + Due(p)' = ExecutedFrom(storage', p) + InFlight(p)'
    BY DEF OpenPaid
  <2>1. ExecutedFrom(storage', p) = ExecutedFrom(storage, p)
    BY <1>2, IInvFacts, ExecutedSame
  <2> QED  BY <1>2, <1>7, <2>1, PoolTerms
<1>11. OpenWinners'
  <2> SUFFICES ASSUME NEW e \in Events
               PROVE  Total(storage'.eventWinners[e]) + Unrecorded(e)' = PaidFor(storage', e)
    BY DEF OpenWinners
  <2>1. PaidFor(storage', e) = PaidFor(storage, e)
    BY <1>2, IInvFacts, PaidForSame
  <2> DEFINE old == storage.eventWinners[e]
             w == Total(old)
             x == PaidFor(storage, e)
  <2>2. old \in Seq(Winner) /\ w \in Nat /\ x \in Nat /\ w + (IF e = d THEN v ELSE 0) = x
    BY <1>8, EventTerms
  <2>3. storage'.eventWinners[e] = IF e = d THEN Append(old, winner) ELSE old
    BY <1>2, IInvFacts, StorageFields
  <2>4. Total(Append(old, winner)) = w + v
    <3> HIDE DEF old
    <3> QED  BY <1>2, <2>2, PaymentAmounts, TotalAppend
  <2>5. Unrecorded(e)' = 0 /\ PaidFor(storage', e) = x
    BY <1>8, <2>1
  <2>6. Total(storage'.eventWinners[e]) = IF e = d THEN w + v ELSE w
    BY <2>3, <2>4
  <2> HIDE DEF w, x
  <2> QED  BY <1>4, <2>2, <2>5, <2>6
<1>12. PaidSoFar'
  <2>1. frame.totalPaid = PaidBefore(FrameBatch, frame.i)
    BY <1>1 DEF OpenBooks, PaidSoFar
  <2>2. PaidBefore(FrameBatch, j) = PaidBefore(FrameBatch, frame.i) + v
    BY <1>3, <1>q, PaymentAmounts, PaidBeforeNext
  <2> QED  BY <1>5, <1>6, <2>1, <2>2 DEF PaidSoFar
<1> QED  BY <1>9, <1>10, <1>11, <1>12 DEF OpenBooks

\* The end of a payout: what was in flight leaves what remains in the pool, and
\* the whole request has been paid.
LEMMA FinishPayoutBooks ==
  ASSUME IInv, OpenBooks, FinishPayout
  PROVE  OpenBooks'
<1>q. PICK q, sum, n :
        /\ q = frame.poolId /\ sum = frame.totalPaid
        /\ n = storage.prizePools[frame.poolId].remainingAmount - frame.totalPaid
  OBVIOUS
<1> DEFINE old == storage.prizePools[q]
           new == AfterPayout(old, n)
<1>1. /\ InExecutePayout /\ frame.callee = NoOne /\ frame.i > Len(FrameBatch)
      /\ frame' = NoFrame
  BY DEF FinishPayout
<1>2. /\ storage' \in Storage /\ n \in Nat
      /\ storage'.prizePools = [storage.prizePools EXCEPT ![q] = new]
      /\ storage'.payoutRequests = storage.payoutRequests /\ storage'.paid = storage.paid
      /\ storage'.balance = storage.balance /\ storage'.stray = storage.stray
      /\ storage'.eventWinners = storage.eventWinners
  <2>1. storage \in Storage /\ frame \in Frame
    BY IInvFacts
  <2> QED  BY <1>q, <2>1, FinishEffect DEF Holdings
<1>3. /\ q \in PoolIds /\ old.exists /\ sum \in Nat /\ FrameBatch \in Seq(Payment)
      /\ frame.i \in 1 .. Len(FrameBatch) + 1
      /\ InFlight(q) = sum + Current /\ old \in PrizePool
  BY <1>1, <1>q, FramePool, IInvFacts
<1>4. /\ new.remainingAmount = n /\ new.exists = old.exists
      /\ new.tokenAddress = old.tokenAddress /\ new.eventId = old.eventId
  <2> HIDE DEF old
  <2> QED  BY <1>2, <1>3, PayPool
<1> HIDE DEF new
<1>5. \A p \in PoolIds : storage'.prizePools[p] = IF p = q THEN new ELSE storage.prizePools[p]
  BY <1>2, IInvFacts
<1>6. /\ \A p \in PoolIds :
            /\ storage'.prizePools[p].exists = storage.prizePools[p].exists
            /\ storage'.prizePools[p].tokenAddress = storage.prizePools[p].tokenAddress
            /\ p # q => storage'.prizePools[p].remainingAmount = storage.prizePools[p].remainingAmount
      /\ \A p \in PoolIds : storage'.prizePools[p].eventId = storage.prizePools[p].eventId
      /\ storage'.prizePools[q].remainingAmount = n
  BY <1>3, <1>4, <1>5
<1>7. Current = 0 /\ InFlight(q) = sum
  <2>1. Current = 0
    BY <1>1 DEF Current
  <2> QED  BY <1>3, <2>1
<1>8. Total(FrameBatch) = sum
  <2>1. frame.i = Len(FrameBatch) + 1
    BY <1>1, <1>3
  <2>2. sum = PaidBefore(FrameBatch, frame.i)
    BY <1>1, <1>q DEF OpenBooks, PaidSoFar
  <2> QED  BY <1>3, <2>1, <2>2, PaymentAmounts, PaidBeforeEnd
<1>9. ~InExecutePayout'
  BY <1>1 DEF InExecutePayout, NoFrame
<1>10. OpenSolvency'
  <2> SUFFICES ASSUME NEW t \in Tokens
               PROVE  storage'.balance[t] + InFlightOf(t)' = storage'.stray[t] + HeldFor(storage', t)
    BY DEF OpenSolvency
  <2>1. PICK s0, n0 : s0 = storage /\ n0 = storage'
    OBVIOUS
  <2>2. /\ s0 \in Storage /\ n0 \in Storage /\ s0.prizePools[q].exists
        /\ \A p \in PoolIds :
              /\ n0.prizePools[p].exists = s0.prizePools[p].exists
              /\ n0.prizePools[p].tokenAddress = s0.prizePools[p].tokenAddress
              /\ p # q => n0.prizePools[p].remainingAmount = s0.prizePools[p].remainingAmount
        /\ n0.prizePools[q].remainingAmount = n
    BY <1>2, <1>3, <1>6, <2>1, IInvFacts
  <2>3. /\ t = s0.prizePools[q].tokenAddress =>
              HeldFor(n0, t) + s0.prizePools[q].remainingAmount =
                HeldFor(s0, t) + n0.prizePools[q].remainingAmount
        /\ t # s0.prizePools[q].tokenAddress => HeldFor(n0, t) = HeldFor(s0, t)
    BY ONLY <1>3, <2>2, HeldChange
  <2> DEFINE b == storage.balance[t]
             m == InFlightOf(t)
             k == storage.stray[t]
             h == HeldFor(storage, t)
             h1 == HeldFor(storage', t)
             r == old.remainingAmount
  <2>4. b \in Nat /\ m \in Nat /\ k \in Nat /\ h \in Nat /\ b + m = k + h
    BY TokenTerms
  <2>5. r \in Nat /\ n = r - sum /\ h1 \in Nat
    <3>1. h1 \in Nat
      BY <1>2, HeldType
    <3> QED  BY <1>3, <1>q, <3>1, PoolFields
  <2>6. /\ t = old.tokenAddress => h1 + r = h + n
        /\ t # old.tokenAddress => h1 = h
    BY ONLY <2>1, <2>2, <2>3
  <2>7. m = IF t = old.tokenAddress THEN sum ELSE 0
    BY <1>1, <1>7, <1>q DEF InFlightOf
  <2>8. storage'.balance[t] = b /\ storage'.stray[t] = k /\ InFlightOf(t)' = 0
    BY <1>2, <1>9 DEF InFlightOf
  <2>9. b + 0 = k + h1
    <3> HIDE DEF b, m, k, h, h1, r
    <3> QED  BY <1>3, <2>4, <2>5, <2>6, <2>7
  <2> QED  BY <2>8, <2>9
<1>11. OpenPaid'
  <2> SUFFICES ASSUME NEW p \in PoolIds
               PROVE  storage'.paid[p] + Due(p)' = ExecutedFrom(storage', p) + InFlight(p)'
    BY DEF OpenPaid
  <2>1. ExecutedFrom(storage', p) = ExecutedFrom(storage, p)
    BY <1>2, IInvFacts, ExecutedSame
  <2> DEFINE a == storage.paid[p]
             x == ExecutedFrom(storage, p)
             y == IF p = q THEN sum ELSE 0
  <2>2. Due(p) = y /\ InFlight(p) = y
    BY <1>1, <1>7, <1>8, <1>q DEF Due, InFlight
  <2>3. a \in Nat /\ x \in Nat /\ y \in Nat /\ a + y = x + y
    BY <2>2, PoolTerms
  <2>4. Due(p)' = 0 /\ InFlight(p)' = 0 /\ storage'.paid[p] = a /\ ExecutedFrom(storage', p) = x
    BY <1>2, <1>9, <2>1 DEF Due, InFlight
  <2> HIDE DEF a, x, y
  <2> QED  BY <2>3, <2>4
<1>12. OpenWinners'
  <2> SUFFICES ASSUME NEW e \in Events
               PROVE  Total(storage'.eventWinners[e]) + Unrecorded(e)' = PaidFor(storage', e)
    BY DEF OpenWinners
  <2>1. PaidFor(storage', e) = PaidFor(storage, e)
    <3>1. PICK s0, n0 : s0 = storage /\ n0 = storage'
      OBVIOUS
    <3>2. /\ s0 \in Storage /\ n0 \in Storage /\ n0.paid = s0.paid
          /\ \A p \in PoolIds :
                /\ n0.prizePools[p].exists = s0.prizePools[p].exists
                /\ n0.prizePools[p].eventId = s0.prizePools[p].eventId
      BY <1>2, <1>6, <3>1, IInvFacts
    <3> QED  BY ONLY <3>1, <3>2, PaidForSame
  <2>2. Unrecorded(e) = 0 /\ Unrecorded(e)' = 0
    BY <1>7, <1>9 DEF Unrecorded
  <2> QED  BY <1>2, <2>1, <2>2, EventTerms
<1>13. PaidSoFar'
  BY <1>9 DEF PaidSoFar
<1> QED  BY <1>10, <1>11, <1>12, <1>13 DEF OpenBooks

\* A refund or an emergency withdrawal: what remained leaves pool and balance
\* together.
LEMMA ReturnToHostBooks ==
  ASSUME IInv, OpenBooks, Idle, NEW fn \in {"executeEmergencyWithdraw", "refundPool"},
         NEW q \in PoolIds, ReturnToHost(fn, q), storage.prizePools[q].exists
  PROVE  OpenBooks'
<1> DEFINE old == storage.prizePools[q]
           new == Emptied(old)
           t == old.tokenAddress
           n == old.remainingAmount
<1>1. /\ storage' \in Storage
      /\ storage'.prizePools = [storage.prizePools EXCEPT ![q] = new]
      /\ storage'.payoutRequests = storage.payoutRequests /\ storage'.paid = storage.paid
      /\ storage'.stray = storage.stray /\ storage'.eventWinners = storage.eventWinners
      /\ t \in Tokens /\ n <= storage.balance[t]
      /\ storage'.balance = [storage.balance EXCEPT ![t] = @ - n]
  <2>1. storage \in Storage
    BY IInvFacts
  <2> QED  BY <2>1, ReturnEffect
<1>2. frame'.fn = fn
  BY DEF ReturnToHost, NoFrame
<1>3. ~InExecutePayout /\ ~InExecutePayout'
  BY <1>2 DEF Idle, InExecutePayout
<1>4. /\ new.remainingAmount = 0 /\ new.exists = old.exists
      /\ new.tokenAddress = t /\ new.eventId = old.eventId
  BY IInvFacts, EmptyPool
<1>5. n \in Nat
  BY IInvFacts, PoolFields
<1> HIDE DEF new
<1>6. \A p \in PoolIds : storage'.prizePools[p] = IF p = q THEN new ELSE storage.prizePools[p]
  BY <1>1, IInvFacts
<1>7. /\ \A p \in PoolIds :
            /\ storage'.prizePools[p].exists = storage.prizePools[p].exists
            /\ storage'.prizePools[p].tokenAddress = storage.prizePools[p].tokenAddress
            /\ p # q => storage'.prizePools[p].remainingAmount = storage.prizePools[p].remainingAmount
      /\ \A p \in PoolIds : storage'.prizePools[p].eventId = storage.prizePools[p].eventId
      /\ storage'.prizePools[q].remainingAmount = 0
  BY <1>4, <1>6
<1>8. FrameStays
  BY <1>3 DEF FrameStays, InFlightOf, Due, InFlight, Unrecorded, PaidSoFar
<1>9. OpenSolvency'
  <2> SUFFICES ASSUME NEW u \in Tokens
               PROVE  storage'.balance[u] + InFlightOf(u)' = storage'.stray[u] + HeldFor(storage', u)
    BY DEF OpenSolvency
  <2>1. PICK s0, n0 : s0 = storage /\ n0 = storage'
    OBVIOUS
  <2>2. /\ s0 \in Storage /\ n0 \in Storage /\ s0.prizePools[q].exists
        /\ \A p \in PoolIds :
              /\ n0.prizePools[p].exists = s0.prizePools[p].exists
              /\ n0.prizePools[p].tokenAddress = s0.prizePools[p].tokenAddress
              /\ p # q => n0.prizePools[p].remainingAmount = s0.prizePools[p].remainingAmount
        /\ n0.prizePools[q].remainingAmount = 0
    BY <1>1, <1>7, <2>1, IInvFacts
  <2>3. /\ u = s0.prizePools[q].tokenAddress =>
              HeldFor(n0, u) + s0.prizePools[q].remainingAmount =
                HeldFor(s0, u) + n0.prizePools[q].remainingAmount
        /\ u # s0.prizePools[q].tokenAddress => HeldFor(n0, u) = HeldFor(s0, u)
    BY ONLY <2>2, HeldChange
  <2> DEFINE b == storage.balance[u]
             m == InFlightOf(u)
             k == storage.stray[u]
             h == HeldFor(storage, u)
             h1 == HeldFor(storage', u)
  <2>4. b \in Nat /\ m \in Nat /\ k \in Nat /\ h \in Nat /\ b + m = k + h
    BY TokenTerms
  <2>5. h1 \in Nat
    BY <1>1, HeldType
  <2>6. /\ u = t => h1 + n = h + 0
        /\ u # t => h1 = h
    BY ONLY <2>1, <2>2, <2>3
  <2>7. m = 0 /\ InFlightOf(u)' = 0
    BY <1>3 DEF InFlightOf
  <2>8. storage'.balance[u] = (IF u = t THEN b - n ELSE b) /\ storage'.stray[u] = k
    <3>1. storage.balance \in [Tokens -> Nat]
      BY IInvFacts, StorageFields
    <3> HIDE DEF t, n
    <3> QED  BY <1>1, <3>1
  <2> HIDE DEF b, m, k, h, h1, n, t
  <2>9. storage'.balance[u] + 0 = storage'.stray[u] + h1
    BY <1>5, <2>4, <2>5, <2>6, <2>7, <2>8
  <2> QED  BY <2>7, <2>9 DEF h1
<1>10. OpenPaid'
  <2>1. \A r \in PayoutIds : storage'.payoutRequests[r] = storage.payoutRequests[r]
           \/ (~IsExecuted(storage.payoutRequests[r]) /\ ~IsExecuted(storage'.payoutRequests[r]))
    BY <1>1
  <2> QED  BY <1>1, <1>8, <2>1, QuietPaid
<1>11. OpenWinners'
  BY <1>1, <1>7, <1>8, QuietWinners
<1> QED  BY <1>8, <1>9, <1>10, <1>11 DEF OpenBooks, FrameStays

\* initiateEmergencyWithdraw and lockPool; pause, unpause, grantRole and
\* revokeRole; and what changes nothing of the contract.
LEMMA MarkBooks ==
  ASSUME IInv, OpenBooks, NEW sender \in Accounts, NEW q \in PoolIds,
         InitiateEmergencyWithdraw(sender, q) \/ LockPool(sender, q)
  PROVE  OpenBooks'
<1>0. storage \in Storage /\ now \in Nat
  BY IInvFacts
<1>1. PICK new \in PrizePool :
        /\ SameAccounts(new, storage.prizePools[q])
        /\ storage'.prizePools = [storage.prizePools EXCEPT ![q] = new]
  BY <1>0, InitiateEffect
<1>2. /\ storage' \in Storage /\ UNCHANGED Holdings(storage) /\ InOneStep
      /\ storage'.payoutRequests = storage.payoutRequests /\ storage'.paid = storage.paid
  <2>1. InOneStep
    BY DEF InitiateEmergencyWithdraw, LockPool
  <2> QED  BY <1>0, <2>1, InitiateEffect
<1>3. \A p \in PoolIds :
         /\ storage'.prizePools[p].exists = storage.prizePools[p].exists
         /\ storage'.prizePools[p].tokenAddress = storage.prizePools[p].tokenAddress
         /\ storage'.prizePools[p].eventId = storage.prizePools[p].eventId
         /\ storage'.prizePools[p].remainingAmount = storage.prizePools[p].remainingAmount
  <2>1. \A p \in PoolIds :
           storage'.prizePools[p] = IF p = q THEN new ELSE storage.prizePools[p]
    BY <1>1, IInvFacts
  <2> QED  BY <1>1, <2>1 DEF SameAccounts
<1>4. FrameStays
  BY <1>2, <1>3, OneStepStays
<1>5. \A r \in PayoutIds : storage'.payoutRequests[r] = storage.payoutRequests[r]
         \/ (~IsExecuted(storage.payoutRequests[r]) /\ ~IsExecuted(storage'.payoutRequests[r]))
  BY <1>2
<1> QED  BY <1>2, <1>3, <1>4, <1>5, QuietBooks

LEMMA StillBooks ==
  ASSUME IInv, OpenBooks, storage' \in Storage, frame' = frame,
         UNCHANGED Books(storage), UNCHANGED Holdings(storage)
  PROVE  OpenBooks'
<1>1. /\ storage'.prizePools = storage.prizePools /\ storage'.paid = storage.paid
      /\ storage'.payoutRequests = storage.payoutRequests
  BY DEF Books
<1>2. FrameStays
  BY <1>1 DEF FrameStays, InFlightOf, Due, InFlight, Current, Unrecorded, PaidSoFar,
              InExecutePayout, FrameBatch, OpenBooks
<1>3. \A r \in PayoutIds : storage'.payoutRequests[r] = storage.payoutRequests[r]
         \/ (~IsExecuted(storage.payoutRequests[r]) /\ ~IsExecuted(storage'.payoutRequests[r]))
  BY <1>1
<1> QED  BY <1>1, <1>2, <1>3, QuietBooks

LEMMA AdminBooks ==
  ASSUME IInv, OpenBooks, NEW sender \in Accounts,
         \/ \E paused \in BOOLEAN : SetPaused(sender, paused)
         \/ \E change \in RoleChanges :
               GrantRole(sender, change[1], change[2]) \/ RevokeRole(sender, change[1], change[2])
  PROVE  OpenBooks'
<1>1. \/ \E paused \in BOOLEAN : storage' = [storage EXCEPT !.paused = paused]
      \/ \E change \in RoleChanges :
            \/ storage' = [storage EXCEPT !.roles[change[1]] = @ \cup {change[2]}]
            \/ storage' = [storage EXCEPT !.roles[change[1]] = @ \ {change[2]}]
  BY DEF SetPaused, GrantRole, RevokeRole
<1>2. frame' = frame
  BY DEF SetPaused, GrantRole, RevokeRole, InOneStep
<1>3. storage \in Storage
  BY IInvFacts
<1>4. storage' \in Storage /\ UNCHANGED Books(storage) /\ UNCHANGED Holdings(storage)
  <2>1. ASSUME NEW paused \in BOOLEAN, storage' = [storage EXCEPT !.paused = paused]
        PROVE  storage' \in Storage /\ UNCHANGED Books(storage) /\ UNCHANGED Holdings(storage)
    BY <1>3, <2>1 DEF Storage, Books, Holdings
  <2>2. ASSUME NEW change \in RoleChanges,
               \/ storage' = [storage EXCEPT !.roles[change[1]] = @ \cup {change[2]}]
               \/ storage' = [storage EXCEPT !.roles[change[1]] = @ \ {change[2]}]
        PROVE  storage' \in Storage /\ UNCHANGED Books(storage) /\ UNCHANGED Holdings(storage)
    <3>1. change[1] \in Roles /\ change[2] \in Accounts
      OBVIOUS
    <3>2. PICK holders : /\ storage' = [storage EXCEPT !.roles[change[1]] = holders]
                         /\ holders \in SUBSET Accounts
      <4> DEFINE old == storage.roles[change[1]]
      <4>1. old \in SUBSET Accounts
        BY <1>3, <3>1, StorageFields
      <4>2. \/ storage' = [storage EXCEPT !.roles[change[1]] = old \cup {change[2]}]
            \/ storage' = [storage EXCEPT !.roles[change[1]] = old \ {change[2]}]
        BY <2>2
      <4> HIDE DEF old
      <4>3. old \cup {change[2]} \in SUBSET Accounts /\ old \ {change[2]} \in SUBSET Accounts
        BY <3>1, <4>1
      <4> QED  BY <4>2, <4>3
    <3> QED  BY <1>3, <3>1, <3>2 DEF Storage, Books, Holdings
  <2> QED  BY <1>1, <2>1, <2>2
<1> QED  BY <1>2, <1>4, StillBooks

LEMMA StandingBooks ==
  ASSUME IInv, OpenBooks, UNCHANGED <<storage, frame>>
  PROVE  OpenBooks'
<1>1. storage' \in Storage /\ UNCHANGED Books(storage) /\ UNCHANGED Holdings(storage)
  BY IInvFacts DEF Books, Holdings
<1> QED  BY <1>1, StillBooks

\* A revert puts the books of the last transaction back.
LEMMA RevertBooks ==
  ASSUME Solvency, PaidIsExecuted, WinnersAddUp, IInv, Revert
  PROVE  OpenBooks'
<1>1. storage' = committed /\ ~InExecutePayout' /\ committed \in Storage
  BY IInvFacts DEF Revert, InExecutePayout, NoFrame
<1>2. OpenSolvency'
  <2> SUFFICES ASSUME NEW t \in Tokens
               PROVE  storage'.balance[t] + InFlightOf(t)' = storage'.stray[t] + HeldFor(storage', t)
    BY DEF OpenSolvency
  <2>1. InFlightOf(t)' = 0 /\ committed.balance[t] = committed.stray[t] + HeldFor(committed, t)
    BY <1>1 DEF InFlightOf, Solvency
  <2>2. committed.balance[t] + 0 = committed.balance[t]
    BY <1>1, StorageFields
  <2> QED  BY <1>1, <2>1, <2>2
<1>3. OpenPaid'
  <2> SUFFICES ASSUME NEW p \in PoolIds
               PROVE  storage'.paid[p] + Due(p)' = ExecutedFrom(storage', p) + InFlight(p)'
    BY DEF OpenPaid
  <2> QED  BY <1>1 DEF Due, InFlight, PaidIsExecuted
<1>4. OpenWinners'
  <2> SUFFICES ASSUME NEW e \in Events
               PROVE  Total(storage'.eventWinners[e]) + Unrecorded(e)' = PaidFor(storage', e)
    BY DEF OpenWinners
  <2>1. Unrecorded(e)' = 0 /\ Total(committed.eventWinners[e]) = PaidFor(committed, e)
    BY <1>1 DEF Unrecorded, WinnersAddUp, PaidFor
  <2>2. PaidFor(committed, e) \in Nat
    BY <1>1, PaidForType
  <2>3. Total(committed.eventWinners[e]) + 0 = PaidFor(committed, e)
    BY <2>1, <2>2
  <2> QED  BY <1>1, <2>1, <2>3
<1>5. PaidSoFar'
  BY <1>1 DEF PaidSoFar
<1> QED  BY <1>2, <1>3, <1>4, <1>5 DEF OpenBooks

LEMMA FinishReturnBooks ==
  ASSUME IInv, OpenBooks, FinishReturnToHost
  PROVE  OpenBooks'
<1>1. /\ ~InExecutePayout /\ ~InExecutePayout' /\ storage' = storage
  BY DEF FinishReturnToHost, InExecutePayout, NoFrame
<1>2. FrameStays
  BY <1>1 DEF FrameStays, InFlightOf, Due, InFlight, Unrecorded, PaidSoFar
<1>3. \A r \in PayoutIds : storage'.payoutRequests[r] = storage.payoutRequests[r]
         \/ (~IsExecuted(storage.payoutRequests[r]) /\ ~IsExecuted(storage'.payoutRequests[r]))
  BY <1>1
<1> QED  BY <1>1, <1>2, <1>3, IInvFacts, QuietBooks DEF Holdings

LEMMA WithdrawBooks ==
  ASSUME IInv, OpenBooks, NEW sender \in Accounts, NEW q \in PoolIds,
         ExecuteEmergencyWithdraw(sender, q) \/ RefundPool(sender, q)
  PROVE  OpenBooks'
<1>1. Idle
  BY DEF ExecuteEmergencyWithdraw, RefundPool, nonReentrant
<1>2. PICK fn \in {"executeEmergencyWithdraw", "refundPool"} : ReturnToHost(fn, q)
  BY DEF ExecuteEmergencyWithdraw, RefundPool
<1>3. storage.prizePools[q].exists
  BY IInvFacts DEF ExecuteEmergencyWithdraw, RefundPool, Shape
<1> QED  BY <1>1, <1>2, <1>3, ReturnToHostBooks

LEMMA StepBooks ==
  ASSUME IInv, Booked, [Next]_vars
  PROVE  OpenBooks'
<1>0. OpenBooks
  BY DEF Booked
<1>1. CASE Funding
  BY <1>0, <1>1, CreateBooks, FundBooks, ReceiveBooks DEF Funding
<1>2. CASE Requests
  BY <1>0, <1>2, RequestPayoutBooks, DecisionBooks, ExecuteBooks DEF Requests
<1>3. CASE Progress
  <2>1. CASE Revert
    BY <2>1, RevertBooks DEF Booked
  <2>2. CASE FinishReturnToHost
    BY <1>0, <2>2, FinishReturnBooks
  <2> QED  BY <1>0, <1>3, <2>1, <2>2, TransferBooks, ReturnsBooks, FinishPayoutBooks DEF Progress
<1>4. CASE Withdrawals
  BY <1>0, <1>4, MarkBooks, WithdrawBooks DEF Withdrawals
<1>5. CASE Administration
  BY <1>0, <1>5, MarkBooks, AdminBooks DEF Administration
<1>6. CASE Tick
  BY <1>0, <1>6, StandingBooks DEF Tick
<1>7. CASE UNCHANGED vars
  BY <1>0, <1>7, StandingBooks DEF vars
<1> QED  BY <1>1, <1>2, <1>3, <1>4, <1>5, <1>6, <1>7 DEF Next

\* Between transactions nothing is in flight, due or unrecorded.
LEMMA BooksClose ==
  ASSUME IInv, OpenBooks, Idle
  PROVE  /\ \A t \in Tokens : storage.balance[t] = storage.stray[t] + HeldFor(storage, t)
         /\ \A p \in PoolIds : storage.paid[p] = ExecutedFrom(storage, p)
         /\ \A e \in Events : Total(storage.eventWinners[e]) = PaidFor(storage, e)
<1>1. ~InExecutePayout
  BY DEF Idle, InExecutePayout
<1>2. ASSUME NEW t \in Tokens
      PROVE  storage.balance[t] = storage.stray[t] + HeldFor(storage, t)
  <2>1. InFlightOf(t) = 0
    BY <1>1 DEF InFlightOf
  <2> QED  BY <2>1, TokenTerms
<1>3. ASSUME NEW p \in PoolIds
      PROVE  storage.paid[p] = ExecutedFrom(storage, p)
  <2>1. Due(p) = 0 /\ InFlight(p) = 0
    BY <1>1 DEF Due, InFlight
  <2> QED  BY <2>1, PoolTerms
<1>4. ASSUME NEW e \in Events
      PROVE  Total(storage.eventWinners[e]) = PaidFor(storage, e)
  <2>1. Unrecorded(e) = 0
    BY <1>1 DEF Unrecorded
  <2> QED  BY <2>1, EventTerms
<1> QED  BY <1>2, <1>3, <1>4

LEMMA NextBooked ==
  ASSUME IInv, Booked, [Next]_vars
  PROVE  Booked'
<1>1. IInv' /\ OpenBooks' /\ Commits
  BY NextIInv, StepBooks, StepCommits
<1>2. CASE committed' = committed
  BY <1>1, <1>2 DEF Booked, Solvency, PaidIsExecuted, WinnersAddUp
<1>3. CASE committed' = storage' /\ Idle'
  <2>1. /\ \A t \in Tokens : storage'.balance[t] = storage'.stray[t] + HeldFor(storage', t)
        /\ \A p \in PoolIds : storage'.paid[p] = ExecutedFrom(storage', p)
        /\ \A e \in Events : Total(storage'.eventWinners[e]) = PaidFor(storage', e)
    <3>1. (IInv /\ OpenBooks /\ Idle)' =>
            (/\ \A t \in Tokens : storage.balance[t] = storage.stray[t] + HeldFor(storage, t)
             /\ \A p \in PoolIds : storage.paid[p] = ExecutedFrom(storage, p)
             /\ \A e \in Events : Total(storage.eventWinners[e]) = PaidFor(storage, e))'
      BY BooksClose, PTL
    <3> QED  BY <1>1, <1>3, <3>1
  <2>2. Solvency' /\ PaidIsExecuted' /\ WinnersAddUp'
    BY <1>3, <2>1 DEF Solvency, PaidIsExecuted, WinnersAddUp, PaidFor
  <2> QED  BY <1>1, <2>2 DEF Booked
<1> QED  BY <1>1, <1>2, <1>3 DEF Commits

LEMMA InitBooked == Init => Booked
<1> SUFFICES ASSUME Init PROVE Booked
  OBVIOUS
<1>1. /\ committed = storage /\ frame = NoFrame /\ storage \in Storage
      /\ storage.prizePools = [p \in PoolIds |-> ZeroPool]
      /\ storage.payoutRequests = [r \in PayoutIds |-> ZeroRequest]
      /\ storage.eventWinners = [e \in Events |-> <<>>]
      /\ storage.balance = [t \in Tokens |-> 0] /\ storage.stray = [t \in Tokens |-> 0]
      /\ storage.paid = [p \in PoolIds |-> 0]
  BY InitIInv, IInvFacts DEF Init
<1>2. \A t \in Tokens : storage.balance[t] = storage.stray[t] + HeldFor(storage, t)
  <2> SUFFICES ASSUME NEW t \in Tokens PROVE HeldFor(storage, t) = 0
    BY <1>1
  <2>1. PoolsHolding(storage, t) = {}
    BY <1>1 DEF PoolsHolding, ZeroPool
  <2> QED  BY <2>1, SumEmpty DEF HeldFor
<1>3. \A p \in PoolIds : storage.paid[p] = ExecutedFrom(storage, p)
  <2> SUFFICES ASSUME NEW p \in PoolIds PROVE ExecutedFrom(storage, p) = 0
    BY <1>1
  <2>1. Executed(storage, p) = {}
    BY <1>1 DEF Executed, PoolPayoutRequests, ZeroRequest
  <2> QED  BY <2>1, SumEmpty DEF ExecutedFrom, Executed
<1>4. \A e \in Events : Total(storage.eventWinners[e]) = PaidFor(storage, e)
  <2> SUFFICES ASSUME NEW e \in Events PROVE PaidFor(storage, e) = 0
    BY <1>1, TotalEmpty
  <2>1. PoolsOf(storage, e) = {}
    BY <1>1 DEF PoolsOf, ZeroPool
  <2> QED  BY <2>1, SumEmpty DEF PaidFor
<1>5. ~InExecutePayout
  BY <1>1 DEF InExecutePayout, NoFrame
<1>6. OpenSolvency
  <2> SUFFICES ASSUME NEW t \in Tokens
               PROVE  storage.balance[t] + InFlightOf(t) = storage.stray[t] + HeldFor(storage, t)
    BY DEF OpenSolvency
  <2> QED  BY <1>1, <1>2, <1>5 DEF InFlightOf
<1>7. OpenPaid
  <2> SUFFICES ASSUME NEW p \in PoolIds
               PROVE  storage.paid[p] + Due(p) = ExecutedFrom(storage, p) + InFlight(p)
    BY DEF OpenPaid
  <2> QED  BY <1>1, <1>3, <1>5 DEF Due, InFlight
<1>8. OpenWinners
  <2> SUFFICES ASSUME NEW e \in Events
               PROVE  Total(storage.eventWinners[e]) + Unrecorded(e) = PaidFor(storage, e)
    BY DEF OpenWinners
  <2>1. Total(storage.eventWinners[e]) = 0
    BY <1>1, TotalEmpty
  <2> QED  BY <1>4, <1>5, <2>1 DEF Unrecorded
<1>9. PaidSoFar
  BY <1>5 DEF PaidSoFar
<1>10. Solvency /\ PaidIsExecuted /\ WinnersAddUp
  BY <1>1, <1>2, <1>3, <1>4 DEF Solvency, PaidIsExecuted, WinnersAddUp, PaidFor
<1> QED  BY <1>6, <1>7, <1>8, <1>9, <1>10 DEF Booked, OpenBooks

-----------------------------------------------------------------------------
(* The theorems.                                                             *)

LEMMA BooksInvariance == Spec => [](IInv /\ Booked)
<1>1. Init => IInv /\ Booked
  BY InitIInv, InitBooked
<1>2. IInv /\ Booked /\ [Next]_vars => (IInv /\ Booked)'
  BY NextIInv, NextBooked
<1> QED  BY <1>1, <1>2, PTL DEF Spec

\* Whatever pools share a token, the contract holds exactly what remains in them
\* and what it received for none: no sequence of deposits, payouts, refunds,
\* withdrawals, callbacks and reverts lets one pool spend another's money.
THEOREM AlwaysSolvent == Spec => []Solvency
<1>1. Booked => Solvency
  BY DEF Booked
<1> QED  BY <1>1, BooksInvariance, PTL

\* What a pool has paid is the sum of its executed requests: each was paid in
\* full and once, and nothing was paid for any other request.
THEOREM PaidInFull == Spec => []PaidIsExecuted
<1>1. Booked => PaidIsExecuted
  BY DEF Booked
<1> QED  BY <1>1, BooksInvariance, PTL

\* The winners listed for an event add up to what its pools have paid.
THEOREM WinnersComplete == Spec => []WinnersAddUp
<1>1. Booked => WinnersAddUp
  BY DEF Booked
<1> QED  BY <1>1, BooksInvariance, PTL

-----------------------------------------------------------------------------
(* The escrow implements PrizeCustody.  Tx relates committed to storage in   *)
(* the middle of a transaction: the pool and the request of the running      *)
(* frame have gone as far as the frame says, a call made by a recipient may  *)
(* have opened pools and made, signed or rejected requests, and everything   *)
(* else is as it was.                                                        *)

Sign(s, p) == s.prizePools[p].requiredSignatures
SameVault(c, s, p) ==
    /\ Sign(s, p) = Sign(c, p) /\ s.prizePools[p].totalAmount = c.prizePools[p].totalAmount
    /\ s.returned[p] = c.returned[p] /\ (Terminal(s, p) <=> Terminal(c, p))
    /\ s.paid[p] = c.paid[p]
Unused(s, p) ==
    /\ Sign(s, p) = 0 /\ s.prizePools[p].totalAmount = 0 /\ s.paid[p] = 0 /\ s.returned[p] = 0
    /\ ~Terminal(s, p)
Opened(s, p) ==
    Sign(s, p) >= MIN_REQUIRED_SIGNATURES /\ s.paid[p] = 0 /\ s.returned[p] = 0 /\ ~Terminal(s, p)
Settles(c, s, p) == SameVault(c, s, p) \/ (Unused(c, p) /\ Opened(s, p))

\* The pool has paid m, and nothing else of it has changed.
Pays(c, s, p, m) ==
    /\ Sign(s, p) = Sign(c, p) /\ s.prizePools[p].totalAmount = c.prizePools[p].totalAmount
    /\ s.returned[p] = c.returned[p] /\ s.paid[p] = c.paid[p] + m
OpenVault(s, p) == Sign(s, p) > 0 /\ ~Terminal(s, p)

\* All that was left has gone back to the host.
Empties(c, s, p) ==
    /\ OpenVault(c, p) /\ Terminal(s, p)
    /\ Sign(s, p) = Sign(c, p) /\ s.prizePools[p].totalAmount = c.prizePools[p].totalAmount
    /\ s.paid[p] = c.paid[p]
    /\ s.returned[p] = c.prizePools[p].totalAmount - c.paid[p]

\* A request keeps what it asks for, and loses no signer.
Keeps(a, b) == b.poolId = a.poolId /\ b.batch = a.batch /\ a.approvals \subseteq b.approvals
Lives(a, b) ==
    \/ b = a
    \/ /\ a.exists => a.status = "Pending" /\ Keeps(a, b)
       /\ b.exists /\ b.status \in {"Pending", "Rejected"}
Runs(a, b, quorum) ==
    /\ a.exists /\ a.status = "Pending" /\ Keeps(a, b)
    /\ b.exists /\ b.status = "Executed" /\ Cardinality(b.approvals) >= quorum

\* A pool that was never created requires no signature, and only an ended one has
\* returned anything.
Plain(s) ==
    \A p \in PoolIds : /\ ~s.prizePools[p].exists => Sign(s, p) = 0
                       /\ s.returned[p] # 0 => Terminal(s, p)

Running(r) == InExecutePayout /\ r = frame.payoutId
Tx ==
    /\ \A p \in PoolIds : Idle \/ p # frame.poolId => Settles(committed, storage, p)
    /\ InExecutePayout => /\ Pays(committed, storage, frame.poolId, InFlight(frame.poolId))
                          /\ Terminal(storage, frame.poolId) <=> Terminal(committed, frame.poolId)
    /\ ~Idle /\ ~InExecutePayout => Empties(committed, storage, frame.poolId)
    /\ \A r \in PayoutIds :
         LET a == committed.payoutRequests[r]
         IN /\ Running(r) => Runs(a, storage.payoutRequests[r], Sign(committed, a.poolId))
            /\ ~Running(r) => Lives(a, storage.payoutRequests[r])

Custodial == Tx /\ Plain(storage) /\ Plain(committed)

\* What a transaction may do to one pool and to one request.
Deposits(p) ==
    /\ OpenVault(committed, p) /\ ~Terminal(committed', p)
    /\ Sign(committed', p) = Sign(committed, p) /\ committed'.paid[p] = committed.paid[p]
    /\ committed'.returned[p] = committed.returned[p]
    /\ committed'.prizePools[p].totalAmount > committed.prizePools[p].totalAmount
ReleaseOf(r) ==
    LET a == committed.payoutRequests[r]
    IN /\ Runs(a, committed'.payoutRequests[r], Sign(committed, a.poolId))
       /\ OpenVault(committed, a.poolId)
       /\ Pays(committed, committed', a.poolId, Total(a.batch))
       /\ committed'.paid[a.poolId] <= committed.prizePools[a.poolId].totalAmount
       /\ Terminal(committed', a.poolId) <=>
            committed'.paid[a.poolId] = committed.prizePools[a.poolId].totalAmount
Releases(p) == \E r \in PayoutIds : committed.payoutRequests[r].poolId = p /\ ReleaseOf(r)
VaultGoes(p) ==
    Settles(committed, committed', p) \/ Deposits(p) \/ Releases(p) \/ Empties(committed, committed', p)
RequestGoes(r) ==
    Lives(committed.payoutRequests[r], committed'.payoutRequests[r]) \/ ReleaseOf(r)
Transacts ==
    \/ UNCHANGED committed
    \/ /\ \A p \in PoolIds : VaultGoes(p)
       /\ \A r \in PayoutIds : RequestGoes(r)

LEMMA RequestOfType ==
  ASSUME NEW s \in Storage, NEW r \in PayoutIds
  PROVE  RequestOf(s, r) \in Custody!Request
<1>1. s.payoutRequests[r] \in PayoutRequest
  BY StorageFields
<1>2. Total(s.payoutRequests[r].batch) \in Nat
  BY <1>1, RequestFields, PaymentAmounts, TotalType
<1> QED  BY <1>1, <1>2, RequestFields DEF RequestOf, RequestState, Custody!Request

LEMMA VaultFields ==
  ASSUME NEW s \in Storage, NEW p \in PoolIds, NEW v, v = VaultOf(s, p)
  PROVE  /\ v = [quorum |-> v.quorum, deposited |-> v.deposited, paid |-> v.paid,
                 returned |-> v.returned, closed |-> v.closed]
         /\ v.quorum = Sign(s, p) /\ v.deposited = s.prizePools[p].totalAmount
         /\ v.paid = s.paid[p] /\ v.returned = s.returned[p]
         /\ v.closed \in BOOLEAN
         /\ v.closed = TRUE <=> Terminal(s, p)
<1>1. /\ v.quorum = Sign(s, p) /\ v.deposited = s.prizePools[p].totalAmount
      /\ v.paid = s.paid[p] /\ v.returned = s.returned[p]
  BY DEF VaultOf, Sign
<1>2. v.closed = (s.prizePools[p].status \in {"Completed", "Cancelled"})
  BY DEF VaultOf, Terminal
<1>3. v = [quorum |-> v.quorum, deposited |-> v.deposited, paid |-> v.paid,
           returned |-> v.returned, closed |-> v.closed]
  BY DEF VaultOf
<1>4. v.closed \in BOOLEAN /\ (v.closed = TRUE <=> Terminal(s, p))
  <2>1. CASE s.prizePools[p].status \in {"Completed", "Cancelled"}
    <3>1. v.closed = TRUE
      BY ONLY <1>2, <2>1
    <3>2. Terminal(s, p)
      BY <2>1 DEF Terminal
    <3> QED  BY <3>1, <3>2
  <2>2. CASE s.prizePools[p].status \notin {"Completed", "Cancelled"}
    <3>3. (s.prizePools[p].status \in {"Completed", "Cancelled"}) = FALSE
      BY ONLY <2>2
    <3>1. v.closed = FALSE
      BY ONLY <1>2, <3>3, Zenon
    <3>2. ~Terminal(s, p)
      BY <2>2 DEF Terminal
    <3> QED  BY <3>1, <3>2
  <2> QED  BY <2>1, <2>2
<1> QED  BY <1>1, <1>3, <1>4

LEMMA SameCardinality == \A S : Custody!Cardinality(S) = Cardinality(S)
BY DEF Custody!Cardinality, Cardinality

LEMMA VaultSteps ==
  ASSUME IInv, IInv', NEW p \in PoolIds, VaultGoes(p)
  PROVE  AbstractVaults'[p] = AbstractVaults[p] \/ Custody!VaultStep(p)
<1>1. AbstractVaults[p] = VaultOf(committed, p) /\ AbstractVaults'[p] = VaultOf(committed', p)
  BY DEF AbstractVaults, VaultOf
<1>2. PICK a, b, s, n : /\ a = AbstractVaults[p] /\ b = AbstractVaults'[p]
                        /\ s = committed /\ n = committed'
  OBVIOUS
<1>3. s \in Storage /\ n \in Storage
  BY <1>2, IInvFacts DEF IInv, TypeOK
<1>4. a = VaultOf(s, p) /\ b = VaultOf(n, p)
  BY <1>1, <1>2
<1>5. /\ a = [quorum |-> a.quorum, deposited |-> a.deposited, paid |-> a.paid,
              returned |-> a.returned, closed |-> a.closed]
      /\ a.quorum = Sign(s, p) /\ a.deposited = s.prizePools[p].totalAmount
      /\ a.paid = s.paid[p] /\ a.returned = s.returned[p]
      /\ a.closed \in BOOLEAN /\ (a.closed = TRUE <=> Terminal(s, p))
  BY ONLY <1>3, <1>4, VaultFields
<1>6. /\ b = [quorum |-> b.quorum, deposited |-> b.deposited, paid |-> b.paid,
              returned |-> b.returned, closed |-> b.closed]
      /\ b.quorum = Sign(n, p) /\ b.deposited = n.prizePools[p].totalAmount
      /\ b.paid = n.paid[p] /\ b.returned = n.returned[p]
      /\ b.closed \in BOOLEAN /\ (b.closed = TRUE <=> Terminal(n, p))
  BY ONLY <1>3, <1>4, VaultFields
<1>7. CASE SameVault(committed, committed', p)
  <2>1. SameVault(s, n, p)
    BY <1>2, <1>7
  <2>2. a = b
    BY ONLY <2>1, <1>5, <1>6 DEF SameVault
  <2> QED  BY <1>2, <2>2
<1>8. CASE Unused(committed, p) /\ Opened(committed', p)
  <2>1. Unused(s, p) /\ Opened(n, p)
    BY <1>2, <1>8
  <2>2. /\ a = [quorum |-> 0, deposited |-> 0, paid |-> 0, returned |-> 0, closed |-> FALSE]
        /\ b = [quorum |-> b.quorum, deposited |-> b.deposited, paid |-> 0, returned |-> 0,
                closed |-> FALSE]
        /\ b.quorum >= MIN_REQUIRED_SIGNATURES
    BY ONLY <2>1, <1>5, <1>6 DEF Unused, Opened
  <2>3. a = Custody!NoVault
    BY ONLY <2>2 DEF Custody!NoVault
  <2>5. b = [a EXCEPT !.quorum = b.quorum, !.deposited = b.deposited]
    <3>1. /\ a.paid = 0 /\ a.returned = 0 /\ a.closed = FALSE
          /\ b.paid = 0 /\ b.returned = 0 /\ b.closed = FALSE
      BY ONLY <2>2
    <3> QED  BY ONLY <3>1, <1>5, <1>6
  <2>4. Custody!Open(p)
    BY <1>2, <2>2, <2>3, <2>5 DEF Custody!Open
  <2> QED  BY <2>4 DEF Custody!VaultStep
<1>9. CASE Deposits(p)
  <2>1. /\ OpenVault(s, p) /\ ~Terminal(n, p) /\ Sign(n, p) = Sign(s, p)
        /\ n.paid[p] = s.paid[p] /\ n.returned[p] = s.returned[p]
        /\ n.prizePools[p].totalAmount > s.prizePools[p].totalAmount
    BY <1>2, <1>9 DEF Deposits
  <2>2. /\ a.quorum > 0 /\ a.closed = FALSE /\ b.deposited > a.deposited
        /\ b = [a EXCEPT !.deposited = b.deposited]
    BY ONLY <2>1, <1>5, <1>6 DEF OpenVault
  <2>3. Custody!IsOpen(p)
    BY <1>2, <2>2 DEF Custody!IsOpen
  <2>4. Custody!Deposit(p)
    BY <1>2, <2>2, <2>3 DEF Custody!Deposit
  <2> QED  BY <2>4 DEF Custody!VaultStep
<1>10. CASE Releases(p)
  <2>1. PICK r \in PayoutIds : committed.payoutRequests[r].poolId = p /\ ReleaseOf(r)
    BY <1>10 DEF Releases
  <2>2. /\ AbstractRequests[r] = RequestOf(committed, r)
        /\ AbstractRequests'[r] = RequestOf(committed', r)
    BY DEF AbstractRequests, RequestOf
  <2>3. /\ RequestOf(committed, r).state = "pending" /\ RequestOf(committed', r).state = "executed"
        /\ RequestOf(committed, r).vault = p
        /\ RequestOf(committed, r).amount = Total(committed.payoutRequests[r].batch)
    BY <2>1 DEF ReleaseOf, Runs, RequestOf, RequestState
  <2>4. PICK m : m = Total(committed.payoutRequests[r].batch)
    OBVIOUS
  <2>5. /\ OpenVault(s, p) /\ Pays(s, n, p, m)
        /\ n.paid[p] <= s.prizePools[p].totalAmount
        /\ Terminal(n, p) <=> n.paid[p] = s.prizePools[p].totalAmount
    BY <1>2, <2>1, <2>4 DEF ReleaseOf
  <2>6. /\ a.quorum > 0 /\ a.closed = FALSE /\ a.paid + m <= a.deposited
        /\ b.quorum = a.quorum /\ b.deposited = a.deposited /\ b.returned = a.returned
        /\ b.paid = a.paid + m /\ b.closed = (a.paid + m = a.deposited)
    BY ONLY <2>5, <1>5, <1>6 DEF OpenVault, Pays
  <2>7. b = [a EXCEPT !.paid = a.paid + m, !.closed = (a.paid + m = a.deposited)]
    BY ONLY <2>6, <1>5, <1>6
  <2>8. Custody!IsOpen(p) /\ Custody!Executes(r)
    BY <1>2, <2>2, <2>3, <2>6 DEF Custody!IsOpen, Custody!Executes
  <2>9. AbstractRequests[r].vault = p /\ AbstractRequests[r].amount = m
    BY <2>2, <2>3, <2>4
  <2>10. Custody!Release(p)
    BY <1>2, <2>6, <2>7, <2>8, <2>9 DEF Custody!Release
  <2> QED  BY <2>10 DEF Custody!VaultStep
<1>11. CASE Empties(committed, committed', p)
  <2>1. Empties(s, n, p)
    BY <1>2, <1>11
  <2>5. /\ a.quorum > 0 /\ a.closed = FALSE /\ b.closed = TRUE
        /\ b.quorum = a.quorum /\ b.deposited = a.deposited /\ b.paid = a.paid
        /\ b.returned = a.deposited - a.paid
    BY ONLY <2>1, <1>5, <1>6 DEF Empties, OpenVault
  <2>2. /\ a.quorum > 0 /\ a.closed = FALSE
        /\ b = [a EXCEPT !.returned = a.deposited - a.paid, !.closed = TRUE]
    BY ONLY <2>5, <1>5, <1>6
  <2>3. Custody!IsOpen(p)
    BY <1>2, <2>2 DEF Custody!IsOpen
  <2>4. Custody!Return(p)
    BY <1>2, <2>2, <2>3 DEF Custody!Return
  <2> QED  BY <2>4 DEF Custody!VaultStep
<1> QED  BY <1>7, <1>8, <1>9, <1>10, <1>11 DEF VaultGoes, Settles

LEMMA RequestSteps ==
  ASSUME IInv, IInv', NEW r \in PayoutIds, RequestGoes(r)
  PROVE  AbstractRequests'[r] = AbstractRequests[r] \/ Custody!RequestStep(r)
<1> DEFINE a == committed.payoutRequests[r]
           b == committed'.payoutRequests[r]
<1>1. /\ AbstractRequests[r] = RequestOf(committed, r)
      /\ AbstractRequests'[r] = RequestOf(committed', r)
  BY DEF AbstractRequests, RequestOf
<1>2. RequestOf(committed', r) \in Custody!Request /\ a.poolId \in PoolIds
  <2>1. committed \in Storage /\ committed' \in Storage
    BY IInvFacts DEF IInv, TypeOK
  <2> QED  BY <2>1, RequestOfType, StorageFields, RequestFields
<1>3. CASE b = a
  BY <1>1, <1>3 DEF RequestOf
<1>4. CASE b # a /\ Lives(a, b)
  <2>1. /\ RequestOf(committed, r).state \in {"none", "pending"}
        /\ RequestOf(committed', r).state \in {"pending", "rejected"}
    BY <1>4 DEF Lives, RequestOf, RequestState
  <2>2. RequestOf(committed, r).state = "pending" =>
          /\ RequestOf(committed', r).vault = RequestOf(committed, r).vault
          /\ RequestOf(committed', r).amount = RequestOf(committed, r).amount
          /\ RequestOf(committed, r).signers \subseteq RequestOf(committed', r).signers
    BY <1>4 DEF Lives, Keeps, RequestOf, RequestState
  <2> QED  BY <1>1, <1>2, <2>1, <2>2 DEF Custody!RequestStep
<1>5. CASE ReleaseOf(r)
  <2>1. /\ RequestOf(committed, r).state = "pending" /\ RequestOf(committed', r).state = "executed"
        /\ RequestOf(committed, r).vault = a.poolId
        /\ RequestOf(committed', r).vault = RequestOf(committed, r).vault
        /\ RequestOf(committed, r).amount = Total(a.batch)
        /\ RequestOf(committed', r).amount = RequestOf(committed, r).amount
        /\ RequestOf(committed, r).signers \subseteq RequestOf(committed', r).signers
        /\ Cardinality(RequestOf(committed', r).signers) >= Sign(committed, a.poolId)
    BY <1>5 DEF ReleaseOf, Runs, Keeps, RequestOf, RequestState
  <2>2. /\ AbstractVaults[a.poolId] = VaultOf(committed, a.poolId)
        /\ AbstractVaults'[a.poolId] = VaultOf(committed', a.poolId)
    BY <1>2 DEF AbstractVaults, VaultOf
  <2>3. /\ AbstractVaults[a.poolId].quorum = Sign(committed, a.poolId)
        /\ AbstractVaults'[a.poolId].paid = AbstractVaults[a.poolId].paid + Total(a.batch)
    BY <1>5, <2>2 DEF ReleaseOf, Pays, VaultOf, Sign
  <2>4. PICK o, n : o = AbstractRequests[r] /\ n = AbstractRequests'[r]
    OBVIOUS
  <2>5. /\ n \in Custody!Request /\ o.state = "pending" /\ n.state = "executed"
        /\ o.vault = a.poolId /\ n.vault = o.vault /\ n.amount = o.amount
        /\ o.signers \subseteq n.signers /\ o.amount = Total(a.batch)
        /\ Cardinality(n.signers) >= Sign(committed, a.poolId)
    BY <1>1, <1>2, <2>1, <2>4
  <2>6. /\ Cardinality(n.signers) >= AbstractVaults[o.vault].quorum
        /\ AbstractVaults'[o.vault].paid = AbstractVaults[o.vault].paid + o.amount
    BY <2>3, <2>5
  <2>7. <<o.state, n.state>> \in {"none", "pending"} \X {"pending", "executed", "rejected"}
    BY <2>5
  <2>8. <<n.vault, n.amount>> = <<o.vault, o.amount>>
    BY <2>5
  <2>9. Custody!RequestStep(r)
    BY ONLY <2>4, <2>5, <2>6, <2>7, <2>8, SameCardinality DEF Custody!RequestStep
  <2> QED  BY <2>9
<1> QED  BY <1>3, <1>4, <1>5 DEF RequestGoes

-----------------------------------------------------------------------------
(* How steps follow one another within a transaction.                        *)

LEMMA SameAgain ==
  ASSUME NEW c, NEW s, NEW n, NEW p, SameVault(s, n, p)
  PROVE  /\ SameVault(c, s, p) => SameVault(c, n, p)
         /\ Unused(n, p) => Unused(s, p)
         /\ Opened(s, p) => Opened(n, p)
         /\ Empties(c, s, p) => Empties(c, n, p)
         /\ \A m : Pays(c, s, p, m) => Pays(c, n, p, m)
BY DEF SameVault, Unused, Opened, Empties, Pays

LEMMA UnusedFirst ==
  ASSUME NEW c, NEW s, NEW p, SameVault(c, s, p), Unused(s, p)
  PROVE  Unused(c, p)
BY DEF SameVault, Unused

LEMMA SettlesOn ==
  ASSUME NEW c, NEW s, NEW n, NEW p, Settles(c, s, p), Settles(s, n, p)
  PROVE  Settles(c, n, p)
<1>1. CASE SameVault(s, n, p)
  BY <1>1, SameAgain DEF Settles
<1>2. CASE Unused(s, p) /\ Opened(n, p)
  <2>1. ~Opened(s, p)
    BY <1>2 DEF Unused, Opened
  <2> QED  BY <1>2, <2>1, UnusedFirst DEF Settles
<1> QED  BY <1>1, <1>2 DEF Settles

LEMMA SettlesStill ==
  ASSUME NEW c, NEW s, NEW p, s.prizePools[p] = c.prizePools[p],
         s.paid[p] = c.paid[p], s.returned[p] = c.returned[p]
  PROVE  SameVault(c, s, p) /\ Settles(c, s, p)
BY DEF Settles, SameVault, Sign, Terminal

LEMMA LivesOn ==
  ASSUME NEW a, NEW b, NEW c, Lives(a, b), Lives(b, c)
  PROVE  Lives(a, c)
BY DEF Lives, Keeps

LEMMA RunsOn ==
  ASSUME NEW a, NEW b, NEW c, NEW quorum, Runs(a, b, quorum), Lives(b, c)
  PROVE  c = b
BY DEF Lives, Runs

\* Between transactions there is nothing to relate.
LEMMA NothingRuns ==
  ASSUME Idle', storage' = committed'
  PROVE  Tx'
<1>1. ~InExecutePayout'
  BY DEF Idle, InExecutePayout
<1>2. \A p \in PoolIds : Settles(committed', storage', p)
  BY SettlesStill
<1>3. \A r \in PayoutIds : Lives(committed'.payoutRequests[r], storage'.payoutRequests[r])
  BY DEF Lives
<1> QED  BY <1>1, <1>2, <1>3 DEF Tx, Running

LEMMA PlainStays ==
  ASSUME Plain(storage), storage'.prizePools = storage.prizePools,
         storage'.returned = storage.returned
  PROVE  Plain(storage')
BY DEF Plain, Sign, Terminal

\* The pool of the running frame was created and is not unused.
LEMMA FramePoolSigned ==
  ASSUME IInv, Tx, ~Idle
  PROVE  Sign(storage, frame.poolId) > 0 /\ frame.poolId \in PoolIds
<1>1. frame.poolId \in PoolIds
  BY IInvFacts DEF Frame
<1>2. CASE InExecutePayout
  <2>1. Sign(storage, frame.poolId) \in Nat
    BY <1>1, IInvFacts, StorageFields, PoolFields DEF Sign
  <2>2. Sign(storage, frame.poolId) >= MIN_REQUIRED_SIGNATURES
    BY <1>1, <1>2, IInvFacts, FramePool DEF Signed, Sign
  <2> QED  BY <1>1, <2>1, <2>2
<1>3. CASE ~InExecutePayout
  BY <1>1, <1>3 DEF Tx, Empties, OpenVault
<1> QED  BY <1>2, <1>3

\* A step that opens pools and moves requests on keeps the transaction going, and is
\* one when none is running.
LEMMA MildStep ==
  ASSUME IInv, Custodial, InOneStep, Plain(storage'),
         \A p \in PoolIds : Settles(storage, storage', p),
         \A r \in PayoutIds : Lives(storage.payoutRequests[r], storage'.payoutRequests[r])
  PROVE  Custodial' /\ Transacts
<1>1. CASE Idle
  <2>1. storage = committed /\ committed' = storage' /\ Idle'
    BY <1>1, IInvFacts DEF FrameOK, InOneStep, Idle
  <2>2. Tx'
    BY <2>1, NothingRuns
  <2>3. Plain(committed')
    BY <2>1
  <2>4. Transacts
    BY <2>1 DEF Transacts, VaultGoes, RequestGoes
  <2> QED  BY <2>2, <2>3, <2>4 DEF Custodial
<1>2. CASE ~Idle
  <2>1. committed' = committed /\ frame' = frame
    BY <1>2 DEF InOneStep
  <2>2. Tx /\ Plain(committed)
    BY DEF Custodial
  <2>3. SameVault(storage, storage', frame.poolId)
    BY <1>2, <2>2, FramePoolSigned DEF Settles, Unused
  <2>4. \A p \in PoolIds : Idle' \/ p # frame'.poolId => Settles(committed', storage', p)
    <3> SUFFICES ASSUME NEW p \in PoolIds, p # frame.poolId
                 PROVE  Settles(committed, storage', p)
      BY <1>2, <2>1 DEF Idle
    <3>1. Settles(committed, storage, p) /\ Settles(storage, storage', p)
      BY <2>2 DEF Tx
    <3> QED  BY <3>1, SettlesOn
  <2>5. InExecutePayout => /\ frame.payoutId \in PayoutIds
                           /\ storage'.payoutRequests[frame.payoutId] =
                                storage.payoutRequests[frame.payoutId]
    BY <2>2, FramePool, RunsOn DEF Tx, Running
  <2>6. InExecutePayout => InFlight(frame.poolId)' = InFlight(frame.poolId)
    BY <2>1, <2>5 DEF InFlight, Current, FrameBatch, InExecutePayout
  <2>7. InExecutePayout' =>
          /\ Pays(committed', storage', frame'.poolId, InFlight(frame.poolId)')
          /\ Terminal(storage', frame'.poolId) <=> Terminal(committed', frame'.poolId)
    <3> SUFFICES ASSUME InExecutePayout
                 PROVE  /\ Pays(committed, storage', frame.poolId, InFlight(frame.poolId))
                        /\ Terminal(storage', frame.poolId) <=> Terminal(committed, frame.poolId)
      BY <2>1, <2>6 DEF InExecutePayout
    <3>1. /\ Pays(committed, storage, frame.poolId, InFlight(frame.poolId))
          /\ Terminal(storage, frame.poolId) <=> Terminal(committed, frame.poolId)
      BY <2>2 DEF Tx
    <3>2. Terminal(storage', frame.poolId) <=> Terminal(storage, frame.poolId)
      BY <2>3 DEF SameVault
    <3> QED  BY <2>3, <3>1, <3>2, SameAgain
  <2>8. ~Idle' /\ ~InExecutePayout' => Empties(committed', storage', frame'.poolId)
    <3> SUFFICES ASSUME ~InExecutePayout
                 PROVE  Empties(committed, storage', frame.poolId)
      BY <2>1 DEF InExecutePayout
    <3>1. Empties(committed, storage, frame.poolId)
      BY <1>2, <2>2 DEF Tx
    <3> QED  BY <2>3, <3>1, SameAgain
  <2>9. ASSUME NEW r \in PayoutIds
        PROVE  /\ Running(r)' => Runs(committed'.payoutRequests[r], storage'.payoutRequests[r],
                                      Sign(committed', committed'.payoutRequests[r].poolId))
               /\ ~Running(r)' => Lives(committed'.payoutRequests[r], storage'.payoutRequests[r])
    <3>1. Running(r)' <=> Running(r)
      BY <2>1 DEF Running, InExecutePayout
    <3>2. CASE Running(r)
      <4>1. Runs(committed.payoutRequests[r], storage.payoutRequests[r],
                 Sign(committed, committed.payoutRequests[r].poolId))
        BY <2>2, <3>2 DEF Tx
      <4> QED  BY <2>1, <2>5, <3>1, <3>2, <4>1 DEF Running
    <3>3. CASE ~Running(r)
      <4>1. Lives(committed.payoutRequests[r], storage.payoutRequests[r])
        BY <2>2, <3>3 DEF Tx
      <4>2. Lives(storage.payoutRequests[r], storage'.payoutRequests[r])
        OBVIOUS
      <4> QED  BY <2>1, <3>1, <3>3, <4>1, <4>2, LivesOn
    <3> QED  BY <3>2, <3>3
  <2>10. Tx'
    BY <2>4, <2>7, <2>8, <2>9 DEF Tx
  <2> QED  BY <2>1, <2>2, <2>10 DEF Custodial, Transacts
<1> QED  BY <1>1, <1>2

\* The steps that leave every pool alone.
LEMMA PoolsStill ==
  ASSUME IInv, Custodial, InOneStep, storage'.prizePools = storage.prizePools,
         storage'.paid = storage.paid, storage'.returned = storage.returned,
         \A r \in PayoutIds : Lives(storage.payoutRequests[r], storage'.payoutRequests[r])
  PROVE  Custodial' /\ Transacts
<1>1. Plain(storage')
  BY PlainStays DEF Custodial
<1>2. \A p \in PoolIds : Settles(storage, storage', p)
  BY SettlesStill
<1> QED  BY <1>1, <1>2, MildStep

\* ... and every request but one.
LEMMA OneLives ==
  ASSUME IInv, NEW r \in PayoutIds, NEW new, Lives(storage.payoutRequests[r], new),
         storage'.payoutRequests = [storage.payoutRequests EXCEPT ![r] = new]
  PROVE  \A q \in PayoutIds : Lives(storage.payoutRequests[q], storage'.payoutRequests[q])
<1> SUFFICES ASSUME NEW q \in PayoutIds
             PROVE  Lives(storage.payoutRequests[q], storage'.payoutRequests[q])
  OBVIOUS
<1>1. q = r => storage'.payoutRequests[q] = new
  BY IInvFacts
<1>2. q # r => storage'.payoutRequests[q] = storage.payoutRequests[q]
  BY IInvFacts
<1>3. q # r => Lives(storage.payoutRequests[q], storage'.payoutRequests[q])
  BY <1>2 DEF Lives
<1> QED  BY <1>1, <1>3

LEMMA RequestPayoutCustody ==
  ASSUME IInv, Custodial, NEW sender \in Accounts, NEW p \in PoolIds, NEW b \in Batches,
         RequestPayout(sender, p, b)
  PROVE  Custodial' /\ Transacts
<1> DEFINE r == storage.payoutRequestCounter
           new == [exists |-> TRUE, poolId |-> p, batch |-> b, status |-> "Pending",
                   approvalCount |-> 0, approvals |-> {}]
<1>1. /\ r \in PayoutIds
      /\ storage'.payoutRequests = [storage.payoutRequests EXCEPT ![r] = new]
      /\ storage'.prizePools = storage.prizePools
      /\ storage'.paid = storage.paid /\ storage'.returned = storage.returned
  BY IInvFacts, RequestEffect
<1>2. ~storage.payoutRequests[r].exists
  BY <1>1, IInvFacts DEF Shape, PayoutIds
<1>3. Lives(storage.payoutRequests[r], new)
  BY <1>2 DEF Lives
<1> HIDE DEF r, new
<1>4. \A q \in PayoutIds : Lives(storage.payoutRequests[q], storage'.payoutRequests[q])
  BY <1>1, <1>3, OneLives
<1>5. InOneStep
  BY DEF RequestPayout
<1> QED  BY <1>1, <1>4, <1>5, PoolsStill

LEMMA DecisionCustody ==
  ASSUME IInv, Custodial, NEW sender \in Accounts, NEW r \in PayoutIds,
         ApprovePayout(sender, r) \/ RejectPayout(sender, r)
  PROVE  Custodial' /\ Transacts
<1> DEFINE old == storage.payoutRequests[r]
<1>1. old \in PayoutRequest /\ old.exists /\ old.status = "Pending"
  BY IInvFacts DEF ApprovePayout, RejectPayout, MayApprove, IsPending
<1>2. PICK new : /\ Lives(old, new)
                 /\ storage'.payoutRequests = [storage.payoutRequests EXCEPT ![r] = new]
                 /\ storage'.prizePools = storage.prizePools
                 /\ storage'.paid = storage.paid /\ storage'.returned = storage.returned
  <2>1. CASE ApprovePayout(sender, r)
    <3>1. Lives(old, Approved(old, sender))
      BY <1>1, ApproveRequest DEF Lives, Keeps
    <3> QED  BY <2>1, <3>1, IInvFacts, ApproveEffect
  <2>2. CASE RejectPayout(sender, r)
    <3>1. Lives(old, [old EXCEPT !.status = "Rejected"])
      BY <1>1 DEF Lives, Keeps, PayoutRequest
    <3> QED  BY <2>2, <3>1, IInvFacts, RejectEffect
  <2> QED  BY <2>1, <2>2
<1> HIDE DEF old
<1>3. \A q \in PayoutIds : Lives(storage.payoutRequests[q], storage'.payoutRequests[q])
  BY <1>2, OneLives DEF old
<1>4. InOneStep
  BY DEF ApprovePayout, RejectPayout
<1> QED  BY <1>2, <1>3, <1>4, PoolsStill

LEMMA QuietCustody ==
  ASSUME IInv, Custodial, InOneStep, UNCHANGED Books(storage)
  PROVE  Custodial' /\ Transacts
<1>1. /\ storage'.prizePools = storage.prizePools
      /\ storage'.paid = storage.paid /\ storage'.returned = storage.returned
      /\ storage'.payoutRequests = storage.payoutRequests
  BY DEF Books
<1>2. \A q \in PayoutIds : Lives(storage.payoutRequests[q], storage'.payoutRequests[q])
  BY <1>1 DEF Lives
<1> QED  BY <1>1, <1>2, PoolsStill

\* A step that rewrites one pool and leaves every request alone.
LEMMA OnePoolStep ==
  ASSUME IInv, Plain(storage), NEW q \in PoolIds, NEW new \in PrizePool,
         storage'.prizePools = [storage.prizePools EXCEPT ![q] = new],
         storage'.paid = storage.paid, storage'.returned = storage.returned,
         ~new.exists => new.requiredSignatures = 0,
         storage.returned[q] # 0 => new.status \in {"Completed", "Cancelled"}
  PROVE  /\ Plain(storage')
         /\ \A p \in PoolIds : p # q => SameVault(storage, storage', p)
         /\ storage'.prizePools[q] = new
<1>1. storage'.prizePools[q] = new
  BY IInvFacts
<1>2. \A p \in PoolIds : p # q => storage'.prizePools[p] = storage.prizePools[p]
  BY IInvFacts
<1>3. \A p \in PoolIds : p # q => SameVault(storage, storage', p)
  BY <1>2, SettlesStill
<1>4. Plain(storage')
  BY <1>1, <1>2 DEF Plain, Sign, Terminal
<1> QED  BY <1>1, <1>3, <1>4

LEMMA MarkCustody ==
  ASSUME IInv, Custodial, NEW sender \in Accounts, NEW q \in PoolIds,
         InitiateEmergencyWithdraw(sender, q) \/ LockPool(sender, q)
  PROVE  Custodial' /\ Transacts
<1> DEFINE old == storage.prizePools[q]
<1>1. /\ storage'.payoutRequests = storage.payoutRequests
      /\ storage'.paid = storage.paid /\ storage'.returned = storage.returned
  BY IInvFacts, InitiateEffect
<1>2. PICK new \in PrizePool :
         /\ SameAccounts(new, old)
         /\ storage'.prizePools = [storage.prizePools EXCEPT ![q] = new]
  BY IInvFacts, InitiateEffect
<1>3. storage'.prizePools[q] = new
  BY <1>2, IInvFacts
<1>4. new.status = old.status \/ (old.status = "Active" /\ new.status = "Locked")
  <2>1. old \in PrizePool
    BY IInvFacts
  <2>2. CASE InitiateEmergencyWithdraw(sender, q)
    <3>1. storage'.prizePools[q] =
            [old EXCEPT !.emergencyWithdrawable = TRUE,
                        !.emergencyWithdrawTime = now + EMERGENCY_TIMELOCK]
      BY <2>2, IInvFacts DEF InitiateEmergencyWithdraw, Storage
    <3> QED  BY <1>3, <2>1, <3>1 DEF PrizePool
  <2>3. CASE LockPool(sender, q)
    <3>1. storage'.prizePools[q] = [old EXCEPT !.status = "Locked"] /\ old.status = "Active"
      BY <2>3, IInvFacts DEF LockPool, Storage
    <3> QED  BY <1>3, <2>1, <3>1 DEF PrizePool
  <2> QED  BY <2>2, <2>3
<1>5. /\ ~new.exists => new.requiredSignatures = 0
      /\ storage.returned[q] # 0 => new.status \in {"Completed", "Cancelled"}
  BY <1>2, <1>4 DEF Custodial, Plain, Sign, Terminal, SameAccounts
<1>6. /\ Plain(storage') /\ \A p \in PoolIds : p # q => SameVault(storage, storage', p)
  BY <1>1, <1>2, <1>5, OnePoolStep DEF Custodial
<1>7. SameVault(storage, storage', q)
  BY <1>1, <1>2, <1>3, <1>4 DEF SameVault, Sign, Terminal, SameAccounts
<1>8. \A p \in PoolIds : Settles(storage, storage', p)
  BY <1>6, <1>7 DEF Settles
<1>9. \A r \in PayoutIds : Lives(storage.payoutRequests[r], storage'.payoutRequests[r])
  BY <1>1 DEF Lives
<1>10. InOneStep
  BY DEF InitiateEmergencyWithdraw, LockPool
<1> QED  BY <1>6, <1>8, <1>9, <1>10, MildStep

LEMMA CreateCustody ==
  ASSUME IInv, Closing, Custodial, NEW sender \in Accounts, NEW e \in Events, NEW t \in Tokens,
         NEW n \in SignatureCounts, NEW value \in Amounts \cup StrayAmounts,
         CreatePrizePool(sender, e, t, n, value)
  PROVE  Custodial' /\ Transacts
<1> DEFINE q == storage.poolCounter
           new == NewPool(sender, e, t, n, value)
<1>1. /\ q \in PoolIds /\ new \in PrizePool
      /\ storage'.prizePools = [storage.prizePools EXCEPT ![q] = new]
      /\ storage'.payoutRequests = storage.payoutRequests
      /\ storage'.paid = storage.paid /\ storage'.returned = storage.returned
  BY IInvFacts, CreateEffect
<1>2. /\ ~storage.prizePools[q].exists /\ storage.prizePools[q].totalAmount = 0
      /\ storage.paid[q] = 0 /\ storage.returned[q] = 0
  BY <1>1, IInvFacts DEF Shape, PoolIds
<1>3. new.exists /\ new.status = "Active" /\ new.requiredSignatures = n
  BY DEF NewPool
<1>4. n >= MIN_REQUIRED_SIGNATURES
  BY DEF CreatePrizePool
<1> HIDE DEF q, new
<1>5. /\ Plain(storage') /\ \A p \in PoolIds : p # q => SameVault(storage, storage', p)
      /\ storage'.prizePools[q] = new
  <2>1. storage.returned[q] # 0 => new.status \in {"Completed", "Cancelled"}
    BY <1>2
  <2>2. ~new.exists => new.requiredSignatures = 0
    BY <1>3
  <2> QED  BY <1>1, <2>1, <2>2, OnePoolStep DEF Custodial
<1>6. Unused(storage, q)
  BY <1>1, <1>2, ClosingFacts DEF Unused, Custodial, Plain, Sign, Ended
<1>7. Opened(storage', q)
  BY <1>1, <1>2, <1>3, <1>4, <1>5 DEF Opened, Sign, Terminal
<1>8. \A p \in PoolIds : Settles(storage, storage', p)
  BY <1>5, <1>6, <1>7 DEF Settles
<1>9. \A r \in PayoutIds : Lives(storage.payoutRequests[r], storage'.payoutRequests[r])
  BY <1>1 DEF Lives
<1>10. InOneStep
  BY DEF CreatePrizePool
<1> QED  BY <1>5, <1>8, <1>9, <1>10, MildStep

LEMMA FundCustody ==
  ASSUME IInv, Custodial, NEW q \in PoolIds, NEW v \in Amounts, NEW w \in StrayAmounts \cup {0},
         FundPoolWithETH(q, v) \/ FundPoolWithToken(q, v, w)
  PROVE  Custodial' /\ Transacts
<1> DEFINE old == storage.prizePools[q]
           new == Credit(old, v)
<1>1. /\ storage'.prizePools = [storage.prizePools EXCEPT ![q] = new]
      /\ storage'.payoutRequests = storage.payoutRequests
      /\ storage'.paid = storage.paid /\ storage'.returned = storage.returned
  BY IInvFacts, FundEffect
<1>2. Idle /\ old.exists /\ old.status = "Active" /\ v > 0 /\ InOneStep
  BY DEF FundPoolWithETH, FundPoolWithToken, MayFund, nonReentrant
<1>3. /\ old \in PrizePool /\ new \in PrizePool
      /\ new.totalAmount = old.totalAmount + v /\ new.exists = old.exists
      /\ new.requiredSignatures = old.requiredSignatures
  BY IInvFacts, CreditPool
<1>4. new.status = old.status
  BY <1>3 DEF Credit, PrizePool
<1> HIDE DEF new
<1>5. storage = committed /\ committed' = storage' /\ Idle'
  BY <1>2, IInvFacts DEF FrameOK, InOneStep, Idle
<1>6. /\ Plain(storage') /\ \A p \in PoolIds : p # q => SameVault(storage, storage', p)
      /\ storage'.prizePools[q] = new
  <2>1. /\ storage.returned[q] # 0 => new.status \in {"Completed", "Cancelled"}
        /\ ~new.exists => new.requiredSignatures = 0
    BY <1>2, <1>3, <1>4 DEF Custodial, Plain, Terminal
  <2> QED  BY <1>1, <1>3, <2>1, OnePoolStep DEF Custodial
<1>7. Deposits(q)
  <2>1. Sign(storage, q) \in Nat /\ Sign(storage, q) >= MIN_REQUIRED_SIGNATURES
    BY <1>2, <1>3, IInvFacts, PoolFields DEF Sign, Signed
  <2>2. OpenVault(storage, q)
    BY <1>2, <2>1 DEF OpenVault, Terminal
  <2>3. ~Terminal(storage', q) /\ Sign(storage', q) = Sign(storage, q)
    BY <1>2, <1>3, <1>4, <1>6 DEF Terminal, Sign
  <2>4. storage'.prizePools[q].totalAmount > storage.prizePools[q].totalAmount
    BY <1>2, <1>3, <1>6, PoolFields
  <2> QED  BY <1>1, <1>5, <2>2, <2>3, <2>4 DEF Deposits
<1>8. \A p \in PoolIds : VaultGoes(p)
  BY <1>5, <1>6, <1>7 DEF VaultGoes, Settles
<1>9. \A r \in PayoutIds : RequestGoes(r)
  BY <1>1, <1>5 DEF RequestGoes, Lives
<1>10. Tx'
  BY <1>5, NothingRuns
<1> QED  BY <1>5, <1>6, <1>8, <1>9, <1>10 DEF Custodial, Transacts

LEMMA PaysNothing ==
  ASSUME NEW c, NEW s, NEW p, SameVault(c, s, p), c.paid[p] \in Nat
  PROVE  Pays(c, s, p, 0) /\ (Terminal(s, p) <=> Terminal(c, p))
BY DEF SameVault, Pays

LEMMA ExecuteCustody ==
  ASSUME IInv, IInv', Custodial, NEW sender \in Accounts, NEW r \in PayoutIds,
         ApproveAndExecute(sender, r)
  PROVE  Custodial' /\ Transacts
<1> DEFINE old == storage.payoutRequests[r]
           new == [Approved(old, sender) EXCEPT !.status = "Executed"]
<1>1. /\ storage'.payoutRequests = [storage.payoutRequests EXCEPT ![r] = new]
      /\ storage'.prizePools = storage.prizePools
      /\ storage'.paid = storage.paid /\ storage'.returned = storage.returned
  BY IInvFacts, ExecuteEffect
<1>2. /\ old \in PayoutRequest /\ old.exists /\ old.status = "Pending"
      /\ sender \notin old.approvals /\ Idle
      /\ old.approvalCount + 1 >= Sign(storage, old.poolId)
  BY IInvFacts DEF ApproveAndExecute, MayApprove, IsPending, nonReentrant, ReachesQuorum, Sign
<1>3. /\ frame' = [fn |-> "_executePayout", poolId |-> old.poolId, payoutId |-> r, i |-> 1,
                   totalPaid |-> 0, callee |-> NoOne]
      /\ committed' = committed
  BY DEF ApproveAndExecute
<1>4. storage = committed
  BY <1>2, IInvFacts DEF FrameOK
<1>5. /\ frame'.poolId = old.poolId /\ frame'.payoutId = r /\ frame'.totalPaid = 0
      /\ frame'.callee = NoOne /\ InExecutePayout' /\ ~Idle'
  BY <1>3 DEF InExecutePayout, Idle
<1>6. InFlight(frame.poolId)' = 0
  BY <1>5 DEF InFlight, Current
<1>7. \A p \in PoolIds : SameVault(committed, storage', p)
  BY <1>1, <1>4, SettlesStill
<1>8. Pays(committed, storage', old.poolId, 0) /\
      (Terminal(storage', old.poolId) <=> Terminal(committed, old.poolId))
  BY <1>2, <1>4, <1>7, IInvFacts, RequestFields, PaysNothing
<1>9. /\ new.exists /\ new.status = "Executed" /\ new.poolId = old.poolId
      /\ new.batch = old.batch /\ new.approvals = old.approvals \cup {sender}
  BY <1>2, ApproveRequest DEF PayoutRequest
<1>10. Cardinality(new.approvals) >= Sign(storage, old.poolId)
  BY <1>2, <1>9, OneMoreSigner, ApproveRequest
<1> HIDE DEF new
<1>11. Runs(old, new, Sign(storage, old.poolId))
  BY <1>2, <1>9, <1>10 DEF Runs, Keeps
<1>12. ASSUME NEW q \in PayoutIds
       PROVE  /\ Running(q)' => Runs(committed'.payoutRequests[q], storage'.payoutRequests[q],
                                     Sign(committed', committed'.payoutRequests[q].poolId))
              /\ ~Running(q)' => Lives(committed'.payoutRequests[q], storage'.payoutRequests[q])
  <2>1. Running(q)' <=> q = r
    BY <1>5 DEF Running
  <2>2. q = r => storage'.payoutRequests[q] = new
    BY <1>1, IInvFacts
  <2>3. q # r => storage'.payoutRequests[q] = storage.payoutRequests[q]
    BY <1>1, IInvFacts
  <2> QED  BY <1>3, <1>4, <1>11, <2>1, <2>2, <2>3 DEF Lives
<1>13. Tx'
  <2>1. \A p \in PoolIds : Settles(committed', storage', p)
    BY <1>3, <1>7 DEF Settles
  <2>2. /\ Pays(committed', storage', frame'.poolId, InFlight(frame.poolId)')
        /\ Terminal(storage', frame'.poolId) <=> Terminal(committed', frame'.poolId)
    BY <1>3, <1>5, <1>6, <1>8
  <2> QED  BY <1>5, <1>12, <2>1, <2>2 DEF Tx
<1>14. Plain(storage')
  BY <1>1, PlainStays DEF Custodial
<1> QED  BY <1>3, <1>13, <1>14 DEF Custodial, Transacts

\* One transfer adds to what the running frame has paid, and nothing else moves.
LEMMA PayingOn ==
  ASSUME IInv, Custodial, InExecutePayout, InExecutePayout', committed' = committed,
         frame'.poolId = frame.poolId, frame'.payoutId = frame.payoutId,
         storage'.prizePools = storage.prizePools, storage'.returned = storage.returned,
         storage'.payoutRequests = storage.payoutRequests,
         \A p \in PoolIds : p # frame.poolId => storage'.paid[p] = storage.paid[p],
         Pays(committed, storage', frame.poolId, InFlight(frame.poolId)')
  PROVE  Custodial' /\ Transacts
<1>1. Tx /\ Plain(committed) /\ ~Idle /\ ~Idle'
  BY DEF Custodial, InExecutePayout, Idle
<1>2. ASSUME NEW p \in PoolIds, p # frame.poolId
      PROVE  Settles(committed, storage', p)
  <2>1. Settles(committed, storage, p)
    BY <1>1, <1>2 DEF Tx
  <2>2. Settles(storage, storage', p)
    BY <1>2, SettlesStill
  <2> QED  BY <2>1, <2>2, SettlesOn
<1>3. Terminal(storage', frame.poolId) <=> Terminal(committed, frame.poolId)
  BY <1>1 DEF Tx, Terminal
<1>4. ASSUME NEW q \in PayoutIds
      PROVE  /\ Running(q)' => Runs(committed'.payoutRequests[q], storage'.payoutRequests[q],
                                    Sign(committed', committed'.payoutRequests[q].poolId))
             /\ ~Running(q)' => Lives(committed'.payoutRequests[q], storage'.payoutRequests[q])
  <2>1. Running(q)' <=> Running(q)
    BY DEF Running
  <2> QED  BY <1>1, <2>1 DEF Tx
<1>5. Tx'
  BY <1>1, <1>2, <1>3, <1>4 DEF Tx
<1>6. Plain(storage')
  BY PlainStays DEF Custodial
<1> QED  BY <1>1, <1>5, <1>6 DEF Custodial, Transacts

LEMMA TransferCustody ==
  ASSUME IInv, Custodial, TransferToRecipient
  PROVE  Custodial' /\ Transacts
<1> DEFINE v == FrameBatch[frame.i].amount
<1>1. InExecutePayout /\ frame.callee = NoOne /\ frame.i <= Len(FrameBatch)
  BY DEF TransferToRecipient
<1>2. FrameBatch[frame.i] \in Payment
  BY <1>1, CurrentPayment
<1>3. /\ storage'.paid = [storage.paid EXCEPT ![frame.poolId] = @ + v]
      /\ storage'.prizePools = storage.prizePools /\ storage'.returned = storage.returned
      /\ storage'.payoutRequests = storage.payoutRequests
  BY <1>2, IInvFacts, TransferEffect
<1>4. frame' = [frame EXCEPT !.callee = FrameBatch[frame.i].recipient] /\ committed' = committed
  BY DEF TransferToRecipient
<1>5. /\ frame'.poolId = frame.poolId /\ frame'.payoutId = frame.payoutId
      /\ frame'.totalPaid = frame.totalPaid /\ frame'.i = frame.i /\ InExecutePayout'
      /\ frame'.callee # NoOne
  <2>1. FrameBatch[frame.i].recipient \in Accounts
    BY <1>2 DEF Payment
  <2> QED  BY <1>1, <1>4, <2>1, IInvFacts DEF Frame, InExecutePayout
<1>6. FrameBatch' = FrameBatch
  BY <1>3, <1>5 DEF FrameBatch
<1>7. InFlight(frame.poolId) = frame.totalPaid + 0
  BY <1>1, FramePool DEF Current
<1>8. InFlight(frame.poolId)' = frame.totalPaid + v
  BY <1>5, <1>6 DEF InFlight, Current
<1>9. v \in Nat /\ frame.totalPaid \in Nat /\ committed.paid[frame.poolId] \in Nat
  BY <1>1, <1>2, FramePool, IInvFacts, StorageFields DEF Payment
<1>10. Pays(committed, storage, frame.poolId, InFlight(frame.poolId))
  BY <1>1 DEF Custodial, Tx
<1>11. storage'.paid[frame.poolId] = storage.paid[frame.poolId] + v
  BY <1>1, <1>3, FramePool, IInvFacts
<1> HIDE DEF v
<1>12. storage'.paid[frame.poolId] = committed.paid[frame.poolId] + (frame.totalPaid + v)
  BY <1>7, <1>9, <1>10, <1>11 DEF Pays
<1>13. Pays(committed, storage', frame.poolId, InFlight(frame.poolId)')
  BY <1>3, <1>8, <1>10, <1>12 DEF Pays, Sign
<1>14. \A p \in PoolIds : p # frame.poolId => storage'.paid[p] = storage.paid[p]
  BY <1>3, IInvFacts
<1> QED  BY <1>1, <1>3, <1>4, <1>5, <1>13, <1>14, PayingOn

LEMMA ReturnsCustody ==
  ASSUME IInv, Custodial, TransferReturns
  PROVE  Custodial' /\ Transacts
<1> DEFINE v == FrameBatch[frame.i].amount
<1>1. InExecutePayout /\ frame.callee # NoOne
  BY DEF TransferReturns
<1>2. /\ storage'.prizePools = storage.prizePools /\ storage'.paid = storage.paid
      /\ storage'.payoutRequests = storage.payoutRequests
  BY ReturnsEffect
<1>3. storage'.returned = storage.returned
  BY IInvFacts DEF TransferReturns, Storage
<1>4. frame' = [frame EXCEPT !.callee = NoOne, !.i = @ + 1, !.totalPaid = @ + v]
      /\ committed' = committed
  BY DEF TransferReturns
<1>5. /\ frame'.poolId = frame.poolId /\ frame'.payoutId = frame.payoutId
      /\ frame'.totalPaid = frame.totalPaid + v /\ InExecutePayout'
      /\ frame'.callee = NoOne
  BY <1>1, <1>4, IInvFacts DEF Frame, InExecutePayout
<1>6. InFlight(frame.poolId) = frame.totalPaid + v
  BY <1>1, FramePool DEF Current
<1>7. InFlight(frame.poolId)' = (frame.totalPaid + v) + 0
  BY <1>5 DEF InFlight, Current
<1>8. frame.totalPaid + v \in Nat
  BY <1>1, <1>6, FramePool, InFlightType
<1>9. Pays(committed, storage, frame.poolId, InFlight(frame.poolId))
  BY <1>1 DEF Custodial, Tx
<1> HIDE DEF v
<1>10. InFlight(frame.poolId)' = InFlight(frame.poolId)
  BY <1>6, <1>7, <1>8
<1>11. Pays(committed, storage', frame.poolId, InFlight(frame.poolId)')
  BY <1>2, <1>3, <1>9, <1>10 DEF Pays, Sign
<1>12. \A p \in PoolIds : p # frame.poolId => storage'.paid[p] = storage.paid[p]
  BY <1>2
<1> QED  BY <1>1, <1>2, <1>3, <1>4, <1>5, <1>11, <1>12, PayingOn

\* What the last transfer leaves behind.
LEMMA AllPaid ==
  ASSUME IInv, Closing, Booked, Custodial, FinishPayout
  PROVE  /\ InFlight(frame.poolId) = Total(FrameBatch) /\ frame.totalPaid = Total(FrameBatch)
         /\ ~Terminal(committed, frame.poolId) /\ ~Terminal(storage, frame.poolId)
         /\ storage.returned[frame.poolId] = 0
<1>1. InExecutePayout /\ frame.callee = NoOne /\ frame.i > Len(FrameBatch)
  BY DEF FinishPayout
<1>2. frame.i = Len(FrameBatch) + 1
  <2>1. Len(FrameBatch) \in Nat
    BY <1>1, FramePool, PaymentAmounts, TotalIsSum
  <2>2. frame.i \in 1 .. Len(FrameBatch) + 1
    BY <1>1, FramePool
  <2> QED  BY <1>1, <2>1, <2>2
<1>3. frame.totalPaid = Total(FrameBatch)
  <2>1. frame.totalPaid = PaidBefore(FrameBatch, frame.i)
    BY <1>1 DEF Booked, OpenBooks, PaidSoFar
  <2>2. PaidBefore(FrameBatch, Len(FrameBatch) + 1) = Total(FrameBatch)
    BY <1>1, FramePool, PaymentAmounts, PaidBeforeEnd
  <2> QED  BY <1>2, <2>1, <2>2
<1>4. InFlight(frame.poolId) = Total(FrameBatch)
  <2>1. InFlight(frame.poolId) = frame.totalPaid + 0
    BY <1>1, FramePool DEF Current
  <2> QED  BY <1>1, <1>3, <2>1, FramePool
<1>5. frame.totalPaid > 0
  <2>1. FrameBatch # <<>> /\ FrameBatch \in Seq(Payment)
    BY <1>1, RunningBatch DEF Positive
  <2>2. frame.i > 1
    BY <1>2, <2>1
  <2> QED  BY <1>1, <2>2, ClosingFacts DEF SomePaid
<1>6. ~Terminal(storage, frame.poolId)
  <2>1. storage.prizePools[frame.poolId].remainingAmount >= frame.totalPaid
    BY DEF FinishPayout, NoUnderflow
  <2>2. frame.totalPaid \in Nat
    BY <1>1, FramePool
  <2>3. storage.prizePools[frame.poolId].remainingAmount # 0
    BY <1>5, <2>1, <2>2
  <2> QED  BY <1>1, <2>3, FramePool, ClosingFacts DEF Ended
<1>7. ~Terminal(committed, frame.poolId)
  BY <1>1, <1>6 DEF Custodial, Tx
<1>8. storage.returned[frame.poolId] = 0
  BY <1>1, <1>6, FramePool DEF Custodial, Plain
<1> QED  BY <1>3, <1>4, <1>6, <1>7, <1>8

LEMMA FinishPayoutCustody ==
  ASSUME IInv, IInv', Closing, Booked, Custodial, FinishPayout
  PROVE  Custodial' /\ Transacts
<1> DEFINE q == frame.poolId
           r == frame.payoutId
           old == storage.prizePools[q]
           n == old.remainingAmount - frame.totalPaid
           new == AfterPayout(old, n)
<1>1. InExecutePayout /\ ~Idle /\ Tx /\ Plain(storage) /\ Plain(committed)
  BY DEF FinishPayout, InExecutePayout, Idle, Custodial
<1>2. /\ q \in PoolIds /\ r \in PayoutIds /\ old.exists
      /\ storage.payoutRequests[r].poolId = q
      /\ Total(FrameBatch) \in Nat /\ FrameBatch = storage.payoutRequests[r].batch
  BY <1>1, FramePool DEF FrameBatch
<1>3. /\ n \in Nat /\ storage'.prizePools = [storage.prizePools EXCEPT ![q] = new]
      /\ storage'.payoutRequests = storage.payoutRequests
      /\ storage'.paid = storage.paid /\ storage'.returned = storage.returned
  BY IInvFacts, FinishEffect
<1>4. /\ old \in PrizePool /\ new \in PrizePool /\ new.totalAmount = old.totalAmount
      /\ new.remainingAmount = n /\ new.exists = old.exists
      /\ new.requiredSignatures = old.requiredSignatures
  <2>1. old \in PrizePool /\ n \in Nat
    BY <1>2, <1>3, IInvFacts
  <2> HIDE DEF old, n
  <2> QED  BY <2>1, PayPool
<1>5. new.status = IF n = 0 THEN "Completed" ELSE old.status
  BY <1>4 DEF AfterPayout, PrizePool
<1>6. committed' = storage' /\ Idle'
  BY DEF FinishPayout, Idle, NoFrame
<1>7. /\ InFlight(q) = Total(FrameBatch) /\ frame.totalPaid = Total(FrameBatch)
      /\ ~Terminal(committed, q) /\ ~Terminal(storage, q) /\ storage.returned[q] = 0
  BY AllPaid
<1>8. Pays(committed, storage, q, Total(FrameBatch))
  BY <1>1, <1>7 DEF Tx
<1>9. OpenVault(committed, q)
  BY <1>1, <1>7, <1>8, FramePoolSigned DEF OpenVault, Pays
<1>10. old.totalAmount = n + storage.paid[q]
  <2>1. /\ InFlight(q) \in Nat /\ storage.paid[q] \in Nat /\ storage.returned[q] \in Nat
        /\ old.totalAmount \in Nat /\ old.remainingAmount \in Nat
        /\ old.totalAmount + InFlight(q) = old.remainingAmount + storage.paid[q] + storage.returned[q]
    BY <1>2, LedgerTerms
  <2> DEFINE m == InFlight(q)
             x == storage.paid[q]
             y == old.totalAmount
             z == old.remainingAmount
  <2>2. m \in Nat /\ x \in Nat /\ y \in Nat /\ z \in Nat /\ y + m = z + x + 0 /\ n = z - m
    BY <1>7, <2>1
  <2> HIDE DEF m, x, y, z, n
  <2>3. y = n + x
    BY <2>2
  <2> QED  BY <2>3 DEF x, y
<1> HIDE DEF new, n
<1>11. /\ Plain(storage') /\ \A p \in PoolIds : p # q => SameVault(storage, storage', p)
       /\ storage'.prizePools[q] = new
  <2>1. /\ storage.returned[q] # 0 => new.status \in {"Completed", "Cancelled"}
        /\ ~new.exists => new.requiredSignatures = 0
    BY <1>2, <1>4, <1>7
  <2> QED  BY <1>1, <1>2, <1>3, <1>4, <2>1, OnePoolStep
<1>12. /\ storage'.paid[q] \in Nat /\ storage'.paid[q] = storage.paid[q]
       /\ storage'.returned[q] = storage.returned[q]
       /\ storage'.prizePools[q].totalAmount = n + storage'.paid[q]
       /\ committed.prizePools[q].totalAmount = n + storage'.paid[q]
       /\ Sign(storage', q) = Sign(storage, q)
  BY <1>2, <1>3, <1>4, <1>8, <1>10, <1>11, IInvFacts DEF Pays, Sign
<1>13. Terminal(storage', q) <=> n = 0
  BY <1>5, <1>7, <1>11 DEF Terminal
<1>14. Runs(committed.payoutRequests[r], storage'.payoutRequests[r],
            Sign(committed, committed.payoutRequests[r].poolId))
  BY <1>1, <1>2, <1>3 DEF Tx, Running
<1>15. /\ committed.payoutRequests[r].poolId = q
       /\ Total(committed.payoutRequests[r].batch) = Total(FrameBatch)
  BY <1>2, <1>3, <1>14 DEF Runs, Keeps
<1>16. ReleaseOf(r)
  <2>1. Pays(committed, storage', q, Total(FrameBatch))
    BY <1>4, <1>8, <1>11, <1>12 DEF Pays
  <2>2. storage'.paid[q] <= committed.prizePools[q].totalAmount
    BY <1>3, <1>12
  <2>3. Terminal(storage', q) <=> storage'.paid[q] = committed.prizePools[q].totalAmount
    BY <1>3, <1>12, <1>13
  <2> QED  BY <1>6, <1>9, <1>14, <1>15, <2>1, <2>2, <2>3 DEF ReleaseOf
<1>17. ASSUME NEW p \in PoolIds
       PROVE  VaultGoes(p)
  <2>1. CASE p = q
    BY <1>2, <1>15, <1>16, <2>1 DEF VaultGoes, Releases
  <2>2. CASE p # q
    <3>1. Settles(committed, storage, p)
      BY <1>1, <2>2 DEF Tx
    <3>2. Settles(storage, storage', p)
      BY <1>11, <2>2 DEF Settles
    <3> QED  BY <1>6, <3>1, <3>2, SettlesOn DEF VaultGoes
  <2> QED  BY <2>1, <2>2
<1>18. ASSUME NEW p \in PayoutIds
       PROVE  RequestGoes(p)
  BY <1>1, <1>3, <1>6, <1>16 DEF Tx, Running, RequestGoes
<1>19. Tx'
  BY <1>6, NothingRuns
<1> QED  BY <1>6, <1>11, <1>17, <1>18, <1>19 DEF Custodial, Transacts

LEMMA ReturnToHostCustody ==
  ASSUME IInv, Closing, Custodial, NEW sender \in Accounts, NEW q \in PoolIds,
         ExecuteEmergencyWithdraw(sender, q) \/ RefundPool(sender, q)
  PROVE  Custodial' /\ Transacts
<1> DEFINE old == storage.prizePools[q]
           new == Emptied(old)
<1>1. PICK fn \in {"executeEmergencyWithdraw", "refundPool"} : ReturnToHost(fn, q)
  BY DEF ExecuteEmergencyWithdraw, RefundPool
<1>2. /\ storage'.prizePools = [storage.prizePools EXCEPT ![q] = new]
      /\ storage'.returned = [storage.returned EXCEPT ![q] = @ + old.remainingAmount]
      /\ storage'.payoutRequests = storage.payoutRequests /\ storage'.paid = storage.paid
  BY <1>1, IInvFacts, ReturnEffect
<1>3. /\ old \in PrizePool /\ new \in PrizePool /\ new.totalAmount = old.totalAmount
      /\ new.exists = old.exists /\ new.requiredSignatures = old.requiredSignatures
  BY IInvFacts, EmptyPool
<1>4. new.status = "Cancelled"
  BY <1>3 DEF Emptied, PrizePool
<1>5. Idle /\ storage = committed
  BY IInvFacts DEF ExecuteEmergencyWithdraw, RefundPool, nonReentrant, FrameOK
<1>6. committed' = committed /\ frame'.poolId = q /\ ~Idle' /\ ~InExecutePayout'
  BY <1>1 DEF ReturnToHost, NoFrame, Idle, InExecutePayout
<1>7. old.exists /\ ~Terminal(storage, q)
  <2>1. CASE ExecuteEmergencyWithdraw(sender, q)
    <3>1. old.remainingAmount # 0
      BY <2>1 DEF ExecuteEmergencyWithdraw
    <3> QED  BY <3>1, IInvFacts, ClosingFacts DEF Shape, Ended
  <2>2. CASE RefundPool(sender, q)
    BY <2>2 DEF RefundPool, IsUntouched, Terminal
  <2> QED  BY <2>1, <2>2
<1>8. storage.returned[q] = 0
  BY <1>7 DEF Custodial, Plain
<1>9. OpenVault(storage, q)
  <2>1. Sign(storage, q) \in Nat /\ Sign(storage, q) >= MIN_REQUIRED_SIGNATURES
    BY <1>3, <1>7, IInvFacts, PoolFields DEF Sign, Signed
  <2> QED  BY <1>7, <2>1 DEF OpenVault
<1>10. storage.returned[q] + old.remainingAmount = old.totalAmount - storage.paid[q]
  <2>1. InFlight(q) = 0
    BY <1>5 DEF InFlight, Idle, InExecutePayout
  <2>2. /\ storage.paid[q] \in Nat /\ old.totalAmount \in Nat /\ old.remainingAmount \in Nat
        /\ old.totalAmount + InFlight(q) = old.remainingAmount + storage.paid[q] + storage.returned[q]
    BY LedgerTerms
  <2> DEFINE x == storage.paid[q]
             y == old.totalAmount
             z == old.remainingAmount
             w == storage.returned[q]
  <2>3. x \in Nat /\ y \in Nat /\ z \in Nat /\ w = 0 /\ y + 0 = z + x + w
    BY <1>8, <2>1, <2>2
  <2> HIDE DEF x, y, z, w
  <2>4. w + z = y - x
    BY <2>3
  <2> QED  BY <2>4 DEF x, y, z, w
<1> HIDE DEF new
<1>11. /\ storage'.prizePools[q] = new
       /\ storage'.returned[q] = storage.returned[q] + old.remainingAmount
       /\ \A p \in PoolIds : p # q => /\ storage'.prizePools[p] = storage.prizePools[p]
                                      /\ storage'.returned[p] = storage.returned[p]
  BY <1>2, IInvFacts
<1>12. Empties(committed, storage', q)
  BY <1>2, <1>3, <1>4, <1>5, <1>9, <1>10, <1>11 DEF Empties, Sign, Terminal
<1>13. ASSUME NEW p \in PoolIds, p # q
       PROVE  Settles(committed, storage', p)
  BY <1>2, <1>5, <1>11, <1>13, SettlesStill
<1>14. Plain(storage')
  BY <1>3, <1>4, <1>7, <1>11 DEF Custodial, Plain, Sign, Terminal
<1>15. \A r \in PayoutIds : Lives(committed.payoutRequests[r], storage'.payoutRequests[r])
  BY <1>2, <1>5 DEF Lives
<1>16. Tx'
  BY <1>6, <1>12, <1>13, <1>15 DEF Tx, Running
<1> QED  BY <1>6, <1>14, <1>16 DEF Custodial, Transacts

LEMMA FinishReturnCustody ==
  ASSUME IInv, Custodial, FinishReturnToHost
  PROVE  Custodial' /\ Transacts
<1>1. /\ ~Idle /\ ~InExecutePayout /\ Idle'
      /\ storage' = storage /\ committed' = storage
  BY DEF FinishReturnToHost, Idle, InExecutePayout, NoFrame
<1>2. Tx /\ Plain(storage)
  BY DEF Custodial
<1>3. \A p \in PoolIds : VaultGoes(p)
  BY <1>1, <1>2 DEF Tx, VaultGoes
<1>4. \A r \in PayoutIds : RequestGoes(r)
  BY <1>1, <1>2 DEF Tx, Running, RequestGoes
<1>5. Tx'
  BY <1>1, NothingRuns
<1> QED  BY <1>1, <1>2, <1>3, <1>4, <1>5 DEF Custodial, Transacts

LEMMA RevertCustody ==
  ASSUME IInv, Custodial, Revert
  PROVE  Custodial' /\ Transacts
<1>1. storage' = committed /\ committed' = committed /\ Idle'
  BY DEF Revert, Idle, NoFrame
<1>2. Tx'
  BY <1>1, NothingRuns
<1> QED  BY <1>1, <1>2 DEF Custodial, Transacts

LEMMA StandingCustody ==
  ASSUME Custodial, UNCHANGED <<storage, committed, frame>>
  PROVE  Custodial' /\ Transacts
<1>1. storage' = storage /\ committed' = committed /\ frame' = frame
  OBVIOUS
<1>2. Custodial'
  BY <1>1 DEF Custodial, Tx, Running, InFlight, Current, FrameBatch, InExecutePayout, Idle
<1> QED  BY <1>1, <1>2 DEF Transacts

LEMMA StepCustody ==
  ASSUME IInv, IInv', Closing, Booked, Custodial, [Next]_vars
  PROVE  Custodial' /\ Transacts
<1>1. CASE Funding
  <2>1. CASE \E sender \in Accounts, value \in StrayAmounts : Receive(sender, value)
    <3>1. InOneStep
      BY <2>1 DEF Receive
    <3>2. /\ storage'.prizePools = storage.prizePools /\ storage'.paid = storage.paid
          /\ storage'.returned = storage.returned
          /\ storage'.payoutRequests = storage.payoutRequests
      BY <2>1, IInvFacts DEF Receive, Storage
    <3>3. \A r \in PayoutIds : Lives(storage.payoutRequests[r], storage'.payoutRequests[r])
      BY <3>2 DEF Lives
    <3> QED  BY <3>1, <3>2, <3>3, PoolsStill
  <2> QED  BY <1>1, <2>1, CreateCustody, FundCustody DEF Funding
<1>2. CASE Requests
  BY <1>2, RequestPayoutCustody, DecisionCustody, ExecuteCustody DEF Requests
<1>3. CASE Progress
  BY <1>3, TransferCustody, ReturnsCustody, FinishPayoutCustody, FinishReturnCustody, RevertCustody
  DEF Progress
<1>4. CASE Withdrawals
  BY <1>4, MarkCustody, ReturnToHostCustody DEF Withdrawals
<1>5. CASE Administration
  <2>1. CASE \E sender \in Accounts, p \in PoolIds : LockPool(sender, p)
    BY <2>1, MarkCustody
  <2>2. CASE ~\E sender \in Accounts, p \in PoolIds : LockPool(sender, p)
    <3>1. InOneStep /\ UNCHANGED Books(storage)
      BY <1>5, <2>2, IInvFacts, BooksUntouched
      DEF Administration, SetPaused, GrantRole, RevokeRole, Storage, Books
    <3> QED  BY <3>1, QuietCustody
  <2> QED  BY <2>1, <2>2
<1>6. CASE Tick
  BY <1>6, StandingCustody DEF Tick
<1>7. CASE UNCHANGED vars
  BY <1>7, StandingCustody DEF vars
<1> QED  BY <1>1, <1>2, <1>3, <1>4, <1>5, <1>6, <1>7 DEF Next

LEMMA InitCustodial == Init => Custodial
<1> SUFFICES ASSUME Init
             PROVE  Custodial
  OBVIOUS
<1>1. /\ storage.prizePools = [p \in PoolIds |-> ZeroPool] /\ committed = storage
      /\ storage.returned = [p \in PoolIds |-> 0]
      /\ frame = NoFrame
  BY DEF Init
<1>2. Plain(storage)
  BY <1>1 DEF Plain, Sign, ZeroPool
<1>3. Idle /\ ~InExecutePayout
  BY <1>1 DEF Idle, InExecutePayout, NoFrame
<1>4. Tx
  BY <1>1, <1>3, SettlesStill DEF Tx, Running, Lives
<1> QED  BY <1>1, <1>2, <1>4 DEF Custodial

LEMMA CustodyInit == Init => Custody!Init
<1> SUFFICES ASSUME Init
             PROVE  Custody!Init
  OBVIOUS
<1>1. /\ committed.prizePools = [p \in PoolIds |-> ZeroPool]
      /\ committed.payoutRequests = [r \in PayoutIds |-> ZeroRequest]
      /\ committed.paid = [p \in PoolIds |-> 0] /\ committed.returned = [p \in PoolIds |-> 0]
  BY DEF Init
<1>2. committed \in Storage
  BY InitIInv, IInvFacts
<1>3. ASSUME NEW p \in PoolIds
      PROVE  VaultOf(committed, p) = Custody!NoVault
  <2>1. PICK v, s : v = VaultOf(s, p) /\ s = committed
    OBVIOUS
  <2>2. /\ v = [quorum |-> v.quorum, deposited |-> v.deposited, paid |-> v.paid,
                returned |-> v.returned, closed |-> v.closed]
        /\ v.quorum = Sign(s, p) /\ v.deposited = s.prizePools[p].totalAmount
        /\ v.paid = s.paid[p] /\ v.returned = s.returned[p]
        /\ v.closed \in BOOLEAN
        /\ v.closed = TRUE <=> Terminal(s, p)
    <3>1. s \in Storage
      BY <1>2, <2>1
    <3> QED  BY ONLY <2>1, <3>1, VaultFields, p \in PoolIds
  <2>3. /\ Sign(s, p) = 0 /\ s.prizePools[p].totalAmount = 0 /\ s.paid[p] = 0 /\ s.returned[p] = 0
        /\ ~Terminal(s, p)
    BY <1>1, <2>1 DEF ZeroPool, Sign, Terminal
  <2>4. v.quorum = 0 /\ v.deposited = 0 /\ v.paid = 0 /\ v.returned = 0 /\ v.closed = FALSE
    BY ONLY <2>2, <2>3
  <2>5. v = Custody!NoVault
    BY ONLY <2>2, <2>4 DEF Custody!NoVault
  <2> QED  BY <2>1, <2>5
<1>4. ASSUME NEW r \in PayoutIds
      PROVE  /\ RequestOf(committed, r) \in Custody!Request
             /\ RequestOf(committed, r).state = "none" /\ RequestOf(committed, r).signers = {}
  <2>1. ~committed.payoutRequests[r].exists /\ committed.payoutRequests[r].approvals = {}
    BY <1>1 DEF ZeroRequest
  <2> QED  BY <1>2, <2>1, RequestOfType DEF RequestOf, RequestState
<1>5. AbstractVaults = [p \in PoolIds |-> Custody!NoVault]
  BY <1>3 DEF AbstractVaults
<1>6. AbstractRequests \in [PayoutIds -> Custody!Request]
  BY <1>4 DEF AbstractRequests
<1>7. \A r \in PayoutIds : AbstractRequests[r].state = "none" /\ AbstractRequests[r].signers = {}
  BY <1>4 DEF AbstractRequests
<1> QED  BY <1>5, <1>6, <1>7 DEF Custody!Init

\* The escrow implements the custody of the prizes: whatever a recipient's code
\* does while it is paid, a finished transaction opens vaults, takes deposits,
\* releases exactly the amount of a request with a quorum behind it, once, or
\* returns all that is left, and a vault with nothing left stays closed.
THEOREM EscrowKeepsCustody == Spec => ImplementsCustody
<1>1. Init => Custodial
  BY InitCustodial
<1>2. IInv /\ IInv' /\ Closing /\ Booked /\ Custodial /\ [Next]_vars => Custodial'
  BY StepCustody
<1>3. IInv /\ IInv' /\ Closing /\ Booked /\ Custodial /\ [Next]_vars
        => [Custody!Next]_<<AbstractVaults, AbstractRequests>>
  <2> SUFFICES ASSUME IInv, IInv', Closing, Booked, Custodial, [Next]_vars
               PROVE  [Custody!Next]_<<AbstractVaults, AbstractRequests>>
    OBVIOUS
  <2>1. Transacts
    BY StepCustody
  <2>2. CASE UNCHANGED committed
    BY <2>2 DEF AbstractVaults, AbstractRequests, VaultOf, RequestOf, Terminal
  <2>3. CASE (\A p \in PoolIds : VaultGoes(p)) /\ \A r \in PayoutIds : RequestGoes(r)
    BY <2>3, VaultSteps, RequestSteps DEF Custody!Next
  <2> QED  BY <2>1, <2>2, <2>3 DEF Transacts
<1> QED  BY <1>1, <1>2, <1>3, CustodyInit, ClosingInvariance, BooksInvariance, PTL
         DEF Spec, ImplementsCustody, Custody!Spec

=============================================================================
