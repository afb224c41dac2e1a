-------------------------- MODULE ContractService --------------------------
(***************************************************************************)
(* web3/contract.service.ts beyond payout (which PayoutJobs has): a call   *)
(* that sends a transaction, the reads of its state and the waits for it;  *)
(* and the answers that are put together from several reads, of which      *)
(* networkInfo is kept.  Every provider call is awaited, so each is a      *)
(* step, and the chain moves on between two.                               *)
(***************************************************************************)
EXTENDS Integers

CONSTANTS
    confirmations,  \* of waitForTransaction
    Callers,        \* of what reads the network
    MaxBlock        \* a bound

VARIABLES
    config,         \* "none": no provider; "read": no signer; "write": both
    factory,        \* whether eventFactoryAddress is configured
    block, tx,      \* the chain's height, and the transaction's state on it
    op, call,       \* the call that sends it, and where it is
    lost,           \* history: whether the call lost sight of the transaction
    status,         \* a call of getTransactionStatus: [step, status, at, confirmations]
    wait,           \* a call of waitForTransaction
    waited,         \* history: whether status was asked for after the wait was over
    networkInfo,    \* at most one: [blockNumber, gasPrice], the block of each read
    calls           \* [step, op, began, blockNumber, gasPrice]

chain == <<config, factory, block, tx>>
sender == <<op, call, lost>>
readers == <<status, wait, waited>>
network == <<networkInfo, calls>>
vars == <<config, factory, block, tx, op, call, lost, status, wait, waited, networkInfo, calls>>

Ops == {"createEvent", "fundEvent", "sendRawTransaction"}
NotAsked == [step |-> "idle", status |-> "pending", at |-> 0, confirmations |-> 0]
NoCall == [step |-> "idle", op |-> "getNetworkInfo", began |-> 0, blockNumber |-> 0, gasPrice |-> 0]

Init ==
    /\ config \in {"none", "read", "write"} /\ factory \in BOOLEAN
    /\ block = 0 /\ tx = [status |-> "none", at |-> 0]
    /\ op \in Ops /\ call = "idle" /\ lost = FALSE
    /\ status = NotAsked /\ wait = "idle" /\ waited = FALSE
    /\ networkInfo = {} /\ calls = [c \in Callers |-> NoCall]

-----------------------------------------------------------------------------
\* The chain, and the node the provider talks to.
Mine ==
    /\ block < MaxBlock /\ block' = block + 1
    /\ \/ UNCHANGED tx
       \/ /\ tx.status = "pending"
          /\ \E s \in {"success", "failed"} : tx' = [status |-> s, at |-> block']
    /\ UNCHANGED <<config, factory, sender, readers, network>>

Begin(o, next) ==
    /\ op = o /\ call = "idle" /\ call' = next
    /\ UNCHANGED <<chain, op, lost, readers, network>>

\* getSigner throws when there is none, inside the try of its callers.
Signed == IF config = "write" THEN "sending" ELSE "failure"

\* An event without a factory is reported as created.
createEvent == Begin("createEvent", IF factory THEN Signed ELSE "skipped")
fundEvent == Begin("fundEvent", Signed)
sendRawTransaction ==
    Begin("sendRawTransaction", IF config = "none" THEN "failure" ELSE "sending")

Broadcast == tx' = [tx EXCEPT !.status = "pending"] /\ UNCHANGED <<config, factory, block>>

\* The node takes the transaction; or it refuses it, or its answer does not come back.
Sent ==
    /\ call = "sending"
    /\ \/ Broadcast /\ call' = "waiting" /\ UNCHANGED lost
       \/ UNCHANGED chain /\ call' = "failure" /\ UNCHANGED lost
       \/ Broadcast /\ call' = "failure" /\ lost' = TRUE
    /\ UNCHANGED <<op, readers, network>>

\* tx.wait() rejects when the transaction failed, or when the node does.
Receipt ==
    /\ call = "waiting"
    /\ \/ tx.status = "success" /\ call' = "success" /\ UNCHANGED lost
       \/ tx.status = "failed" /\ call' = "failure" /\ UNCHANGED lost
       \/ call' = "failure" /\ lost' = TRUE
    /\ UNCHANGED <<chain, op, readers, network>>

\* getTransactionStatus: the transaction, the receipt and the current block, one after the
\* other; a transaction that was not found is reported only after the receipt was read.
GetTransaction ==
    /\ config # "none" /\ status.step = "idle"
    /\ status' = [status EXCEPT !.step = IF tx.status = "none" THEN "unknown" ELSE "known"]
    /\ waited' = (wait = "confirmed")
    /\ UNCHANGED <<chain, sender, wait, network>>

GetTransactionReceipt ==
    /\ status.step = "known"
    /\ status' = [status EXCEPT !.step = "receipt", !.status = tx.status, !.at = tx.at]
    /\ UNCHANGED <<chain, sender, wait, waited, network>>

GetBlockNumber ==
    /\ status.step = "receipt"
    /\ status' = [status EXCEPT !.step = "done",
                    !.confirmations = IF status.status = "pending" THEN 0 ELSE block - status.at]
    /\ UNCHANGED <<chain, sender, wait, waited, network>>

\* It is asked again, also after a read that rejected or did not find the transaction.
StatusAgain ==
    /\ status # NotAsked /\ status' = NotAsked /\ waited' = FALSE
    /\ UNCHANGED <<chain, sender, wait, network>>

\* The provider counts the block of the transaction as its first confirmation, and resolves
\* for a failed transaction too.
WaitForTransaction ==
    /\ config # "none"
    /\ \/ wait = "idle" /\ wait' = "waiting"
       \/ /\ wait = "waiting" /\ wait' = "confirmed"
          /\ tx.status \in {"success", "failed"} /\ block - tx.at + 1 >= confirmations
       \/ wait = "waiting" /\ wait' = "timed out"
    /\ UNCHANGED <<chain, sender, status, waited, network>>

-----------------------------------------------------------------------------
Ended == {"idle", "refreshed", "cached", "stats", "estimated"}
Goto(c, s) == calls' = [calls EXCEPT ![c].step = s]
Unkept == UNCHANGED <<chain, sender, readers, networkInfo>>

Called(c, o, step, n) ==
    /\ config # "none" /\ calls[c].step \in Ended
    /\ calls' = [calls EXCEPT ![c] = [NoCall EXCEPT !.op = o, !.step = step, !.began = block,
                                                    !.blockNumber = n]]
    /\ Unkept

\* The constructor, getNetworkInfo(true), and getNetworkInfo when there is none yet;
\* getNetworkInfo otherwise.
getNetworkInfo(c) ==
    \/ Called(c, "getNetworkInfo", "getNetwork", 0)
    \/ \E i \in networkInfo : Called(c, "getNetworkInfo", "cached", i.blockNumber)
getProviderStats(c) == Called(c, "getProviderStats", "checkConnection", 0)
estimateGas(c) == Called(c, "estimateGas", "estimateGas", 0)

\* Whether it answers or not, what follows in getProviderStats is getNetworkInfo().
checkConnection(c) ==
    /\ calls[c].step = "checkConnection"
    /\ \/ networkInfo = {} /\ Goto(c, "getNetwork")
       \/ \E i \in networkInfo :
            calls' = [calls EXCEPT ![c].step = "getGasPrice of stats",
                                   ![c].blockNumber = i.blockNumber]
    /\ Unkept

NetworkRead(c) == calls[c].step = "getNetwork" /\ Goto(c, "getBlockNumber") /\ Unkept

BlockRead(c) ==
    /\ calls[c].step = "getBlockNumber"
    /\ calls' = [calls EXCEPT ![c].step = "getGasPrice", ![c].blockNumber = block]
    /\ Unkept

GasPriceRead(c) ==
    /\ calls[c].step = "getGasPrice"
    /\ Goto(c, IF calls[c].op = "getProviderStats" THEN "getGasPrice of stats" ELSE "refreshed")
    /\ networkInfo' = {[blockNumber |-> calls[c].blockNumber, gasPrice |-> block,
                        began |-> calls[c].began]}
    /\ UNCHANGED <<chain, sender, readers>>

\* And then, with a signer, its balance, which has a place of its own in the answer.
getGasPrice(c) ==
    /\ calls[c].step = "getGasPrice of stats"
    /\ calls' = [calls EXCEPT ![c].gasPrice = block, ![c].step = "stats"]
    /\ Unkept

GasLimitRead(c) ==
    /\ calls[c].step = "estimateGas"
    /\ calls' = [calls EXCEPT ![c].step = "getFeeData", ![c].blockNumber = block]
    /\ Unkept
FeeDataRead(c) ==
    /\ calls[c].step = "getFeeData"
    /\ calls' = [calls EXCEPT ![c].step = "estimated", ![c].gasPrice = block]
    /\ Unkept

\* A read that rejects leaves what was kept.
ReadFails(c) == calls[c].step \notin Ended \cup {"checkConnection"} /\ Goto(c, "idle") /\ Unkept

Next ==
    \/ Mine \/ createEvent \/ fundEvent \/ sendRawTransaction \/ Sent \/ Receipt
    \/ GetTransaction \/ GetTransactionReceipt \/ GetBlockNumber \/ StatusAgain
    \/ WaitForTransaction
    \/ \E c \in Callers :
         \/ getNetworkInfo(c) \/ getProviderStats(c) \/ estimateGas(c) \/ checkConnection(c)
         \/ NetworkRead(c) \/ BlockRead(c) \/ GasPriceRead(c) \/ getGasPrice(c) \/ GasLimitRead(c)
         \/ FeeDataRead(c) \/ ReadFails(c)

Spec == Init /\ [][Next]_vars

-----------------------------------------------------------------------------
TypeOK ==
    /\ tx.status \in {"none", "pending", "success", "failed"} /\ tx.at \in 0 .. block
    /\ call \in {"idle", "skipped", "sending", "waiting", "success", "failure"}
    /\ status.step \in {"idle", "known", "unknown", "receipt", "done"}
    /\ status.status \in {"pending", "success", "failed"}
    /\ status.confirmations \in 0 .. MaxBlock
    /\ wait \in {"idle", "waiting", "confirmed", "timed out"}
    /\ networkInfo \subseteq [blockNumber : 0 .. block, gasPrice : 0 .. block, began : 0 .. block]
    /\ \A c \in Callers :
         {calls[c].began, calls[c].blockNumber, calls[c].gasPrice} \subseteq 0 .. block

\* What callers are told of a transaction is true of the chain, although each answer is put
\* together from several reads: a success was mined as one, a failure did not succeed unless
\* the call lost sight of it, a status that is not pending is the final one, with no more
\* confirmations than there are, and at most one less than a wait that is over has counted.
ReportsAreTrue ==
    /\ call = "success" => tx.status = "success"
    /\ call = "failure" /\ ~lost => tx.status \in {"none", "failed"}
    /\ call = "skipped" => tx.status = "none"
    /\ status.step = "done" =>
         /\ status.status # "pending" => status.status = tx.status
         /\ status.confirmations <= block - status.at
         /\ waited => status.status # "pending" /\ status.confirmations >= confirmations - 1

\* isReady; once it is, it stays so.
isReady == config # "none" /\ networkInfo # {}

\* What is kept is of one refresh, whatever overlapped it: the block number was read after
\* that refresh began and before the gas price.  Whoever had it refreshed was given a block
\* no older than the call, and from then on the service is ready.  In the statistics the
\* block may be older than the call, the gas price is not, nor is what an estimate is of.
InfoIsOfOneRefresh ==
    /\ \A i \in networkInfo : i.began <= i.blockNumber /\ i.blockNumber <= i.gasPrice
    /\ \A c \in Callers :
         /\ calls[c].step \in {"refreshed", "estimated"} => calls[c].blockNumber >= calls[c].began
         /\ calls[c].step \in {"stats", "estimated"} =>
              calls[c].gasPrice >= calls[c].began /\ calls[c].gasPrice >= calls[c].blockNumber
         /\ calls[c].step \in {"refreshed", "cached", "stats"} => isReady
=============================================================================
