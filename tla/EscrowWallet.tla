---------------------------- MODULE EscrowWallet ----------------------------
(***************************************************************************)
(* The custodial escrow wallet: wallet/wallet-manager.service.ts and       *)
(* wallet/escrow.service.ts, over the database, whose writes may fail or   *)
(* be made and their answers lost, and the chain.  Each await of a request *)
(* is the end of a step; the process may stop between two, which loses     *)
(* requests, cache and watchers.                                           *)
(***************************************************************************)
EXTENDS Integers, Sequences, SequencesExt

CONSTANTS
    Calls,                     \* requests
    Payouts,                   \* the amounts a payout may be asked for, one per recipient
    MaxFunds, MaxCrashes       \* bounds

VARIABLES
    wallet,        \* its WalletConfig: "none", "active" or "inactive"
    cached,        \* walletCache has it, for less than five minutes
    calls,         \* request -> [op, pc, todo, next], next a position in todo
    txs,           \* the chain: [call, i, amount, mined]
    balance, funded,
    transactions,  \* the WalletTransactions of payouts: [call, i, status, tx], tx 0 without hash
    deposits,      \* the statuses of the recorded deposits
    watchers,      \* records whose waitForConfirmation runs
    crashes

vars == <<wallet, cached, calls, txs, balance, funded, transactions, deposits, watchers, crashes>>
chain == <<txs, balance, funded>>
books == <<transactions, deposits, watchers>>

Ops == {"payout", "deposit", "deactivate"}
Steps == {"begin", "find", "found", "generate", "save", "balance", "send", "record", "recordFailed",
          "done", "thrown", "lost"}

Init ==
    /\ wallet = "none" /\ cached = FALSE
    /\ calls = [c \in Calls |-> [op |-> "deposit", pc |-> "new", todo |-> <<>>, next |-> 1]]
    /\ txs = <<>> /\ balance = 0 /\ funded = 0
    /\ transactions = <<>> /\ deposits = {} /\ watchers = {} /\ crashes = 0

-----------------------------------------------------------------------------
Goto(c, step) == calls' = [calls EXCEPT ![c].pc = step]
At(c, op, step) == calls[c].op = op /\ calls[c].pc = step
Ended(c) == calls[c].pc \in {"new", "done", "thrown", "lost"}

Request(c, op, todo) ==
    /\ calls[c].pc = "new"
    /\ calls' = [calls EXCEPT ![c] = [op |-> op, pc |-> "begin", todo |-> todo, next |-> 1]]
    /\ UNCHANGED <<wallet, cached, chain, books, crashes>>

\* recordDeposit asks getEscrowAddress for an active wallet ...
getWalletAddress(c) ==
    /\ At(c, "deposit", "begin")
    /\ Goto(c, IF wallet = "active" THEN "save" ELSE "find")
    /\ UNCHANGED <<wallet, cached, chain, books, crashes>>
\* ... which generates one when there is none, active or not, of the name.
FindExisting(c) ==
    /\ At(c, "deposit", "find")
    /\ Goto(c, IF wallet = "none" THEN "generate" ELSE "thrown")
    /\ UNCHANGED <<wallet, cached, chain, books, crashes>>
\* The name is unique: of two requests that found none, one saves.
generateWallet(c) ==
    /\ At(c, "deposit", "generate")
    /\ \/ /\ wallet = "none" /\ wallet' = "active"
          /\ \E step \in {"save", "thrown"} : Goto(c, step)
       \/ wallet' = wallet /\ Goto(c, "thrown")
    /\ UNCHANGED <<cached, chain, books, crashes>>
\* A deposit with a hash stays PENDING: nothing looks it up on the chain.
recordDeposit(c) ==
    /\ At(c, "deposit", "save")
    /\ \/ \E status \in {"PENDING", "CONFIRMED"}, step \in {"done", "thrown"} :
             deposits' = deposits \cup {status} /\ Goto(c, step)
       \/ deposits' = deposits /\ Goto(c, "thrown")
    /\ UNCHANGED <<wallet, cached, chain, transactions, watchers, crashes>>

\* A save whose answer is lost leaves an inactive wallet in the cache.
deactivateWallet(c) ==
    /\ calls[c].op = "deactivate"
    /\ \/ /\ calls[c].pc = "begin"
          /\ Goto(c, IF wallet = "none" THEN "thrown" ELSE "save")
          /\ UNCHANGED <<wallet, cached>>
       \/ /\ calls[c].pc = "save"
          /\ \/ wallet' = "inactive" /\ cached' = FALSE /\ Goto(c, "done")
             \/ wallet' \in {wallet, "inactive"} /\ cached' = cached /\ Goto(c, "thrown")
    /\ UNCHANGED <<chain, books, crashes>>

\* loadWallet: the cache, or the active document, cached before its save ends.
loadWallet(c) ==
    /\ calls[c].op = "payout"
    /\ \/ /\ calls[c].pc = "begin" /\ cached' = cached
          /\ Goto(c, IF cached THEN "balance" ELSE "find")
       \/ /\ calls[c].pc = "find" /\ wallet # "active" /\ cached' = cached
          /\ Goto(c, "thrown")
       \/ /\ calls[c].pc = "find" /\ wallet = "active" /\ cached' = cached
          /\ Goto(c, "found")
       \/ /\ calls[c].pc = "found" /\ cached' = TRUE
          /\ \E step \in {"balance", "thrown"} : Goto(c, step)
    /\ UNCHANGED <<wallet, chain, books, crashes>>

CheckBalance(c) ==
    /\ At(c, "payout", "balance")
    /\ Goto(c, IF balance < FoldLeft(+, 0, calls[c].todo) THEN "thrown" ELSE "send")
    /\ UNCHANGED <<wallet, cached, chain, books, crashes>>

\* The node takes the transaction, and its answer may be lost; or it refuses it.
sendTransaction(c) ==
    /\ At(c, "payout", "send")
    /\ \/ /\ txs' = Append(txs, [call |-> c, i |-> calls[c].next,
                                 amount |-> calls[c].todo[calls[c].next], mined |-> "no"])
          /\ \E step \in {"record", "recordFailed"} : Goto(c, step)
       \/ txs' = txs /\ Goto(c, "recordFailed")
    /\ UNCHANGED <<wallet, cached, balance, funded, books, crashes>>

\* The loop goes to the next recipient, or the request ends.
NextRecipient(c) ==
    calls' = [calls EXCEPT ![c].pc = IF calls[c].next = Len(calls[c].todo) THEN "done" ELSE "send",
                           ![c].next = IF @ = Len(calls[c].todo) THEN @ ELSE @ + 1]

Recorded(c, status, tx) ==
    transactions' = Append(transactions, [call |-> c, i |-> calls[c].next, status |-> status, tx |-> tx])

\* The transaction of this step is the last one of the call.
LastTx(c) == CHOOSE n \in DOMAIN txs :
    /\ txs[n].call = c
    /\ \A m \in DOMAIN txs : txs[m].call = c => m <= n

\* A save that fails counts as a payment that failed, and so does one that was made and
\* its answer lost: that record stays, and nothing waits for its confirmation.
RecordSent(c) ==
    /\ At(c, "payout", "record")
    /\ \/ /\ Recorded(c, "PENDING", LastTx(c)) /\ NextRecipient(c)
          /\ watchers' = watchers \cup {Len(transactions) + 1}
       \/ /\ Recorded(c, "PENDING", LastTx(c)) \/ UNCHANGED transactions
          /\ watchers' = watchers /\ Goto(c, "recordFailed")
    /\ UNCHANGED <<wallet, cached, chain, deposits, crashes>>

\* Mutant: the failure is logged and not recorded.
LogOnly(c) ==
    /\ At(c, "payout", "recordFailed")
    /\ NextRecipient(c)
    /\ UNCHANGED <<wallet, cached, chain, books, crashes>>
RecordFailed(c) ==
    /\ At(c, "payout", "recordFailed")
    /\ \/ Recorded(c, "FAILED", 0) /\ NextRecipient(c)
       \/ Recorded(c, "FAILED", 0) /\ Goto(c, "thrown")
       \/ UNCHANGED transactions /\ Goto(c, "thrown")
    /\ UNCHANGED <<wallet, cached, chain, deposits, watchers, crashes>>

\* tx.wait returns or throws; an update that fails is taken for a failed transaction,
\* and when that update fails too the record stays as it is.
waitForConfirmation(r) ==
    /\ r \in watchers /\ txs[transactions[r].tx].mined # "no"
    /\ watchers' = watchers \ {r}
    /\ \/ /\ txs[transactions[r].tx].mined = "ok"
          /\ transactions' = [transactions EXCEPT ![r].status = "CONFIRMED"]
       \/ transactions' = [transactions EXCEPT ![r].status = "FAILED"]
       \/ transactions' = transactions
    /\ UNCHANGED <<wallet, cached, calls, chain, deposits, crashes>>

\* clearCache, or five minutes.
ClearCache ==
    /\ cached /\ cached' = FALSE
    /\ UNCHANGED <<wallet, calls, chain, books, crashes>>

\* The chain: money comes in, transactions are mined or reverted.
Fund ==
    /\ wallet # "none" /\ funded < MaxFunds
    /\ balance' = balance + 1 /\ funded' = funded + 1
    /\ UNCHANGED <<wallet, cached, calls, txs, books, crashes>>
Mine(n) ==
    /\ n \in DOMAIN txs /\ txs[n].mined = "no"
    /\ \/ /\ balance >= txs[n].amount
          /\ txs' = [txs EXCEPT ![n].mined = "ok"] /\ balance' = balance - txs[n].amount
       \/ txs' = [txs EXCEPT ![n].mined = "reverted"] /\ balance' = balance
    /\ UNCHANGED <<wallet, cached, calls, funded, books, crashes>>

Crash ==
    /\ crashes < MaxCrashes /\ crashes' = crashes + 1
    /\ cached' = FALSE /\ watchers' = {}
    /\ calls' = [c \in Calls |-> IF Ended(c) THEN calls[c] ELSE [calls[c] EXCEPT !.pc = "lost"]]
    /\ UNCHANGED <<wallet, chain, transactions, deposits>>

Next ==
    \/ \E c \in Calls :
          \/ Request(c, "deposit", <<>>) \/ Request(c, "deactivate", <<>>)
          \/ \E todo \in Payouts : Request(c, "payout", todo)
          \/ getWalletAddress(c) \/ FindExisting(c) \/ generateWallet(c) \/ recordDeposit(c)
          \/ deactivateWallet(c) \/ loadWallet(c) \/ CheckBalance(c)
          \/ sendTransaction(c) \/ RecordSent(c) \/ RecordFailed(c)
    \/ \E r \in DOMAIN transactions : waitForConfirmation(r)
    \/ \E n \in DOMAIN txs : Mine(n)
    \/ ClearCache \/ Fund \/ Crash

Spec == Init /\ [][Next]_vars

-----------------------------------------------------------------------------
TypeOK ==
    /\ wallet \in {"none", "active", "inactive"} /\ cached \in BOOLEAN
    /\ \A c \in Calls : calls[c].op \in Ops /\ calls[c].pc \in Steps \cup {"new"}
    /\ \A n \in DOMAIN txs : txs[n].call \in Calls /\ txs[n].mined \in {"no", "ok", "reverted"}
    /\ \A r \in DOMAIN transactions :
          /\ transactions[r].status \in {"PENDING", "CONFIRMED", "FAILED"}
          /\ transactions[r].tx \in 0 .. Len(txs)
    /\ watchers \subseteq DOMAIN transactions
    /\ balance \in 0 .. funded /\ deposits \subseteq {"PENDING", "CONFIRMED"}

RecordsOf(c, i) == {r \in DOMAIN transactions : transactions[r].call = c /\ transactions[r].i = i}

\* The record r of a payment and the later q: r was saved with the hash but its answer lost,
\* so that nobody follows it, and q was written by the catch.
AnswerLost(r, q) ==
    /\ transactions[r].status = "PENDING" /\ transactions[r].tx # 0 /\ r \notin watchers
    /\ transactions[q].status = "FAILED" /\ transactions[q].tx = 0

\* Every payment that reached the chain has a record, whatever save failed or answer
\* was lost, once its request has gone on to the next recipient or ended by itself.
\* Its records have its hash or none, and it has two only where the answer of the first
\* one's save was lost.  No recipient of a request is sent two payments; and CONFIRMED
\* is only said of a payment that was mined.
EveryPaymentIsRecorded ==
    /\ \A n, m \in DOMAIN txs : n # m => <<txs[n].call, txs[n].i>> # <<txs[m].call, txs[m].i>>
    /\ \A n \in DOMAIN txs :
          LET c == txs[n].call
              own == RecordsOf(c, txs[n].i)
          IN  /\ txs[n].i < calls[c].next \/ calls[c].pc = "done" => own # {}
              /\ \A r \in own : transactions[r].tx \in {0, n}
              /\ \A r, q \in own : r < q => AnswerLost(r, q)
    /\ \A r \in DOMAIN transactions :
          transactions[r].status = "CONFIRMED" => txs[transactions[r].tx].mined = "ok"
=============================================================================
